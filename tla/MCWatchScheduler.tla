-------------------------- MODULE MCWatchScheduler --------------------------
(***************************************************************************)
(* Small instances of the scheduler for TLC.                               *)
(***************************************************************************)
EXTENDS WatchSchedulerProps, TLC

RepoSymmetry == Permutations(Repos)
PathSymmetry == Permutations(Paths)
BothSymmetries == RepoSymmetry \cup PathSymmetry

(***************************************************************************)
(* Liveness, with events that never stop.  The scheduler compares instants  *)
(* and adds durations to them, so only their distance from now matters: the *)
(* clock stands and the instants move into the past, where those further    *)
(* back than the debounce cap are not told apart.  Horizon then bounds how  *)
(* far ahead a backoff may lie, that is the failures and conflicts in a row. *)
(***************************************************************************)
Standing == MaxDelay + 1

MovedBack(t) == IF t \in {NoTime, 0} THEN t ELSE t - 1

Elapse ==
  /\ queue' = [r \in Repos |-> [c \in Class |->
                 [queue[r][c] EXCEPT !.first = MovedBack(@), !.debounce = MovedBack(@),
                                     !.retry = MovedBack(@)]]]
  /\ UNCHANGED <<now, watched, active, hints, inflight, semPaths, running>>

\* The leases are held throughout: every repository is watched from the start, its startup
\* probe having queued a manifest-fast refresh or nothing.
HeldInit ==
  /\ now = Standing
  /\ watched = Repos
  /\ \E stale \in SUBSET Repos :
       queue = [r \in Repos |-> [c \in Class |->
                  IF c = ManifestFast /\ r \in stale THEN Enqueued(EmptyQueue) ELSE EmptyQueue]]
  /\ active = [r \in Repos |-> Idle]
  /\ hints = [r \in Repos |-> {}]
  /\ inflight = [r \in Repos |-> {}]
  /\ semPaths = [r \in Repos |-> {}]
  /\ running = [c \in Class |-> {}]

\* The storage schema stays compatible: a blocked refresh gives its changes up on purpose.
Unblocked ==
  \E r \in Repos :
    \/ \E followup \in BOOLEAN : SucceedManifest(r, followup)
    \/ SucceedSemantic(r)
    \/ \E c \in Class : FailsInTime(r, c) /\ Fail(r, c)

HeldNext == Elapse \/ Change \/ Start \/ Postpone \/ Unblocked

\* The loop dispatches on every tick, a worker sends its completion even when it panics
\* (run_caught_watch_index_work), and time passes.
HeldFairness ==
  /\ WF_schedVars(Elapse)
  /\ WF_schedVars(Start \/ Postpone)
  /\ \A r \in Repos : WF_schedVars(CompleteOf(r))

HeldSpec == HeldInit /\ [][HeldNext]_schedVars /\ HeldFairness

=============================================================================
