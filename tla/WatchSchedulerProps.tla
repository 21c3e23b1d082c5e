------------------------ MODULE WatchSchedulerProps -------------------------
(***************************************************************************)
(* What the scheduler must guarantee.                                      *)
(***************************************************************************)
EXTENDS WatchScheduler

\* Types of the scheduler's state.
TypeOK ==
  /\ now \in Nat
  /\ watched \in SUBSET Repos
  /\ queue \in [Repos -> [Class -> QueueState]]
  /\ active \in [Repos -> Class \cup {Idle}]
  /\ hints \in [Repos -> SUBSET Paths]
  /\ inflight \in [Repos -> SUBSET Paths]
  /\ semPaths \in [Repos -> SUBSET Paths]
  /\ running \in [Class -> SUBSET Repos]

\* The per-class in-flight sets and the per-repository active class always tell the
\* same story, so the two classes never hold one repository together.
ClassesDoNotCollide ==
  \A r \in Repos, c \in Class : r \in running[c] <=> active[r] = c

\* The scheduler never counts more refreshes of a class as running than its limit.  It stops
\* counting one whose repository is removed, though its worker goes on to its end.
WithinLimits ==
  \A c \in Class : Cardinality(running[c]) <= Limit(c)

\* While a manifest-fast refresh runs, another one is asked for exactly when a path
\* was touched since it started; when none runs, no rerun is asked for.
RerunMatchesHints ==
  \A r \in Repos :
    queue[r][ManifestFast].rerun <=> (active[r] = ManifestFast /\ hints[r] # {})

\* However long a storm of events lasts, a pending refresh is ready at most the debounce
\* cap or one backoff after it first became pending.
BoundedDelay ==
  \A r \in Repos, c \in Class :
    queue[r][c].pending =>
      /\ queue[r][c].first # NoTime
      /\ ReadyAt(queue[r][c]) <=
           queue[r][c].first + Later(MaxDelay, BackoffDelay(queue[r][c].attempts))

\* What the proofs need besides: an unwatched repository keeps nothing, paths are in flight
\* only with a running refresh, the follow-up never reruns, a running class awaits no retry.
UnwatchedIsForgotten == \A r \in Repos \ watched : FreshRepository(r)

InflightOnlyWhileActive ==
  \A r \in Repos : inflight[r] # {} => active[r] = ManifestFast

FollowupNeverReruns == \A r \in Repos : ~queue[r][SemanticFollowup].rerun

RunningAwaitsNoRetry ==
  \A r \in Repos, c \in Class : active[r] = c => queue[r][c].retry = NoTime

\* Exactly the pending queues have a deadline, so ready_at never falls back to "now", the
\* branch that would bypass debounce and backoff; and each deadline is within its bound.
QueueWellFormed(q) ==
  /\ ~q.pending => q.first = NoTime /\ q.debounce = NoTime /\ q.retry = NoTime
  /\ q.pending =>
       /\ q.first # NoTime
       /\ q.debounce # NoTime \/ q.retry # NoTime
       /\ q.debounce <= q.first + MaxDelay
       /\ q.retry <= q.first + BackoffDelay(q.attempts)

QueuesWellFormed == \A r \in Repos, c \in Class : QueueWellFormed(queue[r][c])

Supporting ==
  /\ UnwatchedIsForgotten
  /\ InflightOnlyWhileActive
  /\ FollowupNeverReruns
  /\ RunningAwaitsNoRetry
  /\ QueuesWellFormed

\* The scheduler keeps the change ledger: an accepted path stays in the hints or with the
\* running refresh until a refresh that started later has finished with it.
Owed(r) == hints[r] \cup inflight[r]
Covered(r) == inflight[r] \ hints[r]
PhaseOf(r) == IF active[r] = ManifestFast THEN "running"
              ELSE IF queue[r][ManifestFast].pending THEN "scheduled" ELSE "idle"

Ledger == INSTANCE ChangeLedger WITH
  owed <- [r \in Repos |-> Owed(r)],
  covering <- [r \in Repos |-> Covered(r)],
  phase <- [r \in Repos |-> PhaseOf(r)]

KeepsLedger == Ledger!LedgerSpec

\* A follow-up that is queued, running or waiting for its retry keeps the paths collected for
\* it: only its own completion or the release of the repository drops one.
FollowupOwnsItsPaths(r) ==
  queue[r][SemanticFollowup].pending \/ active[r] = SemanticFollowup

FollowupKeepsPaths ==
  [][\A r \in Repos :
       FollowupOwnsItsPaths(r) /\ ~(semPaths[r] \subseteq semPaths'[r])
         => FreshRepository(r)' \/ (active[r] = SemanticFollowup /\ active'[r] = Idle)]_schedVars

\* Paths keep being touched, or do not: what waits behind new changes is stated for when they stop.
ChangesStop == <>[][~Change]_schedVars

\* While leases are held and storage is compatible, every accepted change is settled, once the
\* changes stop, by a refresh that started after it: no coalescing, retry, rerun or full class
\* strands it.  While they go on, the refresh that takes a path may find it touched again.
EveryChangeSettles ==
  ChangesStop =>
    \A r \in Repos, p \in Paths : p \in hints[r] ~> p \notin hints[r] \cup inflight[r]

\* Once the changes stop, a queued follow-up runs: neither conflicts, failures nor the class's
\* limit leave it behind.  It may well wait as long as they go on, because next_ready_refresh
\* prefers every ready manifest-fast refresh, its own repository's or another's.
FollowupRuns ==
  ChangesStop =>
    \A r \in Repos :
      queue[r][SemanticFollowup].pending ~> ~queue[r][SemanticFollowup].pending

=============================================================================
