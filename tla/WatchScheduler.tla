--------------------------- MODULE WatchScheduler ---------------------------
(***************************************************************************)
(* The debounced refresh scheduler of crates/cli/src/watch/scheduler.rs,   *)
(* as its only caller, the supervisor loop of watch/supervisor.rs, drives   *)
(* it: file events are recorded, a ready refresh is started or deferred,    *)
(* and the completion of a started refresh is reported.                     *)
(*                                                                         *)
(* Every repository has two queues, one per refresh class.  Instants are    *)
(* natural numbers, durations are numbers of ticks and NoTime is Rust's     *)
(* None.  recent_paths (a sample kept for log lines) is left out.           *)
(***************************************************************************)
EXTENDS Integers, FiniteSets

CONSTANTS
  Repos,               \* repository ids
  Paths,               \* paths an accepted event can name
  Debounce,            \* watch.debounce_ms
  DebounceMultiplier,  \* MAX_DEBOUNCE_DELAY_MULTIPLIER
  Retry,               \* watch.retry_ms
  ManifestLimit,       \* watch.manifest_fast_concurrency
  SemanticLimit,       \* watch.semantic_followup_concurrency
  Horizon              \* bound: the last instant; inputs whose deadline would pass it do not happen

ManifestFast == "ManifestFast"
SemanticFollowup == "SemanticFollowup"
Class == {ManifestFast, SemanticFollowup}
Idle == "Idle"          \* active_class = None
NoTime == -1

ASSUME DurationsAssumption ==
  /\ Debounce \in Nat
  /\ DebounceMultiplier \in Nat
  /\ Retry \in Nat
  /\ Horizon \in Nat

ASSUME LimitsAssumption ==       \* with_concurrency_limits asserts both
  /\ ManifestLimit \in Nat \ {0}
  /\ SemanticLimit \in Nat \ {0}

VARIABLES
  now,        \* the supervisor's Instant::now()
  watched,    \* keys of WatchSchedulerState.repositories
  queue,      \* queue[r][c]: manifest_fast and semantic_followup of repository r
  active,     \* active[r]: active_class
  hints,      \* hints[r]: dirty_path_hints
  inflight,   \* inflight[r]: manifest_fast_inflight_paths
  semPaths,   \* semPaths[r]: semantic_followup_paths
  running     \* running[c]: in_flight_manifest_fast and in_flight_semantic_followup

repoVars == <<watched, queue, active, hints, inflight, semPaths, running>>
schedVars == <<now, watched, queue, active, hints, inflight, semPaths, running>>

Limit(c) == IF c = ManifestFast THEN ManifestLimit ELSE SemanticLimit

Instant == Nat \cup {NoTime}
Earlier(a, b) == IF a <= b THEN a ELSE b
Later(a, b) == IF a <= b THEN b ELSE a

(***************************************************************************)
(* RefreshQueueState and its methods.                                      *)
(***************************************************************************)
QueueState == [pending: BOOLEAN, first: Instant, debounce: Instant,
               retry: Instant, attempts: Nat, rerun: BOOLEAN]

EmptyQueue == [pending |-> FALSE, first |-> NoTime, debounce |-> NoTime,
               retry |-> NoTime, attempts |-> 0, rerun |-> FALSE]

Enqueued(q) ==
  [q EXCEPT !.pending = TRUE, !.first = now, !.debounce = now,
            !.retry = NoTime, !.attempts = 0]

Started(q) ==
  [q EXCEPT !.pending = FALSE, !.first = NoTime, !.debounce = NoTime, !.retry = NoTime]

\* Mutant: a success forgets that a rerun was asked for.
Succeeded_IgnoresRerun(q) ==
  [q EXCEPT !.pending = FALSE, !.rerun = FALSE, !.retry = NoTime, !.attempts = 0,
            !.first = NoTime, !.debounce = NoTime]

Succeeded(q) ==
  [q EXCEPT !.pending = q.rerun, !.rerun = FALSE, !.retry = NoTime, !.attempts = 0,
            !.first = IF ~q.rerun THEN NoTime ELSE IF @ = NoTime THEN now ELSE @,
            !.debounce = IF ~q.rerun THEN NoTime ELSE IF @ = NoTime THEN now ELSE @]

\* 1 << min(attempts - 1, MAX_RETRY_BACKOFF_EXPONENT), the exponent being 4.
BackoffFactor(attempts) ==
  CASE attempts <= 1 -> 1
    [] attempts = 2 -> 2
    [] attempts = 3 -> 4
    [] attempts = 4 -> 8
    [] OTHER -> 16

BackoffDelay(attempts) == Retry * BackoffFactor(attempts)

\* Mutant: a failure leaves the rerun flag set.
Failed_KeepsRerun(q) ==
  [q EXCEPT !.attempts = @ + 1, !.pending = TRUE, !.first = now,
            !.debounce = NoTime, !.retry = now + BackoffDelay(q.attempts + 1)]

Failed(q) ==
  [q EXCEPT !.attempts = @ + 1, !.pending = TRUE, !.first = now, !.rerun = FALSE,
            !.debounce = NoTime, !.retry = now + BackoffDelay(q.attempts + 1)]

Blocked(q) == EmptyQueue

\* ready_at of a pending queue.
ReadyAt(q) == IF q.debounce = NoTime /\ q.retry = NoTime
              THEN now ELSE Later(q.debounce, q.retry)

(***************************************************************************)
(* RepositoryWatchState::record_event, for a path the notify filter kept.  *)
(***************************************************************************)
MaxDelay == Debounce * DebounceMultiplier

\* Mutant: every event pushes the deadline back, without the cap.
RecordedManifest_NoCap(r) ==
  LET q == queue[r][ManifestFast]
      first == IF q.first = NoTime THEN now ELSE q.first
      busy == active[r] = ManifestFast
  IN IF q.retry # NoTime /\ ~busy
     THEN [q EXCEPT !.pending = TRUE, !.first = first]
     ELSE [q EXCEPT !.pending = TRUE, !.first = first,
                    !.debounce = now + Debounce, !.rerun = @ \/ busy]

RecordedManifest(r) ==
  LET q == queue[r][ManifestFast]
      first == IF q.first = NoTime THEN now ELSE q.first
      busy == active[r] = ManifestFast
  IN IF q.retry # NoTime /\ ~busy
     THEN [q EXCEPT !.pending = TRUE, !.first = first]
     ELSE [q EXCEPT !.pending = TRUE, !.first = first,
                    !.debounce = Earlier(now + Debounce, first + MaxDelay),
                    !.rerun = @ \/ busy]

\* Mutant: a follow-up that runs is reset as well.
ResetsSemantic_IgnoresRunning(r) ==
  /\ ~(queue[r][ManifestFast].retry # NoTime /\ active[r] # ManifestFast)
  /\ ~queue[r][SemanticFollowup].pending
  /\ queue[r][SemanticFollowup].retry = NoTime

\* A semantic queue with nothing queued, running or waiting for a retry restarts empty.
ResetsSemantic(r) ==
  /\ ~(queue[r][ManifestFast].retry # NoTime /\ active[r] # ManifestFast)
  /\ ~queue[r][SemanticFollowup].pending
  /\ active[r] # SemanticFollowup
  /\ queue[r][SemanticFollowup].retry = NoTime

RecordPathChange(r, p) ==
  /\ r \in watched
  /\ hints' = [hints EXCEPT ![r] = @ \cup {p}]
  /\ queue' = [queue EXCEPT ![r] =
                 [c \in Class |->
                    IF c = ManifestFast THEN RecordedManifest(r)
                    ELSE IF ResetsSemantic(r) THEN EmptyQueue ELSE @[c]]]
  /\ semPaths' = [semPaths EXCEPT ![r] =
                    IF queue[r][SemanticFollowup].pending THEN @ \cup {p}
                    ELSE IF ResetsSemantic(r) THEN {} ELSE @]
  /\ UNCHANGED <<now, watched, active, inflight, running>>

(***************************************************************************)
(* The LeaseAcquired and LeaseReleased commands.  add_repository keeps a    *)
(* state that is already there; the startup probe then queues nothing or   *)
(* one class (queue_startup_refresh_if_needed).                            *)
(***************************************************************************)
FreshRepository(r) ==
  /\ queue[r] = [c \in Class |-> EmptyQueue]
  /\ active[r] = Idle
  /\ hints[r] = {} /\ inflight[r] = {} /\ semPaths[r] = {}

AddRepository(r, startup) ==
  /\ watched' = watched \cup {r}
  /\ queue' = IF startup = Idle THEN queue
              ELSE [queue EXCEPT ![r][startup] = Enqueued(@)]
  /\ UNCHANGED <<now, active, hints, inflight, semPaths, running>>

\* Mutant: the in-flight sets keep the removed repository.
RemoveRepository_KeepsRunning(r) ==
  /\ watched' = watched \ {r}
  /\ queue' = [queue EXCEPT ![r] = [c \in Class |-> EmptyQueue]]
  /\ active' = [active EXCEPT ![r] = Idle]
  /\ hints' = [hints EXCEPT ![r] = {}]
  /\ inflight' = [inflight EXCEPT ![r] = {}]
  /\ semPaths' = [semPaths EXCEPT ![r] = {}]
  /\ UNCHANGED <<now, running>>

RemoveRepository(r) ==
  /\ watched' = watched \ {r}
  /\ queue' = [queue EXCEPT ![r] = [c \in Class |-> EmptyQueue]]
  /\ active' = [active EXCEPT ![r] = Idle]
  /\ hints' = [hints EXCEPT ![r] = {}]
  /\ inflight' = [inflight EXCEPT ![r] = {}]
  /\ semPaths' = [semPaths EXCEPT ![r] = {}]
  /\ running' = [c \in Class |-> running[c] \ {r}]
  /\ UNCHANGED now

(***************************************************************************)
(* next_ready_refresh: manifest-fast before semantic-followup, the earliest *)
(* ready instant first.  The code breaks a tie by repository id; here any   *)
(* of the tied repositories may be next.                                   *)
(***************************************************************************)
Ready(r, c) ==
  /\ r \in watched /\ active[r] = Idle
  /\ queue[r][c].pending /\ ReadyAt(queue[r][c]) <= now

Offers(c) == Cardinality(running[c]) < Limit(c) /\ \E r \in Repos : Ready(r, c)

NextReady(r, c) ==
  /\ Offers(c)
  /\ c = SemanticFollowup => ~Offers(ManifestFast)
  /\ Ready(r, c)
  /\ \A s \in Repos : Ready(s, c) => ReadyAt(queue[r][c]) <= ReadyAt(queue[s][c])

\* mark_started, on a refresh next_ready_refresh returned.
MarkStarted(r, c) ==
  /\ NextReady(r, c)
  /\ active' = [active EXCEPT ![r] = c]
  /\ running' = [running EXCEPT ![c] = @ \cup {r}]
  /\ queue' = [queue EXCEPT ![r][c] = Started(@)]
  /\ IF c = ManifestFast
     THEN /\ inflight' = [inflight EXCEPT ![r] = hints[r]]
          /\ hints' = [hints EXCEPT ![r] = {}]
          /\ semPaths' = [semPaths EXCEPT ![r] = @ \cup hints[r]]
     ELSE UNCHANGED <<inflight, hints, semPaths>>
  /\ UNCHANGED <<now, watched>>

(***************************************************************************)
(* Completions.  active_class is cleared when it is the completed class,    *)
(* and a path handed to a failed manifest-fast refresh is a hint again.     *)
(***************************************************************************)
\* Mutant: the in-flight slot is not given back.
Released_LeaksSlot(r, c) ==
  /\ active' = [active EXCEPT ![r] = IF @ = c THEN Idle ELSE @]
  /\ UNCHANGED running

Released(r, c) ==
  /\ active' = [active EXCEPT ![r] = IF @ = c THEN Idle ELSE @]
  /\ running' = [running EXCEPT ![c] = @ \ {r}]

\* Mutant: the paths of the failed refresh are not handed back to the hints.
MarkFailed_DropsInflight(r, c) ==
  /\ Released(r, c)
  /\ queue' = [queue EXCEPT ![r][c] = Failed(@)]
  /\ IF c = ManifestFast
     THEN inflight' = [inflight EXCEPT ![r] = {}] /\ UNCHANGED hints
     ELSE UNCHANGED <<hints, inflight>>
  /\ UNCHANGED <<now, watched, semPaths>>

MarkFailed(r, c) ==
  /\ Released(r, c)
  /\ queue' = [queue EXCEPT ![r][c] = Failed(@)]
  /\ IF c = ManifestFast
     THEN /\ hints' = [hints EXCEPT ![r] = @ \cup inflight[r]]
          /\ inflight' = [inflight EXCEPT ![r] = {}]
     ELSE UNCHANGED <<hints, inflight>>
  /\ UNCHANGED <<now, watched, semPaths>>

\* A conflicting runtime task: the refresh is put back without being started.
Defer(r, c) ==
  /\ NextReady(r, c)
  /\ MarkFailed(r, c)

\* The manifest-fast success handler, with its follow-up probe: enqueue_semantic_followup
\* does nothing when the follow-up is already queued.
ManifestSucceeded(r, followup) ==
  /\ Released(r, ManifestFast)
  /\ inflight' = [inflight EXCEPT ![r] = {}]
  /\ queue' = [queue EXCEPT ![r] =
                 [c \in Class |->
                    IF c = ManifestFast THEN Succeeded(@[c])
                    ELSE IF followup /\ ~@[c].pending THEN Enqueued(@[c]) ELSE @[c]]]
  /\ UNCHANGED <<now, watched, hints, semPaths>>

SemanticSucceeded(r) ==
  /\ Released(r, SemanticFollowup)
  /\ queue' = [queue EXCEPT ![r][SemanticFollowup] = Succeeded(@)]
  /\ semPaths' = [semPaths EXCEPT ![r] =
                    IF queue[r][SemanticFollowup].rerun THEN @ ELSE {}]
  /\ UNCHANGED <<now, watched, hints, inflight>>

\* A completion that reported StorageSchemaIncompatible.
MarkBlocked(r, c) ==
  /\ Released(r, c)
  /\ queue' = [queue EXCEPT ![r][c] = Blocked(@)]
  /\ IF c = ManifestFast
     THEN inflight' = [inflight EXCEPT ![r] = {}] /\ UNCHANGED semPaths
     ELSE semPaths' = [semPaths EXCEPT ![r] = {}] /\ UNCHANGED inflight
  /\ UNCHANGED <<now, watched, hints>>

\* The supervisor reports the completion of what is running, and of nothing else.
IsRunning(r, c) == r \in watched /\ active[r] = c

SucceedManifest(r, followup) == IsRunning(r, ManifestFast) /\ ManifestSucceeded(r, followup)
SucceedSemantic(r) == IsRunning(r, SemanticFollowup) /\ SemanticSucceeded(r)
Block(r, c) == IsRunning(r, c) /\ MarkBlocked(r, c)
Fail(r, c) == IsRunning(r, c) /\ MarkFailed(r, c)

(***************************************************************************)
(* The bounded environment: time stops at Horizon, and an input that would  *)
(* set a later deadline does not happen.                                   *)
(***************************************************************************)
Tick == now < Horizon /\ now' = now + 1 /\ UNCHANGED repoVars

RoomFor(delay) == now + delay < Horizon

Change == RoomFor(Debounce) /\ \E r \in Repos, p \in Paths : RecordPathChange(r, p)

Acquire == RoomFor(0) /\ \E r \in Repos, startup \in Class \cup {Idle} : AddRepository(r, startup)

Release == \E r \in Repos : RemoveRepository(r)

FailsInTime(r, c) == RoomFor(BackoffDelay(queue[r][c].attempts + 1))

Start == \E r \in Repos, c \in Class : MarkStarted(r, c)

Postpone == \E r \in Repos, c \in Class : FailsInTime(r, c) /\ Defer(r, c)

CompleteOf(r) ==
  \/ \E followup \in BOOLEAN : SucceedManifest(r, followup)
  \/ SucceedSemantic(r)
  \/ \E c \in Class : FailsInTime(r, c) /\ Fail(r, c)
  \/ \E c \in Class : Block(r, c)

Complete == \E r \in Repos : CompleteOf(r)

Init ==
  /\ now = 0
  /\ watched = {}
  /\ queue = [r \in Repos |-> [c \in Class |-> EmptyQueue]]
  /\ active = [r \in Repos |-> Idle]
  /\ hints = [r \in Repos |-> {}]
  /\ inflight = [r \in Repos |-> {}]
  /\ semPaths = [r \in Repos |-> {}]
  /\ running = [c \in Class |-> {}]

Next == Tick \/ Change \/ Acquire \/ Release \/ Start \/ Postpone \/ Complete

Spec == Init /\ [][Next]_schedVars

=============================================================================
