--------------------------- MODULE WatchSupervisor ---------------------------
(***************************************************************************)
(* The supervisor loop of crates/cli/src/watch/supervisor.rs with what runs *)
(* around it: the sessions that take and give back leases (WatchLeases),    *)
(* the file watcher, the scheduler it drives (WatchScheduler), the blocking *)
(* index workers it spawns, and the attach-time index tasks of the MCP      *)
(* server that share the runtime task registry with them.                   *)
(*                                                                         *)
(* Caches the workers invalidate, queue snapshots and event reports are left *)
(* out.  What a worker reads and writes is the subject of IndexPipeline.    *)
(***************************************************************************)
EXTENDS WatchScheduler, Sequences

CONSTANTS
  Sessions, WatchFails, UnwatchFails, MaxCalls,   \* of WatchLeases
  MaxMail                                         \* bound: no file event while so many commands wait

ASSUME SupervisorAssumption ==
  WatchFails \in BOOLEAN /\ UnwatchFails \in BOOLEAN /\ MaxCalls \in Nat

VARIABLES
  leases, registered, subscribed, kept, mailbox, adopted, call, made,  \* of WatchLeases
  loop,      \* what the loop does next
  sweep,     \* repositories handle_notify_dropped has still to visit
  epoch,     \* RepositoryEpochs, NoEpoch for an absent entry
  workers,   \* spawned index workers that have not sent their completion
  tasks,     \* active ChangedIndex and SemanticRefresh tasks, by repository and class
  attachIndex  \* repositories with an active WorkspaceIndex task

Leases == INSTANCE WatchLeases WITH scheduled <- watched

leaseVars == <<leases, registered, subscribed, kept, mailbox, adopted, call, made>>
callVars == <<leases, registered, subscribed, kept, adopted, call, made>>
workVars == <<workers, tasks, attachIndex>>
supVars == <<schedVars, leaseVars, loop, sweep, epoch, workVars>>

Result == {"ok", "failed", "blocked"}
Worker == [repo: Repos, class: Class, epoch: Nat,
           at: {"planning", "planned", "cleared"} \cup Result, task: BOOLEAN]

Event(r, p) == [type |-> "Event", repo |-> r, path |-> p]
NotifyDropped == [type |-> "NotifyDropped"]
IndexCompleted(w) ==
  [type |-> "IndexCompleted", repo |-> w.repo, class |-> w.class, epoch |-> w.epoch,
   result |-> w.at]

(***************************************************************************)
(* Epochs: ensure, bump and current.                                       *)
(***************************************************************************)
NoEpoch == -1

Current(r) == IF epoch[r] = NoEpoch THEN 0 ELSE epoch[r]
Ensured(r) == [epoch EXCEPT ![r] = Current(r)]

\* Mutant: a release leaves the epoch alone.
Bumped_Forgets(r) == [epoch EXCEPT ![r] = Current(r)]

\* The first bump of an absent entry inserts 0.
Bumped(r) == [epoch EXCEPT ![r] = @ + 1]

Stale(w) == w.epoch # Current(w.repo)

(***************************************************************************)
(* The watcher's callback thread and the sessions' threads.                 *)
(***************************************************************************)
FileEvent ==
  /\ Len(mailbox) < MaxMail
  /\ \/ \E r \in subscribed, p \in Paths : mailbox' = Append(mailbox, Event(r, p))
     \/ mailbox' = Append(mailbox, NotifyDropped)
  /\ UNCHANGED <<schedVars, callVars, loop, sweep, epoch, workVars>>

BeginCall ==
  /\ \E s \in Sessions, r \in Repos : Leases!Begin(s, r)
  /\ UNCHANGED <<schedVars, loop, sweep, epoch, workVars>>

ProceedCall(s) ==
  /\ \E r \in Repos : Leases!Proceed(s, r)
  /\ UNCHANGED <<schedVars, loop, sweep, epoch, workVars>>

(***************************************************************************)
(* One iteration of the loop: a command or a tick, then one dispatch.       *)
(***************************************************************************)
Received(type) == loop = "select" /\ mailbox # <<>> /\ Head(mailbox).type = type

\* The rest of the state when the loop has taken a command off the mailbox.
Taken == mailbox' = Tail(mailbox) /\ UNCHANGED <<callVars, workVars>>

HandleEvent ==
  /\ Received("Event") /\ Taken
  /\ LET r == Head(mailbox).repo
     IN IF r \in registered \cap watched
        THEN RoomFor(Debounce) /\ RecordPathChange(r, Head(mailbox).path)
        ELSE UNCHANGED schedVars
  /\ loop' = "dispatch"
  /\ UNCHANGED <<sweep, epoch>>

\* Mutant: a repository whose refresh runs is taken to be covered by it.
HandleNotifyDropped_OnlyIdle ==
  /\ Received("NotifyDropped") /\ Taken
  /\ RoomFor(Debounce)
  /\ sweep' = {r \in registered : active[r] = Idle}
  /\ loop' = "sweep"
  /\ UNCHANGED <<schedVars, epoch>>

\* handle_notify_dropped copies the map, then records the root of each repository in it.
HandleNotifyDropped ==
  /\ Received("NotifyDropped") /\ Taken
  /\ RoomFor(Debounce)
  /\ sweep' = registered
  /\ loop' = "sweep"
  /\ UNCHANGED <<schedVars, epoch>>

SweepNext ==
  /\ loop = "sweep"
  /\ \/ /\ sweep = {} /\ loop' = "dispatch"
        /\ UNCHANGED <<schedVars, sweep>>
     \/ \E r \in sweep, p \in Paths :
          /\ IF r \in watched THEN RecordPathChange(r, p) ELSE UNCHANGED schedVars
          /\ sweep' = sweep \ {r}
          /\ UNCHANGED loop
  /\ UNCHANGED <<leaseVars, epoch, workVars>>

\* Mutant: the scheduler keeps the released repository.
HandleLeaseReleased_KeepsRepository ==
  /\ Received("LeaseReleased") /\ Taken
  /\ epoch' = Bumped(Head(mailbox).repo)
  /\ loop' = "dispatch"
  /\ UNCHANGED <<schedVars, sweep>>

HandleLeaseReleased ==
  /\ Received("LeaseReleased") /\ Taken
  /\ epoch' = Bumped(Head(mailbox).repo)
  /\ RemoveRepository(Head(mailbox).repo)
  /\ loop' = "dispatch"
  /\ UNCHANGED sweep

\* The startup probe finds nothing to do, or a refresh of one class.
HandleLeaseAcquired ==
  /\ Received("LeaseAcquired") /\ Taken
  /\ epoch' = Ensured(Head(mailbox).repo)
  /\ RoomFor(0)
  /\ \E startup \in Class \cup {Idle} : AddRepository(Head(mailbox).repo, startup)
  /\ loop' = "dispatch"
  /\ UNCHANGED sweep

\* handle_index_completed, for a repository the scheduler knows.
Applied(m) ==
  \/ /\ m.result = "ok" /\ m.class = ManifestFast
     /\ \E followup \in BOOLEAN : ManifestSucceeded(m.repo, followup)
  \/ m.result = "ok" /\ m.class = SemanticFollowup /\ SemanticSucceeded(m.repo)
  \/ m.result = "failed" /\ FailsInTime(m.repo, m.class) /\ MarkFailed(m.repo, m.class)
  \/ m.result = "blocked" /\ MarkBlocked(m.repo, m.class)

\* Mutant: the completion of an earlier lease counts.
HandleIndexCompleted_AnyEpoch ==
  /\ Received("IndexCompleted") /\ Taken
  /\ LET m == Head(mailbox)
     IN IF m.repo \in registered \cap watched THEN Applied(m) ELSE UNCHANGED schedVars
  /\ loop' = "dispatch"
  /\ UNCHANGED <<sweep, epoch>>

\* A completion of an earlier epoch, or of a repository that has left the map, is dropped.
HandleIndexCompleted ==
  /\ Received("IndexCompleted") /\ Taken
  /\ LET m == Head(mailbox)
     IN IF m.epoch = Current(m.repo) /\ m.repo \in registered \cap watched
        THEN Applied(m)
        ELSE UNCHANGED schedVars
  /\ loop' = "dispatch"
  /\ UNCHANGED <<sweep, epoch>>

\* The ticker; time may have passed since the last iteration.
Ticker ==
  /\ loop = "select"
  /\ Tick \/ UNCHANGED schedVars
  /\ loop' = "dispatch"
  /\ UNCHANGED <<leaseVars, sweep, epoch, workVars>>

\* Mutant: a follow-up does not look for an attach-time index.
Conflict_ForgetsAttach(r, c) == <<r, c>> \in tasks \/ (c = ManifestFast /\ r \in attachIndex)

\* conflicting_task_kinds_for_class: the class's own kind, WorkspaceIndex, WorkspacePrepare.
Conflict(r, c) == <<r, c>> \in tasks \/ r \in attachIndex

StartWorker(r, c) ==
  /\ MarkStarted(r, c)
  /\ tasks' = tasks \cup {<<r, c>>}
  /\ workers' = workers \cup
       {[repo |-> r, class |-> c, epoch |-> Current(r), at |-> "planning", task |-> TRUE]}

\* The ready refresh is skipped when its repository has left the map, put back when a
\* conflicting task is active, and started otherwise.
DispatchOf(r, c) ==
  /\ NextReady(r, c)
  /\ IF r \notin registered THEN UNCHANGED <<schedVars, workers, tasks>>
     ELSE IF Conflict(r, c)
          THEN FailsInTime(r, c) /\ MarkFailed(r, c) /\ UNCHANGED <<workers, tasks>>
          ELSE StartWorker(r, c)

Dispatch ==
  /\ loop = "dispatch"
  /\ \/ \E r \in Repos, c \in Class : DispatchOf(r, c)
     \/ /\ \A c \in Class : ~Offers(c)
        /\ UNCHANGED <<schedVars, workers, tasks>>
  /\ loop' = "select"
  /\ UNCHANGED <<leaseVars, sweep, epoch, attachIndex>>

(***************************************************************************)
(* A blocking worker.  It checks its epoch after planning and again just    *)
(* before the first write; each check locks the epochs and unlocks them.    *)
(***************************************************************************)
Advance(w, at) == workers' = (workers \ {w}) \cup {[w EXCEPT !.at = at]}
WorkerStep == UNCHANGED <<schedVars, leaseVars, loop, sweep, epoch, attachIndex>>

Plan(w) ==
  /\ w.at = "planning"
  /\ \E at \in {"planned", "failed", "blocked"} : (at = "planned" => ~Stale(w)) /\ Advance(w, at)
  /\ WorkerStep /\ UNCHANGED tasks

CheckBeforeCommit(w) ==
  /\ w.at = "planned"
  /\ Advance(w, IF Stale(w) THEN "failed" ELSE "cleared")
  /\ WorkerStep /\ UNCHANGED tasks

Commit(w) ==
  /\ w.at = "cleared"
  /\ \E result \in Result : Advance(w, result)
  /\ WorkerStep /\ UNCHANGED tasks

\* task_guard.finish comes before the completion is sent.
FinishTask(w) ==
  /\ w.at \in Result /\ w.task
  /\ tasks' = tasks \ {<<w.repo, w.class>>}
  /\ workers' = (workers \ {w}) \cup {[w EXCEPT !.task = FALSE]}
  /\ WorkerStep

\* Mutant: a worker that failed sends nothing.
SendCompletion_OnlyOk(w) ==
  /\ w.at \in Result /\ ~w.task
  /\ mailbox' = IF w.at = "ok" THEN Append(mailbox, IndexCompleted(w)) ELSE mailbox
  /\ workers' = workers \ {w}
  /\ UNCHANGED <<schedVars, callVars, loop, sweep, epoch, tasks, attachIndex>>

SendCompletion(w) ==
  /\ w.at \in Result /\ ~w.task
  /\ mailbox' = Append(mailbox, IndexCompleted(w))
  /\ workers' = workers \ {w}
  /\ UNCHANGED <<schedVars, callVars, loop, sweep, epoch, tasks, attachIndex>>

Work(w) == Plan(w) \/ CheckBeforeCommit(w) \/ Commit(w) \/ FinishTask(w) \/ SendCompletion(w)

(***************************************************************************)
(* The attach-time index of the MCP server: it starts when no index task of *)
(* the repository is active (try_start_repository_runtime_task).           *)
(***************************************************************************)
AttachIndexStarts(r) ==
  /\ r \notin attachIndex /\ \A c \in Class : <<r, c>> \notin tasks
  /\ attachIndex' = attachIndex \cup {r}
  /\ UNCHANGED <<schedVars, leaseVars, loop, sweep, epoch, workers, tasks>>

AttachIndexEnds(r) ==
  /\ r \in attachIndex
  /\ attachIndex' = attachIndex \ {r}
  /\ UNCHANGED <<schedVars, leaseVars, loop, sweep, epoch, workers, tasks>>

Handle ==
  \/ HandleEvent \/ HandleNotifyDropped \/ SweepNext
  \/ HandleLeaseAcquired \/ HandleLeaseReleased \/ HandleIndexCompleted

SupInit ==
  /\ Init
  /\ Leases!LeaseInit
  /\ loop = "select" /\ sweep = {}
  /\ epoch = [r \in Repos |-> NoEpoch]
  /\ workers = {} /\ tasks = {} /\ attachIndex = {}

SupNext ==
  \/ FileEvent
  \/ BeginCall
  \/ \E s \in Sessions : ProceedCall(s)
  \/ Handle
  \/ Ticker
  \/ Dispatch
  \/ \E w \in workers : Work(w)
  \/ \E r \in Repos : AttachIndexStarts(r) \/ AttachIndexEnds(r)

SupSpec == SupInit /\ [][SupNext]_supVars

\* The loop keeps running, a spawned worker runs to its end, and so does a call in progress.
\* Commands and ticks compete in tokio::select!, which picks a ready branch at random.
SupFairness ==
  /\ SF_supVars(Handle) /\ WF_supVars(Ticker) /\ WF_supVars(Dispatch)
  /\ \A r \in Repos, c \in Class, e \in 0..MaxCalls :
       WF_supVars(\E w \in workers : w.repo = r /\ w.class = c /\ w.epoch = e /\ Work(w))
  /\ \A s \in Sessions : WF_supVars(ProceedCall(s))
  /\ \A r \in Repos : WF_supVars(AttachIndexEnds(r))

=============================================================================
