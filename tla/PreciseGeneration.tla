------------------------- MODULE PreciseGeneration -------------------------
(***************************************************************************)
(* Precise generation for one repository: external generators run in a     *)
(* thread, one thread at a time; paths that change meanwhile are queued    *)
(* and replayed by the thread when it ends.  The attach pipeline and the   *)
(* index tool hand their changed paths over, one at a time; the pipeline   *)
(* waits for quiet before its semantic stage.                              *)
(*                                                                         *)
(* A path is the generator it matches, or Other.  A critical section under *)
(* the lock of the queue is one step.  The time of a generator and of the  *)
(* search for the generators to run is not bounded.                        *)
(***************************************************************************)
EXTENDS Naturals, FiniteSets

CONSTANTS
  Specs,       \* the generators, in the order they run
  Other,       \* a path no generator matches
  NoEntry,     \* no entry of the repository in the queue
  Changes,     \* the sets of paths an index run may report as changed
  Threads,     \* threads that may exist at a time
  MaxCalls,    \* bound: attaches, prepares, index runs and detaches
  MaxFaults    \* bound: threads that cannot be spawned, and panics

Paths   == Specs \cup {Other}
Indexers == {"pipeline", "index"}
Callers == Indexers \cup {"session"}

ASSUME SpecsAssumption == Specs \subseteq Nat /\ IsFiniteSet(Specs) /\ Other \notin Specs
ASSUME ActorsAssumption == Threads \cap Callers = {} /\ \A paths \in SUBSET Paths : paths # NoEntry
ASSUME ChangesAssumption == Changes \subseteq SUBSET Paths
ASSUME BoundsAssumption == MaxCalls \in Nat /\ MaxFaults \in Nat

VARIABLES
  attached,   \* a session or a lease consumes the results
  task,       \* a PreciseGenerate task of the repository is active
  queue,      \* precise_generation_pending_dirty_paths
  status,     \* the cached summary of each generator
  artifact,   \* the generators whose artifact is on disk
  actor,      \* the pipeline, the index tool, other calls of a session, the threads
  quiet,      \* idle_observations of the pipeline
  calls, faults,   \* counters of the bounds
  owed,       \* history: paths handed over, not seen by a generator started since
  lost        \* history: owed paths that a panic or the queue clearing of a late detach took away

repoVars == <<attached, task, queue, status, artifact>>
boundVars == <<calls, faults>>
vars == <<repoVars, actor, quiet, boundVars, owed, lost>>

Actors == Callers \cup Threads
Queued == IF queue = NoEntry THEN {} ELSE queue

At(pc, paths, todo) == [pc |-> pc, paths |-> paths, todo |-> todo]
Free == At("free", {}, {})

Init ==
  /\ attached = FALSE /\ task = FALSE /\ queue = NoEntry
  /\ status = [s \in Specs |-> "none"] /\ artifact \in SUBSET Specs
  /\ actor = [a \in Actors |-> Free] /\ quiet = 0
  /\ calls = 0 /\ faults = 0 /\ owed = {} /\ lost = {}

Is(a, pc) == actor[a].pc = pc
Go(a, new) == actor' = [actor EXCEPT ![a] = new]

\* Mutant: the paths replace those that wait.
Recorded_Replaces(paths) == paths

\* record_pending_precise_dirty_paths_locked: also no paths make an entry.
Recorded(paths) == Queued \cup paths

-----------------------------------------------------------------------------
(* maybe_spawn_workspace_precise_generation *)

\* Without paths it is asked what failed or is missing, else what the paths match.
workspace_precise_generation_needed(s, paths) ==
  IF paths = {}
  THEN status[s] = "failed" \/ s \notin artifact
  ELSE s \in paths

\* The call returns: a thread ends, the pipeline begins to wait.
Returned(a) == IF a = "pipeline" THEN At("wait_task", {}, {}) ELSE Free

Select(a) ==
  /\ Is(a, "select")
  /\ LET paths == actor[a].paths
         selected == {s \in Specs : workspace_precise_generation_needed(s, paths)}
     IN Go(a, IF selected = {} THEN Returned(a) ELSE At("start", paths, selected))
  /\ UNCHANGED <<repoVars, quiet, boundVars, owed, lost>>

\* Mutant: the lock is given back before the paths are recorded.
Start_Unlocks(a) ==
  /\ Is(a, "start")
  /\ task' = TRUE
  /\ Go(a, IF task THEN At("requeue", actor[a].paths, {}) ELSE [actor[a] EXCEPT !.pc = "spawn"])
  /\ UNCHANGED <<attached, queue, status, artifact, quiet, boundVars, owed, lost>>

\* Under the lock of the queue: the task is started, or the paths are recorded for its owner.
Start(a) ==
  /\ Is(a, "start")
  /\ task' = TRUE
  /\ queue' = IF task THEN Recorded(actor[a].paths) ELSE queue
  /\ Go(a, IF task THEN Returned(a) ELSE [actor[a] EXCEPT !.pc = "spawn"])
  /\ UNCHANGED <<attached, status, artifact, quiet, boundVars, owed, lost>>

Spawn(a) ==
  /\ Is(a, "spawn")
  /\ \E t \in Threads : Is(t, "free")
  /\ LET t == CHOOSE u \in Threads : Is(u, "free")
     IN actor' = [actor EXCEPT ![a] = Returned(a), ![t] = At("run", {}, actor[a].todo)]
  /\ UNCHANGED <<repoVars, quiet, boundVars, owed, lost>>

\* The task ends at once, and the paths are queued in a critical section of its own.
SpawnFails(a) ==
  /\ Is(a, "spawn") /\ faults < MaxFaults
  /\ faults' = faults + 1 /\ task' = FALSE
  /\ Go(a, [actor[a] EXCEPT !.pc = "requeue"])
  /\ UNCHANGED <<attached, queue, status, artifact, quiet, calls, owed, lost>>

Requeue(a) ==
  /\ Is(a, "requeue")
  /\ queue' = Recorded(actor[a].paths)
  /\ Go(a, Returned(a))
  /\ UNCHANGED <<attached, task, status, artifact, quiet, boundVars, owed, lost>>

-----------------------------------------------------------------------------
(* A generation thread. *)

IsNext(s, todo) == s \in todo /\ \A r \in todo : s <= r

\* The old artifact is removed first.  The generator reads the files after this, so it sees
\* every change handed over before.
ToolStart(t) ==
  /\ Is(t, "run")
  /\ \E s \in Specs :
       /\ IsNext(s, actor[t].todo)
       /\ owed' = owed \ {s} /\ lost' = lost \ {s} /\ artifact' = artifact \ {s}
  /\ Go(t, [actor[t] EXCEPT !.pc = "tool"])
  /\ UNCHANGED <<attached, task, queue, status, quiet, boundVars>>

\* The tool is not there or cannot be asked for its version: the artifact stays.
ToolMissing(t) ==
  /\ Is(t, "run")
  /\ \E s \in Specs :
       /\ IsNext(s, actor[t].todo)
       /\ owed' = owed \ {s} /\ lost' = lost \ {s}
       /\ status' = [status EXCEPT ![s] = "failed"]
       /\ Go(t, [actor[t] EXCEPT !.todo = @ \ {s}])
  /\ UNCHANGED <<attached, task, queue, artifact, quiet, boundVars>>

ToolEnd(t, ok) ==
  /\ Is(t, "tool")
  /\ \E s \in Specs :
       /\ IsNext(s, actor[t].todo)
       /\ status' = [status EXCEPT ![s] = IF ok THEN "ok" ELSE "failed"]
       /\ artifact' = IF ok THEN artifact \cup {s} ELSE artifact
       /\ Go(t, [actor[t] EXCEPT !.pc = "run", !.todo = @ \ {s}])
  /\ UNCHANGED <<attached, task, queue, quiet, boundVars, owed, lost>>

\* Mutant: what was queued is left for the next call.
Finish_Leaves(t) ==
  /\ Is(t, "run") /\ actor[t].todo = {}
  /\ task' = FALSE /\ queue' = queue /\ Go(t, Free)
  /\ UNCHANGED <<attached, status, artifact, quiet, boundVars, owed, lost>>

\* Under the lock of the queue: the task ends and the queue is taken.
Finish(t) ==
  /\ Is(t, "run") /\ actor[t].todo = {}
  /\ task' = FALSE /\ queue' = NoEntry
  /\ Go(t, IF queue = NoEntry THEN Free ELSE At("consumer", queue, {}))
  /\ UNCHANGED <<attached, status, artifact, quiet, boundVars, owed, lost>>

\* A panic drops the guard: the task ends, and nobody takes the queue.
Panic(t) ==
  /\ t \in Threads /\ actor[t].pc \in {"run", "tool"} /\ faults < MaxFaults
  /\ faults' = faults + 1 /\ task' = FALSE
  /\ lost' = lost \cup (owed \cap actor[t].todo)
  /\ Go(t, Free)
  /\ UNCHANGED <<attached, queue, status, artifact, quiet, calls, owed>>

\* The replay is dropped when nobody consumes the results any more.
Replay(t) ==
  /\ Is(t, "consumer")
  /\ Go(t, IF attached THEN At("select", actor[t].paths, {}) ELSE Free)
  /\ owed' = IF attached THEN owed ELSE owed \ actor[t].paths
  /\ UNCHANGED <<repoVars, quiet, boundVars, lost>>

-----------------------------------------------------------------------------
(* The attach pipeline and the calls of the sessions. *)

Call == calls < MaxCalls /\ calls' = calls + 1

\* attach with index ensure: the worker of the pipeline is started.  Its WorkspaceIndex task,
\* like that of the index tool, lets no other indexer in.
AttachEnsure ==
  /\ \A a \in Indexers : Is(a, "free")
  /\ Call
  /\ attached' = TRUE /\ quiet' = 0
  /\ Go("pipeline", At("lexical", {}, {}))
  /\ UNCHANGED <<task, queue, status, artifact, faults, owed, lost>>

workspace_index ==
  /\ \A a \in Indexers : Is(a, "free")
  /\ Call
  /\ Go("index", At("lexical", {}, {}))
  /\ UNCHANGED <<repoVars, quiet, faults, owed, lost>>

\* The index is written, the tool adopts the workspace, and the changed paths are handed over.
LexicalDone(a, paths) ==
  /\ Is(a, "lexical")
  /\ attached' = (attached \/ a = "index")
  /\ owed' = owed \cup (paths \cap Specs)
  /\ Go(a, At("select", paths, {}))
  /\ UNCHANGED <<task, queue, status, artifact, quiet, boundVars, lost>>

LexicalFails(a) ==
  /\ Is(a, "lexical")
  /\ Go(a, Free)
  /\ UNCHANGED <<repoVars, quiet, boundVars, owed, lost>>

\* wait_for_repository_precise_generation_blocking: two reads under two locks
ObserveTask ==
  /\ Is("pipeline", "wait_task")
  /\ quiet' = IF task THEN 0 ELSE quiet
  /\ Go("pipeline", At(IF task THEN "wait_task" ELSE "wait_queue", {}, {}))
  /\ UNCHANGED <<repoVars, boundVars, owed, lost>>

ObserveQueue ==
  /\ Is("pipeline", "wait_queue")
  /\ quiet' = IF queue = NoEntry THEN quiet + 1 ELSE 0
  /\ Go("pipeline", At(IF quiet' = 2 THEN "semantic" ELSE "wait_task", {}, {}))
  /\ UNCHANGED <<repoVars, boundVars, owed, lost>>

PipelineEnds ==
  /\ Is("pipeline", "semantic")
  /\ Go("pipeline", Free)
  /\ UNCHANGED <<repoVars, quiet, boundVars, owed, lost>>

\* attach without index ensure, and workspace_prepare: no paths are handed over
AttachDefer ==
  /\ Is("session", "free") /\ Call
  /\ attached' = TRUE
  /\ Go("session", At("select", {}, {}))
  /\ UNCHANGED <<task, queue, status, artifact, quiet, faults, owed, lost>>

\* The last session detaches, and the cached summaries go.
workspace_detach ==
  /\ Is("session", "free") /\ attached /\ Call
  /\ attached' = FALSE
  /\ status' = [s \in Specs |-> "none"]
  /\ Go("session", At("check", {}, {}))
  /\ UNCHANGED <<task, queue, artifact, quiet, faults, owed, lost>>

CheckConsumer ==
  /\ Is("session", "check")
  /\ Go("session", IF attached THEN Free ELSE At("clear", {}, {}))
  /\ UNCHANGED <<repoVars, quiet, boundVars, owed, lost>>

ClearQueue ==
  /\ Is("session", "clear")
  /\ queue' = NoEntry
  /\ owed' = IF attached THEN owed ELSE owed \ Queued
  /\ lost' = IF attached THEN lost \cup (owed \cap Queued) ELSE lost
  /\ Go("session", Free)
  /\ UNCHANGED <<attached, task, status, artifact, quiet, boundVars>>

MaybeSpawn(a) == Select(a) \/ Start(a) \/ Spawn(a) \/ Requeue(a)
Generating(t) == ToolStart(t) \/ ToolMissing(t) \/ ToolEnd(t, TRUE) \/ ToolEnd(t, FALSE) \/ Finish(t) \/ Replay(t)
Waiting == ObserveTask \/ ObserveQueue \/ PipelineEnds
Lexical(a) == LexicalFails(a) \/ \E paths \in Changes : LexicalDone(a, paths)
Detaching == CheckConsumer \/ ClearQueue

Next ==
  \/ \E a \in Actors : MaybeSpawn(a) \/ SpawnFails(a)
  \/ \E t \in Threads : Generating(t) \/ Panic(t)
  \/ \E a \in Indexers : Lexical(a)
  \/ AttachEnsure \/ workspace_index \/ Waiting
  \/ AttachDefer \/ workspace_detach \/ Detaching

\* Every thread of the server goes on and every generator process ends (the code sets it no
\* time limit); calls and faults are not owed.
Fairness ==
  /\ \A a \in Actors : WF_vars(MaybeSpawn(a))
  /\ \A t \in Threads : WF_vars(Generating(t))
  /\ WF_vars(Waiting) /\ WF_vars(Detaching) /\ \A a \in Indexers : WF_vars(Lexical(a))

PreciseSpec == Init /\ [][Next]_vars
FairPreciseSpec == PreciseSpec /\ Fairness
=============================================================================
