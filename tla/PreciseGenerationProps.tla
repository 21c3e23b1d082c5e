----------------------- MODULE PreciseGenerationProps -----------------------
(***************************************************************************)
(* What the hand-over of changed paths to precise generation guarantees.   *)
(***************************************************************************)
EXTENDS PreciseGeneration

Pcs == {"free", "select", "start", "spawn", "requeue", "run", "tool", "consumer", "lexical",
        "wait_task", "wait_queue", "semantic", "check", "clear"}

RepoTypeOK ==
  /\ attached \in BOOLEAN /\ task \in BOOLEAN
  /\ queue \in (SUBSET Paths) \cup {NoEntry}
  /\ status \in [Specs -> {"none", "ok", "failed"}] /\ artifact \in SUBSET Specs
  /\ owed \in SUBSET Specs /\ lost \in SUBSET Specs

ActorTypeOK ==
  actor \in [Actors -> [pc : Pcs, paths : SUBSET Paths, todo : SUBSET Specs]]

PreciseTypeOK == RepoTypeOK /\ ActorTypeOK /\ quiet \in Nat /\ calls \in Nat /\ faults \in Nat

\* The actors that own the active task.
Owns(a) == actor[a].pc \in {"spawn", "run", "tool"}

\* At most one actor owns the task, and the registry says so: two generators never write the
\* artifacts of a repository together (maybe_spawn_workspace_precise_generation).
OneGenerator ==
  /\ task <=> \E a \in Actors : Owns(a)
  /\ \A a, b \in Actors : Owns(a) /\ Owns(b) => a = b

\* Paths wait in the queue, and no thread that would take them.
Stranded == queue # NoEntry /\ ~task

\* Nothing is stranded but after a thread that could not be spawned or that panicked: the test
\* precise_generation_handoff_does_not_strand_pending_paths_after_finish, for every interleaving
\* of calls, finishing threads, replays, attaches and detaches.
OnlyFaultsStrand == Stranded => faults > 0

\* Actor a, on its way to a generator, brings s.
Carries(a, s) ==
  \/ actor[a].pc \in {"select", "start", "spawn", "requeue", "consumer"} /\ s \in actor[a].paths
  \/ actor[a].pc \in {"run", "tool"} /\ s \in actor[a].todo

\* A path handed over, while somebody consumes the results, is in the queue or on its way to a
\* generator until a generator that started later has run: coalescing, replays, attaches and
\* detaches lose none, except what a late detach clears or a panic takes with it.
NothingIsLost ==
  \A s \in owed \ lost : s \in Queued \/ \E a \in Actors : Carries(a, s)

WaitsForQuiet == Is("pipeline", "wait_task") \/ Is("pipeline", "wait_queue")

\* Every path handed over is generated in the end, and the attach pipeline reaches its semantic
\* stage.  The one excuse is a queue stranded by a fault: it keeps the pipeline, and its
\* WorkspaceIndex task, waiting until another call starts a generator.
PreciseWorkSettles ==
  LET Excused == Stranded /\ faults > 0
  IN /\ \A s \in Specs : s \in owed ~> (s \notin owed \/ s \in lost \/ Excused)
     /\ WaitsForQuiet ~> (~WaitsForQuiet \/ Excused)
=============================================================================
