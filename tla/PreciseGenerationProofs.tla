----------------------- MODULE PreciseGenerationProofs -----------------------
(***************************************************************************)
(* One thread at a time generates, only faults strand the queue, and no    *)
(* changed path is lost: for every set of generators, of threads and of    *)
(* changes, and without a bound on calls or faults.                        *)
(***************************************************************************)
EXTENDS PreciseGenerationProps, TLAPS

\* Paths re-queued outside the lock are those of a thread that could not be spawned.
RequeueIsAFault == \A a \in Actors : Is(a, "requeue") => faults > 0

\* What was selected for changed paths are all the generators that match one.
SelectedAll ==
  \A a \in Actors : actor[a].pc \in {"start", "spawn"} /\ actor[a].paths # {} =>
    actor[a].paths \cap Specs \subseteq actor[a].todo

\* Carries, without the generator that runs: a change after its start is not seen by it.
WillBring(a, s) == Carries(a, s) /\ ~(Is(a, "tool") /\ IsNext(s, actor[a].todo))

NothingIsUnseen ==
  \A s \in owed \ lost : s \in Queued \/ \E a \in Actors : WillBring(a, s)

IInv ==
  /\ PreciseTypeOK
  /\ OneGenerator
  /\ OnlyFaultsStrand /\ RequeueIsAFault
  /\ SelectedAll /\ NothingIsUnseen

\* The state of the repository keeps its types.
LEMMA RepoTypeStep ==
  ASSUME PreciseTypeOK, [Next]_vars
  PROVE  RepoTypeOK'
<1>. USE SpecsAssumption, ChangesAssumption DEF PreciseTypeOK, RepoTypeOK, ActorTypeOK, Paths
<1>1. ASSUME NEW a \in Actors, Select(a) PROVE RepoTypeOK'
  BY <1>1 DEF Select, repoVars
<1>2. ASSUME NEW a \in Actors, Start(a) PROVE RepoTypeOK'
  BY <1>2 DEF Start, repoVars, Recorded, Queued
<1>3. ASSUME NEW a \in Actors, Spawn(a) PROVE RepoTypeOK'
  BY <1>3 DEF Spawn, repoVars
<1>4. ASSUME NEW a \in Actors, SpawnFails(a) PROVE RepoTypeOK'
  BY <1>4 DEF SpawnFails, repoVars
<1>5. ASSUME NEW a \in Actors, Requeue(a) PROVE RepoTypeOK'
  BY <1>5 DEF Requeue, repoVars, Recorded, Queued
<1>6. ASSUME NEW t \in Threads, ToolStart(t) PROVE RepoTypeOK'
  BY <1>6 DEF ToolStart, repoVars
<1>7. ASSUME NEW t \in Threads, ToolMissing(t) PROVE RepoTypeOK'
  BY <1>7 DEF ToolMissing, repoVars, IsNext
<1>8. ASSUME NEW t \in Threads, NEW ok \in BOOLEAN, ToolEnd(t, ok) PROVE RepoTypeOK'
  BY <1>8 DEF ToolEnd, repoVars, IsNext
<1>9. ASSUME NEW t \in Threads, Finish(t) PROVE RepoTypeOK'
  BY <1>9 DEF Finish, repoVars
<1>10. ASSUME NEW t \in Threads, Replay(t) PROVE RepoTypeOK'
  BY <1>10 DEF Replay, repoVars
<1>11. ASSUME NEW t \in Threads, Panic(t) PROVE RepoTypeOK'
  BY <1>11 DEF Panic, repoVars
<1>12. ASSUME NEW a \in Indexers, NEW paths \in Changes, LexicalDone(a, paths) PROVE RepoTypeOK'
  BY <1>12 DEF LexicalDone, repoVars
<1>13. ASSUME NEW a \in Indexers, LexicalFails(a) PROVE RepoTypeOK'
  BY <1>13 DEF LexicalFails, repoVars
<1>14. ASSUME AttachEnsure PROVE RepoTypeOK'
  BY <1>14 DEF AttachEnsure, repoVars
<1>15. ASSUME workspace_index PROVE RepoTypeOK'
  BY <1>15 DEF workspace_index, repoVars
<1>16. ASSUME ObserveTask PROVE RepoTypeOK'
  BY <1>16 DEF ObserveTask, repoVars
<1>17. ASSUME ObserveQueue PROVE RepoTypeOK'
  BY <1>17 DEF ObserveQueue, repoVars
<1>18. ASSUME PipelineEnds PROVE RepoTypeOK'
  BY <1>18 DEF PipelineEnds, repoVars
<1>19. ASSUME AttachDefer PROVE RepoTypeOK'
  BY <1>19 DEF AttachDefer, repoVars
<1>20. ASSUME workspace_detach PROVE RepoTypeOK'
  BY <1>20 DEF workspace_detach, repoVars
<1>21. ASSUME CheckConsumer PROVE RepoTypeOK'
  BY <1>21 DEF CheckConsumer, repoVars
<1>22. ASSUME ClearQueue PROVE RepoTypeOK'
  BY <1>22 DEF ClearQueue, repoVars, Queued
<1>23. ASSUME UNCHANGED vars PROVE RepoTypeOK'
  BY <1>23 DEF vars, repoVars
<1>24. QED
  BY <1>1, <1>2, <1>3, <1>4, <1>5, <1>6, <1>7, <1>8, <1>9, <1>10, <1>11, <1>12, <1>13, <1>14, <1>15,
     <1>16, <1>17, <1>18, <1>19, <1>20, <1>21, <1>22, <1>23 DEF Next, MaybeSpawn, Generating, Lexical,
     Waiting, Detaching

\* The actors keep their types.
LEMMA ActorTypeStep ==
  ASSUME PreciseTypeOK, [Next]_vars
  PROVE  ActorTypeOK'
<1>. USE ChangesAssumption DEF PreciseTypeOK, RepoTypeOK, ActorTypeOK, Pcs, Actors, Callers
<1>1. ASSUME NEW a \in Actors, Select(a) PROVE ActorTypeOK'
  BY <1>1 DEF Select, Go, At, Free, Returned
<1>2. ASSUME NEW a \in Actors, Start(a) PROVE ActorTypeOK'
  BY <1>2 DEF Start, Go, At, Free, Returned
<1>3. ASSUME NEW a \in Actors, Spawn(a) PROVE ActorTypeOK'
  BY <1>3 DEF Spawn, Go, At, Free, Returned
<1>4. ASSUME NEW a \in Actors, SpawnFails(a) PROVE ActorTypeOK'
  BY <1>4 DEF SpawnFails, Go, At, Free
<1>5. ASSUME NEW a \in Actors, Requeue(a) PROVE ActorTypeOK'
  BY <1>5 DEF Requeue, Go, At, Free, Returned
<1>6. ASSUME NEW t \in Threads, ToolStart(t) PROVE ActorTypeOK'
  BY <1>6 DEF ToolStart, Go, At, Free
<1>7. ASSUME NEW t \in Threads, ToolMissing(t) PROVE ActorTypeOK'
  BY <1>7 DEF ToolMissing, Go, At, Free
<1>8. ASSUME NEW t \in Threads, NEW ok \in BOOLEAN, ToolEnd(t, ok) PROVE ActorTypeOK'
  <2>1. PICK s \in Specs : Go(t, [actor[t] EXCEPT !.pc = "run", !.todo = @ \ {s}])
    BY <1>8 DEF ToolEnd
  <2>2. actor[t] \in [pc : Pcs, paths : SUBSET Paths, todo : SUBSET Specs]
    OBVIOUS
  <2>3. [actor[t] EXCEPT !.pc = "run", !.todo = @ \ {s}]
          \in [pc : Pcs, paths : SUBSET Paths, todo : SUBSET Specs]
    BY <2>2
  <2>4. QED
    BY <2>1, <2>3 DEF Go
<1>9. ASSUME NEW t \in Threads, Finish(t) PROVE ActorTypeOK'
  BY <1>9 DEF Finish, Go, At, Free
<1>10. ASSUME NEW t \in Threads, Replay(t) PROVE ActorTypeOK'
  BY <1>10 DEF Replay, Go, At, Free
<1>11. ASSUME NEW t \in Threads, Panic(t) PROVE ActorTypeOK'
  BY <1>11 DEF Panic, Go, At, Free
<1>12. ASSUME NEW a \in Indexers, NEW paths \in Changes, LexicalDone(a, paths) PROVE ActorTypeOK'
  BY <1>12 DEF LexicalDone, Go, At, Free, Indexers
<1>13. ASSUME NEW a \in Indexers, LexicalFails(a) PROVE ActorTypeOK'
  BY <1>13 DEF LexicalFails, Go, At, Free, Indexers
<1>14. ASSUME AttachEnsure PROVE ActorTypeOK'
  BY <1>14 DEF AttachEnsure, Go, At, Free
<1>15. ASSUME workspace_index PROVE ActorTypeOK'
  BY <1>15 DEF workspace_index, Go, At, Free
<1>16. ASSUME ObserveTask PROVE ActorTypeOK'
  BY <1>16 DEF ObserveTask, Go, At, Free
<1>17. ASSUME ObserveQueue PROVE ActorTypeOK'
  BY <1>17 DEF ObserveQueue, Go, At, Free
<1>18. ASSUME PipelineEnds PROVE ActorTypeOK'
  BY <1>18 DEF PipelineEnds, Go, At, Free
<1>19. ASSUME AttachDefer PROVE ActorTypeOK'
  BY <1>19 DEF AttachDefer, Go, At, Free
<1>20. ASSUME workspace_detach PROVE ActorTypeOK'
  BY <1>20 DEF workspace_detach, Go, At, Free
<1>21. ASSUME CheckConsumer PROVE ActorTypeOK'
  BY <1>21 DEF CheckConsumer, Go, At, Free
<1>22. ASSUME ClearQueue PROVE ActorTypeOK'
  BY <1>22 DEF ClearQueue, Go, At, Free
<1>23. ASSUME UNCHANGED vars PROVE ActorTypeOK'
  BY <1>23 DEF vars
<1>24. QED
  BY <1>1, <1>2, <1>3, <1>4, <1>5, <1>6, <1>7, <1>8, <1>9, <1>10, <1>11, <1>12, <1>13, <1>14, <1>15,
     <1>16, <1>17, <1>18, <1>19, <1>20, <1>21, <1>22, <1>23 DEF Next, MaybeSpawn, Generating, Lexical,
     Waiting, Detaching

\* And so do the counters.
LEMMA CounterTypeStep ==
  ASSUME PreciseTypeOK, [Next]_vars
  PROVE  quiet' \in Nat /\ calls' \in Nat /\ faults' \in Nat
<1>. USE DEF PreciseTypeOK, boundVars
<1>1. ASSUME NEW a \in Actors, Select(a) PROVE quiet' \in Nat /\ calls' \in Nat /\ faults' \in Nat
  BY <1>1 DEF Select
<1>2. ASSUME NEW a \in Actors, Start(a) PROVE quiet' \in Nat /\ calls' \in Nat /\ faults' \in Nat
  BY <1>2 DEF Start
<1>3. ASSUME NEW a \in Actors, Spawn(a) PROVE quiet' \in Nat /\ calls' \in Nat /\ faults' \in Nat
  BY <1>3 DEF Spawn
<1>4. ASSUME NEW a \in Actors, SpawnFails(a) PROVE quiet' \in Nat /\ calls' \in Nat /\ faults' \in Nat
  BY <1>4 DEF SpawnFails
<1>5. ASSUME NEW a \in Actors, Requeue(a) PROVE quiet' \in Nat /\ calls' \in Nat /\ faults' \in Nat
  BY <1>5 DEF Requeue
<1>6. ASSUME NEW t \in Threads, ToolStart(t) PROVE quiet' \in Nat /\ calls' \in Nat /\ faults' \in Nat
  BY <1>6 DEF ToolStart
<1>7. ASSUME NEW t \in Threads, ToolMissing(t) PROVE quiet' \in Nat /\ calls' \in Nat /\ faults' \in Nat
  BY <1>7 DEF ToolMissing
<1>8. ASSUME NEW t \in Threads, NEW ok \in BOOLEAN, ToolEnd(t, ok) PROVE quiet' \in Nat /\ calls' \in Nat /\ faults' \in Nat
  BY <1>8 DEF ToolEnd
<1>9. ASSUME NEW t \in Threads, Finish(t) PROVE quiet' \in Nat /\ calls' \in Nat /\ faults' \in Nat
  BY <1>9 DEF Finish
<1>10. ASSUME NEW t \in Threads, Replay(t) PROVE quiet' \in Nat /\ calls' \in Nat /\ faults' \in Nat
  BY <1>10 DEF Replay
<1>11. ASSUME NEW t \in Threads, Panic(t) PROVE quiet' \in Nat /\ calls' \in Nat /\ faults' \in Nat
  BY <1>11 DEF Panic
<1>12. ASSUME NEW a \in Indexers, NEW paths \in Changes, LexicalDone(a, paths) PROVE quiet' \in Nat /\ calls' \in Nat /\ faults' \in Nat
  BY <1>12 DEF LexicalDone
<1>13. ASSUME NEW a \in Indexers,
              LexicalFails(a) PROVE quiet' \in Nat /\ calls' \in Nat /\ faults' \in Nat
  BY <1>13 DEF LexicalFails
<1>14. ASSUME AttachEnsure PROVE quiet' \in Nat /\ calls' \in Nat /\ faults' \in Nat
  BY <1>14 DEF AttachEnsure, Call
<1>15. ASSUME workspace_index PROVE quiet' \in Nat /\ calls' \in Nat /\ faults' \in Nat
  BY <1>15 DEF workspace_index, Call
<1>16. ASSUME ObserveTask PROVE quiet' \in Nat /\ calls' \in Nat /\ faults' \in Nat
  BY <1>16 DEF ObserveTask
<1>17. ASSUME ObserveQueue PROVE quiet' \in Nat /\ calls' \in Nat /\ faults' \in Nat
  BY <1>17 DEF ObserveQueue
<1>18. ASSUME PipelineEnds PROVE quiet' \in Nat /\ calls' \in Nat /\ faults' \in Nat
  BY <1>18 DEF PipelineEnds
<1>19. ASSUME AttachDefer PROVE quiet' \in Nat /\ calls' \in Nat /\ faults' \in Nat
  BY <1>19 DEF AttachDefer, Call
<1>20. ASSUME workspace_detach PROVE quiet' \in Nat /\ calls' \in Nat /\ faults' \in Nat
  BY <1>20 DEF workspace_detach, Call
<1>21. ASSUME CheckConsumer PROVE quiet' \in Nat /\ calls' \in Nat /\ faults' \in Nat
  BY <1>21 DEF CheckConsumer
<1>22. ASSUME ClearQueue PROVE quiet' \in Nat /\ calls' \in Nat /\ faults' \in Nat
  BY <1>22 DEF ClearQueue
<1>23. ASSUME UNCHANGED vars PROVE quiet' \in Nat /\ calls' \in Nat /\ faults' \in Nat
  BY <1>23 DEF vars
<1>24. QED
  BY <1>1, <1>2, <1>3, <1>4, <1>5, <1>6, <1>7, <1>8, <1>9, <1>10, <1>11, <1>12, <1>13, <1>14, <1>15,
     <1>16, <1>17, <1>18, <1>19, <1>20, <1>21, <1>22, <1>23 DEF Next, MaybeSpawn, Generating, Lexical,
     Waiting, Detaching

\* Who owns the task hands it on or ends it.
LEMMA OneGeneratorStep ==
  ASSUME PreciseTypeOK, OneGenerator, [Next]_vars
  PROVE  OneGenerator'
<1>. USE ActorsAssumption DEF PreciseTypeOK, ActorTypeOK, OneGenerator, Owns, Actors, Callers, Indexers
<1>1. ASSUME NEW a \in Actors, Select(a) PROVE OneGenerator'
  BY <1>1 DEF Select, Is, Go, At, Free, repoVars, Returned
<1>2. ASSUME NEW a \in Actors, Start(a) PROVE OneGenerator'
  BY <1>2 DEF Start, Is, Go, At, Free, repoVars, Returned
<1>3. ASSUME NEW a \in Actors, Spawn(a) PROVE OneGenerator'
  BY <1>3 DEF Spawn, Is, Go, At, Free, repoVars, Returned
<1>4. ASSUME NEW a \in Actors, SpawnFails(a) PROVE OneGenerator'
  BY <1>4 DEF SpawnFails, Is, Go, At, Free, repoVars
<1>5. ASSUME NEW a \in Actors, Requeue(a) PROVE OneGenerator'
  BY <1>5 DEF Requeue, Is, Go, At, Free, repoVars, Returned
<1>6. ASSUME NEW t \in Threads, ToolStart(t) PROVE OneGenerator'
  BY <1>6 DEF ToolStart, Is, Go, At, Free, repoVars
<1>7. ASSUME NEW t \in Threads, ToolMissing(t) PROVE OneGenerator'
  BY <1>7 DEF ToolMissing, Is, Go, At, Free, repoVars
<1>8. ASSUME NEW t \in Threads, NEW ok \in BOOLEAN, ToolEnd(t, ok) PROVE OneGenerator'
  BY <1>8 DEF ToolEnd, Is, Go, At, Free, repoVars
<1>9. ASSUME NEW t \in Threads, Finish(t) PROVE OneGenerator'
  BY <1>9 DEF Finish, Is, Go, At, Free, repoVars
<1>10. ASSUME NEW t \in Threads, Replay(t) PROVE OneGenerator'
  BY <1>10 DEF Replay, Is, Go, At, Free, repoVars
<1>11. ASSUME NEW t \in Threads, Panic(t) PROVE OneGenerator'
  BY <1>11 DEF Panic, Is, Go, At, Free, repoVars
<1>12. ASSUME NEW a \in Indexers, NEW paths \in Changes, LexicalDone(a, paths) PROVE OneGenerator'
  BY <1>12 DEF LexicalDone, Is, Go, At, Free, repoVars
<1>13. ASSUME NEW a \in Indexers, LexicalFails(a) PROVE OneGenerator'
  BY <1>13 DEF LexicalFails, Is, Go, At, Free, repoVars
<1>14. ASSUME AttachEnsure PROVE OneGenerator'
  BY <1>14 DEF AttachEnsure, Is, Go, At, Free, repoVars
<1>15. ASSUME workspace_index PROVE OneGenerator'
  BY <1>15 DEF workspace_index, Is, Go, At, Free, repoVars
<1>16. ASSUME ObserveTask PROVE OneGenerator'
  BY <1>16 DEF ObserveTask, Is, Go, At, Free, repoVars
<1>17. ASSUME ObserveQueue PROVE OneGenerator'
  BY <1>17 DEF ObserveQueue, Is, Go, At, Free, repoVars
<1>18. ASSUME PipelineEnds PROVE OneGenerator'
  BY <1>18 DEF PipelineEnds, Is, Go, At, Free, repoVars
<1>19. ASSUME AttachDefer PROVE OneGenerator'
  BY <1>19 DEF AttachDefer, Is, Go, At, Free, repoVars
<1>20. ASSUME workspace_detach PROVE OneGenerator'
  BY <1>20 DEF workspace_detach, Is, Go, At, Free, repoVars
<1>21. ASSUME CheckConsumer PROVE OneGenerator'
  BY <1>21 DEF CheckConsumer, Is, Go, At, Free, repoVars
<1>22. ASSUME ClearQueue PROVE OneGenerator'
  BY <1>22 DEF ClearQueue, Is, Go, At, Free, repoVars
<1>23. ASSUME UNCHANGED vars PROVE OneGenerator'
  BY <1>23 DEF vars, repoVars
<1>24. QED
  BY <1>1, <1>2, <1>3, <1>4, <1>5, <1>6, <1>7, <1>8, <1>9, <1>10, <1>11, <1>12, <1>13, <1>14, <1>15,
     <1>16, <1>17, <1>18, <1>19, <1>20, <1>21, <1>22, <1>23 DEF Next, MaybeSpawn, Generating, Lexical,
     Waiting, Detaching

\* A queue is left without an owner of the task only by a fault.
LEMMA OnlyFaultsStrandStep ==
  ASSUME IInv, [Next]_vars
  PROVE  OnlyFaultsStrand' /\ RequeueIsAFault'
<1>. USE DEF IInv, PreciseTypeOK, ActorTypeOK, OnlyFaultsStrand, Stranded, RequeueIsAFault, Actors, Callers, Indexers, Is
<1>1. ASSUME NEW a \in Actors, Select(a) PROVE OnlyFaultsStrand' /\ RequeueIsAFault'
  BY <1>1 DEF Select, Go, At, Free, repoVars, boundVars, Returned
<1>2. ASSUME NEW a \in Actors, Start(a) PROVE OnlyFaultsStrand' /\ RequeueIsAFault'
  BY <1>2 DEF Start, Go, At, Free, repoVars, boundVars, Returned
<1>3. ASSUME NEW a \in Actors, Spawn(a) PROVE OnlyFaultsStrand' /\ RequeueIsAFault'
  BY <1>3 DEF Spawn, Go, At, Free, repoVars, boundVars, Returned
<1>4. ASSUME NEW a \in Actors, SpawnFails(a) PROVE OnlyFaultsStrand' /\ RequeueIsAFault'
  BY <1>4 DEF SpawnFails, Go, At, Free, repoVars, boundVars
<1>5. ASSUME NEW a \in Actors, Requeue(a) PROVE OnlyFaultsStrand' /\ RequeueIsAFault'
  BY <1>5 DEF Requeue, Go, At, Free, repoVars, boundVars, Returned
<1>6. ASSUME NEW t \in Threads, ToolStart(t) PROVE OnlyFaultsStrand' /\ RequeueIsAFault'
  BY <1>6 DEF ToolStart, Go, At, Free, repoVars, boundVars
<1>7. ASSUME NEW t \in Threads, ToolMissing(t) PROVE OnlyFaultsStrand' /\ RequeueIsAFault'
  BY <1>7 DEF ToolMissing, Go, At, Free, repoVars, boundVars
<1>8. ASSUME NEW t \in Threads, NEW ok \in BOOLEAN, ToolEnd(t, ok) PROVE OnlyFaultsStrand' /\ RequeueIsAFault'
  BY <1>8 DEF ToolEnd, Go, At, Free, repoVars, boundVars
<1>9. ASSUME NEW t \in Threads, Finish(t) PROVE OnlyFaultsStrand' /\ RequeueIsAFault'
  BY <1>9 DEF Finish, Go, At, Free, repoVars, boundVars
<1>10. ASSUME NEW t \in Threads, Replay(t) PROVE OnlyFaultsStrand' /\ RequeueIsAFault'
  BY <1>10 DEF Replay, Go, At, Free, repoVars, boundVars
<1>11. ASSUME NEW t \in Threads, Panic(t) PROVE OnlyFaultsStrand' /\ RequeueIsAFault'
  BY <1>11 DEF Panic, Go, At, Free, repoVars, boundVars
<1>12. ASSUME NEW a \in Indexers, NEW paths \in Changes, LexicalDone(a, paths) PROVE OnlyFaultsStrand' /\ RequeueIsAFault'
  BY <1>12 DEF LexicalDone, Go, At, Free, repoVars, boundVars
<1>13. ASSUME NEW a \in Indexers, LexicalFails(a) PROVE OnlyFaultsStrand' /\ RequeueIsAFault'
  BY <1>13 DEF LexicalFails, Go, At, Free, repoVars, boundVars
<1>14. ASSUME AttachEnsure PROVE OnlyFaultsStrand' /\ RequeueIsAFault'
  BY <1>14 DEF AttachEnsure, Go, At, Free, repoVars, boundVars
<1>15. ASSUME workspace_index PROVE OnlyFaultsStrand' /\ RequeueIsAFault'
  BY <1>15 DEF workspace_index, Go, At, Free, repoVars, boundVars
<1>16. ASSUME ObserveTask PROVE OnlyFaultsStrand' /\ RequeueIsAFault'
  BY <1>16 DEF ObserveTask, Go, At, Free, repoVars, boundVars
<1>17. ASSUME ObserveQueue PROVE OnlyFaultsStrand' /\ RequeueIsAFault'
  BY <1>17 DEF ObserveQueue, Go, At, Free, repoVars, boundVars
<1>18. ASSUME PipelineEnds PROVE OnlyFaultsStrand' /\ RequeueIsAFault'
  BY <1>18 DEF PipelineEnds, Go, At, Free, repoVars, boundVars
<1>19. ASSUME AttachDefer PROVE OnlyFaultsStrand' /\ RequeueIsAFault'
  BY <1>19 DEF AttachDefer, Go, At, Free, repoVars, boundVars
<1>20. ASSUME workspace_detach PROVE OnlyFaultsStrand' /\ RequeueIsAFault'
  BY <1>20 DEF workspace_detach, Go, At, Free, repoVars, boundVars
<1>21. ASSUME CheckConsumer PROVE OnlyFaultsStrand' /\ RequeueIsAFault'
  BY <1>21 DEF CheckConsumer, Go, At, Free, repoVars, boundVars
<1>22. ASSUME ClearQueue PROVE OnlyFaultsStrand' /\ RequeueIsAFault'
  BY <1>22 DEF ClearQueue, Go, At, Free, repoVars, boundVars
<1>23. ASSUME UNCHANGED vars PROVE OnlyFaultsStrand' /\ RequeueIsAFault'
  BY <1>23 DEF vars, repoVars, boundVars
<1>24. QED
  BY <1>1, <1>2, <1>3, <1>4, <1>5, <1>6, <1>7, <1>8, <1>9, <1>10, <1>11, <1>12, <1>13, <1>14, <1>15,
     <1>16, <1>17, <1>18, <1>19, <1>20, <1>21, <1>22, <1>23 DEF Next, MaybeSpawn, Generating, Lexical,
     Waiting, Detaching

\* What was selected is started.
LEMMA SelectedAllStep ==
  ASSUME PreciseTypeOK, SelectedAll, [Next]_vars
  PROVE  SelectedAll'
<1>. USE DEF PreciseTypeOK, ActorTypeOK, SelectedAll, Actors, Callers, Indexers, Is
<1>1. ASSUME NEW a \in Actors, Select(a) PROVE SelectedAll'
  BY <1>1 DEF Select, Go, At, Free, Returned, workspace_precise_generation_needed, Paths
<1>2. ASSUME NEW a \in Actors, Start(a) PROVE SelectedAll'
  BY <1>2 DEF Start, Go, At, Free, Returned
<1>3. ASSUME NEW a \in Actors, Spawn(a) PROVE SelectedAll'
  BY <1>3 DEF Spawn, Go, At, Free, Returned
<1>4. ASSUME NEW a \in Actors, SpawnFails(a) PROVE SelectedAll'
  BY <1>4 DEF SpawnFails, Go, At, Free
<1>5. ASSUME NEW a \in Actors, Requeue(a) PROVE SelectedAll'
  BY <1>5 DEF Requeue, Go, At, Free, Returned
<1>6. ASSUME NEW t \in Threads, ToolStart(t) PROVE SelectedAll'
  BY <1>6 DEF ToolStart, Go, At, Free
<1>7. ASSUME NEW t \in Threads, ToolMissing(t) PROVE SelectedAll'
  BY <1>7 DEF ToolMissing, Go, At, Free
<1>8. ASSUME NEW t \in Threads, NEW ok \in BOOLEAN, ToolEnd(t, ok) PROVE SelectedAll'
  BY <1>8 DEF ToolEnd, Go, At, Free
<1>9. ASSUME NEW t \in Threads, Finish(t) PROVE SelectedAll'
  BY <1>9 DEF Finish, Go, At, Free
<1>10. ASSUME NEW t \in Threads, Replay(t) PROVE SelectedAll'
  BY <1>10 DEF Replay, Go, At, Free
<1>11. ASSUME NEW t \in Threads, Panic(t) PROVE SelectedAll'
  BY <1>11 DEF Panic, Go, At, Free
<1>12. ASSUME NEW a \in Indexers, NEW paths \in Changes, LexicalDone(a, paths) PROVE SelectedAll'
  BY <1>12 DEF LexicalDone, Go, At, Free
<1>13. ASSUME NEW a \in Indexers, LexicalFails(a) PROVE SelectedAll'
  BY <1>13 DEF LexicalFails, Go, At, Free
<1>14. ASSUME AttachEnsure PROVE SelectedAll'
  BY <1>14 DEF AttachEnsure, Go, At, Free
<1>15. ASSUME workspace_index PROVE SelectedAll'
  BY <1>15 DEF workspace_index, Go, At, Free
<1>16. ASSUME ObserveTask PROVE SelectedAll'
  BY <1>16 DEF ObserveTask, Go, At, Free
<1>17. ASSUME ObserveQueue PROVE SelectedAll'
  BY <1>17 DEF ObserveQueue, Go, At, Free
<1>18. ASSUME PipelineEnds PROVE SelectedAll'
  BY <1>18 DEF PipelineEnds, Go, At, Free
<1>19. ASSUME AttachDefer PROVE SelectedAll'
  BY <1>19 DEF AttachDefer, Go, At, Free
<1>20. ASSUME workspace_detach PROVE SelectedAll'
  BY <1>20 DEF workspace_detach, Go, At, Free
<1>21. ASSUME CheckConsumer PROVE SelectedAll'
  BY <1>21 DEF CheckConsumer, Go, At, Free
<1>22. ASSUME ClearQueue PROVE SelectedAll'
  BY <1>22 DEF ClearQueue, Go, At, Free
<1>23. ASSUME UNCHANGED vars PROVE SelectedAll'
  BY <1>23 DEF vars
<1>24. QED
  BY <1>1, <1>2, <1>3, <1>4, <1>5, <1>6, <1>7, <1>8, <1>9, <1>10, <1>11, <1>12, <1>13, <1>14, <1>15,
     <1>16, <1>17, <1>18, <1>19, <1>20, <1>21, <1>22, <1>23 DEF Next, MaybeSpawn, Generating, Lexical,
     Waiting, Detaching

\* No step leaves a changed path behind.
LEMMA UnseenStep ==
  ASSUME PreciseTypeOK, SelectedAll, NothingIsUnseen, [Next]_vars
  PROVE  NothingIsUnseen'
<1>. USE ActorsAssumption, ChangesAssumption, SpecsAssumption DEF PreciseTypeOK, RepoTypeOK, ActorTypeOK, SelectedAll, NothingIsUnseen, WillBring, Carries, Queued, IsNext, Actors, Callers, Indexers, Is
<1>1. ASSUME NEW a \in Actors, Select(a) PROVE NothingIsUnseen'
  BY <1>1 DEF Select, Go, At, Free, repoVars, Returned, workspace_precise_generation_needed, Paths
<1>2. ASSUME NEW a \in Actors, Start(a) PROVE NothingIsUnseen'
  BY <1>2 DEF Start, Go, At, Free, repoVars, Returned, Recorded
<1>3. ASSUME NEW a \in Actors, Spawn(a) PROVE NothingIsUnseen'
  BY <1>3 DEF Spawn, Go, At, Free, repoVars, Returned
<1>4. ASSUME NEW a \in Actors, SpawnFails(a) PROVE NothingIsUnseen'
  BY <1>4 DEF SpawnFails, Go, At, Free, repoVars
<1>5. ASSUME NEW a \in Actors, Requeue(a) PROVE NothingIsUnseen'
  BY <1>5 DEF Requeue, Go, At, Free, repoVars, Returned, Recorded
<1>6. ASSUME NEW t \in Threads, ToolStart(t) PROVE NothingIsUnseen'
  BY <1>6 DEF ToolStart, Go, At, Free, repoVars
<1>7. ASSUME NEW t \in Threads, ToolMissing(t) PROVE NothingIsUnseen'
  BY <1>7 DEF ToolMissing, Go, At, Free, repoVars
<1>8. ASSUME NEW t \in Threads, NEW ok \in BOOLEAN, ToolEnd(t, ok) PROVE NothingIsUnseen'
  BY <1>8 DEF ToolEnd, Go, At, Free, repoVars
<1>9. ASSUME NEW t \in Threads, Finish(t) PROVE NothingIsUnseen'
  <2>1. ASSUME NEW s \in Queued PROVE WillBring(t, s)'
    <3>1. queue # NoEntry /\ s \in queue
      BY <2>1
    <3>2. actor'[t] = At("consumer", queue, {})
      BY <1>9, <3>1 DEF Finish, Go
    <3>3. QED
      BY <3>1, <3>2 DEF At
  <2>2. ASSUME NEW b \in Actors, NEW s, WillBring(b, s) PROVE WillBring(b, s)'
    <3>1. b # t
      BY <1>9, <2>2 DEF Finish
    <3>2. actor'[b] = actor[b]
      BY <1>9, <3>1 DEF Finish, Go
    <3>3. QED
      BY <2>2, <3>2
  <2>3. QED
    BY <1>9, <2>1, <2>2, Zenon DEF Finish
<1>10. ASSUME NEW t \in Threads, Replay(t) PROVE NothingIsUnseen'
  <2>1. ASSUME NEW s \in owed' \ lost', NEW b \in Actors, WillBring(b, s) PROVE WillBring(b, s)'
    <3>1. CASE b = t
      BY <1>10, <2>1, <3>1 DEF Replay, Go, At, repoVars
    <3>2. CASE b # t
      <4>1. actor'[b] = actor[b]
        BY <1>10, <3>2 DEF Replay, Go
      <4>2. QED
        BY <2>1, <4>1
    <3>3. QED
      BY <3>1, <3>2
  <2>2. queue' = queue /\ \A s \in owed' \ lost' : s \in owed \ lost
    BY <1>10 DEF Replay, repoVars
  <2>3. QED
    BY <2>1, <2>2
<1>11. ASSUME NEW t \in Threads, Panic(t) PROVE NothingIsUnseen'
  BY <1>11 DEF Panic, Go, At, Free, repoVars
<1>12. ASSUME NEW a \in Indexers, NEW paths \in Changes, LexicalDone(a, paths) PROVE NothingIsUnseen'
  BY <1>12 DEF LexicalDone, Go, At, Free, repoVars
<1>13. ASSUME NEW a \in Indexers, LexicalFails(a) PROVE NothingIsUnseen'
  BY <1>13 DEF LexicalFails, Go, At, Free, repoVars
<1>14. ASSUME AttachEnsure PROVE NothingIsUnseen'
  BY <1>14 DEF AttachEnsure, Go, At, Free, repoVars
<1>15. ASSUME workspace_index PROVE NothingIsUnseen'
  <2>1. ASSUME NEW b \in Actors, NEW s, WillBring(b, s) PROVE WillBring(b, s)'
    <3>1. b # "index"
      BY <1>15, <2>1 DEF workspace_index
    <3>2. actor'[b] = actor[b]
      BY <1>15, <3>1 DEF workspace_index, Go
    <3>3. QED
      BY <2>1, <3>2
  <2>2. Queued' = Queued /\ owed' = owed /\ lost' = lost
    BY <1>15 DEF workspace_index, repoVars
  <2>3. QED
    BY <2>1, <2>2, Zenon
<1>16. ASSUME ObserveTask PROVE NothingIsUnseen'
  BY <1>16 DEF ObserveTask, Go, At, Free, repoVars
<1>17. ASSUME ObserveQueue PROVE NothingIsUnseen'
  BY <1>17 DEF ObserveQueue, Go, At, Free, repoVars
<1>18. ASSUME PipelineEnds PROVE NothingIsUnseen'
  BY <1>18 DEF PipelineEnds, Go, At, Free, repoVars
<1>19. ASSUME AttachDefer PROVE NothingIsUnseen'
  BY <1>19 DEF AttachDefer, Go, At, Free, repoVars
<1>20. ASSUME workspace_detach PROVE NothingIsUnseen'
  BY <1>20 DEF workspace_detach, Go, At, Free, repoVars
<1>21. ASSUME CheckConsumer PROVE NothingIsUnseen'
  <2>1. ASSUME NEW b \in Actors, NEW s, WillBring(b, s) PROVE WillBring(b, s)'
    <3>1. b # "session"
      BY <1>21, <2>1 DEF CheckConsumer
    <3>2. actor'[b] = actor[b]
      BY <1>21, <3>1 DEF CheckConsumer, Go
    <3>3. QED
      BY <2>1, <3>2
  <2>2. Queued' = Queued /\ owed' = owed /\ lost' = lost
    BY <1>21 DEF CheckConsumer, repoVars
  <2>3. QED
    BY <2>1, <2>2, Zenon
<1>22. ASSUME ClearQueue PROVE NothingIsUnseen'
  BY <1>22 DEF ClearQueue, Go, At, Free, repoVars
<1>23. ASSUME UNCHANGED vars PROVE NothingIsUnseen'
  BY <1>23 DEF vars, repoVars
<1>24. QED
  BY <1>1, <1>2, <1>3, <1>4, <1>5, <1>6, <1>7, <1>8, <1>9, <1>10, <1>11, <1>12, <1>13, <1>14, <1>15,
     <1>16, <1>17, <1>18, <1>19, <1>20, <1>21, <1>22, <1>23 DEF Next, MaybeSpawn, Generating, Lexical,
     Waiting, Detaching

LEMMA InvInit == Init => IInv
<1>. SUFFICES ASSUME Init PROVE IInv
  OBVIOUS
<1>1. RepoTypeOK /\ quiet \in Nat /\ calls \in Nat /\ faults \in Nat
  BY DEF Init, RepoTypeOK
<1>2. ActorTypeOK
  BY DEF Init, ActorTypeOK, Free, At, Pcs
<1>3. \A a \in Actors : actor[a].pc = "free"
  BY DEF Init, Free, At
<1>4. OneGenerator
  BY <1>3 DEF Init, OneGenerator, Owns
<1>5. OnlyFaultsStrand /\ RequeueIsAFault /\ SelectedAll /\ NothingIsUnseen
  BY <1>3 DEF Init, OnlyFaultsStrand, Stranded, RequeueIsAFault, SelectedAll, NothingIsUnseen, Is
<1>6. QED
  BY <1>1, <1>2, <1>4, <1>5 DEF IInv, PreciseTypeOK

LEMMA InvStep == IInv /\ [Next]_vars => IInv'
  BY RepoTypeStep, ActorTypeStep, CounterTypeStep, OneGeneratorStep, OnlyFaultsStrandStep,
     SelectedAllStep, UnseenStep DEF IInv, PreciseTypeOK

LEMMA Invariance == PreciseSpec => []IInv
  BY InvInit, InvStep, PTL DEF PreciseSpec

\* The variables keep their types.
THEOREM TypeCorrect == PreciseSpec => []PreciseTypeOK
  BY Invariance, PTL DEF IInv

\* Two generators never run for the repository together, and the registry knows the one that runs.
THEOREM OneGeneratorAtATime == PreciseSpec => []OneGenerator
  BY Invariance, PTL DEF IInv

\* Without a fault, changed paths never wait without a thread that takes them.
THEOREM FaultsStrand == PreciseSpec => []OnlyFaultsStrand
  BY Invariance, PTL DEF IInv

\* No changed path is lost on its way to a generator.
THEOREM NoPathIsLost == PreciseSpec => []NothingIsLost
<1>1. NothingIsUnseen => NothingIsLost
  BY DEF NothingIsUnseen, NothingIsLost, WillBring
<1>2. QED
  BY Invariance, <1>1, PTL DEF IInv
=============================================================================
