------------------------- MODULE IndexPipelineProofs -------------------------
(***************************************************************************)
(* Proofs about the index pipeline, for every set of paths and versions.    *)
(* The order of the snapshots holds for any number of indexers; the head    *)
(* and the corpus for one, which is what the task registry of the server    *)
(* gives: with two they are refuted (IndexPipelinePair.cfg).               *)
(***************************************************************************)
EXTENDS IndexPipelineProps, FiniteSetTheorems, TLAPS

(* The snapshot table. *)

\* When something is stored, the latest snapshot is stored and older than nothing.
LEMMA LatestIsStored ==
  ASSUME SnapshotsWellFormed, stored # {}
  PROVE  Latest \in stored /\ \A t \in stored \ {Latest} : <<t, Latest>> \in older
<1>1. \E s \in stored : \A t \in stored \ {s} : <<t, s>> \in older
  BY DEF SnapshotsWellFormed
<1> QED BY <1>1 DEF Latest

LEMMA UpsertKeepsOrder ==
  ASSUME SnapshotsWellFormed, NEW s, Upsert(s)
  PROVE  SnapshotsWellFormed'
<1>1. CASE s \in stored
  <2>1. stored' = stored /\ older' = older /\ projected' = projected
    BY <1>1 DEF Upsert
  <2> QED BY <2>1 DEF SnapshotsWellFormed
<1>2. CASE s \notin stored
  <2>1. /\ stored' = stored \cup {s}
        /\ older' = older \cup (stored \X {s})
        /\ projected' = projected
    BY <1>2 DEF Upsert
  <2>2. older \subseteq stored \X stored /\ projected \subseteq stored
    BY DEF SnapshotsWellFormed
  <2>3. projected' \subseteq stored' /\ older' \subseteq stored' \X stored'
    BY <2>1, <2>2
  <2>4. ASSUME NEW t \in stored', NEW u \in stored', <<t, u>> \in older'
        PROVE  <<u, t>> \notin older'
    BY <1>2, <2>1, <2>2, <2>4 DEF SnapshotsWellFormed
  <2>5. ASSUME NEW set \in SUBSET stored', set # {}
        PROVE  \E u \in set : \A t \in set \ {u} : <<t, u>> \in older'
    <3>1. CASE s \in set
      BY <2>1, <3>1
    <3>2. CASE s \notin set
      <4>1. set \in SUBSET stored
        BY <2>1, <3>2
      <4>2. \E u \in set : \A t \in set \ {u} : <<t, u>> \in older
        BY <2>5, <4>1 DEF SnapshotsWellFormed
      <4> QED BY <2>1, <4>2
    <3> QED BY <3>1, <3>2
  <2> QED BY <2>3, <2>4, <2>5 DEF SnapshotsWellFormed
<1> QED BY <1>1, <1>2

LEMMA DropKeepsOrder ==
  ASSUME SnapshotsWellFormed, NEW gone, Drop(gone)
  PROVE  SnapshotsWellFormed'
<1>1. /\ stored' = stored \ gone
      /\ older' = {pair \in older : pair[1] \notin gone /\ pair[2] \notin gone}
      /\ projected' = projected \ gone
  BY DEF Drop
<1>2. older \subseteq stored \X stored /\ projected \subseteq stored
  BY DEF SnapshotsWellFormed
<1>3. projected' \subseteq stored' /\ older' \subseteq stored' \X stored'
  BY <1>1, <1>2
<1>4. ASSUME NEW t \in stored', NEW u \in stored', <<t, u>> \in older'
      PROVE  <<u, t>> \notin older'
  BY <1>1, <1>4 DEF SnapshotsWellFormed
<1>5. ASSUME NEW set \in SUBSET stored', set # {}
      PROVE  \E u \in set : \A t \in set \ {u} : <<t, u>> \in older'
  <2>1. PICK u \in set : \A t \in set \ {u} : <<t, u>> \in older
    BY <1>1, <1>5 DEF SnapshotsWellFormed
  <2>2. \A t \in set \ {u} : <<t, u>> \in older'
    BY <1>1, <2>1
  <2> QED BY <2>2
<1> QED BY <1>3, <1>4, <1>5 DEF SnapshotsWellFormed

\* Every step leaves the table alone, upserts a run's target, drops snapshots, or projects one
\* that is stored.
LEMMA StepsOfTheTable ==
  ASSUME [IndexNext]_indexVars
  PROVE  \/ UNCHANGED snapshotVars
         \/ \E i \in Indexers : Upsert(run[i].target)
         \/ \E gone : Drop(gone)
         \/ \E s \in stored : projected' = projected \cup {s} /\ UNCHANGED <<stored, older>>
<1>1. CASE UNCHANGED indexVars
  BY <1>1 DEF indexVars, storeVars
<1>2. ASSUME NEW i \in Indexers, Begin(i) \/ Scan(i) \/ Plan(i) \/ Crash(i)
      PROVE  UNCHANGED snapshotVars
  BY <1>2 DEF Begin, Scan, Plan, Crash, storeVars
<1>3. ASSUME NEW p \in Paths, NEW v \in Versions \cup {Gone}, Edit(p, v)
      PROVE  UNCHANGED snapshotVars
  BY <1>3 DEF Edit, storeVars
<1>4. ASSUME NEW i \in Indexers, Persist(i)
      PROVE  UNCHANGED snapshotVars \/ Upsert(run[i].target)
  BY <1>4 DEF Persist
<1>5. ASSUME NEW i \in Indexers, Rollback(i)
      PROVE  UNCHANGED snapshotVars \/ \E gone : Drop(gone)
  BY <1>5 DEF Rollback
<1>6. ASSUME NEW i \in Indexers, RefreshFails(i)
      PROVE  UNCHANGED snapshotVars \/ \E gone : Drop(gone)
  BY <1>5, <1>6 DEF RefreshFails
<1>7. ASSUME NEW i \in Indexers, Project(i)
      PROVE  \/ UNCHANGED snapshotVars
             \/ \E gone : Drop(gone)
             \/ \E s \in stored : projected' = projected \cup {s} /\ UNCHANGED <<stored, older>>
  BY <1>5, <1>7 DEF Project
<1>8. ASSUME NEW i \in Indexers, Embed(i) \/ WriteCorpus(i) \/ Prune(i)
      PROVE  UNCHANGED snapshotVars \/ \E gone : Drop(gone)
  BY <1>6, <1>8 DEF Embed, WriteCorpus, Prune, storeVars
<1> QED BY <1>1, <1>2, <1>3, <1>4, <1>7, <1>8 DEF IndexNext, Execute

LEMMA OrderInit == IndexInit => SnapshotsWellFormed
BY DEF IndexInit, SnapshotsWellFormed

LEMMA OrderStep == SnapshotsWellFormed /\ [IndexNext]_indexVars => SnapshotsWellFormed'
<1> SUFFICES ASSUME SnapshotsWellFormed, [IndexNext]_indexVars PROVE SnapshotsWellFormed'
  OBVIOUS
<1>1. CASE UNCHANGED snapshotVars
  BY <1>1 DEF SnapshotsWellFormed, snapshotVars
<1>2. ASSUME NEW s \in stored, projected' = projected \cup {s}, UNCHANGED <<stored, older>>
      PROVE  SnapshotsWellFormed'
  BY <1>2 DEF SnapshotsWellFormed
<1> QED BY <1>1, <1>2, StepsOfTheTable, UpsertKeepsOrder, DropKeepsOrder

\* However many processes index, fail and crash, the snapshot table has one creation order,
\* every set of snapshots a latest one, and no projection outlives its snapshot.
THEOREM SnapshotsStayWellFormed == IndexSpec => []SnapshotsWellFormed
BY OrderInit, OrderStep, PTL DEF IndexSpec

-----------------------------------------------------------------------------
(* Types. *)

LEMMA EmptyIsAManifest == Empty \in Manifest
BY DEF Empty, Manifest

LEMMA LatestIsASnapshot ==
  ASSUME IndexTypeOK, SnapshotsWellFormed PROVE Latest \in Snapshot
<1>1. CASE stored = {}
  BY <1>1 DEF Latest, Snapshot
<1>2. CASE stored # {}
  BY <1>2, LatestIsStored DEF IndexTypeOK, Snapshot
<1> QED BY <1>1, <1>2

LEMMA EndedIsARun ==
  /\ Ended("ok") \in Run
  /\ Ended("failed") \in Run
BY EmptyIsAManifest DEF Ended, Run, Phase, Mode, Refresh, Snapshot

LEMMA GoIsTyped ==
  ASSUME run \in [Indexers -> Run], NEW i \in Indexers, NEW r \in Run, Go(i, r)
  PROVE  run' \in [Indexers -> Run]
BY DEF Go

LEMMA GotoIsTyped ==
  ASSUME run \in [Indexers -> Run], NEW i \in Indexers, NEW at \in Phase, Goto(i, at)
  PROVE  run' \in [Indexers -> Run]
<1>1. [run[i] EXCEPT !.at = at] \in Run
  BY DEF Run
<1> QED BY <1>1, GoIsTyped DEF Goto

LEMMA FailsIsTyped ==
  ASSUME run \in [Indexers -> Run], NEW i \in Indexers, Fails(i)
  PROVE  run' \in [Indexers -> Run]
BY EndedIsARun, GoIsTyped DEF Fails

LEMMA BaseIsASnapshot ==
  ASSUME IndexTypeOK, NEW r \in Run PROVE Base(r) \in Snapshot
<1>1. PreviousEntries(r) \in Snapshot
  BY EmptyIsAManifest DEF PreviousEntries, Run, Snapshot
<1>2. Entries(head) \in Snapshot
  BY EmptyIsAManifest DEF Entries, IndexTypeOK, Snapshot
<1> QED BY <1>1, <1>2 DEF Base, Snapshot

LEMMA TypedSnapshots ==
  ASSUME IndexTypeOK, [IndexNext]_indexVars, SnapshotsWellFormed
  PROVE  /\ stored' \in SUBSET Manifest
         /\ older' \in SUBSET (Manifest \X Manifest)
         /\ projected' \in SUBSET Manifest
<1> USE DEF IndexTypeOK
<1>1. CASE UNCHANGED snapshotVars
  BY <1>1 DEF snapshotVars
<1>2. ASSUME NEW i \in Indexers, Upsert(run[i].target)
      PROVE  stored' \subseteq Manifest /\ projected' \subseteq Manifest
  BY <1>2 DEF Upsert, Run
<1>3. ASSUME NEW gone, Drop(gone)
      PROVE  stored' \subseteq Manifest /\ projected' \subseteq Manifest
  BY <1>3 DEF Drop
<1>4. ASSUME NEW s \in stored, projected' = projected \cup {s}, UNCHANGED <<stored, older>>
      PROVE  stored' \subseteq Manifest /\ projected' \subseteq Manifest
  BY <1>4
<1>5. stored' \subseteq Manifest /\ projected' \subseteq Manifest
  BY <1>1, <1>2, <1>3, <1>4, StepsOfTheTable
<1>6. older' \subseteq stored' \X stored'
  BY OrderStep DEF SnapshotsWellFormed
<1> QED BY <1>5, <1>6

LEMMA IndexTypeInit == IndexInit => IndexTypeOK
BY EmptyIsAManifest, EndedIsARun DEF IndexInit, IndexTypeOK, Snapshot

LEMMA IndexTypeStep ==
  IndexTypeOK /\ SnapshotsWellFormed /\ [IndexNext]_indexVars => IndexTypeOK'
<1> SUFFICES ASSUME IndexTypeOK, SnapshotsWellFormed, [IndexNext]_indexVars
             PROVE  /\ disk' \in Manifest
                    /\ head' \in Snapshot /\ corpus' \in Manifest /\ unsure' \in SUBSET Paths
                    /\ run' \in [Indexers -> Run]
  BY TypedSnapshots DEF IndexTypeOK
<1> DEFINE Typed ==
      /\ disk' \in Manifest
      /\ head' \in Snapshot /\ corpus' \in Manifest /\ unsure' \in SUBSET Paths
      /\ run' \in [Indexers -> Run]
<1>0. /\ disk \in Manifest
      /\ head \in Snapshot /\ corpus \in Manifest /\ unsure \in SUBSET Paths
      /\ run \in [Indexers -> Run]
  BY DEF IndexTypeOK
<1>1. CASE UNCHANGED indexVars
  BY <1>0, <1>1 DEF indexVars, storeVars, corpusVars
<1>2. ASSUME NEW i \in Indexers, Begin(i) PROVE Typed
  <2>1. PICK mode \in Mode, semantic \in BOOLEAN, hinted \in BOOLEAN :
          Go(i, [run[i] EXCEPT !.at = "scan", !.mode = mode, !.semantic = semantic,
                               !.hinted = hinted, !.previous = Latest])
    BY <1>2 DEF Begin
  <2>2. [run[i] EXCEPT !.at = "scan", !.mode = mode, !.semantic = semantic,
                       !.hinted = hinted, !.previous = Latest] \in Run
    BY <1>0, LatestIsASnapshot DEF Run, Phase
  <2>3. run' \in [Indexers -> Run]
    BY <1>0, <2>1, <2>2, GoIsTyped
  <2> QED BY <1>0, <1>2, <2>3 DEF Begin, storeVars, corpusVars
<1>3. ASSUME NEW i \in Indexers, Scan(i) PROVE Typed
  <2>1. [run[i] EXCEPT !.at = "plan", !.target = disk] \in Run
    BY <1>0 DEF Run, Phase
  <2>2. run' \in [Indexers -> Run]
    BY <1>0, <1>3, <2>1, GoIsTyped, FailsIsTyped DEF Scan
  <2> QED BY <1>0, <1>3, <2>2 DEF Scan, storeVars, corpusVars
<1>4. ASSUME NEW i \in Indexers, Plan(i) PROVE Typed
  <2>1. RefreshMode(run[i]) \in Refresh
    BY DEF RefreshMode, Refresh
  <2>2. run[i] \in Run /\ Base(run[i]) \in Snapshot
    BY <1>0, BaseIsASnapshot
  <2>3. [run[i] EXCEPT !.at = "persist", !.refresh = RefreshMode(run[i]), !.from = head,
                       !.base = Base(run[i])] \in Run
    BY <1>0, <2>1, <2>2 DEF Run, Phase
  <2>4. run' \in [Indexers -> Run]
    BY <1>0, <1>4, <2>3, GoIsTyped, FailsIsTyped DEF Plan
  <2> QED BY <1>0, <1>4, <2>4 DEF Plan, storeVars, corpusVars
<1>5. ASSUME NEW i \in Indexers, Persist(i) PROVE Typed
  <2>1. run' \in [Indexers -> Run]
    BY <1>0, <1>5, GotoIsTyped, FailsIsTyped DEF Persist, Phase
  <2> QED BY <1>0, <1>5, <2>1 DEF Persist, corpusVars
<1>6. ASSUME NEW i \in Indexers, Project(i) PROVE Typed
  <2>1. run' \in [Indexers -> Run]
    BY <1>0, <1>6, GotoIsTyped, FailsIsTyped DEF Project, Phase
  <2> QED BY <1>0, <1>6, <2>1 DEF Project, corpusVars
<1>7. ASSUME NEW i \in Indexers, Embed(i) PROVE Typed
  <2>1. [p \in Paths |-> IF p \in Read(run[i]) THEN disk[p] ELSE Gone] \in Manifest
    BY <1>0 DEF Manifest
  <2>2. [run[i] EXCEPT !.at = "write",
           !.chunks = [p \in Paths |-> IF p \in Read(run[i]) THEN disk[p] ELSE Gone]] \in Run
    BY <1>0, <2>1 DEF Run, Phase
  <2>3. run' \in [Indexers -> Run]
    BY <1>0, <1>7, <2>2, GoIsTyped, FailsIsTyped DEF Embed, RefreshFails
  <2>4. disk' = disk /\ UNCHANGED corpusVars
    BY <1>7 DEF Embed, RefreshFails, storeVars
  <2> QED BY <1>0, <2>3, <2>4 DEF corpusVars
<1>8. ASSUME NEW i \in Indexers, WriteCorpus(i) PROVE Typed
  <2>1. CASE RefreshFails(i) /\ UNCHANGED disk
    BY <1>0, <2>1, FailsIsTyped DEF RefreshFails, corpusVars
  <2>2. CASE ~RefreshFails(i)
    <3> DEFINE r == run[i]
    <3>1. r \in Run
      BY <1>0
    <3>2. /\ corpus' = [p \in Paths |-> IF p \in Rewritten(r) THEN r.chunks[p] ELSE corpus[p]]
          /\ unsure' = (unsure \ Rewritten(r)) \cup (Rewritten(r) \cap r.moved)
          /\ head' = r.target
          /\ Go(i, [r EXCEPT !.at = "prune", !.chunks = Empty, !.moved = {}])
          /\ disk' = disk
      BY <1>8, <2>2 DEF WriteCorpus
    <3>3. [r EXCEPT !.at = "prune", !.chunks = Empty, !.moved = {}] \in Run
      BY <3>1, EmptyIsAManifest DEF Run, Phase
    <3>4. run' \in [Indexers -> Run]
      BY <1>0, <3>2, <3>3, GoIsTyped
    <3>5. r.target \in Manifest /\ r.chunks \in Manifest /\ r.moved \in SUBSET Paths
      BY <3>1 DEF Run
    <3>6. corpus' \in Manifest /\ head' \in Snapshot /\ unsure' \in SUBSET Paths
      BY <1>0, <3>2, <3>5 DEF Manifest, Snapshot
    <3> QED BY <1>0, <3>2, <3>4, <3>6
  <2> QED BY <1>8, <2>1, <2>2 DEF WriteCorpus
<1>9. ASSUME NEW i \in Indexers, Prune(i) PROVE Typed
  <2>1. run' \in [Indexers -> Run]
    BY <1>0, <1>9, EndedIsARun, GoIsTyped, FailsIsTyped DEF Prune
  <2> QED BY <1>0, <1>9, <2>1 DEF Prune, corpusVars
<1>10. ASSUME NEW i \in Indexers, Crash(i) PROVE Typed
  BY <1>0, <1>10, FailsIsTyped DEF Crash, storeVars, corpusVars
<1>11. ASSUME NEW p \in Paths, NEW v \in Versions \cup {Gone}, Edit(p, v) PROVE Typed
  <2>1. disk' \in Manifest
    BY <1>0, <1>11 DEF Edit, Manifest
  <2>2. \A i \in Indexers : run[i] \in Run /\ [run[i] EXCEPT !.moved = @ \cup {p}] \in Run
    BY <1>0 DEF Run
  <2>3. run' \in [Indexers -> Run]
    BY <1>11, <2>2 DEF Edit
  <2> QED BY <1>0, <1>11, <2>1, <2>3 DEF Edit, storeVars, corpusVars
<1> QED BY <1>1, <1>2, <1>3, <1>4, <1>5, <1>6, <1>7, <1>8, <1>9, <1>10, <1>11
        DEF IndexNext, Execute

\* The tables, the heads and the runs keep their types, for any number of indexers; in
\* particular a run always loads a snapshot that is stored, or none.
THEOREM IndexTypesHold == IndexSpec => []IndexTypeOK
<1>1. IndexInit => IndexTypeOK /\ SnapshotsWellFormed
  BY IndexTypeInit, OrderInit
<1>2. (IndexTypeOK /\ SnapshotsWellFormed) /\ [IndexNext]_indexVars
        => (IndexTypeOK /\ SnapshotsWellFormed)'
  BY IndexTypeStep, OrderStep
<1> QED BY <1>1, <1>2, PTL DEF IndexSpec

-----------------------------------------------------------------------------
(* The semantic head and the corpus, with one indexer. *)

OneIndexer == \A i, j \in Indexers : i = j

CorpusIsTrue ==
  /\ IndexTypeOK /\ SnapshotsWellFormed
  /\ HeadIsStored /\ CorpusMatchesHead /\ PlansStillHold

LEMMA CorpusInit == IndexInit => CorpusIsTrue
<1> SUFFICES ASSUME IndexInit PROVE HeadIsStored /\ CorpusMatchesHead /\ PlansStillHold
  BY IndexTypeInit, OrderInit DEF CorpusIsTrue
<1>1. HeadIsStored /\ CorpusMatchesHead
  BY DEF IndexInit, HeadIsStored, CorpusMatchesHead
<1>2. \A i \in Indexers : run[i].at = "ok"
  BY DEF IndexInit, Ended
<1>3. PlansStillHold
  BY <1>2 DEF IndexInit, PlansStillHold, PlanStillHolds
<1> QED BY <1>1, <1>3

\* A step that writes no corpus and keeps the covered snapshot keeps the head and the corpus.
LEMMA QuietSteps ==
  ASSUME CorpusIsTrue, UNCHANGED corpusVars, head \in stored => head \in stored'
  PROVE  HeadIsStored' /\ CorpusMatchesHead' /\ (head' = NoSnapshot => corpus' = Empty)
BY DEF CorpusIsTrue, HeadIsStored, CorpusMatchesHead, PlansStillHold, corpusVars

LEMMA RollbackKeepsHead ==
  ASSUME NEW i \in Indexers, Rollback(i), head \in stored
  PROVE  head \in stored'
BY DEF Rollback, Drop, snapshotVars

\* A run that has not planned, or has ended, owes nothing.
LEMMA NothingPlanned ==
  ASSUME OneIndexer, NEW i \in Indexers, run'[i].at \in {"ok", "failed", "scan"}
  PROVE  \A j \in Indexers : PlanStillHolds(run[j])'
<1> SUFFICES PlanStillHolds(run[i])'
  BY DEF OneIndexer
<1> QED BY DEF PlanStillHolds

LEMMA FailurePlansNothing ==
  ASSUME OneIndexer, CorpusIsTrue, NEW i \in Indexers, Fails(i)
  PROVE  \A j \in Indexers : PlanStillHolds(run[j])'
<1>1. run'[i].at = "failed"
  BY DEF Fails, Go, Ended, CorpusIsTrue, IndexTypeOK
<1> QED BY <1>1, NothingPlanned

\* A run reuses the corpus only when the head covers its snapshot.
LEMMA ReuseIsCovered ==
  ASSUME HeadIsStored, NEW r \in Run, RefreshMode(r) = "reuse"
  PROVE  head = r.target
<1>1. Base(r) = r.target /\ r.previous # NoSnapshot
  BY DEF RefreshMode
<1>2. r.target # NoSnapshot
  BY IndexAssumption DEF Run
<1>3. CASE head \in {r.target, r.previous}
  BY <1>1, <1>3 DEF Base, PreviousEntries
<1>4. CASE head \notin {r.target, r.previous}
  <2>1. head # NoSnapshot /\ Base(r) = Entries(head)
    BY <1>1, <1>2, <1>4 DEF Base
  <2>2. Entries(head) = head
    BY <2>1 DEF Entries, HeadIsStored
  <2> QED BY <1>1, <2>1, <2>2
<1> QED BY <1>3, <1>4

\* What an advance leaves alone, the corpus has right already.
LEMMA AdvanceIsCovered ==
  ASSUME HeadIsStored, CorpusMatchesHead, head = NoSnapshot => corpus = Empty,
         NEW r \in Run, Base(r) # NoSnapshot, NEW p \in Paths \ unsure,
         p \notin Changed(Base(r), r.target), p \notin Deleted(Base(r), r.target)
  PROVE  corpus[p] = r.target[p]
<1>1. Base(r)[p] = r.target[p]
  BY DEF Changed, Deleted
<1>2. CASE head = NoSnapshot
  <2>1. r.target # NoSnapshot
    BY IndexAssumption DEF Run
  <2>2. Base(r) = Empty
    BY <1>2, <2>1 DEF Base, PreviousEntries
  <2> QED BY <1>1, <1>2, <2>2
<1>3. CASE head # NoSnapshot /\ head = r.target
  BY <1>3 DEF CorpusMatchesHead
<1>4. CASE head # NoSnapshot /\ head # r.target /\ head = r.previous
  <2>1. Base(r) = head
    BY <1>4 DEF Base, PreviousEntries
  <2> QED BY <1>1, <1>4, <2>1 DEF CorpusMatchesHead
<1>5. CASE head # NoSnapshot /\ head \notin {r.target, r.previous}
  <2>1. Base(r) = Entries(head)
    BY <1>5 DEF Base
  <2>2. Entries(head) = head
    BY <1>5 DEF Entries, HeadIsStored
  <2> QED BY <1>1, <1>5, <2>1, <2>2 DEF CorpusMatchesHead
<1> QED BY <1>2, <1>3, <1>4, <1>5

\* The actions that a plan has to survive, one lemma each.
LEMMA PlanningPlansTruly ==
  ASSUME OneIndexer, CorpusIsTrue, NEW i \in Indexers, Plan(i)
  PROVE  \A j \in Indexers : PlanStillHolds(run[j])'
<1> DEFINE r == run[i]
<1>0. r \in Run /\ run \in [Indexers -> Run] /\ PlanStillHolds(r)
  BY DEF CorpusIsTrue, IndexTypeOK, PlansStillHold
<1>1. CASE Fails(i)
  BY <1>1, FailurePlansNothing
<1>2. CASE Go(i, [r EXCEPT !.at = "persist", !.refresh = RefreshMode(r), !.from = head,
                           !.base = Base(r)])
  <2> DEFINE q == run'[i]
  <2>1. /\ q.at = "persist" /\ q.refresh = RefreshMode(r) /\ q.base = Base(r)
        /\ q.target = r.target /\ q.semantic = r.semantic /\ q.moved = r.moved
    BY <1>0, <1>2 DEF Go, Run
  <2>2. /\ head' = head /\ corpus' = corpus /\ unsure' = unsure /\ disk' = disk
        /\ projected' = projected
    BY DEF Plan, storeVars, snapshotVars, corpusVars
  <2>3. q.semantic <=> q.refresh # "disabled"
    BY <2>1 DEF RefreshMode
  <2>4. q.refresh = "reuse" => head' = q.target
    BY <1>0, <2>1, <2>2, ReuseIsCovered DEF CorpusIsTrue
  <2>5. q.semantic => \A p \in Paths \ q.moved : disk'[p] = q.target[p]
    BY <1>0, <2>1, <2>2 DEF Plan, PlanStillHolds
  <2>6. ASSUME q.refresh = "advance", NEW p \in Paths \ (unsure' \cup Rewritten(q))
        PROVE  corpus'[p] = q.target[p]
    <3>1. Base(r) # NoSnapshot
      BY <2>1, <2>6 DEF RefreshMode
    <3>2. p \notin Changed(Base(r), r.target) /\ p \notin Deleted(Base(r), r.target)
      BY <2>1, <2>6 DEF Rewritten
    <3> QED BY <1>0, <2>1, <2>2, <2>6, <3>1, <3>2, AdvanceIsCovered
            DEF CorpusIsTrue, PlansStillHold
  <2>7. PlanStillHolds(run[i])'
    BY <2>1, <2>3, <2>4, <2>5, <2>6 DEF PlanStillHolds
  <2> QED BY <2>7 DEF OneIndexer
<1> QED BY <1>1, <1>2 DEF Plan

LEMMA EmbeddingReadsThePlan ==
  ASSUME OneIndexer, CorpusIsTrue, NEW i \in Indexers, Embed(i)
  PROVE  \A j \in Indexers : PlanStillHolds(run[j])'
<1> DEFINE r == run[i]
           chunks == [p \in Paths |-> IF p \in Read(r) THEN disk[p] ELSE Gone]
<1>0. r \in Run /\ run \in [Indexers -> Run] /\ PlanStillHolds(r) /\ r.at = "embed"
  BY DEF CorpusIsTrue, IndexTypeOK, PlansStillHold, Embed
<1>1. CASE RefreshFails(i)
  BY <1>1, FailurePlansNothing DEF RefreshFails
<1>2. CASE ~RefreshFails(i)
  <2> DEFINE q == run'[i]
  <2>1. Go(i, [r EXCEPT !.at = "write", !.chunks = chunks]) /\ UNCHANGED storeVars
    BY <1>2 DEF Embed
  <2>2. /\ q.at = "write" /\ q.refresh = r.refresh /\ q.base = r.base /\ q.chunks = chunks
        /\ q.target = r.target /\ q.semantic = r.semantic /\ q.moved = r.moved
    BY <1>0, <2>1 DEF Go, Run
  <2>3. /\ head' = head /\ corpus' = corpus /\ unsure' = unsure /\ projected' = projected
    BY <2>1 DEF storeVars, snapshotVars, corpusVars
  <2>4. Read(q) = Read(r) /\ Rewritten(q) = Rewritten(r)
    BY <2>2 DEF Read, Rewritten
  <2>5. /\ r.semantic <=> r.refresh # "disabled"
        /\ r.refresh = "reuse" => head = r.target
        /\ r.refresh \in {"rebuild", "advance"} /\ r.target \in projected
    BY <1>0 DEF PlanStillHolds
  <2>6. \A p \in Paths \ r.moved : disk[p] = r.target[p]
    BY <1>0, <2>5 DEF PlanStillHolds
  <2>7. \A p \in Paths : IF p \in Read(q) THEN p \in q.moved \/ q.chunks[p] = q.target[p]
                         ELSE q.chunks[p] = Gone
    BY <2>2, <2>4, <2>6
  <2>8. q.refresh = "advance" =>
          \A p \in Paths \ (unsure' \cup Rewritten(q)) : corpus'[p] = q.target[p]
    BY <1>0, <2>2, <2>3, <2>4 DEF PlanStillHolds
  <2>9. PlanStillHolds(run[i])'
    BY <2>2, <2>3, <2>5, <2>7, <2>8 DEF PlanStillHolds
  <2> QED BY <2>9 DEF OneIndexer
<1> QED BY <1>1, <1>2

LEMMA ProjectingKeepsThePlan ==
  ASSUME OneIndexer, CorpusIsTrue, NEW i \in Indexers, Project(i)
  PROVE  \A j \in Indexers : PlanStillHolds(run[j])'
<1> DEFINE r == run[i]
           after == IF r.refresh \in {"rebuild", "advance"} THEN "embed" ELSE "prune"
<1>0. r \in Run /\ run \in [Indexers -> Run] /\ PlanStillHolds(r) /\ r.at = "project"
  BY DEF CorpusIsTrue, IndexTypeOK, PlansStillHold, Project
<1>1. CASE Fails(i)
  BY <1>1, FailurePlansNothing
<1>2. CASE ~Fails(i)
  <2> SUFFICES PlanStillHolds(run[i])'
    BY DEF OneIndexer
  <2> DEFINE q == run'[i]
  <2>1. Goto(i, after) /\ r.target \in projected' /\ UNCHANGED <<disk, corpusVars>>
    BY <1>2 DEF Project, snapshotVars
  <2>2. /\ q.at = after /\ q.refresh = r.refresh /\ q.base = r.base /\ q.chunks = r.chunks
        /\ q.target = r.target /\ q.semantic = r.semantic /\ q.moved = r.moved
    BY <1>0, <2>1 DEF Go, Goto, Run
  <2>3. head' = head /\ corpus' = corpus /\ unsure' = unsure /\ disk' = disk
    BY <2>1 DEF corpusVars
  <2>4. Rewritten(q) = Rewritten(r)
    BY <2>2 DEF Rewritten
  <2>5. /\ r.semantic <=> r.refresh # "disabled"
        /\ r.refresh = "reuse" => head = r.target
        /\ r.semantic => \A p \in Paths \ r.moved : disk[p] = r.target[p]
        /\ r.refresh = "advance" =>
             \A p \in Paths \ (unsure \cup Rewritten(r)) : corpus[p] = r.target[p]
    BY <1>0 DEF PlanStillHolds
  <2>6. q.semantic <=> q.refresh # "disabled"
    BY <2>2, <2>5
  <2>7. q.refresh = "reuse" => head' = q.target
    BY <2>2, <2>3, <2>5
  <2>8. CASE r.refresh \in {"rebuild", "advance"}
    <3>1. q.at = "embed"
      BY <2>2, <2>8
    <3>2. q.refresh \in {"rebuild", "advance"} /\ q.target \in projected'
      BY <2>1, <2>2, <2>8
    <3>3. q.semantic => \A p \in Paths \ q.moved : disk'[p] = q.target[p]
      BY <2>2, <2>3, <2>5
    <3>4. q.refresh = "advance" =>
            \A p \in Paths \ (unsure' \cup Rewritten(q)) : corpus'[p] = q.target[p]
      BY <2>2, <2>3, <2>4, <2>5
    <3> QED BY <2>6, <2>7, <3>1, <3>2, <3>3, <3>4 DEF PlanStillHolds
  <2>9. CASE r.refresh \in {"disabled", "reuse"}
    <3>1. q.at = "prune" /\ q.target \in projected'
      BY <2>1, <2>2, <2>9
    <3>2. q.semantic => head' = q.target
      BY <2>2, <2>3, <2>5, <2>9
    <3> QED BY <2>6, <2>7, <3>1, <3>2 DEF PlanStillHolds
  <2> QED BY <1>0, <2>8, <2>9 DEF Run, Refresh
<1> QED BY <1>1, <1>2

LEMMA PersistingKeepsThePlan ==
  ASSUME OneIndexer, CorpusIsTrue, NEW i \in Indexers, Persist(i)
  PROVE  \A j \in Indexers : PlanStillHolds(run[j])'
<1> DEFINE r == run[i]
<1>0. r \in Run /\ run \in [Indexers -> Run] /\ PlanStillHolds(r) /\ r.at = "persist"
  BY DEF CorpusIsTrue, IndexTypeOK, PlansStillHold, Persist
<1>1. CASE Fails(i)
  BY <1>1, FailurePlansNothing
<1>2. CASE Goto(i, "project")
  <2> DEFINE q == run'[i]
  <2>1. /\ q.at = "project" /\ q.refresh = r.refresh /\ q.base = r.base
        /\ q.target = r.target /\ q.semantic = r.semantic /\ q.moved = r.moved
    BY <1>0, <1>2 DEF Go, Goto, Run
  <2>2. head' = head /\ corpus' = corpus /\ unsure' = unsure /\ disk' = disk
    BY DEF Persist, corpusVars
  <2>3. Rewritten(q) = Rewritten(r)
    BY <2>1 DEF Rewritten
  <2>4. PlanStillHolds(run[i])'
    BY <1>0, <2>1, <2>2, <2>3 DEF PlanStillHolds
  <2> QED BY <2>4 DEF OneIndexer
<1> QED BY <1>1, <1>2 DEF Persist

LEMMA EditingKeepsThePlan ==
  ASSUME OneIndexer, CorpusIsTrue, NEW p \in Paths, NEW v, Edit(p, v)
  PROVE  \A j \in Indexers : PlanStillHolds(run[j])'
<1> SUFFICES ASSUME NEW i \in Indexers PROVE PlanStillHolds(run[i])'
  OBVIOUS
<1> DEFINE r == run[i]
           q == run'[i]
<1>0. r \in Run /\ PlanStillHolds(r) /\ disk \in Manifest
  BY DEF CorpusIsTrue, IndexTypeOK, PlansStillHold
<1>1. /\ head' = head /\ corpus' = corpus /\ unsure' = unsure /\ projected' = projected
      /\ \A u \in Paths \ {p} : disk'[u] = disk[u]
  BY <1>0 DEF Edit, storeVars, snapshotVars, corpusVars, Manifest
<1>2. /\ q.at = r.at /\ q.refresh = r.refresh /\ q.base = r.base /\ q.chunks = r.chunks
      /\ q.target = r.target /\ q.semantic = r.semantic
      /\ q.moved = IF r.semantic /\ r.at \in {"plan", "persist", "project", "embed"}
                   THEN r.moved \cup {p} ELSE r.moved
  BY <1>0 DEF Edit, Run
<1>3. Read(q) = Read(r) /\ Rewritten(q) = Rewritten(r)
  BY <1>2 DEF Read, Rewritten
<1>4. q.at \in {"plan", "persist", "project", "embed"} /\ q.semantic =>
        \A u \in Paths \ q.moved : disk'[u] = q.target[u]
  BY <1>0, <1>1, <1>2 DEF PlanStillHolds
<1>5. q.at = "write" =>
        \A u \in Paths : IF u \in Read(q) THEN u \in q.moved \/ q.chunks[u] = q.target[u]
                         ELSE q.chunks[u] = Gone
  BY <1>0, <1>2, <1>3 DEF PlanStillHolds
<1>6. /\ q.at \in {"persist", "project", "embed", "write", "prune"} =>
           /\ q.semantic <=> q.refresh # "disabled"
           /\ q.refresh = "reuse" => head' = q.target
      /\ q.at \in {"embed", "write"} =>
           q.refresh \in {"rebuild", "advance"} /\ q.target \in projected'
      /\ q.at = "prune" => q.target \in projected' /\ (q.semantic => head' = q.target)
  BY <1>0, <1>1, <1>2 DEF PlanStillHolds
<1>7. q.at \in {"persist", "project", "embed", "write"} /\ q.refresh = "advance" =>
        \A u \in Paths \ (unsure' \cup Rewritten(q)) : corpus'[u] = q.target[u]
  BY <1>0, <1>1, <1>2, <1>3 DEF PlanStillHolds
<1> QED BY <1>4, <1>5, <1>6, <1>7 DEF PlanStillHolds

\* Writing the corpus makes it match the new head, whatever was written before.
LEMMA WritingMovesTheHead ==
  ASSUME OneIndexer, CorpusIsTrue, NEW i \in Indexers, WriteCorpus(i), ~RefreshFails(i)
  PROVE  /\ HeadIsStored' /\ CorpusMatchesHead' /\ head' # NoSnapshot
         /\ \A j \in Indexers : PlanStillHolds(run[j])'
<1> DEFINE r == run[i]
           q == run'[i]
<1>0. r \in Run /\ run \in [Indexers -> Run] /\ PlanStillHolds(r) /\ r.at = "write"
  BY DEF CorpusIsTrue, IndexTypeOK, PlansStillHold, WriteCorpus
<1>1. /\ corpus' = [p \in Paths |-> IF p \in Rewritten(r) THEN r.chunks[p] ELSE corpus[p]]
      /\ unsure' = (unsure \ Rewritten(r)) \cup (Rewritten(r) \cap r.moved)
      /\ head' = r.target
      /\ Go(i, [r EXCEPT !.at = "prune", !.chunks = Empty, !.moved = {}])
      /\ stored' = stored /\ projected' = projected
  BY DEF WriteCorpus, snapshotVars
<1>2. /\ q.at = "prune" /\ q.refresh = r.refresh /\ q.target = r.target
      /\ q.semantic = r.semantic
  BY <1>0, <1>1 DEF Go, Run
<1>3. /\ r.semantic <=> r.refresh # "disabled"
      /\ r.refresh \in {"rebuild", "advance"} /\ r.target \in projected
  BY <1>0 DEF PlanStillHolds
<1>4. r.target \in stored /\ r.target # NoSnapshot
  BY <1>0, <1>3, IndexAssumption DEF CorpusIsTrue, SnapshotsWellFormed, Run
<1>5. HeadIsStored'
  BY <1>1, <1>4 DEF HeadIsStored
<1>6. ASSUME NEW p \in Paths \ unsure' PROVE corpus'[p] = head'[p]
  <2>1. CASE p \in Read(r)
    <3>1. p \in Rewritten(r) /\ p \notin r.moved
      BY <1>1, <1>3, <1>6, <2>1 DEF Read, Rewritten
    <3>2. r.chunks[p] = r.target[p]
      BY <1>0, <2>1, <3>1 DEF PlanStillHolds
    <3> QED BY <1>1, <3>1, <3>2
  <2>2. CASE p \in Rewritten(r) \ Read(r)
    <3>1. r.target[p] = Gone
      BY <1>3, <2>2 DEF Read, Rewritten, Deleted
    <3>2. r.chunks[p] = Gone
      BY <1>0, <2>2 DEF PlanStillHolds
    <3> QED BY <1>1, <2>2, <3>1, <3>2
  <2>3. CASE p \notin Rewritten(r)
    <3>1. r.refresh = "advance" /\ p \notin unsure
      BY <1>1, <1>3, <1>6, <2>3 DEF Rewritten
    <3>2. corpus[p] = r.target[p]
      BY <1>0, <2>3, <3>1 DEF PlanStillHolds
    <3> QED BY <1>1, <2>3, <3>2
  <2> QED BY <2>1, <2>2, <2>3
<1>7. CorpusMatchesHead'
  BY <1>6 DEF CorpusMatchesHead
<1>8. PlanStillHolds(run[i])'
  BY <1>1, <1>2, <1>3 DEF PlanStillHolds
<1> QED BY <1>1, <1>4, <1>5, <1>7, <1>8 DEF OneIndexer

LEMMA CorpusStep ==
  ASSUME OneIndexer PROVE CorpusIsTrue /\ [IndexNext]_indexVars => CorpusIsTrue'
<1> SUFFICES ASSUME CorpusIsTrue, [IndexNext]_indexVars
             PROVE  /\ HeadIsStored' /\ CorpusMatchesHead'
                    /\ head' = NoSnapshot => corpus' = Empty
                    /\ \A j \in Indexers : PlanStillHolds(run[j])'
  BY IndexTypeStep, OrderStep DEF CorpusIsTrue, PlansStillHold
<1> DEFINE StillTrue == /\ HeadIsStored' /\ CorpusMatchesHead'
                        /\ head' = NoSnapshot => corpus' = Empty
                        /\ \A j \in Indexers : PlanStillHolds(run[j])'
<1>0. run \in [Indexers -> Run]
  BY DEF CorpusIsTrue, IndexTypeOK
<1>1. CASE UNCHANGED indexVars
  BY <1>1 DEF CorpusIsTrue, HeadIsStored, CorpusMatchesHead, PlansStillHold, PlanStillHolds,
              indexVars, storeVars, snapshotVars, corpusVars
<1>2. ASSUME NEW i \in Indexers, Begin(i) PROVE StillTrue
  <2>1. run'[i].at = "scan"
    BY <1>0, <1>2 DEF Begin, Go, Run
  <2> QED BY <1>2, <2>1, NothingPlanned, QuietSteps DEF Begin, storeVars, snapshotVars
<1>3. ASSUME NEW i \in Indexers, Scan(i) PROVE StillTrue
  <2>1. CASE Fails(i)
    BY <1>3, <2>1, FailurePlansNothing, QuietSteps DEF Scan, storeVars, snapshotVars
  <2>2. CASE Go(i, [run[i] EXCEPT !.at = "plan", !.target = disk])
    <3>1. run'[i].at = "plan" /\ run'[i].target = disk
      BY <1>0, <2>2 DEF Go, Run
    <3>2. disk' = disk
      BY <1>3 DEF Scan
    <3>3. PlanStillHolds(run[i])'
      BY <3>1, <3>2 DEF PlanStillHolds
    <3>4. \A j \in Indexers : PlanStillHolds(run[j])'
      BY <3>3 DEF OneIndexer
    <3> QED BY <1>3, <3>4, QuietSteps DEF Scan, storeVars, snapshotVars
  <2> QED BY <1>3, <2>1, <2>2 DEF Scan
<1>4. ASSUME NEW i \in Indexers, Plan(i) PROVE StillTrue
  BY <1>4, PlanningPlansTruly, QuietSteps DEF Plan, storeVars, snapshotVars
<1>5. ASSUME NEW i \in Indexers, Persist(i) PROVE StillTrue
  <2>1. stored \subseteq stored' /\ UNCHANGED corpusVars
    BY <1>5 DEF Persist, Upsert, snapshotVars
  <2> QED BY <1>5, <2>1, PersistingKeepsThePlan, QuietSteps
<1>6. ASSUME NEW i \in Indexers, Project(i) PROVE StillTrue
  <2>1. (head \in stored => head \in stored') /\ UNCHANGED corpusVars
    BY <1>6, RollbackKeepsHead DEF Project, snapshotVars
  <2> QED BY <1>6, <2>1, ProjectingKeepsThePlan, QuietSteps
<1>7. ASSUME NEW i \in Indexers, RefreshFails(i) PROVE StillTrue
  <2>1. (head \in stored => head \in stored') /\ UNCHANGED corpusVars /\ Fails(i)
    BY <1>7, RollbackKeepsHead DEF RefreshFails, snapshotVars
  <2> QED BY <2>1, FailurePlansNothing, QuietSteps
<1>8. ASSUME NEW i \in Indexers, Embed(i) PROVE StillTrue
  <2>1. CASE RefreshFails(i)
    BY <1>7, <2>1
  <2>2. CASE ~RefreshFails(i)
    <3>1. UNCHANGED storeVars
      BY <1>8, <2>2 DEF Embed
    <3> QED BY <1>8, <3>1, EmbeddingReadsThePlan, QuietSteps DEF storeVars, snapshotVars
  <2> QED BY <2>1, <2>2
<1>9. ASSUME NEW i \in Indexers, WriteCorpus(i) PROVE StillTrue
  BY <1>7, <1>9, WritingMovesTheHead
<1>10. ASSUME NEW i \in Indexers, Prune(i) PROVE StillTrue
  <2>1. run'[i].at \in {"ok", "failed"}
    BY <1>0, <1>10 DEF Prune, Fails, Go, Ended
  <2>2. head \in stored => head \in stored'
    BY <1>10 DEF Prune, Drop, Superseded, snapshotVars
  <2> QED BY <1>10, <2>1, <2>2, NothingPlanned, QuietSteps DEF Prune
<1>11. ASSUME NEW i \in Indexers, Crash(i) PROVE StillTrue
  BY <1>11, FailurePlansNothing, QuietSteps DEF Crash, storeVars, snapshotVars
<1>12. ASSUME NEW p \in Paths, NEW v \in Versions \cup {Gone}, Edit(p, v) PROVE StillTrue
  BY <1>12, EditingKeepsThePlan, QuietSteps DEF Edit, storeVars, snapshotVars
<1> QED BY <1>1, <1>2, <1>3, <1>4, <1>5, <1>6, <1>8, <1>9, <1>10, <1>11, <1>12
        DEF IndexNext, Execute

LEMMA CorpusStaysTrue == ASSUME OneIndexer PROVE IndexSpec => []CorpusIsTrue
BY CorpusInit, CorpusStep, PTL DEF IndexSpec

\* One indexer, whatever fails and whenever it dies: the snapshot the head covers is stored.
THEOREM HeadStaysStored == ASSUME OneIndexer PROVE IndexSpec => []HeadIsStored
<1>1. CorpusIsTrue => HeadIsStored
  BY DEF CorpusIsTrue
<1> QED BY <1>1, CorpusStaysTrue, PTL

\* One indexer: the corpus holds the files of the covered snapshot, except those edited while a
\* run was between their scan and their embedding.
THEOREM CorpusStaysWithHead == ASSUME OneIndexer PROVE IndexSpec => []CorpusMatchesHead
<1>1. CorpusIsTrue => CorpusMatchesHead
  BY DEF CorpusIsTrue
<1> QED BY <1>1, CorpusStaysTrue, PTL

\* One indexer: what a run planned from is still so when the run uses it.
THEOREM PlansHold == ASSUME OneIndexer PROVE IndexSpec => []PlansStillHold
<1>1. CorpusIsTrue => PlansStillHold
  BY DEF CorpusIsTrue
<1> QED BY <1>1, CorpusStaysTrue, PTL

\* Only a run's own last phase ends it successfully.
LEMMA SuccessIsAPrune ==
  ASSUME run \in [Indexers -> Run], IndexNext, NEW i \in Indexers, Succeeds(i)
  PROVE  Prune(i)
<1>0. run[i].at = "prune" /\ run'[i].at = "ok"
  BY DEF Succeeds
<1>1. ASSUME NEW j \in Indexers,
             Begin(j) \/ Scan(j) \/ Plan(j) \/ Persist(j) \/ Project(j) \/ Embed(j) \/ WriteCorpus(j)
      PROVE  FALSE
  <2>1. j # i
    BY <1>0, <1>1 DEF Begin, Busy, Scan, Plan, Persist, Project, Embed, WriteCorpus
  <2>2. PICK r : run' = [run EXCEPT ![j] = r]
    BY <1>1 DEF Begin, Scan, Plan, Persist, Project, Embed, WriteCorpus, RefreshFails, Fails, Goto, Go
  <2> QED BY <1>0, <2>1, <2>2
<1>2. ASSUME NEW j \in Indexers, Crash(j) PROVE FALSE
  BY <1>0, <1>2 DEF Crash, Fails, Go, Ended
<1>3. ASSUME NEW j \in Indexers, Prune(j) PROVE j = i
  BY <1>0, <1>3 DEF Prune, Fails, Go, Ended
<1>4. ASSUME NEW p \in Paths, NEW v, Edit(p, v) PROVE FALSE
  BY <1>0, <1>4 DEF Edit
<1> QED BY <1>1, <1>2, <1>3, <1>4 DEF IndexNext, Execute

\* One indexer: a run that succeeds leaves its snapshot, when it is the latest, with all
\* projections and, when semantic, covered by the corpus.
THEOREM SuccessServes == ASSUME OneIndexer PROVE IndexSpec => SuccessIsServable
<1> DEFINE Serves == \A i \in Indexers :
             Succeeds(i) /\ run[i].target = Latest' =>
               /\ run[i].target \in projected'
               /\ run[i].semantic => head' = run[i].target
<1>1. SnapshotsWellFormed => (stored # {} => Latest \in stored) /\ (stored = {} => Latest = NoSnapshot)
  BY LatestIsStored DEF Latest
<1>2. CorpusIsTrue /\ CorpusIsTrue' /\ [IndexNext]_indexVars
        /\ (SnapshotsWellFormed => (stored # {} => Latest \in stored)
                                     /\ (stored = {} => Latest = NoSnapshot))'
        => [Serves]_indexVars
  <2> SUFFICES ASSUME CorpusIsTrue, CorpusIsTrue', IndexNext, NEW i \in Indexers, Succeeds(i),
                      stored' # {} => Latest' \in stored', stored' = {} => Latest' = NoSnapshot,
                      run[i].target = Latest'
               PROVE  /\ run[i].target \in projected'
                      /\ run[i].semantic => head' = run[i].target
    BY DEF CorpusIsTrue
  <2>1. Prune(i)
    BY SuccessIsAPrune DEF CorpusIsTrue, IndexTypeOK
  <2>2. run[i] \in Run /\ PlanStillHolds(run[i]) /\ run[i].at = "prune"
    BY <2>1 DEF CorpusIsTrue, IndexTypeOK, PlansStillHold, Prune
  <2>3. run[i].target \in projected /\ (run[i].semantic => head = run[i].target)
    BY <2>2 DEF PlanStillHolds
  <2>4. run[i].target # NoSnapshot
    BY <2>2, IndexAssumption DEF Run
  <2>5. run[i].target \in stored'
    BY <2>4
  <2>6. head' = head
    BY <2>1 DEF Prune, corpusVars
  <2>7. run[i].target \in projected'
    BY <2>1, <2>3, <2>5 DEF Prune, Drop, snapshotVars
  <2> QED BY <2>3, <2>6, <2>7
<1>3. IndexSpec => []CorpusIsTrue
  BY CorpusStaysTrue
<1>4. IndexSpec => [][Serves]_indexVars
  BY <1>1, <1>2, <1>3, PTL DEF IndexSpec
<1> QED BY <1>4 DEF SuccessIsServable

-----------------------------------------------------------------------------
(* Retention, with any number of indexers. *)

TableIsFinite == IsFiniteSet(stored)

LEMMA FiniteStep == TableIsFinite /\ [IndexNext]_indexVars => TableIsFinite'
<1> SUFFICES ASSUME TableIsFinite, [IndexNext]_indexVars PROVE IsFiniteSet(stored')
  BY DEF TableIsFinite
<1>1. ASSUME NEW s, Upsert(s) PROVE IsFiniteSet(stored')
  BY <1>1, FS_AddElement DEF Upsert, TableIsFinite
<1>2. ASSUME NEW gone, Drop(gone) PROVE IsFiniteSet(stored')
  <2>1. stored' \in SUBSET stored
    BY <1>2 DEF Drop
  <2> QED BY <2>1, FS_Subset DEF TableIsFinite
<1> QED BY <1>1, <1>2, StepsOfTheTable DEF TableIsFinite, snapshotVars

\* Creation order is total and transitive, so an older snapshot has more newer ones.
LEMMA OlderHasMoreNewer ==
  ASSUME SnapshotsWellFormed, TableIsFinite, NEW s \in stored, NEW t \in stored, <<s, t>> \in older
  PROVE  Cardinality(Newer(t)) < Cardinality(Newer(s))
<1>1. t \in Newer(s) /\ t \notin Newer(t)
  BY DEF Newer, SnapshotsWellFormed
<1>2. ASSUME NEW u \in Newer(t) PROVE u \in Newer(s)
  <2>1. u \in stored /\ <<t, u>> \in older
    BY <1>2 DEF Newer
  <2>2. {s, t, u} \in SUBSET stored /\ {s, t, u} # {}
    BY <2>1
  <2>3. PICK l \in {s, t, u} : \A k \in {s, t, u} \ {l} : <<k, l>> \in older
    BY <2>2 DEF SnapshotsWellFormed
  <2>4. s # t /\ t # u /\ s # u
    BY <2>1 DEF SnapshotsWellFormed
  <2>5. l # s /\ l # t
    BY <2>1, <2>3, <2>4 DEF SnapshotsWellFormed
  <2> QED BY <2>1, <2>3, <2>4, <2>5 DEF Newer
<1>3. Newer(s) \in SUBSET stored /\ Newer(t) \in SUBSET Newer(s)
  BY <1>2 DEF Newer
<1>4. IsFiniteSet(Newer(s))
  BY <1>3, FS_Subset DEF TableIsFinite
<1>5. /\ IsFiniteSet(Newer(t))
      /\ Cardinality(Newer(t)) <= Cardinality(Newer(s))
      /\ Cardinality(Newer(s)) = Cardinality(Newer(t)) => Newer(s) = Newer(t)
  BY <1>3, <1>4, FS_Subset
<1>6. Cardinality(Newer(s)) \in Nat /\ Cardinality(Newer(t)) \in Nat
  BY <1>4, <1>5, FS_CardinalityType
<1> QED BY <1>1, <1>5, <1>6

\* At most n snapshots have fewer than n newer ones.
LEMMA FewAreNew ==
  ASSUME SnapshotsWellFormed, TableIsFinite, NEW n \in Nat
  PROVE  LET new == {s \in stored : Cardinality(Newer(s)) < n}
         IN  IsFiniteSet(new) /\ Cardinality(new) <= n
<1> DEFINE new == {s \in stored : Cardinality(Newer(s)) < n}
           rank == [s \in new |-> Cardinality(Newer(s))]
<1>1. \A s \in stored : Cardinality(Newer(s)) \in Nat
  <2> SUFFICES ASSUME NEW s \in stored PROVE Cardinality(Newer(s)) \in Nat
    OBVIOUS
  <2>1. Newer(s) \in SUBSET stored
    BY DEF Newer
  <2> QED BY <2>1, FS_Subset, FS_CardinalityType DEF TableIsFinite
<1>2. rank \in [new -> 0..(n - 1)]
  BY <1>1
<1>3. ASSUME NEW s \in new, NEW t \in new, rank[s] = rank[t] PROVE s = t
  <2>1. {s, t} \in SUBSET stored /\ {s, t} # {}
    OBVIOUS
  <2>2. s # t => <<s, t>> \in older \/ <<t, s>> \in older
    <3>1. PICK l \in {s, t} : \A k \in {s, t} \ {l} : <<k, l>> \in older
      BY <2>1 DEF SnapshotsWellFormed
    <3> QED BY <3>1
  <2>3. Cardinality(Newer(s)) = Cardinality(Newer(t))
    BY <1>3
  <2> QED BY <1>1, <2>2, <2>3, OlderHasMoreNewer
<1>4. rank \in Injection(new, 0..(n - 1))
  BY <1>2, <1>3 DEF Injection, IsInjective
<1>5. IsFiniteSet(0..(n - 1)) /\ Cardinality(0..(n - 1)) = n
  BY FS_Interval
<1> HIDE DEF new, rank
<1>6. IsFiniteSet(new) /\ Cardinality(new) <= n
  BY <1>4, <1>5, FS_Injection
<1> QED BY <1>6 DEF new

\* Whatever other processes do, a run that succeeds leaves at most Keep snapshots besides the
\* covered one.
THEOREM SuccessBounds == IndexSpec => SuccessIsBounded
<1> DEFINE Bounded == IndexTypeOK /\ SnapshotsWellFormed /\ TableIsFinite
           Bounds == \A i \in Indexers :
                       Succeeds(i) => Cardinality(stored' \ {head'}) <= Keep
<1>1. IndexInit => Bounded
  BY IndexTypeInit, OrderInit, FS_EmptySet DEF IndexInit, TableIsFinite
<1>2. Bounded /\ [IndexNext]_indexVars => Bounded'
  BY IndexTypeStep, OrderStep, FiniteStep
<1>3. Bounded /\ [IndexNext]_indexVars => [Bounds]_indexVars
  <2> SUFFICES ASSUME Bounded, IndexNext, NEW i \in Indexers, Succeeds(i)
               PROVE  Cardinality(stored' \ {head'}) <= Keep
    OBVIOUS
  <2> DEFINE new == {s \in stored : Cardinality(Newer(s)) < Keep}
  <2>1. Prune(i)
    BY SuccessIsAPrune DEF IndexTypeOK
  <2>2. run'[i].at = "ok" /\ head' = head
    BY <2>1 DEF Succeeds, Prune, corpusVars
  <2>3. stored' = stored \ Superseded
    BY <2>1, <2>2 DEF Prune, Drop, Fails, Go, Ended, IndexTypeOK
  <2>4. \A s \in stored : Cardinality(Newer(s)) \in Nat
    <3> SUFFICES ASSUME NEW s \in stored PROVE Cardinality(Newer(s)) \in Nat
      OBVIOUS
    <3>1. Newer(s) \in SUBSET stored
      BY DEF Newer
    <3> QED BY <3>1, FS_Subset, FS_CardinalityType DEF TableIsFinite
  <2>5. Keep \in Nat
    BY IndexAssumption
  <2>6. stored' \ {head'} \in SUBSET new
    BY <2>2, <2>3, <2>4, <2>5 DEF Superseded
  <2>7. IsFiniteSet(new) /\ Cardinality(new) <= Keep
    BY <2>5, FewAreNew
  <2> HIDE DEF new
  <2>8. /\ IsFiniteSet(stored' \ {head'})
        /\ Cardinality(stored' \ {head'}) <= Cardinality(new)
    BY <2>6, <2>7, FS_Subset
  <2>9. Cardinality(new) \in Nat /\ Cardinality(stored' \ {head'}) \in Nat
    BY <2>7, <2>8, FS_CardinalityType
  <2> QED BY <2>5, <2>7, <2>8, <2>9
<1>4. IndexSpec => [][Bounds]_indexVars
  BY <1>1, <1>2, <1>3, PTL DEF IndexSpec
<1> QED BY <1>4 DEF SuccessIsBounded

=============================================================================
