-------------------------- MODULE IndexPipelineProps --------------------------
(***************************************************************************)
(* What the stored index must guarantee between and across index runs.     *)
(***************************************************************************)
EXTENDS IndexPipeline

Phase == {"scan", "plan", "persist", "project", "embed", "write", "prune", "ok", "failed"}
Snapshot == Manifest \cup {NoSnapshot}
Run ==
  [at: Phase, mode: Mode, semantic: BOOLEAN, hinted: BOOLEAN, previous: Snapshot,
   target: Manifest, refresh: Refresh, from: Snapshot, base: Snapshot, chunks: Manifest,
   moved: SUBSET Paths]

\* Types of the stored index and of the runs.
IndexTypeOK ==
  /\ disk \in Manifest
  /\ stored \in SUBSET Manifest
  /\ older \in SUBSET (Manifest \X Manifest)
  /\ projected \in SUBSET Manifest
  /\ head \in Snapshot /\ corpus \in Manifest /\ unsure \in SUBSET Paths
  /\ run \in [Indexers -> Run]

\* The semantic head always covers a snapshot that is stored: the next delta is computed from
\* that snapshot's entries, and an absent one would read as an empty repository.
HeadIsStored == head # NoSnapshot => head \in stored

\* The live corpus holds exactly the files of the snapshot the head covers, at their versions,
\* whatever mixture of replaces, advances, failures and crashes led there; only a file edited
\* between a run's scan and its embedding may differ.
CorpusMatchesHead ==
  head # NoSnapshot => \A p \in Paths \ unsure : corpus[p] = head[p]

\* Projections never outlive their snapshot, and creation order stays a strict order in which
\* every set of stored snapshots has a latest one: "the latest snapshot" always means one.
SnapshotsWellFormed ==
  /\ projected \subseteq stored
  /\ older \subseteq stored \X stored
  /\ \A s, t \in stored : <<s, t>> \in older => <<t, s>> \notin older
  /\ \A set \in SUBSET stored :
       set # {} => \E s \in set : \A t \in set \ {s} : <<t, s>> \in older

\* What a run planned from stays true until it has used it: its snapshot is there when the
\* corpus moves to it, what it need not rewrite is right already, what it embeds is what it
\* scanned unless someone edited it since, and what it reuses is covered and projected.
PlanStillHolds(r) ==
  LET planned == {"persist", "project", "embed", "write"}
  IN /\ r.at \in planned \cup {"prune"} =>
          /\ r.semantic <=> r.refresh # "disabled"
          /\ r.refresh = "reuse" => head = r.target
     /\ r.at \in {"embed", "write"} =>
          r.refresh \in {"rebuild", "advance"} /\ r.target \in projected
     /\ r.at \in {"plan", "persist", "project", "embed"} /\ r.semantic =>
          \A p \in Paths \ r.moved : disk[p] = r.target[p]
     /\ r.at = "write" =>
          \A p \in Paths : IF p \in Read(r) THEN p \in r.moved \/ r.chunks[p] = r.target[p]
                          ELSE r.chunks[p] = Gone
     /\ r.at \in planned /\ r.refresh = "advance" =>
          \A p \in Paths \ (unsure \cup Rewritten(r)) : corpus[p] = r.target[p]
     /\ r.at = "prune" =>
          r.target \in projected /\ (r.semantic => head = r.target)

PlansStillHold ==
  /\ head = NoSnapshot => corpus = Empty
  /\ \A i \in Indexers : PlanStillHolds(run[i])

\* The step with which process i ends a run successfully.
Succeeds(i) == run[i].at = "prune" /\ run'[i].at = "ok"

\* A run that succeeds leaves the latest snapshot, when it is its own, with all projections
\* and, when semantic, covered by the corpus: reuse never trusts what a crash left half done.
SuccessIsServable ==
  [][\A i \in Indexers :
       Succeeds(i) /\ run[i].target = Latest' =>
         /\ run[i].target \in projected'
         /\ run[i].semantic => head' = run[i].target]_indexVars

\* After a successful run at most Keep snapshots and the covered one are stored.
SuccessIsBounded ==
  [][\A i \in Indexers :
       Succeeds(i) => Cardinality(stored' \ {head'}) <= Keep]_indexVars

\* The snapshot of a run that succeeds is the latest one afterwards.
SuccessIsLatest ==
  [][\A i \in Indexers : Succeeds(i) => Latest' = run[i].target]_indexVars

=============================================================================
