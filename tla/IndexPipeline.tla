---------------------------- MODULE IndexPipeline ----------------------------
(***************************************************************************)
(* The index run of crates/cli/src/indexer/index/ and what it stores        *)
(* (crates/cli/src/storage/): manifest snapshots, the retrieval projections *)
(* of a snapshot, and the live semantic corpus with its head.  A run loads  *)
(* the latest snapshot, scans the tree, plans, and executes the plan phase  *)
(* by phase.  Every phase is one SQLite transaction, so a run may stop or   *)
(* crash between any two of them.                                          *)
(*                                                                         *)
(* One repository and one provider model.  A manifest maps each path to the *)
(* version (size, mtime and hash) of its file, and is its own snapshot id:  *)
(* deterministic_snapshot_id hashes exactly that.  Any phase may fail: the  *)
(* provider, the disk and a busy database are not modelled further.         *)
(***************************************************************************)
EXTENDS Integers, FiniteSets

CONSTANTS
  Paths,       \* files of the repository that have a semantic language
  Versions,    \* versions a file may have
  Gone,        \* the version of a file that is not there
  NoSnapshot,  \* no snapshot, no semantic head
  Indexers,    \* processes indexing the repository: the server, a command line
  Keep         \* DEFAULT_RETAINED_MANIFEST_SNAPSHOTS

Manifest == [Paths -> Versions \cup {Gone}]
Empty == [p \in Paths |-> Gone]

ASSUME IndexAssumption ==
  /\ Gone \notin Versions /\ NoSnapshot \notin Manifest
  /\ Keep \in Nat \ {0}

VARIABLES
  disk,       \* the working tree
  stored,     \* rows of table snapshot
  older,      \* their creation order: <<s, t>> when s was inserted before t
  projected,  \* snapshots with all retrieval projection families at the current version
  head,       \* covered_snapshot_id of the semantic head
  corpus,     \* the version of each path the live semantic chunks were cut from
  run,        \* run[i]: the index run of process i
  unsure      \* history: paths edited between the scan and the write of their chunks

snapshotVars == <<stored, older, projected>>
corpusVars == <<head, corpus, unsure>>
storeVars == <<snapshotVars, corpusVars>>
indexVars == <<disk, storeVars, run>>

Mode == {"full", "changed_only"}
Refresh == {"disabled", "reuse", "rebuild", "advance"}

(***************************************************************************)
(* The snapshot table.                                                     *)
(***************************************************************************)
\* load_latest_manifest_for_repository: newest created_at, then newest rowid.
Latest ==
  IF stored = {} THEN NoSnapshot
  ELSE CHOOSE s \in stored : \A t \in stored \ {s} : <<t, s>> \in older

\* upsert_manifest: a snapshot that is there keeps its row and its creation time.
Upsert(s) ==
  /\ stored' = stored \cup {s}
  /\ older' = IF s \in stored THEN older ELSE older \cup (stored \X {s})
  /\ UNCHANGED projected

\* Mutant: the projection rows stay.
Drop_KeepsProjections(set) ==
  /\ stored' = stored \ set
  /\ older' = {pair \in older : pair[1] \notin set /\ pair[2] \notin set}
  /\ UNCHANGED projected

\* delete_snapshot_rows_in_transaction for every snapshot of a set.
Drop(set) ==
  /\ stored' = stored \ set
  /\ older' = {pair \in older : pair[1] \notin set /\ pair[2] \notin set}
  /\ projected' = projected \ set

\* prune_repository_snapshots: beyond the newest Keep, except what a head covers.
Newer(s) == {t \in stored : <<s, t>> \in older}

\* Mutant: retention does not look at the semantic heads.
Superseded_ForgetsHead == {s \in stored : Cardinality(Newer(s)) >= Keep}

\* Mutant: one snapshot too many is kept.
Superseded_OneLess == {s \in stored : Cardinality(Newer(s)) > Keep /\ s # head}

Superseded == {s \in stored : Cardinality(Newer(s)) >= Keep /\ s # head}

(***************************************************************************)
(* Plans.                                                                  *)
(***************************************************************************)
\* diff: added or modified, and deleted.
Changed(old, new) == {p \in Paths : new[p] # old[p] /\ new[p] # Gone}
Deleted(old, new) == {p \in Paths : old[p] # Gone /\ new[p] = Gone}

\* The entries of a snapshot; an id without rows has none.
Entries(s) == IF s \in stored THEN s ELSE Empty

\* build_manifest_snapshot_plan: PersistNew unless nothing changed.
Persists(r) == r.mode = "full" \/ r.previous = NoSnapshot \/ r.target # r.previous

\* The head's manifest, when the delta may start from it; NoSnapshot asks for a rebuild.
PreviousEntries(r) == IF r.previous = NoSnapshot THEN Empty ELSE r.previous

\* Mutant: the corpus is taken to cover the previous snapshot.
Base_TrustsCorpus(r) == IF head = NoSnapshot THEN NoSnapshot ELSE PreviousEntries(r)

Base(r) ==
  IF head \in {r.target, r.previous} THEN PreviousEntries(r)
  ELSE IF head # NoSnapshot /\ r.hinted THEN Entries(head)
  ELSE NoSnapshot

\* Mutant: an unchanged manifest is taken to mean an unchanged corpus.
RefreshMode_TrustsManifest(r) ==
  IF ~r.semantic THEN "disabled"
  ELSE IF r.mode = "changed_only" /\ r.previous = r.target THEN "reuse"
  ELSE IF r.mode = "full" \/ Base(r) = NoSnapshot THEN "rebuild"
  ELSE IF Base(r) # r.target \/ r.previous = NoSnapshot THEN "advance"
  ELSE "reuse"

RefreshMode(r) ==
  IF ~r.semantic THEN "disabled"
  ELSE IF r.mode = "full" \/ Base(r) = NoSnapshot THEN "rebuild"
  ELSE IF Base(r) # r.target \/ r.previous = NoSnapshot THEN "advance"
  ELSE "reuse"

\* What the semantic refresh reads from disk, and what it removes.
Read(r) ==
  CASE r.refresh = "rebuild" -> {p \in Paths : r.target[p] # Gone}
    [] r.refresh = "advance" -> Changed(r.base, r.target)
    [] OTHER -> {}

\* Mutant: the chunks of deleted files stay.
Rewritten_KeepsDeleted(r) ==
  CASE r.refresh = "rebuild" -> Paths
    [] r.refresh = "advance" -> Changed(r.base, r.target)
    [] OTHER -> {}

Rewritten(r) ==
  CASE r.refresh = "rebuild" -> Paths
    [] r.refresh = "advance" -> Changed(r.base, r.target) \cup Deleted(r.base, r.target)
    [] OTHER -> {}

(***************************************************************************)
(* The run of process i.                                                   *)
(***************************************************************************)
Ended(result) ==
  [at |-> result, mode |-> "full", semantic |-> FALSE, hinted |-> FALSE,
   previous |-> NoSnapshot, target |-> Empty, refresh |-> "disabled", from |-> NoSnapshot,
   base |-> NoSnapshot, chunks |-> Empty, moved |-> {}]
Busy(i) == run[i].at \notin {"ok", "failed"}
Go(i, r) == run' = [run EXCEPT ![i] = r]
Goto(i, at) == Go(i, [run[i] EXCEPT !.at = at])
Fails(i) == Go(i, Ended("failed"))

\* The run loads the latest snapshot.
Begin(i) ==
  /\ ~Busy(i)
  /\ \E mode \in Mode, semantic, hinted \in BOOLEAN :
       Go(i, [run[i] EXCEPT !.at = "scan", !.mode = mode, !.semantic = semantic,
                            !.hinted = hinted, !.previous = Latest])
  /\ UNCHANGED <<disk, storeVars>>

\* It builds the manifest of the tree,
Scan(i) ==
  /\ run[i].at = "scan"
  /\ \/ Go(i, [run[i] EXCEPT !.at = "plan", !.target = disk])
     \/ Fails(i)
  /\ UNCHANGED <<disk, storeVars>>

\* and plans from it, the latest snapshot it loaded and the semantic head.
Plan(i) ==
  /\ run[i].at = "plan"
  /\ LET r == run[i]
     IN \/ Go(i, [r EXCEPT !.at = "persist", !.refresh = RefreshMode(r), !.from = head,
                           !.base = Base(r)])
        \/ Fails(i)
  /\ UNCHANGED <<disk, storeVars>>

\* on_before_commit may stop the run here, before it has written anything.
Persist(i) ==
  /\ run[i].at = "persist"
  /\ \/ /\ Goto(i, "project")
        /\ IF Persists(run[i]) THEN Upsert(run[i].target) ELSE UNCHANGED snapshotVars
     \/ Fails(i) /\ UNCHANGED snapshotVars
  /\ UNCHANGED <<disk, corpusVars>>

\* Deletes the snapshot, unless a head covers it; the deletion may fail.
Rollback(i) ==
  \/ run[i].target # head /\ Drop({run[i].target})
  \/ UNCHANGED snapshotVars

\* A new snapshot is projected, and an existing one whose projections are stale or missing.
\* The projection rows reference the snapshot row.
Project(i) ==
  /\ run[i].at = "project"
  /\ LET r == run[i]
         after == IF r.refresh \in {"rebuild", "advance"} THEN "embed" ELSE "prune"
     IN \/ /\ ~Persists(r) /\ r.target \in projected
           /\ Goto(i, after)
           /\ UNCHANGED snapshotVars
        \/ /\ Persists(r) \/ r.target \notin projected
           /\ r.target \in stored
           /\ projected' = projected \cup {r.target}
           /\ Goto(i, after)
           /\ UNCHANGED <<stored, older>>
        \/ /\ Fails(i)
           /\ IF Persists(r) THEN Rollback(i) ELSE UNCHANGED snapshotVars
  /\ UNCHANGED <<disk, corpusVars>>

\* rollback_on_semantic_failure
RefreshFails(i) ==
  /\ Fails(i)
  /\ IF Persists(run[i]) /\ run[i].previous # run[i].target
     THEN Rollback(i) ELSE UNCHANGED snapshotVars
  /\ UNCHANGED corpusVars

\* Reads and embeds the files; a rebuild fails on a file that has gone, an advance skips it.
Embed(i) ==
  /\ run[i].at = "embed"
  /\ LET r == run[i]
     IN \/ /\ r.refresh = "rebuild" => \A p \in Read(r) : disk[p] # Gone
           /\ Go(i, [r EXCEPT !.at = "write",
                     !.chunks = [p \in Paths |-> IF p \in Read(r) THEN disk[p] ELSE Gone]])
           /\ UNCHANGED storeVars
        \/ RefreshFails(i)
  /\ UNCHANGED disk

\* replace_ or advance_semantic_embeddings_for_repository; an advance checks that the head
\* is still the one it was planned from.
WriteCorpus(i) ==
  /\ run[i].at = "write"
  /\ LET r == run[i]
     IN \/ /\ r.refresh = "advance" => head = r.from
           /\ corpus' = [p \in Paths |-> IF p \in Rewritten(r) THEN r.chunks[p] ELSE corpus[p]]
           /\ unsure' = (unsure \ Rewritten(r)) \cup (Rewritten(r) \cap r.moved)
           /\ head' = r.target
           /\ Go(i, [r EXCEPT !.at = "prune", !.chunks = Empty, !.moved = {}])
           /\ UNCHANGED snapshotVars
        \/ RefreshFails(i)
  /\ UNCHANGED disk

Prune(i) ==
  /\ run[i].at = "prune"
  /\ \/ Drop(Superseded) /\ Go(i, Ended("ok"))
     \/ Fails(i) /\ UNCHANGED snapshotVars
  /\ UNCHANGED <<disk, corpusVars>>

\* The process dies between two phases; what it has committed stays.
Crash(i) ==
  /\ Busy(i)
  /\ Fails(i)
  /\ UNCHANGED <<disk, storeVars>>

\* Someone creates, edits or removes a file.
Edit(p, v) ==
  /\ v # disk[p]
  /\ disk' = [disk EXCEPT ![p] = v]
  /\ run' = [i \in Indexers |->
               IF run[i].semantic /\ run[i].at \in {"plan", "persist", "project", "embed"}
               THEN [run[i] EXCEPT !.moved = @ \cup {p}] ELSE run[i]]
  /\ UNCHANGED storeVars

Execute(i) ==
  Persist(i) \/ Project(i) \/ Embed(i) \/ WriteCorpus(i) \/ Prune(i)

IndexInit ==
  /\ disk \in Manifest
  /\ stored = {} /\ older = {} /\ projected = {}
  /\ head = NoSnapshot /\ corpus = Empty /\ unsure = {}
  /\ run = [i \in Indexers |-> Ended("ok")]

IndexNext ==
  \/ \E i \in Indexers : Begin(i) \/ Scan(i) \/ Plan(i) \/ Execute(i) \/ Crash(i)
  \/ \E p \in Paths, v \in Versions \cup {Gone} : Edit(p, v)

IndexSpec == IndexInit /\ [][IndexNext]_indexVars

=============================================================================
