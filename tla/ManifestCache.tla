--------------------------- MODULE ManifestCache ---------------------------
(***************************************************************************)
(* The freshness caches of the server for one repository: the validated    *)
(* manifest cache (a Dirty mark or a snapshot known to match the files),   *)
(* and the answers computed from it (symbol corpus, response freshness,    *)
(* projections), filled by concurrent queries and invalidated by the watch *)
(* supervisor, its worker and the sessions.                                *)
(*                                                                         *)
(* The files are a version number that every edit raises.  A snapshot id   *)
(* is a hash of the content it describes, so it is the version scanned.    *)
(* An epoch is only ever compared for equality with a captured value: a    *)
(* captured epoch is a flag that the next fetch_add lowers.                *)
(***************************************************************************)
EXTENDS Naturals, Sequences, FiniteSets

CONSTANTS
  Queries,        \* concurrent tool calls
  FirstTree,      \* version of the files when the server starts with snapshot 0
  Calls,          \* which call may do what: pairs of a query and a kind
  MaxEdits,       \* bound: edits of the files
  MaxFailures,    \* bound: refreshes that fail
  MaxSessionOps   \* bound: attaches, detaches and index runs of sessions

ASSUME QueriesAssumption == IsFiniteSet(Queries)
ASSUME CallsAssumption == Calls \subseteq Queries \X {"search", "corpus", "response", "projection"}
ASSUME BoundsAssumption == MaxEdits \in Nat /\ FirstTree \in 0 .. MaxEdits
                              /\ MaxFailures \in Nat /\ MaxSessionOps \in Nat

VARIABLES
  tree,         \* version of the files
  latest,       \* snapshot the store returns as the latest
  inbox,        \* edits the platform watcher has not reported yet
  commands,     \* the channel to the supervisor
  accepted,     \* the last edit the supervisor has accepted
  lease,        \* the watch lease is held and the repository is in the map
  sched,        \* the ManifestFast state of the repository in the scheduler
  job,          \* the index run registered in the task registry
  entry,        \* the validated manifest cache
  stored,       \* the answer caches
  todo,         \* what each invalidating thread has still to do
  query,        \* the tool calls
  failures, sessionOps,   \* counters of the bounds
  lifted        \* history: the last edit accepted when a session removed a Dirty mark

filesVars == <<tree, latest>>
watchVars == <<inbox, commands, accepted, lease, sched>>
boundVars == <<failures, sessionOps, lifted>>
vars == <<filesVars, watchVars, job, entry, stored, todo, query, boundVars>>

Families == {"corpus", "response", "projection"}
Kinds    == Families \cup {"search"}
Threads  == {"supervisor", "worker", "session"}
Versions == 0 .. MaxEdits

None     == [kind |-> "none", snapshot |-> 0]
Dirty    == [kind |-> "dirty", snapshot |-> 0]
Ready(v) == [kind |-> "ready", snapshot |-> v]
Entries  == {None, Dirty} \cup {Ready(v) : v \in Versions}

Empty == [full |-> FALSE, snapshot |-> 0, live |-> FALSE, content |-> 0, current |-> TRUE]
NoJob == [owner |-> "none", phase |-> "none", scanned |-> 0, stale |-> FALSE, ok |-> TRUE]
\* blocked is history: the last refresh blocked its retry, and no event came since
Unknown == [known |-> FALSE, pending |-> FALSE, running |-> FALSE, rerun |-> FALSE,
            blocked |-> FALSE]
Idle  == [pc |-> "idle", kind |-> "search", reads |-> <<>>, trusted |-> FALSE,
          fresh |-> TRUE, snapshot |-> 0, live |-> FALSE, seen |-> 0, result |-> 0]

\* a command to the supervisor: an event with its edit, a lease command, or the
\* completion of a job with its result and whether its epoch is outdated
Command(k, v, ok, stale) == [kind |-> k, edit |-> v, ok |-> ok, stale |-> stale]

Op(o, f) == [op |-> o, family |-> f]
Invalidate(f) == <<Op("bump", f), Op("clear", f)>>
\* the callback of the supervisor, and what a session runs beside it
Callback == Invalidate("corpus") \o Invalidate("response") \o Invalidate("projection")
IndexInvalidation == <<Op("root", "")>> \o Invalidate("projection")
                       \o Invalidate("corpus") \o Invalidate("response")
DetachInvalidation == Invalidate("corpus") \o Invalidate("response")

\* A session has just attached the repository.
Init ==
  /\ tree = FirstTree /\ latest = 0 /\ inbox = {} /\ accepted = 0
  /\ commands = <<Command("acquired", 0, TRUE, FALSE)>>
  /\ lease = TRUE /\ sched = Unknown /\ job = NoJob
  /\ entry = None /\ stored = [f \in Families |-> Empty]
  /\ todo = [t \in Threads |-> <<>>] /\ query = [q \in Queries |-> Idle]
  /\ failures = 0 /\ sessionOps = 0 /\ lifted = 0

\* The user edits a file; a leased root is watched.
Edit ==
  /\ tree < MaxEdits
  /\ tree' = tree + 1
  /\ inbox' = IF lease THEN inbox \cup {tree + 1} ELSE inbox
  /\ UNCHANGED <<latest, commands, accepted, lease, sched, job, entry, stored, todo, query,
                 boundVars>>

EventOf(v) == Command("event", v, TRUE, FALSE)

\* The platform watcher reports an edit (or that it lost one: the handler does the same), in order but at its own time.
Notify ==
  /\ \E v \in inbox : /\ \A w \in inbox : v <= w
                      /\ inbox' = inbox \ {v}
                      /\ commands' = Append(commands, EventOf(v))
  /\ UNCHANGED <<filesVars, accepted, lease, sched, job, entry, stored, todo, query, boundVars>>

-----------------------------------------------------------------------------
(* The threads that invalidate. *)

\* The next step of an invalidation: fetch_add on the epoch, then retain under the lock.
BumpEpoch(t) ==
  /\ todo[t] # <<>> /\ Head(todo[t]).op = "bump"
  /\ LET f == Head(todo[t]).family
     IN /\ stored' = [stored EXCEPT ![f].current = ~stored[f].full]
        /\ query' = [q \in Queries |->
                       [query[q] EXCEPT !.fresh = @ /\ query[q].kind # f]]
  /\ todo' = [todo EXCEPT ![t] = Tail(@)]
  /\ UNCHANGED <<filesVars, watchVars, job, entry, boundVars>>

ClearFamily(t) ==
  /\ todo[t] # <<>> /\ Head(todo[t]).op = "clear"
  /\ stored' = [stored EXCEPT ![Head(todo[t]).family] = Empty]
  /\ todo' = [todo EXCEPT ![t] = Tail(@)]
  /\ UNCHANGED <<filesVars, watchVars, job, entry, query, boundVars>>

invalidate_root ==
  /\ todo["session"] # <<>> /\ Head(todo["session"]).op = "root"
  /\ entry' = None
  /\ lifted' = IF entry = Dirty THEN accepted ELSE lifted
  /\ todo' = [todo EXCEPT !["session"] = Tail(@)]
  /\ UNCHANGED <<filesVars, watchVars, job, stored, query, failures, sessionOps>>

-----------------------------------------------------------------------------
(* The supervisor: one thread, a command is handled to its end. *)

Receive(k) ==
  /\ todo["supervisor"] = <<>>
  /\ commands # <<>> /\ Head(commands).kind = k
  /\ commands' = Tail(commands)

\* record_path_change, mark_dirty_root, then the callback.  The scheduler drops a
\* path of a repository it does not know; the mark is set all the same.
handle_notify_event ==
  /\ Receive("event")
  /\ IF lease
     THEN /\ accepted' = Head(commands).edit
          /\ sched' = CASE ~sched.known  -> sched
                        [] sched.running -> [sched EXCEPT !.rerun = TRUE, !.blocked = FALSE]
                        [] OTHER         -> [sched EXCEPT !.pending = TRUE, !.blocked = FALSE]
          /\ entry' = Dirty
          /\ todo' = [todo EXCEPT !["supervisor"] = Callback]
     ELSE UNCHANGED <<accepted, sched, entry, todo>>
  /\ UNCHANGED <<filesVars, inbox, lease, job, stored, query, boundVars>>

\* LeaseAcquired: add_repository, and a refresh when the snapshot is not of these files.
LeaseAcquired ==
  /\ Receive("acquired")
  /\ sched' = [sched EXCEPT !.known = TRUE, !.pending = @ \/ latest # tree]
  /\ UNCHANGED <<filesVars, inbox, accepted, lease, job, entry, stored, todo, query, boundVars>>

\* LeaseReleased: the epoch is raised, so the job and the completions under way are outdated.
LeaseReleased ==
  /\ todo["supervisor"] = <<>>
  /\ commands # <<>> /\ Head(commands).kind = "released"
  /\ commands' = [i \in 1 .. Len(commands) - 1 |->
                   [commands[i + 1] EXCEPT !.stale = @ \/ commands[i + 1].kind = "completed"]]
  /\ job' = [job EXCEPT !.stale = job.owner = "worker"]
  /\ sched' = Unknown
  /\ UNCHANGED <<filesVars, inbox, accepted, lease, entry, stored, todo, query, boundVars>>

dispatch ==
  /\ todo["supervisor"] = <<>> /\ sched.pending /\ ~sched.running /\ lease /\ job = NoJob
  /\ sched' = [sched EXCEPT !.pending = FALSE, !.running = TRUE]
  /\ job' = [NoJob EXCEPT !.owner = "worker", !.phase = "scan"]
  /\ UNCHANGED <<filesVars, inbox, commands, accepted, lease, entry, stored, todo, query,
                 boundVars>>

\* An outdated completion only runs the callback; a current one of a leased
\* repository settles the scheduler and the Dirty mark after it.
IndexCompleted ==
  /\ Receive("completed")
  /\ LET c == Head(commands)
     IN todo' = [todo EXCEPT !["supervisor"] =
                   CASE c.stale -> Callback
                     [] ~c.stale /\ lease -> Callback \o <<Op(IF c.ok THEN "succeeded" ELSE "failed", "")>>
                     [] OTHER -> <<>>]
  /\ UNCHANGED <<filesVars, inbox, accepted, lease, sched, job, entry, stored, query, boundVars>>

\* Mutant: the mark is always lifted.
Reconciled_AlwaysLifts(s) == None
\* A change that came while the refresh ran keeps the root Dirty.
Reconciled(s) == IF s.pending THEN Dirty ELSE None

\* mark_succeeded, then reconcile_validated_manifest_cache_after_manifest_fast_success
settle_success ==
  /\ todo["supervisor"] # <<>> /\ Head(todo["supervisor"]).op = "succeeded"
  /\ sched' = [sched EXCEPT !.pending = @ \/ sched.rerun, !.running = FALSE, !.rerun = FALSE]
  /\ entry' = Reconciled(sched')
  /\ todo' = [todo EXCEPT !["supervisor"] = Tail(@)]
  /\ UNCHANGED <<filesVars, inbox, commands, accepted, lease, job, stored, query, boundVars>>

\* Mutant: a failed refresh is not tried again.
Failed_Forgets(s) == [s EXCEPT !.running = FALSE, !.rerun = FALSE]
\* mark_failed: the refresh waits for its retry
Failed(s) == [s EXCEPT !.pending = TRUE, !.running = FALSE, !.rerun = FALSE]

\* mark_blocked: nothing is pending, the mark and what came during the run are left
Blocked(s) == [s EXCEPT !.pending = FALSE, !.running = FALSE, !.rerun = FALSE, !.blocked = TRUE]

\* A failure is retried, unless it blocks retry (the storage schema is incompatible).
settle_failure ==
  /\ todo["supervisor"] # <<>> /\ Head(todo["supervisor"]).op = "failed"
  /\ sched' \in {Failed(sched), Blocked(sched)}
  /\ todo' = [todo EXCEPT !["supervisor"] = Tail(@)]
  /\ UNCHANGED <<filesVars, inbox, commands, accepted, lease, job, entry, stored, query,
                 boundVars>>

-----------------------------------------------------------------------------
(* The index run: the worker of the supervisor, or the tool of a session. *)

Scan ==
  /\ job.phase = "scan"
  /\ job' = [job EXCEPT !.phase = "commit", !.scanned = tree]
  /\ UNCHANGED <<filesVars, watchVars, entry, stored, todo, query, boundVars>>

\* The snapshot is written.  A worker whose lease is gone may notice it before the write.
Commit ==
  /\ job.phase = "commit"
  /\ latest' = job.scanned
  /\ job' = [job EXCEPT !.phase = "invalidate"]
  /\ UNCHANGED <<tree, watchVars, entry, stored, todo, query, boundVars>>

Fail ==
  /\ job.phase \in {"scan", "commit"}
  /\ job.stale \/ failures < MaxFailures
  /\ failures' = IF job.stale THEN failures ELSE failures + 1
  /\ job' = [job EXCEPT !.phase = "invalidate", !.ok = FALSE]
  /\ UNCHANGED <<filesVars, watchVars, entry, stored, todo, query, sessionOps, lifted>>

\* Both run their invalidation while the task is still registered: the worker
\* only under its own lease epoch, the tool whatever the outcome.
StartInvalidation ==
  /\ job.phase = "invalidate"
  /\ job' = [job EXCEPT !.phase = "finish"]
  /\ todo' = IF job.owner = "session"
             THEN [todo EXCEPT !["session"] = IndexInvalidation]
             ELSE [todo EXCEPT !["worker"] = IF job.stale THEN <<>> ELSE Callback]
  /\ UNCHANGED <<filesVars, watchVars, entry, stored, query, boundVars>>

\* task_guard.finish, then the completion is sent
Finish ==
  /\ job.phase = "finish" /\ todo[job.owner] = <<>>
  /\ job' = NoJob
  /\ commands' = IF job.owner = "worker"
                 THEN Append(commands, Command("completed", 0, job.ok, job.stale)) ELSE commands
  /\ UNCHANGED <<filesVars, inbox, accepted, lease, sched, entry, stored, todo, query, boundVars>>

-----------------------------------------------------------------------------
(* The sessions. *)

SessionOp ==
  /\ sessionOps < MaxSessionOps /\ todo["session"] = <<>> /\ job.owner # "session"
  /\ sessionOps' = sessionOps + 1

\* A session attaches: the lease is taken (a second holder sends no command), and
\* the manifest entry and the answers are invalidated.
workspace_attach ==
  /\ SessionOp
  /\ lease' = TRUE
  /\ commands' = IF lease THEN commands ELSE Append(commands, Command("acquired", 0, TRUE, FALSE))
  /\ todo' = [todo EXCEPT !["session"] = IndexInvalidation]
  /\ UNCHANGED <<filesVars, inbox, accepted, sched, job, entry, stored, query, failures, lifted>>

\* The last session detaches: the manifest entry stays.
workspace_detach ==
  /\ SessionOp /\ lease
  /\ lease' = FALSE
  /\ commands' = Append(commands, Command("released", 0, TRUE, FALSE))
  /\ todo' = [todo EXCEPT !["session"] = DetachInvalidation]
  /\ UNCHANGED <<filesVars, inbox, accepted, sched, job, entry, stored, query, failures, lifted>>

\* workspace_index: registers its task when no other index task is active
workspace_index ==
  /\ SessionOp /\ lease /\ job = NoJob
  /\ job' = [NoJob EXCEPT !.owner = "session", !.phase = "scan"]
  /\ UNCHANGED <<filesVars, watchVars, entry, stored, todo, query, failures, lifted>>

-----------------------------------------------------------------------------
(* The tool calls.  Each step is one critical section or one read. *)

At(q, pc) == query[q].pc = pc
Go(q, new) == /\ query' = [query EXCEPT ![q] = new]
              /\ UNCHANGED <<filesVars, watchVars, job, todo, boundVars>>

\* What a call reads, in the order of the code, to decide whether the caches may be
\* used without validating.
GuardReads(k) == CASE k = "corpus"   -> <<"epoch", "dirty", "lease", "work">>
                   [] k = "response" -> <<"work", "dirty", "lease", "epoch">>
                   [] OTHER          -> <<>>

AfterGuards(k, trusted) ==
  CASE k = "corpus"     -> IF trusted THEN "trusted_load" ELSE "load"
    [] k = "response"   -> IF trusted THEN "cached" ELSE "load"
    [] k = "projection" -> "cached"
    [] k = "search"     -> "bypass"

\* Mutant: the Dirty mark is not read.
GuardHolds_IgnoresDirty(read) == CASE read = "lease" -> lease
                                   [] read = "work"  -> job = NoJob
                                   [] OTHER -> TRUE
GuardHolds(read) == CASE read = "epoch" -> TRUE
                      [] read = "dirty" -> entry # Dirty
                      [] read = "lease" -> lease
                      [] read = "work"  -> job = NoJob

\* Only the symbol corpus passes the cache on condition; a search always does.
UsesCache(c) == c.kind = "search" \/ (c.kind = "corpus" /\ c.trusted)

Answered(c, result) == [Idle EXCEPT !.kind = c.kind, !.seen = c.seen, !.result = result,
                                    !.pc = "answer"]

\* seen is history: what the supervisor had accepted when the call began
Begin(q, k) ==
  /\ At(q, "idle")
  /\ Go(q, [Idle EXCEPT !.kind = k, !.seen = accepted, !.reads = GuardReads(k),
                        !.trusted = GuardReads(k) # <<>>,
                        !.pc = IF GuardReads(k) = <<>> THEN AfterGuards(k, FALSE) ELSE "guards",
                        !.snapshot = IF k = "projection" THEN latest ELSE 0])
  /\ UNCHANGED <<entry, stored>>

ReadGuard(q) ==
  /\ At(q, "guards")
  /\ LET c == query[q]  read == Head(c.reads)  rest == Tail(c.reads)
         ok == c.trusted /\ GuardHolds(read)
     IN Go(q, [c EXCEPT !.reads = rest, !.trusted = ok,
                        !.fresh = IF read = "epoch" THEN TRUE ELSE @,
                        !.pc = IF rest = <<>> THEN AfterGuards(c.kind, ok) ELSE @])
  /\ UNCHANGED <<entry, stored>>

\* bypass_if_dirty_root
Bypass(q) ==
  /\ At(q, "bypass")
  /\ Go(q, [query[q] EXCEPT !.pc = IF entry = Dirty THEN "live" ELSE "load"])
  /\ UNCHANGED <<entry, stored>>

\* load_latest_manifest_for_repository, or only its metadata on the trusted way
LoadLatest(q) ==
  /\ At(q, "load") \/ At(q, "trusted_load")
  /\ LET c == query[q]
     IN Go(q, [c EXCEPT !.snapshot = latest,
                        !.pc = CASE c.pc = "trusted_load" -> "trusted_lookup"
                                 [] c.pc = "load" /\ UsesCache(c) -> "lookup"
                                 [] OTHER -> "validate"])
  /\ UNCHANGED <<entry, stored>>

\* lookup: another snapshot than the loaded one is a miss and drops the entry.  The
\* trusted way falls back to latest_validated_manifest_snapshot_shared.
lookup(q) ==
  /\ At(q, "lookup") \/ At(q, "trusted_lookup")
  /\ LET c == query[q]  hit == entry = Ready(c.snapshot)
     IN /\ entry' = IF entry.kind = "ready" /\ ~hit THEN None ELSE entry
        /\ Go(q, [c EXCEPT !.pc = CASE hit -> "use"
                                    [] ~hit /\ c.pc = "trusted_lookup" -> "bypass"
                                    [] ~hit /\ c.pc = "lookup" /\ entry = Dirty -> "live"
                                    [] OTHER -> "validate"])
  /\ UNCHANGED stored

\* validate_manifest_file_digests_for_root compares the digests with the files
Validate(q) ==
  /\ At(q, "validate")
  /\ LET c == query[q]
     IN Go(q, [c EXCEPT !.pc = CASE c.snapshot # tree -> "live"
                                 [] c.snapshot = tree /\ c.kind = "response" -> "recheck_dirty"
                                 [] OTHER -> IF UsesCache(c) THEN "store" ELSE "use"])
  /\ UNCHANGED <<entry, stored>>

\* Mutant: the Dirty mark is overwritten.
AfterStore_Overwrites(e, v) == Ready(v)
AfterStore(e, v) == IF e = Dirty THEN e ELSE Ready(v)

\* store_validated_shared refuses only a root that is marked Dirty now
store_validated_shared(q) ==
  /\ At(q, "store")
  /\ entry' = AfterStore(entry, query[q].snapshot)
  /\ Go(q, [query[q] EXCEPT !.pc = "use"])
  /\ UNCHANGED stored

\* No valid snapshot: the files are walked.  A freshness answer then names none.
WalkLive(q) ==
  /\ At(q, "live")
  /\ Go(q, IF query[q].kind = "corpus"
           THEN [query[q] EXCEPT !.snapshot = tree, !.live = TRUE, !.pc = "use"]
           ELSE Answered(query[q], tree))
  /\ UNCHANGED <<entry, stored>>

\* A search answers from the digests; a corpus is looked up under its token.
Use(q) ==
  /\ At(q, "use")
  /\ LET c == query[q]  kept == stored["corpus"]
         hit == kept.full /\ kept.snapshot = c.snapshot /\ kept.live = c.live
     IN Go(q, CASE c.kind = "search" -> Answered(c, c.snapshot)
                [] c.kind = "corpus" /\ hit -> Answered(c, kept.content)
                [] OTHER -> [c EXCEPT !.pc = "build"])
  /\ UNCHANGED <<entry, stored>>

\* The symbols are extracted from the files as they are now.
BuildCorpus(q) ==
  /\ At(q, "build")
  /\ Go(q, [query[q] EXCEPT !.result = tree, !.pc = "insert"])
  /\ UNCHANGED <<entry, stored>>

\* The cached answer: a freshness entry of another epoch is skipped, and a loader of
\* projections captures the epoch and reads the rows on a miss.
Cached(q) ==
  /\ At(q, "cached")
  /\ LET c == query[q]  kept == stored[c.kind]
         hit == kept.full /\ IF c.kind = "response" THEN kept.current ELSE kept.snapshot = c.snapshot
     IN Go(q, CASE hit -> Answered(c, kept.content)
                [] ~hit /\ c.kind = "response" -> [c EXCEPT !.pc = "load"]
                [] OTHER -> [c EXCEPT !.fresh = TRUE, !.pc = "load_rows"])
  /\ UNCHANGED <<entry, stored>>

LoadRows(q) ==
  /\ At(q, "load_rows")
  /\ Go(q, [query[q] EXCEPT !.result = query[q].snapshot, !.pc = "check_epoch"])
  /\ UNCHANGED <<entry, stored>>

\* The freshness answer reads the Dirty mark and the active tasks again.
Recheck(q) ==
  /\ At(q, "recheck_dirty") \/ At(q, "recheck_work")
  /\ LET c == query[q]
         bad == IF c.pc = "recheck_dirty" THEN entry = Dirty ELSE job # NoJob
     IN Go(q, CASE bad -> Idle
                [] ~bad /\ c.pc = "recheck_dirty" -> [c EXCEPT !.pc = "recheck_work"]
                [] OTHER -> IF c.trusted THEN [c EXCEPT !.result = c.snapshot, !.pc = "insert"]
                                         ELSE Answered(c, c.snapshot))
  /\ UNCHANGED <<entry, stored>>

\* insert_cached_projection_entry compares the epoch before it takes the lock
CheckEpoch(q) ==
  /\ At(q, "check_epoch")
  /\ Go(q, IF query[q].fresh THEN [query[q] EXCEPT !.pc = "insert"]
                                ELSE Answered(query[q], query[q].result))
  /\ UNCHANGED <<entry, stored>>

\* Mutant: the corpus is inserted whatever the epoch.
MayInsert_AnyCorpus(c) == c.kind \in {"projection", "corpus"} \/ c.fresh
\* The corpus and the freshness answer compare the epoch under the lock.
MayInsert(c) == c.kind = "projection" \/ c.fresh

Insert(q) ==
  /\ At(q, "insert")
  /\ LET c == query[q]
     IN /\ stored' = IF MayInsert(c)
                     THEN [stored EXCEPT ![c.kind] =
                             [full |-> TRUE, snapshot |-> c.snapshot, live |-> c.live,
                              content |-> c.result, current |-> c.fresh]]
                     ELSE stored
        /\ Go(q, Answered(c, c.result))
  /\ UNCHANGED entry

Answer(q) ==
  /\ At(q, "answer")
  /\ Go(q, Idle)
  /\ UNCHANGED <<entry, stored>>

Step(q) ==
  \/ ReadGuard(q) \/ Bypass(q) \/ LoadLatest(q) \/ lookup(q) \/ Validate(q)
  \/ store_validated_shared(q) \/ WalkLive(q) \/ Use(q) \/ BuildCorpus(q) \/ Cached(q)
  \/ LoadRows(q) \/ Recheck(q) \/ CheckEpoch(q) \/ Insert(q) \/ Answer(q)

Invalidating == \E t \in Threads : BumpEpoch(t) \/ ClearFamily(t)
Supervising == \/ handle_notify_event \/ LeaseAcquired \/ LeaseReleased \/ dispatch
               \/ IndexCompleted \/ settle_success \/ settle_failure
Running == Scan \/ Commit \/ Fail \/ StartInvalidation \/ Finish

Next ==
  \/ Edit \/ Notify
  \/ Invalidating \/ invalidate_root
  \/ Supervising
  \/ Running
  \/ workspace_attach \/ workspace_detach \/ workspace_index
  \/ \E q \in Queries : Step(q)
  \/ \E c \in Calls : Begin(c[1], c[2])

Spec == Init /\ [][Next]_vars

\* Every thread of the server goes on; edits, sessions and calls are not owed.
Fairness == WF_vars(Notify) /\ WF_vars(Invalidating) /\ WF_vars(invalidate_root)
              /\ WF_vars(Supervising) /\ WF_vars(Running)
FairSpec == Spec /\ Fairness
=============================================================================
