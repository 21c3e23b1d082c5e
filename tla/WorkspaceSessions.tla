------------------------- MODULE WorkspaceSessions -------------------------
(***************************************************************************)
(* How MCP sessions adopt and let go of workspaces: the process-wide        *)
(* catalog of crates/cli/src/mcp/workspace_registry.rs with its counts, the *)
(* adopted repositories and the default of each session, and the requests   *)
(* that change them (mcp/server/workspace.rs, workspace_session.rs).        *)
(*                                                                         *)
(* The requests of one session run concurrently, and a request takes one    *)
(* lock after the other: a step here is one critical section.  A request    *)
(* can be cancelled wherever it awaits.  A lease is its count; WatchLeases  *)
(* has the steps within acquire_lease and release_lease.                    *)
(***************************************************************************)
EXTENDS Integers, FiniteSets

CONSTANTS
  Repos,        \* repositories, each one canonical root
  Startup,      \* those the configuration names
  Imported,     \* those whose database brought a partition id of its own
  Sessions,     \* MCP sessions
  Requests,     \* bound: the requests that are ever made
  Calls,        \* the calls that are made: a kind of request, and whether it sets the default
  None,         \* no repository
  MaxRefusals   \* bound: roots the platform watcher refuses

\* attach: workspace_attach by path, the only one with a rollback guard.
\* prepare: workspace_prepare, workspace_index or a tool's adoption of the current directory,
\*          by path: the resolution guard is held to the end, and nothing undoes the adoption
\*          when the request fails or is cancelled after it.
\* byId: any of them by repository_id, and the adoption of the only startup root.
ASSUME SessionsAssumption ==
  /\ Startup \subseteq Repos /\ Imported \subseteq Repos /\ None \notin Repos
  /\ Calls \subseteq {"attach", "prepare", "byId", "detach", "close"} \X BOOLEAN
  /\ MaxRefusals \in Nat
\* The counts are of finite sets; the code counts in usize.
ASSUME FiniteAssumption == IsFiniteSet(Requests) /\ IsFiniteSet(Sessions)

VARIABLES
  known,       \* WorkspaceRegistry.workspaces
  pending,     \* pending_workspace_counts
  active,      \* active_session_counts
  leases,      \* lease_counts of the watch runtime
  adopted,     \* adopted_repository_ids of a session
  default,     \* session_default_repository_id
  attaching,   \* workspace_attach_states of a session, per repository
  open,        \* sessions that have not ended
  request,     \* where a request is, its locals and, as a history, what was before
  refused,     \* history: repositories whose root was refused
  crossed,     \* history: repositories let go of while the session had another request for them
  forgotten,   \* history: repositories of which a detach dropped the attach states of later attaches
  completed,   \* history: repositories a session was told it has adopted
  unanswered   \* history: what it has by a request without a rollback guard that did not answer

registry == <<known, pending, active>>
session  == <<adopted, default, attaching, open>>
history  == <<refused, crossed, forgotten, completed, unanswered>>
vars     == <<registry, leases, session, request, history>>

NoAttach == [inFlight |-> 0, completed |-> FALSE, defaultConfirmed |-> FALSE,
             rollback |-> FALSE, rollbackTo |-> None, restore |-> FALSE, restoreTo |-> None]
NoRecord == [adopted |-> {}, default |-> None, alone |-> FALSE]
Unmade   == [at |-> "unmade"]
Over     == [at |-> "done"]

At(q, place) == request[q].at = place
UnderWay(q)  == ~At(q, "unmade") /\ ~At(q, "done")
Session(q)   == request[q].session
Repo(q)      == request[q].repo
RequestsOf(s) == {q \in Requests : UnderWay(q) /\ Session(q) = s}

\* The count of an absent entry is 0, and saturating_sub stays there.
Less(n) == IF n = 0 THEN 0 ELSE n - 1
Up(count, r)   == [count EXCEPT ![r] = @ + 1]
Down(count, r) == [count EXCEPT ![r] = Less(@)]

Goto(q, place) == request' = [request EXCEPT ![q] = IF place = "done" THEN Over ELSE [@ EXCEPT !.at = place]]

\* Mutant: the resolutions under way are forgotten.
Pruned_IgnoresPending(catalog, r, pendings, actives) ==
  IF actives[r] = 0 /\ r \notin Startup THEN catalog \ {r} ELSE catalog
\* prune_inactive_ephemeral_workspace.
Pruned(catalog, r, pendings, actives) ==
  IF actives[r] = 0 /\ pendings[r] = 0 /\ r \notin Startup THEN catalog \ {r} ELSE catalog

Init ==
  /\ known = Startup
  /\ pending = [r \in Repos |-> 0] /\ active = [r \in Repos |-> 0] /\ leases = [r \in Repos |-> 0]
  /\ adopted = [s \in Sessions |-> {}] /\ default = [s \in Sessions |-> None]
  /\ attaching = [s \in Sessions |-> [r \in Repos |-> NoAttach]]
  /\ open = Sessions
  /\ request = [q \in Requests |-> Unmade]
  /\ refused = {} /\ crossed = {} /\ forgotten = {}
  /\ completed = [s \in Sessions |-> {}] /\ unanswered = [s \in Sessions |-> {}]

-----------------------------------------------------------------------------
(* A request begins: what it is about, and what is resolved. *)

\* is_visible_repository_id.
Visible(s, r) == r \in known /\ (r \in Startup \/ r \in adopted[s])

\* What the session has when an attach begins alone; forgotten when it is no longer alone.
Before(s, kind) ==
  IF RequestsOf(s) = {} /\ kind = "attach"
  THEN [adopted |-> adopted[s], default |-> default[s], alone |-> TRUE] ELSE NoRecord

New(s, r, kind, sets, place) ==
  [at |-> place, session |-> s, repo |-> r, kind |-> kind, sets |-> sets, previous |-> None,
   created |-> FALSE, guarded |-> FALSE, resolving |-> kind \in {"attach", "prepare"},
   last |-> FALSE, found |-> TRUE, before |-> Before(s, kind)]

Make(q, s, r, kind, sets, place) ==
  /\ At(q, "unmade") /\ s \in open /\ <<kind, sets>> \in Calls
  /\ request' = [p \in Requests |->
       IF p = q THEN New(s, r, kind, sets, place)
       ELSE IF p \in RequestsOf(s) THEN [request[p] EXCEPT !.before = NoRecord] ELSE request[p]]

\* resolve_workspace_target by path: cataloged and marked pending under one lock.
ResolvePath(q, s, r, kind, sets) ==
  /\ kind \in {"attach", "prepare"}
  /\ Make(q, s, r, kind, sets, IF kind = "attach" THEN "resolved" ELSE "working")
  /\ known' = known \cup {r}
  /\ pending' = Up(pending, r)
  /\ UNCHANGED <<active, leases, session, history>>

\* resolve_workspace_target by id, or no adoption yet and one startup root.
ResolveId(q, s, r, sets) ==
  /\ Visible(s, r)
  /\ Make(q, s, r, "byId", sets, "working")
  /\ UNCHANGED <<registry, leases, session, history>>

BeginDetach(q, s, r) ==
  /\ Make(q, s, r, "detach", FALSE, "detaching")
  /\ UNCHANGED <<registry, leases, session, history>>

\* The last request of the session has ended and its state is dropped.
BeginClose(q, s) ==
  /\ RequestsOf(s) = {}
  /\ Make(q, s, None, "close", FALSE, "closing")
  /\ open' = open \ {s}
  /\ UNCHANGED <<registry, leases, adopted, default, attaching, history>>

-----------------------------------------------------------------------------
(* adopt_workspace, under the guards of an attach. *)

\* The default before the attach is read for its guard.
ReadDefault(q) ==
  /\ At(q, "resolved")
  /\ request' = [request EXCEPT ![q].previous = default[Session(q)], ![q].at = "read"]
  /\ UNCHANGED <<registry, leases, session, history>>

\* WorkspaceAttachRollbackGuard::new.
Arm(q) ==
  /\ At(q, "read")
  /\ attaching' = [attaching EXCEPT ![Session(q)][Repo(q)].inFlight = @ + 1]
  /\ request' = [request EXCEPT ![q].guarded = TRUE, ![q].at = "working"]
  /\ UNCHANGED <<registry, leases, adopted, default, open, history>>

\* The work before the adoption of the others fails or is cancelled.
GiveUp(q) ==
  /\ At(q, "working") /\ ~request[q].guarded
  /\ Goto(q, IF request[q].resolving THEN "leaving" ELSE "done")
  /\ UNCHANGED <<registry, leases, session, history>>

\* Mutant: a repository the session has already is counted again.
Adopt_AlwaysNew(q) ==
  /\ At(q, "working")
  /\ adopted' = [adopted EXCEPT ![Session(q)] = @ \cup {Repo(q)}]
  /\ Goto(q, "adopted")
  /\ UNCHANGED <<registry, leases, default, attaching, open, history>>
Adopt(q) ==
  /\ At(q, "working")
  /\ adopted' = [adopted EXCEPT ![Session(q)] = @ \cup {Repo(q)}]
  /\ Goto(q, IF Repo(q) \in adopted[Session(q)] THEN "served" ELSE "adopted")
  /\ UNCHANGED <<registry, leases, default, attaching, open, history>>

\* mark_session_adopted.
CountSession(q) ==
  /\ At(q, "adopted")
  /\ active' = Up(active, Repo(q))
  /\ Goto(q, "counted")
  /\ UNCHANGED <<known, pending, leases, session, history>>

\* acquire_lease; the adoption is this request's, as an attach notes for its guard.
AcquireLease(q) ==
  /\ At(q, "counted")
  /\ leases' = Up(leases, Repo(q))
  /\ request' = [request EXCEPT ![q].created = TRUE, ![q].at = "served"]
  /\ UNCHANGED <<registry, session, history>>

\* The platform watcher refuses the root to its first holder, and the count is taken back.
LeaseRefused(q) ==
  /\ At(q, "counted") /\ leases[Repo(q)] = 0
  /\ Cardinality(refused) < MaxRefusals /\ refused' = refused \cup {Repo(q)}
  /\ Goto(q, "refused")
  /\ UNCHANGED <<registry, leases, session, crossed, forgotten, completed, unanswered>>

\* The default is set.  From here an attach waits for the index, and the others still await
\* their notifications, the precise generation or the provenance.
SetDefault(q) ==
  /\ At(q, "served")
  /\ default' = IF request[q].sets THEN [default EXCEPT ![Session(q)] = Repo(q)] ELSE default
  /\ Goto(q, IF request[q].guarded THEN "leaving" ELSE "telling")
  /\ UNCHANGED <<registry, leases, adopted, attaching, open, history>>

\* A request without a rollback guard answers, or fails or is cancelled: the adoption stays.
Tell(q, success) ==
  /\ At(q, "telling")
  /\ completed' = IF success THEN [completed EXCEPT ![Session(q)] = @ \cup {Repo(q)}] ELSE completed
  /\ unanswered' = IF ~success /\ request[q].created
                   THEN [unanswered EXCEPT ![Session(q)] = @ \cup {Repo(q)}] ELSE unanswered
  /\ Goto(q, IF request[q].resolving THEN "leaving" ELSE "done")
  /\ UNCHANGED <<registry, leases, session, refused, crossed, forgotten>>

\* The resolution guard is dropped: after the adoption of an attach, at the end of the others.
DropResolution(q) ==
  /\ At(q, "leaving")
  /\ pending' = Down(pending, Repo(q))
  /\ known' = Pruned(known, Repo(q), pending', active)
  /\ IF request[q].guarded
     THEN request' = [request EXCEPT ![q].resolving = FALSE, ![q].at = "waiting"]
     ELSE Goto(q, "done")
  /\ UNCHANGED <<active, leases, session, history>>

-----------------------------------------------------------------------------
(* A repository is let go of: taken from the session, then released. *)

\* Bookkeeping of a removal: does another request of the session count on it?
LetGo(q, r) ==
  /\ adopted' = [adopted EXCEPT ![Session(q)] = @ \ {r}]
  /\ crossed' = IF \E p \in RequestsOf(Session(q)) \ {q} : Repo(p) = r
                THEN crossed \cup {r} ELSE crossed
  /\ unanswered' = [unanswered EXCEPT ![Session(q)] = @ \ {r}]

\* release_repository_id: the count goes down; the catalog names the partition of the lease.
Release(q) ==
  /\ At(q, "releasing")
  /\ active' = Down(active, Repo(q))
  /\ request' = [request EXCEPT ![q].last = active'[Repo(q)] = 0, ![q].at = "released",
                                ![q].found = Repo(q) \in known \/ Repo(q) \notin Imported]
  /\ UNCHANGED <<known, pending, leases, session, history>>

\* What a request goes on with: its guard, its resolution, the rest of a session, or nothing.
Rest(q) ==
  IF request[q].guarded THEN "failed"
  ELSE IF request[q].resolving THEN "leaving"
  ELSE IF request[q].kind = "close" THEN "closing" ELSE "done"

\* Then the lease is released, and after the last session the catalog is pruned.  The two take
\* different locks, and no request here reads both.
ReleaseLease(q) ==
  /\ At(q, "released")
  /\ leases' = IF request[q].found THEN Down(leases, Repo(q)) ELSE leases
  /\ known' = IF request[q].last THEN Pruned(known, Repo(q), pending, active) ELSE known
  /\ Goto(q, Rest(q))
  /\ UNCHANGED <<pending, active, session, history>>

\* adopt_workspace takes a refused adoption back, and the error ends the request.
Withdraw(q) ==
  /\ At(q, "refused")
  /\ LetGo(q, Repo(q))
  /\ Goto(q, "releasing")
  /\ UNCHANGED <<registry, leases, default, attaching, open, refused, forgotten, completed>>

\* detach_workspace.
Detach(q) ==
  /\ At(q, "detaching")
  /\ IF Repo(q) \in adopted[Session(q)]
     THEN LetGo(q, Repo(q)) /\ Goto(q, "forgetting")
     ELSE UNCHANGED <<adopted, crossed, unanswered>> /\ Goto(q, "done")
  /\ completed' = [completed EXCEPT ![Session(q)] = @ \ {Repo(q)}]
  /\ UNCHANGED <<registry, leases, default, attaching, open, refused, forgotten>>

ForgetAttaches(q) ==
  /\ At(q, "forgetting")
  /\ attaching' = [attaching EXCEPT ![Session(q)][Repo(q)] = NoAttach]
  /\ forgotten' = IF attaching[Session(q)][Repo(q)] = NoAttach THEN forgotten ELSE forgotten \cup {Repo(q)}
  /\ Goto(q, "looking")
  /\ UNCHANGED <<registry, leases, adopted, default, open, refused, crossed, completed, unanswered>>

\* The default is compared under one lock and cleared under the next.
LookAtDefault(q) ==
  /\ At(q, "looking")
  /\ Goto(q, IF default[Session(q)] = Repo(q) THEN "clearing" ELSE "releasing")
  /\ UNCHANGED <<registry, leases, session, history>>

ClearDefault(q) ==
  /\ At(q, "clearing")
  /\ default' = [default EXCEPT ![Session(q)] = None]
  /\ Goto(q, "releasing")
  /\ UNCHANGED <<registry, leases, adopted, attaching, open, history>>

\* The drop of the session state releases what it has, one repository after the other.
CloseOne(q) ==
  /\ At(q, "closing")
  /\ IF adopted[Session(q)] = {}
     THEN Goto(q, "done") /\ UNCHANGED <<adopted, crossed, unanswered>>
     ELSE \E r \in adopted[Session(q)] :
            LetGo(q, r) /\ request' = [request EXCEPT ![q].repo = r, ![q].at = "releasing"]
  /\ default' = [default EXCEPT ![Session(q)] = None]
  /\ attaching' = [attaching EXCEPT ![Session(q)] = [r \in Repos |-> NoAttach]]
  /\ completed' = [completed EXCEPT ![Session(q)] = {}]
  /\ UNCHANGED <<registry, leases, open, refused, forgotten>>

-----------------------------------------------------------------------------
(* The end of an attach: WorkspaceAttachRollbackGuard::finish. *)

\* ensure_workspace_attach_still_adopted passes.
StillAdopted(q) ==
  /\ At(q, "waiting") /\ Repo(q) \in adopted[Session(q)]
  /\ Goto(q, "answering")
  /\ UNCHANGED <<registry, leases, session, history>>

\* Mutant: a guard undoes its own adoption only, and forgets the one another asked to undo.
Finished_OwnOnly(a, q, success) ==
  LET b == [a EXCEPT !.inFlight = Less(@)]
  IN IF success
     THEN [b EXCEPT !.completed = TRUE, !.rollback = FALSE, !.rollbackTo = None,
             !.defaultConfirmed = @ \/ request[q].sets,
             !.restore = @ /\ ~request[q].sets, !.restoreTo = IF request[q].sets THEN None ELSE @]
     ELSE IF ~request[q].created THEN [b EXCEPT !.rollback = FALSE]
     ELSE [b EXCEPT !.rollback = ~a.completed, !.rollbackTo = request[q].previous]
\* What the ends of the attaches of a session amount to.
Finished(a, q, success) ==
  LET b == [a EXCEPT !.inFlight = Less(@)]
      mine == request[q]
  IN IF success
     THEN [b EXCEPT !.completed = TRUE, !.rollback = FALSE, !.rollbackTo = None,
             !.defaultConfirmed = @ \/ mine.sets,
             !.restore = @ /\ ~mine.sets, !.restoreTo = IF mine.sets THEN None ELSE @]
     ELSE IF ~mine.created THEN b
     ELSE [b EXCEPT
             !.rollback = @ \/ ~a.completed,
             !.rollbackTo = IF a.completed THEN @ ELSE mine.previous,
             !.restore = @ \/ (mine.sets /\ ~a.defaultConfirmed),
             !.restoreTo = IF mine.sets /\ ~a.defaultConfirmed THEN mine.previous ELSE @]

RollsBack(a) == ~a.completed /\ a.rollback /\ a.inFlight = 0
Restores(a)  == a.completed /\ a.restore /\ ~a.defaultConfirmed /\ a.inFlight = 0

Finish(q, success) ==
  LET s == Session(q)
      r == Repo(q)
      a == Finished(attaching[s][r], q, success)
  IN /\ IF success THEN At(q, "answering") ELSE \E place \in {"waiting", "answering", "failed"} : At(q, place)
     /\ attaching' = [attaching EXCEPT ![s][r] = IF a.inFlight = 0 THEN NoAttach ELSE a]
     /\ completed' = IF success THEN [completed EXCEPT ![s] = @ \cup {r}] ELSE completed
     /\ IF RollsBack(a) \/ Restores(a)
        THEN request' = [request EXCEPT ![q].guarded = FALSE,
               ![q].previous = IF RollsBack(a) THEN a.rollbackTo ELSE a.restoreTo,
               ![q].at = IF RollsBack(a) THEN "rollback" ELSE "restoring"]
        ELSE IF request[q].resolving
        THEN request' = [request EXCEPT ![q].guarded = FALSE, ![q].at = "leaving"]
        ELSE Goto(q, "done")
     /\ UNCHANGED <<registry, leases, adopted, default, open, refused, crossed, forgotten, unanswered>>

\* The default to go back to, if the session still has it.
StillThere(q, mine) == IF request[q].previous \in mine THEN request[q].previous ELSE None

\* rollback_adoption: once for each adoption.
Rollback(q) ==
  LET mine == adopted[Session(q)] \ {Repo(q)}
  IN /\ At(q, "rollback")
     /\ IF Repo(q) \in adopted[Session(q)]
        THEN /\ LetGo(q, Repo(q))
             /\ request' = [request EXCEPT ![q].previous = StillThere(q, mine), ![q].at = "undoing"]
        ELSE UNCHANGED <<adopted, crossed, unanswered>> /\ Goto(q, Rest(q))
     /\ UNCHANGED <<registry, leases, default, attaching, open, refused, forgotten, completed>>

\* restore_previous_default: the adoption stays.
Restore(q) ==
  /\ At(q, "restoring")
  /\ request' = [request EXCEPT ![q].previous = StillThere(q, adopted[Session(q)]), ![q].at = "restored"]
  /\ UNCHANGED <<registry, leases, session, history>>

\* Mutant: the default is cleared.
Undone_Cleared(q) == None
\* What the default becomes.
Undone(q) == request[q].previous

UndoDefault(q) ==
  /\ At(q, "undoing") \/ At(q, "restored")
  /\ default' = IF default[Session(q)] = Repo(q) THEN [default EXCEPT ![Session(q)] = Undone(q)] ELSE default
  /\ Goto(q, IF At(q, "undoing") THEN "releasing" ELSE Rest(q))
  /\ UNCHANGED <<registry, leases, adopted, attaching, open, history>>

-----------------------------------------------------------------------------
Begin ==
  \E q \in Requests, s \in Sessions :
    \/ \E r \in Repos, sets \in BOOLEAN :
         ResolveId(q, s, r, sets) \/ \E kind \in {"attach", "prepare"} : ResolvePath(q, s, r, kind, sets)
    \/ \E r \in Repos : BeginDetach(q, s, r)
    \/ BeginClose(q, s)

Continue ==
  \E q \in Requests :
    \/ ReadDefault(q) \/ Arm(q) \/ GiveUp(q)
    \/ Adopt(q) \/ CountSession(q) \/ AcquireLease(q) \/ LeaseRefused(q) \/ SetDefault(q)
    \/ \E success \in BOOLEAN : Tell(q, success)
    \/ DropResolution(q)
    \/ Release(q) \/ ReleaseLease(q) \/ Withdraw(q)
    \/ Detach(q) \/ ForgetAttaches(q) \/ LookAtDefault(q) \/ ClearDefault(q) \/ CloseOne(q)
    \/ StillAdopted(q) \/ \E success \in BOOLEAN : Finish(q, success)
    \/ Rollback(q) \/ Restore(q) \/ UndoDefault(q)

Next == Begin \/ Continue

SessionsSpec == Init /\ [][Next]_vars
=============================================================================
