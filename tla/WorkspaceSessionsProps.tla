----------------------- MODULE WorkspaceSessionsProps -----------------------
(***************************************************************************)
(* What adopting and letting go of workspaces must keep true.              *)
(***************************************************************************)
EXTENDS WorkspaceSessions

Holders(r) == {s \in Sessions : r \in adopted[s]}
Doing(r, places) == {q \in Requests : UnderWay(q) /\ Repo(q) = r /\ request[q].at \in places}
Quiet(s) == RequestsOf(s) = {}

Adopting  == {"adopted"}
LettingGo == {"forgetting", "looking", "clearing", "undoing", "releasing"}

\* "Active MCP sessions that currently have this repository adopted" (workspace_registry.rs:250),
\* and its watch leases: at every instant the sessions that have it adopted, give or take the
\* requests that are between a session's own set and the count.  A session that lets a repository
\* go under its own request (crossed), or a refused root, breaks this.
CountsMatchSessions ==
  \A r \in Repos \ crossed :
    /\ active[r] = Cardinality(Holders(r)) - Cardinality(Doing(r, Adopting))
                     + Cardinality(Doing(r, LettingGo))
    /\ r \notin refused =>
         leases[r] = Cardinality(Holders(r)) - Cardinality(Doing(r, Adopting \cup {"counted"}))
                       + Cardinality(Doing(r, LettingGo \cup {"released"}))

\* A workspace that a session has adopted is in the catalog, whatever other sessions, resolutions
\* and rollbacks do; and once every request has ended an ad hoc workspace that nobody has is not
\* (prune_inactive_ephemeral_workspace).
CatalogHoldsWhatIsUsed ==
  \A r \in Repos \ crossed :
    /\ Holders(r) # {} => r \in known
    /\ (\A s \in Sessions : Quiet(s)) /\ r \in known \ Startup => Holders(r) # {}

\* When its requests have ended, a session has adopted only what one of them was told it has, or
\* what a request without a rollback guard adopted before it failed or was cancelled: nothing of
\* an attach by path that was not told stays.  Of several attaches of one workspace that overlap
\* and fail, the last one undoes what the first one did ("a cancelled same-session reuse must not
\* suppress the original rollback", runtime_gate_tests/workspace.rs:1258).  An attach that
\* completed before another one met a refused root, and a detach that drops the attach states of
\* later attaches, break this.
NothingStaysOfFailed ==
  \A s \in Sessions :
    Quiet(s) => adopted[s] \ (crossed \cup forgotten \cup refused) \subseteq completed[s] \cup unanswered[s]

\* An attach that fails or is cancelled while it is the only request of its session leaves the
\* session as it was; the default too, unless the workspace was adopted before.
FailedAttachLeavesNoTrace ==
  [][\A q \in Requests :
       LET before == request[q].before
           default2 == default'[Session(q)]
       IN UnderWay(q) /\ At(q, "done")' /\ ~At(q, "answering")
            /\ request[q].kind = "attach" /\ before.alone
          => /\ adopted'[Session(q)] = before.adopted
             /\ Repo(q) \notin before.adopted =>
                  \/ default2 = before.default
                  \/ default2 = None /\ before.default \notin before.adopted]_vars
=============================================================================
