-------------------------- MODULE WatchLeasesProps --------------------------
(***************************************************************************)
(* What the leases must guarantee.                                         *)
(***************************************************************************)
EXTENDS WatchLeases

\* Types of the lease state.
LeaseTypeOK ==
  /\ leases \in [Repos -> Nat]
  /\ registered \subseteq Repos /\ subscribed \subseteq Repos /\ scheduled \subseteq Repos
  /\ kept \subseteq subscribed
  /\ mailbox \in Seq({Acquired(r) : r \in Repos} \cup {Released(r) : r \in Repos})
  /\ adopted \in [Sessions -> SUBSET Repos]
  /\ call \in [Sessions -> {NoCall} \cup {At(step, r) : step \in Step, r \in Repos}]
  /\ made \in [Sessions -> 0..MaxCalls]

\* The sessions that count as holders: they adopted r, or are about to give it back.
Holders(r) == {s \in Sessions : r \in adopted[s] \/ Doing(s, "release", r)}

\* No call about r is under way and no command about it is waiting.
Settled(r) ==
  /\ \A s \in Sessions, step \in Step : ~Doing(s, step, r)
  /\ \A i \in DOMAIN mailbox : mailbox[i].repo # r

\* lease_count is the number of concurrent holders at every instant, whatever calls overlap.
CountMatchesHolders == \A r \in Repos : leases[r] = Cardinality(Holders(r))

\* The roots the watcher reports on purpose: all but those it failed to give up.
Watching == subscribed \ kept

\* Once the last holder's release has gone through, nothing keeps watching the root: the map and
\* the scheduler have let it go, and so has the watcher unless it failed to.
NothingLeaks ==
  \A r \in Repos :
    Settled(r) /\ leases[r] = 0 => r \notin registered \cup Watching \cup scheduled

\* A repository with a holder, once its calls have gone through, is really watched: events
\* arrive, are attributed to it, and reach the scheduler.
LeasedIsServed ==
  \A r \in Repos :
    Settled(r) /\ leases[r] > 0 => r \in registered \cap subscribed \cap scheduled

\* A root without a holder is let go in the end, unless someone takes a lease again.  What the
\* watcher kept when an unwatch failed stays with it: the code warns and never tries again.
UnleasedIsLetGo ==
  \A r \in Repos :
    leases[r] = 0 ~> (leases[r] > 0 \/ r \notin Watching \cup scheduled)

=============================================================================
