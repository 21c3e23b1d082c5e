------------------------ MODULE WatchSupervisorProps ------------------------
(***************************************************************************)
(* What the supervisor, its workers and the sessions guarantee together.   *)
(***************************************************************************)
EXTENDS WatchSupervisor

LeaseCommand == {"LeaseAcquired", "LeaseReleased"}

Mail == {mailbox[i] : i \in DOMAIN mailbox}

\* The loop drives the scheduler only the way the scheduler's own specification allows: it
\* reports the completion of what is running, removes what was added, records for what it knows.
DrivesScheduler == Spec

\* The lease commands of a mailbox, in their order (SelectSeq, as a function that can be unfolded).
LeaseMail(box) ==
  LET taken[i \in 0 .. Len(box)] ==
        IF i = 0 THEN <<>>
        ELSE IF box[i].type \in LeaseCommand THEN Append(taken[i - 1], box[i])
        ELSE taken[i - 1]
  IN taken[Len(box)]

\* Lease traffic is the lease specification's, however events and completions interleave.
LeaseView == INSTANCE WatchLeasesProps WITH
  mailbox <- LeaseMail(mailbox),
  scheduled <- watched

CarriesLeases == LeaseView!LeaseSpec

\* Once its calls have gone through, what a session holds is watched, mapped and scheduled, even
\* when the release and the lease commands of several rounds waited together.
AttachedIsServed == LeaseView!LeasedIsServed

\* The completions of class c of the current lease of r that are still to come or waiting.
Outstanding(r, c) ==
  {w \in workers : w.repo = r /\ w.class = c /\ ~Stale(w)}

Waiting(r, c) ==
  {i \in DOMAIN mailbox :
     /\ mailbox[i].type = "IndexCompleted"
     /\ mailbox[i].repo = r /\ mailbox[i].class = c /\ mailbox[i].epoch = Current(r)}

ReleaseIsComing(r) ==
  \/ Leases!Released(r) \in Mail
  \/ \E s \in Sessions : Leases!Doing(s, "announceReleased", r)

\* A running refresh has exactly one completion on its way, and no completion of the current
\* lease comes without one; the only exception is a repository whose release is on its way.
RunningHasItsWorker ==
  \A r \in Repos, c \in Class :
    LET n == Cardinality(Outstanding(r, c)) + Cardinality(Waiting(r, c))
    IN /\ active[r] = c => n = 1 \/ (n = 0 /\ ReleaseIsComing(r))
       /\ active[r] # c => n = 0

\* Across detaches and re-attaches a repository never has two workers of one class at work, nor
\* a worker beside an attach-time index: what serialises the writers of one index.
WritersExclude ==
  \A r \in Repos :
    LET atWork(c) == {w \in workers : w.repo = r /\ w.class = c /\ w.task}
    IN /\ \A c \in Class : Cardinality(atWork(c)) <= 1
       /\ r \in attachIndex => \A c \in Class : atWork(c) = {}

\* After a lost notification every repository that is mapped and scheduled is still to be visited
\* or owes a refresh that starts later, however leases change the map during the sweep; only the
\* scheduler state of a lease whose release is on its way may be passed over.
SweepMissesNone ==
  loop = "sweep" =>
    \A r \in (registered \cap watched) \ sweep :
      \/ hints[r] # {} /\ queue[r][ManifestFast].pending
      \/ ReleaseIsComing(r) \/ \E s \in Sessions : Leases!Doing(s, "unwatch", r)

\* The bound on time has been reached: a failure could not be handled any more.
OutOfTime == \E r \in Repos, c \in Class : ~FailsInTime(r, c)

\* A started refresh gives its slot back: no lease, race or dropped completion wedges a class.
SlotsAreFreed ==
  \A r \in Repos, c \in Class : r \in running[c] ~> (r \notin running[c] \/ OutOfTime)

=============================================================================
