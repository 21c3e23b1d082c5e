------------------------ MODULE ManifestCacheProps ------------------------
(* What the freshness caches owe to a reader, stated apart from their steps. *)
EXTENDS ManifestCache

\* A thread that has raised the epoch of a family and not yet cleared it
Clearing(f) == \E t \in Threads : todo[t] # <<>> /\ Head(todo[t]) = Op("clear", f)

OnlyCurrentEntries(f) == stored[f].full /\ ~Clearing(f) => stored[f].current

\* Once an invalidation has run, no symbol corpus and no freshness answer of
\* before it is in the cache, however the fill and two invalidations overlap.
InvalidationHolds == OnlyCurrentEntries("corpus") /\ OnlyCurrentEntries("response")

Stale(q) == query[q].pc = "answer" /\ query[q].kind # "projection" /\ query[q].result < query[q].seen

\* An answer describes the files no earlier than the last change the supervisor had
\* accepted when the call began, whether it came from a cache or not.
AnswersSeeAcceptedChanges == \A q \in Queries : ~Stale(q)

\* The same as far as the supervisor alone removes Dirty marks: a stale answer
\* only misses changes whose mark a session has removed.
OnlySessionsHideChanges == \A q \in Queries : Stale(q) => query[q].seen <= lifted

\* A validated entry that readers may trust describes every change whose mark the
\* supervisor still answers for.
TrustedEntryIsCurrent ==
  entry = Ready(latest) => latest >= accepted \/ accepted <= lifted

\* A root marked Dirty under a lease is refreshed and the mark goes away, after
\* changes that come while it runs and failures that are retried.  Only a failure
\* that blocks retry leaves the mark, and not past the next change: that one asks
\* for a refresh again.
DirtyIsRefreshed ==
  entry = Dirty /\ lease ~> (entry # Dirty \/ ~lease \/ sched.blocked)
=============================================================================
