-------------------------- MODULE WatchLeasesProofs --------------------------
(***************************************************************************)
(* The leases count their holders and leave nothing behind, for any number  *)
(* of sessions, repositories and calls, while the watcher refuses no root.  *)
(***************************************************************************)
EXTENDS WatchLeasesProps, FiniteSetTheorems, SequenceTheorems, TLAPS

\* The platform watcher accepts every root: a refused one is rolled back by a second release.
WatchesEverything == WatchFails = FALSE

LEMMA CallsDiffer ==
  /\ \A step, r : At(step, r) # NoCall
  /\ \A a, b, r, q : At(a, r) = At(b, q) => a = b /\ r = q
<1>1. \A step, r : At(step, r).step = step /\ At(step, r).repo = r /\ "repo" \in DOMAIN At(step, r)
  BY DEF At
<1>2. "repo" \notin DOMAIN NoCall
  BY DEF NoCall
<1> QED BY <1>1, <1>2

LEMMA CommandsDiffer ==
  \A r, q : Acquired(r) # Released(q) /\ Acquired(r).repo = r /\ Released(r).repo = r
BY DEF Acquired, Released

-----------------------------------------------------------------------------
(* Types. *)

LEMMA LeaseTypeInit == LeaseInit => LeaseTypeOK
BY LeaseAssumption DEF LeaseInit, LeaseTypeOK

LEMMA LeaseTypeStep == LeaseTypeOK /\ [LeaseNext]_leaseVars => LeaseTypeOK'
<1> SUFFICES ASSUME LeaseTypeOK, [LeaseNext]_leaseVars PROVE LeaseTypeOK'
  OBVIOUS
<1> DEFINE Command == {Acquired(r) : r \in Repos} \cup {Released(r) : r \in Repos}
           Calls == {NoCall} \cup {At(step, r) : step \in Step, r \in Repos}
<1>0. /\ \A r \in Repos : Acquired(r) \in Command /\ Released(r) \in Command
      /\ NoCall \in Calls /\ \A step \in Step, r \in Repos : At(step, r) \in Calls
      /\ \A m \in Command : m.repo \in Repos
  BY CommandsDiffer
<1>t. /\ leases \in [Repos -> Nat] /\ mailbox \in Seq(Command)
      /\ adopted \in [Sessions -> SUBSET Repos] /\ call \in [Sessions -> Calls]
      /\ made \in [Sessions -> 0 .. MaxCalls]
      /\ registered \subseteq Repos /\ subscribed \subseteq Repos /\ scheduled \subseteq Repos
      /\ kept \subseteq subscribed
  BY DEF LeaseTypeOK
<1>g. SUFFICES /\ leases' \in [Repos -> Nat] /\ mailbox' \in Seq(Command)
               /\ adopted' \in [Sessions -> SUBSET Repos] /\ call' \in [Sessions -> Calls]
               /\ made' \in [Sessions -> 0 .. MaxCalls]
               /\ registered' \subseteq Repos /\ subscribed' \subseteq Repos
               /\ scheduled' \subseteq Repos /\ kept' \subseteq subscribed'
  BY DEF LeaseTypeOK
<1>s. /\ "insert" \in Step /\ "announceAcquired" \in Step /\ "release" \in Step
      /\ "unwatch" \in Step /\ "announceReleased" \in Step
  BY DEF Step
<1> HIDE DEF Command, Calls
<1>1. ASSUME NEW s \in Sessions, NEW r \in Repos, Acquire(s, r) PROVE <1>g!1
  <2>1. made[s] + 1 \in 0 .. MaxCalls
    BY <1>1, <1>t, LeaseAssumption DEF Acquire
  <2>2. /\ made' = [made EXCEPT ![s] = made[s] + 1] /\ registered' = registered
        /\ mailbox' = mailbox /\ scheduled' = scheduled
    BY <1>1 DEF Acquire
  <2>3. /\ leases' = leases \/ leases' = [leases EXCEPT ![r] = leases[r] + 1]
           \/ leases' = [leases EXCEPT ![r] = 1]
        /\ call' = [call EXCEPT ![s] = NoCall] \/ call' = [call EXCEPT ![s] = At("insert", r)]
           \/ call' = [call EXCEPT ![s] = At("release", r)]
        /\ adopted' = adopted \/ adopted' = [adopted EXCEPT ![s] = adopted[s] \cup {r}]
        /\ subscribed' = subscribed \/ subscribed' = subscribed \cup {r}
    BY <1>1 DEF Acquire, CountUp
  <2>4. leases' \in [Repos -> Nat]
    <3>1. leases[r] + 1 \in Nat
      BY <1>t
    <3> QED BY <1>t, <2>3, <3>1
  <2>5. call' \in [Sessions -> Calls]
    <3>1. At("insert", r) \in Calls /\ At("release", r) \in Calls /\ NoCall \in Calls
      BY <1>0, <1>s
    <3> QED BY <1>t, <2>3, <3>1
  <2>6. adopted' \in [Sessions -> SUBSET Repos]
    <3>1. adopted[s] \cup {r} \in SUBSET Repos
      BY <1>t
    <3> QED BY <1>t, <2>3, <3>1
  <2>7. made' \in [Sessions -> 0 .. MaxCalls]
    BY <1>t, <2>1, <2>2
  <2>8. subscribed' \subseteq Repos /\ kept' \subseteq subscribed'
    BY <1>t, <1>1 DEF Acquire, CountUp
  <2> QED BY <1>t, <2>2, <2>4, <2>5, <2>6, <2>7, <2>8
<1>2. ASSUME NEW s \in Sessions, NEW r \in Repos, Detach(s, r) PROVE <1>g!1
  <2>1. made[s] + 1 \in 0 .. MaxCalls
    BY <1>2, <1>t, LeaseAssumption DEF Detach
  <2> QED BY <1>0, <1>s, <1>t, <1>2, <2>1 DEF Detach
<1>3. ASSUME NEW s \in Sessions, NEW r \in Repos, Insert(s, r) PROVE <1>g!1
  BY <1>0, <1>s, <1>t, <1>3 DEF Insert
<1>4. ASSUME NEW s \in Sessions, NEW r \in Repos, AnnounceAcquired(s, r) PROVE <1>g!1
  <2>1. mailbox' \in Seq(Command)
    BY <1>0, <1>t, <1>4, AppendProperties DEF AnnounceAcquired
  <2> QED BY <1>0, <1>t, <1>4, <2>1 DEF AnnounceAcquired
<1>5. ASSUME NEW s \in Sessions, NEW r \in Repos, CountDown(s, r) PROVE <1>g!1
  <2>1. (IF leases[r] = 0 THEN 0 ELSE leases[r] - 1) \in Nat
    BY <1>t
  <2> QED BY <1>0, <1>s, <1>t, <1>5, <2>1 DEF CountDown
<1>6. ASSUME NEW s \in Sessions, NEW r \in Repos, Unwatch(s, r) PROVE <1>g!1
  BY <1>0, <1>s, <1>t, <1>6 DEF Unwatch
<1>7. ASSUME NEW s \in Sessions, NEW r \in Repos, AnnounceReleased(s, r) PROVE <1>g!1
  <2>1. mailbox' \in Seq(Command)
    BY <1>0, <1>t, <1>7, AppendProperties DEF AnnounceReleased
  <2> QED BY <1>0, <1>t, <1>7, <2>1 DEF AnnounceReleased
<1>8. CASE Consume
  <2>1. Head(mailbox) \in Command /\ Tail(mailbox) \in Seq(Command)
    BY <1>t, <1>8, HeadTailProperties DEF Consume
  <2> QED BY <1>0, <1>t, <1>8, <2>1 DEF Consume
<1>9. CASE UNCHANGED leaseVars
  BY <1>t, <1>9 DEF leaseVars
<1> QED BY <1>1, <1>2, <1>3, <1>4, <1>5, <1>6, <1>7, <1>8, <1>9 DEF LeaseNext, Begin, Proceed

\* The lease state keeps its types for every instance.
THEOREM LeaseTypesHold == LeaseSpec => []LeaseTypeOK
BY LeaseTypeInit, LeaseTypeStep, PTL DEF LeaseSpec

-----------------------------------------------------------------------------
(* The count is the number of holders. *)

\* A session that gives a repository back has already left it, and one that announces it is in it.
ReleasingHasLeft ==
  \A s \in Sessions, r \in Repos : Doing(s, "release", r) => r \notin adopted[s]

AnnouncingHolds ==
  \A s \in Sessions, r \in Repos :
    Doing(s, "insert", r) \/ Doing(s, "announceAcquired", r) => r \in adopted[s]

Counted == \A r \in Repos : IsFiniteSet(Holders(r)) /\ leases[r] = Cardinality(Holders(r))

Counting == LeaseTypeOK /\ ReleasingHasLeft /\ AnnouncingHolds /\ Counted

LEMMA CountingInit == LeaseInit => Counting
<1> SUFFICES ASSUME LeaseInit PROVE Counting
  OBVIOUS
<1>1. \A s \in Sessions, step \in Step, r \in Repos : ~Doing(s, step, r)
  BY CallsDiffer DEF LeaseInit, Doing
<1>2. \A r \in Repos : Holders(r) = {}
  BY <1>1 DEF LeaseInit, Holders, Step
<1>3. Counted
  BY <1>2, FS_EmptySet DEF Counted, LeaseInit
<1> QED BY <1>1, <1>3, LeaseTypeInit DEF Counting, ReleasingHasLeft, AnnouncingHolds, Step

\* A step that takes no lease and gives none back leaves the holders alone.
LEMMA SameHolders ==
  ASSUME Counted, leases' = leases, \A q \in Repos : Holders(q)' = Holders(q)
  PROVE  Counted'
BY DEF Counted

\* A session that holds r keeps the count of r above zero.
LEMMA HolderIsCounted ==
  ASSUME Counting, NEW r \in Repos, NEW s \in Holders(r)
  PROVE  leases[r] > 0
<1>1. IsFiniteSet(Holders(r)) /\ leases[r] = Cardinality(Holders(r)) /\ Holders(r) # {}
  BY DEF Counting, Counted
<1> QED BY <1>1, FS_EmptySet, FS_CardinalityType

\* What one step of session s about r changes of who does what.
LEMMA NewCall ==
  ASSUME LeaseTypeOK, NEW s \in Sessions, NEW c, call' = [call EXCEPT ![s] = c]
  PROVE  \A t \in Sessions : \A step, q :
           Doing(t, step, q)' <=> IF t = s THEN c = At(step, q) ELSE Doing(t, step, q)
BY DEF LeaseTypeOK, Doing

\* The steps in the middle of a call, which neither take nor give back a lease.
LEMMA MiddleKeepsCounting ==
  ASSUME Counting, LeaseTypeOK', NEW s \in Sessions, NEW r \in Repos, NEW c,
         NEW step \in {"insert", "announceAcquired", "unwatch", "announceReleased"},
         leases' = leases, adopted' = adopted, call' = [call EXCEPT ![s] = c], Doing(s, step, r),
         c = NoCall \/ c = At("announceReleased", r)
           \/ (c = At("announceAcquired", r) /\ step = "insert")
  PROVE  Counting'
<1>1. \A t \in Sessions : \A d, q :
        Doing(t, d, q)' <=> IF t = s THEN c = At(d, q) ELSE Doing(t, d, q)
  BY NewCall DEF Counting
<1>2. \A q : ~(c = At("release", q)) /\ ~(c = At("insert", q))
  BY CallsDiffer
<1>3. \A q \in Repos : ~Doing(s, "release", q)
  BY CallsDiffer DEF Doing
<1>4. \A t \in Sessions, q \in Repos : Doing(t, "release", q)' <=> Doing(t, "release", q)
  BY <1>1, <1>2, <1>3
<1>5. \A q \in Repos : Holders(q)' = Holders(q)
  BY <1>4 DEF Holders
<1>6. \A q \in Repos : c = At("announceAcquired", q) => q = r /\ Doing(s, "insert", r)
  BY CallsDiffer
<1>7. AnnouncingHolds'
  BY <1>1, <1>2, <1>6 DEF Counting, AnnouncingHolds
<1> QED BY <1>4, <1>5, <1>7, SameHolders DEF Counting, ReleasingHasLeft

LEMMA AcquireKeepsCounting ==
  ASSUME WatchesEverything, Counting, LeaseTypeOK', NEW s \in Sessions, NEW r \in Repos, Acquire(s, r)
  PROVE  Counting'
<1>1. /\ call[s] = NoCall /\ r \notin adopted[s]
      /\ leases' = [leases EXCEPT ![r] = leases[r] + 1]
      /\ adopted' = [adopted EXCEPT ![s] = adopted[s] \cup {r}]
      /\ \/ call' = [call EXCEPT ![s] = NoCall]
         \/ call' = [call EXCEPT ![s] = At("insert", r)]
  BY DEF Acquire, CountUp, WatchesEverything, Counting, LeaseTypeOK
<1>2. PICK c \in {NoCall, At("insert", r)} : call' = [call EXCEPT ![s] = c]
  BY <1>1
<1>3. \A t \in Sessions : \A step, q :
        Doing(t, step, q)' <=> IF t = s THEN c = At(step, q) ELSE Doing(t, step, q)
  BY <1>2, NewCall DEF Counting
<1>4. /\ \A q : c # At("release", q) /\ c # At("announceAcquired", q)
      /\ \A q : c = At("insert", q) => q = r
      /\ \A step, q : ~Doing(s, step, q)
  BY <1>1, CallsDiffer DEF Doing
<1>5. \A t \in Sessions, q \in Repos :
        q \in adopted'[t] <=> (q \in adopted[t] \/ (t = s /\ q = r))
  BY <1>1 DEF Counting, LeaseTypeOK
<1>6. \A t \in Sessions, q \in Repos : Doing(t, "release", q)' <=> Doing(t, "release", q)
  BY <1>3, <1>4
<1>7. \A q \in Repos : Holders(q)' = IF q = r THEN Holders(q) \cup {s} ELSE Holders(q)
  BY <1>5, <1>6 DEF Holders
<1>8. s \notin Holders(r)
  BY <1>1, <1>4 DEF Holders
<1>9. Counted'
  <2> SUFFICES ASSUME NEW q \in Repos
               PROVE  IsFiniteSet(Holders(q)') /\ leases'[q] = Cardinality(Holders(q)')
    BY DEF Counted
  <2>1. IsFiniteSet(Holders(q)) /\ leases[q] = Cardinality(Holders(q))
    BY DEF Counting, Counted
  <2>2. leases'[q] = IF q = r THEN leases[q] + 1 ELSE leases[q]
    BY <1>1 DEF Counting, LeaseTypeOK
  <2> QED BY <1>7, <1>8, <2>1, <2>2, FS_AddElement
<1>10. ReleasingHasLeft'
  BY <1>4, <1>5, <1>6 DEF Counting, ReleasingHasLeft
<1>11. AnnouncingHolds'
  BY <1>3, <1>4, <1>5 DEF Counting, AnnouncingHolds
<1> QED BY <1>9, <1>10, <1>11 DEF Counting

LEMMA DetachKeepsCounting ==
  ASSUME Counting, LeaseTypeOK', NEW s \in Sessions, NEW r \in Repos, Detach(s, r)
  PROVE  Counting'
<1>1. /\ call[s] = NoCall /\ r \in adopted[s] /\ leases' = leases
      /\ adopted' = [adopted EXCEPT ![s] = adopted[s] \ {r}]
      /\ call' = [call EXCEPT ![s] = At("release", r)]
  BY DEF Detach
<1>2. \A t \in Sessions : \A step, q :
        Doing(t, step, q)' <=> IF t = s THEN At("release", r) = At(step, q) ELSE Doing(t, step, q)
  BY <1>1, NewCall DEF Counting
<1>3. /\ \A step, q : ~Doing(s, step, q)
      /\ \A step, q : At("release", r) = At(step, q) <=> step = "release" /\ q = r
  BY <1>1, CallsDiffer DEF Doing
<1>4. \A t \in Sessions, q \in Repos :
        q \in adopted'[t] <=> (q \in adopted[t] /\ ~(t = s /\ q = r))
  BY <1>1 DEF Counting, LeaseTypeOK
<1>5. \A t \in Sessions, q \in Repos :
        Doing(t, "release", q)' <=> (Doing(t, "release", q) \/ (t = s /\ q = r))
  BY <1>2, <1>3
<1>6. \A q \in Repos : Holders(q)' = Holders(q)
  BY <1>1, <1>4, <1>5 DEF Holders
<1>7. ReleasingHasLeft'
  BY <1>4, <1>5 DEF Counting, ReleasingHasLeft
<1>8. AnnouncingHolds'
  BY <1>2, <1>3, <1>4 DEF Counting, AnnouncingHolds
<1> QED BY <1>1, <1>6, <1>7, <1>8, SameHolders DEF Counting

LEMMA CountDownKeepsCounting ==
  ASSUME Counting, LeaseTypeOK', NEW s \in Sessions, NEW r \in Repos, CountDown(s, r)
  PROVE  Counting'
<1>1. Doing(s, "release", r) /\ adopted' = adopted
  BY DEF CountDown
<1>2. s \in Holders(r) /\ r \notin adopted[s]
  BY <1>1 DEF Holders, Counting, ReleasingHasLeft
<1>3. leases[r] > 0
  BY <1>2, HolderIsCounted
<1>4. leases' = [leases EXCEPT ![r] = leases[r] - 1]
  <2>1. leases[r] # 0
    BY <1>3 DEF Counting, LeaseTypeOK
  <2> QED BY <2>1 DEF CountDown
<1>5. PICK c \in {NoCall, At("unwatch", r)} : call' = [call EXCEPT ![s] = c]
  BY DEF CountDown
<1>6. \A t \in Sessions : \A step, q :
        Doing(t, step, q)' <=> IF t = s THEN c = At(step, q) ELSE Doing(t, step, q)
  BY <1>5, NewCall DEF Counting
<1>7. /\ \A q : c # At("release", q) /\ c # At("insert", q) /\ c # At("announceAcquired", q)
      /\ \A q : Doing(s, "release", q) => q = r
  BY <1>1, CallsDiffer DEF Doing
<1>8. \A t \in Sessions, q \in Repos :
        Doing(t, "release", q)' <=> (Doing(t, "release", q) /\ ~(t = s /\ q = r))
  BY <1>6, <1>7
<1>9. \A q \in Repos : Holders(q)' = IF q = r THEN Holders(q) \ {s} ELSE Holders(q)
  BY <1>1, <1>2, <1>7, <1>8 DEF Holders
<1>10. Counted'
  <2> SUFFICES ASSUME NEW q \in Repos
               PROVE  IsFiniteSet(Holders(q)') /\ leases'[q] = Cardinality(Holders(q)')
    BY DEF Counted
  <2>1. IsFiniteSet(Holders(q)) /\ leases[q] = Cardinality(Holders(q))
    BY DEF Counting, Counted
  <2>2. leases'[q] = IF q = r THEN leases[q] - 1 ELSE leases[q]
    BY <1>4 DEF Counting, LeaseTypeOK
  <2> QED BY <1>2, <1>9, <2>1, <2>2, FS_RemoveElement
<1>11. ReleasingHasLeft' /\ AnnouncingHolds'
  BY <1>1, <1>6, <1>7, <1>8 DEF Counting, ReleasingHasLeft, AnnouncingHolds
<1> QED BY <1>10, <1>11 DEF Counting

LEMMA CountingStep ==
  ASSUME WatchesEverything
  PROVE  Counting /\ [LeaseNext]_leaseVars => Counting'
<1> SUFFICES ASSUME Counting, [LeaseNext]_leaseVars PROVE Counting'
  OBVIOUS
<1>0. LeaseTypeOK'
  BY LeaseTypeStep DEF Counting
<1>1. ASSUME UNCHANGED <<leases, adopted, call>> PROVE Counting'
  BY <1>0, <1>1
  DEF Counting, Counted, Holders, ReleasingHasLeft, AnnouncingHolds, Doing
<1>2. ASSUME NEW s \in Sessions, NEW r \in Repos, Begin(s, r) PROVE Counting'
  BY <1>0, <1>2, AcquireKeepsCounting, DetachKeepsCounting DEF Begin
<1>3. ASSUME NEW s \in Sessions, NEW r \in Repos, Insert(s, r) PROVE Counting'
  BY <1>0, <1>3, MiddleKeepsCounting DEF Insert
<1>4. ASSUME NEW s \in Sessions, NEW r \in Repos, AnnounceAcquired(s, r) PROVE Counting'
  BY <1>0, <1>4, MiddleKeepsCounting DEF AnnounceAcquired
<1>5. ASSUME NEW s \in Sessions, NEW r \in Repos, Unwatch(s, r) PROVE Counting'
  BY <1>0, <1>5, MiddleKeepsCounting DEF Unwatch
<1>6. ASSUME NEW s \in Sessions, NEW r \in Repos, AnnounceReleased(s, r) PROVE Counting'
  BY <1>0, <1>6, MiddleKeepsCounting DEF AnnounceReleased
<1>7. ASSUME NEW s \in Sessions, NEW r \in Repos, CountDown(s, r) PROVE Counting'
  BY <1>0, <1>7, CountDownKeepsCounting
<1>8. CASE Consume
  BY <1>1, <1>8 DEF Consume
<1>9. CASE UNCHANGED leaseVars
  BY <1>1, <1>9 DEF leaseVars
<1> QED BY <1>2, <1>3, <1>4, <1>5, <1>6, <1>7, <1>8, <1>9 DEF LeaseNext, Proceed

\* lease_count is the number of holders, however acquire_lease and release_lease overlap, as long
\* as the watcher accepts every root.
THEOREM CountIsExact == WatchesEverything /\ LeaseSpec => []CountMatchesHolders
<1> SUFFICES ASSUME WatchesEverything PROVE LeaseSpec => []CountMatchesHolders
  BY DEF WatchesEverything
<1>1. Counting => CountMatchesHolders
  BY DEF Counting, Counted, CountMatchesHolders
<1> QED BY <1>1, CountingInit, CountingStep, PTL DEF LeaseSpec

-----------------------------------------------------------------------------
(* What nobody holds is let go. *)

\* No command from position i + 1 on is about r.
Silent(i, r) == \A j \in DOMAIN mailbox : j > i => mailbox[j].repo # r

\* r is in the scheduler once every waiting command has been received.
WillBeScheduled(r) ==
  \/ \E i \in DOMAIN mailbox : mailbox[i] = Acquired(r) /\ Silent(i, r)
  \/ r \in scheduled /\ Silent(0, r)

\* A root nobody holds is being let go by the session whose release found it so.
LeftIsUnwatched ==
  \A r \in Repos :
    leases[r] = 0 /\ r \in registered \cup Watching => \E s \in Sessions : Doing(s, "unwatch", r)

LeftIsAnnounced ==
  \A r \in Repos :
    leases[r] = 0 /\ WillBeScheduled(r) =>
      \E s \in Sessions : Doing(s, "unwatch", r) \/ Doing(s, "announceReleased", r)

\* The watcher has a root the map lacks only before the map entry is made.
WatchingIsMapped ==
  \A r \in Repos : r \in Watching => r \in registered \/ \E s \in Sessions : Doing(s, "insert", r)

LettingGo == Counting /\ LeftIsUnwatched /\ LeftIsAnnounced /\ WatchingIsMapped

LEMMA LettingGoInit == LeaseInit => LettingGo
<1> SUFFICES ASSUME LeaseInit PROVE LettingGo
  OBVIOUS
<1>1. \A r : ~WillBeScheduled(r)
  BY DEF LeaseInit, WillBeScheduled
<1> QED BY <1>1, CountingInit
        DEF LeaseInit, LettingGo, LeftIsUnwatched, LeftIsAnnounced, WatchingIsMapped, Watching

\* A command about q that is sent says nothing of the others, and nobody sends what was waiting.
LEMMA AppendedCommand ==
  ASSUME LeaseTypeOK, NEW m, mailbox' = Append(mailbox, m), scheduled' = scheduled,
         NEW r \in Repos, WillBeScheduled(r)'
  PROVE  IF m.repo = r THEN m = Acquired(r) ELSE WillBeScheduled(r)
<1> DEFINE n == Len(mailbox)
<1>1. /\ n \in Nat /\ DOMAIN mailbox = 1 .. n /\ DOMAIN mailbox' = 1 .. (n + 1)
      /\ mailbox'[n + 1] = m /\ \A j \in 1 .. n : mailbox'[j] = mailbox[j]
  BY DEF LeaseTypeOK
<1> HIDE DEF n
<1>2. CASE \E i \in DOMAIN mailbox' : mailbox'[i] = Acquired(r) /\ Silent(i, r)'
  <2>1. PICK i \in 1 .. (n + 1) :
          mailbox'[i] = Acquired(r) /\ \A j \in 1 .. (n + 1) : j > i => mailbox'[j].repo # r
    BY <1>1, <1>2 DEF Silent
  <2>2. CASE i = n + 1
    BY <1>1, <2>1, <2>2, CommandsDiffer
  <2>3. CASE i # n + 1
    <3>1. i \in 1 .. n /\ n + 1 \in 1 .. (n + 1) /\ n + 1 > i
      BY <1>1, <2>1, <2>3
    <3>2. m.repo # r
      BY <1>1, <2>1, <3>1
    <3>3. \A j \in 1 .. n : j > i => mailbox[j].repo # r
      BY <1>1, <2>1
    <3> QED BY <1>1, <2>1, <3>1, <3>2, <3>3 DEF WillBeScheduled, Silent
  <2> QED BY <2>2, <2>3
<1>3. CASE r \in scheduled' /\ Silent(0, r)'
  <2>1. \A j \in 1 .. (n + 1) : mailbox'[j].repo # r
    BY <1>1, <1>3 DEF Silent
  <2>2. n + 1 \in 1 .. (n + 1) /\ \A j \in 1 .. n : j \in 1 .. (n + 1)
    BY <1>1
  <2>3. m.repo # r /\ \A j \in 1 .. n : mailbox[j].repo # r
    BY <1>1, <2>1, <2>2
  <2> QED BY <1>1, <1>3, <2>3 DEF WillBeScheduled, Silent
<1> QED BY <1>2, <1>3 DEF WillBeScheduled

LEMMA ReceivedCommand ==
  ASSUME LeaseTypeOK, Consume, NEW r \in Repos, WillBeScheduled(r)'
  PROVE  WillBeScheduled(r)
<1> DEFINE n == Len(mailbox)
<1>1. /\ n \in Nat /\ n >= 1 /\ DOMAIN mailbox = 1 .. n /\ DOMAIN mailbox' = 1 .. (n - 1)
      /\ \A j \in 1 .. (n - 1) : mailbox'[j] = mailbox[j + 1]
  BY DEF LeaseTypeOK, Consume
<1>2. Head(mailbox) = mailbox[1] /\ 1 \in 1 .. n
  BY <1>1
<1>3. scheduled' = IF mailbox[1] = Acquired(mailbox[1].repo)
                   THEN scheduled \cup {mailbox[1].repo} ELSE scheduled \ {mailbox[1].repo}
  BY <1>2 DEF Consume
<1> HIDE DEF n
<1>4. CASE \E i \in DOMAIN mailbox' : mailbox'[i] = Acquired(r) /\ Silent(i, r)'
  <2>1. PICK i \in 1 .. (n - 1) :
          mailbox'[i] = Acquired(r) /\ \A j \in 1 .. (n - 1) : j > i => mailbox'[j].repo # r
    BY <1>1, <1>4 DEF Silent
  <2>2. mailbox[i + 1] = Acquired(r) /\ i + 1 \in 1 .. n
    BY <1>1, <2>1
  <2>3. ASSUME NEW j \in 1 .. n, j > i + 1 PROVE mailbox[j].repo # r
    <3>1. j - 1 \in 1 .. (n - 1) /\ j - 1 > i /\ (j - 1) + 1 = j
      BY <1>1, <2>1, <2>3
    <3> QED BY <1>1, <2>1, <3>1
  <2> QED BY <1>1, <2>2, <2>3 DEF WillBeScheduled, Silent
<1>5. CASE r \in scheduled' /\ Silent(0, r)'
  <2>1. ASSUME NEW j \in 1 .. n, j > 1 PROVE mailbox[j].repo # r
    <3>1. j - 1 \in 1 .. (n - 1) /\ j - 1 > 0 /\ (j - 1) + 1 = j
      BY <1>1, <2>1
    <3> QED BY <1>1, <1>5, <3>1 DEF Silent
  <2>2. CASE mailbox[1].repo = r
    <3>1. mailbox[1] = Acquired(r)
      BY <1>3, <1>5, <2>2
    <3> QED BY <1>1, <1>2, <2>1, <3>1 DEF WillBeScheduled, Silent
  <2>3. CASE mailbox[1].repo # r
    <3>1. r \in scheduled
      BY <1>3, <1>5, <2>3
    <3>2. \A j \in 1 .. n : j > 0 => mailbox[j].repo # r
      BY <1>1, <2>1, <2>3
    <3> QED BY <1>1, <3>1, <3>2 DEF WillBeScheduled, Silent
  <2> QED BY <2>2, <2>3
<1> QED BY <1>4, <1>5 DEF WillBeScheduled

\* A step after which more is let go, by the same sessions or more.
LEMMA StillLetGo ==
  ASSUME LettingGo, Counting',
         \A r \in Repos :
           /\ leases'[r] = 0 => leases[r] = 0
           /\ r \in registered' => r \in registered
           /\ r \in Watching' => r \in Watching
           /\ leases[r] = 0 /\ WillBeScheduled(r)' => WillBeScheduled(r)
           /\ r \in Watching' /\ r \in registered => r \in registered'
           /\ \A s \in Sessions, step \in {"insert", "unwatch", "announceReleased"} :
                Doing(s, step, r) => Doing(s, step, r)'
  PROVE  LettingGo'
<1>1. LeftIsUnwatched'
  BY DEF LettingGo, LeftIsUnwatched
<1>2. LeftIsAnnounced'
  BY DEF LettingGo, LeftIsAnnounced
<1>3. WatchingIsMapped'
  BY DEF LettingGo, WatchingIsMapped
<1> QED BY <1>1, <1>2, <1>3 DEF LettingGo

\* What a step of session s about r leaves of the steps of others, and of r itself.
LEMMA CallOfOne ==
  ASSUME LeaseTypeOK, NEW s \in Sessions, NEW r \in Repos, NEW c, NEW from,
         call' = [call EXCEPT ![s] = c], call[s] = NoCall \/ Doing(s, from, r)
  PROVE  /\ \A t \in Sessions : \A d, q :
              Doing(t, d, q)' <=> IF t = s THEN c = At(d, q) ELSE Doing(t, d, q)
         /\ \A d, q : Doing(s, d, q) => d = from /\ q = r
<1>1. \A t \in Sessions : \A d, q :
        Doing(t, d, q)' <=> IF t = s THEN c = At(d, q) ELSE Doing(t, d, q)
  BY NewCall
<1>2. \A d, q : Doing(s, d, q) => d = from /\ q = r
  BY CallsDiffer DEF Doing
<1> QED BY <1>1, <1>2

LEMMA BeginLetsGo ==
  ASSUME WatchesEverything, LettingGo, Counting', NEW s \in Sessions, NEW r \in Repos, Begin(s, r)
  PROVE  LettingGo'
<1>0. LeaseTypeOK /\ LeaseTypeOK'
  BY DEF LettingGo, Counting
<1>1. PICK c \in {NoCall, At("insert", r), At("release", r)} : call' = [call EXCEPT ![s] = c]
  BY DEF Begin, Acquire, Detach, CountUp, WatchesEverything, Watching
<1>2. /\ \A t \in Sessions : \A d, q :
           Doing(t, d, q)' <=> IF t = s THEN c = At(d, q) ELSE Doing(t, d, q)
      /\ \A d, q : ~Doing(s, d, q)
  <2>1. \A t \in Sessions : \A d, q :
          Doing(t, d, q)' <=> IF t = s THEN c = At(d, q) ELSE Doing(t, d, q)
    BY <1>0, <1>1, NewCall
  <2>2. call[s] = NoCall
    BY DEF Begin, Acquire, Detach
  <2>3. \A d, q : ~Doing(s, d, q)
    BY <2>2, CallsDiffer DEF Doing
  <2> QED BY <2>1, <2>3
<1>3. registered' = registered /\ mailbox' = mailbox /\ scheduled' = scheduled
  BY DEF Begin, Acquire, Detach
<1>4. \A q : WillBeScheduled(q)' <=> WillBeScheduled(q)
  BY <1>3 DEF WillBeScheduled, Silent
<1>5. \A t \in Sessions : \A d, q : Doing(t, d, q) => Doing(t, d, q)'
  BY <1>2
<1>6. CASE leases' = leases /\ Watching' = Watching
  BY <1>3, <1>4, <1>5, <1>6, StillLetGo
<1>7. CASE leases' = [leases EXCEPT ![r] = leases[r] + 1] /\ Watching' = Watching
  <2>1. \A q \in Repos : leases'[q] = 0 => leases[q] = 0
    BY <1>0, <1>7 DEF LeaseTypeOK
  <2> QED BY <1>3, <1>4, <1>5, <1>7, <2>1, StillLetGo
<1>8. CASE /\ leases' = [leases EXCEPT ![r] = 1] /\ Watching' = Watching \cup {r}
           /\ call' = [call EXCEPT ![s] = At("insert", r)]
  <2>1. \A q \in Repos : leases'[q] = IF q = r THEN 1 ELSE leases[q]
    BY <1>0, <1>8 DEF LeaseTypeOK
  <2>2. Doing(s, "insert", r)'
    BY <1>0, <1>8 DEF LeaseTypeOK, Doing
  <2>3. LeftIsUnwatched' /\ LeftIsAnnounced'
    BY <1>3, <1>4, <1>5, <1>8, <2>1 DEF LettingGo, LeftIsUnwatched, LeftIsAnnounced
  <2>4. WatchingIsMapped'
    BY <1>3, <1>5, <1>8, <2>2 DEF LettingGo, WatchingIsMapped
  <2> QED BY <2>3, <2>4 DEF LettingGo
<1> QED BY <1>6, <1>7, <1>8 DEF Begin, Acquire, Detach, CountUp, WatchesEverything, Watching

LEMMA InsertLetsGo ==
  ASSUME LettingGo, Counting', NEW s \in Sessions, NEW r \in Repos, Insert(s, r)
  PROVE  LettingGo'
<1>0. LeaseTypeOK /\ LeaseTypeOK'
  BY DEF LettingGo, Counting
<1>1. /\ Doing(s, "insert", r) /\ call' = [call EXCEPT ![s] = At("announceAcquired", r)]
      /\ registered' = registered \cup {r} /\ leases' = leases /\ Watching' = Watching
      /\ mailbox' = mailbox /\ scheduled' = scheduled
  BY DEF Insert, Watching
<1>2. /\ \A t \in Sessions : \A d, q :
           Doing(t, d, q)' <=> IF t = s THEN At("announceAcquired", r) = At(d, q) ELSE Doing(t, d, q)
      /\ \A d, q : Doing(s, d, q) => d = "insert" /\ q = r
  BY <1>0, <1>1, CallOfOne
<1>3. leases[r] > 0
  BY <1>1, HolderIsCounted DEF LettingGo, Counting, AnnouncingHolds, Holders
<1>4. \A q : WillBeScheduled(q)' <=> WillBeScheduled(q)
  BY <1>1 DEF WillBeScheduled, Silent
<1>5. \A t \in Sessions : \A q : /\ Doing(t, "unwatch", q) => Doing(t, "unwatch", q)'
                                 /\ Doing(t, "announceReleased", q) => Doing(t, "announceReleased", q)'
                                 /\ Doing(t, "insert", q) /\ q # r => Doing(t, "insert", q)'
  BY <1>2
<1>6. leases[r] # 0
  BY <1>0, <1>3 DEF LeaseTypeOK
<1>7. LeftIsUnwatched' /\ LeftIsAnnounced'
  BY <1>1, <1>4, <1>5, <1>6 DEF LettingGo, LeftIsUnwatched, LeftIsAnnounced
<1>8. WatchingIsMapped'
  BY <1>1, <1>5 DEF LettingGo, WatchingIsMapped
<1> QED BY <1>7, <1>8 DEF LettingGo

LEMMA AnnounceAcquiredLetsGo ==
  ASSUME LettingGo, Counting', NEW s \in Sessions, NEW r \in Repos, AnnounceAcquired(s, r)
  PROVE  LettingGo'
<1>0. LeaseTypeOK /\ LeaseTypeOK'
  BY DEF LettingGo, Counting
<1>1. /\ Doing(s, "announceAcquired", r) /\ call' = [call EXCEPT ![s] = NoCall]
      /\ mailbox' = Append(mailbox, Acquired(r)) /\ scheduled' = scheduled
      /\ registered' = registered /\ leases' = leases /\ Watching' = Watching
  BY DEF AnnounceAcquired, Watching
<1>2. /\ \A t \in Sessions : \A d, q :
           Doing(t, d, q)' <=> IF t = s THEN NoCall = At(d, q) ELSE Doing(t, d, q)
      /\ \A d, q : Doing(s, d, q) => d = "announceAcquired" /\ q = r
  BY <1>0, <1>1, CallOfOne
<1>3. leases[r] > 0
  BY <1>1, HolderIsCounted DEF LettingGo, Counting, AnnouncingHolds, Holders
<1>4. leases[r] # 0
  BY <1>0, <1>3 DEF LeaseTypeOK
<1>5. \A q \in Repos : leases[q] = 0 /\ WillBeScheduled(q)' => WillBeScheduled(q)
  BY <1>0, <1>1, <1>4, AppendedCommand, CommandsDiffer
<1> QED BY <1>1, <1>2, <1>5, StillLetGo

LEMMA CountDownLetsGo ==
  ASSUME LettingGo, Counting', NEW s \in Sessions, NEW r \in Repos, CountDown(s, r)
  PROVE  LettingGo'
<1>0. LeaseTypeOK /\ LeaseTypeOK'
  BY DEF LettingGo, Counting
<1>1. /\ Doing(s, "release", r)
      /\ call' = [call EXCEPT ![s] = IF leases[r] = 1 THEN At("unwatch", r) ELSE NoCall]
      /\ registered' = registered /\ Watching' = Watching
      /\ mailbox' = mailbox /\ scheduled' = scheduled
      /\ leases' = [leases EXCEPT ![r] = IF leases[r] = 0 THEN 0 ELSE leases[r] - 1]
  BY DEF CountDown, Watching
<1>2. leases[r] > 0
  BY <1>1, HolderIsCounted DEF LettingGo, Holders
<1>3. \A q \in Repos : leases'[q] = IF q = r THEN leases[r] - 1 ELSE leases[q]
  BY <1>0, <1>1, <1>2 DEF LeaseTypeOK
<1>4. PICK c : c = (IF leases[r] = 1 THEN At("unwatch", r) ELSE NoCall)
  OBVIOUS
<1>5. /\ \A t \in Sessions : \A d, q :
           Doing(t, d, q)' <=> IF t = s THEN c = At(d, q) ELSE Doing(t, d, q)
      /\ \A d, q : Doing(s, d, q) => d = "release" /\ q = r
  BY <1>0, <1>1, <1>4, CallOfOne
<1>6. \A t \in Sessions : \A q : \A d \in {"insert", "unwatch", "announceReleased"} :
        Doing(t, d, q) => Doing(t, d, q)'
  BY <1>5
<1>7. leases'[r] = 0 => Doing(s, "unwatch", r)'
  <2>1. leases'[r] = 0 => leases[r] = 1
    BY <1>0, <1>2, <1>3 DEF LeaseTypeOK
  <2> QED BY <1>4, <1>5, <2>1
<1>8. \A q : WillBeScheduled(q)' <=> WillBeScheduled(q)
  BY <1>1 DEF WillBeScheduled, Silent
<1>9. LeftIsUnwatched'
  BY <1>1, <1>3, <1>6, <1>7 DEF LettingGo, LeftIsUnwatched
<1>10. LeftIsAnnounced'
  BY <1>3, <1>6, <1>7, <1>8 DEF LettingGo, LeftIsAnnounced
<1>11. WatchingIsMapped'
  BY <1>1, <1>6 DEF LettingGo, WatchingIsMapped
<1> QED BY <1>9, <1>10, <1>11 DEF LettingGo

LEMMA UnwatchLetsGo ==
  ASSUME LettingGo, Counting', NEW s \in Sessions, NEW r \in Repos, Unwatch(s, r)
  PROVE  LettingGo'
<1>0. LeaseTypeOK /\ LeaseTypeOK'
  BY DEF LettingGo, Counting
<1>1. /\ Doing(s, "unwatch", r) /\ call' = [call EXCEPT ![s] = At("announceReleased", r)]
      /\ registered' = registered \ {r}
      /\ Watching' = IF r \in registered THEN Watching \ {r} ELSE Watching
      /\ mailbox' = mailbox /\ scheduled' = scheduled /\ leases' = leases
  BY DEF Unwatch, Watching
<1>2. /\ \A t \in Sessions : \A d, q :
           Doing(t, d, q)' <=> IF t = s THEN At("announceReleased", r) = At(d, q) ELSE Doing(t, d, q)
      /\ \A d, q : Doing(s, d, q) => d = "unwatch" /\ q = r
  BY <1>0, <1>1, CallOfOne
<1>3. /\ \A t \in Sessions : \A q : Doing(t, "insert", q) => Doing(t, "insert", q)'
      /\ \A t \in Sessions : \A q : Doing(t, "announceReleased", q) => Doing(t, "announceReleased", q)'
      /\ \A t \in Sessions : \A q : Doing(t, "unwatch", q) /\ q # r => Doing(t, "unwatch", q)'
      /\ Doing(s, "announceReleased", r)'
  BY <1>2
<1>4. \A q : WillBeScheduled(q)' <=> WillBeScheduled(q)
  BY <1>1 DEF WillBeScheduled, Silent
<1>5. leases[r] = 0 => r \notin registered' \cup Watching'
  <2> SUFFICES ASSUME leases[r] = 0, r \in Watching' PROVE FALSE
    BY <1>1
  <2>1. r \in Watching /\ r \notin registered
    BY <1>1
  <2>2. PICK t \in Sessions : Doing(t, "insert", r)
    BY <2>1 DEF LettingGo, WatchingIsMapped
  <2>3. leases[r] > 0
    BY <2>2, HolderIsCounted DEF LettingGo, Counting, AnnouncingHolds, Holders
  <2> QED BY <2>3
<1>6. LeftIsUnwatched'
  BY <1>1, <1>3, <1>5 DEF LettingGo, LeftIsUnwatched
<1>7. LeftIsAnnounced'
  BY <1>1, <1>3, <1>4 DEF LettingGo, LeftIsAnnounced
<1>8. WatchingIsMapped'
  BY <1>1, <1>3 DEF LettingGo, WatchingIsMapped
<1> QED BY <1>6, <1>7, <1>8 DEF LettingGo

LEMMA AnnounceReleasedLetsGo ==
  ASSUME LettingGo, Counting', NEW s \in Sessions, NEW r \in Repos, AnnounceReleased(s, r)
  PROVE  LettingGo'
<1>0. LeaseTypeOK /\ LeaseTypeOK'
  BY DEF LettingGo, Counting
<1>1. /\ Doing(s, "announceReleased", r) /\ call' = [call EXCEPT ![s] = NoCall]
      /\ mailbox' = Append(mailbox, Released(r)) /\ scheduled' = scheduled
      /\ registered' = registered /\ leases' = leases /\ Watching' = Watching
  BY DEF AnnounceReleased, Watching
<1>2. /\ \A t \in Sessions : \A d, q :
           Doing(t, d, q)' <=> IF t = s THEN NoCall = At(d, q) ELSE Doing(t, d, q)
      /\ \A d, q : Doing(s, d, q) => d = "announceReleased" /\ q = r
  BY <1>0, <1>1, CallOfOne
<1>3. \A t \in Sessions : \A q : /\ Doing(t, "insert", q) => Doing(t, "insert", q)'
                                 /\ Doing(t, "unwatch", q) => Doing(t, "unwatch", q)'
                                 /\ Doing(t, "announceReleased", q) /\ q # r
                                      => Doing(t, "announceReleased", q)'
  BY <1>2
<1>4. \A q \in Repos : WillBeScheduled(q)' => WillBeScheduled(q) /\ q # r
  BY <1>0, <1>1, AppendedCommand, CommandsDiffer
<1>5. LeftIsUnwatched' /\ LeftIsAnnounced' /\ WatchingIsMapped'
  BY <1>1, <1>3, <1>4 DEF LettingGo, LeftIsUnwatched, LeftIsAnnounced, WatchingIsMapped
<1> QED BY <1>5 DEF LettingGo

LEMMA LettingGoStep ==
  ASSUME WatchesEverything
  PROVE  LettingGo /\ [LeaseNext]_leaseVars => LettingGo'
<1> SUFFICES ASSUME LettingGo, [LeaseNext]_leaseVars PROVE LettingGo'
  OBVIOUS
<1>0. Counting'
  BY CountingStep DEF LettingGo
<1>1. ASSUME NEW s \in Sessions, NEW r \in Repos, Begin(s, r) \/ Proceed(s, r) PROVE LettingGo'
  BY <1>0, <1>1, BeginLetsGo, InsertLetsGo, AnnounceAcquiredLetsGo, CountDownLetsGo,
     UnwatchLetsGo, AnnounceReleasedLetsGo DEF Proceed
<1>2. CASE Consume
  <2>1. \A r \in Repos : WillBeScheduled(r)' => WillBeScheduled(r)
    BY <1>2, ReceivedCommand DEF LettingGo, Counting
  <2> QED BY <1>0, <1>2, <2>1, StillLetGo DEF Consume, Doing, Watching
<1>3. CASE UNCHANGED leaseVars
  BY <1>0, <1>3, StillLetGo DEF leaseVars, Watching, Doing, WillBeScheduled, Silent
<1> QED BY <1>1, <1>2, <1>3 DEF LeaseNext

\* Whatever acquires and releases race, a root without a holder and without a call or a command
\* about it is known neither to the repository map nor to the scheduler, and the watcher keeps it
\* only when it failed to give it up.
THEOREM LeavesNothing == WatchesEverything /\ LeaseSpec => []NothingLeaks
<1> SUFFICES ASSUME WatchesEverything PROVE LeaseSpec => []NothingLeaks
  BY DEF WatchesEverything
<1>1. LettingGo => NothingLeaks
  <2> SUFFICES ASSUME LettingGo, NEW r \in Repos, Settled(r), leases[r] = 0
               PROVE  r \notin registered \cup Watching \cup scheduled
    BY DEF NothingLeaks
  <2>1. \A s \in Sessions : ~Doing(s, "unwatch", r) /\ ~Doing(s, "announceReleased", r)
    BY DEF Settled, Step
  <2>2. r \in scheduled => WillBeScheduled(r)
    BY DEF Settled, WillBeScheduled, Silent
  <2> QED BY <2>1, <2>2 DEF LettingGo, LeftIsUnwatched, LeftIsAnnounced
<1> QED BY <1>1, LettingGoInit, LettingGoStep, PTL DEF LeaseSpec

-----------------------------------------------------------------------------
(* What a lease is worth while another session lets the same root go. *)

Taking(s, r) == Doing(s, "insert", r) \/ Doing(s, "announceAcquired", r)
LettingOff(s, r) == Doing(s, "unwatch", r) \/ Doing(s, "announceReleased", r)

\* The first holder of a root is not at work on it while the last holder's release still is.
NothingCrosses == \A r \in Repos, s, t \in Sessions : ~(Taking(s, r) /\ LettingOff(t, r))

\* A root with a holder is on its way from the watcher to the scheduler, or there.
OnItsWay(r) ==
  leases[r] > 0 =>
    /\ r \in subscribed
    /\ \/ \E s \in Sessions : Doing(s, "insert", r)
       \/ r \in registered /\ \E s \in Sessions : Doing(s, "announceAcquired", r)
       \/ r \in registered /\ WillBeScheduled(r)

LetGoIsFree(r) == \A s \in Sessions : LettingOff(s, r) => leases[r] = 0

Serving == LeaseTypeOK /\ \A r \in Repos : OnItsWay(r) /\ LetGoIsFree(r)

LEMMA ServingInit == LeaseInit => Serving
<1> SUFFICES ASSUME LeaseInit PROVE Serving
  OBVIOUS
<1>1. \A s \in Sessions : \A step, r : ~Doing(s, step, r)
  BY CallsDiffer DEF LeaseInit, Doing
<1>2. \A r \in Repos : leases[r] = 0
  BY DEF LeaseInit
<1> QED BY <1>1, <1>2, LeaseTypeInit DEF Serving, OnItsWay, LetGoIsFree

\* What is on its way to the scheduler stays so, whatever is sent about others and received.
LEMMA SendingKeepsScheduled ==
  ASSUME LeaseTypeOK, NEW m, mailbox' = Append(mailbox, m), scheduled' = scheduled, NEW r,
         m = Acquired(r) \/ (m.repo # r /\ WillBeScheduled(r))
  PROVE  WillBeScheduled(r)'
<1> DEFINE n == Len(mailbox)
<1>1. /\ n \in Nat /\ DOMAIN mailbox = 1 .. n /\ DOMAIN mailbox' = 1 .. (n + 1)
      /\ mailbox'[n + 1] = m /\ \A j \in 1 .. n : mailbox'[j] = mailbox[j]
  BY DEF LeaseTypeOK
<1> HIDE DEF n
<1>2. \A j \in 1 .. (n + 1) : j \in 1 .. n \/ j = n + 1
  BY <1>1
<1>3. CASE m = Acquired(r)
  <2>1. n + 1 \in 1 .. (n + 1) /\ \A j \in 1 .. (n + 1) : ~(j > n + 1)
    BY <1>1
  <2> QED BY <1>1, <1>3, <2>1 DEF WillBeScheduled, Silent
<1>4. CASE m.repo # r /\ \E i \in DOMAIN mailbox : mailbox[i] = Acquired(r) /\ Silent(i, r)
  <2>1. PICK i \in 1 .. n : mailbox[i] = Acquired(r) /\ \A j \in 1 .. n : j > i => mailbox[j].repo # r
    BY <1>1, <1>4 DEF Silent
  <2>2. i \in 1 .. (n + 1) /\ mailbox'[i] = Acquired(r)
    BY <1>1, <2>1
  <2>3. \A j \in 1 .. (n + 1) : j > i => mailbox'[j].repo # r
    BY <1>1, <1>2, <1>4, <2>1
  <2> QED BY <1>1, <2>2, <2>3 DEF WillBeScheduled, Silent
<1>5. CASE m.repo # r /\ r \in scheduled /\ Silent(0, r)
  <2>1. \A j \in 1 .. (n + 1) : j > 0 => mailbox'[j].repo # r
    BY <1>1, <1>2, <1>5 DEF Silent
  <2> QED BY <1>1, <1>5, <2>1 DEF WillBeScheduled, Silent
<1> QED BY <1>3, <1>4, <1>5 DEF WillBeScheduled

LEMMA ReceivingKeepsScheduled ==
  ASSUME LeaseTypeOK, Consume, NEW r, WillBeScheduled(r)
  PROVE  WillBeScheduled(r)'
<1> DEFINE n == Len(mailbox)
<1>1. /\ n \in Nat /\ n >= 1 /\ DOMAIN mailbox = 1 .. n /\ DOMAIN mailbox' = 1 .. (n - 1)
      /\ \A j \in 1 .. (n - 1) : mailbox'[j] = mailbox[j + 1]
      /\ Head(mailbox) = mailbox[1]
  BY DEF LeaseTypeOK, Consume
<1>2. scheduled' = IF mailbox[1] = Acquired(mailbox[1].repo)
                   THEN scheduled \cup {mailbox[1].repo} ELSE scheduled \ {mailbox[1].repo}
  BY <1>1 DEF Consume
<1> HIDE DEF n
<1>3. \A j \in 1 .. (n - 1) : j + 1 \in 1 .. n
  BY <1>1
<1>4. CASE \E i \in DOMAIN mailbox : mailbox[i] = Acquired(r) /\ Silent(i, r)
  <2>1. PICK i \in 1 .. n : mailbox[i] = Acquired(r) /\ \A j \in 1 .. n : j > i => mailbox[j].repo # r
    BY <1>1, <1>4 DEF Silent
  <2>2. CASE i = 1
    <3>1. r \in scheduled'
      BY <1>2, <2>1, <2>2, CommandsDiffer
    <3>2. \A j \in 1 .. (n - 1) : j > 0 => mailbox'[j].repo # r
      BY <1>1, <1>3, <2>1, <2>2
    <3> QED BY <1>1, <3>1, <3>2 DEF WillBeScheduled, Silent
  <2>3. CASE i # 1
    <3>1. i - 1 \in 1 .. (n - 1) /\ (i - 1) + 1 = i
      BY <1>1, <2>1, <2>3
    <3>2. mailbox'[i - 1] = Acquired(r)
      BY <1>1, <2>1, <3>1
    <3>3. \A j \in 1 .. (n - 1) : j > i - 1 => mailbox'[j].repo # r
      BY <1>1, <1>3, <2>1
    <3> QED BY <1>1, <3>1, <3>2, <3>3 DEF WillBeScheduled, Silent
  <2> QED BY <2>2, <2>3
<1>5. CASE r \in scheduled /\ Silent(0, r)
  <2>1. mailbox[1].repo # r /\ 1 \in 1 .. n
    BY <1>1, <1>5 DEF Silent
  <2>2. r \in scheduled'
    BY <1>2, <1>5, <2>1
  <2>3. \A j \in 1 .. (n - 1) : j > 0 => mailbox'[j].repo # r
    BY <1>1, <1>3, <1>5 DEF Silent
  <2> QED BY <1>1, <2>2, <2>3 DEF WillBeScheduled, Silent
<1> QED BY <1>4, <1>5 DEF WillBeScheduled

\* A step after which nobody lets go of more and no root has lost what it had.
LEMMA StillServing ==
  ASSUME Serving, NEW q \in Repos,
         leases'[q] > 0 => leases[q] > 0,
         leases[q] > 0 /\ q \in subscribed => q \in subscribed',
         leases[q] > 0 /\ q \in registered => q \in registered',
         leases[q] > 0 /\ WillBeScheduled(q) => WillBeScheduled(q)',
         \A s \in Sessions : /\ Doing(s, "insert", q) => Doing(s, "insert", q)'
                             /\ Doing(s, "announceAcquired", q) => Doing(s, "announceAcquired", q)'
  PROVE  OnItsWay(q)'
BY DEF Serving, OnItsWay

LEMMA StillFree ==
  ASSUME Serving, NEW q \in Repos, leases[q] = 0 => leases'[q] = 0,
         \A s \in Sessions : LettingOff(s, q)' => LettingOff(s, q)
  PROVE  LetGoIsFree(q)'
BY DEF Serving, LetGoIsFree

LEMMA BeginServes ==
  ASSUME Serving, NothingCrosses', NEW s \in Sessions, NEW r \in Repos, Begin(s, r), NEW q \in Repos
  PROVE  OnItsWay(q)' /\ LetGoIsFree(q)'
<1>0. LeaseTypeOK
  BY DEF Serving
<1>1. PICK c \in {NoCall, At("insert", r), At("release", r)} : call' = [call EXCEPT ![s] = c]
  BY DEF Begin, Acquire, Detach, CountUp
<1>2. /\ \A t \in Sessions : \A d, p :
           Doing(t, d, p)' <=> IF t = s THEN c = At(d, p) ELSE Doing(t, d, p)
      /\ \A d, p : ~Doing(s, d, p)
  <2>1. \A t \in Sessions : \A d, p :
          Doing(t, d, p)' <=> IF t = s THEN c = At(d, p) ELSE Doing(t, d, p)
    BY <1>0, <1>1, NewCall
  <2>2. call[s] = NoCall
    BY DEF Begin, Acquire, Detach
  <2>3. \A d, p : ~Doing(s, d, p)
    BY <2>2, CallsDiffer DEF Doing
  <2> QED BY <2>1, <2>3
<1>3. registered' = registered /\ mailbox' = mailbox /\ scheduled' = scheduled
  BY DEF Begin, Acquire, Detach
<1>4. WillBeScheduled(q)' <=> WillBeScheduled(q)
  BY <1>3 DEF WillBeScheduled, Silent
<1>5. \A t \in Sessions : /\ Doing(t, "insert", q) => Doing(t, "insert", q)'
                          /\ Doing(t, "announceAcquired", q) => Doing(t, "announceAcquired", q)'
  BY <1>2
<1>6. \A t \in Sessions : LettingOff(t, q)' => LettingOff(t, q)
  <2>1. \A d \in {"unwatch", "announceReleased"} : c # At(d, q)
    BY <1>1, CallsDiffer
  <2> QED BY <1>2, <2>1 DEF LettingOff
<1>7. CASE leases' = leases /\ subscribed' = subscribed
  BY <1>3, <1>4, <1>5, <1>6, <1>7, StillServing, StillFree
<1>8. CASE leases[r] > 0 /\ leases' = [leases EXCEPT ![r] = leases[r] + 1] /\ subscribed' = subscribed
  <2>1. leases'[q] = (IF q = r THEN leases[q] + 1 ELSE leases[q]) /\ leases[q] \in Nat
    BY <1>0, <1>8 DEF LeaseTypeOK
  <2>2. (leases'[q] > 0 => leases[q] > 0) /\ (leases[q] = 0 => leases'[q] = 0)
    BY <1>8, <2>1
  <2> QED BY <1>3, <1>4, <1>5, <1>6, <1>8, <2>2, StillServing, StillFree
<1>9. CASE /\ leases[r] = 0 /\ leases' = [leases EXCEPT ![r] = 1] /\ subscribed' = subscribed \cup {r}
           /\ call' = [call EXCEPT ![s] = At("insert", r)]
  <2>1. Doing(s, "insert", r)'
    BY <1>0, <1>9 DEF LeaseTypeOK, Doing
  <2>2. CASE q = r
    <3>1. OnItsWay(q)'
      BY <1>9, <2>1, <2>2 DEF OnItsWay
    <3>2. \A t \in Sessions : ~LettingOff(t, r)'
      BY <2>1 DEF NothingCrosses, Taking
    <3> QED BY <2>2, <3>1, <3>2 DEF LetGoIsFree
  <2>3. CASE q # r
    <3>1. leases'[q] = leases[q]
      BY <1>0, <1>9, <2>3 DEF LeaseTypeOK
    <3>2. q \in subscribed => q \in subscribed'
      BY <1>9
    <3> QED BY <1>3, <1>4, <1>5, <1>6, <3>1, <3>2, StillServing, StillFree
  <2> QED BY <2>2, <2>3
<1> QED BY <1>7, <1>8, <1>9 DEF Begin, Acquire, Detach, CountUp

LEMMA InsertServes ==
  ASSUME Serving, NEW s \in Sessions, NEW r \in Repos, Insert(s, r), NEW q \in Repos
  PROVE  OnItsWay(q)' /\ LetGoIsFree(q)'
<1>0. LeaseTypeOK
  BY DEF Serving
<1>1. /\ Doing(s, "insert", r) /\ call' = [call EXCEPT ![s] = At("announceAcquired", r)]
      /\ registered' = registered \cup {r} /\ leases' = leases /\ subscribed' = subscribed
      /\ mailbox' = mailbox /\ scheduled' = scheduled
  BY DEF Insert
<1>2. /\ \A t \in Sessions : \A d, p :
           Doing(t, d, p)' <=> IF t = s THEN At("announceAcquired", r) = At(d, p) ELSE Doing(t, d, p)
      /\ \A d, p : Doing(s, d, p) => d = "insert" /\ p = r
  BY <1>0, <1>1, CallOfOne
<1>3. WillBeScheduled(q)' <=> WillBeScheduled(q)
  BY <1>1 DEF WillBeScheduled, Silent
<1>4. LetGoIsFree(q)'
  <2>1. \A t \in Sessions : LettingOff(t, q)' => LettingOff(t, q)
    BY <1>2, CallsDiffer DEF LettingOff
  <2> QED BY <1>1, <2>1, StillFree
<1>5. CASE q = r
  <2>1. Doing(s, "announceAcquired", r)'
    BY <1>2
  <2>2. leases[r] > 0 => r \in subscribed
    BY DEF Serving, OnItsWay
  <2>3. OnItsWay(q)'
    BY <1>1, <1>5, <2>1, <2>2 DEF OnItsWay
  <2> QED BY <1>4, <2>3
<1>6. CASE q # r
  <2>1. \A t \in Sessions : /\ Doing(t, "insert", q) => Doing(t, "insert", q)'
                            /\ Doing(t, "announceAcquired", q) => Doing(t, "announceAcquired", q)'
    BY <1>2, <1>6
  <2> QED BY <1>1, <1>3, <1>4, <2>1, StillServing
<1> QED BY <1>5, <1>6

LEMMA AnnounceAcquiredServes ==
  ASSUME Serving, NEW s \in Sessions, NEW r \in Repos, AnnounceAcquired(s, r), NEW q \in Repos
  PROVE  OnItsWay(q)' /\ LetGoIsFree(q)'
<1>0. LeaseTypeOK
  BY DEF Serving
<1>1. /\ Doing(s, "announceAcquired", r) /\ call' = [call EXCEPT ![s] = NoCall]
      /\ mailbox' = Append(mailbox, Acquired(r)) /\ scheduled' = scheduled
      /\ registered' = registered /\ leases' = leases /\ subscribed' = subscribed
  BY DEF AnnounceAcquired
<1>2. /\ \A t \in Sessions : \A d, p :
           Doing(t, d, p)' <=> IF t = s THEN NoCall = At(d, p) ELSE Doing(t, d, p)
      /\ \A d, p : Doing(s, d, p) => d = "announceAcquired" /\ p = r
  BY <1>0, <1>1, CallOfOne
<1>3. LetGoIsFree(q)'
  <2>1. \A t \in Sessions : LettingOff(t, q)' => LettingOff(t, q)
    BY <1>2, CallsDiffer DEF LettingOff
  <2> QED BY <1>1, <2>1, StillFree
<1>4. CASE q = r
  <2>1. WillBeScheduled(r)'
    BY <1>0, <1>1, SendingKeepsScheduled
  <2>2. \A t \in Sessions : Doing(t, "insert", r) => Doing(t, "insert", r)'
    BY <1>2
  <2>3. leases[r] > 0 =>
          r \in subscribed /\ (r \in registered \/ \E t \in Sessions : Doing(t, "insert", r))
    BY DEF Serving, OnItsWay
  <2>4. OnItsWay(q)'
    BY <1>1, <1>4, <2>1, <2>2, <2>3 DEF OnItsWay
  <2> QED BY <1>3, <2>4
<1>5. CASE q # r
  <2>1. \A t \in Sessions : /\ Doing(t, "insert", q) => Doing(t, "insert", q)'
                            /\ Doing(t, "announceAcquired", q) => Doing(t, "announceAcquired", q)'
    BY <1>2, <1>5
  <2>2. WillBeScheduled(q) => WillBeScheduled(q)'
    BY <1>0, <1>1, <1>5, CommandsDiffer, SendingKeepsScheduled
  <2> QED BY <1>1, <1>3, <2>1, <2>2, StillServing
<1> QED BY <1>4, <1>5

LEMMA CountDownServes ==
  ASSUME Serving, NEW s \in Sessions, NEW r \in Repos, CountDown(s, r), NEW q \in Repos
  PROVE  OnItsWay(q)' /\ LetGoIsFree(q)'
<1>0. LeaseTypeOK
  BY DEF Serving
<1>1. /\ Doing(s, "release", r)
      /\ call' = [call EXCEPT ![s] = IF leases[r] = 1 THEN At("unwatch", r) ELSE NoCall]
      /\ registered' = registered /\ subscribed' = subscribed
      /\ mailbox' = mailbox /\ scheduled' = scheduled
      /\ leases' = [leases EXCEPT ![r] = IF leases[r] = 0 THEN 0 ELSE leases[r] - 1]
  BY DEF CountDown
<1>2. PICK c : c = (IF leases[r] = 1 THEN At("unwatch", r) ELSE NoCall)
  OBVIOUS
<1>3. /\ \A t \in Sessions : \A d, p :
           Doing(t, d, p)' <=> IF t = s THEN c = At(d, p) ELSE Doing(t, d, p)
      /\ \A d, p : Doing(s, d, p) => d = "release" /\ p = r
  <2>1. call' = [call EXCEPT ![s] = c]
    BY <1>1, <1>2
  <2> QED BY <1>0, <1>1, <2>1, CallOfOne
<1>4. /\ leases[q] \in Nat
      /\ leases'[q] = IF q = r THEN IF leases[q] = 0 THEN 0 ELSE leases[q] - 1 ELSE leases[q]
  BY <1>0, <1>1 DEF LeaseTypeOK
<1>5. (leases'[q] > 0 => leases[q] > 0) /\ (leases[q] = 0 => leases'[q] = 0)
  BY <1>4
<1>6. OnItsWay(q)'
  <2>1. \A t \in Sessions : /\ Doing(t, "insert", q) => Doing(t, "insert", q)'
                            /\ Doing(t, "announceAcquired", q) => Doing(t, "announceAcquired", q)'
    BY <1>3
  <2>2. WillBeScheduled(q)' <=> WillBeScheduled(q)
    BY <1>1 DEF WillBeScheduled, Silent
  <2> QED BY <1>1, <1>5, <2>1, <2>2, StillServing
<1>7. ASSUME NEW t \in Sessions, LettingOff(t, q)' PROVE leases'[q] = 0
  <2>1. CASE t = s
    <3>1. \E d : c = At(d, q)
      BY <1>3, <1>7, <2>1 DEF LettingOff
    <3>2. leases[r] = 1 /\ q = r
      BY <1>2, <3>1, CallsDiffer
    <3> QED BY <1>4, <3>2
  <2>2. CASE t # s
    <3>1. LettingOff(t, q)
      BY <1>3, <1>7, <2>2 DEF LettingOff
    <3> QED BY <1>5, <3>1 DEF Serving, LetGoIsFree
  <2> QED BY <2>1, <2>2
<1> QED BY <1>6, <1>7 DEF LetGoIsFree

LEMMA UnwatchServes ==
  ASSUME Serving, NEW s \in Sessions, NEW r \in Repos, Unwatch(s, r), NEW q \in Repos
  PROVE  OnItsWay(q)' /\ LetGoIsFree(q)'
<1>0. LeaseTypeOK
  BY DEF Serving
<1>1. /\ Doing(s, "unwatch", r) /\ call' = [call EXCEPT ![s] = At("announceReleased", r)]
      /\ registered' = registered \ {r}
      /\ subscribed' = subscribed \ (registered \cap {r}) \/ subscribed' = subscribed
      /\ mailbox' = mailbox /\ scheduled' = scheduled /\ leases' = leases
  BY DEF Unwatch
<1>2. /\ \A t \in Sessions : \A d, p :
           Doing(t, d, p)' <=> IF t = s THEN At("announceReleased", r) = At(d, p) ELSE Doing(t, d, p)
      /\ \A d, p : Doing(s, d, p) => d = "unwatch" /\ p = r
  BY <1>0, <1>1, CallOfOne
<1>3. leases[r] = 0
  BY <1>1 DEF Serving, LetGoIsFree, LettingOff
<1>4. LetGoIsFree(q)'
  <2>1. \A t \in Sessions : LettingOff(t, q)' => LettingOff(t, q)
    BY <1>1, <1>2, CallsDiffer DEF LettingOff
  <2> QED BY <1>1, <2>1, StillFree
<1>5. CASE q = r
  BY <1>1, <1>3, <1>4, <1>5 DEF OnItsWay
<1>6. CASE q # r
  <2>1. \A t \in Sessions : /\ Doing(t, "insert", q) => Doing(t, "insert", q)'
                            /\ Doing(t, "announceAcquired", q) => Doing(t, "announceAcquired", q)'
    BY <1>2
  <2>2. WillBeScheduled(q)' <=> WillBeScheduled(q)
    BY <1>1 DEF WillBeScheduled, Silent
  <2> QED BY <1>1, <1>4, <1>6, <2>1, <2>2, StillServing
<1> QED BY <1>5, <1>6

LEMMA AnnounceReleasedServes ==
  ASSUME Serving, NEW s \in Sessions, NEW r \in Repos, AnnounceReleased(s, r), NEW q \in Repos
  PROVE  OnItsWay(q)' /\ LetGoIsFree(q)'
<1>0. LeaseTypeOK
  BY DEF Serving
<1>1. /\ Doing(s, "announceReleased", r) /\ call' = [call EXCEPT ![s] = NoCall]
      /\ mailbox' = Append(mailbox, Released(r)) /\ scheduled' = scheduled
      /\ registered' = registered /\ leases' = leases /\ subscribed' = subscribed
  BY DEF AnnounceReleased
<1>2. /\ \A t \in Sessions : \A d, p :
           Doing(t, d, p)' <=> IF t = s THEN NoCall = At(d, p) ELSE Doing(t, d, p)
      /\ \A d, p : Doing(s, d, p) => d = "announceReleased" /\ p = r
  BY <1>0, <1>1, CallOfOne
<1>3. leases[r] = 0
  BY <1>1 DEF Serving, LetGoIsFree, LettingOff
<1>4. LetGoIsFree(q)'
  <2>1. \A t \in Sessions : LettingOff(t, q)' => LettingOff(t, q)
    BY <1>2, CallsDiffer DEF LettingOff
  <2> QED BY <1>1, <2>1, StillFree
<1>5. CASE q = r
  BY <1>1, <1>3, <1>4, <1>5 DEF OnItsWay
<1>6. CASE q # r
  <2>1. \A t \in Sessions : /\ Doing(t, "insert", q) => Doing(t, "insert", q)'
                            /\ Doing(t, "announceAcquired", q) => Doing(t, "announceAcquired", q)'
    BY <1>2
  <2>2. WillBeScheduled(q) => WillBeScheduled(q)'
    BY <1>0, <1>1, <1>6, CommandsDiffer, SendingKeepsScheduled
  <2> QED BY <1>1, <1>4, <2>1, <2>2, StillServing
<1> QED BY <1>5, <1>6

LEMMA ServingStep == Serving /\ NothingCrosses' /\ [LeaseNext]_leaseVars => Serving'
<1> SUFFICES ASSUME Serving, NothingCrosses', [LeaseNext]_leaseVars PROVE Serving'
  OBVIOUS
<1>0. LeaseTypeOK'
  BY LeaseTypeStep DEF Serving
<1>1. ASSUME NEW s \in Sessions, NEW r \in Repos, Begin(s, r) \/ Proceed(s, r), NEW q \in Repos
      PROVE  OnItsWay(q)' /\ LetGoIsFree(q)'
  BY <1>1, BeginServes, InsertServes, AnnounceAcquiredServes, CountDownServes,
     UnwatchServes, AnnounceReleasedServes DEF Proceed
<1>2. ASSUME Consume \/ UNCHANGED leaseVars, NEW q \in Repos
      PROVE  OnItsWay(q)' /\ LetGoIsFree(q)'
  <2>1. WillBeScheduled(q) => WillBeScheduled(q)'
    <3>1. CASE Consume
      BY <3>1, ReceivingKeepsScheduled DEF Serving
    <3>2. CASE UNCHANGED leaseVars
      BY <3>2 DEF leaseVars, WillBeScheduled, Silent
    <3> QED BY <1>2, <3>1, <3>2
  <2>2. /\ leases' = leases /\ subscribed' = subscribed /\ registered' = registered /\ call' = call
    BY <1>2 DEF Consume, leaseVars
  <2>3. \A t \in Sessions, d \in Step : Doing(t, d, q)' <=> Doing(t, d, q)
    BY <2>2 DEF Doing
  <2> QED BY <2>1, <2>2, <2>3, StillServing, StillFree DEF Step, LettingOff
<1> QED BY <1>0, <1>1, <1>2 DEF LeaseNext, Serving

\* A lease is worth what it says whatever calls overlap, except for one race: the first holder of
\* a root registers it while the last one's release is still taking it down.
THEOREM ServedUnlessCrossed == LeaseSpec /\ []NothingCrosses => []LeasedIsServed
<1>1. Serving => LeasedIsServed
  <2> SUFFICES ASSUME Serving, NEW r \in Repos, Settled(r), leases[r] > 0
               PROVE  r \in registered \cap subscribed \cap scheduled
    BY DEF LeasedIsServed
  <2>1. \A s \in Sessions : ~Doing(s, "insert", r) /\ ~Doing(s, "announceAcquired", r)
    BY DEF Settled, Step
  <2>2. WillBeScheduled(r) => r \in scheduled
    BY CommandsDiffer DEF Settled, WillBeScheduled
  <2> QED BY <2>1, <2>2 DEF Serving, OnItsWay
<1> QED BY <1>1, ServingInit, ServingStep, PTL DEF LeaseSpec

\* A session alone, which makes its calls one after the other, never meets it.
LEMMA OneDoesNotCross == (\A s, t \in Sessions : s = t) => NothingCrosses
BY CallsDiffer DEF NothingCrosses, Taking, LettingOff, Doing

\* So to a session that has the watcher to itself, every lease is worth what it says.
THEOREM ServedAlone == (\A s, t \in Sessions : s = t) /\ LeaseSpec => []LeasedIsServed
<1> SUFFICES ASSUME \A s, t \in Sessions : s = t PROVE LeaseSpec => []LeasedIsServed
  OBVIOUS
<1>1. NothingCrosses
  BY OneDoesNotCross
<1> QED BY <1>1, ServedUnlessCrossed, PTL
=============================================================================
