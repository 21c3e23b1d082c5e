------------------------ MODULE ManifestCacheProofs ------------------------
(***************************************************************************)
(* An answer describes the files no earlier than the last change accepted  *)
(* before the call, but for changes whose Dirty mark a session removed: for *)
(* any number of calls at a time, of edits, of failures and of session     *)
(* operations.                                                             *)
(***************************************************************************)
EXTENDS ManifestCacheProps, SequenceTheorems, TLAPS

Commands == [kind: {"event", "acquired", "released", "completed"}, edit: Nat, ok: BOOLEAN,
             stale: BOOLEAN]
Ops == [op: {"bump", "clear", "root", "succeeded", "failed"}, family: Families \cup {""}]
Jobs == [owner: {"none", "worker", "session"},
         phase: {"none", "scan", "commit", "invalidate", "finish"},
         scanned: Nat, stale: BOOLEAN, ok: BOOLEAN]
Answers == [full: BOOLEAN, snapshot: Nat, live: BOOLEAN, content: Nat, current: BOOLEAN]
Guards == {"epoch", "dirty", "lease", "work"}
Places == {"idle", "guards", "bypass", "load", "trusted_load", "lookup", "trusted_lookup",
           "validate", "store", "use", "live", "build", "cached", "load_rows", "check_epoch",
           "recheck_dirty", "recheck_work", "insert", "answer"}
Call == [pc: Places, kind: Kinds, reads: Seq(Guards), trusted: BOOLEAN, fresh: BOOLEAN,
         snapshot: Nat, live: BOOLEAN, seen: Nat, result: Nat]

SchedStates == [known: BOOLEAN, pending: BOOLEAN, running: BOOLEAN, rerun: BOOLEAN,
                blocked: BOOLEAN]

FileTypes == tree \in Nat /\ latest \in Nat /\ accepted \in Nat /\ lifted \in Nat /\ inbox \subseteq Nat
WatchTypes ==
  /\ FileTypes
  /\ commands \in Seq(Commands) /\ lease \in BOOLEAN
  /\ sched \in SchedStates
  /\ job \in Jobs
  /\ todo \in [Threads -> Seq(Ops)]
CallTypes ==
  /\ entry \in [kind: {"none", "dirty", "ready"}, snapshot: Nat]
  /\ stored \in [Families -> Answers]
  /\ query \in [Queries -> Call]

-----------------------------------------------------------------------------
(* The supervisor, the worker and the sessions. *)

\* Changes are reported and accepted in their order, and no later than they are made.
Ordered(cs, first, box, last) ==
  /\ first <= last
  /\ \A v \in box : first <= v /\ v <= last
  /\ \A i \in DOMAIN cs : cs[i].kind = "event" =>
       first <= cs[i].edit /\ cs[i].edit <= last /\ \A v \in box : cs[i].edit <= v
  /\ \A i, j \in DOMAIN cs :
       i < j /\ cs[i].kind = "event" /\ cs[j].kind = "event" => cs[i].edit <= cs[j].edit

InOrder == Ordered(commands, accepted, inbox, tree)

\* A scan is of the files, and none overtakes another.
ScansInOrder ==
  /\ latest <= tree /\ lifted <= accepted
  /\ job.phase = "commit" => latest <= job.scanned /\ job.scanned <= tree

\* An index run has its invalidation to do only at its end.
JobIsPlaced ==
  /\ job.owner = "none" => job.phase = "none"
  /\ job.owner = "session" /\ job.phase # "finish" => todo["session"] = <<>>
  /\ todo["worker"] # <<>> => job.owner = "worker" /\ job.phase = "finish"

\* A bump is followed by its clearing, and what settles the scheduler comes last.
Settling == {"succeeded", "failed"}
WellFormed(ops) ==
  /\ \A i \in DOMAIN ops : ops[i].op = "bump" =>
       i + 1 \in DOMAIN ops /\ ops[i + 1] = Op("clear", ops[i].family)
  /\ \A i \in DOMAIN ops : ops[i].op \in Settling => i = Len(ops)

TodoIsWellFormed ==
  /\ \A t \in Threads : WellFormed(todo[t])
  /\ \A t \in Threads \ {"supervisor"} : \A i \in DOMAIN todo[t] : todo[t][i].op \notin Settling

\* At most one piece of work is of the lease that is held: a worker, its completion, or the
\* supervisor settling it; and the scheduler believes that it runs.
Working == job.owner = "worker" /\ ~job.stale
CompletedAt(i) == i \in DOMAIN commands /\ commands[i].kind = "completed" /\ ~commands[i].stale
SettleIsDue(o) == \E i \in DOMAIN todo["supervisor"] : todo["supervisor"][i].op = o
IsSettling == \E o \in Settling : SettleIsDue(o)

OneInFlight ==
  /\ Working => ~IsSettling /\ \A i : ~CompletedAt(i)
  /\ \A i, j : CompletedAt(i) => ~IsSettling /\ (CompletedAt(j) => i = j)
  /\ Working \/ IsSettling \/ (\E i : CompletedAt(i)) => sched.running
  /\ sched.pending \/ sched.running => sched.known

\* What it has scanned is what is accepted, unless another refresh is asked for.
Covers(v) == accepted <= v \/ sched.rerun

InFlightCovers ==
  /\ Working /\ job.phase = "commit" => Covers(job.scanned)
  /\ Working /\ job.phase \in {"invalidate", "finish"} /\ job.ok => Covers(latest)
  /\ \A i : CompletedAt(i) /\ commands[i].ok => Covers(latest)
  /\ SettleIsDue("succeeded") => Covers(latest)

WatchInv ==
  /\ WatchTypes /\ InOrder /\ ScansInOrder /\ JobIsPlaced /\ TodoIsWellFormed
  /\ OneInFlight /\ InFlightCovers

-----------------------------------------------------------------------------
(* The caches and the calls. *)

\* A version is current for a change, as far as sessions remove no marks.
Current(v, change) == change <= v \/ change <= lifted

\* Without a Dirty mark the latest snapshot is current.
UnmarkedIsCurrent == entry # Dirty => Current(latest, accepted)

\* An answer that is not current any more is in the cache only while its thread clears it.
StaleIsCleared ==
  \A f \in {"corpus", "response"} : stored[f].full /\ ~stored[f].current => Clearing(f)

CorpusIsOfSnapshot == stored["corpus"].full => stored["corpus"].snapshot <= stored["corpus"].content

\* The freshness answers of the current epoch: the one in the cache and those that will be.
ToInsert(c) ==
  c.kind = "response" /\ c.fresh /\ c.pc \in {"recheck_dirty", "recheck_work", "insert"}
FreshResponse(v) ==
  \/ stored["response"].full /\ stored["response"].current /\ stored["response"].content = v
  \/ \E q \in Queries : ToInsert(query[q]) /\ query[q].snapshot = v

\* They are current, but for a change just accepted, which has set the mark and will end the epoch.
BumpIsComing ==
  \E i \in DOMAIN todo["supervisor"] : todo["supervisor"][i] = Op("bump", "response")

FreshIsCurrent ==
  \A v \in Nat : FreshResponse(v) => Current(v, accepted) \/ (BumpIsComing /\ entry = Dirty)

\* A call has found no mark when it read its guards.
FoundUnmarked(c) == c.trusted /\ \A i \in DOMAIN c.reads : c.reads[i] # "dirty"

UsesLatest(c) == c.pc = "trusted_load" \/ (c.pc = "load" /\ UsesCache(c))
UsesSnapshot(c) ==
  c.pc \in {"lookup", "trusted_lookup", "store", "use", "build", "recheck_dirty", "recheck_work"}

IsSound(c) ==
  /\ c.seen <= accepted /\ c.snapshot <= tree
  /\ FoundUnmarked(c) => Current(latest, c.seen)
  /\ FoundUnmarked(c) /\ c.kind = "response" =>
       \A v \in Nat : FreshResponse(v) => Current(v, c.seen)
  /\ UsesLatest(c) => Current(latest, c.seen)
  /\ UsesSnapshot(c) => Current(c.snapshot, c.seen)
  /\ c.pc \in {"insert", "answer"} /\ c.kind # "projection" => Current(c.result, c.seen)

\* Which calls are where.
IsPlaced(c) ==
  /\ c.pc = "guards" => c.reads # <<>>
  /\ c.pc \in {"trusted_load", "lookup", "trusted_lookup", "store", "use", "build"} =>
       c.kind # "response"
  /\ c.pc = "cached" => \/ c.kind = "projection"
                        \/ c.kind = "response" /\ c.trusted /\ c.reads = <<>>
  /\ c.pc \in {"load_rows", "check_epoch"} => c.kind = "projection"
  /\ c.pc = "insert" => /\ c.kind = "corpus" => c.snapshot <= c.result
                        /\ c.kind = "response" => c.result = c.snapshot

CallsAreSound == \A q \in Queries : IsSound(query[q]) /\ IsPlaced(query[q])

CacheInv ==
  /\ WatchInv /\ CallTypes /\ UnmarkedIsCurrent /\ StaleIsCleared /\ CorpusIsOfSnapshot
  /\ FreshIsCurrent /\ CallsAreSound

-----------------------------------------------------------------------------
(* Sequences of commands and of things to do. *)

LEMMA TailEntries ==
  ASSUME NEW S, NEW s \in Seq(S), s # <<>>
  PROVE  /\ Head(s) \in S /\ Tail(s) \in Seq(S)
         /\ 1 \in DOMAIN s /\ s[1] = Head(s)
         /\ Len(s) \in Nat /\ Len(Tail(s)) = Len(s) - 1
         /\ DOMAIN s = 1 .. Len(s)
         /\ \A i \in DOMAIN Tail(s) : i \in Nat /\ i > 0 /\ i + 1 \in DOMAIN s /\ Tail(s)[i] = s[i + 1]
<1>1. /\ Head(s) \in S /\ Tail(s) \in Seq(S) /\ Len(Tail(s)) = Len(s) - 1
      /\ \A i \in 1 .. Len(Tail(s)) : Tail(s)[i] = s[i + 1]
  BY HeadTailProperties
<1>2. Len(s) \in Nat \ {0} /\ DOMAIN s = 1 .. Len(s)
  BY EmptySeq, LenProperties
<1>3. DOMAIN Tail(s) = 1 .. Len(Tail(s))
  BY <1>1, LenProperties
<1>4. s[1] = Head(s)
  BY <1>2
<1> QED BY <1>1, <1>2, <1>3, <1>4

LEMMA AppendEntries ==
  ASSUME NEW S, NEW s \in Seq(S), NEW e \in S
  PROVE  /\ Append(s, e) \in Seq(S)
         /\ Len(s) \in Nat /\ Len(s) + 1 \in DOMAIN Append(s, e)
         /\ DOMAIN s = 1 .. Len(s)
         /\ \A i \in DOMAIN Append(s, e) :
              \/ i \in DOMAIN s /\ Append(s, e)[i] = s[i]
              \/ i = Len(s) + 1 /\ Append(s, e)[i] = e
<1>1. /\ Append(s, e) \in Seq(S) /\ Len(Append(s, e)) = Len(s) + 1
      /\ \A i \in 1 .. Len(s) : Append(s, e)[i] = s[i]
      /\ Append(s, e)[Len(s) + 1] = e
  BY AppendProperties
<1>2. /\ Len(s) \in Nat /\ DOMAIN s = 1 .. Len(s)
      /\ DOMAIN Append(s, e) = 1 .. Len(Append(s, e))
  BY <1>1, LenProperties
<1> QED BY <1>1, <1>2

\* What an invalidation has to do: bumps with their clearing, and nothing that settles.
Plain(ops) ==
  /\ ops \in Seq(Ops) /\ WellFormed(ops)
  /\ \A i \in DOMAIN ops : ops[i].op \notin Settling

LEMMA OpIsTyped ==
  ASSUME NEW o \in {"bump", "clear", "root", "succeeded", "failed"}, NEW f \in Families \cup {""}
  PROVE  Op(o, f) \in Ops /\ Op(o, f).op = o /\ Op(o, f).family = f
BY DEF Op, Ops

LEMMA SingleIsWellFormed ==
  ASSUME NEW x \in Ops, x.op # "bump"
  PROVE  /\ <<x>> \in Seq(Ops) /\ WellFormed(<<x>>)
         /\ DOMAIN <<x>> = {1} /\ <<x>>[1] = x
<1>1. <<x>> \in Seq(Ops) /\ DOMAIN <<x>> = {1} /\ <<x>>[1] = x /\ Len(<<x>>) = 1
  OBVIOUS
<1>2. \A i \in DOMAIN <<x>> : i = 1 /\ <<x>>[i].op # "bump"
  BY <1>1
<1> QED BY <1>1, <1>2 DEF WellFormed

LEMMA InvalidateIsPlain ==
  ASSUME NEW f \in Families
  PROVE  /\ Plain(Invalidate(f))
         /\ \E i \in DOMAIN Invalidate(f) : Invalidate(f)[i] = Op("bump", f)
<1>1. Op("bump", f) \in Ops /\ Op("clear", f) \in Ops
  BY OpIsTyped
<1>2. /\ Invalidate(f) \in Seq(Ops) /\ DOMAIN Invalidate(f) = 1 .. 2
      /\ Invalidate(f)[1] = Op("bump", f) /\ Invalidate(f)[2] = Op("clear", f) /\ Len(Invalidate(f)) = 2
  BY <1>1 DEF Invalidate
<1>3. Op("bump", f).op = "bump" /\ Op("bump", f).family = f /\ Op("clear", f).op = "clear"
  BY OpIsTyped
<1> QED BY <1>2, <1>3 DEF Plain, WellFormed, Settling

IsConcat(w, s, u) == w = s \o u

LEMMA ConcatEntries ==
  ASSUME NEW s, NEW u, NEW w, IsConcat(w, s, u), Plain(s), u \in Seq(Ops), WellFormed(u)
  PROVE  /\ w \in Seq(Ops) /\ WellFormed(w)
         /\ Plain(u) => Plain(w)
         /\ \A i \in DOMAIN s : i \in DOMAIN w /\ w[i] = s[i]
         /\ \A i \in DOMAIN w : w[i].op \in Settling => \E j : j \in DOMAIN u /\ w[i] = u[j]
<1>1. /\ w \in Seq(Ops) /\ Len(w) = Len(s) + Len(u)
      /\ \A i \in 1 .. Len(s) + Len(u) : w[i] = IF i <= Len(s) THEN s[i] ELSE u[i - Len(s)]
  BY ConcatProperties DEF Plain, IsConcat
<1>2. /\ Len(s) \in Nat /\ DOMAIN s = 1 .. Len(s) /\ Len(u) \in Nat /\ DOMAIN u = 1 .. Len(u)
      /\ DOMAIN w = 1 .. Len(s) + Len(u)
  BY <1>1, LenProperties DEF Plain
<1>3. \A i \in DOMAIN w : \/ i \in DOMAIN s /\ w[i] = s[i]
                          \/ i - Len(s) \in DOMAIN u /\ w[i] = u[i - Len(s)]
  BY <1>1, <1>2
<1>4. \A i \in DOMAIN s : i \in DOMAIN w /\ w[i] = s[i]
  BY <1>1, <1>2
<1>5. \A i \in DOMAIN u : i + Len(s) \in DOMAIN w /\ w[i + Len(s)] = u[i]
  BY <1>1, <1>2
<1>6. ASSUME NEW i \in DOMAIN w, w[i].op = "bump"
      PROVE  i + 1 \in DOMAIN w /\ w[i + 1] = Op("clear", w[i].family)
  <2>1. CASE i \in DOMAIN s /\ w[i] = s[i]
    BY <1>4, <1>6, <2>1 DEF Plain, WellFormed
  <2>2. CASE i - Len(s) \in DOMAIN u /\ w[i] = u[i - Len(s)]
    <3>1. i - Len(s) + 1 \in DOMAIN u /\ u[i - Len(s) + 1] = Op("clear", w[i].family)
      BY <1>6, <2>2 DEF WellFormed
    <3>2. i \in Int /\ i - Len(s) + 1 + Len(s) = i + 1
      BY <1>2
    <3> QED BY <1>5, <3>1, <3>2
  <2> QED BY <1>3, <2>1, <2>2
<1>7. ASSUME NEW i \in DOMAIN w, w[i].op \in Settling
      PROVE  i = Len(w) /\ i - Len(s) \in DOMAIN u /\ w[i] = u[i - Len(s)]
  <2>1. i - Len(s) \in DOMAIN u /\ w[i] = u[i - Len(s)]
    BY <1>3, <1>7 DEF Plain
  <2>2. i - Len(s) = Len(u)
    BY <1>7, <2>1 DEF WellFormed
  <2> QED BY <1>1, <1>2, <2>1, <2>2
<1>8. WellFormed(w)
  BY <1>6, <1>7 DEF WellFormed
<1>9. Plain(u) => Plain(w)
  BY <1>1, <1>7, <1>8 DEF Plain
<1>10. \A i \in DOMAIN w : w[i].op \in Settling => \E j : j \in DOMAIN u /\ w[i] = u[j]
  BY <1>7
<1> QED BY <1>1, <1>4, <1>8, <1>9, <1>10

LEMMA ConcatKeepsSecond ==
  ASSUME NEW s, NEW u, NEW w, IsConcat(w, s, u), s \in Seq(Ops), u \in Seq(Ops), NEW i \in DOMAIN u
  PROVE  \E j : j \in DOMAIN w /\ w[j] = u[i]
<1>1. /\ w \in Seq(Ops) /\ Len(w) = Len(s) + Len(u)
      /\ \A k \in 1 .. Len(s) + Len(u) : w[k] = IF k <= Len(s) THEN s[k] ELSE u[k - Len(s)]
  BY ConcatProperties DEF IsConcat
<1>2. /\ Len(s) \in Nat /\ Len(u) \in Nat /\ DOMAIN u = 1 .. Len(u)
      /\ DOMAIN w = 1 .. Len(s) + Len(u)
  BY <1>1, LenProperties
<1>3. i + Len(s) \in DOMAIN w /\ w[i + Len(s)] = u[i]
  BY <1>1, <1>2
<1> QED BY <1>3

LEMMA ConcatIsPlain ==
  ASSUME NEW s, NEW u, Plain(s), Plain(u)
  PROVE  Plain(s \o u)
<1>1. u \in Seq(Ops) /\ WellFormed(u)
  BY DEF Plain
<1>2. IsConcat(s \o u, s, u)
  BY DEF IsConcat
<1> QED BY <1>1, <1>2, ConcatEntries

LEMMA InvalidationsArePlain ==
  /\ Plain(Callback) /\ Plain(IndexInvalidation) /\ Plain(DetachInvalidation)
  /\ \E i \in DOMAIN Callback : Callback[i] = Op("bump", "response")
<1>1. Plain(Invalidate("corpus")) /\ Plain(Invalidate("response")) /\ Plain(Invalidate("projection"))
  BY InvalidateIsPlain DEF Families
<1>2. Plain(<<Op("root", "")>>)
  <2>1. Op("root", "") \in Ops /\ Op("root", "").op = "root"
    BY OpIsTyped
  <2> QED BY <2>1, SingleIsWellFormed DEF Plain, Settling
<1>3. Plain(Invalidate("corpus") \o Invalidate("response"))
  BY <1>1, ConcatIsPlain
<1>4. Plain(Callback)
  BY <1>1, <1>3, ConcatIsPlain DEF Callback
<1>5. Plain(<<Op("root", "")>> \o Invalidate("projection"))
  BY <1>1, <1>2, ConcatIsPlain
<1>6. Plain(<<Op("root", "")>> \o Invalidate("projection") \o Invalidate("corpus"))
  BY <1>1, <1>5, ConcatIsPlain
<1>7. Plain(IndexInvalidation)
  BY <1>1, <1>6, ConcatIsPlain DEF IndexInvalidation
<1>8. \E i \in DOMAIN Callback : Callback[i] = Op("bump", "response")
  <2>1. PICK i \in DOMAIN Invalidate("response") : Invalidate("response")[i] = Op("bump", "response")
    BY InvalidateIsPlain DEF Families
  <2>2. PICK w : w = Invalidate("corpus") \o Invalidate("response")
    OBVIOUS
  <2>3. /\ IsConcat(w, Invalidate("corpus"), Invalidate("response"))
        /\ IsConcat(Callback, w, Invalidate("projection"))
    BY <2>2 DEF IsConcat, Callback
  <2>4. /\ Invalidate("response") \in Seq(Ops) /\ WellFormed(Invalidate("response"))
        /\ Invalidate("projection") \in Seq(Ops) /\ WellFormed(Invalidate("projection"))
    BY <1>1 DEF Plain
  <2>5. PICK j : j \in DOMAIN w /\ w[j] = Op("bump", "response")
    BY <1>1, <2>1, <2>3, <2>4, ConcatKeepsSecond DEF Plain
  <2>6. Plain(w)
    BY <1>3, <2>2
  <2>7. j \in DOMAIN Callback /\ Callback[j] = w[j]
    BY <2>3, <2>4, <2>5, <2>6, ConcatEntries
  <2> QED BY <2>5, <2>7
<1> QED BY <1>3, <1>4, <1>7, <1>8 DEF DetachInvalidation

\* What the supervisor does after the callback, when a refresh of its lease has ended.
Settle(o) == <<Op(o, "")>>

LEMMA SettlingIsLast ==
  ASSUME NEW o \in Settling, NEW w, IsConcat(w, Callback, Settle(o))
  PROVE  /\ w \in Seq(Ops) /\ WellFormed(w)
         /\ \A i \in DOMAIN w : w[i].op \in Settling => w[i].op = o
<1>1. o \in {"succeeded", "failed"}
  BY DEF Settling
<1>2. Op(o, "") \in Ops /\ Op(o, "").op = o /\ o # "bump"
  BY <1>1 DEF Op, Ops
<1>3. Settle(o) \in Seq(Ops) /\ WellFormed(Settle(o))
  BY <1>2, SingleIsWellFormed DEF Settle
<1>4. DOMAIN Settle(o) = {1} /\ Settle(o)[1].op = o
  BY <1>2, SingleIsWellFormed DEF Settle
<1>5. Plain(Callback)
  BY InvalidationsArePlain
<1>6. /\ w \in Seq(Ops) /\ WellFormed(w)
      /\ \A i \in DOMAIN w : w[i].op \in Settling => \E j : j \in DOMAIN Settle(o) /\ w[i] = Settle(o)[j]
  BY <1>3, <1>5, ConcatEntries
<1> QED BY <1>4, <1>6

LEMMA TailIsWellFormed ==
  ASSUME NEW s \in Seq(Ops), s # <<>>, WellFormed(s)
  PROVE  /\ Tail(s) \in Seq(Ops) /\ WellFormed(Tail(s))
         /\ \A i \in DOMAIN Tail(s) : \E j \in DOMAIN s : Tail(s)[i] = s[j]
         /\ Head(s).op = "bump" => Tail(s) # <<>> /\ Head(Tail(s)) = Op("clear", Head(s).family)
         /\ Head(s).op \in Settling => Tail(s) = <<>> /\ DOMAIN s = {1}
         /\ \A j \in DOMAIN s : s[j] = Head(s) \/ \E i \in DOMAIN Tail(s) : Tail(s)[i] = s[j]
<1> DEFINE u == Tail(s)
<1>1. /\ Head(s) \in Ops /\ u \in Seq(Ops) /\ 1 \in DOMAIN s /\ s[1] = Head(s)
      /\ Len(s) \in Nat /\ Len(u) = Len(s) - 1 /\ DOMAIN s = 1 .. Len(s)
      /\ \A i \in DOMAIN u : i \in Nat /\ i > 0 /\ i + 1 \in DOMAIN s /\ u[i] = s[i + 1]
  BY TailEntries
<1>2. DOMAIN u = 1 .. Len(u) /\ (u = <<>> <=> Len(u) = 0)
  BY <1>1, LenProperties, EmptySeq
<1>3. ASSUME NEW i \in DOMAIN u, u[i].op = "bump"
      PROVE  i + 1 \in DOMAIN u /\ u[i + 1] = Op("clear", u[i].family)
  <2>1. i + 1 + 1 \in DOMAIN s /\ s[i + 1 + 1] = Op("clear", u[i].family)
    BY <1>1, <1>3 DEF WellFormed
  <2>2. i + 1 \in DOMAIN u
    BY <1>1, <1>2, <2>1
  <2> QED BY <1>1, <2>1, <2>2
<1>4. ASSUME NEW i \in DOMAIN u, u[i].op \in Settling PROVE i = Len(u)
  BY <1>1, <1>4 DEF WellFormed
<1>5. WellFormed(u)
  BY <1>3, <1>4 DEF WellFormed
<1>6. ASSUME Head(s).op = "bump" PROVE u # <<>> /\ Head(u) = Op("clear", Head(s).family)
  <2>1. 2 \in DOMAIN s /\ s[2] = Op("clear", Head(s).family)
    BY <1>1, <1>6 DEF WellFormed
  <2>2. 1 \in DOMAIN u /\ u # <<>>
    BY <1>1, <1>2, <2>1
  <2>3. Head(u) = u[1]
    BY <1>1, <2>2, TailEntries
  <2> QED BY <1>1, <2>1, <2>2, <2>3
<1>7. ASSUME Head(s).op \in Settling PROVE u = <<>> /\ DOMAIN s = {1}
  <2>1. Len(s) = 1
    BY <1>1, <1>7 DEF WellFormed
  <2> QED BY <1>1, <1>2, <2>1
<1>8. ASSUME NEW j \in DOMAIN s PROVE s[j] = Head(s) \/ \E i \in DOMAIN u : u[i] = s[j]
  <2>1. CASE j = 1
    BY <1>1, <2>1
  <2>2. CASE j # 1
    <3>1. j - 1 \in DOMAIN u /\ j - 1 + 1 = j
      BY <1>1, <1>2, <2>2
    <3> QED BY <1>1, <3>1
  <2> QED BY <2>1, <2>2
<1> QED BY <1>1, <1>5, <1>6, <1>7, <1>8

-----------------------------------------------------------------------------
(* The types of the files, the supervisor and the threads. *)

serverVars == <<filesVars, watchVars, job, todo, boundVars>>
CallsNext == (\E q \in Queries : Step(q)) \/ (\E c \in Calls : Begin(c[1], c[2]))

\* A call changes nothing but itself, the manifest entry and the answers.
LEMMA CallsFrame == CallsNext => UNCHANGED serverVars
<1>1. ASSUME NEW q \in Queries, Step(q) PROVE UNCHANGED serverVars
  BY <1>1 DEF Step, ReadGuard, Bypass, LoadLatest, lookup, Validate, store_validated_shared, WalkLive,
     Use, BuildCorpus, Cached, LoadRows, Recheck, CheckEpoch, Insert, Answer, Go, serverVars
<1>2. ASSUME NEW c \in Calls, Begin(c[1], c[2]) PROVE UNCHANGED serverVars
  BY <1>2 DEF Begin, Go, serverVars
<1> QED BY <1>1, <1>2 DEF CallsNext

LEMMA CommandTyped ==
  ASSUME NEW k \in {"event", "acquired", "released", "completed"}, NEW v \in Nat,
         NEW ok \in BOOLEAN, NEW stale \in BOOLEAN
  PROVE  /\ Command(k, v, ok, stale) \in Commands
         /\ Command(k, v, ok, stale).kind = k /\ Command(k, v, ok, stale).edit = v
         /\ Command(k, v, ok, stale).ok = ok /\ Command(k, v, ok, stale).stale = stale
BY DEF Command, Commands

\* The command the supervisor takes.
LEMMA HeadCommand ==
  ASSUME WatchTypes, commands # <<>>
  PROVE  /\ 1 \in DOMAIN commands /\ commands[1] = Head(commands)
         /\ Head(commands) \in Commands
         /\ Tail(commands) \in Seq(Commands)
         /\ \A i \in DOMAIN Tail(commands) :
              i \in Nat /\ i > 0 /\ i + 1 \in DOMAIN commands /\ Tail(commands)[i] = commands[i + 1]
BY TailEntries DEF WatchTypes

\* What the release of a lease leaves of the channel.
LEMMA ReleasedCommands ==
  ASSUME WatchTypes, LeaseReleased
  PROVE  /\ commands' \in Seq(Commands)
         /\ \A i \in DOMAIN commands' :
              /\ i \in Nat /\ i > 0 /\ i + 1 \in DOMAIN commands
              /\ commands'[i].kind = commands[i + 1].kind /\ commands'[i].edit = commands[i + 1].edit
              /\ commands'[i].kind = "completed" => commands'[i].stale
<1> DEFINE n == Len(commands) - 1
           E(i) == [commands[i + 1] EXCEPT !.stale = commands[i + 1].stale \/ commands[i + 1].kind = "completed"]
<1>1. /\ Len(commands) \in Nat \ {0} /\ DOMAIN commands = 1 .. Len(commands)
      /\ \A i \in DOMAIN commands : commands[i] \in Commands
  BY EmptySeq, LenProperties, ElementOfSeq DEF WatchTypes, LeaseReleased
<1>2. n \in Nat /\ \A i \in 1 .. n : i \in Nat /\ i > 0 /\ i + 1 \in DOMAIN commands
  BY <1>1
<1>3. commands' = [i \in 1 .. n |-> E(i)]
  BY DEF LeaseReleased
<1>4. ASSUME NEW i \in 1 .. n
      PROVE  /\ E(i) \in Commands
             /\ E(i).kind = commands[i + 1].kind /\ E(i).edit = commands[i + 1].edit
             /\ E(i).kind = "completed" => E(i).stale
  BY <1>1, <1>2 DEF Commands
<1> HIDE DEF E, n
<1>5. commands' \in [1 .. n -> Commands]
  BY <1>3, <1>4
<1>6. commands' \in Seq(Commands)
  BY <1>2, <1>5, SeqDef
<1> QED BY <1>2, <1>3, <1>4, <1>6

\* What the supervisor has to do after the completion of a refresh.
LEMMA CompletionHandled ==
  ASSUME WatchTypes, IndexCompleted
  PROVE  \E ops \in Seq(Ops) :
           /\ todo' = [todo EXCEPT !["supervisor"] = ops]
           /\ WellFormed(ops)
           /\ \A i \in DOMAIN ops : ops[i].op \in Settling =>
                /\ CompletedAt(1) /\ lease
                /\ ops[i].op = IF commands[1].ok THEN "succeeded" ELSE "failed"
<1> DEFINE c == Head(commands)
           o == IF c.ok THEN "succeeded" ELSE "failed"
<1>1. c = commands[1] /\ 1 \in DOMAIN commands /\ c.kind = "completed"
  BY HeadCommand DEF IndexCompleted, Receive
<1>2. CASE c.stale
  <2>1. todo' = [todo EXCEPT !["supervisor"] = Callback]
    BY <1>2 DEF IndexCompleted
  <2> QED BY <2>1, InvalidationsArePlain DEF Plain
<1>3. CASE ~c.stale /\ lease
  <2>1. PICK w : w = Callback \o Settle(o)
    OBVIOUS
  <2>2. todo' = [todo EXCEPT !["supervisor"] = w] /\ IsConcat(w, Callback, Settle(o))
    BY <1>3, <2>1 DEF IndexCompleted, Settle, IsConcat
  <2>3. CompletedAt(1)
    BY <1>1, <1>3 DEF CompletedAt
  <2>4. o \in Settling
    BY DEF Settling
  <2>5. /\ w \in Seq(Ops) /\ WellFormed(w)
        /\ \A i \in DOMAIN w : w[i].op \in Settling => w[i].op = o
    BY <2>2, <2>4, SettlingIsLast
  <2> QED BY <1>1, <1>3, <2>2, <2>3, <2>5
<1>4. CASE ~c.stale /\ ~lease
  <2>1. todo' = [todo EXCEPT !["supervisor"] = <<>>]
    BY <1>4 DEF IndexCompleted
  <2>2. <<>> \in Seq(Ops) /\ WellFormed(<<>>) /\ \A i \in DOMAIN <<>> : FALSE
    BY DEF WellFormed
  <2> QED BY <2>1, <2>2
<1> QED BY <1>2, <1>3, <1>4

LEMMA WatchTypesInit == Init => WatchTypes
<1> SUFFICES ASSUME Init PROVE WatchTypes
  OBVIOUS
<1>1. commands \in Seq(Commands)
  <2>1. Command("acquired", 0, TRUE, FALSE) \in Commands
    BY CommandTyped
  <2>2. \A m \in Commands : <<m>> \in Seq(Commands)
    OBVIOUS
  <2> QED BY <2>1, <2>2 DEF Init
<1>2. todo \in [Threads -> Seq(Ops)]
  BY DEF Init
<1>3. job \in Jobs /\ sched \in SchedStates
  BY DEF Init, NoJob, Jobs, Unknown, SchedStates
<1>4. FileTypes /\ lease \in BOOLEAN
  BY BoundsAssumption DEF Init, FileTypes
<1> QED BY <1>1, <1>2, <1>3, <1>4 DEF WatchTypes

\* Every step is one of these.
ThreadStep(t) == BumpEpoch(t) \/ ClearFamily(t)

LEMMA TodoTyped ==
  ASSUME WatchInv, NEW t \in Threads
  PROVE  /\ todo[t] \in Seq(Ops) /\ WellFormed(todo[t])
         /\ todo[t] # <<>> => Tail(todo[t]) \in Seq(Ops)
BY HeadTailProperties DEF WatchInv, WatchTypes, TodoIsWellFormed

LEMMA WatchTypesStep ==
  ASSUME WatchInv, [Next]_vars
  PROVE  WatchTypes'
<1>t. /\ WatchTypes
      /\ tree \in Nat /\ latest \in Nat /\ accepted \in Nat /\ lifted \in Nat /\ inbox \subseteq Nat
      /\ commands \in Seq(Commands) /\ lease \in BOOLEAN
      /\ sched \in SchedStates
      /\ job \in Jobs /\ todo \in [Threads -> Seq(Ops)]
  BY DEF WatchInv, WatchTypes, FileTypes
<1>c. \A m \in Commands : Append(commands, m) \in Seq(Commands)
  BY <1>t, AppendProperties
<1>h. /\ commands # <<>> => Tail(commands) \in Seq(Commands) /\ Head(commands) \in Commands
      /\ \A m \in Commands : m.edit \in Nat /\ m.ok \in BOOLEAN /\ m.stale \in BOOLEAN
  BY <1>t, HeadTailProperties DEF Commands
<1>i. /\ Callback \in Seq(Ops) /\ IndexInvalidation \in Seq(Ops)
      /\ DetachInvalidation \in Seq(Ops) /\ <<>> \in Seq(Ops)
  BY InvalidationsArePlain DEF Plain
<1>o. \A t \in Threads : todo[t] # <<>> => Tail(todo[t]) \in Seq(Ops)
  BY <1>t, HeadTailProperties
<1>e. \A t \in Threads : \A ops \in Seq(Ops) : [todo EXCEPT ![t] = ops] \in [Threads -> Seq(Ops)]
  BY <1>t
<1>s. "supervisor" \in Threads /\ "worker" \in Threads /\ "session" \in Threads
  BY DEF Threads
<1> USE DEF FileTypes, filesVars, watchVars, boundVars
<1>1. CASE CallsNext
  BY <1>1, <1>t, CallsFrame DEF WatchTypes, serverVars
<1>2. ASSUME NEW t \in Threads, ThreadStep(t) PROVE WatchTypes'
  BY <1>2, <1>t, <1>o, <1>e DEF ThreadStep, BumpEpoch, ClearFamily, WatchTypes
<1>3. CASE Edit
  BY <1>3, <1>t DEF Edit, WatchTypes
<1>4. CASE Notify
  <2>1. \A v \in Nat : EventOf(v) \in Commands
    BY CommandTyped DEF EventOf
  <2> QED BY <1>4, <1>t, <1>c, <2>1 DEF Notify, WatchTypes
<1>5. CASE invalidate_root
  <2>1. todo' \in [Threads -> Seq(Ops)]
    BY <1>5, <1>o, <1>e, <1>s DEF invalidate_root
  <2> QED BY <1>5, <1>t, <2>1 DEF invalidate_root, WatchTypes
<1>6. CASE handle_notify_event
  <2>1. todo' \in [Threads -> Seq(Ops)]
    BY <1>6, <1>t, <1>i, <1>e, <1>s DEF handle_notify_event
  <2>2. sched' \in SchedStates
    BY <1>6, <1>t DEF handle_notify_event, SchedStates
  <2>3. accepted' \in Nat /\ commands' \in Seq(Commands)
    BY <1>6, <1>t, <1>h DEF handle_notify_event, Receive
  <2> QED BY <1>6, <1>t, <2>1, <2>2, <2>3 DEF handle_notify_event, WatchTypes
<1>7. CASE LeaseAcquired
  BY <1>7, <1>t, <1>h DEF LeaseAcquired, Receive, WatchTypes, SchedStates
<1>8. CASE LeaseReleased
  <2>1. job' \in Jobs
    BY <1>8, <1>t DEF LeaseReleased, Jobs
  <2>2. sched' \in SchedStates
    BY <1>8 DEF LeaseReleased, Unknown, SchedStates
  <2> QED BY <1>8, <1>t, <2>1, <2>2, ReleasedCommands DEF LeaseReleased, WatchTypes
<1>9. CASE dispatch
  <2>1. job' \in Jobs
    BY <1>9, <1>t DEF dispatch, NoJob, Jobs
  <2> QED BY <1>9, <1>t, <2>1 DEF dispatch, WatchTypes, SchedStates
<1>10. CASE IndexCompleted
  <2>1. todo' \in [Threads -> Seq(Ops)]
    BY <1>10, <1>t, <1>e, <1>s, CompletionHandled
  <2>2. commands' \in Seq(Commands)
    BY <1>10, <1>h DEF IndexCompleted, Receive
  <2> QED BY <1>10, <1>t, <2>1, <2>2 DEF IndexCompleted, WatchTypes
<1>11. CASE settle_success \/ settle_failure
  <2>1. todo' \in [Threads -> Seq(Ops)]
    BY <1>11, <1>o, <1>e, <1>s DEF settle_success, settle_failure
  <2>2. sched' \in SchedStates
    BY <1>11, <1>t DEF settle_success, settle_failure, Failed, Blocked, SchedStates
  <2> QED BY <1>11, <1>t, <2>1, <2>2 DEF settle_success, settle_failure, WatchTypes
<1>12. CASE Scan \/ Commit \/ Fail
  <2>1. job' \in Jobs /\ latest' \in Nat
    BY <1>12, <1>t DEF Scan, Commit, Fail, Jobs
  <2> QED BY <1>12, <1>t, <2>1 DEF Scan, Commit, Fail, WatchTypes
<1>13. CASE StartInvalidation
  <2>1. todo' \in [Threads -> Seq(Ops)]
    BY <1>13, <1>i, <1>e, <1>s DEF StartInvalidation
  <2>2. job' \in Jobs
    BY <1>13, <1>t DEF StartInvalidation, Jobs
  <2> QED BY <1>13, <1>t, <2>1, <2>2 DEF StartInvalidation, WatchTypes
<1>14. CASE Finish
  <2>1. Command("completed", 0, job.ok, job.stale) \in Commands
    BY <1>t, CommandTyped DEF Jobs
  <2>2. commands' \in Seq(Commands)
    BY <1>14, <1>t, <1>c, <2>1 DEF Finish
  <2>3. job' \in Jobs
    BY <1>14 DEF Finish, NoJob, Jobs
  <2> QED BY <1>14, <1>t, <2>2, <2>3 DEF Finish, WatchTypes
<1>15. CASE workspace_attach \/ workspace_detach
  <2>1. todo' \in [Threads -> Seq(Ops)]
    BY <1>15, <1>i, <1>e, <1>s DEF workspace_attach, workspace_detach
  <2>2. Command("acquired", 0, TRUE, FALSE) \in Commands /\ Command("released", 0, TRUE, FALSE) \in Commands
    BY CommandTyped
  <2>3. commands' \in Seq(Commands)
    BY <1>15, <1>t, <1>c, <2>2 DEF workspace_attach, workspace_detach
  <2> QED BY <1>15, <1>t, <2>1, <2>3 DEF workspace_attach, workspace_detach, WatchTypes
<1>16. CASE workspace_index
  <2>1. job' \in Jobs
    BY <1>16 DEF workspace_index, NoJob, Jobs
  <2> QED BY <1>16, <1>t, <2>1 DEF workspace_index, WatchTypes
<1>17. CASE UNCHANGED vars
  BY <1>17, <1>t DEF vars, WatchTypes
<1> QED BY <1>1, <1>2, <1>3, <1>4, <1>5, <1>6, <1>7, <1>8, <1>9, <1>10, <1>11, <1>12, <1>13, <1>14,
           <1>15, <1>16, <1>17 DEF Next, CallsNext, ThreadStep, Invalidating, Supervising, Running

-----------------------------------------------------------------------------
(* What the threads have to do. *)

\* A thread is given something to do.
LEMMA GivenIsWellFormed ==
  ASSUME WatchInv, NEW t \in Threads, NEW ops \in Seq(Ops), WellFormed(ops),
         t = "supervisor" \/ \A i \in DOMAIN ops : ops[i].op \notin Settling,
         todo' = [todo EXCEPT ![t] = ops]
  PROVE  TodoIsWellFormed'
<1>1. todo'[t] = ops /\ \A u \in Threads \ {t} : todo'[u] = todo[u]
  BY DEF WatchInv, WatchTypes
<1> QED BY <1>1 DEF WatchInv, TodoIsWellFormed

\* A thread does the first thing it has to do.
LEMMA DoneIsWellFormed ==
  ASSUME WatchInv, NEW t \in Threads, todo[t] # <<>>, todo' = [todo EXCEPT ![t] = Tail(@)]
  PROVE  /\ TodoIsWellFormed'
         /\ \A o \in Settling : SettleIsDue(o)' => SettleIsDue(o)
<1>1. todo'[t] = Tail(todo[t]) /\ \A u \in Threads \ {t} : todo'[u] = todo[u]
  BY DEF WatchInv, WatchTypes
<1>2. /\ WellFormed(Tail(todo[t]))
      /\ \A i \in DOMAIN Tail(todo[t]) : \E j \in DOMAIN todo[t] : Tail(todo[t])[i] = todo[t][j]
  BY TodoTyped, TailIsWellFormed
<1>3. TodoIsWellFormed'
  BY <1>1, <1>2 DEF WatchInv, TodoIsWellFormed
<1>4. ASSUME NEW o \in Settling, SettleIsDue(o)' PROVE SettleIsDue(o)
  <2>1. CASE t = "supervisor"
    BY <1>1, <1>2, <1>4, <2>1 DEF SettleIsDue
  <2>2. CASE t # "supervisor"
    BY <1>1, <1>4, <2>2 DEF SettleIsDue, Threads
  <2> QED BY <2>1, <2>2
<1> QED BY <1>3, <1>4

LEMMA OthersSettle ==
  ASSUME WatchInv, NEW t \in Threads, NEW ops,
         todo' = [todo EXCEPT ![t] = ops],
         t # "supervisor" \/ \A i \in DOMAIN ops : ops[i].op \notin Settling
  PROVE  \A o \in Settling : SettleIsDue(o)' => SettleIsDue(o)
<1>1. todo'[t] = ops /\ \A u \in Threads \ {t} : todo'[u] = todo[u] /\ "supervisor" \in Threads
  BY DEF WatchInv, WatchTypes, Threads
<1>2. CASE t = "supervisor"
  BY <1>1, <1>2 DEF SettleIsDue
<1>3. CASE t # "supervisor"
  <2>1. todo'["supervisor"] = todo["supervisor"]
    BY <1>1, <1>3 DEF Threads
  <2> QED BY <2>1 DEF SettleIsDue
<1> QED BY <1>2, <1>3

LEMMA TodoStep ==
  ASSUME WatchInv, [Next]_vars
  PROVE  /\ TodoIsWellFormed'
         /\ IndexCompleted \/ \A o \in Settling : SettleIsDue(o)' => SettleIsDue(o)
<1>s. "supervisor" \in Threads /\ "worker" \in Threads /\ "session" \in Threads
  BY DEF Threads
<1>p. /\ Plain(Callback) /\ Plain(IndexInvalidation) /\ Plain(DetachInvalidation)
      /\ Plain(<<>>)
  <2>1. Plain(<<>>)
    BY DEF Plain, WellFormed
  <2> QED BY <2>1, InvalidationsArePlain
<1>1. ASSUME NEW t \in Threads, NEW ops, Plain(ops), todo' = [todo EXCEPT ![t] = ops]
      PROVE  TodoIsWellFormed' /\ \A o \in Settling : SettleIsDue(o)' => SettleIsDue(o)
  <2>1. ops \in Seq(Ops) /\ WellFormed(ops) /\ \A i \in DOMAIN ops : ops[i].op \notin Settling
    BY <1>1 DEF Plain
  <2>2. TodoIsWellFormed'
    BY <1>1, <2>1, GivenIsWellFormed
  <2>3. \A o \in Settling : SettleIsDue(o)' => SettleIsDue(o)
    BY <1>1, <2>1, OthersSettle
  <2> QED BY <2>2, <2>3
<1>2. CASE todo' = todo
  BY <1>2 DEF WatchInv, TodoIsWellFormed, SettleIsDue
<1>3. ASSUME NEW t \in Threads, todo[t] # <<>>, todo' = [todo EXCEPT ![t] = Tail(@)]
      PROVE  TodoIsWellFormed' /\ \A o \in Settling : SettleIsDue(o)' => SettleIsDue(o)
  BY <1>3, DoneIsWellFormed
<1>4. ASSUME NEW t \in Threads, ThreadStep(t)
      PROVE  TodoIsWellFormed' /\ \A o \in Settling : SettleIsDue(o)' => SettleIsDue(o)
  BY <1>3, <1>4 DEF ThreadStep, BumpEpoch, ClearFamily
<1>5. CASE invalidate_root \/ settle_success \/ settle_failure
  BY <1>3, <1>5, <1>s DEF invalidate_root, settle_success, settle_failure
<1>6. CASE handle_notify_event
  BY <1>1, <1>2, <1>6, <1>s, <1>p DEF handle_notify_event
<1>7. CASE IndexCompleted
  BY <1>7, <1>s, CompletionHandled, GivenIsWellFormed DEF WatchInv
<1>8. CASE StartInvalidation
  BY <1>1, <1>8, <1>s, <1>p DEF StartInvalidation
<1>9. CASE workspace_attach \/ workspace_detach
  BY <1>1, <1>9, <1>s, <1>p DEF workspace_attach, workspace_detach
<1>10. CASE CallsNext
  BY <1>2, <1>10, CallsFrame DEF serverVars
<1>11. CASE Edit \/ Notify \/ LeaseAcquired \/ LeaseReleased \/ dispatch \/ Scan \/ Commit \/ Fail
            \/ Finish \/ workspace_index \/ UNCHANGED vars
  BY <1>2, <1>11 DEF Edit, Notify, LeaseAcquired, LeaseReleased, dispatch, Scan, Commit, Fail, Finish,
     workspace_index, vars
<1> QED BY <1>4, <1>5, <1>6, <1>7, <1>8, <1>9, <1>10, <1>11
        DEF Next, CallsNext, ThreadStep, Invalidating, Supervising, Running

LEMMA JobIsPlacedStep ==
  ASSUME WatchInv, [Next]_vars
  PROVE  JobIsPlaced'
<1>t. /\ todo \in [Threads -> Seq(Ops)] /\ job \in Jobs /\ JobIsPlaced
  BY DEF WatchInv, WatchTypes
<1>s. Threads = {"supervisor", "worker", "session"}
  BY DEF Threads
<1> USE DEF JobIsPlaced
<1>1. CASE UNCHANGED <<job, todo>>
  BY <1>1, <1>t
<1>2. ASSUME NEW t \in Threads, todo[t] # <<>>, job' = job, todo' = [todo EXCEPT ![t] = Tail(@)]
      PROVE  JobIsPlaced'
  BY <1>2, <1>t, <1>s
<1>3. ASSUME NEW t \in Threads, ThreadStep(t) PROVE JobIsPlaced'
  BY <1>2, <1>3 DEF ThreadStep, BumpEpoch, ClearFamily
<1>4. CASE invalidate_root \/ settle_success \/ settle_failure
  BY <1>2, <1>4, <1>s DEF invalidate_root, settle_success, settle_failure
<1>5. CASE handle_notify_event
  BY <1>5, <1>t, <1>s DEF handle_notify_event
<1>6. CASE IndexCompleted
  BY <1>6, <1>t, <1>s DEF IndexCompleted
<1>7. CASE LeaseReleased \/ Scan \/ Commit \/ Fail
  <2>1. /\ job'.owner = job.owner /\ todo' = todo
        /\ job'.phase = job.phase \/ (job.phase \in {"scan", "commit"} /\ job'.phase # "finish")
    BY <1>7, <1>t DEF LeaseReleased, Scan, Commit, Fail, Jobs
  <2> QED BY <1>7, <1>t, <2>1 DEF LeaseReleased, Scan, Commit, Fail
<1>8. CASE dispatch
  BY <1>8, <1>t DEF dispatch, NoJob
<1>9. CASE StartInvalidation
  <2>1. job'.owner = job.owner /\ job'.phase = "finish" /\ job.phase = "invalidate"
    BY <1>9, <1>t DEF StartInvalidation, Jobs
  <2>2. job.owner = "session" \/ job.owner = "worker"
    BY <1>t, <2>1 DEF Jobs
  <2>3. CASE job.owner = "session"
    BY <1>9, <1>t, <1>s, <2>1, <2>3 DEF StartInvalidation
  <2>4. CASE job.owner = "worker"
    BY <1>9, <1>t, <1>s, <2>1, <2>4 DEF StartInvalidation
  <2> QED BY <2>2, <2>3, <2>4
<1>10. CASE Finish
  BY <1>10, <1>t DEF Finish, NoJob
<1>11. CASE workspace_attach \/ workspace_detach
  BY <1>11, <1>t, <1>s DEF workspace_attach, workspace_detach, SessionOp
<1>12. CASE workspace_index
  BY <1>12, <1>t DEF workspace_index, SessionOp, NoJob
<1>13. CASE CallsNext
  BY <1>1, <1>13, CallsFrame DEF serverVars
<1>14. CASE Edit \/ Notify \/ LeaseAcquired \/ UNCHANGED vars
  BY <1>1, <1>14 DEF Edit, Notify, LeaseAcquired, vars
<1> QED BY <1>3, <1>4, <1>5, <1>6, <1>7, <1>8, <1>9, <1>10, <1>11, <1>12, <1>13, <1>14
        DEF Next, CallsNext, ThreadStep, Invalidating, Supervising, Running

-----------------------------------------------------------------------------
(* The order of changes. *)

\* Taking the first command, whose edit is then accepted if it is an event.
LEMMA OrderedAfterFirst ==
  ASSUME NEW cs \in Seq(Commands), NEW ds, NEW first \in Nat, NEW box, NEW last \in Nat,
         Ordered(cs, first, box, last), 1 \in DOMAIN cs,
         \A i \in DOMAIN ds : /\ i \in Nat /\ i > 0 /\ i + 1 \in DOMAIN cs
                              /\ ds[i].kind = cs[i + 1].kind /\ ds[i].edit = cs[i + 1].edit
  PROVE  /\ Ordered(ds, first, box, last)
         /\ cs[1].kind = "event" => Ordered(ds, cs[1].edit, box, last) /\ first <= cs[1].edit
<1> USE DEF Ordered
<1>1. Ordered(ds, first, box, last)
  <2>1. ASSUME NEW i \in DOMAIN ds, NEW j \in DOMAIN ds, i < j, ds[i].kind = "event", ds[j].kind = "event"
        PROVE  ds[i].edit <= ds[j].edit
    <3>1. i + 1 \in DOMAIN cs /\ j + 1 \in DOMAIN cs /\ i + 1 < j + 1
      BY <2>1
    <3>2. cs[i + 1].edit <= cs[j + 1].edit
      BY <2>1, <3>1
    <3> QED BY <3>2
  <2> QED BY <2>1
<1>2. ASSUME cs[1].kind = "event" PROVE Ordered(ds, cs[1].edit, box, last) /\ first <= cs[1].edit
  <2>1. ASSUME NEW i \in DOMAIN ds, ds[i].kind = "event" PROVE cs[1].edit <= ds[i].edit
    <3>1. i + 1 \in DOMAIN cs /\ 1 < i + 1
      BY <2>1
    <3>2. cs[1].edit <= cs[i + 1].edit
      BY <1>2, <2>1, <3>1
    <3> QED BY <3>2
  <2> QED BY <1>1, <1>2, <2>1
<1> QED BY <1>1, <1>2

LEMMA OrderedAppend ==
  ASSUME NEW cs \in Seq(Commands), NEW m \in Commands, NEW first \in Nat, NEW box, NEW last \in Nat,
         Ordered(cs, first, box, last), m.kind # "event"
  PROVE  Ordered(Append(cs, m), first, box, last)
<1>1. /\ DOMAIN cs = 1 .. Len(cs)
      /\ \A i \in DOMAIN Append(cs, m) :
           \/ i \in DOMAIN cs /\ Append(cs, m)[i] = cs[i]
           \/ i = Len(cs) + 1 /\ Append(cs, m)[i] = m
  BY AppendEntries
<1>2. \A i \in DOMAIN Append(cs, m) : Append(cs, m)[i].kind = "event" =>
        i \in DOMAIN cs /\ Append(cs, m)[i] = cs[i]
  BY <1>1
<1> QED BY <1>2 DEF Ordered

\* The watcher reports the oldest edit.
LEMMA OrderedReport ==
  ASSUME NEW cs \in Seq(Commands), NEW m \in Commands, NEW first \in Nat, NEW box \in SUBSET Nat,
         NEW last \in Nat, Ordered(cs, first, box, last), m.edit \in box, \A w \in box : m.edit <= w
  PROVE  Ordered(Append(cs, m), first, box \ {m.edit}, last)
<1> DEFINE ds == Append(cs, m)
<1>1. /\ DOMAIN cs = 1 .. Len(cs) /\ Len(cs) \in Nat
      /\ \A i \in DOMAIN ds :
           \/ i \in DOMAIN cs /\ ds[i] = cs[i]
           \/ i = Len(cs) + 1 /\ ds[i] = m
  BY AppendEntries
<1> HIDE DEF ds
<1>2. ASSUME NEW i \in DOMAIN ds, ds[i].kind = "event"
      PROVE  /\ first <= ds[i].edit /\ ds[i].edit <= last /\ \A v \in box : ds[i].edit <= v
             /\ ds[i].edit <= m.edit
  BY <1>1, <1>2 DEF Ordered
<1>3. ASSUME NEW i \in DOMAIN ds, NEW j \in DOMAIN ds, i < j, ds[i].kind = "event", ds[j].kind = "event"
      PROVE  ds[i].edit <= ds[j].edit
  <2>1. CASE j = Len(cs) + 1 /\ ds[j] = m
    BY <1>2, <1>3, <2>1
  <2>2. CASE j \in DOMAIN cs /\ ds[j] = cs[j]
    <3>1. i \in DOMAIN cs /\ ds[i] = cs[i]
      BY <1>1, <1>3, <2>2
    <3> QED BY <1>3, <2>2, <3>1 DEF Ordered
  <2> QED BY <1>1, <2>1, <2>2
<1>4. Ordered(ds, first, box \ {m.edit}, last)
  BY <1>2, <1>3 DEF Ordered
<1> QED BY <1>4 DEF ds

LEMMA InOrderStep ==
  ASSUME WatchInv, [Next]_vars
  PROVE  InOrder' /\ accepted <= accepted' /\ tree <= tree'
<1>t. /\ WatchTypes /\ InOrder /\ tree \in Nat /\ accepted \in Nat /\ inbox \in SUBSET Nat
      /\ commands \in Seq(Commands)
  BY DEF WatchInv, WatchTypes, FileTypes
<1>0. Ordered(commands, accepted, inbox, tree)
  BY <1>t DEF InOrder
<1> USE DEF filesVars, watchVars
<1>1. ASSUME UNCHANGED <<commands, accepted, inbox, tree>>
      PROVE  InOrder' /\ accepted <= accepted' /\ tree <= tree'
  <2>1. InOrder'
    BY <1>1, <1>t DEF InOrder
  <2> QED BY <1>1, <1>t, <2>1
<1>2. CASE CallsNext
  BY <1>1, <1>2, CallsFrame DEF serverVars
<1>3. ASSUME NEW t \in Threads, ThreadStep(t) PROVE UNCHANGED <<commands, accepted, inbox, tree>>
  BY <1>3 DEF ThreadStep, BumpEpoch, ClearFamily
<1>4. CASE Edit
  <2>1. \A i \in DOMAIN commands : commands[i].edit \in Nat
    <3>1. \A i \in DOMAIN commands : commands[i] \in Commands
      BY <1>t, LenProperties, ElementOfSeq
    <3> QED BY <3>1 DEF Commands
  <2>2. ASSUME NEW last, last = tree + 1, NEW box, box \subseteq inbox \cup {last}
        PROVE  Ordered(commands, accepted, box, last)
    BY <1>t, <1>0, <2>1, <2>2 DEF Ordered
  <2>3. inbox' \subseteq inbox \cup {tree'} /\ tree' = tree + 1 /\ UNCHANGED <<commands, accepted>>
    BY <1>4 DEF Edit
  <2>4. InOrder'
    BY <2>2, <2>3 DEF InOrder
  <2> QED BY <1>t, <2>3, <2>4
<1>5. CASE Notify
  <2>1. PICK v \in inbox : /\ \A w \in inbox : v <= w
                          /\ inbox' = inbox \ {v}
                          /\ commands' = Append(commands, EventOf(v))
    BY <1>5 DEF Notify
  <2>2. EventOf(v) \in Commands /\ EventOf(v).edit = v
    BY <1>t, CommandTyped DEF EventOf
  <2>3. Ordered(commands', accepted, inbox', tree)
    BY <1>t, <1>0, <2>1, <2>2, OrderedReport
  <2> QED BY <1>5, <1>t, <2>3 DEF Notify, InOrder
<1>6. ASSUME commands # <<>>, commands' = Tail(commands), UNCHANGED <<inbox, tree>>
      PROVE  /\ Ordered(commands', accepted, inbox', tree')
             /\ Head(commands).kind = "event" =>
                  /\ Ordered(commands', Head(commands).edit, inbox', tree')
                  /\ accepted <= Head(commands).edit
  <2>1. /\ 1 \in DOMAIN commands /\ commands[1] = Head(commands)
        /\ \A i \in DOMAIN commands' : /\ i \in Nat /\ i > 0 /\ i + 1 \in DOMAIN commands
                                        /\ commands'[i].kind = commands[i + 1].kind
                                        /\ commands'[i].edit = commands[i + 1].edit
    BY <1>t, <1>6, HeadCommand
  <2> QED BY <1>t, <1>0, <1>6, <2>1, OrderedAfterFirst
<1>7. CASE handle_notify_event
  BY <1>7, <1>t, <1>6 DEF handle_notify_event, Receive, InOrder
<1>8. CASE LeaseAcquired \/ IndexCompleted
  <2>1. /\ commands # <<>> /\ commands' = Tail(commands)
        /\ UNCHANGED <<inbox, tree>> /\ accepted' = accepted
    BY <1>8 DEF LeaseAcquired, IndexCompleted, Receive
  <2> QED BY <1>t, <1>6, <2>1 DEF InOrder
<1>9. CASE LeaseReleased
  <2>1. 1 \in DOMAIN commands
    BY <1>9, <1>t, HeadCommand DEF LeaseReleased
  <2>2. \A i \in DOMAIN commands' : /\ i \in Nat /\ i > 0 /\ i + 1 \in DOMAIN commands
                                    /\ commands'[i].kind = commands[i + 1].kind
                                    /\ commands'[i].edit = commands[i + 1].edit
    BY <1>9, <1>t, ReleasedCommands
  <2>3. Ordered(commands', accepted, inbox, tree)
    BY <1>t, <1>0, <2>1, <2>2, OrderedAfterFirst
  <2> QED BY <1>9, <1>t, <2>3 DEF LeaseReleased, InOrder
<1>10. ASSUME NEW m \in Commands, m.kind # "event", commands' = Append(commands, m),
              UNCHANGED <<accepted, inbox, tree>>
       PROVE  InOrder'
  BY <1>10, <1>t, <1>0, OrderedAppend DEF InOrder
<1>11. CASE Finish
  <2>1. /\ Command("completed", 0, job.ok, job.stale) \in Commands
        /\ Command("completed", 0, job.ok, job.stale).kind # "event"
    BY CommandTyped DEF WatchInv, WatchTypes, Jobs
  <2> QED BY <1>1, <1>10, <1>11, <1>t, <2>1 DEF Finish
<1>12. CASE workspace_attach \/ workspace_detach
  <2>1. /\ Command("acquired", 0, TRUE, FALSE) \in Commands
        /\ Command("acquired", 0, TRUE, FALSE).kind # "event"
        /\ Command("released", 0, TRUE, FALSE) \in Commands
        /\ Command("released", 0, TRUE, FALSE).kind # "event"
    BY CommandTyped
  <2>2. UNCHANGED <<accepted, inbox, tree>>
    BY <1>12 DEF workspace_attach, workspace_detach
  <2>3. \/ commands' = commands
        \/ \E m \in Commands : m.kind # "event" /\ commands' = Append(commands, m)
    BY <1>12, <2>1 DEF workspace_attach, workspace_detach
  <2> QED BY <1>1, <1>10, <1>t, <2>2, <2>3
<1>13. CASE invalidate_root \/ settle_success \/ settle_failure \/ dispatch \/ Scan \/ Commit \/ Fail
            \/ StartInvalidation \/ workspace_index \/ UNCHANGED vars
  BY <1>1, <1>13, <1>t DEF invalidate_root, settle_success, settle_failure, dispatch, Scan, Commit, Fail,
     StartInvalidation, workspace_index, vars
<1> QED BY <1>1, <1>2, <1>3, <1>4, <1>5, <1>7, <1>8, <1>9, <1>11, <1>12, <1>13, <1>t
        DEF Next, CallsNext, ThreadStep, Invalidating, Supervising, Running

LEMMA ScansInOrderStep ==
  ASSUME WatchInv, [Next]_vars
  PROVE  ScansInOrder' /\ latest <= latest' /\ lifted <= lifted'
<1>t. /\ ScansInOrder /\ tree \in Nat /\ latest \in Nat /\ accepted \in Nat /\ lifted \in Nat
      /\ job \in Jobs /\ job.scanned \in Nat
  BY DEF WatchInv, WatchTypes, FileTypes, Jobs
<1>m. /\ accepted <= accepted' /\ tree <= tree' /\ tree' \in Nat /\ accepted' \in Nat
  BY InOrderStep, WatchTypesStep DEF WatchTypes, FileTypes
<1> USE DEF filesVars, watchVars, boundVars
<1>1. ASSUME UNCHANGED <<latest, lifted>>,
             job'.phase = "commit" => job.phase = "commit" /\ job'.scanned = job.scanned
      PROVE  ScansInOrder' /\ latest <= latest' /\ lifted <= lifted'
  BY <1>1, <1>t, <1>m DEF ScansInOrder
<1>2. CASE CallsNext
  BY <1>1, <1>2, CallsFrame DEF serverVars
<1>3. ASSUME NEW t \in Threads, ThreadStep(t) PROVE UNCHANGED <<latest, lifted, job>>
  BY <1>3 DEF ThreadStep, BumpEpoch, ClearFamily
<1>4. CASE invalidate_root
  <2>1. /\ lifted' \in {lifted, accepted}
        /\ UNCHANGED <<latest, tree, accepted, job>>
    BY <1>4 DEF invalidate_root
  <2> QED BY <1>t, <2>1 DEF ScansInOrder
<1>5. CASE Scan
  <2>1. job'.scanned = tree /\ UNCHANGED <<latest, lifted, tree, accepted>>
    BY <1>5, <1>t DEF Scan, Jobs
  <2> QED BY <1>t, <2>1 DEF ScansInOrder
<1>6. CASE Commit
  <2>1. /\ job.phase = "commit" /\ latest' = job.scanned /\ job'.phase = "invalidate"
        /\ UNCHANGED <<lifted, tree, accepted>>
    BY <1>6, <1>t DEF Commit, Jobs
  <2> QED BY <1>t, <2>1 DEF ScansInOrder
<1>7. CASE LeaseReleased \/ Fail \/ StartInvalidation
  <2>1. /\ job'.phase = "commit" => job.phase = "commit" /\ job'.scanned = job.scanned
        /\ UNCHANGED <<latest, lifted>>
    BY <1>7, <1>t DEF LeaseReleased, Fail, StartInvalidation, Jobs
  <2> QED BY <1>1, <2>1
<1>8. CASE dispatch \/ Finish \/ workspace_index
  <2>1. job'.phase # "commit"
    <3>1. CASE Finish
      BY <3>1 DEF Finish, NoJob
    <3>2. CASE dispatch \/ workspace_index
      BY <3>2 DEF dispatch, workspace_index, NoJob
    <3> QED BY <1>8, <3>1, <3>2
  <2>2. UNCHANGED <<latest, lifted>>
    BY <1>8 DEF dispatch, Finish, workspace_index
  <2> QED BY <1>1, <2>1, <2>2
<1>9. CASE Edit \/ Notify \/ handle_notify_event \/ LeaseAcquired \/ IndexCompleted \/ settle_success
           \/ settle_failure \/ workspace_attach \/ workspace_detach \/ UNCHANGED vars
  <2>1. UNCHANGED <<latest, lifted, job>>
    BY <1>9 DEF Edit, Notify, handle_notify_event, LeaseAcquired, IndexCompleted, settle_success,
       settle_failure, workspace_attach, workspace_detach, vars
  <2> QED BY <1>1, <2>1
<1> QED BY <1>1, <1>2, <1>3, <1>4, <1>5, <1>6, <1>7, <1>8, <1>9
        DEF Next, CallsNext, ThreadStep, Invalidating, Supervising, Running

-----------------------------------------------------------------------------
(* The work of the lease that is held. *)

\* A completion of that lease was in the channel before, one place behind when the supervisor
\* has taken a command, or a worker has just sent it.
WasCompleted(i, k) ==
  i \in Nat /\ i > 0 /\ CompletedAt(i + k) /\ commands'[i].ok = commands[i + k].ok

LEMMA CompletionsStep ==
  ASSUME WatchInv, [Next]_vars
  PROVE  \/ Finish
         \/ \A i : CompletedAt(i)' => WasCompleted(i, 1)
         \/ ~IndexCompleted /\ \A i : CompletedAt(i)' => WasCompleted(i, 0)
<1>t. WatchTypes /\ commands \in Seq(Commands)
  BY DEF WatchInv, WatchTypes
<1>d. \A i \in DOMAIN commands : i \in Nat /\ i > 0 /\ i + 0 = i
  BY <1>t, LenProperties
<1> USE DEF watchVars, CompletedAt, WasCompleted
<1>1. ASSUME commands' = commands PROVE \A i : CompletedAt(i)' => WasCompleted(i, 0)
  BY <1>1, <1>d
<1>2. ASSUME NEW m \in Commands, commands' = Append(commands, m), m.kind # "completed"
      PROVE  \A i : CompletedAt(i)' => WasCompleted(i, 0)
  BY <1>2, <1>d, <1>t, AppendEntries
<1>3. ASSUME commands # <<>>, commands' = Tail(commands)
      PROVE  \A i : CompletedAt(i)' => WasCompleted(i, 1)
  BY <1>3, <1>t, HeadCommand
<1>n. CASE ~IndexCompleted
  <2>1. CASE CallsNext
    BY <1>1, <1>n, <2>1, CallsFrame DEF serverVars
  <2>2. ASSUME NEW t \in Threads, ThreadStep(t) PROVE commands' = commands
    BY <2>2 DEF ThreadStep, BumpEpoch, ClearFamily
  <2>3. CASE Notify
    <3>1. \A v \in inbox : EventOf(v) \in Commands /\ EventOf(v).kind = "event"
      <4>1. \A v \in inbox : v \in Nat
        BY <1>t DEF WatchTypes, FileTypes
      <4> QED BY <4>1, CommandTyped DEF EventOf
    <3> QED BY <1>2, <1>n, <2>3, <3>1 DEF Notify
  <2>4. CASE handle_notify_event \/ LeaseAcquired
    BY <1>3, <2>4 DEF handle_notify_event, LeaseAcquired, Receive
  <2>5. CASE LeaseReleased
    BY <1>n, <1>t, <2>5, ReleasedCommands
  <2>6. CASE workspace_attach \/ workspace_detach
    <3>1. /\ Command("acquired", 0, TRUE, FALSE) \in Commands
          /\ Command("acquired", 0, TRUE, FALSE).kind # "completed"
          /\ Command("released", 0, TRUE, FALSE) \in Commands
          /\ Command("released", 0, TRUE, FALSE).kind # "completed"
      BY CommandTyped
    <3>2. \/ commands' = commands
          \/ \E m \in Commands : m.kind # "completed" /\ commands' = Append(commands, m)
      BY <2>6, <3>1 DEF workspace_attach, workspace_detach
    <3> QED BY <1>1, <1>2, <1>n, <3>2
  <2>7. CASE Edit \/ invalidate_root \/ settle_success \/ settle_failure \/ dispatch \/ Scan \/ Commit
             \/ Fail \/ StartInvalidation \/ workspace_index \/ UNCHANGED vars
    <3>1. commands' = commands
      BY <2>7 DEF Edit, invalidate_root, settle_success, settle_failure, dispatch, Scan, Commit, Fail,
         StartInvalidation, workspace_index, vars
    <3> QED BY <1>1, <1>n, <3>1
  <2> QED BY <1>1, <1>n, <2>1, <2>2, <2>3, <2>4, <2>5, <2>6, <2>7
          DEF Next, CallsNext, ThreadStep, Invalidating, Supervising, Running
<1>c. CASE IndexCompleted
  BY <1>3, <1>c DEF IndexCompleted, Receive
<1> QED BY <1>n, <1>c

\* What was said of one piece of work goes on, when nothing new is in flight.
LEMMA InFlightGoesOn ==
  ASSUME WatchInv, NEW k \in {0, 1}, \A i : CompletedAt(i)' => WasCompleted(i, k),
         \A o \in Settling : SettleIsDue(o)' => SettleIsDue(o),
         Working' => Working,
         sched'.running = sched.running, sched'.pending => sched.pending \/ sched'.known,
         sched.known => sched'.known
  PROVE  OneInFlight'
<1>1. OneInFlight
  BY DEF WatchInv
<1>2. IsSettling' => IsSettling
  BY DEF IsSettling
<1>3. Working' => ~IsSettling' /\ \A i : ~CompletedAt(i)'
  BY <1>1, <1>2 DEF OneInFlight, WasCompleted
<1>4. \A i, j : CompletedAt(i)' => ~IsSettling' /\ (CompletedAt(j)' => i = j)
  <2>1. ASSUME NEW i, NEW j, CompletedAt(i)', CompletedAt(j)' PROVE i = j
    <3>1. i \in Nat /\ j \in Nat /\ CompletedAt(i + k) /\ CompletedAt(j + k)
      BY <2>1 DEF WasCompleted
    <3>2. i + k = j + k
      BY <1>1, <3>1 DEF OneInFlight
    <3> QED BY <3>1, <3>2
  <2>2. ASSUME NEW i, CompletedAt(i)' PROVE ~IsSettling'
    BY <1>1, <1>2, <2>2 DEF OneInFlight, WasCompleted
  <2> QED BY <2>1, <2>2
<1>5. Working' \/ IsSettling' \/ (\E i : CompletedAt(i)') => sched'.running
  BY <1>1, <1>2 DEF OneInFlight, WasCompleted
<1>6. sched'.pending \/ sched'.running => sched'.known
  BY <1>1 DEF OneInFlight
<1> QED BY <1>3, <1>4, <1>5, <1>6 DEF OneInFlight

LEMMA OneInFlightStep ==
  ASSUME WatchInv, [Next]_vars
  PROVE  OneInFlight'
<1>t. /\ WatchTypes /\ OneInFlight /\ job \in Jobs /\ todo \in [Threads -> Seq(Ops)]
      /\ sched \in SchedStates
      /\ "supervisor" \in Threads
  BY DEF WatchInv, WatchTypes, Threads
<1> USE DEF SchedStates
<1> USE DEF watchVars
<1>2. CASE IndexCompleted
  <2>1. PICK ops \in Seq(Ops) :
          /\ todo' = [todo EXCEPT !["supervisor"] = ops]
          /\ \A i \in DOMAIN ops : ops[i].op \in Settling => CompletedAt(1)
    BY <1>2, <1>t, CompletionHandled
  <2>2. \A i : CompletedAt(i)' => WasCompleted(i, 1)
    BY <1>2, <1>t, HeadCommand DEF IndexCompleted, Receive, CompletedAt, WasCompleted
  <2>3. UNCHANGED <<sched, job>> /\ (Working' <=> Working)
    BY <1>2 DEF IndexCompleted, Working
  <2>4. CASE CompletedAt(1)
    <3>1. ~Working /\ ~IsSettling /\ sched.running
      BY <1>t, <2>4 DEF OneInFlight
    <3>2. \A i : ~CompletedAt(i)'
      <4>1. ASSUME NEW i, CompletedAt(i)' PROVE FALSE
        <5>1. i \in Nat /\ i > 0 /\ CompletedAt(i + 1)
          BY <2>2, <4>1 DEF WasCompleted
        <5>2. i + 1 = 1
          BY <1>t, <2>4, <5>1 DEF OneInFlight
        <5> QED BY <5>1, <5>2
      <4> QED BY <4>1
    <3> QED BY <1>t, <2>3, <3>1, <3>2 DEF OneInFlight
  <2>5. CASE ~CompletedAt(1)
    <3>1. \A o \in Settling : SettleIsDue(o)' => SettleIsDue(o)
      BY <2>1, <2>5, <1>t, OthersSettle
    <3> QED BY <1>t, <2>2, <2>3, <3>1, InFlightGoesOn
  <2> QED BY <2>4, <2>5
<1>3. CASE Finish
  <2>0. /\ UNCHANGED <<sched, todo>> /\ ~Working' /\ (IsSettling' <=> IsSettling)
    BY <1>3 DEF Finish, NoJob, Working, IsSettling, SettleIsDue
  <2>1. CASE job.owner = "worker"
    <3> DEFINE m == Command("completed", 0, job.ok, job.stale)
    <3>1. m \in Commands /\ m.stale = job.stale
      BY <1>t, CommandTyped DEF Jobs
    <3>2. commands' = Append(commands, m) /\ commands \in Seq(Commands)
      BY <1>3, <1>t, <2>1 DEF Finish, WatchTypes
    <3> HIDE DEF m
    <3>3. \A i \in DOMAIN commands' : \/ i \in DOMAIN commands /\ commands'[i] = commands[i]
                                      \/ i = Len(commands) + 1 /\ commands'[i] = m
      BY <3>1, <3>2, AppendEntries
    <3>4. CASE Working
      <4>1. \A i : CompletedAt(i)' => i = Len(commands) + 1
        BY <1>t, <3>3, <3>4 DEF OneInFlight, CompletedAt
      <4> QED BY <1>t, <2>0, <3>4, <4>1 DEF OneInFlight
    <3>5. CASE ~Working
      <4>1. m.stale
        BY <2>1, <3>1, <3>5 DEF Working
      <4>2. \A i : CompletedAt(i)' => CompletedAt(i)
        BY <3>3, <4>1 DEF CompletedAt
      <4> QED BY <1>t, <2>0, <4>2 DEF OneInFlight
    <3> QED BY <3>4, <3>5
  <2>2. CASE job.owner # "worker"
    <3>1. \A i : CompletedAt(i)' => CompletedAt(i)
      BY <1>3, <2>2 DEF Finish, CompletedAt
    <3> QED BY <1>t, <2>0, <3>1 DEF OneInFlight
  <2> QED BY <2>1, <2>2
<1>4. CASE ~IndexCompleted /\ ~Finish
  <2>1. ASSUME Working' => Working, sched'.running = sched.running,
               sched'.pending => sched.pending \/ sched'.known, sched.known => sched'.known
        PROVE  OneInFlight'
    <3>1. \A o \in Settling : SettleIsDue(o)' => SettleIsDue(o)
      BY <1>4, TodoStep
    <3>2. \E k \in {0, 1} : \A i : CompletedAt(i)' => WasCompleted(i, k)
      BY <1>4, CompletionsStep
    <3> QED BY <2>1, <3>1, <3>2, InFlightGoesOn
  <2>2. ASSUME Working' => Working, sched' = sched PROVE OneInFlight'
    BY <2>1, <2>2
  <2>4. CASE LeaseReleased
    <3>1. ~Working'
      BY <2>4, <1>t DEF LeaseReleased, Working, Jobs
    <3>2. \A i : ~CompletedAt(i)'
      BY <2>4, <1>t, ReleasedCommands DEF CompletedAt
    <3>3. ~IsSettling' /\ sched' = Unknown
      BY <2>4 DEF LeaseReleased, IsSettling, SettleIsDue
    <3> QED BY <3>1, <3>2, <3>3 DEF OneInFlight, Unknown
  <2>5. CASE dispatch
    <3>1. /\ ~sched.running /\ sched'.running /\ ~sched'.pending /\ sched'.known
          /\ UNCHANGED <<commands, todo>>
      BY <2>5, <1>t DEF dispatch, OneInFlight
    <3>2. ~IsSettling' /\ \A i : ~CompletedAt(i)'
      BY <1>t, <3>1 DEF OneInFlight, IsSettling, SettleIsDue, CompletedAt
    <3> QED BY <3>1, <3>2 DEF OneInFlight
  <2>6. CASE settle_success \/ settle_failure
    <3>1. /\ todo["supervisor"] # <<>> /\ Head(todo["supervisor"]).op \in Settling
          /\ todo' = [todo EXCEPT !["supervisor"] = Tail(@)]
          /\ UNCHANGED <<commands, job>> /\ ~sched'.running
          /\ sched.known => sched'.known
      BY <2>6, <1>t DEF settle_success, settle_failure, Settling, Failed, Blocked, SchedStates
    <3>2. /\ todo'["supervisor"] = <<>>
          /\ 1 \in DOMAIN todo["supervisor"] /\ todo["supervisor"][1] = Head(todo["supervisor"])
      BY <1>t, <3>1, TodoTyped, TailIsWellFormed, TailEntries
    <3>3. ~IsSettling' /\ IsSettling
      BY <3>1, <3>2 DEF IsSettling, SettleIsDue
    <3>4. ~Working' /\ (\A i : ~CompletedAt(i)') /\ sched.known
      BY <1>t, <3>1, <3>3 DEF OneInFlight, Working, CompletedAt
    <3> QED BY <3>1, <3>3, <3>4 DEF OneInFlight
  <2>7. CASE handle_notify_event
    <3>1. /\ sched'.running = sched.running /\ sched'.known = sched.known
          /\ sched'.pending => sched.pending \/ sched'.known
          /\ job' = job
      BY <2>7, <1>t DEF handle_notify_event
    <3> QED BY <2>1, <3>1 DEF Working
  <2>8. CASE LeaseAcquired
    <3>1. sched'.running = sched.running /\ sched'.known /\ job' = job
      BY <2>8, <1>t DEF LeaseAcquired
    <3> QED BY <2>1, <3>1 DEF Working
  <2>9. CASE Scan \/ Commit \/ Fail \/ StartInvalidation
    <3>1. sched' = sched /\ job'.owner = job.owner /\ job'.stale = job.stale
      BY <2>9, <1>t DEF Scan, Commit, Fail, StartInvalidation, Jobs
    <3> QED BY <2>2, <3>1 DEF Working
  <2>10. CASE workspace_index
    <3>1. sched' = sched /\ job'.owner = "session"
      BY <2>10 DEF workspace_index, NoJob
    <3> QED BY <2>2, <3>1 DEF Working
  <2>11. CASE CallsNext
    BY <2>2, <2>11, CallsFrame DEF serverVars, Working
  <2>12. ASSUME NEW t \in Threads, ThreadStep(t) PROVE UNCHANGED <<sched, job>>
    BY <2>12 DEF ThreadStep, BumpEpoch, ClearFamily
  <2>13. CASE Edit \/ Notify \/ invalidate_root \/ workspace_attach \/ workspace_detach \/ UNCHANGED vars
    <3>1. UNCHANGED <<sched, job>>
      BY <2>13 DEF Edit, Notify, invalidate_root, workspace_attach, workspace_detach, vars
    <3> QED BY <2>2, <3>1 DEF Working
  <2> QED BY <1>4, <2>2, <2>4, <2>5, <2>6, <2>7, <2>8, <2>9, <2>10, <2>11, <2>12, <2>13
          DEF Next, CallsNext, ThreadStep, Invalidating, Supervising, Running, Working
<1> QED BY <1>2, <1>3, <1>4

\* While a refresh runs, a change that is accepted asks for another one.
LEMMA CoversGoesOn ==
  ASSUME WatchInv, [Next]_vars, sched.running, sched'.running,
         NEW v \in Nat, NEW w \in Nat, v <= w, Covers(v)
  PROVE  Covers(w)'
<1>t. /\ sched \in SchedStates
      /\ accepted \in Nat /\ sched.known /\ (accepted <= w \/ sched.rerun)
  BY DEF WatchInv, WatchTypes, FileTypes, OneInFlight, Covers
<1> USE DEF SchedStates
<1> USE DEF watchVars
<1>1. ASSUME accepted' = accepted, sched'.rerun = sched.rerun PROVE Covers(w)'
  BY <1>1, <1>t DEF Covers
<1>2. CASE handle_notify_event
  <2>1. CASE lease
    <3>1. sched'.rerun
      BY <1>2, <1>t, <2>1 DEF handle_notify_event
    <3> QED BY <3>1 DEF Covers
  <2>2. CASE ~lease
    BY <1>1, <1>2, <2>2 DEF handle_notify_event
  <2> QED BY <2>1, <2>2
<1>3. CASE LeaseAcquired
  <2>1. accepted' = accepted /\ sched'.rerun = sched.rerun
    BY <1>3, <1>t DEF LeaseAcquired
  <2> QED BY <1>1, <2>1
<1>4. CASE dispatch \/ settle_success \/ settle_failure \/ LeaseReleased
  <2>1. CASE dispatch
    BY <2>1 DEF dispatch
  <2>2. CASE settle_success
    BY <1>t, <2>2 DEF settle_success
  <2>3. CASE settle_failure
    BY <1>t, <2>3 DEF settle_failure, Failed, Blocked, SchedStates
  <2>4. CASE LeaseReleased
    BY <2>4 DEF LeaseReleased, Unknown
  <2> QED BY <1>4, <2>1, <2>2, <2>3, <2>4
<1>5. CASE CallsNext
  BY <1>1, <1>5, CallsFrame DEF serverVars
<1>6. ASSUME NEW t \in Threads, ThreadStep(t) PROVE UNCHANGED <<accepted, sched>>
  BY <1>6 DEF ThreadStep, BumpEpoch, ClearFamily
<1>7. CASE Edit \/ Notify \/ invalidate_root \/ IndexCompleted \/ Scan \/ Commit \/ Fail
           \/ StartInvalidation \/ Finish \/ workspace_attach \/ workspace_detach \/ workspace_index
           \/ UNCHANGED vars
  <2>1. UNCHANGED <<accepted, sched>>
    BY <1>7 DEF Edit, Notify, invalidate_root, IndexCompleted, Scan, Commit, Fail, StartInvalidation,
       Finish, workspace_attach, workspace_detach, workspace_index, vars
  <2> QED BY <1>1, <2>1
<1> QED BY <1>1, <1>2, <1>3, <1>4, <1>5, <1>6, <1>7
        DEF Next, CallsNext, ThreadStep, Invalidating, Supervising, Running

\* Where a worker of the lease comes from.
LEMMA WorkerStep ==
  ASSUME WatchInv, [Next]_vars, Working'
  PROVE  \/ job' = job
         \/ job'.phase = "scan"
         \/ job'.phase = "commit" /\ job'.scanned = tree /\ accepted' = accepted
         \/ /\ Working /\ job.phase = "commit" /\ latest' = job.scanned
            /\ job'.phase = "invalidate"
         \/ job'.phase = "invalidate" /\ ~job'.ok
         \/ /\ Working /\ job.phase = "invalidate" /\ job'.phase = "finish" /\ job'.ok = job.ok
<1>t. job \in Jobs
  BY DEF WatchInv, WatchTypes
<1> USE DEF watchVars
<1>1. CASE LeaseReleased
  BY <1>1, <1>t DEF LeaseReleased, Working, Jobs
<1>2. CASE dispatch
  BY <1>2 DEF dispatch, NoJob
<1>3. CASE workspace_index \/ Finish
  <2>1. CASE workspace_index
    BY <2>1 DEF workspace_index, NoJob, Working
  <2>2. CASE Finish
    BY <2>2 DEF Finish, NoJob, Working
  <2> QED BY <1>3, <2>1, <2>2
<1>4. CASE Scan
  BY <1>4, <1>t DEF Scan, Jobs
<1>5. CASE Commit
  BY <1>5, <1>t DEF Commit, Jobs, Working
<1>6. CASE Fail
  BY <1>6, <1>t DEF Fail, Jobs
<1>7. CASE StartInvalidation
  BY <1>7, <1>t DEF StartInvalidation, Jobs, Working
<1>8. CASE CallsNext
  BY <1>8, CallsFrame DEF serverVars
<1>9. ASSUME NEW t \in Threads, ThreadStep(t) PROVE job' = job
  BY <1>9 DEF ThreadStep, BumpEpoch, ClearFamily
<1>10. CASE Edit \/ Notify \/ invalidate_root \/ handle_notify_event \/ LeaseAcquired \/ IndexCompleted
            \/ settle_success \/ settle_failure \/ workspace_attach \/ workspace_detach \/ UNCHANGED vars
  BY <1>10 DEF Edit, Notify, invalidate_root, handle_notify_event, LeaseAcquired, IndexCompleted,
     settle_success, settle_failure, workspace_attach, workspace_detach, vars
<1> QED BY <1>1, <1>2, <1>3, <1>4, <1>5, <1>6, <1>7, <1>8, <1>9, <1>10
        DEF Next, CallsNext, ThreadStep, Invalidating, Supervising, Running

LEMMA RunningStep ==
  ASSUME WatchInv, [Next]_vars, sched'.running, ~sched.running
  PROVE  Working' /\ job'.phase = "scan"
<1>t. sched \in SchedStates
  BY DEF WatchInv, WatchTypes
<1> USE DEF SchedStates
<1> USE DEF watchVars
<1>1. CASE dispatch
  BY <1>1 DEF dispatch, NoJob, Working
<1>2. CASE handle_notify_event \/ LeaseAcquired \/ LeaseReleased \/ settle_success \/ settle_failure
  <2>1. CASE handle_notify_event
    BY <1>t, <2>1 DEF handle_notify_event
  <2>2. CASE LeaseAcquired
    BY <1>t, <2>2 DEF LeaseAcquired
  <2>3. CASE LeaseReleased
    BY <2>3 DEF LeaseReleased, Unknown
  <2>4. CASE settle_success
    BY <1>t, <2>4 DEF settle_success
  <2>5. CASE settle_failure
    BY <1>t, <2>5 DEF settle_failure, Failed, Blocked, SchedStates
  <2> QED BY <1>2, <2>1, <2>2, <2>3, <2>4, <2>5
<1>3. CASE CallsNext
  BY <1>3, CallsFrame DEF serverVars
<1>4. ASSUME NEW t \in Threads, ThreadStep(t) PROVE FALSE
  BY <1>4 DEF ThreadStep, BumpEpoch, ClearFamily
<1>5. CASE Edit \/ Notify \/ invalidate_root \/ IndexCompleted \/ Scan \/ Commit \/ Fail
           \/ StartInvalidation \/ Finish \/ workspace_attach \/ workspace_detach \/ workspace_index
           \/ UNCHANGED vars
  BY <1>5 DEF Edit, Notify, invalidate_root, IndexCompleted, Scan, Commit, Fail, StartInvalidation,
     Finish, workspace_attach, workspace_detach, workspace_index, vars
<1> QED BY <1>1, <1>2, <1>3, <1>4, <1>5
        DEF Next, CallsNext, ThreadStep, Invalidating, Supervising, Running

LEMMA InFlightCoversStep ==
  ASSUME WatchInv, [Next]_vars
  PROVE  InFlightCovers'
<1>t. /\ WatchTypes /\ OneInFlight /\ InFlightCovers /\ ScansInOrder /\ InOrder
      /\ job \in Jobs /\ job.scanned \in Nat /\ latest \in Nat /\ accepted \in Nat /\ tree \in Nat
      /\ "supervisor" \in Threads /\ todo \in [Threads -> Seq(Ops)]
  BY DEF WatchInv, WatchTypes, FileTypes, Jobs, Threads
<1>m. OneInFlight' /\ latest <= latest' /\ latest' \in Nat
  BY OneInFlightStep, ScansInOrderStep, WatchTypesStep DEF WatchTypes, FileTypes
<1>1. CASE ~sched'.running
  <2>1. ~Working' /\ ~IsSettling' /\ \A i : ~CompletedAt(i)'
    BY <1>1, <1>m DEF OneInFlight
  <2> QED BY <2>1 DEF InFlightCovers, IsSettling, Settling
<1>2. CASE sched'.running /\ ~sched.running
  <2>1. Working' /\ job'.phase = "scan"
    BY <1>2, RunningStep
  <2>2. ~IsSettling' /\ \A i : ~CompletedAt(i)'
    BY <1>m, <2>1 DEF OneInFlight
  <2> QED BY <2>1, <2>2 DEF InFlightCovers, IsSettling, Settling
<1>3. CASE sched'.running /\ sched.running
  <2>0. /\ Covers(latest) => Covers(latest)'
        /\ Covers(job.scanned) => \A v \in Nat : v = job.scanned => Covers(v)'
    BY <1>3, <1>t, <1>m, CoversGoesOn
  <2>1. ASSUME Working', job'.phase = "commit" PROVE Covers(job.scanned)'
    <3>1. CASE job' = job
      <4>1. Working /\ Covers(job.scanned)
        BY <1>t, <2>1, <3>1 DEF InFlightCovers, Working
      <4>2. \A v \in Nat : v = job.scanned => Covers(v)'
        BY <2>0, <4>1
      <4> QED BY <1>t, <3>1, <4>2 DEF Covers
    <3>2. CASE job'.scanned = tree /\ accepted' = accepted
      <4>1. accepted <= tree
        BY <1>t DEF InOrder, Ordered
      <4> QED BY <3>2, <4>1 DEF Covers
    <3> QED BY <2>1, <3>1, <3>2, WorkerStep
  <2>2. ASSUME Working', job'.phase \in {"invalidate", "finish"}, job'.ok PROVE Covers(latest)'
    <3>1. CASE job' = job \/ (Working /\ job.phase = "invalidate" /\ job'.ok = job.ok)
      <4>1. Working /\ job.phase \in {"invalidate", "finish"} /\ job.ok
        BY <2>2, <3>1 DEF Working
      <4> QED BY <1>t, <2>0, <4>1 DEF InFlightCovers
    <3>2. CASE Working /\ job.phase = "commit" /\ latest' = job.scanned
      <4>1. Covers(job.scanned)
        BY <1>t, <3>2 DEF InFlightCovers
      <4>2. \A v \in Nat : v = job.scanned => Covers(v)'
        BY <2>0, <4>1
      <4> QED BY <1>t, <3>2, <4>2 DEF Covers
    <3> QED BY <2>2, <3>1, <3>2, WorkerStep
  <2>3. ASSUME NEW i, CompletedAt(i)', commands'[i].ok PROVE Covers(latest)'
    <3>1. CASE \E k \in {0, 1} : WasCompleted(i, k)
      BY <1>t, <2>0, <2>3, <3>1 DEF WasCompleted, InFlightCovers
    <3>2. CASE Finish
      <4>1. CASE CompletedAt(i) /\ commands'[i] = commands[i]
        BY <1>t, <2>0, <2>3, <4>1 DEF InFlightCovers
      <4>2. CASE job.owner = "worker" /\ commands'[i] = Command("completed", 0, job.ok, job.stale)
        <5>1. job.ok /\ ~job.stale /\ job.phase = "finish"
          BY <1>t, <2>3, <3>2, <4>2, CommandTyped DEF CompletedAt, Finish, Jobs
        <5> QED BY <1>t, <2>0, <4>2, <5>1 DEF InFlightCovers, Working
      <4>3. IF job.owner = "worker"
            THEN commands' = Append(commands, Command("completed", 0, job.ok, job.stale))
            ELSE commands' = commands
        BY <3>2 DEF Finish
      <4>4. commands \in Seq(Commands) /\ Command("completed", 0, job.ok, job.stale) \in Commands
        BY <1>t, CommandTyped DEF WatchTypes, Jobs
      <4> QED BY <2>3, <4>1, <4>2, <4>3, <4>4, AppendEntries DEF CompletedAt
    <3> QED BY <2>3, <3>1, <3>2, CompletionsStep
  <2>4. ASSUME SettleIsDue("succeeded")' PROVE Covers(latest)'
    <3>1. CASE SettleIsDue("succeeded")
      BY <1>t, <2>0, <3>1 DEF InFlightCovers
    <3>2. CASE ~SettleIsDue("succeeded")
      <4>1. IndexCompleted
        BY <2>4, <3>2, TodoStep DEF Settling
      <4>2. PICK ops \in Seq(Ops) :
              /\ todo' = [todo EXCEPT !["supervisor"] = ops]
              /\ \A i \in DOMAIN ops : ops[i].op \in Settling =>
                   CompletedAt(1) /\ ops[i].op = IF commands[1].ok THEN "succeeded" ELSE "failed"
        BY <1>t, <4>1, CompletionHandled
      <4>3. \E i \in DOMAIN ops : ops[i].op = "succeeded"
        BY <1>t, <2>4, <4>2 DEF SettleIsDue
      <4>4. CompletedAt(1) /\ commands[1].ok
        BY <4>2, <4>3 DEF Settling
      <4> QED BY <1>t, <2>0, <4>4 DEF InFlightCovers
    <3> QED BY <3>1, <3>2
  <2> QED BY <2>1, <2>2, <2>3, <2>4 DEF InFlightCovers
<1> QED BY <1>1, <1>2, <1>3

LEMMA WatchInvInit == Init => WatchInv
<1> SUFFICES ASSUME Init PROVE WatchInv
  OBVIOUS
<1>1. WatchTypes
  BY WatchTypesInit
<1>2. commands = <<Command("acquired", 0, TRUE, FALSE)>> /\ DOMAIN commands = {1}
      /\ commands[1].kind = "acquired"
  BY DEF Init, Command
<1>3. InOrder
  <2>1. /\ accepted = 0 /\ inbox = {} /\ tree \in Nat
        /\ \A i \in DOMAIN commands : commands[i].kind # "event"
    BY <1>1, <1>2 DEF Init, WatchTypes, FileTypes
  <2> QED BY <2>1 DEF InOrder, Ordered
<1>4. ScansInOrder /\ JobIsPlaced
  BY <1>1 DEF Init, ScansInOrder, JobIsPlaced, NoJob, Threads, WatchTypes, FileTypes
<1>5. TodoIsWellFormed /\ \A o : ~SettleIsDue(o)
  BY DEF Init, TodoIsWellFormed, WellFormed, SettleIsDue, Threads
<1>6. ~Working /\ \A i : ~CompletedAt(i)
  BY <1>2 DEF Init, Working, NoJob, CompletedAt
<1>7. OneInFlight /\ InFlightCovers
  BY <1>5, <1>6 DEF Init, OneInFlight, InFlightCovers, IsSettling, Unknown
<1> QED BY <1>1, <1>3, <1>4, <1>5, <1>7 DEF WatchInv

LEMMA WatchInvStep == WatchInv /\ [Next]_vars => WatchInv'
BY WatchTypesStep, TodoStep, JobIsPlacedStep, InOrderStep, ScansInOrderStep, OneInFlightStep,
   InFlightCoversStep DEF WatchInv

-----------------------------------------------------------------------------
(* One call: what a step makes of it. *)

\* A step turns call q into c; what it may insert is what it could before, or the files as they are.
Becomes(q, c) ==
  /\ query' = [query EXCEPT ![q] = c]
  /\ c \in Call /\ IsSound(c) /\ IsPlaced(c)
  /\ ToInsert(c) => \/ c.snapshot = tree
                    \/ ToInsert(query[q]) /\ c.snapshot = query[q].snapshot

LEMMA CallFacts ==
  ASSUME CacheInv, NEW q \in Queries
  PROVE  /\ query[q] \in Call /\ IsSound(query[q]) /\ IsPlaced(query[q])
         /\ tree \in Nat /\ latest \in Nat /\ accepted \in Nat /\ lifted \in Nat
         /\ latest <= tree /\ accepted <= tree
         /\ lease \in BOOLEAN /\ stored \in [Families -> Answers]
         /\ entry \in [kind: {"none", "dirty", "ready"}, snapshot: Nat]
BY DEF CacheInv, CallTypes, CallsAreSound, WatchInv, WatchTypes, FileTypes, ScansInOrder, InOrder, Ordered

\* A version no older than what is accepted is current for a call; and a call that finds no
\* mark may use the latest snapshot and the freshness answers.
LEMMA CurrentFacts ==
  ASSUME CacheInv, NEW n \in Nat, n <= accepted
  PROVE  /\ Current(tree, n)
         /\ entry # Dirty => /\ Current(latest, n)
                             /\ \A v \in Nat : FreshResponse(v) => Current(v, n)
<1>1. /\ tree \in Nat /\ latest \in Nat /\ accepted \in Nat /\ lifted \in Nat /\ accepted <= tree
  BY DEF CacheInv, WatchInv, WatchTypes, FileTypes, InOrder, Ordered
<1>2. \A v \in Nat : Current(v, accepted) => Current(v, n)
  BY <1>1 DEF Current
<1>3. entry # Dirty => Current(latest, accepted) /\ \A v \in Nat : FreshResponse(v) => Current(v, accepted)
  BY DEF CacheInv, UnmarkedIsCurrent, FreshIsCurrent
<1> QED BY <1>1, <1>2, <1>3 DEF Current

LEMMA GuardsFacts ==
  /\ \A k \in Kinds : GuardReads(k) \in Seq(Guards)
  /\ \A k \in Kinds : GuardReads(k) # <<>> => \E i \in DOMAIN GuardReads(k) : GuardReads(k)[i] = "dirty"
  /\ \A k \in Kinds : GuardReads(k) # <<>> <=> k \in {"corpus", "response"}
<1>1. /\ GuardReads("corpus") = <<"epoch", "dirty", "lease", "work">>
      /\ GuardReads("response") = <<"work", "dirty", "lease", "epoch">>
      /\ GuardReads("search") = <<>> /\ GuardReads("projection") = <<>>
  BY DEF GuardReads
<1>2. Kinds = {"corpus", "response", "search", "projection"}
  BY DEF Kinds, Families
<1>3. ASSUME NEW a \in Guards, NEW b \in Guards, NEW c \in Guards, NEW d \in Guards
      PROVE  /\ <<a, b, c, d>> \in Seq(Guards) /\ <<a, b, c, d>> # <<>>
             /\ 2 \in DOMAIN <<a, b, c, d>> /\ <<a, b, c, d>>[2] = b
  OBVIOUS
<1>4. "epoch" \in Guards /\ "dirty" \in Guards /\ "lease" \in Guards /\ "work" \in Guards
  BY DEF Guards
<1>5. <<>> \in Seq(Guards)
  OBVIOUS
<1>6. /\ GuardReads("corpus") \in Seq(Guards) /\ GuardReads("corpus") # <<>>
      /\ 2 \in DOMAIN GuardReads("corpus") /\ GuardReads("corpus")[2] = "dirty"
  <2>1. ASSUME NEW s, s = <<"epoch", "dirty", "lease", "work">>
        PROVE  s \in Seq(Guards) /\ s # <<>> /\ 2 \in DOMAIN s /\ s[2] = "dirty"
    BY <1>3, <1>4, <2>1
  <2> QED BY <1>1, <2>1
<1>7. /\ GuardReads("response") \in Seq(Guards) /\ GuardReads("response") # <<>>
      /\ 2 \in DOMAIN GuardReads("response") /\ GuardReads("response")[2] = "dirty"
  <2>1. ASSUME NEW s, s = <<"work", "dirty", "lease", "epoch">>
        PROVE  s \in Seq(Guards) /\ s # <<>> /\ 2 \in DOMAIN s /\ s[2] = "dirty"
    BY <1>3, <1>4, <2>1
  <2> QED BY <1>1, <2>1
<1>8. \A k \in {"search", "projection"} : GuardReads(k) = <<>>
  BY <1>1
<1> QED BY <1>2, <1>5, <1>6, <1>7, <1>8

LEMMA AfterGuardsFacts ==
  ASSUME NEW k \in Kinds, NEW t \in BOOLEAN
  PROVE  /\ AfterGuards(k, t) \in {"bypass", "load", "trusted_load", "cached"}
         /\ AfterGuards(k, t) = "trusted_load" => k = "corpus" /\ t
         /\ AfterGuards(k, t) = "load" => k \in {"corpus", "response"} /\ ~t
         /\ AfterGuards(k, t) = "cached" => k = "projection" \/ (k = "response" /\ t)
BY DEF AfterGuards, Kinds, Families

LEMMA IdleFacts ==
  /\ Idle \in Call /\ Idle.pc = "idle" /\ Idle.kind = "search" /\ ~Idle.trusted
  /\ Idle.snapshot = 0 /\ Idle.seen = 0
<1>1. <<>> \in Seq(Guards)
  OBVIOUS
<1> QED BY <1>1 DEF Idle, Call, Places, Kinds

LEMMA BeginStep ==
  ASSUME CacheInv, NEW q \in Queries, NEW k \in Kinds, Begin(q, k)
  PROVE  \E c : Becomes(q, c)
<1> DEFINE reads == GuardReads(k)
           trusted == reads # <<>>
           pc == IF reads = <<>> THEN AfterGuards(k, FALSE) ELSE "guards"
           snap == IF k = "projection" THEN latest ELSE 0
           c == [Idle EXCEPT !.kind = k, !.seen = accepted, !.reads = reads, !.trusted = trusted,
                             !.pc = pc, !.snapshot = snap]
<1>t. /\ tree \in Nat /\ latest \in Nat /\ accepted \in Nat /\ latest <= tree
  BY CallFacts
<1>1. query' = [query EXCEPT ![q] = c]
  BY DEF Begin, Go
<1>2. /\ reads \in Seq(Guards) /\ (reads # <<>> <=> k \in {"corpus", "response"})
      /\ reads # <<>> => \E i \in DOMAIN reads : reads[i] = "dirty"
      /\ trusted \in BOOLEAN /\ (trusted <=> reads # <<>>)
  BY GuardsFacts
<1>3. pc \in Places /\ snap \in Nat /\ snap <= tree
  <2>1. FALSE \in BOOLEAN
    OBVIOUS
  <2>2. AfterGuards(k, FALSE) \in {"bypass", "load", "trusted_load", "cached"}
    BY <2>1, AfterGuardsFacts
  <2>3. pc \in {"guards", "bypass", "load", "trusted_load", "cached"}
    BY <2>2
  <2>4. pc \in Places
    BY <2>3 DEF Places
  <2>5. snap \in {latest, 0}
    OBVIOUS
  <2> HIDE DEF snap
  <2>6. snap \in Nat /\ snap <= tree
    BY <1>t, <2>5
  <2> QED BY <2>4, <2>6
<1>5. /\ pc \in {"bypass", "cached", "guards"}
      /\ pc = "cached" => k = "projection"
      /\ pc = "guards" => reads # <<>>
  BY <1>2, AfterGuardsFacts
<1> HIDE DEF pc, reads, snap, trusted
<1>4. c \in Call
  BY <1>t, <1>2, <1>3, IdleFacts DEF Call
<1>6. /\ c.pc = pc /\ c.kind = k /\ c.reads = reads /\ c.trusted = trusted /\ c.snapshot = snap
      /\ c.seen = accepted
  BY IdleFacts DEF Call
<1> HIDE DEF c
<1>7. ~FoundUnmarked(c) /\ ~UsesLatest(c) /\ ~UsesSnapshot(c) /\ ~ToInsert(c)
  BY <1>2, <1>5, <1>6 DEF FoundUnmarked, UsesLatest, UsesSnapshot, ToInsert
<1>8. IsSound(c)
  BY <1>t, <1>3, <1>5, <1>6, <1>7 DEF IsSound
<1>9. IsPlaced(c)
  BY <1>5, <1>6 DEF IsPlaced
<1> QED BY <1>1, <1>4, <1>7, <1>8, <1>9 DEF Becomes

LEMMA ReadGuardStep ==
  ASSUME CacheInv, NEW q \in Queries, ReadGuard(q)
  PROVE  \E c : Becomes(q, c)
<1> DEFINE o == query[q]  read == Head(o.reads)  rest == Tail(o.reads)
           ok == o.trusted /\ GuardHolds(read)
           fresh == IF read = "epoch" THEN TRUE ELSE o.fresh
           pc == IF rest = <<>> THEN AfterGuards(o.kind, ok) ELSE o.pc
           c == [o EXCEPT !.reads = rest, !.trusted = ok, !.fresh = fresh, !.pc = pc]
<1>t. /\ o \in Call /\ IsSound(o) /\ IsPlaced(o) /\ o.pc = "guards"
      /\ lease \in BOOLEAN /\ accepted \in Nat
  BY CallFacts DEF ReadGuard, At
<1>k. /\ o.kind \in Kinds /\ o.reads \in Seq(Guards) /\ o.trusted \in BOOLEAN /\ o.fresh \in BOOLEAN
      /\ o.seen \in Nat /\ o.reads # <<>> /\ o.seen <= accepted
  BY <1>t DEF Call, IsPlaced, IsSound
<1>1. query' = [query EXCEPT ![q] = c]
  BY DEF ReadGuard, Go
<1>2. /\ read \in Guards /\ rest \in Seq(Guards) /\ 1 \in DOMAIN o.reads /\ o.reads[1] = read
      /\ \A i \in DOMAIN rest : i + 1 \in DOMAIN o.reads /\ rest[i] = o.reads[i + 1]
      /\ \A i \in DOMAIN o.reads : i = 1 \/ (i - 1 \in DOMAIN rest /\ rest[i - 1] = o.reads[i])
  <2>1. /\ read \in Guards /\ rest \in Seq(Guards) /\ 1 \in DOMAIN o.reads /\ o.reads[1] = read
        /\ Len(o.reads) \in Nat /\ Len(rest) = Len(o.reads) - 1 /\ DOMAIN o.reads = 1 .. Len(o.reads)
        /\ \A i \in DOMAIN rest : i \in Nat /\ i + 1 \in DOMAIN o.reads /\ rest[i] = o.reads[i + 1]
    BY <1>k, TailEntries
  <2>2. DOMAIN rest = 1 .. Len(rest)
    BY <2>1, LenProperties
  <2>3. ASSUME NEW i \in DOMAIN o.reads, i # 1 PROVE i - 1 \in DOMAIN rest /\ rest[i - 1] = o.reads[i]
    <3>1. i - 1 \in DOMAIN rest /\ i - 1 + 1 = i
      BY <2>1, <2>2, <2>3
    <3> QED BY <2>1, <3>1
  <2> QED BY <2>1, <2>3
<1>3. GuardHolds(read) \in BOOLEAN /\ (read = "dirty" /\ GuardHolds(read) => entry # Dirty)
  BY <1>t, <1>2 DEF GuardHolds, Guards
<1>4. ok \in BOOLEAN /\ (ok => o.trusted /\ GuardHolds(read))
  BY <1>k, <1>3
<1>5. /\ pc \in {"guards", "bypass", "load", "trusted_load", "cached"} /\ fresh \in BOOLEAN
      /\ pc = "guards" => rest # <<>>
      /\ pc = "trusted_load" => rest = <<>> /\ o.kind = "corpus" /\ ok
      /\ pc = "load" => o.kind \in {"corpus", "response"} /\ ~ok
      /\ pc = "cached" => o.kind = "projection" \/ (o.kind = "response" /\ ok /\ rest = <<>>)
  BY <1>t, <1>k, <1>4, AfterGuardsFacts
<1> HIDE DEF read, rest, ok, fresh, pc
<1>6. c \in Call
  BY <1>t, <1>2, <1>4, <1>5 DEF Call, Places
<1>7. /\ c.pc = pc /\ c.kind = o.kind /\ c.reads = rest /\ c.trusted = ok /\ c.snapshot = o.snapshot
      /\ c.seen = o.seen
  BY <1>t DEF Call
<1> HIDE DEF c
<1>8. ASSUME FoundUnmarked(c)
      PROVE  Current(latest, o.seen) /\ (o.kind = "response" => \A v \in Nat : FreshResponse(v) => Current(v, o.seen))
  <2>1. ok /\ \A i \in DOMAIN rest : rest[i] # "dirty"
    BY <1>7, <1>8 DEF FoundUnmarked
  <2>2. CASE read = "dirty"
    BY <1>k, <1>3, <1>4, <2>1, <2>2, CurrentFacts
  <2>3. CASE read # "dirty"
    <3>1. FoundUnmarked(o)
      BY <1>2, <1>4, <2>1, <2>3 DEF FoundUnmarked
    <3> QED BY <1>t, <3>1 DEF IsSound
  <2> QED BY <2>2, <2>3
<1>9. /\ ~UsesSnapshot(c) /\ ~ToInsert(c)
      /\ UsesLatest(c) => FoundUnmarked(c)
  <2>1. ASSUME UsesLatest(c) PROVE FoundUnmarked(c)
    <3>1. pc = "trusted_load"
      BY <1>5, <1>7, <2>1 DEF UsesLatest, UsesCache
    <3> QED BY <1>5, <1>7, <3>1 DEF FoundUnmarked
  <2> QED BY <1>5, <1>7, <2>1 DEF UsesSnapshot, ToInsert
<1>10. IsSound(c)
  BY <1>t, <1>5, <1>7, <1>8, <1>9 DEF IsSound
<1>11. IsPlaced(c)
  BY <1>5, <1>7 DEF IsPlaced
<1> QED BY <1>1, <1>6, <1>9, <1>10, <1>11 DEF Becomes

\* What a call keeps while it goes on.
SameCall(c, o) == c.kind = o.kind /\ c.reads = o.reads /\ c.trusted = o.trusted /\ c.seen = o.seen

LEMMA MovesOn ==
  ASSUME CacheInv, NEW q \in Queries, NEW c \in Call, query' = [query EXCEPT ![q] = c],
         SameCall(c, query[q]), c.snapshot <= tree,
         UsesLatest(c) => Current(latest, c.seen),
         UsesSnapshot(c) => Current(c.snapshot, c.seen),
         c.pc \in {"insert", "answer"} /\ c.kind # "projection" => Current(c.result, c.seen),
         IsPlaced(c),
         ToInsert(c) => c.snapshot = tree \/ (ToInsert(query[q]) /\ c.snapshot = query[q].snapshot)
  PROVE  Becomes(q, c)
<1>1. IsSound(query[q])
  BY CallFacts
<1>2. FoundUnmarked(c) <=> FoundUnmarked(query[q])
  BY DEF FoundUnmarked, SameCall
<1>3. IsSound(c)
  BY <1>1, <1>2 DEF IsSound, SameCall
<1> QED BY <1>3 DEF Becomes

LEMMA PcOf ==
  ASSUME NEW o \in Call, NEW p \in Places, NEW c, c = [o EXCEPT !.pc = p]
  PROVE  /\ c \in Call /\ SameCall(c, o) /\ c.pc = p /\ c.snapshot = o.snapshot
         /\ c.fresh = o.fresh /\ c.result = o.result
BY DEF Call, SameCall

LEMMA AnsweredSound ==
  ASSUME CacheInv, NEW q \in Queries, NEW r \in Nat,
         query[q].kind # "projection" => Current(r, query[q].seen),
         query' = [query EXCEPT ![q] = Answered(query[q], r)]
  PROVE  \E c : Becomes(q, c)
<1> DEFINE o == query[q]
           c == Answered(o, r)
<1>1. o \in Call /\ IsSound(o) /\ tree \in Nat
  BY CallFacts
<1>2. c = [Idle EXCEPT !.kind = o.kind, !.seen = o.seen, !.result = r, !.pc = "answer"]
  BY DEF Answered
<1>3. /\ c \in Call /\ c.pc = "answer" /\ c.kind = o.kind /\ c.seen = o.seen /\ c.result = r
      /\ c.snapshot = 0 /\ ~c.trusted
  BY <1>1, <1>2, IdleFacts DEF Call, Places
<1> HIDE DEF c
<1>4. ~FoundUnmarked(c) /\ ~UsesLatest(c) /\ ~UsesSnapshot(c) /\ ~ToInsert(c)
  BY <1>3 DEF FoundUnmarked, UsesLatest, UsesSnapshot, ToInsert
<1>5. IsSound(c)
  BY <1>1, <1>3, <1>4 DEF IsSound
<1>6. IsPlaced(c)
  BY <1>3 DEF IsPlaced
<1>7. query' = [query EXCEPT ![q] = c]
  BY DEF c
<1> QED BY <1>3, <1>4, <1>5, <1>6, <1>7 DEF Becomes

LEMMA IdleSound ==
  ASSUME CacheInv, NEW q \in Queries, query' = [query EXCEPT ![q] = Idle]
  PROVE  \E c : Becomes(q, c)
<1>1. /\ ~FoundUnmarked(Idle) /\ ~UsesLatest(Idle) /\ ~UsesSnapshot(Idle) /\ ~ToInsert(Idle)
  BY IdleFacts DEF FoundUnmarked, UsesLatest, UsesSnapshot, ToInsert
<1>2. IsSound(Idle)
  BY <1>1, IdleFacts, CallFacts DEF IsSound
<1>3. IsPlaced(Idle)
  BY IdleFacts DEF IsPlaced
<1> QED BY <1>1, <1>2, <1>3, IdleFacts DEF Becomes

LEMMA BypassStep ==
  ASSUME CacheInv, NEW q \in Queries, Bypass(q)
  PROVE  \E c : Becomes(q, c)
<1> DEFINE o == query[q]
<1>t. o \in Call /\ IsSound(o) /\ o.pc = "bypass" /\ accepted \in Nat /\ o.seen \in Nat /\ o.seen <= accepted
  BY CallFacts DEF Bypass, At, Call, IsSound
<1>1. PICK p : /\ query' = [query EXCEPT ![q] = [o EXCEPT !.pc = p]]
               /\ p \in {"live", "load"} /\ (p = "load" => entry # Dirty)
  <2> DEFINE p == IF entry = Dirty THEN "live" ELSE "load"
  <2>1. query' = [query EXCEPT ![q] = [o EXCEPT !.pc = p]]
    BY DEF Bypass, Go
  <2>2. p \in {"live", "load"} /\ (p = "load" => entry # Dirty)
    OBVIOUS
  <2> HIDE DEF p
  <2> QED BY <2>1, <2>2
<1>2. PICK c : c = [o EXCEPT !.pc = p]
  OBVIOUS
<1>3. c \in Call /\ SameCall(c, o) /\ c.pc = p /\ c.snapshot = o.snapshot
  BY <1>t, <1>1, <1>2, PcOf DEF Places
<1>4. UsesLatest(c) => Current(latest, c.seen)
  BY <1>t, <1>1, <1>3, CurrentFacts DEF UsesLatest, SameCall
<1>5. ~UsesSnapshot(c) /\ ~ToInsert(c) /\ IsPlaced(c)
  BY <1>1, <1>3 DEF UsesSnapshot, ToInsert, IsPlaced
<1> QED BY <1>t, <1>1, <1>2, <1>3, <1>4, <1>5, MovesOn DEF IsSound

LEMMA LoadLatestStep ==
  ASSUME CacheInv, NEW q \in Queries, LoadLatest(q)
  PROVE  \E c : Becomes(q, c)
<1> DEFINE o == query[q]
<1>t. /\ o \in Call /\ IsSound(o) /\ IsPlaced(o) /\ o.pc \in {"load", "trusted_load"}
      /\ latest \in Nat /\ latest <= tree
  BY CallFacts DEF LoadLatest, At
<1>1. PICK p : /\ query' = [query EXCEPT ![q] = [o EXCEPT !.snapshot = latest, !.pc = p]]
               /\ p \in {"trusted_lookup", "lookup", "validate"}
               /\ p = "trusted_lookup" => o.pc = "trusted_load"
               /\ p = "lookup" => o.pc = "load" /\ UsesCache(o)
  <2> DEFINE p == CASE o.pc = "trusted_load" -> "trusted_lookup"
                    [] o.pc = "load" /\ UsesCache(o) -> "lookup"
                    [] OTHER -> "validate"
  <2>1. query' = [query EXCEPT ![q] = [o EXCEPT !.snapshot = latest, !.pc = p]]
    BY DEF LoadLatest, Go
  <2>2. /\ p \in {"trusted_lookup", "lookup", "validate"}
        /\ p = "trusted_lookup" => o.pc = "trusted_load"
        /\ p = "lookup" => o.pc = "load" /\ UsesCache(o)
    BY <1>t
  <2> HIDE DEF p
  <2> QED BY <2>1, <2>2
<1>2. PICK c : c = [o EXCEPT !.snapshot = latest, !.pc = p]
  OBVIOUS
<1>3. c \in Call /\ SameCall(c, o) /\ c.pc = p /\ c.snapshot = latest
  BY <1>t, <1>1, <1>2 DEF Places, Call, SameCall
<1>4. UsesSnapshot(c) => Current(latest, c.seen)
  BY <1>t, <1>1, <1>3 DEF UsesLatest, UsesSnapshot, SameCall, IsSound
<1>5. ~UsesLatest(c) /\ ~ToInsert(c)
  BY <1>1, <1>3 DEF UsesLatest, ToInsert
<1>6. IsPlaced(c)
  BY <1>t, <1>1, <1>3 DEF IsPlaced, SameCall, UsesCache
<1> QED BY <1>t, <1>1, <1>2, <1>3, <1>4, <1>5, <1>6, MovesOn

LEMMA lookupStep ==
  ASSUME CacheInv, NEW q \in Queries, lookup(q)
  PROVE  \E c : Becomes(q, c)
<1> DEFINE o == query[q]
<1>t. /\ o \in Call /\ IsSound(o) /\ IsPlaced(o) /\ o.pc \in {"lookup", "trusted_lookup"}
  BY CallFacts DEF lookup, At
<1>1. PICK p : /\ query' = [query EXCEPT ![q] = [o EXCEPT !.pc = p]]
               /\ p \in {"use", "bypass", "live", "validate"}
  BY DEF lookup, Go
<1>2. PICK c : c = [o EXCEPT !.pc = p]
  OBVIOUS
<1>3. c \in Call /\ SameCall(c, o) /\ c.pc = p /\ c.snapshot = o.snapshot
  BY <1>t, <1>1, <1>2, PcOf DEF Places
<1>4. UsesSnapshot(c) => Current(c.snapshot, c.seen)
  BY <1>t, <1>1, <1>3 DEF UsesSnapshot, SameCall, IsSound
<1>5. ~UsesLatest(c) /\ ~ToInsert(c)
  BY <1>1, <1>3 DEF UsesLatest, ToInsert
<1>6. IsPlaced(c)
  BY <1>t, <1>1, <1>3 DEF IsPlaced, SameCall
<1> QED BY <1>t, <1>1, <1>2, <1>3, <1>4, <1>5, <1>6, MovesOn DEF IsSound

LEMMA ValidateStep ==
  ASSUME CacheInv, NEW q \in Queries, Validate(q)
  PROVE  \E c : Becomes(q, c)
<1> DEFINE o == query[q]
<1>t. /\ o \in Call /\ IsSound(o) /\ IsPlaced(o) /\ o.pc = "validate" /\ accepted \in Nat
      /\ o.seen \in Nat /\ o.seen <= accepted /\ o.kind \in Kinds
  BY CallFacts DEF Validate, At, Call, IsSound
<1>1. PICK p : /\ query' = [query EXCEPT ![q] = [o EXCEPT !.pc = p]]
               /\ p \in {"live", "recheck_dirty", "store", "use"}
               /\ p # "live" => o.snapshot = tree
               /\ p \in {"store", "use"} => o.kind # "response"
  <2> DEFINE p == CASE o.snapshot # tree -> "live"
                    [] o.snapshot = tree /\ o.kind = "response" -> "recheck_dirty"
                    [] OTHER -> IF UsesCache(o) THEN "store" ELSE "use"
  <2>1. query' = [query EXCEPT ![q] = [o EXCEPT !.pc = p]]
    BY DEF Validate, Go
  <2>2. /\ p \in {"live", "recheck_dirty", "store", "use"}
        /\ p # "live" => o.snapshot = tree
        /\ p \in {"store", "use"} => o.kind # "response"
    OBVIOUS
  <2> HIDE DEF p
  <2> QED BY <2>1, <2>2
<1>2. PICK c : c = [o EXCEPT !.pc = p]
  OBVIOUS
<1>3. c \in Call /\ SameCall(c, o) /\ c.pc = p /\ c.snapshot = o.snapshot
  BY <1>t, <1>1, <1>2, PcOf DEF Places
<1>4. UsesSnapshot(c) => Current(c.snapshot, c.seen)
  <2>1. Current(tree, o.seen)
    BY <1>t, CurrentFacts
  <2>2. UsesSnapshot(c) => c.snapshot = tree
    BY <1>1, <1>3 DEF UsesSnapshot
  <2> QED BY <1>3, <2>1, <2>2 DEF SameCall
<1>5. ~UsesLatest(c) /\ (ToInsert(c) => c.snapshot = tree)
  BY <1>1, <1>3 DEF UsesLatest, ToInsert
<1>6. IsPlaced(c)
  BY <1>t, <1>1, <1>3 DEF IsPlaced, SameCall
<1> QED BY <1>t, <1>1, <1>2, <1>3, <1>4, <1>5, <1>6, MovesOn DEF IsSound

LEMMA store_validated_sharedStep ==
  ASSUME CacheInv, NEW q \in Queries, store_validated_shared(q)
  PROVE  \E c : Becomes(q, c)
<1> DEFINE o == query[q]
<1>t. o \in Call /\ IsSound(o) /\ IsPlaced(o) /\ o.pc = "store"
  BY CallFacts DEF store_validated_shared, At
<1>1. query' = [query EXCEPT ![q] = [o EXCEPT !.pc = "use"]]
  BY DEF store_validated_shared, Go
<1>2. PICK c : c = [o EXCEPT !.pc = "use"]
  OBVIOUS
<1>3. c \in Call /\ SameCall(c, o) /\ c.pc = "use" /\ c.snapshot = o.snapshot
  BY <1>t, <1>1, <1>2, PcOf DEF Places
<1>4. UsesSnapshot(c) => Current(c.snapshot, c.seen)
  BY <1>t, <1>3 DEF UsesSnapshot, SameCall, IsSound
<1>5. ~UsesLatest(c) /\ ~ToInsert(c)
  BY <1>3 DEF UsesLatest, ToInsert
<1>6. IsPlaced(c)
  BY <1>t, <1>3 DEF IsPlaced, SameCall
<1> QED BY <1>t, <1>1, <1>2, <1>3, <1>4, <1>5, <1>6, MovesOn DEF IsSound

LEMMA WalkLiveStep ==
  ASSUME CacheInv, NEW q \in Queries, WalkLive(q)
  PROVE  \E c : Becomes(q, c)
<1> DEFINE o == query[q]
<1>t. /\ o \in Call /\ IsSound(o) /\ o.pc = "live" /\ accepted \in Nat /\ tree \in Nat
      /\ o.seen \in Nat /\ o.seen <= accepted
  BY CallFacts DEF WalkLive, At, Call, IsSound
<1>0. Current(tree, o.seen)
  BY <1>t, CurrentFacts
<1>1. CASE o.kind # "corpus"
  <2>1. query' = [query EXCEPT ![q] = Answered(o, tree)]
    BY <1>1 DEF WalkLive, Go
  <2> QED BY <1>t, <1>0, <2>1, AnsweredSound
<1>2. CASE o.kind = "corpus"
  <2>1. query' = [query EXCEPT ![q] = [o EXCEPT !.snapshot = tree, !.live = TRUE, !.pc = "use"]]
    BY <1>2 DEF WalkLive, Go
  <2>2. PICK c : c = [o EXCEPT !.snapshot = tree, !.live = TRUE, !.pc = "use"]
    OBVIOUS
  <2>3. c \in Call /\ SameCall(c, o) /\ c.pc = "use" /\ c.snapshot = tree
    BY <1>t, <2>2 DEF Places, Call, SameCall
  <2>4. UsesSnapshot(c) => Current(c.snapshot, c.seen)
    BY <1>0, <2>3 DEF SameCall
  <2>5. ~UsesLatest(c) /\ ~ToInsert(c)
    BY <2>3 DEF UsesLatest, ToInsert
  <2>6. IsPlaced(c)
    BY <1>2, <2>3 DEF IsPlaced, SameCall
  <2>7. c.snapshot <= tree /\ c.pc \notin {"insert", "answer"}
    BY <1>t, <2>3
  <2> QED BY <2>1, <2>2, <2>3, <2>4, <2>5, <2>6, <2>7, MovesOn
<1> QED BY <1>1, <1>2

LEMMA UseStep ==
  ASSUME CacheInv, NEW q \in Queries, Use(q)
  PROVE  \E c : Becomes(q, c)
<1> DEFINE o == query[q]
           kept == stored["corpus"]
           hit == kept.full /\ kept.snapshot = o.snapshot /\ kept.live = o.live
<1>t. /\ o \in Call /\ IsSound(o) /\ IsPlaced(o) /\ o.pc = "use" /\ kept \in Answers
      /\ lifted \in Nat /\ o.seen \in Nat /\ o.snapshot \in Nat
  BY CallFacts DEF Use, At, Call, Families
<1>0. Current(o.snapshot, o.seen) /\ o.kind # "response"
  BY <1>t DEF IsSound, IsPlaced, UsesSnapshot
<1>1. CASE o.kind = "search"
  <2>1. query' = [query EXCEPT ![q] = Answered(o, o.snapshot)]
    BY <1>1 DEF Use, Go
  <2> QED BY <1>t, <1>0, <2>1, AnsweredSound
<1>2. CASE o.kind = "corpus" /\ hit
  <2>1. query' = [query EXCEPT ![q] = Answered(o, kept.content)]
    BY <1>2 DEF Use, Go
  <2>2. kept.content \in Nat /\ o.snapshot <= kept.content
    BY <1>t, <1>2 DEF Answers, CacheInv, CorpusIsOfSnapshot
  <2>3. Current(kept.content, o.seen)
    BY <1>t, <1>0, <2>2 DEF Current
  <2> QED BY <2>1, <2>2, <2>3, AnsweredSound
<1>3. CASE ~(o.kind = "search") /\ ~(o.kind = "corpus" /\ hit)
  <2>1. query' = [query EXCEPT ![q] = [o EXCEPT !.pc = "build"]]
    BY <1>3 DEF Use, Go
  <2>2. PICK c : c = [o EXCEPT !.pc = "build"]
    OBVIOUS
  <2>3. c \in Call /\ SameCall(c, o) /\ c.pc = "build" /\ c.snapshot = o.snapshot
    BY <1>t, <2>2, PcOf DEF Places
  <2>4. UsesSnapshot(c) => Current(c.snapshot, c.seen)
    BY <1>0, <2>3 DEF SameCall
  <2>5. ~UsesLatest(c) /\ ~ToInsert(c)
    BY <2>3 DEF UsesLatest, ToInsert
  <2>6. IsPlaced(c)
    BY <1>0, <2>3 DEF IsPlaced, SameCall
  <2> QED BY <1>t, <2>1, <2>2, <2>3, <2>4, <2>5, <2>6, MovesOn DEF IsSound
<1> QED BY <1>1, <1>2, <1>3

LEMMA BuildCorpusStep ==
  ASSUME CacheInv, NEW q \in Queries, BuildCorpus(q)
  PROVE  \E c : Becomes(q, c)
<1> DEFINE o == query[q]
<1>t. /\ o \in Call /\ IsSound(o) /\ IsPlaced(o) /\ o.pc = "build" /\ accepted \in Nat /\ tree \in Nat
      /\ o.seen \in Nat /\ o.seen <= accepted /\ o.snapshot <= tree
  BY CallFacts DEF BuildCorpus, At, Call, IsSound
<1>1. query' = [query EXCEPT ![q] = [o EXCEPT !.result = tree, !.pc = "insert"]]
  BY DEF BuildCorpus, Go
<1>2. PICK c : c = [o EXCEPT !.result = tree, !.pc = "insert"]
  OBVIOUS
<1>3. c \in Call /\ SameCall(c, o) /\ c.pc = "insert" /\ c.snapshot = o.snapshot /\ c.result = tree
  BY <1>t, <1>2 DEF Places, Call, SameCall
<1>4. Current(c.result, c.seen)
  BY <1>t, <1>3, CurrentFacts DEF SameCall
<1>5. o.kind # "response"
  BY <1>t DEF IsPlaced
<1>6. ~UsesLatest(c) /\ ~UsesSnapshot(c) /\ ~ToInsert(c)
  BY <1>3, <1>5 DEF UsesLatest, UsesSnapshot, ToInsert, SameCall
<1>7. IsPlaced(c)
  BY <1>t, <1>3, <1>5 DEF IsPlaced, SameCall
<1> QED BY <1>t, <1>1, <1>2, <1>3, <1>4, <1>6, <1>7, MovesOn

LEMMA CachedStep ==
  ASSUME CacheInv, NEW q \in Queries, Cached(q)
  PROVE  \E c : Becomes(q, c)
<1> DEFINE o == query[q]
           kept == stored[o.kind]
           hit == kept.full /\ IF o.kind = "response" THEN kept.current ELSE kept.snapshot = o.snapshot
<1>t. /\ o \in Call /\ IsSound(o) /\ IsPlaced(o) /\ o.pc = "cached"
      /\ stored \in [Families -> Answers] /\ o.snapshot <= tree
  BY CallFacts DEF Cached, At, IsSound
<1>0. o.kind = "projection" \/ (o.kind = "response" /\ o.trusted /\ o.reads = <<>>)
  BY <1>t DEF IsPlaced
<1>k. kept \in Answers /\ kept.content \in Nat
  <2>1. kept \in Answers
    BY <1>t, <1>0 DEF Families
  <2> QED BY <2>1 DEF Answers
<1>1. CASE hit
  <2>1. query' = [query EXCEPT ![q] = Answered(o, kept.content)]
    BY <1>1 DEF Cached, Go
  <2>2. ASSUME o.kind # "projection" PROVE Current(kept.content, o.seen)
    <3>1. FoundUnmarked(o) /\ o.kind = "response"
      BY <1>0, <2>2 DEF FoundUnmarked
    <3>2. FreshResponse(kept.content)
      BY <1>1, <3>1 DEF FreshResponse
    <3> QED BY <1>t, <1>k, <3>1, <3>2 DEF IsSound
  <2> QED BY <1>k, <2>1, <2>2, AnsweredSound
<1>2. CASE ~hit /\ o.kind = "response"
  <2>1. query' = [query EXCEPT ![q] = [o EXCEPT !.pc = "load"]]
    BY <1>2 DEF Cached, Go
  <2>2. PICK c : c = [o EXCEPT !.pc = "load"]
    OBVIOUS
  <2>3. c \in Call /\ SameCall(c, o) /\ c.pc = "load" /\ c.snapshot = o.snapshot
    BY <1>t, <2>2, PcOf DEF Places
  <2>4. ~UsesLatest(c) /\ ~UsesSnapshot(c) /\ ~ToInsert(c)
    BY <1>2, <2>3 DEF UsesLatest, UsesSnapshot, ToInsert, SameCall, UsesCache
  <2>5. IsPlaced(c)
    BY <2>3 DEF IsPlaced
  <2> QED BY <1>t, <2>1, <2>2, <2>3, <2>4, <2>5, MovesOn
<1>3. CASE ~hit /\ ~(~hit /\ o.kind = "response")
  <2>1. query' = [query EXCEPT ![q] = [o EXCEPT !.fresh = TRUE, !.pc = "load_rows"]]
    BY <1>3 DEF Cached, Go
  <2>2. PICK c : c = [o EXCEPT !.fresh = TRUE, !.pc = "load_rows"]
    OBVIOUS
  <2>3. c \in Call /\ SameCall(c, o) /\ c.pc = "load_rows" /\ c.snapshot = o.snapshot
    BY <1>t, <2>2 DEF Places, Call, SameCall
  <2>4. ~UsesLatest(c) /\ ~UsesSnapshot(c) /\ ~ToInsert(c)
    BY <2>3 DEF UsesLatest, UsesSnapshot, ToInsert
  <2>5. IsPlaced(c)
    BY <1>0, <1>3, <2>3 DEF IsPlaced, SameCall
  <2> QED BY <1>t, <2>1, <2>2, <2>3, <2>4, <2>5, MovesOn
<1> QED BY <1>1, <1>2, <1>3

LEMMA LoadRowsStep ==
  ASSUME CacheInv, NEW q \in Queries, LoadRows(q)
  PROVE  \E c : Becomes(q, c)
<1> DEFINE o == query[q]
<1>t. o \in Call /\ IsSound(o) /\ IsPlaced(o) /\ o.pc = "load_rows" /\ o.snapshot \in Nat
  BY CallFacts DEF LoadRows, At, Call
<1>1. query' = [query EXCEPT ![q] = [o EXCEPT !.result = o.snapshot, !.pc = "check_epoch"]]
  BY DEF LoadRows, Go
<1>2. PICK c : c = [o EXCEPT !.result = o.snapshot, !.pc = "check_epoch"]
  OBVIOUS
<1>3. c \in Call /\ SameCall(c, o) /\ c.pc = "check_epoch" /\ c.snapshot = o.snapshot
  BY <1>t, <1>2 DEF Places, Call, SameCall
<1>4. ~UsesLatest(c) /\ ~UsesSnapshot(c) /\ ~ToInsert(c)
  BY <1>3 DEF UsesLatest, UsesSnapshot, ToInsert
<1>5. IsPlaced(c)
  BY <1>t, <1>3 DEF IsPlaced, SameCall
<1> QED BY <1>t, <1>1, <1>2, <1>3, <1>4, <1>5, MovesOn DEF IsSound

LEMMA RecheckStep ==
  ASSUME CacheInv, NEW q \in Queries, Recheck(q)
  PROVE  \E c : Becomes(q, c)
<1> DEFINE o == query[q]
           bad == IF o.pc = "recheck_dirty" THEN entry = Dirty ELSE job # NoJob
<1>t. /\ o \in Call /\ IsSound(o) /\ IsPlaced(o) /\ o.pc \in {"recheck_dirty", "recheck_work"}
      /\ o.snapshot \in Nat /\ Current(o.snapshot, o.seen) /\ o.snapshot <= tree
  BY CallFacts DEF Recheck, At, Call, IsSound, UsesSnapshot
<1>1. CASE bad
  <2>1. query' = [query EXCEPT ![q] = Idle]
    BY <1>1 DEF Recheck, Go
  <2> QED BY <2>1, IdleSound
<1>2. CASE ~bad /\ o.pc = "recheck_dirty"
  <2>1. query' = [query EXCEPT ![q] = [o EXCEPT !.pc = "recheck_work"]]
    BY <1>2 DEF Recheck, Go
  <2>2. PICK c : c = [o EXCEPT !.pc = "recheck_work"]
    OBVIOUS
  <2>3. /\ c \in Call /\ SameCall(c, o) /\ c.pc = "recheck_work" /\ c.snapshot = o.snapshot
        /\ c.fresh = o.fresh
    BY <1>t, <2>2, PcOf DEF Places
  <2>4. ~UsesLatest(c) /\ Current(c.snapshot, c.seen) /\ (ToInsert(c) => ToInsert(o))
    BY <1>t, <2>3 DEF UsesLatest, ToInsert, SameCall
  <2>5. IsPlaced(c)
    BY <2>3 DEF IsPlaced
  <2> QED BY <1>t, <2>1, <2>2, <2>3, <2>4, <2>5, MovesOn
<1>3. CASE ~bad /\ ~(~bad /\ o.pc = "recheck_dirty")
  <2>1. CASE ~o.trusted
    <3>1. query' = [query EXCEPT ![q] = Answered(o, o.snapshot)]
      BY <1>3, <2>1 DEF Recheck, Go
    <3> QED BY <1>t, <3>1, AnsweredSound
  <2>2. CASE o.trusted
    <3>1. query' = [query EXCEPT ![q] = [o EXCEPT !.result = o.snapshot, !.pc = "insert"]]
      BY <1>3, <2>2 DEF Recheck, Go
    <3>2. PICK c : c = [o EXCEPT !.result = o.snapshot, !.pc = "insert"]
      OBVIOUS
    <3>3. /\ c \in Call /\ SameCall(c, o) /\ c.pc = "insert" /\ c.snapshot = o.snapshot
          /\ c.fresh = o.fresh /\ c.result = o.snapshot
      BY <1>t, <3>2 DEF Places, Call, SameCall
    <3>4. /\ ~UsesLatest(c) /\ ~UsesSnapshot(c) /\ Current(c.result, c.seen)
          /\ ToInsert(c) => ToInsert(o)
      BY <1>t, <3>3 DEF UsesLatest, UsesSnapshot, ToInsert, SameCall
    <3>5. IsPlaced(c)
      BY <1>t, <3>3 DEF IsPlaced
    <3> QED BY <1>t, <3>1, <3>2, <3>3, <3>4, <3>5, MovesOn
  <2> QED BY <2>1, <2>2
<1> QED BY <1>1, <1>2, <1>3

LEMMA CheckEpochStep ==
  ASSUME CacheInv, NEW q \in Queries, CheckEpoch(q)
  PROVE  \E c : Becomes(q, c)
<1> DEFINE o == query[q]
<1>t. /\ o \in Call /\ IsSound(o) /\ o.pc = "check_epoch" /\ o.kind = "projection" /\ o.result \in Nat
      /\ o.snapshot <= tree
  BY CallFacts DEF CheckEpoch, At, Call, IsPlaced, IsSound
<1>1. CASE ~o.fresh
  <2>1. query' = [query EXCEPT ![q] = Answered(o, o.result)]
    BY <1>1 DEF CheckEpoch, Go
  <2> QED BY <1>t, <2>1, AnsweredSound
<1>2. CASE o.fresh
  <2>1. query' = [query EXCEPT ![q] = [o EXCEPT !.pc = "insert"]]
    BY <1>2 DEF CheckEpoch, Go
  <2>2. PICK c : c = [o EXCEPT !.pc = "insert"]
    OBVIOUS
  <2>3. c \in Call /\ SameCall(c, o) /\ c.pc = "insert" /\ c.snapshot = o.snapshot
    BY <1>t, <2>2, PcOf DEF Places
  <2>4. ~UsesLatest(c) /\ ~UsesSnapshot(c) /\ ~ToInsert(c) /\ c.kind = "projection"
    BY <1>t, <2>3 DEF UsesLatest, UsesSnapshot, ToInsert, SameCall
  <2>5. IsPlaced(c)
    BY <2>3, <2>4 DEF IsPlaced
  <2> QED BY <1>t, <2>1, <2>2, <2>3, <2>4, <2>5, MovesOn
<1> QED BY <1>1, <1>2

LEMMA InsertStep ==
  ASSUME CacheInv, NEW q \in Queries, Insert(q)
  PROVE  \E c : Becomes(q, c)
<1> DEFINE o == query[q]
<1>1. o \in Call /\ IsSound(o) /\ o.pc = "insert" /\ o.result \in Nat
  BY CallFacts DEF Insert, At, Call
<1>2. query' = [query EXCEPT ![q] = Answered(o, o.result)]
  BY DEF Insert, Go
<1>3. o.kind # "projection" => Current(o.result, o.seen)
  BY <1>1 DEF IsSound
<1> QED BY <1>1, <1>2, <1>3, AnsweredSound

CallStep(q) == Step(q) \/ \E k \in Kinds : Begin(q, k)

\* Whatever a call does, it stays sound.
LEMMA CallBecomes ==
  ASSUME CacheInv, NEW q \in Queries, CallStep(q)
  PROVE  \E c : Becomes(q, c)
<1>1. CASE Answer(q)
  BY <1>1, IdleSound DEF Answer, Go
<1>2. CASE \E k \in Kinds : Begin(q, k)
  BY <1>2, BeginStep
<1>3. CASE Step(q)
  BY <1>1, <1>3, ReadGuardStep, BypassStep, LoadLatestStep, lookupStep, ValidateStep,
     store_validated_sharedStep, WalkLiveStep, UseStep, BuildCorpusStep, CachedStep, LoadRowsStep,
     RecheckStep, CheckEpochStep, InsertStep DEF Step
<1> QED BY <1>2, <1>3 DEF CallStep

-----------------------------------------------------------------------------
(* The steps, by what they do to the caches. *)

Quiet == UNCHANGED <<entry, stored, query, accepted, lifted>>

LEMMA StepKinds ==
  ASSUME [Next]_vars
  PROVE  \/ \E q \in Queries : CallStep(q)
         \/ \E t \in Threads : BumpEpoch(t)
         \/ \E t \in Threads : ClearFamily(t)
         \/ invalidate_root \/ handle_notify_event \/ settle_success
         \/ Quiet
<1>1. ASSUME NEW c \in Calls, Begin(c[1], c[2]) PROVE \E q \in Queries : CallStep(q)
  <2>1. c[1] \in Queries /\ c[2] \in Kinds
    BY CallsAssumption DEF Kinds, Families
  <2> QED BY <1>1, <2>1 DEF CallStep
<1>2. CASE \E q \in Queries : Step(q)
  BY <1>2 DEF CallStep
<1>3. CASE Edit \/ Notify
  BY <1>3 DEF Edit, Notify, boundVars, Quiet
<1>4. CASE LeaseAcquired \/ LeaseReleased \/ dispatch \/ IndexCompleted \/ settle_failure
  BY <1>4 DEF LeaseAcquired, LeaseReleased, dispatch, IndexCompleted, settle_failure, boundVars, Quiet
<1>5. CASE Running
  BY <1>5 DEF Running, Scan, Commit, Fail, StartInvalidation, Finish, boundVars, watchVars, Quiet
<1>6. CASE workspace_attach \/ workspace_detach \/ workspace_index
  BY <1>6 DEF workspace_attach, workspace_detach, workspace_index, boundVars, watchVars, Quiet
<1>7. CASE UNCHANGED vars
  BY <1>7 DEF vars, boundVars, watchVars, Quiet
<1> QED BY <1>1, <1>2, <1>3, <1>4, <1>5, <1>6, <1>7 DEF Next, Invalidating, Supervising

LEMMA CallLeaves ==
  ASSUME NEW q \in Queries, CallStep(q)
  PROVE  UNCHANGED serverVars
<1>1. CASE Step(q)
  BY <1>1, CallsFrame DEF CallsNext
<1>2. ASSUME NEW k \in Kinds, Begin(q, k) PROVE UNCHANGED serverVars
  BY <1>2 DEF Begin, Go, serverVars
<1> QED BY <1>1, <1>2 DEF CallStep

\* No call sets or removes a Dirty mark.
LEMMA EntryOfCall ==
  ASSUME CacheInv, NEW q \in Queries, CallStep(q)
  PROVE  /\ entry' \in [kind: {"none", "dirty", "ready"}, snapshot: Nat]
         /\ entry' = Dirty <=> entry = Dirty
<1>t. /\ entry \in [kind: {"none", "dirty", "ready"}, snapshot: Nat]
      /\ query[q].snapshot \in Nat
  BY CallFacts DEF Call
<1>1. None.kind = "none" /\ Dirty.kind = "dirty" /\ None \in [kind: {"none", "dirty", "ready"}, snapshot: Nat]
  BY DEF None, Dirty
<1>2. ASSUME NEW v \in Nat
      PROVE  Ready(v) \in [kind: {"none", "dirty", "ready"}, snapshot: Nat] /\ Ready(v).kind = "ready"
  BY DEF Ready
<1>3. CASE entry' = entry
  BY <1>t, <1>3
<1>4. CASE entry' = IF entry.kind = "ready" /\ ~(entry = Ready(query[q].snapshot)) THEN None ELSE entry
  BY <1>t, <1>1, <1>4
<1>5. CASE entry' = AfterStore(entry, query[q].snapshot)
  <2>1. Ready(query[q].snapshot) # Dirty
    BY <1>t, <1>1, <1>2
  <2> QED BY <1>t, <1>2, <1>5, <2>1 DEF AfterStore
<1>6. CASE Step(q)
  BY <1>3, <1>4, <1>5, <1>6
     DEF Step, ReadGuard, Bypass, LoadLatest, lookup, Validate, store_validated_shared, WalkLive,
         Use, BuildCorpus, Cached, LoadRows, Recheck, CheckEpoch, Insert, Answer
<1>7. ASSUME NEW k \in Kinds, Begin(q, k) PROVE entry' = entry
  BY <1>7 DEF Begin
<1> QED BY <1>3, <1>6, <1>7 DEF CallStep

\* What a call leaves in the caches is the answer it came to insert.
Inserted(c) == [full |-> TRUE, snapshot |-> c.snapshot, live |-> c.live, content |-> c.result,
                current |-> c.fresh]

LEMMA StoredOfCall ==
  ASSUME CacheInv, NEW q \in Queries, CallStep(q)
  PROVE  \/ stored' = stored
         \/ /\ query[q].pc = "insert" /\ MayInsert(query[q])
            /\ stored' = [stored EXCEPT ![query[q].kind] = Inserted(query[q])]
<1>1. CASE Insert(q)
  BY <1>1 DEF Insert, At, Inserted
<1>2. CASE Step(q)
  BY <1>1, <1>2
     DEF Step, ReadGuard, Bypass, LoadLatest, lookup, Validate, store_validated_shared, WalkLive,
         Use, BuildCorpus, Cached, LoadRows, Recheck, CheckEpoch, Answer
<1>3. ASSUME NEW k \in Kinds, Begin(q, k) PROVE stored' = stored
  BY <1>3 DEF Begin
<1> QED BY <1>2, <1>3 DEF CallStep

LEMMA InsertedFacts ==
  ASSUME NEW c \in Call
  PROVE  /\ Inserted(c) \in Answers /\ Inserted(c).full /\ Inserted(c).snapshot = c.snapshot
         /\ Inserted(c).content = c.result /\ (Inserted(c).current <=> c.fresh)
BY DEF Inserted, Answers, Call

\* No step makes a freshness answer but of the files as they are.
FreshOnlyOfTree == \A v \in Nat : FreshResponse(v)' => FreshResponse(v) \/ v = tree

LEMMA FreshOfCall ==
  ASSUME CacheInv, NEW q \in Queries, CallStep(q)
  PROVE  FreshOnlyOfTree
<1>t. /\ query \in [Queries -> Call] /\ stored \in [Families -> Answers] /\ query[q] \in Call
      /\ IsPlaced(query[q]) /\ "response" \in Families
  BY CallFacts DEF CacheInv, CallTypes, Families
<1>1. PICK c : Becomes(q, c)
  BY CallBecomes
<1>2. SUFFICES ASSUME NEW v \in Nat, FreshResponse(v)' PROVE FreshResponse(v) \/ v = tree
  BY DEF FreshOnlyOfTree
<1>3. CASE stored'["response"].full /\ stored'["response"].current /\ stored'["response"].content = v
  <2>1. CASE stored' = stored
    BY <1>3, <2>1 DEF FreshResponse
  <2>2. CASE /\ query[q].pc = "insert" /\ MayInsert(query[q])
             /\ stored' = [stored EXCEPT ![query[q].kind] = Inserted(query[q])]
    <3>1. CASE query[q].kind = "response"
      <4>1. query[q].fresh /\ query[q].snapshot = query[q].result
        BY <1>t, <2>2, <3>1 DEF MayInsert, IsPlaced
      <4>2. v = query[q].result
        BY <1>t, <1>3, <2>2, <3>1, InsertedFacts
      <4> QED BY <2>2, <3>1, <4>1, <4>2 DEF FreshResponse, ToInsert
    <3>2. CASE query[q].kind # "response"
      <4>1. stored'["response"] = stored["response"]
        BY <1>t, <2>2, <3>2
      <4> QED BY <1>3, <4>1 DEF FreshResponse
    <3> QED BY <3>1, <3>2
  <2> QED BY <2>1, <2>2, StoredOfCall
<1>4. ASSUME NEW p \in Queries, ToInsert(query'[p]), query'[p].snapshot = v
      PROVE  FreshResponse(v) \/ v = tree
  <2>1. CASE p = q
    <3>1. query'[p] = c
      BY <1>t, <1>1, <2>1 DEF Becomes
    <3>2. c.snapshot = tree \/ (ToInsert(query[q]) /\ c.snapshot = query[q].snapshot)
      BY <1>1, <1>4, <3>1 DEF Becomes
    <3> QED BY <1>4, <3>1, <3>2 DEF FreshResponse
  <2>2. CASE p # q
    <3>1. query'[p] = query[p]
      BY <1>t, <1>1, <2>2 DEF Becomes
    <3> QED BY <1>4, <3>1 DEF FreshResponse
  <2> QED BY <2>1, <2>2
<1> QED BY <1>2, <1>3, <1>4 DEF FreshResponse, ToInsert

\* What is sound stays so while changes are accepted and caches are cleared.
LEMMA SoundGoesOn ==
  ASSUME CacheInv, [Next]_vars, FreshOnlyOfTree, NEW c \in Call, IsSound(c)
  PROVE  IsSound(c)'
<1>t. /\ tree \in Nat /\ latest \in Nat /\ accepted \in Nat /\ lifted \in Nat /\ accepted <= tree
      /\ WatchInv
  BY DEF CacheInv, WatchInv, WatchTypes, FileTypes, InOrder, Ordered
<1>m. /\ accepted <= accepted' /\ tree <= tree' /\ latest <= latest' /\ lifted <= lifted'
      /\ tree' \in Nat /\ latest' \in Nat /\ accepted' \in Nat /\ lifted' \in Nat
  BY <1>t, InOrderStep, ScansInOrderStep, WatchTypesStep DEF WatchTypes, FileTypes
<1>k. c.seen \in Nat /\ c.snapshot \in Nat /\ c.result \in Nat
  BY DEF Call
<1>1. \A v \in Nat : Current(v, c.seen) => Current(v, c.seen)'
  BY <1>t, <1>m, <1>k DEF Current
<1>2. Current(latest, c.seen) => Current(latest, c.seen)'
  BY <1>t, <1>m, <1>k DEF Current
<1>3. c.seen <= accepted /\ c.snapshot <= tree
  BY DEF IsSound
<1>4. c.seen <= accepted' /\ c.snapshot <= tree' /\ Current(tree, c.seen)
  BY <1>t, <1>m, <1>k, <1>3 DEF Current
<1>5. FoundUnmarked(c) => Current(latest, c.seen)'
  BY <1>2 DEF IsSound
<1>6. ASSUME FoundUnmarked(c), c.kind = "response", NEW v \in Nat, FreshResponse(v)'
      PROVE  Current(v, c.seen)'
  <2>1. FreshResponse(v) \/ v = tree
    BY <1>6 DEF FreshOnlyOfTree
  <2>2. Current(v, c.seen)
    BY <1>4, <1>6, <2>1 DEF IsSound
  <2> QED BY <1>1, <2>2
<1>7. UsesLatest(c) => Current(latest, c.seen)'
  BY <1>2 DEF IsSound
<1>8. UsesSnapshot(c) => Current(c.snapshot, c.seen)'
  BY <1>1, <1>k DEF IsSound
<1>9. c.pc \in {"insert", "answer"} /\ c.kind # "projection" => Current(c.result, c.seen)'
  BY <1>1, <1>k DEF IsSound
<1> QED BY <1>4, <1>5, <1>6, <1>7, <1>8, <1>9
        DEF IsSound, FoundUnmarked, UsesLatest, UsesCache, UsesSnapshot

LEMMA CallsStaySound ==
  ASSUME CacheInv, [Next]_vars, FreshOnlyOfTree,
         \A p \in Queries : \E c \in Call : query'[p] = c /\ IsSound(c) /\ IsPlaced(c)
  PROVE  CallsAreSound'
<1>1. SUFFICES ASSUME NEW p \in Queries PROVE IsSound(query[p])' /\ IsPlaced(query[p])'
  BY DEF CallsAreSound
<1>2. PICK c \in Call : query'[p] = c /\ IsSound(c) /\ IsPlaced(c)
  OBVIOUS
<1>3. IsSound(c)'
  BY <1>2, SoundGoesOn
<1>4. IsSound(query[p])'
  BY <1>2, <1>3 DEF IsSound, FoundUnmarked, UsesLatest, UsesCache, UsesSnapshot
<1>5. IsPlaced(query[p])'
  BY <1>2 DEF IsPlaced
<1> QED BY <1>4, <1>5

LEMMA CurrentGoesOn ==
  ASSUME CacheInv, [Next]_vars, accepted' = accepted
  PROVE  /\ \A v \in Nat : Current(v, accepted) => Current(v, accepted)'
         /\ Current(latest, accepted) => Current(latest, accepted)'
<1>t. /\ latest \in Nat /\ accepted \in Nat /\ lifted \in Nat /\ WatchInv
  BY DEF CacheInv, WatchInv, WatchTypes, FileTypes
<1>m. latest <= latest' /\ lifted <= lifted' /\ latest' \in Nat /\ lifted' \in Nat
  BY <1>t, ScansInOrderStep, WatchTypesStep DEF WatchTypes, FileTypes
<1> QED BY <1>t, <1>m DEF Current

\* The caches after a step of a call.
LEMMA CallKeepsCaches ==
  ASSUME CacheInv, [Next]_vars, NEW q \in Queries, CallStep(q)
  PROVE  /\ CallTypes' /\ UnmarkedIsCurrent' /\ StaleIsCleared' /\ CorpusIsOfSnapshot'
         /\ FreshIsCurrent' /\ CallsAreSound'
<1>t. /\ query \in [Queries -> Call] /\ stored \in [Families -> Answers] /\ query[q] \in Call
      /\ IsPlaced(query[q]) /\ accepted \in Nat /\ tree \in Nat /\ accepted <= tree
      /\ "response" \in Families /\ "corpus" \in Families
  BY CallFacts DEF CacheInv, CallTypes, Families
<1>u. /\ todo' = todo /\ accepted' = accepted /\ latest' = latest /\ lifted' = lifted /\ tree' = tree
  BY CallLeaves DEF serverVars, watchVars, filesVars, boundVars
<1>e. entry' = Dirty <=> entry = Dirty
  BY EntryOfCall
<1>f. FreshOnlyOfTree
  BY FreshOfCall
<1>c. PICK c : Becomes(q, c)
  BY CallBecomes
<1>s. \/ stored' = stored
      \/ /\ query[q].pc = "insert" /\ MayInsert(query[q])
         /\ stored' = [stored EXCEPT ![query[q].kind] = Inserted(query[q])]
  BY StoredOfCall
<1>i. /\ Inserted(query[q]) \in Answers /\ Inserted(query[q]).snapshot = query[q].snapshot
      /\ Inserted(query[q]).content = query[q].result /\ (Inserted(query[q]).current <=> query[q].fresh)
  BY <1>t, InsertedFacts
<1>1. CallTypes'
  <2>1. stored' \in [Families -> Answers]
    BY <1>t, <1>s, <1>i
  <2>2. query' \in [Queries -> Call]
    BY <1>t, <1>c DEF Becomes
  <2> QED BY <2>1, <2>2, EntryOfCall DEF CallTypes
<1>2. UnmarkedIsCurrent'
  BY <1>u, <1>e DEF CacheInv, UnmarkedIsCurrent, Current
<1>3. StaleIsCleared'
  <2> SUFFICES ASSUME NEW f \in {"corpus", "response"}, stored'[f].full, ~stored'[f].current
               PROVE  Clearing(f)'
    BY DEF StaleIsCleared
  <2>0. f \in Families /\ f # "projection"
    BY DEF Families
  <2>1. CASE stored'[f] = stored[f]
    BY <1>u, <2>1 DEF CacheInv, StaleIsCleared, Clearing
  <2>2. CASE MayInsert(query[q]) /\ f = query[q].kind /\ stored'[f] = Inserted(query[q])
    BY <1>i, <2>0, <2>2 DEF MayInsert
  <2> QED BY <1>t, <1>s, <2>0, <2>1, <2>2
<1>4. CorpusIsOfSnapshot'
  <2>1. CASE stored'["corpus"] = stored["corpus"]
    BY <2>1 DEF CacheInv, CorpusIsOfSnapshot
  <2>2. CASE query[q].kind = "corpus" /\ query[q].pc = "insert" /\ stored'["corpus"] = Inserted(query[q])
    BY <1>t, <1>i, <2>2 DEF CorpusIsOfSnapshot, IsPlaced
  <2> QED BY <1>t, <1>s, <2>1, <2>2
<1>5. FreshIsCurrent'
  <2>1. ASSUME NEW v \in Nat, FreshResponse(v)'
        PROVE  Current(v, accepted) \/ (BumpIsComing /\ entry = Dirty)
    <3>1. FreshResponse(v) \/ v = tree
      BY <1>f, <2>1 DEF FreshOnlyOfTree
    <3> QED BY <1>t, <3>1 DEF CacheInv, FreshIsCurrent, Current
  <2> QED BY <1>u, <1>e, <2>1 DEF FreshIsCurrent, Current, BumpIsComing
<1>6. CallsAreSound'
  <2>1. ASSUME NEW p \in Queries PROVE \E d \in Call : query'[p] = d /\ IsSound(d) /\ IsPlaced(d)
    <3>1. CASE p = q
      BY <1>t, <1>c, <3>1 DEF Becomes
    <3>2. CASE p # q
      BY <1>t, <1>c, <3>2, CallFacts DEF Becomes
    <3> QED BY <3>1, <3>2
  <2> QED BY <1>f, <2>1, CallsStaySound
<1> QED BY <1>1, <1>2, <1>3, <1>4, <1>5, <1>6

-----------------------------------------------------------------------------
(* The threads that invalidate. *)

LEMMA TodoChanges ==
  ASSUME WatchInv, [Next]_vars, NEW t \in Threads
  PROVE  \/ todo'[t] = todo[t]
         \/ todo[t] = <<>>
         \/ BumpEpoch(t) \/ ClearFamily(t)
         \/ t = "session" /\ invalidate_root
         \/ t = "supervisor" /\ (settle_success \/ settle_failure)
<1>t. todo \in [Threads -> Seq(Ops)] /\ JobIsPlaced
  BY DEF WatchInv, WatchTypes
<1>1. CASE CallsNext
  BY <1>1, CallsFrame DEF serverVars
<1>2. ASSUME NEW u \in Threads, ThreadStep(u) PROVE todo'[t] = todo[t] \/ BumpEpoch(t) \/ ClearFamily(t)
  <2>1. CASE t = u
    BY <1>2, <2>1 DEF ThreadStep
  <2>2. CASE t # u
    <3>1. todo' = [todo EXCEPT ![u] = Tail(@)]
      BY <1>2 DEF ThreadStep, BumpEpoch, ClearFamily
    <3>2. todo'[t] = todo[t]
      BY <1>t, <2>2, <3>1
    <3> QED BY <3>2
  <2> QED BY <2>1, <2>2
<1>3. CASE invalidate_root \/ settle_success \/ settle_failure
  BY <1>t, <1>3 DEF invalidate_root, settle_success, settle_failure
<1>4. CASE handle_notify_event \/ IndexCompleted
  BY <1>t, <1>4 DEF handle_notify_event, IndexCompleted, Receive
<1>5. CASE StartInvalidation
  <2>1. todo["worker"] = <<>> /\ (job.owner = "session" => todo["session"] = <<>>)
    BY <1>t, <1>5 DEF StartInvalidation, JobIsPlaced
  <2> QED BY <1>t, <1>5, <2>1 DEF StartInvalidation
<1>6. CASE workspace_attach \/ workspace_detach
  BY <1>t, <1>6 DEF workspace_attach, workspace_detach, SessionOp
<1>7. CASE Edit \/ Notify \/ LeaseAcquired \/ LeaseReleased \/ dispatch
  BY <1>7 DEF Edit, Notify, LeaseAcquired, LeaseReleased, dispatch
<1>8. CASE Scan \/ Commit \/ Fail \/ Finish \/ workspace_index
  BY <1>8 DEF Scan, Commit, Fail, Finish, workspace_index
<1>9. CASE UNCHANGED vars
  BY <1>9 DEF vars
<1> QED BY <1>1, <1>2, <1>3, <1>4, <1>5, <1>6, <1>7, <1>8, <1>9
        DEF Next, CallsNext, ThreadStep, Invalidating, Supervising, Running

LEMMA ClearingGoesOn ==
  ASSUME WatchInv, [Next]_vars, NEW f, Clearing(f)
  PROVE  \/ Clearing(f)'
         \/ \E t \in Threads : ClearFamily(t) /\ Head(todo[t]).family = f
<1>1. PICK t \in Threads : todo[t] # <<>> /\ Head(todo[t]) = Op("clear", f)
  BY DEF Clearing
<1>2. Head(todo[t]).op = "clear" /\ Head(todo[t]).family = f
  BY <1>1 DEF Op
<1>3. todo'[t] = todo[t] => Clearing(f)'
  BY <1>1 DEF Clearing
<1>4. ~BumpEpoch(t)
  BY <1>2 DEF BumpEpoch
<1>5. ~(t = "session" /\ invalidate_root) /\ ~(t = "supervisor" /\ (settle_success \/ settle_failure))
  BY <1>2 DEF invalidate_root, settle_success, settle_failure
<1> QED BY <1>1, <1>2, <1>3, <1>4, <1>5, TodoChanges

\* What settles a refresh comes when the callback has run.
LEMMA NoBumpAtSettling ==
  ASSUME WatchInv, todo["supervisor"] # <<>>, Head(todo["supervisor"]).op \in Settling
  PROVE  ~BumpIsComing
<1>1. "supervisor" \in Threads /\ todo["supervisor"] \in Seq(Ops) /\ WellFormed(todo["supervisor"])
  BY DEF WatchInv, WatchTypes, Threads, TodoIsWellFormed
<1>2. DOMAIN todo["supervisor"] = {1} /\ todo["supervisor"][1] = Head(todo["supervisor"])
  BY <1>1, TailIsWellFormed, TailEntries
<1>3. Op("bump", "response").op \notin Settling
  BY DEF Op, Settling
<1> QED BY <1>2, <1>3 DEF BumpIsComing

LEMMA BumpGoesOn ==
  ASSUME WatchInv, [Next]_vars, BumpIsComing
  PROVE  BumpIsComing' \/ (BumpEpoch("supervisor") /\ Head(todo["supervisor"]).family = "response")
<1>s. /\ "supervisor" \in Threads /\ todo \in [Threads -> Seq(Ops)]
      /\ todo["supervisor"] \in Seq(Ops) /\ WellFormed(todo["supervisor"])
  BY DEF WatchInv, WatchTypes, Threads, TodoIsWellFormed
<1>1. PICK i \in DOMAIN todo["supervisor"] : todo["supervisor"][i] = Op("bump", "response")
  BY DEF BumpIsComing
<1>2. todo["supervisor"] # <<>>
  BY <1>1
<1>3. CASE todo'["supervisor"] = todo["supervisor"]
  BY <1>1, <1>3 DEF BumpIsComing
<1>4. CASE BumpEpoch("supervisor") \/ ClearFamily("supervisor")
  <2>1. todo'["supervisor"] = Tail(todo["supervisor"])
    BY <1>s, <1>4 DEF BumpEpoch, ClearFamily
  <2>2. CASE Head(todo["supervisor"]) = Op("bump", "response")
    <3>1. Head(todo["supervisor"]).op = "bump" /\ Head(todo["supervisor"]).family = "response"
      BY <2>2 DEF Op
    <3> QED BY <1>4, <3>1 DEF ClearFamily
  <2>3. CASE Head(todo["supervisor"]) # Op("bump", "response")
    <3>1. \E k \in DOMAIN Tail(todo["supervisor"]) : Tail(todo["supervisor"])[k] = todo["supervisor"][i]
      BY <1>s, <1>1, <1>2, <2>3, TailIsWellFormed
    <3> QED BY <1>1, <2>1, <3>1 DEF BumpIsComing
  <2> QED BY <2>2, <2>3
<1>5. ~settle_success /\ ~settle_failure
  BY NoBumpAtSettling DEF settle_success, settle_failure, Settling
<1> QED BY <1>s, <1>2, <1>3, <1>4, <1>5, TodoChanges

LEMMA ClearedFacts == Empty \in Answers /\ ~Empty.full
BY DEF Empty, Answers

\* A bump leaves what a call has but for its epoch.
LEMMA Bumped ==
  ASSUME NEW c \in Call, NEW b \in BOOLEAN, NEW d, d = [c EXCEPT !.fresh = b]
  PROVE  /\ d \in Call /\ d.fresh = b /\ d.kind = c.kind /\ d.pc = c.pc /\ d.snapshot = c.snapshot
         /\ IsSound(c) => IsSound(d)
         /\ IsPlaced(c) => IsPlaced(d)
<1>1. /\ d \in Call /\ d.fresh = b /\ d.kind = c.kind /\ d.pc = c.pc /\ d.snapshot = c.snapshot
      /\ d.reads = c.reads /\ d.trusted = c.trusted /\ d.seen = c.seen /\ d.result = c.result
  BY DEF Call
<1>2. /\ FoundUnmarked(d) <=> FoundUnmarked(c)
      /\ UsesLatest(d) <=> UsesLatest(c)
      /\ UsesSnapshot(d) <=> UsesSnapshot(c)
  BY <1>1 DEF FoundUnmarked, UsesLatest, UsesCache, UsesSnapshot
<1>3. IsSound(c) => IsSound(d)
  BY <1>1, <1>2 DEF IsSound
<1>4. IsPlaced(c) => IsPlaced(d)
  BY <1>1 DEF IsPlaced
<1> QED BY <1>1, <1>3, <1>4

\* The calls and the answers after a step of another thread.
CallsKept == \A p \in Queries : \E c \in Call : query'[p] = c /\ IsSound(c) /\ IsPlaced(c)

LEMMA BumpKeepsCaches ==
  ASSUME CacheInv, [Next]_vars, NEW t \in Threads, BumpEpoch(t)
  PROVE  /\ CallTypes' /\ StaleIsCleared' /\ CorpusIsOfSnapshot' /\ CallsKept
         /\ \A v \in Nat : FreshResponse(v)' => FreshResponse(v)
         /\ Head(todo[t]).family = "response" => \A v \in Nat : ~FreshResponse(v)'
<1> DEFINE f == Head(todo[t]).family
<1>t. /\ query \in [Queries -> Call] /\ stored \in [Families -> Answers] /\ WatchInv
      /\ todo \in [Threads -> Seq(Ops)] /\ WellFormed(todo[t]) /\ todo[t] # <<>>
      /\ Head(todo[t]).op = "bump"
      /\ "response" \in Families /\ "corpus" \in Families
  BY DEF CacheInv, CallTypes, WatchInv, WatchTypes, TodoIsWellFormed, Families, BumpEpoch
<1>1. /\ stored' = [stored EXCEPT ![f].current = ~stored[f].full]
      /\ query' = [p \in Queries |-> [query[p] EXCEPT !.fresh = @ /\ query[p].kind # f]]
      /\ todo' = [todo EXCEPT ![t] = Tail(@)] /\ entry' = entry
  BY DEF BumpEpoch
<1>2. ASSUME NEW g \in Families
      PROVE  /\ stored'[g] \in Answers /\ (stored'[g].full <=> stored[g].full)
             /\ stored'[g].snapshot = stored[g].snapshot /\ stored'[g].content = stored[g].content
             /\ g # f => stored'[g] = stored[g]
             /\ g = f => (stored'[g].current <=> ~stored[g].full)
  <2>1. CASE g # f
    BY <1>t, <1>1, <2>1
  <2>2. CASE g = f
    <3>1. stored'[g] = [stored[g] EXCEPT !.current = ~stored[g].full]
      BY <1>t, <1>1, <2>2
    <3>2. stored[g] \in Answers /\ (~stored[g].full) \in BOOLEAN
      BY <1>t
    <3> QED BY <2>2, <3>1, <3>2 DEF Answers
  <2> QED BY <2>1, <2>2
<1>3. stored' \in [Families -> Answers]
  <2>1. stored' = [g \in Families |-> stored'[g]]
    BY <1>t, <1>1
  <2> QED BY <1>2, <2>1
<1>4. ASSUME NEW p \in Queries
      PROVE  \E d \in Call : /\ query'[p] = d
                             /\ (d.fresh <=> query[p].fresh /\ query[p].kind # f) /\ d.kind = query[p].kind
                             /\ d.pc = query[p].pc /\ d.snapshot = query[p].snapshot
                             /\ IsSound(query[p]) => IsSound(d)
                             /\ IsPlaced(query[p]) => IsPlaced(d)
  <2> DEFINE b == query[p].fresh /\ query[p].kind # f
  <2>1. query[p] \in Call /\ b \in BOOLEAN
    BY <1>t
  <2>2. query'[p] = [query[p] EXCEPT !.fresh = b]
    BY <1>1
  <2>3. PICK d : d = [query[p] EXCEPT !.fresh = b]
    OBVIOUS
  <2> HIDE DEF b
  <2>4. /\ d \in Call /\ d.fresh = b /\ d.kind = query[p].kind /\ d.pc = query[p].pc
        /\ d.snapshot = query[p].snapshot
        /\ IsSound(query[p]) => IsSound(d)
        /\ IsPlaced(query[p]) => IsPlaced(d)
    BY <2>1, <2>3, Bumped
  <2>5. d.fresh <=> query[p].fresh /\ query[p].kind # f
    BY <2>4 DEF b
  <2> QED BY <2>2, <2>3, <2>4, <2>5
<1>5. query' \in [Queries -> Call]
  BY <1>1, <1>4
<1> HIDE DEF f
<1>6. CallTypes'
  BY <1>1, <1>3, <1>5 DEF CallTypes, CacheInv
<1>7. CallsKept
  BY <1>4 DEF CacheInv, CallsAreSound, CallsKept
<1>8. CorpusIsOfSnapshot'
  BY <1>t, <1>2 DEF CacheInv, CorpusIsOfSnapshot
<1>9. StaleIsCleared'
  <2> SUFFICES ASSUME NEW g \in {"corpus", "response"}, stored'[g].full, ~stored'[g].current
               PROVE  Clearing(g)'
    BY DEF StaleIsCleared
  <2>1. CASE g = f
    <3>1. Tail(todo[t]) # <<>> /\ Head(Tail(todo[t])) = Op("clear", g)
      BY <1>t, <2>1, TailIsWellFormed DEF f
    <3>2. todo'[t] = Tail(todo[t])
      BY <1>t, <1>1
    <3> QED BY <3>1, <3>2 DEF Clearing
  <2>2. CASE g # f
    <3>1. g \in Families
      BY DEF Families
    <3>2. Clearing(g)
      BY <1>2, <2>2, <3>1 DEF CacheInv, StaleIsCleared
    <3>3. ASSUME NEW u \in Threads, ClearFamily(u), Head(todo[u]).family = g PROVE FALSE
      BY <1>t, <1>1, <3>3 DEF ClearFamily, BumpEpoch
    <3> QED BY <1>t, <3>2, <3>3, ClearingGoesOn
  <2> QED BY <2>1, <2>2
<1>10. ASSUME NEW v \in Nat, FreshResponse(v)' PROVE FreshResponse(v) /\ f # "response"
  <2>1. CASE stored'["response"].full /\ stored'["response"].current /\ stored'["response"].content = v
    <3>1. f # "response"
      BY <1>t, <1>2, <2>1
    <3> QED BY <1>t, <1>2, <2>1, <3>1 DEF FreshResponse
  <2>2. ASSUME NEW p \in Queries, ToInsert(query'[p]), query'[p].snapshot = v
        PROVE  FreshResponse(v) /\ f # "response"
    BY <1>4, <2>2 DEF FreshResponse, ToInsert
  <2> QED BY <1>10, <2>1, <2>2 DEF FreshResponse, ToInsert
<1> QED BY <1>6, <1>7, <1>8, <1>9, <1>10 DEF f

LEMMA ClearKeepsCaches ==
  ASSUME CacheInv, [Next]_vars, NEW t \in Threads, ClearFamily(t)
  PROVE  /\ CallTypes' /\ StaleIsCleared' /\ CorpusIsOfSnapshot' /\ CallsKept
         /\ \A v \in Nat : FreshResponse(v)' => FreshResponse(v)
<1> DEFINE f == Head(todo[t]).family
<1>t. /\ stored \in [Families -> Answers] /\ WatchInv
      /\ "response" \in Families /\ "corpus" \in Families
  BY DEF CacheInv, CallTypes, Families
<1>1. /\ stored' = [stored EXCEPT ![f] = Empty] /\ query' = query /\ entry' = entry
      /\ todo' = [todo EXCEPT ![t] = Tail(@)]
  BY DEF ClearFamily
<1>2. \A g \in Families : stored'[g] = stored[g] \/ (g = f /\ ~stored'[g].full)
  BY <1>t, <1>1, ClearedFacts
<1>3. CallTypes'
  BY <1>t, <1>1, ClearedFacts DEF CacheInv, CallTypes
<1>4. CallsKept
  BY <1>1, CallFacts DEF CallsKept
<1>5. CorpusIsOfSnapshot'
  BY <1>t, <1>2 DEF CacheInv, CorpusIsOfSnapshot
<1>6. StaleIsCleared'
  <2> SUFFICES ASSUME NEW g \in {"corpus", "response"}, stored'[g].full, ~stored'[g].current
               PROVE  Clearing(g)'
    BY DEF StaleIsCleared
  <2>1. g \in Families
    BY DEF Families
  <2>2. Clearing(g)
    BY <1>2, <2>1 DEF CacheInv, StaleIsCleared
  <2>3. ASSUME NEW u \in Threads, ClearFamily(u), Head(todo[u]).family = g PROVE FALSE
    <3>1. stored' = [stored EXCEPT ![g] = Empty]
      BY <2>3 DEF ClearFamily
    <3> QED BY <1>t, <2>1, <3>1, ClearedFacts
  <2> QED BY <1>t, <2>2, <2>3, ClearingGoesOn
<1>7. ASSUME NEW v \in Nat, FreshResponse(v)' PROVE FreshResponse(v)
  BY <1>t, <1>1, <1>2, <1>7 DEF FreshResponse, ToInsert
<1> QED BY <1>3, <1>4, <1>5, <1>6, <1>7

\* The other steps leave the answers alone.
LEMMA OthersKeepCaches ==
  ASSUME CacheInv, [Next]_vars, stored' = stored, query' = query,
         entry' \in [kind: {"none", "dirty", "ready"}, snapshot: Nat]
  PROVE  /\ CallTypes' /\ StaleIsCleared' /\ CorpusIsOfSnapshot' /\ CallsKept
         /\ \A v \in Nat : FreshResponse(v)' => FreshResponse(v)
<1>1. CallTypes'
  BY DEF CacheInv, CallTypes
<1>2. CorpusIsOfSnapshot'
  BY DEF CacheInv, CorpusIsOfSnapshot
<1>3. CallsKept
  BY CallFacts DEF CallsKept
<1>4. \A v \in Nat : FreshResponse(v)' => FreshResponse(v)
  BY DEF FreshResponse, ToInsert
<1>5. StaleIsCleared'
  <2> SUFFICES ASSUME NEW g \in {"corpus", "response"}, stored[g].full, ~stored[g].current
               PROVE  Clearing(g)'
    BY DEF StaleIsCleared
  <2>1. Clearing(g) /\ WatchInv
    BY DEF CacheInv, StaleIsCleared
  <2>2. ASSUME NEW u \in Threads, ClearFamily(u), Head(todo[u]).family = g PROVE FALSE
    <3>1. stored' = [stored EXCEPT ![g] = Empty] /\ g \in Families /\ stored \in [Families -> Answers]
      BY <2>2 DEF ClearFamily, Families, CacheInv, CallTypes
    <3> QED BY <3>1, ClearedFacts
  <2> QED BY <2>1, <2>2, ClearingGoesOn
<1> QED BY <1>1, <1>2, <1>3, <1>4, <1>5

-----------------------------------------------------------------------------
(* The Dirty mark. *)

\* A refresh that lifts the mark has scanned what was accepted.
LEMMA SettledIsCurrent ==
  ASSUME CacheInv, settle_success, entry' # Dirty
  PROVE  accepted <= latest
<1>t. /\ WatchInv /\ sched \in SchedStates
      /\ "supervisor" \in Threads /\ todo["supervisor"] \in Seq(Ops) /\ todo["supervisor"] # <<>>
      /\ Head(todo["supervisor"]).op = "succeeded"
  BY DEF CacheInv, WatchInv, WatchTypes, Threads, settle_success
<1> USE DEF SchedStates
<1>1. 1 \in DOMAIN todo["supervisor"] /\ todo["supervisor"][1] = Head(todo["supervisor"])
  BY <1>t, TailEntries
<1>2. Covers(latest)
  BY <1>t, <1>1 DEF WatchInv, InFlightCovers, SettleIsDue
<1>3. ~sched'.pending /\ sched'.pending = (sched.pending \/ sched.rerun)
  BY <1>t DEF settle_success, Reconciled
<1> QED BY <1>2, <1>3 DEF Covers

LEMMA MarkStep ==
  ASSUME CacheInv, [Next]_vars, invalidate_root \/ handle_notify_event \/ settle_success
  PROVE  /\ stored' = stored /\ query' = query
         /\ entry' \in [kind: {"none", "dirty", "ready"}, snapshot: Nat]
         /\ UnmarkedIsCurrent'
         /\ \A v \in Nat : Current(v, accepted) \/ (BumpIsComing /\ entry = Dirty) =>
              (Current(v, accepted) \/ (BumpIsComing /\ entry = Dirty))'
<1>t. /\ tree \in Nat /\ latest \in Nat /\ accepted \in Nat /\ lifted \in Nat /\ WatchInv
      /\ entry \in [kind: {"none", "dirty", "ready"}, snapshot: Nat]
  BY DEF CacheInv, WatchInv, WatchTypes, FileTypes, CallTypes
<1>e. /\ None \in [kind: {"none", "dirty", "ready"}, snapshot: Nat] /\ None # Dirty
      /\ Dirty \in [kind: {"none", "dirty", "ready"}, snapshot: Nat]
  BY DEF None, Dirty
<1>s. "supervisor" \in Threads /\ todo \in [Threads -> Seq(Ops)]
  BY <1>t DEF WatchInv, WatchTypes, Threads
<1>1. CASE invalidate_root
  <2>1. /\ stored' = stored /\ query' = query /\ entry' = None /\ accepted' = accepted /\ latest' = latest
        /\ lifted' = IF entry = Dirty THEN accepted ELSE lifted
    BY <1>1 DEF invalidate_root, watchVars, filesVars
  <2>2. CASE entry = Dirty
    BY <1>t, <1>e, <2>1, <2>2 DEF UnmarkedIsCurrent, Current
  <2>3. CASE entry # Dirty
    BY <1>e, <2>1, <2>3 DEF CacheInv, UnmarkedIsCurrent, Current
  <2> QED BY <2>2, <2>3
<1>2. CASE handle_notify_event /\ lease
  <2>1. /\ stored' = stored /\ query' = query /\ entry' = Dirty
        /\ todo' = [todo EXCEPT !["supervisor"] = Callback]
    BY <1>2 DEF handle_notify_event
  <2>2. todo'["supervisor"] = Callback
    BY <1>s, <2>1
  <2>3. BumpIsComing'
    BY <2>2, InvalidationsArePlain DEF BumpIsComing
  <2> QED BY <1>e, <2>1, <2>3 DEF UnmarkedIsCurrent
<1>3. CASE handle_notify_event /\ ~lease
  <2>1. /\ stored' = stored /\ query' = query /\ entry' = entry /\ accepted' = accepted /\ latest' = latest
        /\ lifted' = lifted /\ todo' = todo
    BY <1>3 DEF handle_notify_event, filesVars, boundVars
  <2> QED BY <1>t, <2>1 DEF CacheInv, UnmarkedIsCurrent, Current, BumpIsComing
<1>4. CASE settle_success
  <2>1. /\ stored' = stored /\ query' = query /\ entry' \in {Dirty, None} /\ accepted' = accepted
        /\ latest' = latest /\ lifted' = lifted
    BY <1>4 DEF settle_success, filesVars, boundVars, Reconciled
  <2>2. UnmarkedIsCurrent'
    BY <1>4, <2>1, SettledIsCurrent DEF UnmarkedIsCurrent, Current
  <2>3. ~BumpIsComing
    BY <1>t, <1>4, NoBumpAtSettling DEF settle_success, Settling
  <2> QED BY <1>e, <2>1, <2>2, <2>3 DEF Current
<1> QED BY <1>1, <1>2, <1>3, <1>4

LEMMA MarksKept ==
  ASSUME CacheInv, [Next]_vars, entry' = entry, accepted' = accepted
  PROVE  /\ UnmarkedIsCurrent'
         /\ \A v \in Nat : Current(v, accepted) => Current(v, accepted)'
BY CurrentGoesOn DEF CacheInv, UnmarkedIsCurrent

LEMMA FreshStays ==
  ASSUME CacheInv, \A v \in Nat : FreshResponse(v)' => FreshResponse(v),
         \A v \in Nat : Current(v, accepted) \/ (BumpIsComing /\ entry = Dirty) =>
           (Current(v, accepted) \/ (BumpIsComing /\ entry = Dirty))'
  PROVE  FreshIsCurrent' /\ FreshOnlyOfTree
BY DEF CacheInv, FreshIsCurrent, FreshOnlyOfTree

\* A step is of one thread.
LEMMA OneThread ==
  ASSUME WatchInv, NEW t \in Threads, NEW u \in Threads, ThreadStep(t), ThreadStep(u)
  PROVE  t = u
<1>1. todo \in [Threads -> Seq(Ops)] /\ todo[t] \in Seq(Ops) /\ todo[t] # <<>>
  BY DEF WatchInv, WatchTypes, ThreadStep, BumpEpoch, ClearFamily
<1>2. todo' = [todo EXCEPT ![t] = Tail(@)] /\ todo' = [todo EXCEPT ![u] = Tail(@)]
  BY DEF ThreadStep, BumpEpoch, ClearFamily
<1>3. Len(todo[t]) \in Nat /\ Len(Tail(todo[t])) = Len(todo[t]) - 1
  BY <1>1, TailEntries
<1>4. todo[t] = Tail(todo[t]) => Len(todo[t]) = Len(Tail(todo[t]))
  BY Zenon
<1>5. todo[t] # Tail(todo[t])
  <2> DEFINE n == Len(todo[t])  m == Len(Tail(todo[t]))
  <2>1. n # m
    BY <1>3
  <2> QED BY <1>4, <2>1, Zenon
<1> QED BY <1>1, <1>2, <1>5, Zenon

LEMMA CacheInvStep ==
  ASSUME CacheInv, [Next]_vars
  PROVE  CacheInv'
<1>w. WatchInv /\ WatchInv'
  BY WatchInvStep DEF CacheInv
<1>k. CallsKept /\ FreshOnlyOfTree => CallsAreSound'
  BY CallsStaySound DEF CallsKept
<1>1. ASSUME NEW q \in Queries, CallStep(q) PROVE CacheInv'
  BY <1>w, <1>1, CallKeepsCaches DEF CacheInv
<1>2. ASSUME NEW t \in Threads, BumpEpoch(t) PROVE CacheInv'
  <2>1. /\ CallTypes' /\ StaleIsCleared' /\ CorpusIsOfSnapshot' /\ CallsKept
        /\ \A v \in Nat : FreshResponse(v)' => FreshResponse(v)
        /\ Head(todo[t]).family = "response" => \A v \in Nat : ~FreshResponse(v)'
    BY <1>2, BumpKeepsCaches
  <2>2. entry' = entry /\ accepted' = accepted
    BY <1>2 DEF BumpEpoch, watchVars
  <2>3. UnmarkedIsCurrent' /\ \A v \in Nat : Current(v, accepted) => Current(v, accepted)'
    BY <2>2, MarksKept
  <2>4. CASE Head(todo[t]).family = "response"
    <3>1. FreshIsCurrent' /\ FreshOnlyOfTree
      BY <2>1, <2>4 DEF FreshIsCurrent, FreshOnlyOfTree
    <3> QED BY <1>w, <1>k, <2>1, <2>3, <3>1 DEF CacheInv
  <2>5. CASE Head(todo[t]).family # "response"
    <3>1. BumpIsComing => BumpIsComing'
      <4>1. ASSUME BumpEpoch("supervisor") PROVE t = "supervisor"
        BY <1>w, <1>2, <4>1, OneThread DEF ThreadStep, Threads
      <4> QED BY <1>w, <2>5, <4>1, BumpGoesOn
    <3>2. FreshIsCurrent' /\ FreshOnlyOfTree
      BY <2>1, <2>2, <2>3, <3>1, FreshStays
    <3> QED BY <1>w, <1>k, <2>1, <2>3, <3>2 DEF CacheInv
  <2> QED BY <2>4, <2>5
<1>3. ASSUME NEW t \in Threads, ClearFamily(t) PROVE CacheInv'
  <2>1. /\ CallTypes' /\ StaleIsCleared' /\ CorpusIsOfSnapshot' /\ CallsKept
        /\ \A v \in Nat : FreshResponse(v)' => FreshResponse(v)
    BY <1>3, ClearKeepsCaches
  <2>2. entry' = entry /\ accepted' = accepted
    BY <1>3 DEF ClearFamily, watchVars
  <2>3. UnmarkedIsCurrent' /\ \A v \in Nat : Current(v, accepted) => Current(v, accepted)'
    BY <2>2, MarksKept
  <2>4. BumpIsComing => BumpIsComing'
    <3>1. CASE BumpEpoch("supervisor")
      <4>1. t = "supervisor"
        BY <1>w, <1>3, <3>1, OneThread DEF ThreadStep, Threads
      <4> QED BY <1>3, <3>1, <4>1 DEF BumpEpoch, ClearFamily
    <3>2. CASE ~BumpEpoch("supervisor")
      BY <1>w, <3>2, BumpGoesOn
    <3> QED BY <3>1, <3>2
  <2>5. FreshIsCurrent' /\ FreshOnlyOfTree
    BY <2>1, <2>2, <2>3, <2>4, FreshStays
  <2> QED BY <1>w, <1>k, <2>1, <2>3, <2>5 DEF CacheInv
<1>4. CASE invalidate_root \/ handle_notify_event \/ settle_success
  <2>1. /\ CallTypes' /\ StaleIsCleared' /\ CorpusIsOfSnapshot' /\ CallsKept
        /\ \A v \in Nat : FreshResponse(v)' => FreshResponse(v)
    BY <1>4, MarkStep, OthersKeepCaches
  <2>2. FreshIsCurrent' /\ FreshOnlyOfTree
    BY <1>4, <2>1, MarkStep, FreshStays
  <2> QED BY <1>w, <1>k, <1>4, <2>1, <2>2, MarkStep DEF CacheInv
<1>5. CASE Quiet
  <2>1. /\ stored' = stored /\ query' = query /\ entry' = entry /\ accepted' = accepted
        /\ entry \in [kind: {"none", "dirty", "ready"}, snapshot: Nat]
    BY <1>5 DEF Quiet, CacheInv, CallTypes
  <2>2. /\ CallTypes' /\ StaleIsCleared' /\ CorpusIsOfSnapshot' /\ CallsKept
        /\ \A v \in Nat : FreshResponse(v)' => FreshResponse(v)
    BY <2>1, OthersKeepCaches
  <2>3. UnmarkedIsCurrent' /\ \A v \in Nat : Current(v, accepted) => Current(v, accepted)'
    BY <2>1, MarksKept
  <2>4. CASE BumpEpoch("supervisor")
    BY <1>2, <2>4 DEF Threads
  <2>5. CASE ~BumpEpoch("supervisor")
    <3>1. BumpIsComing => BumpIsComing'
      BY <1>w, <2>5, BumpGoesOn
    <3>2. FreshIsCurrent' /\ FreshOnlyOfTree
      BY <2>1, <2>2, <2>3, <3>1, FreshStays
    <3> QED BY <1>w, <1>k, <2>2, <2>3, <3>2 DEF CacheInv
  <2> QED BY <2>4, <2>5
<1> QED BY <1>1, <1>2, <1>3, <1>4, <1>5, StepKinds

LEMMA CacheInvInit == Init => CacheInv
<1> SUFFICES ASSUME Init PROVE CacheInv
  OBVIOUS
<1>1. WatchInv
  BY WatchInvInit
<1>2. /\ entry = None /\ stored = [f \in Families |-> Empty] /\ query = [q \in Queries |-> Idle]
      /\ tree = FirstTree /\ latest = 0 /\ accepted = 0 /\ lifted = 0
  BY DEF Init
<1>3. tree \in Nat
  BY <1>1 DEF WatchInv, WatchTypes, FileTypes
<1>4. CallTypes
  <2>1. None \in [kind: {"none", "dirty", "ready"}, snapshot: Nat]
    BY DEF None
  <2> QED BY <1>2, <2>1, ClearedFacts, IdleFacts DEF CallTypes
<1>5. UnmarkedIsCurrent
  BY <1>2 DEF UnmarkedIsCurrent, Current
<1>6. \A f \in Families : ~stored[f].full
  BY <1>2, ClearedFacts
<1>7. StaleIsCleared /\ CorpusIsOfSnapshot
  BY <1>6 DEF StaleIsCleared, CorpusIsOfSnapshot, Families
<1>8. ~ToInsert(Idle) /\ ~FoundUnmarked(Idle) /\ ~UsesLatest(Idle) /\ ~UsesSnapshot(Idle)
  BY IdleFacts DEF ToInsert, FoundUnmarked, UsesLatest, UsesSnapshot
<1>9. \A v \in Nat : ~FreshResponse(v)
  BY <1>2, <1>6, <1>8 DEF FreshResponse, Families
<1>10. IsSound(Idle) /\ IsPlaced(Idle)
  BY <1>2, <1>3, <1>8, IdleFacts DEF IsSound, IsPlaced
<1> QED BY <1>1, <1>2, <1>4, <1>5, <1>7, <1>9, <1>10 DEF CacheInv, FreshIsCurrent, CallsAreSound

-----------------------------------------------------------------------------
(* The theorems. *)

\* The invariant of the caches, the watch and the calls holds throughout.
THEOREM CachesAreKept == Spec => []CacheInv
<1>1. CacheInv /\ [Next]_vars => CacheInv'
  BY CacheInvStep
<1> QED BY <1>1, CacheInvInit, PTL DEF Spec

\* Once an invalidation has run, neither the symbol corpus nor the freshness answer of
\* before it is in its cache, however the fills and the invalidations of the three
\* threads overlap.
THEOREM InvalidationsHold == Spec => []InvalidationHolds
<1>1. CacheInv => InvalidationHolds
  BY DEF CacheInv, StaleIsCleared, InvalidationHolds, OnlyCurrentEntries
<1> QED BY <1>1, CachesAreKept, PTL

\* A validated manifest entry of the latest snapshot describes every change the
\* supervisor has accepted, but for those whose mark a session removed.
THEOREM TrustedEntriesAreCurrent == Spec => []TrustedEntryIsCurrent
<1>1. CacheInv => TrustedEntryIsCurrent
  <2> SUFFICES ASSUME CacheInv, entry = Ready(latest) PROVE latest >= accepted \/ accepted <= lifted
    BY DEF TrustedEntryIsCurrent
  <2>1. entry # Dirty
    BY DEF Ready, Dirty
  <2>2. latest \in Nat /\ accepted \in Nat
    BY DEF CacheInv, WatchInv, WatchTypes, FileTypes
  <2> QED BY <2>1, <2>2 DEF CacheInv, UnmarkedIsCurrent, Current
<1> QED BY <1>1, CachesAreKept, PTL

\* An answer that misses a change accepted before its call misses only changes whose
\* mark a session removed, whichever cache it came from.
THEOREM OnlySessionsHide == Spec => []OnlySessionsHideChanges
<1>1. CacheInv => OnlySessionsHideChanges
  <2> SUFFICES ASSUME CacheInv, NEW q \in Queries, Stale(q) PROVE query[q].seen <= lifted
    BY DEF OnlySessionsHideChanges
  <2>1. query[q] \in Call /\ IsSound(query[q])
    BY CallFacts
  <2>2. query[q].result \in Nat /\ query[q].seen \in Nat
    BY <2>1 DEF Call
  <2> QED BY <2>1, <2>2 DEF Stale, IsSound, Current
<1> QED BY <1>1, CachesAreKept, PTL
\* Without operations of sessions no Dirty mark is removed but by a refresh.
NoSessions == todo["session"] = <<>> /\ sessionOps = 0 /\ job.owner # "session" /\ lifted = 0

LEMMA NoSessionsInit == Init => NoSessions
BY DEF Init, NoSessions, Threads, NoJob

LEMMA NoSessionsStep ==
  ASSUME MaxSessionOps = 0, WatchTypes, NoSessions, [Next]_vars
  PROVE  NoSessions'
<1>t. todo \in [Threads -> Seq(Ops)] /\ "session" \in Threads
  BY DEF WatchTypes, Threads
<1>1. CASE CallsNext
  BY <1>1, CallsFrame DEF serverVars, boundVars, NoSessions
<1>2. ASSUME NEW t \in Threads, ThreadStep(t) PROVE NoSessions'
  BY <1>t, <1>2 DEF ThreadStep, BumpEpoch, ClearFamily, boundVars, NoSessions
<1>3. CASE handle_notify_event \/ IndexCompleted
  BY <1>t, <1>3 DEF handle_notify_event, IndexCompleted, boundVars, NoSessions
<1>4. CASE settle_success \/ settle_failure
  BY <1>t, <1>4 DEF settle_success, settle_failure, boundVars, NoSessions
<1>5. CASE Edit \/ Notify \/ LeaseAcquired
  BY <1>5 DEF Edit, Notify, LeaseAcquired, boundVars, NoSessions
<1>6. CASE LeaseReleased
  <2>1. job' = [job EXCEPT !.stale = job.owner = "worker"] /\ job \in Jobs
    BY <1>6 DEF LeaseReleased, WatchTypes
  <2>2. job'.owner = job.owner
    BY <2>1 DEF Jobs
  <2> QED BY <1>6, <2>2 DEF LeaseReleased, boundVars, NoSessions
<1>7. CASE dispatch
  <2>1. job' = [NoJob EXCEPT !.owner = "worker", !.phase = "scan"]
    BY <1>7 DEF dispatch
  <2>2. job'.owner = "worker"
    BY <2>1 DEF NoJob
  <2> QED BY <1>7, <2>2 DEF dispatch, boundVars, NoSessions
<1>8. CASE Scan \/ Commit \/ Fail
  <2>1. job'.owner = job.owner
    BY <1>8 DEF Scan, Commit, Fail, WatchTypes, Jobs
  <2> QED BY <1>8, <2>1 DEF Scan, Commit, Fail, boundVars, NoSessions
<1>9. CASE StartInvalidation
  <2>1. job'.owner = job.owner
    BY <1>9 DEF StartInvalidation, WatchTypes, Jobs
  <2>2. todo'["session"] = todo["session"]
    BY <1>t, <1>9 DEF StartInvalidation, NoSessions
  <2> QED BY <1>9, <2>1, <2>2 DEF StartInvalidation, boundVars, NoSessions
<1>10. CASE Finish
  BY <1>10 DEF Finish, NoJob, boundVars, NoSessions
<1>11. ~invalidate_root /\ ~workspace_attach /\ ~workspace_detach /\ ~workspace_index
  BY DEF NoSessions, invalidate_root, workspace_attach, workspace_detach, workspace_index, SessionOp
<1>12. CASE UNCHANGED vars
  BY <1>12 DEF vars, boundVars, NoSessions
<1> QED BY <1>1, <1>2, <1>3, <1>4, <1>5, <1>6, <1>7, <1>8, <1>9, <1>10, <1>11, <1>12
        DEF Next, CallsNext, ThreadStep, Invalidating, Supervising, Running

\* With the supervisor and its worker alone, no answer misses a change accepted
\* before its call.
THEOREM AnswersSeeChanges ==
  ASSUME MaxSessionOps = 0
  PROVE  Spec => []AnswersSeeAcceptedChanges
<1>1. CacheInv => WatchTypes
  BY DEF CacheInv, WatchInv
<1>2. WatchTypes /\ NoSessions /\ [Next]_vars => NoSessions'
  BY NoSessionsStep
<1>3. CacheInv /\ NoSessions => AnswersSeeAcceptedChanges
  <2> SUFFICES ASSUME CacheInv, NoSessions, NEW q \in Queries, Stale(q) PROVE FALSE
    BY DEF AnswersSeeAcceptedChanges
  <2>1. query[q] \in Call /\ IsSound(query[q])
    BY CallFacts
  <2>2. query[q].result \in Nat /\ query[q].seen \in Nat
    BY <2>1 DEF Call
  <2> QED BY <2>1, <2>2 DEF Stale, IsSound, Current, NoSessions
<1> QED BY <1>1, <1>2, <1>3, NoSessionsInit, CachesAreKept, PTL DEF Spec
=============================================================================
