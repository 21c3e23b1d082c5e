------------------------ MODULE WatchSchedulerProofs ------------------------
(***************************************************************************)
(* Machine-checked theorems about the scheduler, for any repositories,     *)
(* paths, durations and limits.                                            *)
(***************************************************************************)
EXTENDS WatchSchedulerProps, FiniteSetTheorems, TLAPS

-----------------------------------------------------------------------------
(* The durations and the queue methods. *)

LEMMA BackoffIsNat ==
  ASSUME NEW attempts \in Nat
  PROVE  BackoffDelay(attempts) \in Nat
<1>1. BackoffFactor(attempts) \in {1, 2, 4, 8, 16}
  BY DEF BackoffFactor
<1> QED BY <1>1, DurationsAssumption DEF BackoffDelay

LEMMA MaxDelayIsNat == MaxDelay \in Nat
BY DurationsAssumption DEF MaxDelay

LEMMA QueueMethodsAreTyped ==
  ASSUME now \in Nat, NEW q \in QueueState
  PROVE  /\ EmptyQueue \in QueueState
         /\ Enqueued(q) \in QueueState
         /\ Started(q) \in QueueState
         /\ Succeeded(q) \in QueueState
         /\ Failed(q) \in QueueState
<1>1. EmptyQueue \in QueueState
  BY DEF EmptyQueue, QueueState, Instant, NoTime
<1>2. Enqueued(q) \in QueueState
  BY DEF Enqueued, QueueState, Instant, NoTime
<1>3. Started(q) \in QueueState
  BY DEF Started, QueueState, Instant, NoTime
<1>4. Succeeded(q) \in QueueState
  BY DEF Succeeded, QueueState, Instant, NoTime
<1>5. Failed(q) \in QueueState
  <2>1. q.attempts + 1 \in Nat
    BY DEF QueueState
  <2>2. now + BackoffDelay(q.attempts + 1) \in Nat
    BY <2>1, BackoffIsNat
  <2> QED BY <2>1, <2>2 DEF Failed, QueueState, Instant, NoTime
<1> QED BY <1>1, <1>2, <1>3, <1>4, <1>5

LEMMA RecordedManifestIsTyped ==
  ASSUME now \in Nat, queue \in [Repos -> [Class -> QueueState]], NEW r \in Repos
  PROVE  RecordedManifest(r) \in QueueState
<1> DEFINE q == queue[r][ManifestFast]
           first == IF q.first = NoTime THEN now ELSE q.first
           busy == active[r] = ManifestFast
           rerun == q.rerun \/ busy
           deadline == Earlier(now + Debounce, first + MaxDelay)
<1>1. q \in QueueState
  BY DEF Class
<1>2. first \in Nat
  BY <1>1 DEF QueueState, Instant, NoTime
<1>3. deadline \in Nat
  BY <1>2, MaxDelayIsNat, DurationsAssumption DEF Earlier
<1>4. rerun \in BOOLEAN
  OBVIOUS
<1> HIDE DEF q, first, rerun, deadline
<1>5. [q EXCEPT !.pending = TRUE, !.first = first] \in QueueState
  BY <1>1, <1>2 DEF QueueState, Instant
<1>6. [q EXCEPT !.pending = TRUE, !.first = first, !.debounce = deadline, !.rerun = rerun]
        \in QueueState
  BY <1>1, <1>2, <1>3, <1>4 DEF QueueState, Instant
<1>7. \/ RecordedManifest(r) = [q EXCEPT !.pending = TRUE, !.first = first]
      \/ RecordedManifest(r) = [q EXCEPT !.pending = TRUE, !.first = first,
                                         !.debounce = deadline, !.rerun = rerun]
  BY Zenon DEF RecordedManifest, q, first, rerun, deadline, busy
<1> QED BY <1>5, <1>6, <1>7

-----------------------------------------------------------------------------
(* Type correctness. *)

LEMMA TypeInit == Init => TypeOK
<1> SUFFICES ASSUME Init PROVE TypeOK
  OBVIOUS
<1>1. EmptyQueue \in QueueState
  BY DEF EmptyQueue, QueueState, Instant, NoTime
<1> QED BY <1>1 DEF Init, TypeOK, Class

LEMMA TypeStep == TypeOK /\ [Next]_schedVars => TypeOK'
<1> SUFFICES ASSUME TypeOK, [Next]_schedVars PROVE TypeOK'
  OBVIOUS
<1>0. \A r \in Repos, c \in Class : queue[r][c] \in QueueState
  BY DEF TypeOK
<1>e. EmptyQueue \in QueueState
  BY DEF EmptyQueue, QueueState, Instant, NoTime
<1>1. CASE Tick
  BY <1>1 DEF Tick, TypeOK, repoVars
<1>2. ASSUME NEW r \in Repos, NEW p \in Paths, RecordPathChange(r, p) PROVE TypeOK'
  <2>1. RecordedManifest(r) \in QueueState
    BY RecordedManifestIsTyped DEF TypeOK
  <2>2. queue' \in [Repos -> [Class -> QueueState]]
    BY <1>0, <1>2, <1>e, <2>1 DEF RecordPathChange, TypeOK
  <2> QED BY <1>2, <2>2 DEF RecordPathChange, TypeOK
<1>3. ASSUME NEW r \in Repos, NEW s \in Class \cup {Idle}, AddRepository(r, s) PROVE TypeOK'
  <2>1. queue' \in [Repos -> [Class -> QueueState]]
    <3>1. CASE s = Idle
      BY <1>3, <3>1 DEF AddRepository, TypeOK
    <3>2. CASE s \in Class
      <4>1. Enqueued(queue[r][s]) \in QueueState
        BY <1>0, <3>2, QueueMethodsAreTyped DEF TypeOK
      <4>2. s # Idle
        BY <3>2 DEF Class, Idle, ManifestFast, SemanticFollowup
      <4> QED BY <1>3, <3>2, <4>1, <4>2 DEF AddRepository, TypeOK
    <3> QED BY <3>1, <3>2
  <2> QED BY <1>3, <2>1 DEF AddRepository, TypeOK
<1>4. ASSUME NEW r \in Repos, RemoveRepository(r) PROVE TypeOK'
  BY <1>4, <1>e DEF RemoveRepository, TypeOK
<1>5. ASSUME NEW r \in Repos, NEW c \in Class, MarkStarted(r, c) PROVE TypeOK'
  <2>1. Started(queue[r][c]) \in QueueState
    BY <1>0, QueueMethodsAreTyped DEF TypeOK
  <2>2. queue' \in [Repos -> [Class -> QueueState]]
    BY <1>5, <2>1 DEF MarkStarted, TypeOK
  <2>3. /\ active' \in [Repos -> Class \cup {Idle}]
        /\ running' \in [Class -> SUBSET Repos]
        /\ now' = now /\ watched' = watched
    BY <1>5 DEF MarkStarted, TypeOK
  <2>4. /\ hints' \in [Repos -> SUBSET Paths]
        /\ inflight' \in [Repos -> SUBSET Paths]
        /\ semPaths' \in [Repos -> SUBSET Paths]
    <3>1. CASE c = ManifestFast
      <4>1. /\ inflight' = [inflight EXCEPT ![r] = hints[r]]
            /\ hints' = [hints EXCEPT ![r] = {}]
            /\ semPaths' = [semPaths EXCEPT ![r] = @ \cup hints[r]]
        BY <1>5, <3>1 DEF MarkStarted
      <4> QED BY <4>1 DEF TypeOK
    <3>2. CASE c # ManifestFast
      BY <1>5, <3>2 DEF MarkStarted, TypeOK
    <3> QED BY <3>1, <3>2
  <2> QED BY <2>2, <2>3, <2>4 DEF TypeOK
<1>6. ASSUME NEW r \in Repos, NEW c \in Class, MarkFailed(r, c) PROVE TypeOK'
  <2>1. Failed(queue[r][c]) \in QueueState
    BY <1>0, QueueMethodsAreTyped DEF TypeOK
  <2>2. queue' \in [Repos -> [Class -> QueueState]]
    BY <1>6, <2>1 DEF MarkFailed, TypeOK
  <2>3. CASE c = ManifestFast
    BY <1>6, <2>2, <2>3 DEF MarkFailed, Released, TypeOK
  <2>4. CASE c # ManifestFast
    BY <1>6, <2>2, <2>4 DEF MarkFailed, Released, TypeOK
  <2> QED BY <2>3, <2>4
<1>7. ASSUME NEW r \in Repos, NEW f \in BOOLEAN, SucceedManifest(r, f) PROVE TypeOK'
  <2>1. \A c \in Class : /\ Succeeded(queue[r][c]) \in QueueState
                         /\ Enqueued(queue[r][c]) \in QueueState
    BY <1>0, QueueMethodsAreTyped DEF TypeOK
  <2>2. queue' \in [Repos -> [Class -> QueueState]]
    BY <1>0, <1>7, <2>1 DEF SucceedManifest, ManifestSucceeded, IsRunning, TypeOK
  <2> QED BY <1>7, <2>2 DEF SucceedManifest, ManifestSucceeded, IsRunning, Released, TypeOK
<1>8. ASSUME NEW r \in Repos, SucceedSemantic(r) PROVE TypeOK'
  <2>1. Succeeded(queue[r][SemanticFollowup]) \in QueueState
    BY <1>0, QueueMethodsAreTyped DEF TypeOK, Class
  <2>2. queue' \in [Repos -> [Class -> QueueState]]
    BY <1>8, <2>1 DEF SucceedSemantic, SemanticSucceeded, IsRunning, TypeOK
  <2> QED BY <1>8, <2>2 DEF SucceedSemantic, SemanticSucceeded, IsRunning, Released, TypeOK
<1>9. ASSUME NEW r \in Repos, NEW c \in Class, Block(r, c) PROVE TypeOK'
  <2>1. queue' \in [Repos -> [Class -> QueueState]]
    BY <1>9, <1>e DEF Block, MarkBlocked, IsRunning, Blocked, TypeOK
  <2> QED BY <1>9, <2>1 DEF Block, MarkBlocked, IsRunning, Released, TypeOK
<1>10. CASE UNCHANGED schedVars
  BY <1>10 DEF schedVars, TypeOK
<1> QED BY <1>1, <1>2, <1>3, <1>4, <1>5, <1>6, <1>7, <1>8, <1>9, <1>10
        DEF Next, Change, Acquire, Release, Start, Postpone, Defer, Complete, CompleteOf, Fail, IsRunning

\* The scheduler's state keeps its types for every instance.
THEOREM TypeCorrect == Spec => []TypeOK
BY TypeInit, TypeStep, PTL DEF Spec

-----------------------------------------------------------------------------
(* The two classes never collide. *)

LEMMA CollideInit == Init => ClassesDoNotCollide
BY DEF Init, ClassesDoNotCollide, Class, Idle, ManifestFast, SemanticFollowup

LEMMA CollideStep ==
  TypeOK /\ ClassesDoNotCollide /\ [Next]_schedVars => ClassesDoNotCollide'
<1> SUFFICES ASSUME TypeOK, ClassesDoNotCollide, [Next]_schedVars
             PROVE  ClassesDoNotCollide'
  OBVIOUS
<1> USE DEF Class, Idle, ManifestFast, SemanticFollowup
<1>1. CASE UNCHANGED <<active, running>>
  BY <1>1 DEF ClassesDoNotCollide
<1>2. ASSUME NEW r \in Repos, RemoveRepository(r) PROVE ClassesDoNotCollide'
  BY <1>2 DEF RemoveRepository, ClassesDoNotCollide, TypeOK
<1>3. ASSUME NEW r \in Repos, NEW c \in Class, MarkStarted(r, c) PROVE ClassesDoNotCollide'
  BY <1>3 DEF MarkStarted, NextReady, Ready, ClassesDoNotCollide, TypeOK
<1>4. ASSUME NEW r \in Repos, NEW c \in Class, Released(r, c) PROVE ClassesDoNotCollide'
  BY <1>4 DEF Released, ClassesDoNotCollide, TypeOK
<1> QED
  BY <1>1, <1>2, <1>3, <1>4
  DEF Next, Tick, repoVars, schedVars, Change, RecordPathChange, Acquire, AddRepository, Release,
      Start, Postpone, Defer, MarkFailed, Complete, CompleteOf, Fail, IsRunning, SucceedManifest, ManifestSucceeded,
      SucceedSemantic, SemanticSucceeded, IsRunning, Block, MarkBlocked

\* No repository is ever held by both classes, nor by one the scheduler has forgotten.
THEOREM ClassesNeverCollide == Spec => []ClassesDoNotCollide
BY TypeCorrect, CollideInit, CollideStep, PTL DEF Spec

-----------------------------------------------------------------------------
(* The concurrency limits. *)

BoundedSlots ==
  \A c \in Class : IsFiniteSet(running[c]) /\ Cardinality(running[c]) <= Limit(c)

LEMMA SlotsInit == Init => BoundedSlots
<1> SUFFICES ASSUME Init, NEW c \in Class
             PROVE  IsFiniteSet(running[c]) /\ Cardinality(running[c]) <= Limit(c)
  BY DEF BoundedSlots
<1>1. running[c] = {}
  BY DEF Init
<1>2. Limit(c) \in Nat
  BY LimitsAssumption DEF Limit
<1> QED BY <1>1, <1>2, FS_EmptySet

\* Taking repositories away frees slots.
LEMMA FewerRunning ==
  ASSUME BoundedSlots, \A c \in Class : running'[c] \subseteq running[c]
  PROVE  BoundedSlots'
<1> SUFFICES ASSUME NEW c \in Class
             PROVE  IsFiniteSet(running'[c]) /\ Cardinality(running'[c]) <= Limit(c)
  BY DEF BoundedSlots, Limit
<1>1. IsFiniteSet(running[c]) /\ Cardinality(running[c]) <= Limit(c)
  BY DEF BoundedSlots
<1>2. /\ IsFiniteSet(running'[c])
      /\ Cardinality(running'[c]) <= Cardinality(running[c])
  BY <1>1, FS_Subset
<1>3. Cardinality(running[c]) \in Nat /\ Cardinality(running'[c]) \in Nat /\ Limit(c) \in Nat
  BY <1>1, <1>2, FS_CardinalityType, LimitsAssumption DEF Limit
<1> QED BY <1>1, <1>2, <1>3

LEMMA SlotsStep == TypeOK /\ BoundedSlots /\ [Next]_schedVars => BoundedSlots'
<1> SUFFICES ASSUME TypeOK, BoundedSlots, [Next]_schedVars PROVE BoundedSlots'
  OBVIOUS
<1>1. CASE UNCHANGED running
  BY <1>1, FewerRunning
<1>2. ASSUME NEW r \in Repos, RemoveRepository(r) PROVE BoundedSlots'
  BY <1>2, FewerRunning DEF RemoveRepository
<1>3. ASSUME NEW r \in Repos, NEW c \in Class, Released(r, c) PROVE BoundedSlots'
  BY <1>3, FewerRunning DEF Released, TypeOK
<1>4. ASSUME NEW r \in Repos, NEW c \in Class, MarkStarted(r, c) PROVE BoundedSlots'
  <2> SUFFICES ASSUME NEW d \in Class
               PROVE  IsFiniteSet(running'[d]) /\ Cardinality(running'[d]) <= Limit(d)
    BY DEF BoundedSlots, Limit
  <2>1. IsFiniteSet(running[d]) /\ Cardinality(running[d]) <= Limit(d)
    BY DEF BoundedSlots
  <2>2. CASE d # c
    BY <1>4, <2>1, <2>2 DEF MarkStarted, TypeOK
  <2>3. CASE d = c
    <3>1. running'[d] = running[d] \cup {r}
      BY <1>4, <2>3 DEF MarkStarted, TypeOK
    <3>2. Cardinality(running[d]) < Limit(d)
      BY <1>4, <2>3 DEF MarkStarted, NextReady, Offers
    <3>3. Cardinality(running[d]) \in Nat /\ Limit(d) \in Nat
      BY <2>1, FS_CardinalityType, LimitsAssumption DEF Limit
    <3>4. /\ IsFiniteSet(running[d] \cup {r})
          /\ \/ Cardinality(running[d] \cup {r}) = Cardinality(running[d])
             \/ Cardinality(running[d] \cup {r}) = Cardinality(running[d]) + 1
      BY <2>1, FS_AddElement
    <3> QED BY <3>1, <3>2, <3>3, <3>4
  <2> QED BY <2>2, <2>3
<1> QED
  BY <1>1, <1>2, <1>3, <1>4
  DEF Next, Tick, repoVars, schedVars, Change, RecordPathChange, Acquire, AddRepository, Release,
      Start, Postpone, Defer, MarkFailed, Complete, CompleteOf, Fail, IsRunning, SucceedManifest, ManifestSucceeded,
      SucceedSemantic, SemanticSucceeded, IsRunning, Block, MarkBlocked, Class, ManifestFast, SemanticFollowup

\* The scheduler never counts more refreshes of a class as running than its limit, which is what
\* next_ready_refresh starts from; a worker whose repository was removed works on uncounted.
THEOREM LimitsHold == Spec => []WithinLimits
<1>1. BoundedSlots => WithinLimits
  BY DEF BoundedSlots, WithinLimits
<1> QED BY <1>1, TypeCorrect, SlotsInit, SlotsStep, PTL DEF Spec

-----------------------------------------------------------------------------
(* Reruns are asked for exactly when something is left to do. *)

LEMMA RerunInit == Init => RerunMatchesHints
BY DEF Init, RerunMatchesHints, EmptyQueue, Idle, ManifestFast, Class

LEMMA RerunStep ==
  TypeOK /\ RerunMatchesHints /\ [Next]_schedVars => RerunMatchesHints'
<1> SUFFICES ASSUME TypeOK, RerunMatchesHints, [Next]_schedVars,
                    NEW s \in Repos
             PROVE  queue'[s][ManifestFast].rerun <=> (active'[s] = ManifestFast /\ hints'[s] # {})
  BY DEF RerunMatchesHints
<1> USE DEF Class, Idle, ManifestFast, SemanticFollowup
<1>0. /\ queue[s][ManifestFast].rerun <=> (active[s] = ManifestFast /\ hints[s] # {})
      /\ queue[s] \in [Class -> QueueState]
      /\ queue[s][ManifestFast] \in QueueState
  BY DEF RerunMatchesHints, TypeOK
<1>1. CASE UNCHANGED <<queue, active, hints>>
  BY <1>0, <1>1
<1>2. ASSUME NEW r \in Repos, NEW p \in Paths, RecordPathChange(r, p) PROVE
        queue'[s][ManifestFast].rerun <=> (active'[s] = ManifestFast /\ hints'[s] # {})
  <2>1. CASE r # s
    BY <1>0, <1>2, <2>1 DEF RecordPathChange, TypeOK
  <2>2. CASE r = s
    <3>1. /\ queue'[s][ManifestFast] = RecordedManifest(s)
          /\ active'[s] = active[s] /\ hints'[s] # {}
      BY <1>2, <2>2 DEF RecordPathChange, TypeOK
    <3>2. RecordedManifest(s).rerun <=>
            (queue[s][ManifestFast].rerun \/ active[s] = ManifestFast)
      BY <1>0 DEF RecordedManifest, QueueState
    <3> QED BY <1>0, <3>1, <3>2
  <2> QED BY <2>1, <2>2
<1>3. ASSUME NEW r \in Repos, NEW t \in Class \cup {Idle}, AddRepository(r, t) PROVE
        queue'[s][ManifestFast].rerun <=> (active'[s] = ManifestFast /\ hints'[s] # {})
  BY <1>0, <1>3 DEF AddRepository, Enqueued, QueueState, TypeOK
<1>4. ASSUME NEW r \in Repos, RemoveRepository(r) PROVE
        queue'[s][ManifestFast].rerun <=> (active'[s] = ManifestFast /\ hints'[s] # {})
  BY <1>0, <1>4 DEF RemoveRepository, EmptyQueue, TypeOK
<1>5. ASSUME NEW r \in Repos, NEW c \in Class, MarkStarted(r, c) PROVE
        queue'[s][ManifestFast].rerun <=> (active'[s] = ManifestFast /\ hints'[s] # {})
  <2>1. CASE r # s
    BY <1>0, <1>5, <2>1 DEF MarkStarted, TypeOK
  <2>2. CASE r = s
    <3>1. active[s] = Idle /\ active'[s] = c
      BY <1>5, <2>2 DEF MarkStarted, NextReady, Ready, TypeOK
    <3>2. queue'[s][ManifestFast].rerun <=> queue[s][ManifestFast].rerun
      BY <1>0, <1>5, <2>2 DEF MarkStarted, Started, QueueState, TypeOK
    <3>3. c = ManifestFast => hints'[s] = {}
      BY <1>5, <2>2 DEF MarkStarted, TypeOK
    <3> QED BY <1>0, <3>1, <3>2, <3>3
  <2> QED BY <2>1, <2>2
<1>6. ASSUME NEW r \in Repos, NEW c \in Class, MarkFailed(r, c) PROVE
        queue'[s][ManifestFast].rerun <=> (active'[s] = ManifestFast /\ hints'[s] # {})
  <2>1. CASE c = ManifestFast
    BY <1>0, <1>6, <2>1 DEF MarkFailed, Released, Failed, QueueState, TypeOK
  <2>2. CASE c = SemanticFollowup
    BY <1>0, <1>6, <2>2 DEF MarkFailed, Released, TypeOK
  <2> QED BY <2>1, <2>2
<1>7. ASSUME NEW r \in Repos, NEW f \in BOOLEAN, SucceedManifest(r, f) PROVE
        queue'[s][ManifestFast].rerun <=> (active'[s] = ManifestFast /\ hints'[s] # {})
  BY <1>0, <1>7 DEF SucceedManifest, ManifestSucceeded, IsRunning, Released, Succeeded, QueueState, TypeOK
<1>8. ASSUME NEW r \in Repos, SucceedSemantic(r) PROVE
        queue'[s][ManifestFast].rerun <=> (active'[s] = ManifestFast /\ hints'[s] # {})
  BY <1>0, <1>8 DEF SucceedSemantic, SemanticSucceeded, IsRunning, Released, TypeOK
<1>9. ASSUME NEW r \in Repos, NEW c \in Class, Block(r, c) PROVE
        queue'[s][ManifestFast].rerun <=> (active'[s] = ManifestFast /\ hints'[s] # {})
  BY <1>0, <1>9 DEF Block, MarkBlocked, IsRunning, Blocked, EmptyQueue, Released, TypeOK
<1> QED
  BY <1>1, <1>2, <1>3, <1>4, <1>5, <1>6, <1>7, <1>8, <1>9
  DEF Next, Tick, repoVars, schedVars, Change, Acquire, Release, Start, Postpone, Defer,
      Complete, CompleteOf, Fail

\* A running manifest-fast refresh is followed by another exactly when a path was touched
\* after it started.
THEOREM RerunsMatch == Spec => []RerunMatchesHints
BY TypeCorrect, RerunInit, RerunStep, PTL DEF Spec

-----------------------------------------------------------------------------
(* The queue methods keep a queue well formed. *)

LEMMA EmptyQueueIsWellFormed == QueueWellFormed(EmptyQueue)
BY DEF QueueWellFormed, EmptyQueue

LEMMA EnqueuedIsWellFormed ==
  ASSUME now \in Nat, NEW q \in QueueState
  PROVE  QueueWellFormed(Enqueued(q))
<1>1. BackoffDelay(0) \in Nat /\ MaxDelay \in Nat
  BY BackoffIsNat, MaxDelayIsNat
<1> HIDE DEF MaxDelay
<1> QED BY <1>1 DEF Enqueued, QueueState, QueueWellFormed, Instant, NoTime

LEMMA StartedIsWellFormed ==
  ASSUME NEW q \in QueueState
  PROVE  QueueWellFormed(Started(q)) /\ Started(q).retry = NoTime
BY DEF Started, QueueState, QueueWellFormed

LEMMA SucceededIsWellFormed ==
  ASSUME now \in Nat, NEW q \in QueueState, QueueWellFormed(q), q.retry = NoTime
  PROVE  QueueWellFormed(Succeeded(q)) /\ Succeeded(q).retry = NoTime
<1>1. BackoffDelay(0) \in Nat /\ MaxDelay \in Nat
  BY BackoffIsNat, MaxDelayIsNat
<1>2. CASE ~q.rerun
  BY <1>2 DEF Succeeded, QueueState, QueueWellFormed
<1>3. CASE q.rerun /\ ~q.pending
  BY <1>1, <1>3 DEF Succeeded, QueueState, QueueWellFormed, Instant, NoTime
<1>4. CASE q.rerun /\ q.pending
  BY <1>1, <1>4 DEF Succeeded, QueueState, QueueWellFormed, Instant, NoTime
<1>5. q.rerun \in BOOLEAN /\ q.pending \in BOOLEAN
  BY DEF QueueState
<1> QED BY <1>2, <1>3, <1>4, <1>5

LEMMA FailedIsWellFormed ==
  ASSUME now \in Nat, NEW q \in QueueState
  PROVE  QueueWellFormed(Failed(q))
<1>1. q.attempts + 1 \in Nat
  BY DEF QueueState
<1>2. BackoffDelay(q.attempts + 1) \in Nat /\ MaxDelay \in Nat
  BY <1>1, BackoffIsNat, MaxDelayIsNat
<1> DEFINE d == BackoffDelay(q.attempts + 1)
<1>3. /\ Failed(q).pending /\ Failed(q).first = now /\ Failed(q).debounce = NoTime
      /\ Failed(q).retry = now + d /\ Failed(q).attempts = q.attempts + 1
  BY DEF Failed, QueueState
<1> QED BY <1>2, <1>3 DEF QueueWellFormed, NoTime

LEMMA RecordedIsWellFormed ==
  ASSUME now \in Nat, NEW r \in Repos, queue[r][ManifestFast] \in QueueState,
         QueueWellFormed(queue[r][ManifestFast]),
         active[r] = ManifestFast => queue[r][ManifestFast].retry = NoTime
  PROVE  /\ QueueWellFormed(RecordedManifest(r))
         /\ RecordedManifest(r).retry = queue[r][ManifestFast].retry
<1> DEFINE q == queue[r][ManifestFast]
           first == IF q.first = NoTime THEN now ELSE q.first
           busy == active[r] = ManifestFast
           deadline == Earlier(now + Debounce, first + MaxDelay)
           n == RecordedManifest(r)
<1>1. MaxDelay \in Nat /\ Debounce \in Nat /\ BackoffDelay(q.attempts) \in Nat
  BY BackoffIsNat, MaxDelayIsNat, DurationsAssumption DEF QueueState
<1>2. first \in Nat
  BY DEF QueueState, Instant, NoTime
<1>3. CASE q.retry # NoTime /\ ~busy
  <2>1. n = [q EXCEPT !.pending = TRUE, !.first = first]
    BY <1>3, Zenon DEF RecordedManifest
  <2>2. q.pending /\ first = q.first
    BY <1>3 DEF QueueWellFormed
  <2>3. /\ n.pending /\ n.first = q.first /\ n.debounce = q.debounce
        /\ n.retry = q.retry /\ n.attempts = q.attempts
    BY <2>1, <2>2 DEF QueueState
  <2> QED BY <2>2, <2>3 DEF QueueWellFormed
<1>4. CASE ~(q.retry # NoTime /\ ~busy)
  <2>1. n = [q EXCEPT !.pending = TRUE, !.first = first, !.debounce = deadline,
                      !.rerun = @ \/ busy]
    BY <1>4, Zenon DEF RecordedManifest
  <2>2. q.retry = NoTime
    BY <1>4
  <2>3. /\ n.pending /\ n.first = first /\ n.debounce = deadline
        /\ n.retry = q.retry /\ n.attempts = q.attempts
    BY <2>1 DEF QueueState
  <2>4. deadline \in Nat /\ deadline <= first + MaxDelay
    BY <1>1, <1>2 DEF Earlier
  <2> QED BY <1>1, <1>2, <2>2, <2>3, <2>4 DEF QueueWellFormed, NoTime
<1> QED BY <1>3, <1>4

-----------------------------------------------------------------------------
(* The supporting invariant. *)

LEMMA SupportingInit == Init => Supporting
<1> SUFFICES ASSUME Init PROVE Supporting
  OBVIOUS
<1>1. UnwatchedIsForgotten
  BY DEF Init, UnwatchedIsForgotten, FreshRepository
<1>2. InflightOnlyWhileActive /\ FollowupNeverReruns /\ RunningAwaitsNoRetry
  BY DEF Init, InflightOnlyWhileActive, FollowupNeverReruns, RunningAwaitsNoRetry, EmptyQueue,
         Class, Idle, ManifestFast, SemanticFollowup
<1>3. QueuesWellFormed
  BY EmptyQueueIsWellFormed DEF Init, QueuesWellFormed
<1> QED BY <1>1, <1>2, <1>3 DEF Supporting

\* What one repository's part of the supporting invariant says, whatever its queues hold.
RepositorySupported(r) ==
  /\ r \notin watched => FreshRepository(r)
  /\ inflight[r] # {} => active[r] = ManifestFast
  /\ ~queue[r][SemanticFollowup].rerun
  /\ \A c \in Class : /\ active[r] = c => queue[r][c].retry = NoTime
                      /\ QueueWellFormed(queue[r][c])

LEMMA SupportingIsPerRepository == Supporting <=> \A r \in Repos : RepositorySupported(r)
<1>1. ASSUME Supporting, NEW r \in Repos PROVE RepositorySupported(r)
  <2>1. r \notin watched => FreshRepository(r)
    BY <1>1 DEF Supporting, UnwatchedIsForgotten
  <2>2. (inflight[r] # {} => active[r] = ManifestFast) /\ ~queue[r][SemanticFollowup].rerun
    BY <1>1, Zenon DEF Supporting, InflightOnlyWhileActive, FollowupNeverReruns
  <2>3. \A c \in Class : /\ active[r] = c => queue[r][c].retry = NoTime
                        /\ QueueWellFormed(queue[r][c])
    BY <1>1 DEF Supporting, RunningAwaitsNoRetry, QueuesWellFormed
  <2> QED BY <2>1, <2>2, <2>3, Zenon DEF RepositorySupported
<1>2. ASSUME \A r \in Repos : RepositorySupported(r) PROVE Supporting
  <2>1. UnwatchedIsForgotten
    BY <1>2 DEF RepositorySupported, UnwatchedIsForgotten
  <2>2. InflightOnlyWhileActive
    BY <1>2 DEF RepositorySupported, InflightOnlyWhileActive
  <2>3. FollowupNeverReruns
    BY <1>2, Zenon DEF RepositorySupported, FollowupNeverReruns
  <2>4. RunningAwaitsNoRetry
    BY <1>2 DEF RepositorySupported, RunningAwaitsNoRetry
  <2>5. QueuesWellFormed
    BY <1>2, Zenon DEF RepositorySupported, QueuesWellFormed
  <2> QED BY <2>1, <2>2, <2>3, <2>4, <2>5 DEF Supporting
<1> QED BY <1>1, <1>2

\* A step that leaves a repository's own state alone leaves its part of the invariant alone.
LEMMA FrameKeepsSupport ==
  ASSUME NEW s \in Repos, RepositorySupported(s), s \notin watched' => s \notin watched,
         queue'[s] = queue[s], active'[s] = active[s], hints'[s] = hints[s],
         inflight'[s] = inflight[s], semPaths'[s] = semPaths[s]
  PROVE  RepositorySupported(s)'
<1>1. (s \notin watched => FreshRepository(s))'
  BY DEF RepositorySupported, FreshRepository
<1>2. (inflight[s] # {} => active[s] = ManifestFast)' /\ (~queue[s][SemanticFollowup].rerun)'
  BY Zenon DEF RepositorySupported
<1>3. ASSUME NEW c \in Class
      PROVE (active[s] = c => queue[s][c].retry = NoTime)' /\ QueueWellFormed(queue[s][c])'
  BY Zenon DEF RepositorySupported
<1> QED BY <1>1, <1>2, <1>3, Zenon DEF RepositorySupported

\* The parts to show of a repository that a step changed.
LEMMA SupportedAfter ==
  ASSUME NEW s \in Repos, s \notin watched' => FreshRepository(s)',
         inflight'[s] # {} => active'[s] = ManifestFast,
         ~queue'[s][SemanticFollowup].rerun,
         \A c \in Class : active'[s] = c => queue'[s][c].retry = NoTime,
         \A c \in Class : QueueWellFormed(queue'[s][c])
  PROVE  RepositorySupported(s)'
<1>1. ASSUME NEW c \in Class
      PROVE (active[s] = c => queue[s][c].retry = NoTime)' /\ QueueWellFormed(queue[s][c])'
  BY Zenon
<1> QED BY <1>1, Zenon DEF RepositorySupported

LEMMA ChangeKeepsSupport ==
  ASSUME TypeOK, NEW s \in Repos, RepositorySupported(s), NEW p \in Paths,
         RecordPathChange(s, p)
  PROVE  RepositorySupported(s)'
<1> DEFINE m == queue[s][ManifestFast]
           f == queue[s][SemanticFollowup]
<1>1. /\ now \in Nat /\ m \in QueueState /\ f \in QueueState
      /\ ManifestFast \in Class /\ SemanticFollowup \in Class
  BY DEF TypeOK, Class
<1>2. /\ QueueWellFormed(m) /\ QueueWellFormed(f) /\ ~f.rerun
      /\ active[s] = ManifestFast => m.retry = NoTime
      /\ active[s] = SemanticFollowup => f.retry = NoTime
  BY <1>1 DEF RepositorySupported
<1>3. /\ queue'[s][ManifestFast] = RecordedManifest(s)
      /\ queue'[s][SemanticFollowup] = IF ResetsSemantic(s) THEN EmptyQueue ELSE f
  BY DEF RecordPathChange, TypeOK, Class, ManifestFast, SemanticFollowup
<1>4. s \in watched' /\ active'[s] = active[s] /\ inflight'[s] = inflight[s]
  BY DEF RecordPathChange
<1>5. QueueWellFormed(RecordedManifest(s)) /\ RecordedManifest(s).retry = m.retry
  BY <1>1, <1>2, RecordedIsWellFormed
<1>6. EmptyQueue.retry = NoTime /\ ~EmptyQueue.rerun /\ QueueWellFormed(EmptyQueue)
  BY EmptyQueueIsWellFormed DEF EmptyQueue
<1>7. ~queue'[s][SemanticFollowup].rerun
  BY <1>2, <1>3, <1>6
<1>8. ASSUME NEW c \in Class
      PROVE (active'[s] = c => queue'[s][c].retry = NoTime) /\ QueueWellFormed(queue'[s][c])
  <2>1. CASE c = ManifestFast
    BY <1>2, <1>3, <1>4, <1>5, <2>1
  <2>2. CASE c = SemanticFollowup
    BY <1>2, <1>3, <1>4, <1>6, <2>2
  <2> QED BY <2>1, <2>2 DEF Class
<1>9. inflight'[s] # {} => active'[s] = ManifestFast
  BY <1>4 DEF RepositorySupported
<1> QED BY <1>4, <1>7, <1>8, <1>9, SupportedAfter

LEMMA StartKeepsSupport ==
  ASSUME TypeOK, NEW s \in Repos, RepositorySupported(s), NEW c \in Class,
         MarkStarted(s, c)
  PROVE  RepositorySupported(s)'
<1> DEFINE q == queue[s][c]
<1>1. q \in QueueState /\ active[s] = Idle
  BY DEF TypeOK, MarkStarted, NextReady, Ready
<1>2. QueueWellFormed(Started(q)) /\ Started(q).retry = NoTime /\ Started(q).rerun = q.rerun
  BY <1>1, StartedIsWellFormed DEF Started, QueueState
<1>3. /\ queue'[s][c] = Started(q)
      /\ \A d \in Class \ {c} : queue'[s][d] = queue[s][d]
  BY DEF MarkStarted, TypeOK
<1>4. s \in watched' /\ active'[s] = c
  BY DEF MarkStarted, NextReady, Ready, TypeOK
<1>5. inflight'[s] # {} => active'[s] = ManifestFast
  <2>1. inflight[s] = {}
    BY <1>1 DEF RepositorySupported, Idle, ManifestFast
  <2> QED BY <1>4, <2>1 DEF MarkStarted, TypeOK
<1>6. ~queue'[s][SemanticFollowup].rerun
  <2>1. ~queue[s][SemanticFollowup].rerun /\ SemanticFollowup \in Class
    BY DEF RepositorySupported, Class
  <2> QED BY <1>2, <1>3, <2>1
<1>7. ASSUME NEW d \in Class
      PROVE (active'[s] = d => queue'[s][d].retry = NoTime) /\ QueueWellFormed(queue'[s][d])
  BY <1>2, <1>3, <1>4 DEF RepositorySupported
<1> QED BY <1>4, <1>5, <1>6, <1>7, SupportedAfter

LEMMA FailureKeepsSupport ==
  ASSUME TypeOK, NEW s \in Repos, RepositorySupported(s), NEW c \in Class,
         s \in watched, active[s] \in {Idle, c}, MarkFailed(s, c)
  PROVE  RepositorySupported(s)'
<1> DEFINE q == queue[s][c]
<1>1. q \in QueueState /\ now \in Nat
  BY DEF TypeOK
<1>2. QueueWellFormed(Failed(q)) /\ ~Failed(q).rerun
  BY <1>1, FailedIsWellFormed DEF Failed, QueueState
<1>3. /\ queue'[s][c] = Failed(q)
      /\ \A d \in Class \ {c} : queue'[s][d] = queue[s][d]
  BY DEF MarkFailed, TypeOK
<1>4. s \in watched' /\ active'[s] = Idle
  BY DEF MarkFailed, Released, TypeOK
<1>5. inflight'[s] = {}
  <2>1. CASE c = ManifestFast
    BY <2>1 DEF MarkFailed, TypeOK
  <2>2. CASE c = SemanticFollowup
    BY <2>2 DEF MarkFailed, RepositorySupported, Idle, ManifestFast, SemanticFollowup
  <2> QED BY <2>1, <2>2 DEF Class
<1>6. ~queue'[s][SemanticFollowup].rerun
  <2>1. ~queue[s][SemanticFollowup].rerun /\ SemanticFollowup \in Class
    BY DEF RepositorySupported, Class
  <2> QED BY <1>2, <1>3, <2>1
<1>7. ASSUME NEW d \in Class
      PROVE (active'[s] = d => queue'[s][d].retry = NoTime) /\ QueueWellFormed(queue'[s][d])
  <2>1. active'[s] # d
    BY <1>4 DEF Class, Idle, ManifestFast, SemanticFollowup
  <2>2. QueueWellFormed(queue[s][d])
    BY DEF RepositorySupported
  <2> QED BY <1>2, <1>3, <2>1, <2>2
<1> QED BY <1>4, <1>5, <1>6, <1>7, SupportedAfter

LEMMA ManifestSuccessKeepsSupport ==
  ASSUME TypeOK, NEW s \in Repos, RepositorySupported(s), NEW b \in BOOLEAN,
         SucceedManifest(s, b)
  PROVE  RepositorySupported(s)'
<1> DEFINE m == queue[s][ManifestFast]
           f == queue[s][SemanticFollowup]
<1>1. /\ now \in Nat /\ m \in QueueState /\ f \in QueueState
      /\ ManifestFast \in Class /\ SemanticFollowup \in Class
  BY DEF TypeOK, Class
<1>2. QueueWellFormed(m) /\ QueueWellFormed(f) /\ ~f.rerun /\ m.retry = NoTime
  BY <1>1 DEF RepositorySupported, SucceedManifest, ManifestSucceeded, IsRunning
<1>3. /\ queue'[s][ManifestFast] = Succeeded(m)
      /\ queue'[s][SemanticFollowup] = IF b /\ ~f.pending THEN Enqueued(f) ELSE f
  BY DEF SucceedManifest, ManifestSucceeded, IsRunning, TypeOK, Class, ManifestFast, SemanticFollowup
<1>4. s \in watched' /\ active'[s] = Idle /\ inflight'[s] = {}
  BY DEF SucceedManifest, ManifestSucceeded, IsRunning, Released, TypeOK
<1>5. QueueWellFormed(Succeeded(m))
  BY <1>1, <1>2, SucceededIsWellFormed
<1>6. QueueWellFormed(Enqueued(f)) /\ ~Enqueued(f).rerun
  BY <1>1, <1>2, EnqueuedIsWellFormed DEF Enqueued, QueueState
<1>7. ~queue'[s][SemanticFollowup].rerun
  BY <1>2, <1>3, <1>6
<1>8. ASSUME NEW c \in Class
      PROVE (active'[s] = c => queue'[s][c].retry = NoTime) /\ QueueWellFormed(queue'[s][c])
  <2>1. active'[s] # c
    BY <1>4 DEF Class, Idle, ManifestFast, SemanticFollowup
  <2>2. QueueWellFormed(queue'[s][c])
    BY <1>2, <1>3, <1>5, <1>6 DEF Class
  <2> QED BY <2>1, <2>2
<1> QED BY <1>4, <1>7, <1>8, SupportedAfter

LEMMA SemanticSuccessKeepsSupport ==
  ASSUME TypeOK, NEW s \in Repos, RepositorySupported(s), SucceedSemantic(s)
  PROVE  RepositorySupported(s)'
<1> DEFINE f == queue[s][SemanticFollowup]
<1>1. /\ now \in Nat /\ f \in QueueState /\ active[s] = SemanticFollowup
      /\ SemanticFollowup \in Class
  BY DEF TypeOK, Class, SucceedSemantic, SemanticSucceeded, IsRunning
<1>2. QueueWellFormed(f) /\ f.retry = NoTime
  BY <1>1 DEF RepositorySupported
<1>3. QueueWellFormed(Succeeded(f)) /\ ~Succeeded(f).rerun
  BY <1>1, <1>2, SucceededIsWellFormed DEF Succeeded, QueueState
<1>4. /\ queue'[s][SemanticFollowup] = Succeeded(f)
      /\ \A d \in Class \ {SemanticFollowup} : queue'[s][d] = queue[s][d]
  BY DEF SucceedSemantic, SemanticSucceeded, IsRunning, TypeOK, Class
<1>5. s \in watched' /\ active'[s] = Idle /\ inflight'[s] = inflight[s]
  BY DEF SucceedSemantic, SemanticSucceeded, IsRunning, Released, TypeOK
<1>6. inflight'[s] = {}
  BY <1>1, <1>5 DEF RepositorySupported, ManifestFast, SemanticFollowup
<1>7. ASSUME NEW d \in Class
      PROVE (active'[s] = d => queue'[s][d].retry = NoTime) /\ QueueWellFormed(queue'[s][d])
  <2>1. active'[s] # d
    BY <1>5 DEF Class, Idle, ManifestFast, SemanticFollowup
  <2>2. QueueWellFormed(queue[s][d])
    BY DEF RepositorySupported
  <2> QED BY <1>3, <1>4, <2>1, <2>2
<1> QED BY <1>3, <1>4, <1>5, <1>6, <1>7, SupportedAfter

LEMMA BlockKeepsSupport ==
  ASSUME TypeOK, NEW s \in Repos, RepositorySupported(s), NEW c \in Class, Block(s, c)
  PROVE  RepositorySupported(s)'
<1>1. /\ queue'[s][c] = EmptyQueue
      /\ \A d \in Class \ {c} : queue'[s][d] = queue[s][d]
  BY DEF Block, MarkBlocked, IsRunning, Blocked, TypeOK
<1>2. QueueWellFormed(EmptyQueue) /\ ~EmptyQueue.rerun
  BY EmptyQueueIsWellFormed DEF EmptyQueue
<1>3. s \in watched' /\ active'[s] = Idle
  BY DEF Block, MarkBlocked, IsRunning, Released, TypeOK
<1>4. inflight'[s] = {}
  <2>1. CASE c = ManifestFast
    BY <2>1 DEF Block, MarkBlocked, IsRunning, TypeOK
  <2>2. CASE c = SemanticFollowup
    BY <2>2 DEF Block, MarkBlocked, IsRunning, RepositorySupported, ManifestFast, SemanticFollowup
  <2> QED BY <2>1, <2>2 DEF Class
<1>5. ~queue'[s][SemanticFollowup].rerun
  <2>1. ~queue[s][SemanticFollowup].rerun /\ SemanticFollowup \in Class
    BY DEF RepositorySupported, Class
  <2> QED BY <1>1, <1>2, <2>1
<1>6. ASSUME NEW d \in Class
      PROVE (active'[s] = d => queue'[s][d].retry = NoTime) /\ QueueWellFormed(queue'[s][d])
  <2>1. active'[s] # d
    BY <1>3 DEF Class, Idle, ManifestFast, SemanticFollowup
  <2>2. QueueWellFormed(queue[s][d])
    BY DEF RepositorySupported
  <2> QED BY <1>1, <1>2, <2>1, <2>2
<1> QED BY <1>3, <1>4, <1>5, <1>6, SupportedAfter

LEMMA AddKeepsSupport ==
  ASSUME TypeOK, NEW s \in Repos, RepositorySupported(s), NEW t \in Class \cup {Idle},
         AddRepository(s, t)
  PROVE  RepositorySupported(s)'
<1>0. /\ s \in watched' /\ active'[s] = active[s] /\ hints'[s] = hints[s]
      /\ inflight'[s] = inflight[s] /\ semPaths'[s] = semPaths[s]
  BY DEF AddRepository
<1>1. CASE t = Idle
  <2>1. queue'[s] = queue[s]
    BY <1>1 DEF AddRepository
  <2> QED BY <1>0, <2>1, FrameKeepsSupport
<1>2. CASE t # Idle
  <2>0. t \in Class
    BY <1>2
  <2>1. /\ queue'[s][t] = Enqueued(queue[s][t])
        /\ \A d \in Class \ {t} : queue'[s][d] = queue[s][d]
    BY <1>2, <2>0 DEF AddRepository, TypeOK
  <2>2. queue[s][t] \in QueueState /\ now \in Nat
    BY <2>0 DEF TypeOK
  <2>3. /\ QueueWellFormed(Enqueued(queue[s][t])) /\ Enqueued(queue[s][t]).retry = NoTime
        /\ Enqueued(queue[s][t]).rerun = queue[s][t].rerun
    BY <2>2, EnqueuedIsWellFormed DEF Enqueued, QueueState
  <2>4. ~queue'[s][SemanticFollowup].rerun
    <3>1. ~queue[s][SemanticFollowup].rerun /\ SemanticFollowup \in Class
      BY DEF RepositorySupported, Class
    <3> QED BY <2>1, <2>3, <3>1
  <2>5. ASSUME NEW d \in Class
        PROVE (active'[s] = d => queue'[s][d].retry = NoTime) /\ QueueWellFormed(queue'[s][d])
    BY <1>0, <2>1, <2>3 DEF RepositorySupported
  <2>6. inflight'[s] # {} => active'[s] = ManifestFast
    BY <1>0 DEF RepositorySupported
  <2> QED BY <1>0, <2>4, <2>5, <2>6, SupportedAfter
<1> QED BY <1>1, <1>2

LEMMA RemovalKeepsSupport ==
  ASSUME TypeOK, NEW s \in Repos, RemoveRepository(s)
  PROVE  RepositorySupported(s)'
<1>1. FreshRepository(s)'
  BY DEF RemoveRepository, FreshRepository, TypeOK
<1>2. \A c \in Class : queue'[s][c] = EmptyQueue
  BY DEF RemoveRepository, TypeOK
<1>3. active'[s] = Idle /\ inflight'[s] = {}
  BY DEF RemoveRepository, TypeOK
<1>4. ~queue'[s][SemanticFollowup].rerun
  BY <1>2 DEF Class, EmptyQueue
<1>5. ASSUME NEW c \in Class
      PROVE (active'[s] = c => queue'[s][c].retry = NoTime) /\ QueueWellFormed(queue'[s][c])
  <2>1. EmptyQueue.retry = NoTime
    BY DEF EmptyQueue
  <2> QED BY <1>2, <2>1, EmptyQueueIsWellFormed
<1> QED BY <1>1, <1>3, <1>4, <1>5, SupportedAfter

LEMMA SupportingStep == TypeOK /\ Supporting /\ [Next]_schedVars => Supporting'
<1> SUFFICES ASSUME TypeOK, Supporting, [Next]_schedVars, NEW s \in Repos
             PROVE  RepositorySupported(s)'
  <2>1. Supporting' <=> (\A r \in Repos : RepositorySupported(r))'
    BY SupportingIsPerRepository, PTL
  <2> QED BY <2>1
<1>0. TypeOK /\ RepositorySupported(s)
  BY SupportingIsPerRepository
<1>1. CASE UNCHANGED repoVars
  BY <1>0, <1>1, FrameKeepsSupport DEF repoVars
<1>2. ASSUME NEW r \in Repos, NEW p \in Paths, RecordPathChange(r, p) PROVE RepositorySupported(s)'
  <2>1. CASE r = s
    BY <1>0, <1>2, <2>1, ChangeKeepsSupport
  <2>2. CASE r # s
    BY <1>0, <1>2, <2>2, FrameKeepsSupport DEF RecordPathChange, TypeOK
  <2> QED BY <2>1, <2>2
<1>3. ASSUME NEW r \in Repos, NEW t \in Class \cup {Idle}, AddRepository(r, t) PROVE RepositorySupported(s)'
  <2>1. CASE r = s
    BY <1>0, <1>3, <2>1, AddKeepsSupport
  <2>2. CASE r # s
    BY <1>0, <1>3, <2>2, FrameKeepsSupport DEF AddRepository, TypeOK
  <2> QED BY <2>1, <2>2
<1>4. ASSUME NEW r \in Repos, RemoveRepository(r) PROVE RepositorySupported(s)'
  <2>1. CASE r = s
    BY <1>0, <1>4, <2>1, RemovalKeepsSupport
  <2>2. CASE r # s
    BY <1>0, <1>4, <2>2, FrameKeepsSupport DEF RemoveRepository, TypeOK
  <2> QED BY <2>1, <2>2
<1>5. ASSUME NEW r \in Repos, NEW c \in Class, MarkStarted(r, c) PROVE RepositorySupported(s)'
  <2>1. CASE r = s
    BY <1>0, <1>5, <2>1, StartKeepsSupport
  <2>2. CASE r # s
    BY <1>0, <1>5, <2>2, FrameKeepsSupport DEF MarkStarted, TypeOK
  <2> QED BY <2>1, <2>2
<1>6. ASSUME NEW r \in Repos, NEW c \in Class, r \in watched, active[r] \in {Idle, c},
             MarkFailed(r, c) PROVE RepositorySupported(s)'
  <2>1. CASE r = s
    BY <1>0, <1>6, <2>1, FailureKeepsSupport
  <2>2. CASE r # s
    BY <1>0, <1>6, <2>2, FrameKeepsSupport DEF MarkFailed, Released, TypeOK
  <2> QED BY <2>1, <2>2
<1>7. ASSUME NEW r \in Repos, NEW b \in BOOLEAN, SucceedManifest(r, b) PROVE RepositorySupported(s)'
  <2>1. CASE r = s
    BY <1>0, <1>7, <2>1, ManifestSuccessKeepsSupport
  <2>2. CASE r # s
    BY <1>0, <1>7, <2>2, FrameKeepsSupport DEF SucceedManifest, ManifestSucceeded, IsRunning, Released, TypeOK
  <2> QED BY <2>1, <2>2
<1>8. ASSUME NEW r \in Repos, SucceedSemantic(r) PROVE RepositorySupported(s)'
  <2>1. CASE r = s
    BY <1>0, <1>8, <2>1, SemanticSuccessKeepsSupport
  <2>2. CASE r # s
    BY <1>0, <1>8, <2>2, FrameKeepsSupport DEF SucceedSemantic, SemanticSucceeded, IsRunning, Released, TypeOK
  <2> QED BY <2>1, <2>2
<1>9. ASSUME NEW r \in Repos, NEW c \in Class, Block(r, c) PROVE RepositorySupported(s)'
  <2>1. CASE r = s
    BY <1>0, <1>9, <2>1, BlockKeepsSupport
  <2>2. CASE r # s
    BY <1>0, <1>9, <2>2, FrameKeepsSupport DEF Block, MarkBlocked, IsRunning, Released, TypeOK
  <2> QED BY <2>1, <2>2
<1>10. ASSUME NEW r \in Repos, NEW c \in Class, Defer(r, c) PROVE RepositorySupported(s)'
  BY <1>6, <1>10 DEF Defer, NextReady, Ready
<1>11. ASSUME NEW r \in Repos, NEW c \in Class, Fail(r, c) PROVE RepositorySupported(s)'
  BY <1>6, <1>11 DEF Fail, IsRunning
<1>12. CASE UNCHANGED schedVars
  BY <1>1, <1>12 DEF schedVars, repoVars
<1>13. CASE Next
  BY <1>1, <1>2, <1>3, <1>4, <1>5, <1>7, <1>8, <1>9, <1>10, <1>11, <1>13
  DEF Next, Tick, Change, Acquire, Release, Start, Postpone, Complete, CompleteOf
<1> QED BY <1>12, <1>13

\* Between any two steps each queue is either empty or has a deadline within its cap, and an
\* unwatched repository has left nothing behind: what the delay bound below rests on.
THEOREM SupportingHolds == Spec => []Supporting
BY TypeCorrect, SupportingInit, SupportingStep, PTL DEF Spec

LEMMA WellFormedIsBounded ==
  ASSUME now \in Nat, NEW q \in QueueState, QueueWellFormed(q), q.pending
  PROVE  /\ q.first # NoTime
         /\ ReadyAt(q) <= q.first + Later(MaxDelay, BackoffDelay(q.attempts))
<1>1. MaxDelay \in Nat /\ BackoffDelay(q.attempts) \in Nat /\ q.first \in Nat
  BY BackoffIsNat, MaxDelayIsNat DEF QueueState, QueueWellFormed, Instant
<1>2. ReadyAt(q) = Later(q.debounce, q.retry)
  BY DEF ReadyAt, QueueWellFormed
<1>3. q.debounce \in Int /\ q.retry \in Int
  BY DEF QueueState, Instant, NoTime
<1>4. q.first # NoTime /\ q.debounce <= q.first + MaxDelay
      /\ q.retry <= q.first + BackoffDelay(q.attempts)
  BY DEF QueueWellFormed
<1> HIDE DEF MaxDelay
<1> QED BY <1>1, <1>2, <1>3, <1>4 DEF Later

\* However events, failures, reruns and restarts interleave, a pending refresh is ready within
\* the debounce cap or its backoff of the moment it became pending.
THEOREM DelayIsBounded == Spec => []BoundedDelay
<1>1. TypeOK /\ Supporting => BoundedDelay
  <2> SUFFICES ASSUME TypeOK, Supporting, NEW r \in Repos, NEW c \in Class, queue[r][c].pending
               PROVE  /\ queue[r][c].first # NoTime
                      /\ ReadyAt(queue[r][c]) <=
                           queue[r][c].first + Later(MaxDelay, BackoffDelay(queue[r][c].attempts))
    BY Zenon DEF BoundedDelay
  <2>1. now \in Nat /\ queue[r][c] \in QueueState
    BY DEF TypeOK
  <2>2. QueueWellFormed(queue[r][c])
    BY DEF Supporting, QueuesWellFormed
  <2> QED BY <2>1, <2>2, WellFormedIsBounded
<1> QED BY <1>1, TypeCorrect, SupportingHolds, PTL

-----------------------------------------------------------------------------
(* The paths of a follow-up. *)

LEMMA FollowupPathsStep ==
  ASSUME TypeOK, [Next]_schedVars, NEW r \in Repos, FollowupOwnsItsPaths(r),
         ~(semPaths[r] \subseteq semPaths'[r])
  PROVE  FreshRepository(r)' \/ (active[r] = SemanticFollowup /\ active'[r] = Idle)
<1> USE DEF Class, Idle, ManifestFast, SemanticFollowup
<1>1. CASE UNCHANGED semPaths
  BY <1>1
<1>2. ASSUME NEW s \in Repos, NEW p \in Paths, RecordPathChange(s, p) PROVE FALSE
  <2>1. semPaths' = [semPaths EXCEPT ![s] = IF queue[s][SemanticFollowup].pending THEN @ \cup {p}
                                            ELSE IF ResetsSemantic(s) THEN {} ELSE @]
    BY <1>2 DEF RecordPathChange
  <2>2. FollowupOwnsItsPaths(s) /\ ~queue[s][SemanticFollowup].pending => ~ResetsSemantic(s)
    BY DEF FollowupOwnsItsPaths, ResetsSemantic
  <2>3. CASE s = r
    <3>1. CASE queue[s][SemanticFollowup].pending
      BY <2>1, <2>3, <3>1 DEF TypeOK
    <3>2. CASE ~queue[s][SemanticFollowup].pending
      BY <2>1, <2>2, <2>3, <3>2 DEF TypeOK
    <3> QED BY <3>1, <3>2
  <2>4. CASE s # r
    BY <2>1, <2>4 DEF TypeOK
  <2> QED BY <2>3, <2>4
<1>3. ASSUME NEW s \in Repos, RemoveRepository(s) PROVE s = r /\ FreshRepository(r)'
  BY <1>3 DEF RemoveRepository, FreshRepository, TypeOK
<1>4. ASSUME NEW s \in Repos, NEW c \in Class, MarkStarted(s, c) PROVE FALSE
  BY <1>4 DEF MarkStarted, TypeOK
<1>5. ASSUME NEW s \in Repos, NEW c \in Class, Block(s, c)
      PROVE  active[r] = SemanticFollowup /\ active'[r] = Idle
  <2>1. c = SemanticFollowup /\ semPaths' = [semPaths EXCEPT ![s] = {}]
    BY <1>5 DEF Block, MarkBlocked
  <2>2. s = r
    BY <2>1 DEF TypeOK
  <2> QED BY <1>5, <2>1, <2>2 DEF Block, MarkBlocked, Released, IsRunning, TypeOK
<1>6. ASSUME NEW s \in Repos, SucceedSemantic(s)
      PROVE  active[r] = SemanticFollowup /\ active'[r] = Idle
  <2>1. s = r
    BY <1>6 DEF SucceedSemantic, SemanticSucceeded, TypeOK
  <2> QED BY <1>6, <2>1 DEF SucceedSemantic, SemanticSucceeded, Released, IsRunning, TypeOK
<1>7. CASE Next
  BY <1>1, <1>2, <1>3, <1>4, <1>5, <1>6, <1>7
  DEF Next, Tick, repoVars, Change, Acquire, AddRepository, Release, Start, Postpone, Defer, MarkFailed,
      Complete, CompleteOf, Fail, SucceedManifest, ManifestSucceeded
<1> QED BY <1>1, <1>7 DEF schedVars

\* The paths a follow-up was asked for stay with it while it is queued, runs or waits for a retry:
\* no later change, failure or start of another refresh takes one away (record_event).
THEOREM FollowupPathsAreKept == Spec => FollowupKeepsPaths
<1>1. TypeOK /\ [Next]_schedVars =>
        [\A r \in Repos :
           FollowupOwnsItsPaths(r) /\ ~(semPaths[r] \subseteq semPaths'[r])
             => FreshRepository(r)' \/ (active[r] = SemanticFollowup /\ active'[r] = Idle)]_schedVars
  BY FollowupPathsStep
<1> QED BY <1>1, TypeCorrect, PTL DEF Spec, FollowupKeepsPaths

-----------------------------------------------------------------------------
(* The scheduler implements the change ledger: every step of it is a step of the ledger or *)
(* changes nothing the ledger sees. *)


\* What the ledger reads of the repositories other than r stays as it is.
OthersKept(r) ==
  \A s \in Repos \ {r} : Owed(s)' = Owed(s) /\ Covered(s)' = Covered(s) /\ PhaseOf(s)' = PhaseOf(s)

\* What carries the mapping: reruns stand for hints, paths are in flight only with a refresh.
Carrying == TypeOK /\ RerunMatchesHints /\ Supporting

LedgerStep == Ledger!LedgerNext \/ UNCHANGED Ledger!ledgerVars

-----------------------------------------------------------------------------
(* The three functions of the ledger, changed at one repository. *)

LEMMA ChangedAtOne ==
  ASSUME NEW r \in Repos, OthersKept(r), NEW STATE o, NEW STATE c, NEW STATE ph,
         Owed(r)' = o, Covered(r)' = c, PhaseOf(r)' = ph
  PROVE  /\ [s \in Repos |-> Owed(s)]' = [[s \in Repos |-> Owed(s)] EXCEPT ![r] = o]
         /\ [s \in Repos |-> Covered(s)]' = [[s \in Repos |-> Covered(s)] EXCEPT ![r] = c]
         /\ [s \in Repos |-> PhaseOf(s)]' = [[s \in Repos |-> PhaseOf(s)] EXCEPT ![r] = ph]
BY Zenon DEF OthersKept

LEMMA NothingSeen ==
  ASSUME \A r \in Repos : Owed(r)' = Owed(r) /\ Covered(r)' = Covered(r) /\ PhaseOf(r)' = PhaseOf(r)
  PROVE  UNCHANGED Ledger!ledgerVars
BY Zenon DEF Ledger!ledgerVars

\* A step at r that leaves its hints, its paths in flight and its phase alone is not seen.
LEMMA UnseenAtOne ==
  ASSUME NEW r \in Repos, OthersKept(r),
         hints'[r] = hints[r], inflight'[r] = inflight[r], PhaseOf(r)' = PhaseOf(r)
  PROVE  LedgerStep
<1>1. Owed(r)' = Owed(r) /\ Covered(r)' = Covered(r)
  BY DEF Owed, Covered
<1> QED BY <1>1, NothingSeen DEF OthersKept, LedgerStep

\* A step that changes the record of r alone.
LEMMA OthersFramed ==
  ASSUME NEW r \in Repos,
         \A s \in Repos \ {r} : /\ hints'[s] = hints[s] /\ inflight'[s] = inflight[s]
                                /\ active'[s] = active[s] /\ queue'[s] = queue[s]
  PROVE  OthersKept(r)
BY DEF OthersKept, Owed, Covered, PhaseOf

-----------------------------------------------------------------------------
(* The steps. *)

LEMMA ChangeIsTouch ==
  ASSUME Carrying, NEW r \in Repos, NEW p \in Paths, RecordPathChange(r, p)
  PROVE  Ledger!Touch(r, p)
<1>1. OthersKept(r)
  BY OthersFramed DEF RecordPathChange, Carrying, TypeOK
<1>2. /\ hints'[r] = hints[r] \cup {p} /\ inflight'[r] = inflight[r] /\ active'[r] = active[r]
      /\ queue'[r][ManifestFast] = RecordedManifest(r)
  BY DEF RecordPathChange, Carrying, TypeOK, Class
<1>3. RecordedManifest(r).pending
  BY DEF RecordedManifest, Carrying, TypeOK, QueueState, Class
<1>4. Owed(r)' = Owed(r) \cup {p} /\ Covered(r)' = Covered(r) \ {p}
  BY <1>2 DEF Owed, Covered
<1> DEFINE phase == IF PhaseOf(r) = "running" THEN PhaseOf(r) ELSE "scheduled"
<1>5. PhaseOf(r)' = phase
  BY <1>2, <1>3 DEF PhaseOf
<1> HIDE DEF phase
<1>6. /\ [s \in Repos |-> Owed(s)]' = [[s \in Repos |-> Owed(s)] EXCEPT ![r] = Owed(r) \cup {p}]
      /\ [s \in Repos |-> Covered(s)]' = [[s \in Repos |-> Covered(s)] EXCEPT ![r] = Covered(r) \ {p}]
      /\ [s \in Repos |-> PhaseOf(s)]' = [[s \in Repos |-> PhaseOf(s)] EXCEPT ![r] = phase]
  BY <1>1, <1>4, <1>5, ChangedAtOne
<1>7. /\ [s \in Repos |-> Owed(s)][r] = Owed(r) /\ [s \in Repos |-> Covered(s)][r] = Covered(r)
      /\ [s \in Repos |-> PhaseOf(s)][r] = PhaseOf(r)
  OBVIOUS
<1> QED BY <1>6, <1>7, Zenon DEF Ledger!Touch, phase

LEMMA StartIsBegin ==
  ASSUME Carrying, NEW r \in Repos, MarkStarted(r, ManifestFast)
  PROVE  Ledger!Begin(r)
<1>1. OthersKept(r)
  BY OthersFramed DEF MarkStarted, Carrying, TypeOK
<1>2. active[r] = Idle /\ queue[r][ManifestFast].pending
  BY DEF MarkStarted, NextReady, Ready
<1>3. inflight[r] = {}
  BY <1>2 DEF Carrying, Supporting, InflightOnlyWhileActive, Idle, ManifestFast
<1>4. hints'[r] = {} /\ inflight'[r] = hints[r] /\ active'[r] = ManifestFast
  BY DEF MarkStarted, Carrying, TypeOK
<1>5. Owed(r)' = Owed(r) /\ Covered(r)' = Owed(r)
  BY <1>3, <1>4 DEF Owed, Covered
<1>6. PhaseOf(r) = "scheduled" /\ PhaseOf(r)' = "running"
  BY <1>2, <1>4 DEF PhaseOf, Idle, ManifestFast
<1> QED BY <1>1, <1>5, <1>6, ChangedAtOne DEF Ledger!Begin

LEMMA FailureIsRetrying ==
  ASSUME Carrying, NEW r \in Repos, Fail(r, ManifestFast)
  PROVE  Ledger!Retrying(r)
<1>1. OthersKept(r)
  BY OthersFramed DEF Fail, MarkFailed, Released, Carrying, TypeOK
<1>2. /\ active[r] = ManifestFast /\ active'[r] = Idle
      /\ hints'[r] = hints[r] \cup inflight[r] /\ inflight'[r] = {}
      /\ queue'[r][ManifestFast] = Failed(queue[r][ManifestFast])
  BY DEF Fail, IsRunning, MarkFailed, Released, Carrying, TypeOK, Class
<1>3. Failed(queue[r][ManifestFast]).pending
  BY DEF Failed, Carrying, TypeOK, QueueState, Class
<1>4. Owed(r)' = Owed(r) /\ Covered(r)' = {}
  BY <1>2 DEF Owed, Covered
<1>5. PhaseOf(r) = "running" /\ PhaseOf(r)' = "scheduled"
  BY <1>2, <1>3 DEF PhaseOf, Idle, ManifestFast
<1> QED BY <1>1, <1>4, <1>5, ChangedAtOne DEF Ledger!Retrying

LEMMA SuccessIsSettle ==
  ASSUME Carrying, NEW r \in Repos, NEW b \in BOOLEAN, SucceedManifest(r, b)
  PROVE  Ledger!Settle(r)
<1>1. OthersKept(r)
  BY OthersFramed DEF SucceedManifest, ManifestSucceeded, Released, Carrying, TypeOK
<1>2. /\ active[r] = ManifestFast /\ active'[r] = Idle
      /\ hints'[r] = hints[r] /\ inflight'[r] = {}
      /\ queue'[r][ManifestFast] = Succeeded(queue[r][ManifestFast])
  BY DEF SucceedManifest, IsRunning, ManifestSucceeded, Released, Carrying, TypeOK, Class
<1>3. Succeeded(queue[r][ManifestFast]).pending <=> hints[r] # {}
  <2>1. Succeeded(queue[r][ManifestFast]).pending = queue[r][ManifestFast].rerun
    BY DEF Succeeded, Carrying, TypeOK, QueueState, Class
  <2> QED BY <1>2, <2>1 DEF Carrying, RerunMatchesHints
<1>4. Owed(r)' = Owed(r) \ Covered(r) /\ Owed(r)' = hints[r] /\ Covered(r)' = {}
  BY <1>2 DEF Owed, Covered
<1>5. PhaseOf(r) = "running" /\ PhaseOf(r)' = IF Owed(r)' = {} THEN "idle" ELSE "scheduled"
  BY <1>2, <1>3, <1>4 DEF PhaseOf, Idle, ManifestFast
<1>6. [s \in Repos |-> Owed(s)]'[r] = Owed(r)'
  OBVIOUS
<1> QED BY <1>1, <1>4, <1>5, <1>6, ChangedAtOne DEF Ledger!Settle

LEMMA BlockIsGiveUp ==
  ASSUME Carrying, NEW r \in Repos, Block(r, ManifestFast)
  PROVE  Ledger!GiveUp(r)
<1>1. OthersKept(r)
  BY OthersFramed DEF Block, MarkBlocked, Released, Carrying, TypeOK
<1>2. /\ active[r] = ManifestFast /\ active'[r] = Idle
      /\ hints'[r] = hints[r] /\ inflight'[r] = {}
      /\ queue'[r][ManifestFast] = EmptyQueue
  BY DEF Block, IsRunning, MarkBlocked, Released, Blocked, Carrying, TypeOK, Class
<1>3. Owed(r)' = Owed(r) \ Covered(r) /\ Covered(r)' = {}
  BY <1>2 DEF Owed, Covered
<1>4. PhaseOf(r) = "running" /\ PhaseOf(r)' = "idle"
  BY <1>2 DEF PhaseOf, Idle, ManifestFast, EmptyQueue
<1> QED BY <1>1, <1>3, <1>4, ChangedAtOne DEF Ledger!GiveUp

LEMMA RemovalIsForget ==
  ASSUME Carrying, NEW r \in Repos, RemoveRepository(r)
  PROVE  Ledger!Forget(r)
<1>1. OthersKept(r)
  BY OthersFramed DEF RemoveRepository, Carrying, TypeOK
<1>2. /\ active'[r] = Idle /\ hints'[r] = {} /\ inflight'[r] = {}
      /\ queue'[r][ManifestFast] = EmptyQueue
  BY DEF RemoveRepository, Carrying, TypeOK, Class
<1>3. Owed(r)' = {} /\ Covered(r)' = {}
  BY <1>2 DEF Owed, Covered
<1>4. PhaseOf(r)' = "idle"
  BY <1>2 DEF PhaseOf, Idle, ManifestFast, EmptyQueue
<1> QED BY <1>1, <1>3, <1>4, ChangedAtOne DEF Ledger!Forget

\* A refresh asked for when a repository is added is a request, unless one is due already.
LEMMA AdditionIsRequest ==
  ASSUME Carrying, NEW r \in Repos, NEW c \in Class \cup {Idle}, AddRepository(r, c)
  PROVE  Ledger!Request(r) \/ LedgerStep
<1>1. /\ OthersKept(r) /\ hints'[r] = hints[r] /\ inflight'[r] = inflight[r] /\ active'[r] = active[r]
  BY OthersFramed DEF AddRepository, Carrying, TypeOK
<1>2. Owed(r)' = Owed(r) /\ Covered(r)' = Covered(r)
  BY <1>1 DEF Owed, Covered
<1>3. CASE PhaseOf(r) = "idle" /\ c = ManifestFast
  <2>1. queue'[r][ManifestFast] = Enqueued(queue[r][ManifestFast])
    BY <1>3 DEF AddRepository, Carrying, TypeOK, Idle, ManifestFast, Class
  <2>2. Enqueued(queue[r][ManifestFast]).pending
    BY DEF Enqueued, Carrying, TypeOK, QueueState, Class
  <2>3. PhaseOf(r)' = "scheduled"
    BY <1>1, <1>3, <2>1, <2>2 DEF PhaseOf
  <2>4. /\ [s \in Repos |-> Owed(s)]' = [s \in Repos |-> Owed(s)]
        /\ [s \in Repos |-> Covered(s)]' = [s \in Repos |-> Covered(s)]
    BY <1>1, <1>2, Zenon DEF OthersKept
  <2>5. [s \in Repos |-> PhaseOf(s)]' = [[s \in Repos |-> PhaseOf(s)] EXCEPT ![r] = "scheduled"]
    BY <1>1, <1>2, <2>3, ChangedAtOne
  <2> QED BY <1>3, <2>4, <2>5 DEF Ledger!Request
<1>4. CASE PhaseOf(r) # "idle" /\ c = ManifestFast
  <2>1. queue'[r][ManifestFast] = Enqueued(queue[r][ManifestFast])
    BY <1>4 DEF AddRepository, Carrying, TypeOK, Idle, ManifestFast, Class
  <2>2. Enqueued(queue[r][ManifestFast]).pending
    BY DEF Enqueued, Carrying, TypeOK, QueueState, Class
  <2>3. PhaseOf(r)' = PhaseOf(r)
    BY <1>1, <1>4, <2>1, <2>2 DEF PhaseOf
  <2> QED BY <1>1, <2>3, UnseenAtOne
<1>5. CASE c # ManifestFast
  <2>1. queue'[r][ManifestFast] = queue[r][ManifestFast]
    BY <1>5 DEF AddRepository, Carrying, TypeOK, Class
  <2>2. PhaseOf(r)' = PhaseOf(r)
    BY <1>1, <2>1 DEF PhaseOf
  <2> QED BY <1>1, <2>2, UnseenAtOne
<1> QED BY <1>3, <1>4, <1>5

\* The follow-up's steps, and a manifest-fast refresh that is deferred, are not seen.
LEMMA FollowupIsUnseen ==
  ASSUME Carrying, NEW r \in Repos,
         MarkStarted(r, SemanticFollowup) \/ Fail(r, SemanticFollowup)
           \/ Block(r, SemanticFollowup) \/ SucceedSemantic(r) \/ Defer(r, SemanticFollowup)
  PROVE  LedgerStep
<1> USE DEF Idle, ManifestFast, SemanticFollowup
<1>1. OthersKept(r)
  BY OthersFramed
  DEF MarkStarted, Fail, Block, SucceedSemantic, Defer, MarkFailed, MarkBlocked, SemanticSucceeded,
      Released, Carrying, TypeOK
<1>2. /\ hints'[r] = hints[r] /\ inflight'[r] = inflight[r]
      /\ queue'[r][ManifestFast] = queue[r][ManifestFast]
  BY DEF MarkStarted, Fail, Block, SucceedSemantic, Defer, MarkFailed, MarkBlocked, SemanticSucceeded,
         Carrying, TypeOK, Class
<1>3. active[r] # ManifestFast /\ active'[r] # ManifestFast
  BY DEF MarkStarted, Fail, Block, SucceedSemantic, Defer, MarkFailed, MarkBlocked, SemanticSucceeded,
         Released, NextReady, Ready, IsRunning, Carrying, TypeOK
<1>4. PhaseOf(r)' = PhaseOf(r)
  BY <1>2, <1>3 DEF PhaseOf
<1> QED BY <1>1, <1>2, <1>4, UnseenAtOne

LEMMA DeferIsUnseen ==
  ASSUME Carrying, NEW r \in Repos, Defer(r, ManifestFast)
  PROVE  LedgerStep
<1>1. OthersKept(r)
  BY OthersFramed DEF Defer, MarkFailed, Released, Carrying, TypeOK
<1>2. active[r] = Idle /\ queue[r][ManifestFast].pending
  BY DEF Defer, NextReady, Ready
<1>3. inflight[r] = {}
  BY <1>2 DEF Carrying, Supporting, InflightOnlyWhileActive, Idle, ManifestFast
<1>4. /\ active'[r] = Idle /\ hints'[r] = hints[r] /\ inflight'[r] = inflight[r]
      /\ queue'[r][ManifestFast] = Failed(queue[r][ManifestFast])
  BY <1>2, <1>3 DEF Defer, MarkFailed, Released, Carrying, TypeOK, Class
<1>5. Failed(queue[r][ManifestFast]).pending
  BY DEF Failed, Carrying, TypeOK, QueueState, Class
<1>6. PhaseOf(r)' = PhaseOf(r)
  BY <1>2, <1>4, <1>5 DEF PhaseOf, Idle, ManifestFast
<1> QED BY <1>1, <1>4, <1>6, UnseenAtOne

-----------------------------------------------------------------------------
(* The refinement. *)

LEMMA InitIsLedgerInit == Init => Ledger!LedgerInit
BY DEF Init, Ledger!LedgerInit, Owed, Covered, PhaseOf, EmptyQueue, Idle, ManifestFast, Class

LEMMA StepIsLedgerStep == Carrying /\ [Next]_schedVars => LedgerStep
<1> SUFFICES ASSUME Carrying, [Next]_schedVars PROVE LedgerStep
  OBVIOUS
<1>1. CASE UNCHANGED repoVars
  BY <1>1, NothingSeen DEF repoVars, Owed, Covered, PhaseOf, LedgerStep
<1>2. CASE Change
  BY <1>2, ChangeIsTouch DEF Change, LedgerStep, Ledger!LedgerNext
<1>3. CASE Acquire
  BY <1>3, AdditionIsRequest DEF Acquire, LedgerStep, Ledger!LedgerNext
<1>4. CASE Release
  BY <1>4, RemovalIsForget DEF Release, LedgerStep, Ledger!LedgerNext
<1>5. CASE Start
  BY <1>5, StartIsBegin, FollowupIsUnseen DEF Start, LedgerStep, Ledger!LedgerNext, Class
<1>6. CASE Postpone
  BY <1>6, DeferIsUnseen, FollowupIsUnseen DEF Postpone, LedgerStep, Class
<1>7. CASE Complete
  BY <1>7, SuccessIsSettle, FailureIsRetrying, BlockIsGiveUp, FollowupIsUnseen
  DEF Complete, CompleteOf, LedgerStep, Ledger!LedgerNext, Class
<1> QED BY <1>1, <1>2, <1>3, <1>4, <1>5, <1>6, <1>7 DEF Next, Tick, schedVars, repoVars

\* The scheduler loses no accepted change: it implements the change ledger, in which a path is owed
\* until a refresh that started after it was touched has finished (record_event, mark_started and
\* the completion handlers together).
THEOREM ImplementsLedger == Spec => KeepsLedger
<1>1. Spec => []Carrying
  BY TypeCorrect, RerunsMatch, SupportingHolds, PTL DEF Carrying
<1>2. Carrying /\ [Next]_schedVars => [Ledger!LedgerNext]_(Ledger!ledgerVars)
  BY StepIsLedgerStep DEF LedgerStep
<1> QED BY <1>1, <1>2, InitIsLedgerInit, PTL DEF Spec, KeepsLedger, Ledger!LedgerSpec
=============================================================================
