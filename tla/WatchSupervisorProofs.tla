------------------------ MODULE WatchSupervisorProofs ------------------------
(***************************************************************************)
(* The supervisor uses the scheduler only as the scheduler's specification  *)
(* allows, so whatever is proved of the scheduler holds while leases, stale *)
(* completions and workers of several epochs interleave; and the writers of *)
(* one index exclude each other.                                            *)
(***************************************************************************)
EXTENDS WatchSupervisorProps, WatchSchedulerProofs, SequenceTheorems, WellFoundedInduction

Completion(r, c, e, x) ==
  [type |-> "IndexCompleted", repo |-> r, class |-> c, epoch |-> e, result |-> x]

Completions == {Completion(r, c, e, x) : r \in Repos, c \in Class, e \in Nat, x \in Result}
LeaseCommands == {Leases!Acquired(r) : r \in Repos} \cup {Leases!Released(r) : r \in Repos}
Events == {Event(r, p) : r \in Repos, p \in Paths} \cup {NotifyDropped}

SupTypes ==
  /\ TypeOK
  /\ epoch \in [Repos -> Nat \cup {NoEpoch}]
  /\ workers \in SUBSET Worker
  /\ mailbox \in Seq(Completions \cup LeaseCommands \cup Events)
  /\ registered \in SUBSET Repos /\ subscribed \in SUBSET Repos /\ sweep \in SUBSET Repos
  /\ loop = "sweep" => RoomFor(Debounce)

LEMMA CommandKinds ==
  /\ \A m \in Completions :
       /\ m.type = "IndexCompleted"
       /\ m.repo \in Repos /\ m.class \in Class /\ m.epoch \in Nat /\ m.result \in Result
  /\ \A m \in LeaseCommands : m.type \in {"LeaseAcquired", "LeaseReleased"} /\ m.repo \in Repos
  /\ \A m \in Events : m.type \in {"Event", "NotifyDropped"}
  /\ \A m \in Events : m.type = "Event" => m.repo \in Repos /\ m.path \in Paths
<1>1. \A m \in Completions :
        /\ m.type = "IndexCompleted"
        /\ m.repo \in Repos /\ m.class \in Class /\ m.epoch \in Nat /\ m.result \in Result
  BY DEF Completions, Completion
<1>2. \A m \in LeaseCommands : m.type \in {"LeaseAcquired", "LeaseReleased"} /\ m.repo \in Repos
  BY DEF LeaseCommands, Leases!Acquired, Leases!Released
<1>3. \A m \in Events : m.type \in {"Event", "NotifyDropped"}
  BY DEF Events, Event, NotifyDropped
<1>4. \A m \in Events : m.type = "Event" => m.repo \in Repos /\ m.path \in Paths
  BY DEF Events, Event, NotifyDropped
<1> QED BY <1>1, <1>2, <1>3, <1>4

\* The command the loop takes off the mailbox.
LEMMA HeadKinds ==
  ASSUME SupTypes, mailbox # <<>>
  PROVE  /\ Head(mailbox).type = "IndexCompleted" => Head(mailbox) \in Completions
         /\ Head(mailbox).type \in {"LeaseAcquired", "LeaseReleased"} => Head(mailbox).repo \in Repos
         /\ Head(mailbox).type = "Event" => Head(mailbox).repo \in Repos /\ Head(mailbox).path \in Paths
         /\ Tail(mailbox) \in Seq(Completions \cup LeaseCommands \cup Events)
<1>1. /\ Head(mailbox) \in Completions \cup LeaseCommands \cup Events
      /\ Tail(mailbox) \in Seq(Completions \cup LeaseCommands \cup Events)
  BY HeadTailProperties DEF SupTypes
<1> QED BY <1>1, CommandKinds

-----------------------------------------------------------------------------
(* Which work belongs to the lease that is held now. *)

\* Position i of the mailbox holds a completion of r.
CompletionAt(i, r) ==
  i \in DOMAIN mailbox /\ mailbox[i].type = "IndexCompleted" /\ mailbox[i].repo = r

\* No work of r is of a later epoch than the current one, and r is watched under an epoch.
NoneIsNewer(r) ==
  /\ r \in watched => epoch[r] # NoEpoch
  /\ \A w \in workers : w.repo = r => epoch[r] # NoEpoch /\ w.epoch <= epoch[r]
  /\ \A i : CompletionAt(i, r) => epoch[r] # NoEpoch /\ mailbox[i].epoch <= epoch[r]

\* Work of the current epoch is what the scheduler believes is running.
CurrentIsActive(r) ==
  /\ \A w \in workers :
       w.repo = r /\ w.epoch = epoch[r] => r \in watched /\ active[r] = w.class
  /\ \A i : CompletionAt(i, r) /\ mailbox[i].epoch = epoch[r]
              => r \in watched /\ active[r] = mailbox[i].class

\* There is only one piece of it, a worker or a completion.
CurrentIsOne(r) ==
  /\ \A v, w \in workers :
       v.repo = r /\ w.repo = r /\ v.epoch = epoch[r] /\ w.epoch = epoch[r] => v = w
  /\ \A i, j : CompletionAt(i, r) /\ CompletionAt(j, r)
                 /\ mailbox[i].epoch = epoch[r] /\ mailbox[j].epoch = epoch[r] => i = j
  /\ \A w \in workers : \A i :
       ~(w.repo = r /\ w.epoch = epoch[r] /\ CompletionAt(i, r) /\ mailbox[i].epoch = epoch[r])

Consistent(r) == NoneIsNewer(r) /\ CurrentIsActive(r) /\ CurrentIsOne(r)

SupInv == SupTypes /\ \A r \in Repos : Consistent(r)

-----------------------------------------------------------------------------
(* Every step of the supervisor is one of the scheduler's, or none. *)

LEMMA CompletionIsExpected ==
  ASSUME SupInv, Received("IndexCompleted"), NEW STATE m, m = Head(mailbox), m.epoch = Current(m.repo)
  PROVE  /\ m.repo \in Repos /\ m.class \in Class /\ m.result \in Result
         /\ CompletionAt(1, m.repo) /\ mailbox[1].epoch = epoch[m.repo]
         /\ IsRunning(m.repo, m.class)
<1>1. /\ m \in Completions /\ mailbox # <<>> /\ m.type = "IndexCompleted"
  BY HeadKinds DEF SupInv, Received
<1>2. m.repo \in Repos /\ m.class \in Class /\ m.epoch \in Nat /\ m.result \in Result
  BY <1>1, CommandKinds
<1>3. m = mailbox[1] /\ 1 \in DOMAIN mailbox
  BY <1>1 DEF SupInv, SupTypes
<1>4. CompletionAt(1, m.repo)
  BY <1>1, <1>3 DEF CompletionAt
<1>5. epoch[m.repo] # NoEpoch
  BY <1>2, <1>4 DEF SupInv, Consistent, NoneIsNewer
<1>6. mailbox[1].epoch = epoch[m.repo]
  BY <1>3, <1>5 DEF Current
<1>7. m.repo \in watched /\ active[m.repo] = m.class
  BY <1>2, <1>3, <1>4, <1>6 DEF SupInv, Consistent, CurrentIsActive
<1> QED BY <1>2, <1>4, <1>6, <1>7 DEF IsRunning

LEMMA AppliedIsCompletion ==
  ASSUME NEW STATE m, m.repo \in Repos, m.class \in Class, m.result \in Result,
         IsRunning(m.repo, m.class), Applied(m)
  PROVE  CompleteOf(m.repo)
<1>1. ASSUME m.class = ManifestFast, NEW followup \in BOOLEAN, ManifestSucceeded(m.repo, followup)
      PROVE  CompleteOf(m.repo)
  <2>1. SucceedManifest(m.repo, followup)
    BY <1>1 DEF SucceedManifest
  <2> QED BY <2>1 DEF CompleteOf
<1>2. CASE m.class = SemanticFollowup /\ SemanticSucceeded(m.repo)
  BY <1>2 DEF CompleteOf, SucceedSemantic
<1>3. CASE FailsInTime(m.repo, m.class) /\ MarkFailed(m.repo, m.class)
  BY <1>3 DEF CompleteOf, Fail
<1>4. CASE MarkBlocked(m.repo, m.class)
  BY <1>4 DEF CompleteOf, Block
<1> QED BY <1>1, <1>2, <1>3, <1>4 DEF Applied

LEMMA StepDrives == SupInv /\ [SupNext]_supVars => [Next]_schedVars
<1> SUFFICES ASSUME SupInv, [SupNext]_supVars PROVE [Next]_schedVars
  OBVIOUS
<1>0. SupTypes
  BY DEF SupInv
<1>1. CASE HandleEvent
  BY <1>0, <1>1, HeadKinds DEF HandleEvent, Received, Next, Change
<1>2. CASE SweepNext
  BY <1>0, <1>2 DEF SweepNext, SupTypes, Next, Change
<1>3. CASE HandleLeaseReleased
  BY <1>0, <1>3, HeadKinds DEF HandleLeaseReleased, Received, Next, Release
<1>4. CASE HandleLeaseAcquired
  BY <1>0, <1>4, HeadKinds DEF HandleLeaseAcquired, Received, Next, Acquire
<1>5. CASE HandleIndexCompleted
  <2> DEFINE m == Head(mailbox)
  <2>1. CASE m.epoch = Current(m.repo) /\ m.repo \in registered \cap watched
    <3>1. Applied(m)
      BY <1>5, <2>1 DEF HandleIndexCompleted
    <3>2. m.repo \in Repos /\ CompleteOf(m.repo)
      BY <1>5, <2>1, <3>1, CompletionIsExpected, AppliedIsCompletion DEF HandleIndexCompleted
    <3> QED BY <3>2 DEF Next, Complete
  <2>2. CASE ~(m.epoch = Current(m.repo) /\ m.repo \in registered \cap watched)
    BY <1>5, <2>2 DEF HandleIndexCompleted
  <2> QED BY <2>1, <2>2
<1>6. CASE Ticker
  BY <1>6 DEF Ticker, Next
<1>7. CASE Dispatch
  BY <1>7 DEF Dispatch, DispatchOf, StartWorker, Next, Start, Postpone, Defer
<1>8. CASE FileEvent \/ BeginCall \/ (\E s \in Sessions : ProceedCall(s)) \/ HandleNotifyDropped
  BY <1>8 DEF FileEvent, BeginCall, ProceedCall, HandleNotifyDropped
<1>9. CASE \E w \in workers : Work(w)
  BY <1>9 DEF Work, Plan, CheckBeforeCommit, Commit, FinishTask, SendCompletion, WorkerStep
<1>10. CASE \E r \in Repos : AttachIndexStarts(r) \/ AttachIndexEnds(r)
  BY <1>10 DEF AttachIndexStarts, AttachIndexEnds
<1>11. CASE UNCHANGED supVars
  BY <1>11 DEF supVars
<1> QED BY <1>1, <1>2, <1>3, <1>4, <1>5, <1>6, <1>7, <1>8, <1>9, <1>10, <1>11 DEF SupNext, Handle

-----------------------------------------------------------------------------
(* Types. *)

LEMMA SupTypesInit == SupInit => SupTypes
<1> SUFFICES ASSUME SupInit PROVE SupTypes
  OBVIOUS
<1>1. TypeOK
  BY TypeInit DEF SupInit
<1> QED BY <1>1 DEF SupInit, SupTypes, Leases!LeaseInit

\* What a session's call does to the mailbox and to the sets of roots.
CallOutcome ==
  /\ registered' \in SUBSET Repos /\ subscribed' \in SUBSET Repos
  /\ mailbox' = mailbox \/ \E m \in LeaseCommands : mailbox' = Append(mailbox, m)

LEMMA CallsSendLeaseCommands ==
  ASSUME SupTypes, BeginCall \/ \E s \in Sessions : ProceedCall(s)
  PROVE  CallOutcome
<1> USE DEF SupTypes, CallOutcome
<1>1. ASSUME NEW t \in Sessions, NEW r \in Repos, Leases!Begin(t, r) PROVE CallOutcome
  BY <1>1 DEF Leases!Begin, Leases!Acquire, Leases!CountUp, Leases!Detach
<1>2. ASSUME NEW t \in Sessions, NEW r \in Repos, Leases!Proceed(t, r) PROVE CallOutcome
  <2>1. Leases!Acquired(r) \in LeaseCommands /\ Leases!Released(r) \in LeaseCommands
    BY DEF LeaseCommands
  <2>2. CASE Leases!Insert(t, r)
    BY <2>2 DEF Leases!Insert
  <2>3. CASE Leases!AnnounceAcquired(t, r)
    BY <2>1, <2>3 DEF Leases!AnnounceAcquired
  <2>4. CASE Leases!CountDown(t, r)
    BY <2>4 DEF Leases!CountDown
  <2>5. CASE Leases!Unwatch(t, r)
    BY <2>5 DEF Leases!Unwatch
  <2>6. CASE Leases!AnnounceReleased(t, r)
    BY <2>1, <2>6 DEF Leases!AnnounceReleased
  <2> QED BY <1>2, <2>2, <2>3, <2>4, <2>5, <2>6 DEF Leases!Proceed
<1> QED BY <1>1, <1>2 DEF BeginCall, ProceedCall

\* What a step of a worker does to it: it stays what it is, or ends and sends its completion.
WorkerOutcome(w) ==
  \/ /\ mailbox' = mailbox
     /\ \E at \in {"planned", "cleared"} \cup Result, task \in BOOLEAN :
          workers' = (workers \ {w}) \cup {[w EXCEPT !.at = at, !.task = task]}
  \/ workers' = workers \ {w} /\ mailbox' = Append(mailbox, IndexCompleted(w)) /\ w.at \in Result

LEMMA WorkIsOutcome ==
  ASSUME SupTypes, NEW w \in workers, Work(w)
  PROVE  WorkerOutcome(w)
<1>1. w \in Worker
  BY DEF SupTypes
<1>2. ASSUME NEW at, Advance(w, at)
      PROVE  w.task \in BOOLEAN /\ workers' = (workers \ {w}) \cup {[w EXCEPT !.at = at, !.task = w.task]}
  <2>1. [w EXCEPT !.at = at] = [w EXCEPT !.at = at, !.task = w.task]
    BY <1>1 DEF Worker
  <2> QED BY <1>1, <1>2, <2>1 DEF Advance, Worker
<1>3. CASE Plan(w)
  BY <1>2, <1>3 DEF Plan, WorkerStep, leaseVars, WorkerOutcome, Result
<1>4. CASE CheckBeforeCommit(w)
  BY <1>2, <1>4 DEF CheckBeforeCommit, WorkerStep, leaseVars, WorkerOutcome, Result
<1>5. CASE Commit(w)
  BY <1>2, <1>5 DEF Commit, WorkerStep, leaseVars, WorkerOutcome
<1>6. CASE FinishTask(w)
  <2>1. [w EXCEPT !.task = FALSE] = [w EXCEPT !.at = w.at, !.task = FALSE]
    BY <1>1 DEF Worker
  <2> QED BY <1>6, <2>1 DEF FinishTask, WorkerStep, leaseVars, WorkerOutcome
<1>7. CASE SendCompletion(w)
  BY <1>7 DEF SendCompletion, WorkerOutcome
<1> QED BY <1>3, <1>4, <1>5, <1>6, <1>7 DEF Work

LEMMA WorkerTyped ==
  ASSUME NEW w \in Worker, NEW at \in {"planned", "cleared"} \cup Result, NEW task \in BOOLEAN
  PROVE  /\ [w EXCEPT !.at = at, !.task = task] \in Worker
         /\ [w EXCEPT !.at = at, !.task = task].repo = w.repo
         /\ [w EXCEPT !.at = at, !.task = task].class = w.class
         /\ [w EXCEPT !.at = at, !.task = task].epoch = w.epoch
BY DEF Worker

LEMMA CompletionTyped ==
  ASSUME NEW w \in Worker, w.at \in Result
  PROVE  /\ IndexCompleted(w) = Completion(w.repo, w.class, w.epoch, w.at)
         /\ IndexCompleted(w) \in Completions
<1>1. w.repo \in Repos /\ w.class \in Class /\ w.epoch \in Nat
  BY DEF Worker
<1>2. IndexCompleted(w) = Completion(w.repo, w.class, w.epoch, w.at)
  BY DEF IndexCompleted, Completion
<1> QED BY <1>1, <1>2 DEF Completions

\* The worker a dispatch spawns.
Spawned(r, c) == [repo |-> r, class |-> c, epoch |-> Current(r), at |-> "planning", task |-> TRUE]

LEMMA SpawnedTyped ==
  ASSUME SupTypes, NEW r \in Repos, NEW c \in Class
  PROVE  Spawned(r, c) \in Worker
<1>1. Current(r) \in Nat
  BY DEF SupTypes, Current, NoEpoch
<1> QED BY <1>1 DEF Spawned, Worker

LEMMA SupTypesStep == SupInv /\ [SupNext]_supVars => SupTypes'
<1> SUFFICES ASSUME SupInv, [SupNext]_supVars PROVE SupTypes'
  OBVIOUS
<1> DEFINE Commands == Completions \cup LeaseCommands \cup Events
<1>0. /\ SupTypes /\ TypeOK'
      /\ now \in Nat /\ watched \in SUBSET Repos
  BY StepDrives, TypeStep DEF SupInv, SupTypes, TypeOK
<1>t. /\ epoch \in [Repos -> Nat \cup {NoEpoch}] /\ workers \in SUBSET Worker
      /\ mailbox \in Seq(Commands)
      /\ registered \in SUBSET Repos /\ subscribed \in SUBSET Repos /\ sweep \in SUBSET Repos
      /\ loop = "sweep" => RoomFor(Debounce)
  BY <1>0 DEF SupTypes
<1>g. SUFFICES /\ epoch' \in [Repos -> Nat \cup {NoEpoch}] /\ workers' \in SUBSET Worker
               /\ mailbox' \in Seq(Commands)
               /\ registered' \in SUBSET Repos /\ subscribed' \in SUBSET Repos
               /\ sweep' \in SUBSET Repos
               /\ loop' = "sweep" => RoomFor(Debounce)'
  BY <1>0 DEF SupTypes
<1>a. \A m \in Commands : Append(mailbox, m) \in Seq(Commands)
  BY <1>t, AppendProperties
<1>h. mailbox # <<>> => Tail(mailbox) \in Seq(Commands)
  BY <1>t, HeadTailProperties
<1> USE DEF leaseVars, callVars, workVars
<1>1. CASE FileEvent
  <2>1. PICK m \in Events : mailbox' = Append(mailbox, m)
    BY <1>1, <1>t DEF FileEvent, Events
  <2> QED BY <1>1, <1>t, <1>a, <2>1 DEF FileEvent, RoomFor, schedVars
<1>2. CASE BeginCall \/ \E s \in Sessions : ProceedCall(s)
  <2>1. CallOutcome
    BY <1>0, <1>2, CallsSendLeaseCommands
  <2>2. mailbox' \in Seq(Commands)
    BY <1>t, <1>a, <2>1 DEF CallOutcome
  <2> QED BY <1>2, <1>t, <2>1, <2>2 DEF CallOutcome, BeginCall, ProceedCall, RoomFor, schedVars
<1>3. CASE HandleEvent \/ HandleIndexCompleted
  BY <1>3, <1>t, <1>h DEF HandleEvent, HandleIndexCompleted, Received, Taken
<1>4. CASE HandleNotifyDropped
  BY <1>4, <1>t, <1>h DEF HandleNotifyDropped, Received, Taken, RoomFor, schedVars
<1>5. CASE SweepNext
  <2>1. now' = now
    BY <1>5 DEF SweepNext, RecordPathChange, schedVars
  <2>2. sweep' \in SUBSET Repos
    BY <1>5, <1>t DEF SweepNext
  <2>3. loop = "sweep" /\ UNCHANGED <<leaseVars, epoch, workVars>>
    BY <1>5 DEF SweepNext
  <2> QED BY <1>t, <2>1, <2>2, <2>3 DEF RoomFor
<1>6. CASE HandleLeaseReleased
  <2>1. \A r \in Repos : epoch[r] + 1 \in Nat
    BY <1>t DEF NoEpoch
  <2> QED BY <1>6, <1>t, <1>h, <2>1 DEF HandleLeaseReleased, Received, Taken, Bumped
<1>7. CASE HandleLeaseAcquired
  <2>1. \A r \in Repos : Current(r) \in Nat
    BY <1>t DEF Current, NoEpoch
  <2> QED BY <1>7, <1>t, <1>h, <2>1 DEF HandleLeaseAcquired, Received, Taken, Ensured
<1>8. CASE Ticker
  BY <1>8, <1>t DEF Ticker
<1>9. CASE Dispatch
  <2>1. workers' \in SUBSET Worker
    <3>1. ASSUME NEW r \in Repos, NEW c \in Class, StartWorker(r, c) PROVE workers' \in SUBSET Worker
      <4>1. workers' = workers \cup {Spawned(r, c)}
        BY <3>1 DEF StartWorker, Spawned
      <4> QED BY <1>0, <1>t, <4>1, SpawnedTyped
    <3> QED BY <1>9, <1>t, <3>1 DEF Dispatch, DispatchOf
  <2>2. loop' = "select" /\ UNCHANGED <<leaseVars, sweep, epoch>>
    BY <1>9 DEF Dispatch
  <2> QED BY <1>t, <2>1, <2>2
<1>10. ASSUME NEW w \in workers, Work(w) PROVE <1>g!1
  <2>1. WorkerOutcome(w) /\ w \in Worker
    BY <1>0, <1>10, <1>t, WorkIsOutcome
  <2>2. workers' \in SUBSET Worker
    <3>1. ASSUME NEW at \in {"planned", "cleared"} \cup Result, NEW task \in BOOLEAN,
                 workers' = (workers \ {w}) \cup {[w EXCEPT !.at = at, !.task = task]}
          PROVE  workers' \in SUBSET Worker
      <4>1. [w EXCEPT !.at = at, !.task = task] \in Worker
        BY <2>1, WorkerTyped
      <4> QED BY <1>t, <3>1, <4>1
    <3>2. CASE workers' = workers \ {w}
      BY <1>t, <3>2
    <3> QED BY <2>1, <3>1, <3>2 DEF WorkerOutcome
  <2>3. mailbox' \in Seq(Commands)
    <3>1. w.at \in Result => IndexCompleted(w) \in Commands
      BY <2>1, CompletionTyped
    <3> HIDE DEF Commands
    <3> QED BY <1>t, <1>a, <2>1, <3>1 DEF WorkerOutcome
  <2>4. /\ epoch' = epoch /\ loop' = loop /\ sweep' = sweep /\ registered' = registered
        /\ subscribed' = subscribed /\ now' = now
    BY <1>10 DEF Work, Plan, CheckBeforeCommit, Commit, FinishTask, SendCompletion, WorkerStep, schedVars
  <2> QED BY <1>t, <2>2, <2>3, <2>4 DEF RoomFor
<1>11. CASE \E r \in Repos : AttachIndexStarts(r) \/ AttachIndexEnds(r)
  BY <1>11, <1>t DEF AttachIndexStarts, AttachIndexEnds, RoomFor, schedVars
<1>12. CASE UNCHANGED supVars
  BY <1>12, <1>t DEF supVars, RoomFor, schedVars
<1> QED BY <1>1, <1>2, <1>3, <1>4, <1>5, <1>6, <1>7, <1>8, <1>9, <1>10, <1>11, <1>12
        DEF SupNext, Handle

-----------------------------------------------------------------------------
(* Steps that bring no new work of a repository. *)

\* Every completion of r in the mailbox was there before, d positions further back.
CompletionsKept(r, d) ==
  \A i : CompletionAt(i, r)' =>
    i \in Nat /\ CompletionAt(i + d, r) /\ mailbox'[i] = mailbox[i + d]

\* Every worker of r was one of its class and epoch before.
WorkersKept(r) ==
  \E g : /\ \A w \in workers' : w.repo = r =>
              /\ g[w] \in workers /\ g[w].repo = r
              /\ g[w].class = w.class /\ g[w].epoch = w.epoch
         /\ \A v, w \in workers' : v.repo = r /\ w.repo = r /\ g[v] = g[w] => v = w

LEMMA SameMail ==
  ASSUME SupTypes, mailbox' = mailbox, NEW r
  PROVE  CompletionsKept(r, 0)
BY DEF SupTypes, CompletionAt, CompletionsKept

LEMMA SentMail ==
  ASSUME SupTypes, NEW STATE m, mailbox' = Append(mailbox, m),
         NEW r, ~(m.type = "IndexCompleted" /\ m.repo = r)
  PROVE  CompletionsKept(r, 0)
<1>1. /\ DOMAIN mailbox = 1 .. Len(mailbox) /\ DOMAIN mailbox' = 1 .. (Len(mailbox) + 1)
      /\ mailbox'[Len(mailbox) + 1] = m
      /\ \A i \in 1 .. Len(mailbox) : mailbox'[i] = mailbox[i]
      /\ Len(mailbox) \in Nat
  BY DEF SupTypes
<1>2. \A i : CompletionAt(i, r)' => i \in 1 .. Len(mailbox)
  BY <1>1 DEF CompletionAt
<1> QED BY <1>1, <1>2 DEF CompletionAt, CompletionsKept

LEMMA TakenMail ==
  ASSUME SupTypes, mailbox # <<>>, mailbox' = Tail(mailbox), NEW r
  PROVE  CompletionsKept(r, 1) /\ \A i : CompletionAt(i, r)' => i + 1 # 1
<1>1. /\ DOMAIN mailbox = 1 .. Len(mailbox) /\ DOMAIN mailbox' = 1 .. (Len(mailbox) - 1)
      /\ \A i \in 1 .. (Len(mailbox) - 1) : mailbox'[i] = mailbox[i + 1]
      /\ Len(mailbox) \in Nat
  BY DEF SupTypes
<1>2. \A i : CompletionAt(i, r)' => i \in 1 .. (Len(mailbox) - 1)
  BY <1>1 DEF CompletionAt
<1> QED BY <1>1, <1>2 DEF CompletionAt, CompletionsKept

LEMMA SameWorkers ==
  ASSUME NEW r, \A w \in workers' : w.repo = r => w \in workers
  PROVE  WorkersKept(r)
<1> DEFINE g == [w \in workers' |-> w]
<1>1. \A w \in workers' : g[w] = w
  OBVIOUS
<1> HIDE DEF g
<1>2. \A w \in workers' : w.repo = r =>
        /\ g[w] \in workers /\ g[w].repo = r
        /\ g[w].class = w.class /\ g[w].epoch = w.epoch
  BY <1>1
<1>3. \A v, w \in workers' : v.repo = r /\ w.repo = r /\ g[v] = g[w] => v = w
  BY <1>1
<1> QED BY <1>2, <1>3 DEF WorkersKept

LEMMA OneWorkerMoves ==
  ASSUME SupTypes, NEW w \in workers, NEW v, v.repo = w.repo, v.class = w.class, v.epoch = w.epoch,
         workers' = (workers \ {w}) \cup {v}, NEW r
  PROVE  WorkersKept(r)
<1> DEFINE g == [x \in workers' |-> IF x = v THEN w ELSE x]
<1>1. \A x \in workers' : g[x] = IF x = v THEN w ELSE x
  OBVIOUS
<1>2. \A x \in workers' : x # v => x \in workers /\ x # w
  OBVIOUS
<1> HIDE DEF g
<1>3. \A x \in workers' : /\ g[x] \in workers /\ g[x].repo = x.repo
                          /\ g[x].class = x.class /\ g[x].epoch = x.epoch
  BY <1>1, <1>2
<1>4. \A x, y \in workers' : g[x] = g[y] => x = y
  BY <1>1, <1>2
<1> QED BY <1>3, <1>4 DEF WorkersKept

\* The frame of every step that does not handle a completion or a release of r, nor starts a
\* worker for it.
LEMMA FrameKeepsConsistent ==
  ASSUME NEW r \in Repos, NEW d \in Nat, Consistent(r), CompletionsKept(r, d), WorkersKept(r),
         epoch'[r] = epoch[r], active'[r] = active[r],
         r \in watched => r \in watched', r \in watched' => epoch[r] # NoEpoch
  PROVE  Consistent(r)'
<1>1. \A i : CompletionAt(i, r)' =>
        i \in Nat /\ CompletionAt(i + d, r) /\ mailbox'[i] = mailbox[i + d]
  BY DEF CompletionsKept
<1>2. PICK g : /\ \A w \in workers' : w.repo = r =>
                    /\ g[w] \in workers /\ g[w].repo = r
                    /\ g[w].class = w.class /\ g[w].epoch = w.epoch
               /\ \A v, w \in workers' : v.repo = r /\ w.repo = r /\ g[v] = g[w] => v = w
  BY DEF WorkersKept
<1>3. NoneIsNewer(r)'
  <2>1. \A w \in workers' : w.repo = r => epoch'[r] # NoEpoch /\ w.epoch <= epoch'[r]
    BY <1>2 DEF Consistent, NoneIsNewer
  <2>2. \A i : CompletionAt(i, r)' => epoch'[r] # NoEpoch /\ mailbox'[i].epoch <= epoch'[r]
    BY <1>1 DEF Consistent, NoneIsNewer
  <2>3. r \in watched' => epoch'[r] # NoEpoch
    OBVIOUS
  <2> QED BY <2>1, <2>2, <2>3 DEF NoneIsNewer, NoEpoch
<1>4. CurrentIsActive(r)'
  <2>1. \A w \in workers' :
          w.repo = r /\ w.epoch = epoch'[r] => r \in watched' /\ active'[r] = w.class
    BY <1>2 DEF Consistent, CurrentIsActive
  <2>2. \A i : CompletionAt(i, r)' /\ mailbox'[i].epoch = epoch'[r]
                 => r \in watched' /\ active'[r] = mailbox'[i].class
    BY <1>1 DEF Consistent, CurrentIsActive
  <2> QED BY <2>1, <2>2 DEF CurrentIsActive
<1>5. \A v, w \in workers' :
        v.repo = r /\ w.repo = r /\ v.epoch = epoch'[r] /\ w.epoch = epoch'[r] => v = w
  BY <1>2 DEF Consistent, CurrentIsOne
<1>6. \A i, j : CompletionAt(i, r)' /\ CompletionAt(j, r)'
                  /\ mailbox'[i].epoch = epoch'[r] /\ mailbox'[j].epoch = epoch'[r] => i = j
  BY <1>1 DEF Consistent, CurrentIsOne
<1>7. \A w \in workers' : \A i :
        ~(w.repo = r /\ w.epoch = epoch'[r] /\ CompletionAt(i, r)' /\ mailbox'[i].epoch = epoch'[r])
  BY <1>1, <1>2 DEF Consistent, CurrentIsOne
<1>8. CurrentIsOne(r)'
  BY <1>5, <1>6, <1>7 DEF CurrentIsOne
<1> QED BY <1>3, <1>4, <1>8 DEF Consistent

\* After a step that leaves no work of the current epoch, whatever the scheduler did.
LEMMA NoneCurrentIsConsistent ==
  ASSUME NEW r \in Repos, NoneIsNewer(r)',
         \A w \in workers' : w.repo = r => w.epoch # epoch'[r],
         \A i : CompletionAt(i, r)' => mailbox'[i].epoch # epoch'[r]
  PROVE  Consistent(r)'
<1>1. CurrentIsActive(r)'
  BY DEF CurrentIsActive
<1>2. CurrentIsOne(r)'
  BY DEF CurrentIsOne
<1> QED BY <1>1, <1>2 DEF Consistent

\* A step that leaves the workers, the epoch and the scheduler's view of r alone.
LEMMA MailKeepsConsistent ==
  ASSUME SupInv, NEW r \in Repos, NEW d \in Nat, CompletionsKept(r, d),
         workers' = workers, epoch'[r] = epoch[r],
         active'[r] = active[r], r \in watched' <=> r \in watched
  PROVE  Consistent(r)'
<1>1. WorkersKept(r)
  BY SameWorkers
<1>2. Consistent(r) /\ (r \in watched => epoch[r] # NoEpoch)
  BY DEF SupInv, Consistent, NoneIsNewer
<1> QED BY <1>1, <1>2, FrameKeepsConsistent

LEMMA SendersKeepConsistent ==
  ASSUME SupInv, FileEvent \/ BeginCall \/ (\E s \in Sessions : ProceedCall(s)), NEW q \in Repos
  PROVE  Consistent(q)'
<1>1. SupTypes
  BY DEF SupInv
<1>2. /\ workers' = workers /\ epoch' = epoch /\ active' = active /\ watched' = watched
  BY DEF FileEvent, BeginCall, ProceedCall, schedVars, workVars
<1>3. mailbox' = mailbox \/ \E m \in LeaseCommands \cup Events : mailbox' = Append(mailbox, m)
  <2>1. CASE FileEvent
    BY <1>1, <2>1 DEF FileEvent, Events, SupTypes
  <2>2. CASE BeginCall \/ \E s \in Sessions : ProceedCall(s)
    BY <1>1, <2>2, CallsSendLeaseCommands DEF CallOutcome
  <2> QED BY <2>1, <2>2
<1>4. CompletionsKept(q, 0)
  <2>1. ASSUME NEW m \in LeaseCommands \cup Events, mailbox' = Append(mailbox, m)
        PROVE  CompletionsKept(q, 0)
    <3>1. m.type # "IndexCompleted"
      BY CommandKinds
    <3> QED BY <1>1, <2>1, <3>1, SentMail
  <2> QED BY <1>1, <1>3, <2>1, SameMail
<1> QED BY <1>2, <1>4, MailKeepsConsistent

LEMMA QuietStepsKeepConsistent ==
  ASSUME SupInv, NEW q \in Repos,
         \/ HandleEvent \/ HandleNotifyDropped \/ SweepNext \/ Ticker
         \/ \E r \in Repos : AttachIndexStarts(r) \/ AttachIndexEnds(r)
         \/ UNCHANGED supVars
  PROVE  Consistent(q)'
<1>1. SupTypes
  BY DEF SupInv
<1> USE DEF schedVars, repoVars, leaseVars, callVars, workVars
<1>2. workers' = workers /\ epoch' = epoch
  BY DEF HandleEvent, HandleNotifyDropped, SweepNext, Ticker, AttachIndexStarts, AttachIndexEnds,
         supVars, Taken
<1>3. active' = active /\ watched' = watched
  <2>1. CASE HandleEvent
    BY <2>1 DEF HandleEvent, RecordPathChange
  <2>2. CASE SweepNext
    BY <2>2 DEF SweepNext, RecordPathChange
  <2>3. CASE HandleNotifyDropped
    BY <2>3 DEF HandleNotifyDropped
  <2>4. CASE Ticker
    BY <2>4 DEF Ticker, Tick
  <2>5. CASE \E r \in Repos : AttachIndexStarts(r) \/ AttachIndexEnds(r)
    BY <2>5 DEF AttachIndexStarts, AttachIndexEnds
  <2>6. CASE UNCHANGED supVars
    BY <2>6 DEF supVars
  <2> QED BY <2>1, <2>2, <2>3, <2>4, <2>5, <2>6
<1>4. \E d \in Nat : CompletionsKept(q, d)
  <2>1. CASE HandleEvent \/ HandleNotifyDropped
    BY <1>1, <2>1, TakenMail DEF HandleEvent, HandleNotifyDropped, Received, Taken
  <2>2. CASE ~(HandleEvent \/ HandleNotifyDropped)
    <3>1. mailbox' = mailbox
      BY <2>2 DEF SweepNext, Ticker, AttachIndexStarts, AttachIndexEnds, supVars
    <3> QED BY <1>1, <3>1, SameMail
  <2> QED BY <2>1, <2>2
<1> QED BY <1>2, <1>3, <1>4, MailKeepsConsistent

LEMMA ReleaseKeepsConsistent ==
  ASSUME SupInv, HandleLeaseReleased, NEW q \in Repos
  PROVE  Consistent(q)'
<1> DEFINE r == Head(mailbox).repo
<1>1. /\ SupTypes /\ r \in Repos /\ mailbox # <<>> /\ mailbox' = Tail(mailbox)
      /\ workers' = workers /\ epoch' = Bumped(r) /\ RemoveRepository(r)
  BY HeadKinds DEF SupInv, HandleLeaseReleased, Received, Taken, workVars
<1>2. CompletionsKept(q, 1)
  BY <1>1, TakenMail
<1>3. /\ epoch \in [Repos -> Nat \cup {NoEpoch}] /\ workers \in SUBSET Worker
      /\ watched \in SUBSET Repos /\ active \in [Repos -> Class \cup {Idle}]
  BY <1>1 DEF SupTypes, TypeOK
<1> HIDE DEF r
<1>4. CASE q = r
  <2>1. epoch'[q] = epoch[q] + 1 /\ epoch'[q] \in Nat /\ q \notin watched'
    BY <1>1, <1>3, <1>4 DEF Bumped, NoEpoch, RemoveRepository
  <2>2. \A w \in workers' : w.repo = q => w.epoch <= epoch[q] /\ w.epoch \in Nat
    BY <1>1, <1>3 DEF SupInv, Consistent, NoneIsNewer, Worker
  <2>3. \A i : CompletionAt(i, q)' => mailbox'[i].epoch <= epoch[q] /\ mailbox'[i].epoch \in Nat
    <3>1. \A i : CompletionAt(i, q) => mailbox[i].epoch \in Nat
      BY <1>1, CommandKinds DEF SupTypes, CompletionAt
    <3> QED BY <1>2, <3>1 DEF CompletionsKept, SupInv, Consistent, NoneIsNewer
  <2>4. NoneIsNewer(q)'
    <3>1. \A e \in Nat : e <= epoch[q] => e <= epoch'[q] /\ e # epoch'[q]
      BY <1>3, <2>1 DEF NoEpoch
    <3>2. epoch'[q] # NoEpoch
      BY <2>1 DEF NoEpoch
    <3> QED BY <2>1, <2>2, <2>3, <3>1, <3>2 DEF NoneIsNewer
  <2>5. \A e \in Nat : e <= epoch[q] => e # epoch'[q]
    BY <1>3, <2>1 DEF NoEpoch
  <2> QED BY <2>2, <2>3, <2>4, <2>5, NoneCurrentIsConsistent
<1>5. CASE q # r
  <2>1. epoch'[q] = epoch[q] /\ active'[q] = active[q] /\ (q \in watched' <=> q \in watched)
    BY <1>1, <1>3, <1>5 DEF Bumped, RemoveRepository
  <2> QED BY <1>1, <1>2, <2>1, MailKeepsConsistent
<1> QED BY <1>4, <1>5

LEMMA AcquisitionKeepsConsistent ==
  ASSUME SupInv, HandleLeaseAcquired, NEW q \in Repos
  PROVE  Consistent(q)'
<1> DEFINE r == Head(mailbox).repo
<1>1. /\ SupTypes /\ r \in Repos /\ mailbox # <<>> /\ mailbox' = Tail(mailbox)
      /\ workers' = workers /\ epoch' = Ensured(r)
      /\ watched' = watched \cup {r} /\ active' = active
  BY HeadKinds DEF SupInv, HandleLeaseAcquired, Received, Taken, workVars, AddRepository
<1>2. CompletionsKept(q, 1)
  BY <1>1, TakenMail
<1>3. epoch \in [Repos -> Nat \cup {NoEpoch}]
  BY <1>1 DEF SupTypes
<1>4. Consistent(q)
  BY DEF SupInv
<1> HIDE DEF r
<1>5. CASE q = r /\ epoch[q] = NoEpoch
  <2>1. epoch'[q] = 0
    BY <1>1, <1>3, <1>5 DEF Ensured, Current
  <2>2. \A w \in workers' : w.repo # q
    BY <1>1, <1>4, <1>5 DEF Consistent, NoneIsNewer
  <2>3. \A i : ~CompletionAt(i, q)'
    BY <1>2, <1>4, <1>5 DEF Consistent, NoneIsNewer, CompletionsKept
  <2>4. NoneIsNewer(q)'
    BY <2>1, <2>2, <2>3 DEF NoneIsNewer, NoEpoch
  <2> QED BY <2>2, <2>3, <2>4, NoneCurrentIsConsistent
<1>6. CASE q # r \/ epoch[q] # NoEpoch
  <2>1. epoch'[q] = epoch[q]
    BY <1>1, <1>3, <1>6 DEF Ensured, Current
  <2>2. q \in watched' => epoch[q] # NoEpoch
    BY <1>1, <1>4, <1>6 DEF Consistent, NoneIsNewer
  <2> QED BY <1>1, <1>2, <1>4, <2>1, <2>2, SameWorkers, FrameKeepsConsistent
<1> QED BY <1>5, <1>6

\* A completion frees at most the repository it is of.
LEMMA CompletionFrame ==
  ASSUME TypeOK, NEW r \in Repos, CompleteOf(r), NEW q \in Repos, q # r
  PROVE  watched' = watched /\ active'[q] = active[q]
BY DEF TypeOK, CompleteOf, SucceedManifest, ManifestSucceeded, SucceedSemantic, SemanticSucceeded,
       Fail, MarkFailed, Block, MarkBlocked, Released

LEMMA CompletionKeepsConsistent ==
  ASSUME SupInv, HandleIndexCompleted, NEW q \in Repos
  PROVE  Consistent(q)'
<1> DEFINE m == Head(mailbox)
<1>1. /\ SupTypes /\ mailbox # <<>> /\ mailbox' = Tail(mailbox)
      /\ workers' = workers /\ epoch' = epoch
  BY DEF SupInv, HandleIndexCompleted, Received, Taken, workVars
<1>2. CompletionsKept(q, 1) /\ \A i : CompletionAt(i, q)' => i + 1 # 1
  BY <1>1, TakenMail
<1>3. Consistent(q) /\ TypeOK
  BY <1>1 DEF SupInv, SupTypes
<1>4. CASE m.epoch = Current(m.repo) /\ m.repo \in registered \cap watched
  <2>1. /\ m.repo \in Repos /\ CompletionAt(1, m.repo) /\ mailbox[1].epoch = epoch[m.repo]
        /\ CompleteOf(m.repo)
    <3>1. Applied(m)
      BY <1>4 DEF HandleIndexCompleted
    <3> QED BY <1>4, <3>1, CompletionIsExpected, AppliedIsCompletion DEF HandleIndexCompleted
  <2> HIDE DEF m
  <2>2. CASE q = m.repo
    <3>1. \A w \in workers' : w.repo = q => w.epoch # epoch'[q]
      BY <1>1, <1>3, <2>1, <2>2 DEF Consistent, CurrentIsOne
    <3>2. \A i : CompletionAt(i, q)' => mailbox'[i].epoch # epoch'[q]
      BY <1>1, <1>2, <1>3, <2>1, <2>2 DEF Consistent, CurrentIsOne, CompletionsKept
    <3>3. NoneIsNewer(q)'
      <4>1. \A w \in workers' : w.repo = q => epoch'[q] # NoEpoch /\ w.epoch <= epoch'[q]
        BY <1>1, <1>3 DEF Consistent, NoneIsNewer
      <4>2. \A i : CompletionAt(i, q)' => epoch'[q] # NoEpoch /\ mailbox'[i].epoch <= epoch'[q]
        BY <1>1, <1>2, <1>3 DEF Consistent, NoneIsNewer, CompletionsKept
      <4>3. epoch'[q] # NoEpoch
        BY <1>1, <1>3, <2>1, <2>2 DEF Consistent, NoneIsNewer
      <4> QED BY <4>1, <4>2, <4>3 DEF NoneIsNewer, NoEpoch
    <3> QED BY <3>1, <3>2, <3>3, NoneCurrentIsConsistent
  <2>3. CASE q # m.repo
    BY <1>1, <1>2, <1>3, <2>1, <2>3, CompletionFrame, MailKeepsConsistent
  <2> QED BY <2>2, <2>3
<1>5. CASE ~(m.epoch = Current(m.repo) /\ m.repo \in registered \cap watched)
  <2>1. UNCHANGED schedVars
    BY <1>5 DEF HandleIndexCompleted
  <2> QED BY <1>1, <1>2, <2>1, MailKeepsConsistent DEF schedVars
<1> QED BY <1>4, <1>5

LEMMA StartKeepsConsistent ==
  ASSUME SupInv, mailbox' = mailbox, epoch' = epoch,
         NEW r \in Repos, NEW c \in Class, StartWorker(r, c), NEW q \in Repos
  PROVE  Consistent(q)'
<1>1. /\ SupTypes /\ active \in [Repos -> Class \cup {Idle}] /\ workers \in SUBSET Worker
      /\ epoch \in [Repos -> Nat \cup {NoEpoch}]
  BY DEF SupInv, SupTypes, TypeOK
<1>2. /\ r \in watched /\ active[r] = Idle /\ watched' = watched
      /\ active' = [active EXCEPT ![r] = c] /\ workers' = workers \cup {Spawned(r, c)}
  BY DEF StartWorker, MarkStarted, NextReady, Ready, Spawned
<1>3. CompletionsKept(q, 0) /\ Consistent(q)
  BY <1>1, SameMail DEF SupInv
<1>4. Spawned(r, c).repo = r /\ Spawned(r, c).class = c
  BY DEF Spawned
<1>5. CASE q = r
  <2>1. epoch[q] \in Nat /\ Spawned(r, c).epoch = epoch[q]
    BY <1>1, <1>2, <1>3, <1>5 DEF Consistent, NoneIsNewer, Spawned, Current
  <2>2. \A w \in workers : w.repo = q => w.class # Idle
    BY <1>1 DEF Worker, Class, Idle, ManifestFast, SemanticFollowup
  <2>3. \A w \in workers : w.repo = q => w.epoch # epoch[q]
    BY <1>2, <1>3, <1>5, <2>2 DEF Consistent, CurrentIsActive
  <2>4. \A i : CompletionAt(i, q) => mailbox[i].class # Idle
    BY <1>1, CommandKinds DEF SupTypes, CompletionAt, Class, Idle, ManifestFast, SemanticFollowup
  <2>5. \A i : CompletionAt(i, q) => mailbox[i].epoch # epoch[q]
    BY <1>2, <1>3, <1>5, <2>4 DEF Consistent, CurrentIsActive
  <2>6. \A i : CompletionAt(i, q)' => CompletionAt(i, q) /\ mailbox'[i] = mailbox[i]
    BY DEF CompletionAt
  <2>7. \A w \in workers' : w \in workers \/ (w = Spawned(r, c) /\ w.epoch = epoch[q] /\ w.class = c)
    BY <1>2, <1>4, <2>1
  <2>8. NoneIsNewer(q)'
    <3>1. epoch'[q] # NoEpoch /\ epoch'[q] = epoch[q]
      BY <2>1 DEF NoEpoch
    <3>2. \A w \in workers' : w.repo = q => w.epoch <= epoch'[q]
      BY <1>3, <2>1, <2>7 DEF Consistent, NoneIsNewer
    <3>3. \A i : CompletionAt(i, q)' => mailbox'[i].epoch <= epoch'[q]
      BY <1>3, <2>6 DEF Consistent, NoneIsNewer
    <3> QED BY <3>1, <3>2, <3>3 DEF NoneIsNewer, NoEpoch
  <2>9. CurrentIsActive(q)'
    <3>1. q \in watched' /\ active'[q] = c
      BY <1>1, <1>2, <1>5
    <3>2. \A w \in workers' : w.repo = q /\ w.epoch = epoch'[q] => active'[q] = w.class
      BY <2>3, <2>7, <3>1
    <3>3. \A i : CompletionAt(i, q)' => mailbox'[i].epoch # epoch'[q]
      BY <2>5, <2>6
    <3> QED BY <3>1, <3>2, <3>3 DEF CurrentIsActive
  <2>10. CurrentIsOne(q)'
    <3>1. \A v, w \in workers' :
            v.repo = q /\ w.repo = q /\ v.epoch = epoch'[q] /\ w.epoch = epoch'[q] => v = w
      BY <2>3, <2>7
    <3>2. \A i : CompletionAt(i, q)' => mailbox'[i].epoch # epoch'[q]
      BY <2>5, <2>6
    <3> QED BY <3>1, <3>2 DEF CurrentIsOne
  <2> QED BY <2>8, <2>9, <2>10 DEF Consistent
<1>6. CASE q # r
  <2>1. WorkersKept(q)
    <3>1. \A w \in workers' : w.repo = q => w \in workers
      BY <1>2, <1>4, <1>6
    <3> QED BY <3>1, SameWorkers
  <2>2. /\ epoch'[q] = epoch[q] /\ active'[q] = active[q]
        /\ q \in watched => q \in watched' /\ epoch[q] # NoEpoch
    BY <1>1, <1>2, <1>3, <1>6 DEF Consistent, NoneIsNewer
  <2> QED BY <1>2, <1>3, <2>1, <2>2, FrameKeepsConsistent
<1> QED BY <1>5, <1>6

LEMMA DispatchKeepsConsistent ==
  ASSUME SupInv, Dispatch, NEW q \in Repos
  PROVE  Consistent(q)'
<1>1. /\ SupTypes /\ active \in [Repos -> Class \cup {Idle}]
      /\ mailbox' = mailbox /\ epoch' = epoch
  BY DEF SupInv, SupTypes, TypeOK, Dispatch, leaseVars
<1>2. CompletionsKept(q, 0)
  BY <1>1, SameMail
<1>3. CASE UNCHANGED <<schedVars, workers, tasks>>
  BY <1>1, <1>2, <1>3, MailKeepsConsistent DEF schedVars
<1>4. ASSUME NEW r \in Repos, NEW c \in Class, NextReady(r, c), MarkFailed(r, c), workers' = workers
      PROVE  Consistent(q)'
  <2>1. active[r] = Idle /\ watched' = watched /\ active' = [active EXCEPT ![r] = IF @ = c THEN Idle ELSE @]
    BY <1>4 DEF NextReady, Ready, MarkFailed, Released
  <2>2. active'[q] = active[q]
    BY <1>1, <2>1
  <2> QED BY <1>1, <1>2, <1>4, <2>1, <2>2, MailKeepsConsistent
<1>5. ASSUME NEW r \in Repos, NEW c \in Class, StartWorker(r, c)
      PROVE  Consistent(q)'
  BY <1>1, <1>5, StartKeepsConsistent
<1> QED BY <1>3, <1>4, <1>5 DEF Dispatch, DispatchOf

\* A worker ends: its completion takes its place.
LEMMA SendingKeepsConsistent ==
  ASSUME SupInv, NEW w \in workers, SendCompletion(w), w.repo \in Repos
  PROVE  Consistent(w.repo)'
<1> DEFINE q == w.repo
           n == Len(mailbox)
           Cur(i) == CompletionAt(i, q) /\ mailbox[i].epoch = epoch[q]
<1>1. /\ SupTypes /\ w \in Worker /\ w.at \in Result
      /\ workers' = workers \ {w} /\ mailbox' = Append(mailbox, IndexCompleted(w))
      /\ epoch' = epoch /\ active' = active /\ watched' = watched /\ Consistent(q)
  BY DEF SupInv, SupTypes, SendCompletion, schedVars
<1>2. /\ IndexCompleted(w).type = "IndexCompleted" /\ IndexCompleted(w).repo = q
      /\ IndexCompleted(w).class = w.class /\ IndexCompleted(w).epoch = w.epoch
  BY DEF IndexCompleted
<1>3. /\ n \in Nat /\ DOMAIN mailbox = 1 .. n /\ DOMAIN mailbox' = 1 .. (n + 1)
      /\ mailbox'[n + 1] = IndexCompleted(w)
      /\ \A i \in 1 .. n : mailbox'[i] = mailbox[i]
  BY <1>1 DEF SupTypes
<1> HIDE DEF n, q
<1>4. \A i : CompletionAt(i, q)' =>
        \/ CompletionAt(i, q) /\ mailbox'[i] = mailbox[i]
        \/ i = n + 1 /\ mailbox'[i] = IndexCompleted(w)
  BY <1>3 DEF CompletionAt
<1>5. w.repo = q
  BY DEF q
<1>6. NoneIsNewer(q)'
  <2>1. \A v \in workers' : v.repo = q => epoch'[q] # NoEpoch /\ v.epoch <= epoch'[q]
    BY <1>1 DEF Consistent, NoneIsNewer
  <2>2. w.epoch <= epoch'[q] /\ epoch'[q] # NoEpoch
    BY <1>1, <1>5 DEF Consistent, NoneIsNewer
  <2>3. \A i : CompletionAt(i, q)' => mailbox'[i].epoch <= epoch'[q]
    BY <1>1, <1>2, <1>4, <2>2 DEF Consistent, NoneIsNewer
  <2> QED BY <2>1, <2>2, <2>3 DEF NoneIsNewer, NoEpoch
<1>7. CurrentIsActive(q)'
  <2>1. \A v \in workers' :
          v.repo = q /\ v.epoch = epoch'[q] => q \in watched' /\ active'[q] = v.class
    BY <1>1 DEF Consistent, CurrentIsActive
  <2>2. w.epoch = epoch[q] => q \in watched' /\ active'[q] = w.class
    BY <1>1, <1>5 DEF Consistent, CurrentIsActive
  <2>3. \A i : CompletionAt(i, q)' /\ mailbox'[i].epoch = epoch'[q]
                 => q \in watched' /\ active'[q] = mailbox'[i].class
    BY <1>1, <1>2, <1>4, <2>2 DEF Consistent, CurrentIsActive
  <2> QED BY <2>1, <2>3 DEF CurrentIsActive
<1>8. CurrentIsOne(q)'
  <2>1. \A u, v \in workers' :
          u.repo = q /\ v.repo = q /\ u.epoch = epoch'[q] /\ v.epoch = epoch'[q] => u = v
    BY <1>1 DEF Consistent, CurrentIsOne
  <2>2. \A i : CompletionAt(i, q)' /\ mailbox'[i].epoch = epoch'[q] =>
          \/ CompletionAt(i, q) /\ mailbox[i].epoch = epoch[q]
          \/ i = n + 1 /\ w.epoch = epoch[q]
    BY <1>1, <1>2, <1>4
  <2>3. \A i, j : CompletionAt(i, q) /\ CompletionAt(j, q)
                    /\ mailbox[i].epoch = epoch[q] /\ mailbox[j].epoch = epoch[q] => i = j
    BY <1>1 DEF Consistent, CurrentIsOne
  <2>4. \A v \in workers : \A i :
          ~(v.repo = q /\ v.epoch = epoch[q] /\ CompletionAt(i, q) /\ mailbox[i].epoch = epoch[q])
    BY <1>1 DEF Consistent, CurrentIsOne
  <2>5. \A i, j : CompletionAt(i, q)' /\ CompletionAt(j, q)'
                    /\ mailbox'[i].epoch = epoch'[q] /\ mailbox'[j].epoch = epoch'[q] => i = j
    BY <1>5, <2>2, <2>3, <2>4
  <2>6. \A v \in workers' : v.repo = q /\ v.epoch = epoch[q] => w.epoch # epoch[q]
    BY <1>1, <1>5 DEF Consistent, CurrentIsOne
  <2>7. \A v \in workers' : \A i :
          ~(v.repo = q /\ v.epoch = epoch'[q] /\ CompletionAt(i, q)' /\ mailbox'[i].epoch = epoch'[q])
    BY <1>1, <2>2, <2>4, <2>6
  <2> QED BY <2>1, <2>5, <2>7 DEF CurrentIsOne
<1> QED BY <1>6, <1>7, <1>8 DEF Consistent, q

LEMMA WorkKeepsConsistent ==
  ASSUME SupInv, NEW w \in workers, Work(w), NEW q \in Repos
  PROVE  Consistent(q)'
<1>1. /\ SupTypes /\ w \in Worker /\ Consistent(q) /\ w.repo \in Repos
      /\ q \in watched => epoch[q] # NoEpoch
  BY DEF SupInv, SupTypes, Worker, Consistent, NoneIsNewer
<1>2. epoch' = epoch /\ active' = active /\ watched' = watched
  BY DEF Work, Plan, CheckBeforeCommit, Commit, FinishTask, SendCompletion, WorkerStep, schedVars
<1>3. CASE SendCompletion(w)
  <2>1. CASE q = w.repo
    BY <1>1, <1>3, <2>1, SendingKeepsConsistent
  <2>2. CASE q # w.repo
    <3>1. /\ mailbox' = Append(mailbox, IndexCompleted(w)) /\ workers' = workers \ {w}
          /\ IndexCompleted(w).repo # q
      BY <1>3, <2>2 DEF SendCompletion, IndexCompleted
    <3>2. CompletionsKept(q, 0) /\ WorkersKept(q)
      BY <1>1, <3>1, SentMail, SameWorkers
    <3> QED BY <1>1, <1>2, <3>2, FrameKeepsConsistent
  <2> QED BY <2>1, <2>2
<1>4. CASE ~SendCompletion(w)
  <2>1. mailbox' = mailbox
    BY <1>4 DEF Work, Plan, CheckBeforeCommit, Commit, FinishTask, WorkerStep, leaseVars
  <2>2. CompletionsKept(q, 0)
    BY <1>1, <2>1, SameMail
  <2>3. WorkersKept(q)
    <3>1. ASSUME NEW at \in {"planned", "cleared"} \cup Result, NEW task \in BOOLEAN,
                 workers' = (workers \ {w}) \cup {[w EXCEPT !.at = at, !.task = task]}
          PROVE  WorkersKept(q)
      BY <1>1, <3>1, WorkerTyped, OneWorkerMoves
    <3>2. CASE workers' = workers \ {w}
      BY <3>2, SameWorkers
    <3> QED BY <1>1, <3>1, <3>2, WorkIsOutcome DEF WorkerOutcome
  <2> QED BY <1>1, <1>2, <2>2, <2>3, FrameKeepsConsistent
<1> QED BY <1>3, <1>4

-----------------------------------------------------------------------------
LEMMA SupInvInit == SupInit => SupInv
<1> SUFFICES ASSUME SupInit PROVE SupInv
  OBVIOUS
<1>1. watched = {} /\ workers = {} /\ mailbox = <<>>
  BY DEF SupInit, Init, Leases!LeaseInit
<1>2. \A i : i \notin DOMAIN mailbox
  BY <1>1
<1>3. ASSUME NEW r \in Repos PROVE Consistent(r)
  BY <1>1, <1>2 DEF Consistent, NoneIsNewer, CurrentIsActive, CurrentIsOne, CompletionAt
<1> QED BY <1>3, SupTypesInit DEF SupInv

LEMMA SupInvStep == SupInv /\ [SupNext]_supVars => SupInv'
<1> SUFFICES ASSUME SupInv, [SupNext]_supVars PROVE SupInv'
  OBVIOUS
<1>1. SupTypes'
  BY SupTypesStep
<1>2. ASSUME NEW q \in Repos PROVE Consistent(q)'
  BY SendersKeepConsistent, QuietStepsKeepConsistent, ReleaseKeepsConsistent,
     AcquisitionKeepsConsistent, CompletionKeepsConsistent, DispatchKeepsConsistent,
     WorkKeepsConsistent DEF SupNext, Handle
<1> QED BY <1>1, <1>2 DEF SupInv

\* The supervisor implements the scheduler: whatever sessions, the watcher and the workers do,
\* every step of the loop is a step of WatchScheduler or leaves its state alone.
THEOREM DrivesTheScheduler == SupSpec => DrivesScheduler
<1>1. SupSpec => []SupInv
  BY SupInvInit, SupInvStep, PTL DEF SupSpec
<1>2. SupInit => Init
  BY DEF SupInit
<1> QED BY <1>1, <1>2, StepDrives, PTL DEF SupSpec, DrivesScheduler, Spec

\* So what is proved of the scheduler holds under the supervisor: by its own count no repository
\* runs in both classes and no class runs more than its limit, a change during a refresh asks for a
\* rerun, no deadline is pushed past the maximum delay, and no accepted change is dropped.
THEOREM SchedulerFactsHold ==
  SupSpec => [](ClassesDoNotCollide /\ WithinLimits /\ RerunMatchesHints /\ BoundedDelay) /\ KeepsLedger
BY DrivesTheScheduler, ClassesNeverCollide, LimitsHold, RerunsMatch, DelayIsBounded,
   ImplementsLedger, PTL DEF DrivesScheduler

-----------------------------------------------------------------------------
(* The writers of one index.  The registry of active tasks stands between them: a worker at   *)
(* work is registered, and what is registered keeps a second one and an attach-time index out. *)

AtWork(r, c) == {w \in workers : w.repo = r /\ w.class = c /\ w.task}

Registered == \A w \in workers : w.task => <<w.repo, w.class>> \in tasks
OneEach == \A v, w \in workers :
             v.task /\ w.task /\ v.repo = w.repo /\ v.class = w.class => v = w
AttachAlone == \A r \in attachIndex, c \in Class : <<r, c>> \notin tasks

TaskInv == SupTypes /\ Registered /\ OneEach /\ AttachAlone

LEMMA DispatchKeepsTasks ==
  ASSUME TaskInv, Dispatch
  PROVE  Registered' /\ OneEach' /\ AttachAlone'
<1>1. attachIndex' = attachIndex
  BY DEF Dispatch
<1>2. CASE workers' = workers /\ tasks' = tasks
  BY <1>1, <1>2 DEF TaskInv, Registered, OneEach, AttachAlone
<1>3. ASSUME NEW r \in Repos, NEW c \in Class, ~Conflict(r, c), StartWorker(r, c)
      PROVE  Registered' /\ OneEach' /\ AttachAlone'
  <2>1. /\ workers' = workers \cup {Spawned(r, c)} /\ tasks' = tasks \cup {<<r, c>>}
        /\ <<r, c>> \notin tasks /\ r \notin attachIndex
    BY <1>3 DEF StartWorker, Spawned, Conflict
  <2>2. Spawned(r, c).repo = r /\ Spawned(r, c).class = c
    BY DEF Spawned
  <2>3. Registered'
    BY <2>1, <2>2 DEF TaskInv, Registered
  <2>4. \A w \in workers : w.task => ~(w.repo = r /\ w.class = c)
    BY <2>1 DEF TaskInv, Registered
  <2>5. OneEach'
    BY <2>1, <2>2, <2>4 DEF TaskInv, OneEach
  <2>6. AttachAlone'
    BY <1>1, <2>1 DEF TaskInv, AttachAlone
  <2> QED BY <2>3, <2>5, <2>6
<1> QED BY <1>2, <1>3 DEF Dispatch, DispatchOf

\* A worker goes on, with its task.
LEMMA MovingKeepsTasks ==
  ASSUME TaskInv, NEW w \in workers, NEW v,
         v.repo = w.repo, v.class = w.class, v.task = w.task,
         workers' = (workers \ {w}) \cup {v}, tasks' = tasks, attachIndex' = attachIndex
  PROVE  Registered' /\ OneEach' /\ AttachAlone'
<1>1. Registered'
  BY DEF TaskInv, Registered
<1>2. OneEach'
  BY DEF TaskInv, OneEach
<1> QED BY <1>1, <1>2 DEF TaskInv, AttachAlone

LEMMA WorkKeepsTasks ==
  ASSUME TaskInv, NEW w \in workers, Work(w)
  PROVE  Registered' /\ OneEach' /\ AttachAlone'
<1>1. w \in Worker /\ attachIndex' = attachIndex
  BY DEF TaskInv, SupTypes, Work, Plan, CheckBeforeCommit, Commit, FinishTask, SendCompletion,
         WorkerStep
<1>2. ASSUME NEW at, Advance(w, at), tasks' = tasks
      PROVE  Registered' /\ OneEach' /\ AttachAlone'
  <2>1. /\ [w EXCEPT !.at = at].repo = w.repo /\ [w EXCEPT !.at = at].class = w.class
        /\ [w EXCEPT !.at = at].task = w.task
    BY <1>1 DEF Worker
  <2> QED BY <1>1, <1>2, <2>1, MovingKeepsTasks DEF Advance
<1>3. CASE Plan(w)
  BY <1>2, <1>3 DEF Plan
<1>4. CASE CheckBeforeCommit(w)
  BY <1>2, <1>4 DEF CheckBeforeCommit
<1>5. CASE Commit(w)
  BY <1>2, <1>5 DEF Commit
<1>6. CASE FinishTask(w)
  <2> DEFINE v == [w EXCEPT !.task = FALSE]
  <2>1. v.task = FALSE /\ v.repo = w.repo /\ v.class = w.class
    BY <1>1 DEF Worker
  <2>2. /\ workers' = (workers \ {w}) \cup {v} /\ tasks' = tasks \ {<<w.repo, w.class>>} /\ w.task
    BY <1>6 DEF FinishTask
  <2> HIDE DEF v
  <2>3. Registered'
    BY <2>1, <2>2 DEF TaskInv, Registered, OneEach
  <2>4. OneEach'
    BY <2>1, <2>2 DEF TaskInv, OneEach
  <2>5. AttachAlone'
    BY <1>1, <2>2 DEF TaskInv, AttachAlone
  <2> QED BY <2>3, <2>4, <2>5
<1>7. CASE SendCompletion(w)
  BY <1>1, <1>7 DEF SendCompletion, TaskInv, Registered, OneEach, AttachAlone
<1> QED BY <1>3, <1>4, <1>5, <1>6, <1>7 DEF Work

LEMMA TasksStep == TaskInv /\ [SupNext]_supVars => Registered' /\ OneEach' /\ AttachAlone'
<1> SUFFICES ASSUME TaskInv, [SupNext]_supVars PROVE Registered' /\ OneEach' /\ AttachAlone'
  OBVIOUS
<1>1. CASE workers' = workers /\ tasks' = tasks /\ attachIndex' = attachIndex
  BY <1>1 DEF TaskInv, Registered, OneEach, AttachAlone
<1>2. CASE Handle \/ FileEvent \/ BeginCall \/ (\E s \in Sessions : ProceedCall(s))
           \/ Ticker \/ UNCHANGED supVars
  <2>1. UNCHANGED workVars
    BY <1>2 DEF Handle, HandleEvent, HandleNotifyDropped, SweepNext, HandleLeaseAcquired,
         HandleLeaseReleased, HandleIndexCompleted, Taken, FileEvent, BeginCall, ProceedCall,
         Ticker, supVars, workVars
  <2> QED BY <1>1, <2>1 DEF workVars
<1>3. CASE Dispatch
  BY <1>3, DispatchKeepsTasks
<1>4. CASE \E w \in workers : Work(w)
  BY <1>4, WorkKeepsTasks
<1>5. CASE \E r \in Repos : AttachIndexStarts(r) \/ AttachIndexEnds(r)
  BY <1>5 DEF AttachIndexStarts, AttachIndexEnds, TaskInv, Registered, OneEach, AttachAlone
<1> QED BY <1>2, <1>3, <1>4, <1>5 DEF SupNext

LEMMA TasksExclude == TaskInv => WritersExclude
<1> SUFFICES ASSUME TaskInv, NEW r \in Repos
             PROVE  /\ \A c \in Class : Cardinality(AtWork(r, c)) <= 1
                    /\ r \in attachIndex => \A c \in Class : AtWork(r, c) = {}
  BY DEF WritersExclude, AtWork
<1>1. ASSUME NEW c \in Class PROVE Cardinality(AtWork(r, c)) <= 1
  <2>1. CASE AtWork(r, c) = {}
    BY <2>1, FS_EmptySet
  <2>2. ASSUME NEW w \in AtWork(r, c) PROVE Cardinality(AtWork(r, c)) <= 1
    <3>1. AtWork(r, c) = {w}
      BY <2>2 DEF AtWork, TaskInv, OneEach
    <3>2. Cardinality({w}) = 1
      BY FS_Singleton
    <3> QED BY <3>1, <3>2
  <2> QED BY <2>1, <2>2
<1>2. ASSUME r \in attachIndex, NEW c \in Class PROVE AtWork(r, c) = {}
  BY <1>2 DEF AtWork, TaskInv, Registered, AttachAlone
<1> QED BY <1>1, <1>2

\* The writers of one repository's index exclude each other, whatever the number of sessions and
\* repositories and however often leases change hands while workers of old epochs still run.
THEOREM WritersExcludeEachOther == SupSpec => []WritersExclude
<1>1. SupSpec => []SupInv
  BY SupInvInit, SupInvStep, PTL DEF SupSpec
<1>2. SupInit => Registered /\ OneEach /\ AttachAlone
  BY DEF SupInit, Registered, OneEach, AttachAlone
<1>3. SupInv => SupTypes
  BY DEF SupInv
<1>4. SupTypes /\ (Registered /\ OneEach /\ AttachAlone) /\ [SupNext]_supVars
        => (Registered /\ OneEach /\ AttachAlone)'
  BY TasksStep DEF TaskInv
<1>5. SupTypes /\ (Registered /\ OneEach /\ AttachAlone) => WritersExclude
  BY TasksExclude DEF TaskInv
<1> QED BY <1>1, <1>2, <1>3, <1>4, <1>5, PTL DEF SupSpec


-----------------------------------------------------------------------------
(* The lease commands of a mailbox. *)

\* A set of numbers that is not empty has a least element.
LEMMA LeastNumber ==
  ASSUME NEW T, T \subseteq Nat, T # {}
  PROVE  \E m \in T : \A n \in T : m <= n
<1> DEFINE R == {ss \in Nat \X Nat : ss[1] < ss[2]}
<1>1. IsWellFoundedOn(R, Nat)
  BY NatLessThanWellFounded DEF OpToRel
<1> HIDE DEF R
<1>2. \E m \in T : \A n \in T : ~(<<n, m>> \in R)
  BY <1>1, WFMin
<1>3. PICK m \in T : \A n \in T : ~(<<n, m>> \in R)
  BY <1>2
<1>4. ASSUME NEW n \in T PROVE m <= n
  <2>1. n \in Nat /\ m \in Nat
    OBVIOUS
  <2>2. ~(n < m)
    <3> DEFINE p == <<n, m>>
    <3>1. p \in Nat \X Nat /\ p[1] = n /\ p[2] = m
      BY <2>1
    <3>2. p \notin R
      BY <1>3
    <3> QED BY <3>1, <3>2 DEF R
  <2> QED BY <2>1, <2>2
<1> QED BY <1>4

\* f[i] holds the lease commands among the first i of a mailbox, for i up to n.
Collects(f, box, n) ==
  f = [i \in 0 .. n |->
         IF i = 0 THEN <<>>
         ELSE IF box[i].type \in LeaseCommand THEN Append(f[i - 1], box[i])
         ELSE f[i - 1]]

LEMMA CollectsNext ==
  ASSUME NEW box, NEW n \in Nat, n > 0, NEW f, Collects(f, box, n - 1)
  PROVE  \E g : Collects(g, box, n)
<1> DEFINE g == [i \in 0 .. n |->
                   IF i = n THEN IF box[n].type \in LeaseCommand THEN Append(f[n - 1], box[n])
                                 ELSE f[n - 1]
                   ELSE f[i]]
<1>1. \A i \in 0 .. n : g[i] = IF i = n THEN IF box[n].type \in LeaseCommand THEN Append(f[n - 1], box[n])
                                 ELSE f[n - 1]
                   ELSE f[i]
  OBVIOUS
<1>2. \A i \in 0 .. (n - 1) : f[i] = IF i = 0 THEN <<>>
         ELSE IF box[i].type \in LeaseCommand THEN Append(f[i - 1], box[i])
         ELSE f[i - 1]
  BY DEF Collects
<1>3. \A i \in 0 .. n : g[i] = IF i = 0 THEN <<>>
         ELSE IF box[i].type \in LeaseCommand THEN Append(g[i - 1], box[i])
         ELSE g[i - 1]
  <2> SUFFICES ASSUME NEW i \in 0 .. n
      PROVE g[i] = IF i = 0 THEN <<>>
         ELSE IF box[i].type \in LeaseCommand THEN Append(g[i - 1], box[i])
         ELSE g[i - 1]
    OBVIOUS
  <2> HIDE DEF g
  <2>1. CASE i = n
    <3>1. i # 0 /\ i - 1 \in 0 .. n /\ i - 1 # n
      BY <2>1
    <3>2. g[i - 1] = f[i - 1]
      BY <1>1, <3>1
    <3> QED BY <1>1, <2>1, <3>1, <3>2
  <2>2. CASE i # n
    <3>1. g[i] = f[i] /\ i \in 0 .. (n - 1)
      BY <1>1, <2>2
    <3>2. i # 0 => g[i - 1] = f[i - 1]
      <4>1. i # 0 => i - 1 \in 0 .. n /\ i - 1 # n
        OBVIOUS
      <4> QED BY <1>1, <4>1
    <3> QED BY <1>2, <3>1, <3>2
  <2> QED BY <2>1, <2>2
<1>4. Collects(g, box, n)
  <2>1. g = [i \in 0 .. n |-> g[i]]
    OBVIOUS
  <2> HIDE DEF g
  <2> QED BY <1>3, <2>1 DEF Collects
<1> QED BY <1>4

LEMMA CollectsExists ==
  ASSUME NEW box, NEW n \in Nat
  PROVE  \E f : Collects(f, box, n)
<1> DEFINE T == {k \in Nat : ~\E f : Collects(f, box, k)}
<1>1. ASSUME T # {} PROVE FALSE
  <2>1. PICK m \in T : \A k \in T : m <= k
    BY <1>1, LeastNumber
  <2>2. CASE m = 0
    <3> DEFINE e == [i \in 0 .. 0 |-> IF i = 0 THEN <<>>
         ELSE IF box[i].type \in LeaseCommand THEN Append(<<>>, box[i])
         ELSE <<>>]
    <3>1. Collects(e, box, 0)
      <4>1. \A i \in 0 .. 0 : i = 0
        OBVIOUS
      <4> QED BY <4>1 DEF Collects
    <3> QED BY <2>1, <2>2, <3>1
  <2>3. CASE m # 0
    <3>1. m - 1 \in Nat /\ m - 1 < m /\ m > 0
      BY <2>1, <2>3
    <3>2. PICK f : Collects(f, box, m - 1)
      BY <2>1, <3>1
    <3> QED BY <2>1, <3>1, <3>2, CollectsNext
  <2> QED BY <2>2, <2>3
<1> QED BY <1>1

LEMMA LeaseMailCollects ==
  ASSUME NEW S, NEW box \in Seq(S)
  PROVE  \E f : Collects(f, box, Len(box)) /\ LeaseMail(box) = f[Len(box)]
<1> DEFINE F == CHOOSE f : Collects(f, box, Len(box))
<1>1. Len(box) \in Nat
  OBVIOUS
<1>2. Collects(F, box, Len(box))
  BY <1>1, CollectsExists
<1>3. LeaseMail(box) = F[Len(box)]
  BY DEF LeaseMail, Collects
<1> QED BY <1>2, <1>3

\* One step of a collection.
LEMMA CollectsStep ==
  ASSUME NEW f, NEW box, NEW n, Collects(f, box, n), NEW i \in 1 .. n, n \in Nat
  PROVE  f[i] = IF box[i].type \in LeaseCommand THEN Append(f[i - 1], box[i]) ELSE f[i - 1]
<1>1. \A j \in 0 .. n : f[j] = IF j = 0 THEN <<>>
         ELSE IF box[j].type \in LeaseCommand THEN Append(f[j - 1], box[j]) ELSE f[j - 1]
  BY DEF Collects
<1>2. i \in 0 .. n /\ i # 0
  OBVIOUS
<1> QED BY <1>1, <1>2

LEMMA CollectsFirst ==
  ASSUME NEW f, NEW box, NEW n \in Nat, Collects(f, box, n)
  PROVE  f[0] = <<>>
<1>1. 0 \in 0 .. n
  OBVIOUS
<1> QED BY <1>1 DEF Collects

LEMMA CollectsTyped ==
  ASSUME NEW S, NEW box \in Seq(S), NEW f, Collects(f, box, Len(box))
  PROVE  \A i \in 0 .. Len(box) : f[i] \in Seq(S)
<1> DEFINE n == Len(box)
           T == {i \in 0 .. n : f[i] \notin Seq(S)}
<1>0. n \in Nat /\ \A i \in 1 .. n : box[i] \in S
  OBVIOUS
<1>1. ASSUME T # {} PROVE FALSE
  <2>0. T \subseteq Nat
    BY <1>0
  <2> HIDE DEF T
  <2>1. PICK m \in T : \A k \in T : m <= k
    BY <1>1, <2>0, LeastNumber
  <2> USE DEF T
  <2>2. m # 0
    <3>1. f[0] = <<>>
      BY <1>0, CollectsFirst
    <3>2. f[m] \notin Seq(S) /\ <<>> \in Seq(S)
      BY <2>1
    <3> QED BY <3>1, <3>2
  <2>3. m \in 1 .. n /\ m - 1 \in 0 .. n /\ m - 1 \notin T
    BY <2>1, <2>2
  <2>4. f[m - 1] \in Seq(S)
    BY <2>3
  <2>5. f[m] = IF box[m].type \in LeaseCommand THEN Append(f[m - 1], box[m]) ELSE f[m - 1]
    BY <1>0, <2>3, CollectsStep
  <2>6. f[m] \in Seq(S)
    BY <1>0, <2>3, <2>4, <2>5, AppendProperties
  <2> QED BY <2>1, <2>6
<1> QED BY <1>1

\* Collections of mailboxes that begin alike begin alike.
LEMMA CollectsAlike ==
  ASSUME NEW n \in Nat, NEW k \in Nat, n <= k, NEW f, NEW g, NEW b, NEW c,
         Collects(f, b, n), Collects(g, c, k), \A i \in 1 .. n : b[i] = c[i]
  PROVE  \A i \in 0 .. n : f[i] = g[i]
<1> DEFINE T == {i \in 0 .. n : f[i] # g[i]}
<1>1. ASSUME T # {} PROVE FALSE
  <2>0. T \subseteq Nat
    OBVIOUS
  <2> HIDE DEF T
  <2>1. PICK m \in T : \A j \in T : m <= j
    BY <1>1, <2>0, LeastNumber
  <2> USE DEF T
  <2>2. m # 0
    <3>1. f[0] = <<>> /\ g[0] = <<>>
      BY CollectsFirst
    <3>2. f[m] # g[m]
      BY <2>1
    <3> QED BY <3>1, <3>2
  <2>3. m \in 1 .. n /\ m \in 1 .. k /\ m - 1 \in 0 .. n /\ m - 1 \notin T
    BY <2>1, <2>2
  <2>4. f[m - 1] = g[m - 1]
    BY <2>3
  <2>5. f[m] = IF b[m].type \in LeaseCommand THEN Append(f[m - 1], b[m]) ELSE f[m - 1]
    BY <2>3, CollectsStep
  <2>6. g[m] = IF c[m].type \in LeaseCommand THEN Append(g[m - 1], c[m]) ELSE g[m - 1]
    BY <2>3, CollectsStep
  <2> QED BY <2>1, <2>3, <2>4, <2>5, <2>6
<1> QED BY <1>1

\* A command that is sent goes to the end of the lease mail if it is a lease command.
LEMMA LeaseMailSent ==
  ASSUME NEW S, NEW box \in Seq(S), NEW m \in S
  PROVE  LeaseMail(Append(box, m)) = IF m.type \in LeaseCommand THEN Append(LeaseMail(box), m)
                                     ELSE LeaseMail(box)
<1> DEFINE n == Len(box)
           more == Append(box, m)
<1>1. /\ n \in Nat /\ more \in Seq(S) /\ Len(more) = n + 1
      /\ more[n + 1] = m /\ \A i \in 1 .. n : box[i] = more[i]
  BY AppendProperties
<1> HIDE DEF more
<1>2. PICK f : Collects(f, box, n) /\ LeaseMail(box) = f[n]
  BY LeaseMailCollects
<1>3. PICK g : Collects(g, more, n + 1) /\ LeaseMail(more) = g[n + 1]
  BY <1>1, LeaseMailCollects
<1> HIDE DEF n
<1>4. f[n] = g[n]
  BY <1>1, <1>2, <1>3, CollectsAlike
<1>5. g[n + 1] = IF more[n + 1].type \in LeaseCommand THEN Append(g[n], more[n + 1]) ELSE g[n]
  <2>1. n + 1 \in 1 .. (n + 1) /\ (n + 1) - 1 = n /\ n + 1 \in Nat
    BY <1>1
  <2>2. g[n + 1] = IF more[n + 1].type \in LeaseCommand THEN Append(g[(n + 1) - 1], more[n + 1])
                   ELSE g[(n + 1) - 1]
    BY <1>3, <2>1, CollectsStep
  <2> QED BY <2>1, <2>2
<1> QED BY <1>1, <1>2, <1>3, <1>4, <1>5 DEF more

LEMMA FirstThenAppend ==
  ASSUME NEW S, NEW a \in S, NEW s \in Seq(S), NEW m \in S
  PROVE  Append(<<a>> \o s, m) = <<a>> \o Append(s, m)
OBVIOUS

LEMMA FirstOf ==
  ASSUME NEW S, NEW a \in S, NEW s \in Seq(S)
  PROVE  <<a>> \o s # <<>> /\ Head(<<a>> \o s) = a /\ Tail(<<a>> \o s) = s
OBVIOUS

\* A command that is taken leaves the lease mail's head if it is a lease command.
LEMMA LeaseMailTaken ==
  ASSUME NEW S, NEW box \in Seq(S), box # <<>>
  PROVE  LeaseMail(box) = IF Head(box).type \in LeaseCommand THEN <<Head(box)>> \o LeaseMail(Tail(box))
                          ELSE LeaseMail(Tail(box))
<1> DEFINE n == Len(box)
           less == Tail(box)
<1>1. /\ n \in Nat /\ n > 0 /\ less \in Seq(S) /\ Len(less) = n - 1 /\ n - 1 \in Nat
      /\ Head(box) = box[1] /\ \A i \in 1 .. (n - 1) : less[i] = box[i + 1]
      /\ \A i \in 1 .. n : box[i] \in S
  BY HeadTailProperties
<1> HIDE DEF less
<1>2. PICK f : Collects(f, box, n) /\ LeaseMail(box) = f[n]
  BY LeaseMailCollects
<1>3. PICK g : Collects(g, less, n - 1) /\ LeaseMail(less) = g[n - 1]
  BY <1>1, LeaseMailCollects
<1>4. \A i \in 0 .. (n - 1) : g[i] \in Seq(S)
  BY <1>1, <1>3, CollectsTyped
<1> DEFINE first == IF box[1].type \in LeaseCommand THEN <<box[1]>> ELSE <<>>
           T == {i \in 0 .. (n - 1) : f[i + 1] # first \o g[i]}
<1> HIDE DEF n
<1>5. ASSUME T # {} PROVE FALSE
  <2>0. T \subseteq Nat
    <3>1. 0 .. (n - 1) \subseteq Nat
      BY <1>1
    <3> QED BY <3>1
  <2> HIDE DEF T
  <2>1. PICK m \in T : \A j \in T : m <= j
    BY <1>5, <2>0, LeastNumber
  <2>a. m \in 0 .. (n - 1) /\ f[m + 1] # first \o g[m]
    BY <2>1 DEF T
  <2>b. \A j \in 0 .. (n - 1) : j \notin T => f[j + 1] = first \o g[j]
    BY DEF T
  <2>2. m \in 0 .. (n - 1) /\ m + 1 \in 1 .. n /\ (m + 1) - 1 = m
    BY <1>1, <2>a
  <2>3. f[m + 1] = IF box[m + 1].type \in LeaseCommand THEN Append(f[m], box[m + 1]) ELSE f[m]
    <3>1. f[m + 1] = IF box[m + 1].type \in LeaseCommand THEN Append(f[(m + 1) - 1], box[m + 1])
                     ELSE f[(m + 1) - 1]
      BY <1>1, <1>2, <2>2, CollectsStep
    <3> QED BY <2>2, <3>1
  <2>4. CASE m = 0
    <3>1. f[0] = <<>> /\ g[0] = <<>>
      BY <1>1, <1>2, <1>3, CollectsFirst
    <3>2. f[1] = first
      BY <2>3, <2>4, <3>1
    <3>3. first \o <<>> = first
      OBVIOUS
    <3> QED BY <2>a, <2>4, <3>1, <3>2, <3>3
  <2>5. CASE m # 0
    <3>1. m \in 1 .. (n - 1) /\ m - 1 \in 0 .. (n - 1) /\ m - 1 \notin T /\ (m - 1) + 1 = m
      <4>1. m \in 1 .. (n - 1) /\ m - 1 \in 0 .. (n - 1) /\ (m - 1) + 1 = m /\ ~(m <= m - 1)
        BY <1>1, <2>2, <2>5
      <4> QED BY <2>1, <4>1
    <3>2. f[m] = first \o g[m - 1]
      BY <2>b, <3>1
    <3>3. g[m] = IF less[m].type \in LeaseCommand THEN Append(g[m - 1], less[m]) ELSE g[m - 1]
      BY <1>1, <1>3, <3>1, CollectsStep
    <3>4. less[m] = box[m + 1] /\ less[m] \in S /\ box[1] \in S /\ g[m - 1] \in Seq(S)
      BY <1>1, <1>4, <2>2, <3>1
    <3>5. Append(first \o g[m - 1], less[m]) = first \o Append(g[m - 1], less[m])
      <4>1. CASE box[1].type \in LeaseCommand
        <5>1. first = <<box[1]>>
          BY <4>1
        <5>2. Append(<<box[1]>> \o g[m - 1], less[m]) = <<box[1]>> \o Append(g[m - 1], less[m])
          <6>1. \A a \in S, s \in Seq(S), x \in S : Append(<<a>> \o s, x) = <<a>> \o Append(s, x)
            BY FirstThenAppend
          <6> QED BY <3>4, <6>1, Zenon
        <5> HIDE DEF first
        <5> QED BY <5>1, <5>2, Zenon
      <4>2. CASE box[1].type \notin LeaseCommand
        <5>1. first = <<>>
          BY <4>2
        <5>2. Append(g[m - 1], less[m]) \in Seq(S)
          BY <3>4, AppendProperties
        <5>3. \A s \in Seq(S) : <<>> \o s = s
          OBVIOUS
        <5> QED BY <3>4, <5>1, <5>2, <5>3
      <4> QED BY <4>1, <4>2
    <3> HIDE DEF first
    <3> QED BY <2>a, <2>3, <3>2, <3>3, <3>4, <3>5, Zenon
  <2> QED BY <2>4, <2>5
<1>6. f[n] = first \o g[n - 1]
  <2>1. n - 1 \in 0 .. (n - 1) /\ (n - 1) + 1 = n
    BY <1>1
  <2> QED BY <1>5, <2>1
<1>7. g[n - 1] \in Seq(S)
  BY <1>1, <1>4
<1>8. <<>> \o g[n - 1] = g[n - 1]
  BY <1>7
<1> QED BY <1>1, <1>2, <1>3, <1>6, <1>8 DEF less

LEMMA LeaseMailEmpty == LeaseMail(<<>>) = <<>>
<1>1. <<>> \in Seq({}) /\ Len(<<>>) = 0
  OBVIOUS
<1>2. PICK f : Collects(f, <<>>, 0) /\ LeaseMail(<<>>) = f[0]
  BY <1>1, LeaseMailCollects
<1> QED BY <1>2, CollectsFirst

LEMMA LeaseMailTyped ==
  ASSUME NEW S, NEW box \in Seq(S)
  PROVE  LeaseMail(box) \in Seq(S)
<1>1. PICK f : Collects(f, box, Len(box)) /\ LeaseMail(box) = f[Len(box)]
  BY LeaseMailCollects
<1>2. Len(box) \in 0 .. Len(box)
  OBVIOUS
<1> QED BY <1>1, <1>2, CollectsTyped

-----------------------------------------------------------------------------
(* The supervisor uses the leases as their specification says. *)

LEMMA OnlyLeaseCommands ==
  /\ \A m \in LeaseCommands : m.type \in LeaseCommand
  /\ \A m \in Completions \cup Events : m.type \notin LeaseCommand
BY CommandKinds DEF LeaseCommand

\* What is sent to the loop and taken by it, as the leases see it.
LEMMA OthersMailIsNone ==
  ASSUME SupTypes
  PROVE  /\ \A m \in Completions \cup Events :
              mailbox' = Append(mailbox, m) => LeaseMail(mailbox)' = LeaseMail(mailbox)
         /\ \A m \in LeaseCommands :
              mailbox' = Append(mailbox, m) => LeaseMail(mailbox)' = Append(LeaseMail(mailbox), m)
         /\ mailbox # <<>> /\ mailbox' = Tail(mailbox) =>
              LeaseMail(mailbox) = IF Head(mailbox).type \in LeaseCommand
                                   THEN <<Head(mailbox)>> \o LeaseMail(mailbox)'
                                   ELSE LeaseMail(mailbox)'
<1> DEFINE Commands == Completions \cup LeaseCommands \cup Events
<1>1. mailbox \in Seq(Commands)
  BY DEF SupTypes
<1> HIDE DEF Commands
<1>2. \A m \in Commands : LeaseMail(Append(mailbox, m)) =
        IF m.type \in LeaseCommand THEN Append(LeaseMail(mailbox), m) ELSE LeaseMail(mailbox)
  BY <1>1, LeaseMailSent
<1>3. mailbox # <<>> =>
        LeaseMail(mailbox) = IF Head(mailbox).type \in LeaseCommand
                             THEN <<Head(mailbox)>> \o LeaseMail(Tail(mailbox))
                             ELSE LeaseMail(Tail(mailbox))
  BY <1>1, LeaseMailTaken
<1>4. \A m : mailbox' = Append(mailbox, m) => LeaseMail(mailbox)' = LeaseMail(Append(mailbox, m))
  OBVIOUS
<1>5. mailbox' = Tail(mailbox) => LeaseMail(mailbox)' = LeaseMail(Tail(mailbox))
  OBVIOUS
<1>6. /\ \A m \in Completions \cup Events : m \in Commands
      /\ \A m \in LeaseCommands : m \in Commands
  BY DEF Commands
<1> QED BY <1>2, <1>3, <1>4, <1>5, <1>6, OnlyLeaseCommands

LEMMA SameLeases ==
  ASSUME UNCHANGED callVars, watched' = watched, LeaseMail(mailbox)' = LeaseMail(mailbox)
  PROVE  UNCHANGED LeaseView!leaseVars
BY DEF callVars, LeaseView!leaseVars

LEMMA BeginCarries ==
  ASSUME NEW s \in Sessions, NEW r \in Repos, Leases!Begin(s, r), UNCHANGED schedVars
  PROVE  LeaseView!Begin(s, r)
<1>1. watched' = watched
  BY DEF schedVars
<1>2. mailbox' = mailbox => LeaseMail(mailbox)' = LeaseMail(mailbox)
  OBVIOUS
<1>3. CASE Leases!Acquire(s, r)
  BY <1>1, <1>2, <1>3 DEF Leases!Acquire, Leases!CountUp, Leases!At, Leases!NoCall,
     LeaseView!Begin, LeaseView!Acquire, LeaseView!CountUp, LeaseView!At, LeaseView!NoCall
<1>4. CASE Leases!Detach(s, r)
  BY <1>1, <1>2, <1>4 DEF Leases!Detach, Leases!At, Leases!NoCall,
     LeaseView!Begin, LeaseView!Detach, LeaseView!At, LeaseView!NoCall
<1> QED BY <1>3, <1>4 DEF Leases!Begin

LEMMA ProceedCarries ==
  ASSUME SupTypes, NEW s \in Sessions, NEW r \in Repos, Leases!Proceed(s, r), UNCHANGED schedVars
  PROVE  LeaseView!Proceed(s, r)
<1> USE DEF Leases!Doing, Leases!At, Leases!NoCall, LeaseView!Doing, LeaseView!At, LeaseView!NoCall
<1>1. watched' = watched
  BY DEF schedVars
<1>2. mailbox' = mailbox => LeaseMail(mailbox)' = LeaseMail(mailbox)
  OBVIOUS
<1>3. /\ Leases!Acquired(r) \in LeaseCommands /\ Leases!Released(r) \in LeaseCommands
      /\ Leases!Acquired(r) = LeaseView!Acquired(r) /\ Leases!Released(r) = LeaseView!Released(r)
  BY DEF LeaseCommands, Leases!Acquired, Leases!Released, LeaseView!Acquired, LeaseView!Released
<1>4. \A m \in LeaseCommands :
        mailbox' = Append(mailbox, m) => LeaseMail(mailbox)' = Append(LeaseMail(mailbox), m)
  BY OthersMailIsNone
<1>5. CASE Leases!Insert(s, r)
  BY <1>1, <1>2, <1>5 DEF Leases!Insert, LeaseView!Insert, LeaseView!Proceed
<1>6. CASE Leases!AnnounceAcquired(s, r)
  BY <1>1, <1>3, <1>4, <1>6 DEF Leases!AnnounceAcquired, LeaseView!AnnounceAcquired, LeaseView!Proceed
<1>7. CASE Leases!CountDown(s, r)
  BY <1>1, <1>2, <1>7 DEF Leases!CountDown, LeaseView!CountDown, LeaseView!Proceed
<1>8. CASE Leases!Unwatch(s, r)
  BY <1>1, <1>2, <1>8 DEF Leases!Unwatch, LeaseView!Unwatch, LeaseView!Proceed
<1>9. CASE Leases!AnnounceReleased(s, r)
  BY <1>1, <1>3, <1>4, <1>9 DEF Leases!AnnounceReleased, LeaseView!AnnounceReleased, LeaseView!Proceed
<1> QED BY <1>5, <1>6, <1>7, <1>8, <1>9 DEF Leases!Proceed

\* A lease command the loop handles is one the leases consume.
LEMMA HandlingCarries ==
  ASSUME SupTypes, HandleLeaseAcquired \/ HandleLeaseReleased
  PROVE  LeaseView!Consume
<1> DEFINE m == Head(mailbox)
           r == m.repo
<1>1. /\ mailbox # <<>> /\ mailbox' = Tail(mailbox) /\ UNCHANGED callVars
      /\ m.type = IF HandleLeaseAcquired THEN "LeaseAcquired" ELSE "LeaseReleased"
      /\ watched' = IF HandleLeaseAcquired THEN watched \cup {r} ELSE watched \ {r}
  <2>1. CASE HandleLeaseAcquired
    BY <2>1 DEF HandleLeaseAcquired, Received, Taken, AddRepository
  <2>2. CASE ~HandleLeaseAcquired
    BY <2>2 DEF HandleLeaseReleased, Received, Taken, RemoveRepository
  <2> QED BY <2>1, <2>2
<1>2. m \in LeaseCommands
  <2>1. m \in Completions \cup LeaseCommands \cup Events
    BY <1>1, HeadTailProperties DEF SupTypes
  <2>2. m.type \in LeaseCommand
    BY <1>1 DEF LeaseCommand
  <2> QED BY <2>1, <2>2, OnlyLeaseCommands
<1>3. LeaseMail(mailbox) = <<m>> \o LeaseMail(mailbox)'
  BY <1>1, OthersMailIsNone DEF LeaseCommand
<1>4. LeaseMail(mailbox)' \in Seq(Completions \cup LeaseCommands \cup Events)
  BY <1>1, HeadKinds, LeaseMailTyped
<1>5. /\ LeaseMail(mailbox) # <<>> /\ Head(LeaseMail(mailbox)) = m
      /\ Tail(LeaseMail(mailbox)) = LeaseMail(mailbox)'
  <2> DEFINE S == Completions \cup LeaseCommands \cup Events
  <2>1. m \in S
    BY <1>2
  <2> HIDE DEF S, m
  <2> QED BY <1>3, <1>4, <2>1, FirstOf DEF S
<1>6. m = LeaseView!Acquired(r) <=> HandleLeaseAcquired
  BY <1>1, <1>2 DEF LeaseCommands, Leases!Acquired, Leases!Released, LeaseView!Acquired
<1>7. watched' = IF m = LeaseView!Acquired(r) THEN watched \cup {r} ELSE watched \ {r}
  BY <1>1, <1>6
<1> QED BY <1>1, <1>5, <1>7 DEF LeaseView!Consume, callVars

LEMMA StepCarries == SupInv /\ [SupNext]_supVars => [LeaseView!LeaseNext]_LeaseView!leaseVars
<1> SUFFICES ASSUME SupInv, [SupNext]_supVars
             PROVE  LeaseView!LeaseNext \/ UNCHANGED LeaseView!leaseVars
  OBVIOUS
<1>0. SupTypes
  BY DEF SupInv
<1>m. mailbox' = mailbox => LeaseMail(mailbox)' = LeaseMail(mailbox)
  OBVIOUS
<1>1. CASE FileEvent
  <2>1. PICK m \in Events : mailbox' = Append(mailbox, m)
    BY <1>0, <1>1 DEF FileEvent, Events, SupTypes
  <2>2. LeaseMail(mailbox)' = LeaseMail(mailbox)
    BY <1>0, <2>1, OthersMailIsNone
  <2> QED BY <1>1, <2>2, SameLeases DEF FileEvent, schedVars
<1>2. CASE BeginCall
  BY <1>2, BeginCarries DEF BeginCall, LeaseView!LeaseNext
<1>3. ASSUME NEW s \in Sessions, ProceedCall(s)
      PROVE  LeaseView!LeaseNext \/ UNCHANGED LeaseView!leaseVars
  BY <1>0, <1>3, ProceedCarries DEF ProceedCall, LeaseView!LeaseNext
<1>4. CASE HandleEvent \/ HandleNotifyDropped \/ HandleIndexCompleted
  <2>1. /\ mailbox # <<>> /\ mailbox' = Tail(mailbox) /\ UNCHANGED callVars
        /\ Head(mailbox).type \in {"Event", "NotifyDropped", "IndexCompleted"}
    BY <1>4 DEF HandleEvent, HandleNotifyDropped, HandleIndexCompleted, Received, Taken
  <2>2. LeaseMail(mailbox)' = LeaseMail(mailbox)
    BY <1>0, <2>1, OthersMailIsNone DEF LeaseCommand
  <2>3. watched' = watched
    <3>1. CASE HandleEvent
      BY <3>1 DEF HandleEvent, RecordPathChange, schedVars
    <3>2. CASE HandleNotifyDropped
      BY <3>2 DEF HandleNotifyDropped, schedVars
    <3>3. CASE HandleIndexCompleted
      BY <3>3 DEF HandleIndexCompleted, Applied, ManifestSucceeded, SemanticSucceeded, MarkFailed,
         MarkBlocked, Released, schedVars
    <3> QED BY <1>4, <3>1, <3>2, <3>3
  <2> QED BY <2>1, <2>2, <2>3, SameLeases
<1>5. CASE SweepNext
  BY <1>5, <1>m, SameLeases DEF SweepNext, RecordPathChange, schedVars, leaseVars, callVars
<1>6. CASE HandleLeaseAcquired \/ HandleLeaseReleased
  BY <1>0, <1>6, HandlingCarries DEF LeaseView!LeaseNext
<1>7. CASE Ticker
  <2>1. watched' = watched
    BY <1>7 DEF Ticker, Tick, schedVars, repoVars
  <2> QED BY <1>7, <1>m, <2>1, SameLeases DEF Ticker, leaseVars, callVars
<1>8. CASE Dispatch
  <2>1. watched' = watched
    BY <1>8 DEF Dispatch, DispatchOf, StartWorker, MarkStarted, MarkFailed, schedVars
  <2> QED BY <1>8, <1>m, <2>1, SameLeases DEF Dispatch, leaseVars, callVars
<1>9. ASSUME NEW w \in workers, Work(w)
      PROVE  LeaseView!LeaseNext \/ UNCHANGED LeaseView!leaseVars
  <2>1. CASE SendCompletion(w)
    <3>1. w.at \in Result /\ w \in Worker
      BY <1>0, <2>1 DEF SendCompletion, SupTypes
    <3>2. IndexCompleted(w) \in Completions
      BY <3>1, CompletionTyped
    <3>3. LeaseMail(mailbox)' = LeaseMail(mailbox)
      BY <1>0, <2>1, <3>2, OthersMailIsNone DEF SendCompletion
    <3> QED BY <2>1, <3>3, SameLeases DEF SendCompletion, schedVars
  <2>2. CASE ~SendCompletion(w)
    <3>1. UNCHANGED schedVars /\ UNCHANGED leaseVars
      BY <1>9, <2>2 DEF Work, Plan, CheckBeforeCommit, Commit, FinishTask, WorkerStep
    <3> QED BY <1>m, <3>1, SameLeases DEF schedVars, leaseVars, callVars
  <2> QED BY <2>1, <2>2
<1>10. ASSUME NEW r \in Repos, AttachIndexStarts(r) \/ AttachIndexEnds(r)
       PROVE  LeaseView!LeaseNext \/ UNCHANGED LeaseView!leaseVars
  BY <1>10, <1>m, SameLeases DEF AttachIndexStarts, AttachIndexEnds, schedVars, leaseVars, callVars
<1>11. CASE UNCHANGED supVars
  BY <1>11, <1>m, SameLeases DEF supVars, schedVars, leaseVars, callVars
<1> QED BY <1>1, <1>2, <1>3, <1>4, <1>5, <1>6, <1>7, <1>8, <1>9, <1>10, <1>11 DEF SupNext, Handle

\* The supervisor implements the leases: whatever file events, completions and ticks come between
\* the lease commands, the calls and the handling of the commands are those of WatchLeases.
THEOREM CarriesTheLeases == SupSpec => CarriesLeases
<1>1. SupSpec => []SupInv
  BY SupInvInit, SupInvStep, PTL DEF SupSpec
<1>2. SupInit => LeaseView!LeaseInit
  BY LeaseMailEmpty DEF SupInit, Init, Leases!LeaseInit, LeaseView!LeaseInit, Leases!NoCall, LeaseView!NoCall
<1> QED BY <1>1, <1>2, StepCarries, PTL DEF SupSpec, CarriesLeases, LeaseView!LeaseSpec


-----------------------------------------------------------------------------
(* What is proved of the leases holds under the supervisor. *)

LeaseFacts == INSTANCE WatchLeasesProofs WITH
  mailbox <- LeaseMail(mailbox),
  scheduled <- watched

LEMMA SameSpecification == LeaseView!LeaseSpec => LeaseFacts!LeaseSpec
<1> USE DEF LeaseView!LeaseNext, LeaseView!Consume, LeaseView!Begin, LeaseView!Proceed,
            LeaseView!Acquire, LeaseView!CountUp, LeaseView!Detach, LeaseView!Insert,
            LeaseView!AnnounceAcquired, LeaseView!CountDown, LeaseView!Unwatch,
            LeaseView!AnnounceReleased, LeaseView!Doing, LeaseView!At, LeaseView!NoCall,
            LeaseView!Acquired, LeaseView!Released, LeaseView!leaseVars,
            LeaseFacts!LeaseNext, LeaseFacts!Consume, LeaseFacts!Begin, LeaseFacts!Proceed,
            LeaseFacts!Acquire, LeaseFacts!CountUp, LeaseFacts!Detach, LeaseFacts!Insert,
            LeaseFacts!AnnounceAcquired, LeaseFacts!CountDown, LeaseFacts!Unwatch,
            LeaseFacts!AnnounceReleased, LeaseFacts!Doing, LeaseFacts!At, LeaseFacts!NoCall,
            LeaseFacts!Acquired, LeaseFacts!Released, LeaseFacts!leaseVars
<1>1. LeaseView!LeaseInit => LeaseFacts!LeaseInit
  BY DEF LeaseView!LeaseInit, LeaseFacts!LeaseInit
<1>2. LeaseView!LeaseNext => LeaseFacts!LeaseNext
  OBVIOUS
<1>3. [LeaseView!LeaseNext]_LeaseView!leaseVars => [LeaseFacts!LeaseNext]_LeaseFacts!leaseVars
  BY <1>2
<1> QED BY <1>1, <1>3, PTL DEF LeaseView!LeaseSpec, LeaseFacts!LeaseSpec

LEMMA LeaseTypesCarried == SupSpec => []LeaseFacts!LeaseTypeOK
<1>1. LeaseFacts!LeaseSpec => []LeaseFacts!LeaseTypeOK
  BY SupervisorAssumption, LeaseFacts!LeaseTypesHold
<1> QED BY <1>1, CarriesTheLeases, SameSpecification, PTL DEF CarriesLeases

\* So what is proved of the leases holds under the supervisor, where events and completions wait
\* between the lease commands: the counts are exact, and what nobody holds is let go but for a root
\* the watcher failed to give up.
THEOREM LeaseFactsHold ==
  WatchFails = FALSE /\ SupSpec => [](LeaseView!CountMatchesHolders /\ LeaseView!NothingLeaks)
<1>1. WatchFails = FALSE /\ LeaseFacts!LeaseSpec => []LeaseFacts!CountMatchesHolders
  BY SupervisorAssumption, LeaseFacts!CountIsExact DEF LeaseFacts!WatchesEverything
<1>2. WatchFails = FALSE /\ LeaseFacts!LeaseSpec => []LeaseFacts!NothingLeaks
  BY SupervisorAssumption, LeaseFacts!LeavesNothing DEF LeaseFacts!WatchesEverything
<1> USE DEF LeaseView!Doing, LeaseView!At, LeaseFacts!Doing, LeaseFacts!At
<1>3. LeaseFacts!CountMatchesHolders => LeaseView!CountMatchesHolders
  <2>1. \A r : LeaseFacts!Holders(r) = LeaseView!Holders(r)
    BY DEF LeaseFacts!Holders, LeaseView!Holders
  <2>2. \A S : LeaseFacts!Cardinality(S) = LeaseView!Cardinality(S)
    BY DEF LeaseFacts!Cardinality, LeaseView!Cardinality
  <2> QED BY <2>1, <2>2 DEF LeaseFacts!CountMatchesHolders, LeaseView!CountMatchesHolders
<1>4. LeaseFacts!NothingLeaks => LeaseView!NothingLeaks
  BY DEF LeaseFacts!NothingLeaks, LeaseView!NothingLeaks, LeaseFacts!Settled, LeaseView!Settled,
         LeaseFacts!Step, LeaseView!Step, LeaseFacts!Watching, LeaseView!Watching
<1> QED BY <1>1, <1>2, <1>3, <1>4, CarriesTheLeases, SameSpecification, PTL DEF CarriesLeases

\* And a lease is worth what it says: unless the first holder of a root crosses the release of the
\* last one, what a session holds is watched, mapped and scheduled once its calls have gone through.
THEOREM AttachedStaysServed == SupSpec /\ []LeaseFacts!NothingCrosses => []AttachedIsServed
<1>1. LeaseFacts!LeaseSpec /\ []LeaseFacts!NothingCrosses => []LeaseFacts!LeasedIsServed
  BY SupervisorAssumption, LeaseFacts!ServedUnlessCrossed
<1>2. LeaseFacts!LeasedIsServed => AttachedIsServed
  BY DEF AttachedIsServed, LeaseFacts!LeasedIsServed, LeaseView!LeasedIsServed,
         LeaseFacts!Settled, LeaseView!Settled, LeaseFacts!Doing, LeaseView!Doing,
         LeaseFacts!At, LeaseView!At, LeaseFacts!Step, LeaseView!Step
<1> QED BY <1>1, <1>2, CarriesTheLeases, SameSpecification, PTL DEF CarriesLeases

\* One session, which makes its calls one after the other, crosses nobody: what it has attached is
\* served, however many of its releases and re-attaches wait in the mailbox together.
THEOREM AttachedAloneIsServed ==
  (\A s, t \in Sessions : s = t) /\ SupSpec => []AttachedIsServed
<1> SUFFICES ASSUME \A s, t \in Sessions : s = t PROVE SupSpec => []AttachedIsServed
  OBVIOUS
<1>1. LeaseFacts!NothingCrosses
  BY SupervisorAssumption, LeaseFacts!OneDoesNotCross
<1> QED BY <1>1, AttachedStaysServed, PTL

-----------------------------------------------------------------------------
(* A running refresh and the work that will end it. *)

\* A piece of work of the current epoch: a worker, or a completion that waits.
HasWork(r) ==
  \/ \E w \in workers : w.repo = r /\ w.epoch = epoch[r]
  \/ \E i : CompletionAt(i, r) /\ mailbox[i].epoch = epoch[r]

WorksOrLeaves(r) == active[r] # Idle => (r \in registered /\ HasWork(r)) \/ ReleaseIsComing(r)

WorkInv == SupInv /\ LeaseFacts!LeaseTypeOK /\ \A r \in Repos : WorksOrLeaves(r)

\* Every piece of work of the current epoch is still there.
MailStays(r) ==
  \A i : CompletionAt(i, r) /\ mailbox[i].epoch = epoch[r] =>
    \E j : CompletionAt(j, r)' /\ mailbox'[j] = mailbox[i]

WorkersStay(r) ==
  \A w \in workers : w.repo = r =>
    (\E v \in workers' : v.repo = r /\ v.epoch = w.epoch)
      \/ (\E j : CompletionAt(j, r)' /\ mailbox'[j].epoch = w.epoch)

LEMMA MailUnchangedStays ==
  ASSUME SupTypes, mailbox' = mailbox, NEW r
  PROVE  MailStays(r)
BY DEF MailStays, CompletionAt

LEMMA SendingStays ==
  ASSUME SupTypes, NEW m, mailbox' = Append(mailbox, m), NEW r
  PROVE  /\ MailStays(r)
         /\ m.type = "IndexCompleted" /\ m.repo = r => \E j : CompletionAt(j, r)' /\ mailbox'[j] = m
         /\ Leases!Released(r) \in Mail \/ m = Leases!Released(r) => Leases!Released(r) \in Mail'
<1> DEFINE n == Len(mailbox)
<1>1. /\ DOMAIN mailbox = 1 .. n /\ DOMAIN mailbox' = 1 .. (n + 1) /\ n \in Nat
      /\ mailbox'[n + 1] = m /\ n + 1 \in 1 .. (n + 1)
      /\ \A i \in 1 .. n : mailbox'[i] = mailbox[i] /\ i \in 1 .. (n + 1)
  BY DEF SupTypes
<1> HIDE DEF n
<1>2. MailStays(r)
  BY <1>1 DEF MailStays, CompletionAt
<1>3. m.type = "IndexCompleted" /\ m.repo = r => \E j : CompletionAt(j, r)' /\ mailbox'[j] = m
  BY <1>1 DEF CompletionAt
<1>4. Leases!Released(r) \in Mail \/ m = Leases!Released(r) => Leases!Released(r) \in Mail'
  BY <1>1 DEF Mail
<1> QED BY <1>2, <1>3, <1>4

LEMMA ReceivingStays ==
  ASSUME SupTypes, mailbox # <<>>, mailbox' = Tail(mailbox), NEW r
  PROVE  /\ \A i : CompletionAt(i, r) /\ i # 1 => \E j : CompletionAt(j, r)' /\ mailbox'[j] = mailbox[i]
         /\ Leases!Released(r) \in Mail /\ Head(mailbox) # Leases!Released(r)
              => Leases!Released(r) \in Mail'
<1> DEFINE n == Len(mailbox)
<1>1. /\ DOMAIN mailbox = 1 .. n /\ DOMAIN mailbox' = 1 .. (n - 1) /\ n \in Nat
      /\ \A i \in 1 .. (n - 1) : mailbox'[i] = mailbox[i + 1]
      /\ Head(mailbox) = mailbox[1]
  BY DEF SupTypes
<1> HIDE DEF n
<1>2. ASSUME NEW i \in 1 .. n, i # 1
      PROVE  i - 1 \in 1 .. (n - 1) /\ mailbox'[i - 1] = mailbox[i]
  <2>1. i - 1 \in 1 .. (n - 1) /\ (i - 1) + 1 = i
    BY <1>1, <1>2
  <2> QED BY <1>1, <2>1
<1>3. ASSUME NEW i, CompletionAt(i, r), i # 1
      PROVE  \E j : CompletionAt(j, r)' /\ mailbox'[j] = mailbox[i]
  <2>1. i \in 1 .. n
    BY <1>1, <1>3 DEF CompletionAt
  <2>2. i - 1 \in 1 .. (n - 1) /\ mailbox'[i - 1] = mailbox[i]
    BY <1>2, <1>3, <2>1
  <2>3. CompletionAt(i - 1, r)'
    BY <1>1, <1>3, <2>2 DEF CompletionAt
  <2> QED BY <2>2, <2>3
<1>4. ASSUME Leases!Released(r) \in Mail, Head(mailbox) # Leases!Released(r)
      PROVE  Leases!Released(r) \in Mail'
  <2>1. PICK i \in 1 .. n : mailbox[i] = Leases!Released(r)
    BY <1>1, <1>4 DEF Mail
  <2>2. i # 1
    BY <1>1, <1>4, <2>1
  <2> QED BY <1>1, <1>2, <2>1, <2>2 DEF Mail
<1> QED BY <1>3, <1>4

\* Nothing of r's work has been at the head of the mailbox.
LEMMA OtherReceivingStays ==
  ASSUME SupTypes, mailbox # <<>>, mailbox' = Tail(mailbox), NEW r,
         ~(CompletionAt(1, r) /\ mailbox[1].epoch = epoch[r])
  PROVE  MailStays(r)
BY ReceivingStays DEF MailStays

LEMMA WorkersUnchangedStay ==
  ASSUME NEW r, \A w \in workers : w.repo = r => w \in workers'
  PROVE  WorkersStay(r)
BY DEF WorkersStay

\* The frame of every step that neither handles a completion of r nor releases it.
LEMMA FrameKeepsWork ==
  ASSUME NEW r, WorksOrLeaves(r), active'[r] = active[r], epoch'[r] = epoch[r],
         r \in registered => r \in registered' \/ ReleaseIsComing(r)',
         MailStays(r), WorkersStay(r), ReleaseIsComing(r) => ReleaseIsComing(r)'
  PROVE  WorksOrLeaves(r)'
<1>1. HasWork(r) => HasWork(r)'
  <2>1. ASSUME NEW w \in workers, w.repo = r, w.epoch = epoch[r] PROVE HasWork(r)'
    BY <2>1 DEF WorkersStay, HasWork
  <2>2. ASSUME NEW i, CompletionAt(i, r), mailbox[i].epoch = epoch[r] PROVE HasWork(r)'
    BY <2>2 DEF MailStays, HasWork
  <2> QED BY <2>1, <2>2 DEF HasWork
<1> QED BY <1>1 DEF WorksOrLeaves

\* The release of r is on its way until the loop handles it.
LEMMA MailKeepsRelease ==
  ASSUME call' = call, NEW r, Leases!Released(r) \in Mail => Leases!Released(r) \in Mail'
  PROVE  ReleaseIsComing(r) => ReleaseIsComing(r)'
BY DEF ReleaseIsComing, Leases!Doing

LEMMA FileEventKeepsWork ==
  ASSUME WorkInv, FileEvent, NEW q \in Repos
  PROVE  WorksOrLeaves(q)'
<1>1. /\ SupTypes /\ workers' = workers /\ epoch' = epoch /\ active' = active
      /\ registered' = registered /\ call' = call
  BY DEF WorkInv, SupInv, FileEvent, callVars, schedVars, workVars
<1>2. PICK m \in Events : mailbox' = Append(mailbox, m)
  BY <1>1 DEF FileEvent, Events, SupTypes
<1>3. MailStays(q) /\ (ReleaseIsComing(q) => ReleaseIsComing(q)')
  BY <1>1, <1>2, SendingStays, MailKeepsRelease
<1> QED BY <1>1, <1>3, WorkersUnchangedStay, FrameKeepsWork DEF WorkInv

LEMMA CallsKeepWork ==
  ASSUME WorkInv, BeginCall \/ (\E s \in Sessions : ProceedCall(s)), NEW q \in Repos
  PROVE  WorksOrLeaves(q)'
<1>1. /\ SupTypes /\ workers' = workers /\ epoch' = epoch /\ active' = active
      /\ \A s \in Sessions : s \in DOMAIN call
  BY DEF WorkInv, SupInv, LeaseFacts!LeaseTypeOK, BeginCall, ProceedCall, schedVars, workVars
<1> USE DEF Leases!At, Leases!NoCall, Leases!Doing
<1>2. ASSUME NEW t \in Sessions, NEW r \in Repos, Leases!Begin(t, r)
      PROVE  WorksOrLeaves(q)'
  <2>1. /\ mailbox' = mailbox /\ registered' = registered /\ call[t] = Leases!NoCall
        /\ \A s \in Sessions : s # t => call'[s] = call[s]
    BY <1>1, <1>2 DEF Leases!Begin, Leases!Acquire, Leases!CountUp, Leases!Detach
  <2>2. ReleaseIsComing(q) => ReleaseIsComing(q)'
    BY <2>1 DEF ReleaseIsComing, Mail
  <2> QED BY <1>1, <2>1, <2>2, MailUnchangedStays, WorkersUnchangedStay, FrameKeepsWork DEF WorkInv
<1>3. ASSUME NEW t \in Sessions, NEW r \in Repos,
             Leases!Insert(t, r) \/ Leases!CountDown(t, r) \/ Leases!AnnounceAcquired(t, r)
      PROVE  WorksOrLeaves(q)'
  <2>1. /\ \A s \in Sessions : s # t => call'[s] = call[s]
        /\ call[t].step # "announceReleased"
        /\ q \in registered => q \in registered'
        /\ mailbox' = mailbox \/ mailbox' = Append(mailbox, Leases!Acquired(r))
    BY <1>1, <1>3 DEF Leases!Insert, Leases!CountDown, Leases!AnnounceAcquired
  <2>2. MailStays(q) /\ (Leases!Released(q) \in Mail => Leases!Released(q) \in Mail')
    <3>1. CASE mailbox' = mailbox
      BY <1>1, <3>1, MailUnchangedStays DEF Mail
    <3>2. CASE mailbox' = Append(mailbox, Leases!Acquired(r))
      BY <1>1, <3>2, SendingStays
    <3> QED BY <2>1, <3>1, <3>2
  <2>3. ReleaseIsComing(q) => ReleaseIsComing(q)'
    BY <2>1, <2>2 DEF ReleaseIsComing
  <2> QED BY <1>1, <2>1, <2>2, <2>3, WorkersUnchangedStay, FrameKeepsWork DEF WorkInv
<1>4. ASSUME NEW t \in Sessions, NEW r \in Repos, Leases!Unwatch(t, r)
      PROVE  WorksOrLeaves(q)'
  <2>1. /\ \A s \in Sessions : s # t => call'[s] = call[s]
        /\ call[t].step # "announceReleased" /\ Leases!Doing(t, "announceReleased", r)'
        /\ registered' = registered \ {r} /\ mailbox' = mailbox
    BY <1>1, <1>4 DEF Leases!Unwatch
  <2>2. ReleaseIsComing(q) => ReleaseIsComing(q)'
    BY <2>1 DEF ReleaseIsComing, Mail
  <2>3. q = r => ReleaseIsComing(q)'
    BY <2>1 DEF ReleaseIsComing
  <2> QED BY <1>1, <2>1, <2>2, <2>3, MailUnchangedStays, WorkersUnchangedStay, FrameKeepsWork
          DEF WorkInv
<1>5. ASSUME NEW t \in Sessions, NEW r \in Repos, Leases!AnnounceReleased(t, r)
      PROVE  WorksOrLeaves(q)'
  <2>1. /\ \A s \in Sessions : s # t => call'[s] = call[s]
        /\ Leases!Doing(t, "announceReleased", r)
        /\ registered' = registered /\ mailbox' = Append(mailbox, Leases!Released(r))
    BY <1>1, <1>5 DEF Leases!AnnounceReleased
  <2>2. MailStays(q) /\ (Leases!Released(q) \in Mail \/ q = r => Leases!Released(q) \in Mail')
    BY <1>1, <2>1, SendingStays
  <2>3. ReleaseIsComing(q) => ReleaseIsComing(q)'
    <3>1. Leases!Doing(t, "announceReleased", q) => q = r
      BY <2>1
    <3> QED BY <2>1, <2>2, <3>1 DEF ReleaseIsComing
  <2> QED BY <1>1, <2>1, <2>2, <2>3, WorkersUnchangedStay, FrameKeepsWork DEF WorkInv
<1> QED BY <1>2, <1>3, <1>4, <1>5 DEF BeginCall, ProceedCall, Leases!Proceed

LEMMA QuietStepsKeepWork ==
  ASSUME WorkInv, NEW q \in Repos,
         \/ HandleEvent \/ HandleNotifyDropped \/ SweepNext \/ Ticker
         \/ \E r \in Repos : AttachIndexStarts(r) \/ AttachIndexEnds(r)
         \/ UNCHANGED supVars
  PROVE  WorksOrLeaves(q)'
<1>1. SupTypes
  BY DEF WorkInv, SupInv
<1>2. workers' = workers /\ epoch' = epoch /\ registered' = registered /\ call' = call
  BY DEF HandleEvent, HandleNotifyDropped, SweepNext, Ticker, AttachIndexStarts, AttachIndexEnds,
         supVars, Taken, leaseVars, callVars, workVars
<1>3. active' = active
  <2>1. CASE HandleEvent
    BY <2>1 DEF HandleEvent, RecordPathChange, schedVars
  <2>2. CASE SweepNext
    BY <2>2 DEF SweepNext, RecordPathChange, schedVars
  <2>3. CASE HandleNotifyDropped
    BY <2>3 DEF HandleNotifyDropped, schedVars
  <2>4. CASE Ticker
    BY <2>4 DEF Ticker, Tick, schedVars, repoVars
  <2>5. CASE \E r \in Repos : AttachIndexStarts(r) \/ AttachIndexEnds(r)
    BY <2>5 DEF AttachIndexStarts, AttachIndexEnds, schedVars
  <2>6. CASE UNCHANGED supVars
    BY <2>6 DEF supVars, schedVars
  <2> QED BY <2>1, <2>2, <2>3, <2>4, <2>5, <2>6
<1>4. MailStays(q) /\ (Leases!Released(q) \in Mail => Leases!Released(q) \in Mail')
  <2>1. CASE HandleEvent \/ HandleNotifyDropped
    <3>1. /\ mailbox # <<>> /\ mailbox' = Tail(mailbox)
          /\ Head(mailbox).type \in {"Event", "NotifyDropped"} /\ Head(mailbox) = mailbox[1]
      BY <1>1, <2>1 DEF HandleEvent, HandleNotifyDropped, Received, Taken, SupTypes
    <3>2. Head(mailbox) # Leases!Released(q) /\ ~CompletionAt(1, q)
      BY <3>1 DEF Leases!Released, CompletionAt
    <3> QED BY <1>1, <3>1, <3>2, ReceivingStays, OtherReceivingStays
  <2>2. CASE ~(HandleEvent \/ HandleNotifyDropped)
    <3>1. mailbox' = mailbox
      BY <2>2 DEF SweepNext, Ticker, AttachIndexStarts, AttachIndexEnds, supVars, leaseVars
    <3> QED BY <1>1, <3>1, MailUnchangedStays DEF Mail
  <2> QED BY <2>1, <2>2
<1> QED BY <1>2, <1>3, <1>4, MailKeepsRelease, WorkersUnchangedStay, FrameKeepsWork DEF WorkInv

LEMMA ReleaseKeepsWork ==
  ASSUME WorkInv, HandleLeaseReleased, NEW q \in Repos
  PROVE  WorksOrLeaves(q)'
<1> DEFINE r == Head(mailbox).repo
<1>1. /\ SupTypes /\ r \in Repos /\ mailbox # <<>> /\ mailbox' = Tail(mailbox)
      /\ Head(mailbox).type = "LeaseReleased" /\ Head(mailbox) = mailbox[1]
      /\ workers' = workers /\ epoch' = Bumped(r) /\ RemoveRepository(r)
      /\ registered' = registered /\ call' = call
  BY HeadKinds DEF WorkInv, SupInv, SupTypes, HandleLeaseReleased, Received, Taken, callVars, workVars
<1>2. /\ epoch \in [Repos -> Nat \cup {NoEpoch}] /\ active \in [Repos -> Class \cup {Idle}]
  BY <1>1 DEF SupTypes, TypeOK
<1>3. CASE q = r
  <2>1. active'[q] = Idle
    BY <1>1, <1>2, <1>3 DEF RemoveRepository
  <2> QED BY <2>1 DEF WorksOrLeaves
<1>4. CASE q # r
  <2>1. Head(mailbox) # Leases!Released(q) /\ ~CompletionAt(1, q)
    BY <1>1, <1>4 DEF Leases!Released, CompletionAt
  <2>2. MailStays(q) /\ (Leases!Released(q) \in Mail => Leases!Released(q) \in Mail')
    BY <1>1, <2>1, ReceivingStays, OtherReceivingStays
  <2>3. epoch'[q] = epoch[q] /\ active'[q] = active[q]
    <3> HIDE DEF r
    <3> QED BY <1>1, <1>2, <1>4 DEF Bumped, RemoveRepository
  <2> QED BY <1>1, <2>2, <2>3, MailKeepsRelease, WorkersUnchangedStay, FrameKeepsWork DEF WorkInv
<1> QED BY <1>3, <1>4

LEMMA AcquisitionKeepsWork ==
  ASSUME WorkInv, HandleLeaseAcquired, NEW q \in Repos
  PROVE  WorksOrLeaves(q)'
<1> DEFINE r == Head(mailbox).repo
<1>1. /\ SupTypes /\ r \in Repos /\ mailbox # <<>> /\ mailbox' = Tail(mailbox)
      /\ Head(mailbox).type = "LeaseAcquired" /\ Head(mailbox) = mailbox[1]
      /\ workers' = workers /\ epoch' = Ensured(r) /\ active' = active
      /\ registered' = registered /\ call' = call /\ Consistent(q) /\ WorksOrLeaves(q)
  BY HeadKinds DEF WorkInv, SupInv, SupTypes, HandleLeaseAcquired, Received, Taken, callVars, workVars,
     AddRepository
<1>2. Head(mailbox) # Leases!Released(q) /\ ~CompletionAt(1, q)
  BY <1>1 DEF Leases!Released, CompletionAt
<1>3. MailStays(q) /\ (ReleaseIsComing(q) => ReleaseIsComing(q)')
  BY <1>1, <1>2, ReceivingStays, OtherReceivingStays, MailKeepsRelease
<1>4. CASE epoch[q] = NoEpoch
  <2>1. ~HasWork(q)
    BY <1>1, <1>4 DEF Consistent, NoneIsNewer, HasWork
  <2> QED BY <1>1, <1>3, <2>1 DEF WorksOrLeaves
<1>5. CASE epoch[q] # NoEpoch
  <2>1. epoch'[q] = epoch[q]
    <3> HIDE DEF r
    <3> QED BY <1>1, <1>5 DEF Ensured, Current, SupTypes
  <2> QED BY <1>1, <1>3, <2>1, WorkersUnchangedStay, FrameKeepsWork
<1> QED BY <1>4, <1>5

\* A handled completion frees what it is of.
LEMMA CompletionFrees ==
  ASSUME TypeOK, NEW STATE m, m.repo \in Repos, m.class \in Class, m.result \in Result,
         IsRunning(m.repo, m.class), Applied(m)
  PROVE  active'[m.repo] = Idle
<1>1. PICK r \in Repos : r = m.repo
  OBVIOUS
<1>2. PICK c \in Class : c = m.class
  OBVIOUS
<1>3. Released(r, c)
  BY <1>1, <1>2 DEF Applied, ManifestSucceeded, SemanticSucceeded, MarkFailed, MarkBlocked
<1>4. active \in [Repos -> Class \cup {Idle}] /\ active[r] = c
  BY <1>1, <1>2 DEF TypeOK, IsRunning
<1>5. active'[r] = Idle
  BY <1>3, <1>4 DEF Released
<1> QED BY <1>1, <1>5

LEMMA CompletionKeepsWork ==
  ASSUME WorkInv, HandleIndexCompleted, NEW q \in Repos
  PROVE  WorksOrLeaves(q)'
<1> DEFINE m == Head(mailbox)
<1>1. /\ SupInv /\ SupTypes /\ TypeOK /\ mailbox # <<>> /\ mailbox' = Tail(mailbox)
      /\ m.type = "IndexCompleted" /\ m = mailbox[1]
      /\ workers' = workers /\ epoch' = epoch /\ registered' = registered /\ call' = call
      /\ WorksOrLeaves(q)
  BY DEF WorkInv, SupInv, SupTypes, HandleIndexCompleted, Received, Taken, callVars, workVars
<1>2. m # Leases!Released(q)
  BY <1>1 DEF Leases!Released
<1>3. ReleaseIsComing(q) => ReleaseIsComing(q)'
  BY <1>1, <1>2, ReceivingStays, MailKeepsRelease
<1>4. CASE m.epoch = Current(m.repo) /\ m.repo \in registered \cap watched
  <2>1. /\ m.repo \in Repos /\ m.class \in Class /\ m.result \in Result
        /\ IsRunning(m.repo, m.class) /\ Applied(m)
    BY <1>1, <1>4, CompletionIsExpected DEF HandleIndexCompleted
  <2>2. CompleteOf(m.repo)
    BY <2>1, AppliedIsCompletion
  <2>3. CASE q = m.repo
    <3>1. active'[m.repo] = Idle
      BY <1>1, <2>1, CompletionFrees
    <3> QED BY <2>3, <3>1 DEF WorksOrLeaves
  <2>4. CASE q # m.repo
    <3>1. active'[q] = active[q]
      BY <1>1, <2>1, <2>2, <2>4, CompletionFrame
    <3>2. MailStays(q)
      BY <1>1, <2>4, OtherReceivingStays DEF CompletionAt
    <3> QED BY <1>1, <1>3, <3>1, <3>2, WorkersUnchangedStay, FrameKeepsWork
  <2> QED BY <2>3, <2>4
<1>5. CASE ~(m.epoch = Current(m.repo) /\ m.repo \in registered \cap watched)
  <2>1. active' = active
    BY <1>5 DEF HandleIndexCompleted, schedVars
  <2>2. CASE CompletionAt(1, q) /\ mailbox[1].epoch = epoch[q]
    <3>1. m.repo = q /\ q \in watched
      BY <1>1, <2>2 DEF CompletionAt, SupInv, Consistent, CurrentIsActive
    <3>2. epoch[q] # NoEpoch
      BY <1>1, <2>2 DEF SupInv, Consistent, NoneIsNewer
    <3>3. q \notin registered
      BY <1>1, <1>5, <2>2, <3>1, <3>2 DEF Current
    <3> QED BY <1>1, <1>3, <2>1, <3>3 DEF WorksOrLeaves
  <2>3. CASE ~(CompletionAt(1, q) /\ mailbox[1].epoch = epoch[q])
    <3>1. MailStays(q)
      BY <1>1, <2>3, OtherReceivingStays
    <3> QED BY <1>1, <1>3, <2>1, <3>1, WorkersUnchangedStay, FrameKeepsWork
  <2> QED BY <2>2, <2>3
<1> QED BY <1>4, <1>5

LEMMA DispatchKeepsWork ==
  ASSUME WorkInv, Dispatch, NEW q \in Repos
  PROVE  WorksOrLeaves(q)'
<1>1. /\ SupTypes /\ active \in [Repos -> Class \cup {Idle}] /\ Consistent(q) /\ WorksOrLeaves(q)
      /\ mailbox' = mailbox /\ epoch' = epoch /\ registered' = registered /\ call' = call
  BY DEF WorkInv, SupInv, SupTypes, TypeOK, Dispatch, leaseVars
<1>2. MailStays(q) /\ (ReleaseIsComing(q) => ReleaseIsComing(q)')
  BY <1>1, MailUnchangedStays, MailKeepsRelease DEF Mail
<1>3. CASE UNCHANGED <<schedVars, workers, tasks>>
  BY <1>1, <1>2, <1>3, WorkersUnchangedStay, FrameKeepsWork DEF schedVars
<1>4. ASSUME NEW r \in Repos, NEW c \in Class, NextReady(r, c), MarkFailed(r, c), workers' = workers
      PROVE  WorksOrLeaves(q)'
  <2>1. active[r] = Idle /\ active' = [active EXCEPT ![r] = IF @ = c THEN Idle ELSE @]
    BY <1>4 DEF NextReady, Ready, MarkFailed, Released
  <2>2. active'[q] = active[q]
    BY <1>1, <2>1
  <2> QED BY <1>1, <1>2, <1>4, <2>2, WorkersUnchangedStay, FrameKeepsWork
<1>5. ASSUME NEW r \in Repos, NEW c \in Class, r \in registered, StartWorker(r, c)
      PROVE  WorksOrLeaves(q)'
  <2>1. /\ r \in watched /\ active' = [active EXCEPT ![r] = c]
        /\ workers' = workers \cup {Spawned(r, c)}
    BY <1>5 DEF StartWorker, MarkStarted, NextReady, Ready, Spawned
  <2>2. CASE q = r
    <3>1. epoch'[q] = epoch[q] /\ Spawned(r, c).repo = r /\ Spawned(r, c).epoch = epoch[q]
      BY <1>1, <2>1, <2>2 DEF Consistent, NoneIsNewer, Spawned, Current
    <3>2. HasWork(q)'
      BY <2>1, <2>2, <3>1 DEF HasWork
    <3> QED BY <1>1, <1>5, <2>2, <3>2 DEF WorksOrLeaves
  <2>3. CASE q # r
    <3>1. active'[q] = active[q] /\ \A w \in workers : w \in workers'
      BY <1>1, <2>1, <2>3
    <3> QED BY <1>1, <1>2, <3>1, WorkersUnchangedStay, FrameKeepsWork
  <2> QED BY <2>2, <2>3
<1> QED BY <1>3, <1>4, <1>5 DEF Dispatch, DispatchOf

LEMMA WorkKeepsWork ==
  ASSUME WorkInv, NEW w \in workers, Work(w), NEW q \in Repos
  PROVE  WorksOrLeaves(q)'
<1>1. /\ SupTypes /\ w \in Worker /\ WorksOrLeaves(q) /\ WorkerOutcome(w)
  BY WorkIsOutcome DEF WorkInv, SupInv, SupTypes
<1>2. epoch' = epoch /\ active' = active /\ registered' = registered /\ call' = call
  BY DEF Work, Plan, CheckBeforeCommit, Commit, FinishTask, SendCompletion, WorkerStep, schedVars,
         leaseVars, callVars
<1>3. ASSUME NEW at \in {"planned", "cleared"} \cup Result, NEW task \in BOOLEAN, mailbox' = mailbox,
             workers' = (workers \ {w}) \cup {[w EXCEPT !.at = at, !.task = task]}
      PROVE  WorksOrLeaves(q)'
  <2> DEFINE v == [w EXCEPT !.at = at, !.task = task]
  <2>1. v.repo = w.repo /\ v.epoch = w.epoch /\ workers' = (workers \ {w}) \cup {v}
    <3>1. v.repo = w.repo /\ v.epoch = w.epoch
      BY <1>1, WorkerTyped, Zenon
    <3>2. workers' = (workers \ {w}) \cup {v}
      BY <1>3
    <3> QED BY <3>1, <3>2
  <2> HIDE DEF v
  <2>2. WorkersStay(q)
    <3>1. ASSUME NEW u \in workers, u.repo = q
          PROVE  \E x \in workers' : x.repo = q /\ x.epoch = u.epoch
      BY <2>1, <3>1
    <3> QED BY <3>1 DEF WorkersStay
  <2>3. MailStays(q) /\ (ReleaseIsComing(q) => ReleaseIsComing(q)')
    BY <1>1, <1>2, <1>3, MailUnchangedStays, MailKeepsRelease DEF Mail
  <2> QED BY <1>1, <1>2, <2>2, <2>3, FrameKeepsWork
<1>4. CASE workers' = workers \ {w} /\ mailbox' = Append(mailbox, IndexCompleted(w)) /\ w.at \in Result
  <2>1. /\ IndexCompleted(w).type = "IndexCompleted" /\ IndexCompleted(w).repo = w.repo
        /\ IndexCompleted(w).epoch = w.epoch
    BY DEF IndexCompleted
  <2>2. /\ MailStays(q)
        /\ w.repo = q => \E j : CompletionAt(j, q)' /\ mailbox'[j] = IndexCompleted(w)
        /\ ReleaseIsComing(q) => ReleaseIsComing(q)'
    BY <1>1, <1>2, <1>4, <2>1, SendingStays, MailKeepsRelease
  <2>3. WorkersStay(q)
    BY <1>4, <2>1, <2>2 DEF WorkersStay
  <2> QED BY <1>1, <1>2, <2>2, <2>3, FrameKeepsWork
<1>5. CASE /\ mailbox' = mailbox
           /\ \E at \in {"planned", "cleared"} \cup Result, task \in BOOLEAN :
                workers' = (workers \ {w}) \cup {[w EXCEPT !.at = at, !.task = task]}
  BY <1>3, <1>5, Zenon
<1> QED BY <1>1, <1>4, <1>5, Zenon DEF WorkerOutcome

LEMMA WorkStep == WorkInv /\ [SupNext]_supVars => \A q \in Repos : WorksOrLeaves(q)'
<1> SUFFICES ASSUME WorkInv, [SupNext]_supVars, NEW q \in Repos PROVE WorksOrLeaves(q)'
  OBVIOUS
<1> QED BY FileEventKeepsWork, CallsKeepWork, QuietStepsKeepWork, ReleaseKeepsWork,
           AcquisitionKeepsWork, CompletionKeepsWork, DispatchKeepsWork, WorkKeepsWork
        DEF SupNext, Handle

\* Where there is work of the current epoch, there is exactly one piece of it.
LEMMA WorkIsCounted == WorkInv => RunningHasItsWorker
<1> SUFFICES ASSUME WorkInv, NEW r \in Repos, NEW c \in Class
             PROVE  LET n == Cardinality(Outstanding(r, c)) + Cardinality(Waiting(r, c))
                    IN /\ active[r] = c => n = 1 \/ (n = 0 /\ ReleaseIsComing(r))
                       /\ active[r] # c => n = 0
  BY DEF RunningHasItsWorker
<1> DEFINE O == Outstanding(r, c)
           W == Waiting(r, c)
<1>1. Consistent(r) /\ WorksOrLeaves(r) /\ c # Idle
  BY DEF WorkInv, SupInv, Class, Idle, ManifestFast, SemanticFollowup
<1>2. \A w \in O : w \in workers /\ w.repo = r /\ w.epoch = epoch[r] /\ active[r] = c
  BY <1>1 DEF Outstanding, Stale, Current, Consistent, NoneIsNewer, CurrentIsActive
<1>3. \A i \in W : CompletionAt(i, r) /\ mailbox[i].epoch = epoch[r] /\ active[r] = c
  BY <1>1 DEF Waiting, CompletionAt, Current, Consistent, NoneIsNewer, CurrentIsActive
<1>4. active[r] = c => \A w \in workers : w.repo = r /\ w.epoch = epoch[r] => w \in O
  BY <1>1 DEF Outstanding, Stale, Current, Consistent, NoneIsNewer, CurrentIsActive
<1>5. active[r] = c => \A i : CompletionAt(i, r) /\ mailbox[i].epoch = epoch[r] => i \in W
  BY <1>1 DEF Waiting, CompletionAt, Current, Consistent, NoneIsNewer, CurrentIsActive
<1> HIDE DEF O, W
<1>6. (O # {} => W = {}) /\ (\A v, w \in O : v = w) /\ (\A i, j \in W : i = j)
  BY <1>1, <1>2, <1>3 DEF Consistent, CurrentIsOne
<1>7. Cardinality({}) = 0 /\ \A x : Cardinality({x}) = 1
  BY FS_EmptySet, FS_Singleton
<1>8. CASE O # {}
  <2>1. PICK w \in O : O = {w}
    BY <1>6, <1>8
  <2>2. Cardinality(O) = 1 /\ Cardinality(W) = 0
    BY <1>6, <1>7, <1>8, <2>1
  <2> QED BY <1>2, <1>8, <2>2 DEF O, W
<1>9. CASE O = {} /\ W # {}
  <2>1. PICK i \in W : W = {i}
    BY <1>6, <1>9
  <2>2. Cardinality(O) = 0 /\ Cardinality(W) = 1
    BY <1>7, <1>9, <2>1
  <2> QED BY <1>3, <1>9, <2>2 DEF O, W
<1>10. CASE O = {} /\ W = {}
  <2>1. Cardinality(O) = 0 /\ Cardinality(W) = 0
    BY <1>7, <1>10
  <2>2. active[r] = c => ReleaseIsComing(r)
    BY <1>1, <1>4, <1>5, <1>10 DEF WorksOrLeaves, HasWork
  <2> QED BY <2>1, <2>2 DEF O, W
<1> QED BY <1>8, <1>9, <1>10

\* A running refresh has exactly one worker or completion of its lease, or its release is on its
\* way: for any number of repositories, sessions and waiting commands, no slot is held for nothing.
THEOREM RunningStaysWithItsWorker == SupSpec => []RunningHasItsWorker
<1>1. SupSpec => []SupInv
  BY SupInvInit, SupInvStep, PTL DEF SupSpec
<1>2. SupInit => \A q \in Repos : WorksOrLeaves(q)
  BY DEF SupInit, Init, FreshRepository, WorksOrLeaves
<1>3. SupInv /\ LeaseFacts!LeaseTypeOK /\ (\A q \in Repos : WorksOrLeaves(q)) /\ [SupNext]_supVars
        => (\A q \in Repos : WorksOrLeaves(q))'
  BY WorkStep DEF WorkInv
<1>4. SupInv /\ LeaseFacts!LeaseTypeOK /\ (\A q \in Repos : WorksOrLeaves(q)) => RunningHasItsWorker
  BY WorkIsCounted DEF WorkInv
<1> QED BY <1>1, <1>2, <1>3, <1>4, LeaseTypesCarried, PTL DEF SupSpec
=============================================================================
