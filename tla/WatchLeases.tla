----------------------------- MODULE WatchLeases -----------------------------
(***************************************************************************)
(* The watch leases of crates/cli/src/watch/supervisor.rs: sessions call    *)
(* acquire_lease and release_lease of the shared WatchRuntime from their    *)
(* own threads.  Each call takes the lock of the counts, of the repository  *)
(* map and of the mailbox one after the other, and holds none in between,   *)
(* so a call is up to three steps here.                                     *)
(*                                                                         *)
(* One session makes one call at a time (adopt_workspace and                *)
(* detach_workspace of mcp/server/workspace.rs).  The supervisor appears    *)
(* only as the consumer of the two lease commands.                         *)
(***************************************************************************)
EXTENDS Integers, Sequences, FiniteSets

CONSTANTS
  Repos,          \* repository ids
  Sessions,       \* MCP sessions sharing the runtime
  WatchFails,     \* whether the platform watcher may refuse a root
  UnwatchFails,   \* whether it may fail to give one up
  MaxCalls        \* bound: the calls one session makes

ASSUME LeaseAssumption ==
  WatchFails \in BOOLEAN /\ UnwatchFails \in BOOLEAN /\ MaxCalls \in Nat

VARIABLES
  leases,      \* lease_counts; an absent entry is 0
  registered,  \* keys of WatchRuntime.repositories
  subscribed,  \* roots the platform watcher reports events of
  kept,        \* history: the roots among them it kept when their unwatch failed
  mailbox,     \* the supervisor's unbounded command channel
  adopted,     \* adopted[s]: adopted_repository_ids of session s
  call,        \* call[s]: where the running call of session s is
  made,        \* made[s]: calls begun by session s
  scheduled    \* keys of the scheduler's repositories

leaseVars == <<leases, registered, subscribed, kept, mailbox, adopted, call, made, scheduled>>

Acquired(r) == [type |-> "LeaseAcquired", repo |-> r]
Released(r) == [type |-> "LeaseReleased", repo |-> r]

Step == {"insert", "announceAcquired", "release", "unwatch", "announceReleased"}
NoCall == [step |-> "none"]
At(step, r) == [step |-> step, repo |-> r]

\* The repository and the step of a session's running call.
Doing(s, step, r) == call[s] = At(step, r)

(***************************************************************************)
(* adopt_workspace and acquire_lease.                                      *)
(***************************************************************************)
\* The counts are locked while the first holder registers the root with the watcher.
CountUp(s, r) ==
  \/ /\ leases[r] > 0
     /\ leases' = [leases EXCEPT ![r] = @ + 1]
     /\ call' = [call EXCEPT ![s] = NoCall]
     /\ adopted' = [adopted EXCEPT ![s] = @ \cup {r}]
     /\ UNCHANGED <<subscribed, kept>>
  \/ /\ leases[r] = 0
     /\ subscribed' = subscribed \cup {r} /\ kept' = kept \ {r}
     /\ leases' = [leases EXCEPT ![r] = 1]
     /\ call' = [call EXCEPT ![s] = At("insert", r)]
     /\ adopted' = [adopted EXCEPT ![s] = @ \cup {r}]
  \/ \* The rollback of a failed adoption releases the repository.
     /\ leases[r] = 0 /\ WatchFails
     /\ call' = [call EXCEPT ![s] = At("release", r)]
     /\ UNCHANGED <<leases, subscribed, kept, adopted>>

Acquire(s, r) ==
  /\ call[s] = NoCall /\ r \notin adopted[s] /\ made[s] < MaxCalls
  /\ made' = [made EXCEPT ![s] = @ + 1]
  /\ CountUp(s, r)
  /\ UNCHANGED <<registered, mailbox, scheduled>>

Insert(s, r) ==
  /\ Doing(s, "insert", r)
  /\ registered' = registered \cup {r}
  /\ call' = [call EXCEPT ![s] = At("announceAcquired", r)]
  /\ UNCHANGED <<leases, subscribed, kept, mailbox, adopted, made, scheduled>>

\* Mutant: the command overtakes the ones that wait.
AnnounceAcquired_JumpsQueue(s, r) ==
  /\ Doing(s, "announceAcquired", r)
  /\ mailbox' = <<Acquired(r)>> \o mailbox
  /\ call' = [call EXCEPT ![s] = NoCall]
  /\ UNCHANGED <<leases, registered, subscribed, kept, adopted, made, scheduled>>

AnnounceAcquired(s, r) ==
  /\ Doing(s, "announceAcquired", r)
  /\ mailbox' = Append(mailbox, Acquired(r))
  /\ call' = [call EXCEPT ![s] = NoCall]
  /\ UNCHANGED <<leases, registered, subscribed, kept, adopted, made, scheduled>>

(***************************************************************************)
(* detach_workspace and release_lease.                                     *)
(***************************************************************************)
Detach(s, r) ==
  /\ call[s] = NoCall /\ r \in adopted[s] /\ made[s] < MaxCalls
  /\ made' = [made EXCEPT ![s] = @ + 1]
  /\ adopted' = [adopted EXCEPT ![s] = @ \ {r}]
  /\ call' = [call EXCEPT ![s] = At("release", r)]
  /\ UNCHANGED <<leases, registered, subscribed, kept, mailbox, scheduled>>

\* Mutant: a release is counted twice.
CountDown_Twice(s, r) ==
  /\ Doing(s, "release", r)
  /\ leases' = [leases EXCEPT ![r] = IF @ <= 1 THEN 0 ELSE @ - 2]
  /\ call' = [call EXCEPT ![s] = IF leases[r] \in {1, 2} THEN At("unwatch", r) ELSE NoCall]
  /\ UNCHANGED <<registered, subscribed, kept, mailbox, adopted, made, scheduled>>

CountDown(s, r) ==
  /\ Doing(s, "release", r)
  /\ leases' = [leases EXCEPT ![r] = IF @ = 0 THEN 0 ELSE @ - 1]
  /\ call' = [call EXCEPT ![s] = IF leases[r] = 1 THEN At("unwatch", r) ELSE NoCall]
  /\ UNCHANGED <<registered, subscribed, kept, mailbox, adopted, made, scheduled>>

\* Mutant: the root stays with the watcher, which was never told.
Unwatch_KeepsSubscription(s, r) ==
  /\ Doing(s, "unwatch", r)
  /\ registered' = registered \ {r}
  /\ call' = [call EXCEPT ![s] = At("announceReleased", r)]
  /\ UNCHANGED <<leases, subscribed, kept, mailbox, adopted, made, scheduled>>

\* The map entry and the watcher's root go together: the map stays locked during unwatch.  An
\* error of unwatch is only logged; the entry is gone by then and nothing tries again.
Unwatch(s, r) ==
  /\ Doing(s, "unwatch", r)
  /\ registered' = registered \ {r}
  /\ \/ subscribed' = subscribed \ (registered \cap {r}) /\ kept' = kept \ (registered \cap {r})
     \/ /\ UnwatchFails /\ r \in registered \cap subscribed
        /\ kept' = kept \cup {r}
        /\ UNCHANGED subscribed
  /\ call' = [call EXCEPT ![s] = At("announceReleased", r)]
  /\ UNCHANGED <<leases, mailbox, adopted, made, scheduled>>

AnnounceReleased(s, r) ==
  /\ Doing(s, "announceReleased", r)
  /\ mailbox' = Append(mailbox, Released(r))
  /\ call' = [call EXCEPT ![s] = NoCall]
  /\ UNCHANGED <<leases, registered, subscribed, kept, adopted, made, scheduled>>

\* The rest of a call that has begun, and a new one.
Proceed(s, r) ==
  \/ Insert(s, r)
  \/ AnnounceAcquired(s, r)
  \/ CountDown(s, r)
  \/ Unwatch(s, r)
  \/ AnnounceReleased(s, r)

Begin(s, r) == Acquire(s, r) \/ Detach(s, r)

\* Mutant: a released repository stays scheduled.
Consume_KeepsReleased ==
  /\ mailbox # <<>>
  /\ scheduled' = scheduled \cup {Head(mailbox).repo}
  /\ mailbox' = Tail(mailbox)
  /\ UNCHANGED <<leases, registered, subscribed, kept, adopted, call, made>>

\* The supervisor's handling of the two commands, as far as leases go.
Consume ==
  /\ mailbox # <<>>
  /\ LET m == Head(mailbox)
     IN scheduled' = IF m = Acquired(m.repo) THEN scheduled \cup {m.repo}
                     ELSE scheduled \ {m.repo}
  /\ mailbox' = Tail(mailbox)
  /\ UNCHANGED <<leases, registered, subscribed, kept, adopted, call, made>>

LeaseInit ==
  /\ leases = [r \in Repos |-> 0]
  /\ registered = {} /\ subscribed = {} /\ kept = {}
  /\ mailbox = <<>>
  /\ adopted = [s \in Sessions |-> {}]
  /\ call = [s \in Sessions |-> NoCall]
  /\ made = [s \in Sessions |-> 0]
  /\ scheduled = {}

LeaseNext == Consume \/ \E s \in Sessions, r \in Repos : Begin(s, r) \/ Proceed(s, r)

LeaseSpec == LeaseInit /\ [][LeaseNext]_leaseVars

\* A call that has begun returns, and the supervisor keeps receiving.
LeaseFairness ==
  /\ WF_leaseVars(Consume)
  /\ \A s \in Sessions : WF_leaseVars(\E r \in Repos : Proceed(s, r))

=============================================================================
