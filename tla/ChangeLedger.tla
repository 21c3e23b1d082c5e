---------------------------- MODULE ChangeLedger ----------------------------
(***************************************************************************)
(* What the scheduler promises about file changes, without queues, clocks   *)
(* or limits: a change the watcher accepted is owed to the manifest until a *)
(* refresh that started after it has finished, and while something is owed  *)
(* a refresh is scheduled or running, unless the last one was blocked.      *)
(***************************************************************************)
CONSTANTS Repos, Paths

VARIABLES
  owed,      \* owed[r]: changed paths no finished refresh covers
  covering,  \* covering[r]: the owed paths the running refresh will cover
  phase      \* phase[r]: is a refresh scheduled, running or neither

ledgerVars == <<owed, covering, phase>>

LedgerInit ==
  /\ owed = [r \in Repos |-> {}]
  /\ covering = [r \in Repos |-> {}]
  /\ phase = [r \in Repos |-> "idle"]

\* A path changed: it is owed, and what is running may have read it too early.
Touch(r, p) ==
  /\ owed' = [owed EXCEPT ![r] = @ \cup {p}]
  /\ covering' = [covering EXCEPT ![r] = @ \ {p}]
  /\ phase' = [phase EXCEPT ![r] = IF @ = "running" THEN @ ELSE "scheduled"]

\* A refresh asked for without a change (startup), or again after a block.
Request(r) ==
  /\ phase[r] = "idle"
  /\ phase' = [phase EXCEPT ![r] = "scheduled"]
  /\ UNCHANGED <<owed, covering>>

Begin(r) ==
  /\ phase[r] = "scheduled"
  /\ covering' = [covering EXCEPT ![r] = owed[r]]
  /\ phase' = [phase EXCEPT ![r] = "running"]
  /\ UNCHANGED owed

\* The refresh settles exactly what it covered; the rest is scheduled again.
Settle(r) ==
  /\ phase[r] = "running"
  /\ owed' = [owed EXCEPT ![r] = @ \ covering[r]]
  /\ covering' = [covering EXCEPT ![r] = {}]
  /\ phase' = [phase EXCEPT ![r] = IF owed'[r] = {} THEN "idle" ELSE "scheduled"]

\* A failed refresh settles nothing and is scheduled again.
Retrying(r) ==
  /\ phase[r] = "running"
  /\ covering' = [covering EXCEPT ![r] = {}]
  /\ phase' = [phase EXCEPT ![r] = "scheduled"]
  /\ UNCHANGED owed

\* A blocked refresh is given up: nothing is scheduled before the next change.
GiveUp(r) ==
  /\ phase[r] = "running"
  /\ owed' = [owed EXCEPT ![r] = @ \ covering[r]]
  /\ covering' = [covering EXCEPT ![r] = {}]
  /\ phase' = [phase EXCEPT ![r] = "idle"]

\* The last watch lease is gone.
Forget(r) ==
  /\ owed' = [owed EXCEPT ![r] = {}]
  /\ covering' = [covering EXCEPT ![r] = {}]
  /\ phase' = [phase EXCEPT ![r] = "idle"]

LedgerNext ==
  \E r \in Repos :
     \/ \E p \in Paths : Touch(r, p)
     \/ Request(r) \/ Begin(r) \/ Settle(r) \/ Retrying(r) \/ GiveUp(r) \/ Forget(r)

LedgerSpec == LedgerInit /\ [][LedgerNext]_ledgerVars

=============================================================================
