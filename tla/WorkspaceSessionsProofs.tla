---------------------- MODULE WorkspaceSessionsProofs ----------------------
(***************************************************************************)
(* Proofs about the sessions and the workspaces they adopt: the catalog and *)
(* its counts agree with the sessions at every instant, and what attaches   *)
(* that overlap and fail leave behind.                                      *)
(*                                                                         *)
(* The first part says what each step does to its request and that it keeps *)
(* the types and the places (Shaped).  The second sorts the steps by what   *)
(* they are to the counts (StepClass) and keeps Counted.  The third keeps   *)
(* Told, what a session was told of and who will still undo what it was not *)
(* told of; the last, AloneHolds, the trace of an attach that is alone.     *)
(***************************************************************************)
EXTENDS WorkspaceSessionsProps, FiniteSetTheorems, TLAPS

Kinds == {"attach", "prepare", "byId", "detach", "close"}
Places == {"resolved", "read", "working", "adopted", "counted", "refused", "served", "telling",
           "leaving", "waiting", "answering", "failed", "rollback", "undoing", "restoring", "restored",
           "detaching", "forgetting", "looking", "clearing", "closing", "releasing", "released"}
Target == Repos \cup {None}
RecordOfBefore == [adopted : SUBSET Repos, default : Target, alone : BOOLEAN]
Record ==
  [at : Places, session : Sessions, repo : Target, kind : Kinds, sets : BOOLEAN, previous : Target,
   created : BOOLEAN, guarded : BOOLEAN, resolving : BOOLEAN, last : BOOLEAN, found : BOOLEAN,
   before : RecordOfBefore]
AttachState ==
  [inFlight : Nat, completed : BOOLEAN, defaultConfirmed : BOOLEAN, rollback : BOOLEAN,
   rollbackTo : Target, restore : BOOLEAN, restoreTo : Target]

RequestTyped == request \in [Requests -> {Unmade, Over} \cup Record]

SharedTyped ==
  /\ known \in SUBSET Repos
  /\ pending \in [Repos -> Nat] /\ active \in [Repos -> Nat] /\ leases \in [Repos -> Nat]
  /\ adopted \in [Sessions -> SUBSET Repos] /\ default \in [Sessions -> Target]
  /\ attaching \in [Sessions -> [Repos -> AttachState]]
  /\ open \in SUBSET Sessions
  /\ refused \in SUBSET Repos /\ crossed \in SUBSET Repos /\ forgotten \in SUBSET Repos
  /\ completed \in [Sessions -> SUBSET Repos] /\ unanswered \in [Sessions -> SUBSET Repos]
TypeOK == SharedTyped /\ RequestTyped

Entering == {"working", "adopted", "counted", "refused", "served"}
Fresh    == {"resolved", "read", "working", "adopted", "counted", "refused", "failed"}
Undoing  == {"rollback", "undoing", "restoring", "restored"}
Leaving  == {"detaching", "forgetting", "looking", "clearing"}
Ending   == {"releasing", "released"}

\* What a request is, by where it is.
Fits(q) ==
  LET me == request[q] IN
  /\ me.guarded => me.kind = "attach"
  /\ me.resolving => me.kind \in {"attach", "prepare"}
  /\ me.repo = None => me.at = "closing"
  /\ me.at \in {"resolved", "read"} => me.kind = "attach" /\ ~me.guarded /\ me.resolving
  /\ me.at \in Entering =>
       /\ me.kind \in {"attach", "prepare", "byId"}
       /\ me.guarded <=> me.kind = "attach"
       /\ me.resolving <=> me.kind # "byId"
  /\ me.at \in Fresh => ~me.created
  /\ me.at = "telling" => ~me.guarded /\ me.kind \in {"prepare", "byId"} /\ (me.resolving <=> me.kind # "byId")
  /\ me.at = "leaving" => me.resolving
  /\ me.at \in {"waiting", "answering"} => me.guarded /\ ~me.resolving
  /\ me.at = "failed" => me.guarded /\ me.resolving
  /\ me.at \in Undoing => me.kind = "attach" /\ ~me.guarded
  /\ me.at \in Leaving => me.kind = "detach"
  /\ me.at \in Ending /\ me.guarded => ~me.created /\ me.resolving
  /\ me.at = "closing" <=> me.kind = "close" /\ me.at \notin Ending
PlacesFit == \A q \in Requests : UnderWay(q) => Fits(q)

Shaped == TypeOK /\ PlacesFit

\* What a step keeps of its request, what a step that only goes on keeps, and what every step
\* keeps of the other requests.
Same(y, x) ==
  /\ y \in Record /\ y.session = x.session /\ y.kind = x.kind /\ y.sets = x.sets /\ y.before = x.before
Still(y, x) ==
  /\ y.repo = x.repo /\ y.previous = x.previous /\ y.created = x.created /\ y.guarded = x.guarded
  /\ y.resolving = x.resolving /\ y.last = x.last /\ y.found = x.found
Alike(y, x) ==
  /\ y.session = x.session /\ y.kind = x.kind /\ y.sets = x.sets /\ Still(y, x)
OnlyMoves(q) == RequestTyped' /\ \A p \in Requests \ {q} : request'[p] = request[p]
Others(q) ==
  \A p \in Requests \ {q} :
    /\ request'[p].at = request[p].at
    /\ UnderWay(p) => Alike(request'[p], request[p])

Moved(q, place) ==
  /\ OnlyMoves(q) /\ Same(request'[q], request[q]) /\ Still(request'[q], request[q])
  /\ request'[q].at = place

LEMMA RequestFacts ==
  ASSUME TypeOK, NEW q \in Requests
  PROVE  /\ UnderWay(q) => request[q] \in Record
         /\ At(q, "unmade") => request[q] = Unmade
         /\ At(q, "done") => request[q] = Over
<1>1. \A x \in Record : x.at # "unmade" /\ x.at # "done"
  BY DEF Record, Places
<1>2. Unmade.at = "unmade" /\ Over.at = "done"
  BY DEF Unmade, Over
<1>3. request[q] \in {Unmade, Over} \cup Record
  BY DEF TypeOK, RequestTyped
<1> QED BY <1>1, <1>2, <1>3 DEF UnderWay, At

Ended(q) == OnlyMoves(q) /\ request'[q] = Over

LEMMA TypedIfOne ==
  ASSUME RequestTyped, NEW q \in Requests, NEW e \in {Over} \cup Record,
         request' = [request EXCEPT ![q] = e]
  PROVE  OnlyMoves(q) /\ request'[q] = e
BY Zenon DEF RequestTyped, OnlyMoves

LEMMA GotoMoves ==
  ASSUME TypeOK, NEW q \in Requests, UnderWay(q), NEW place \in Places, Goto(q, place)
  PROVE  Moved(q, place)
<1> DEFINE x == request[q]  y == request'[q]
           z == [x EXCEPT !.at = place]
<1>1. x \in Record /\ place # "done"
  BY RequestFacts DEF Places
<1>2. request' = [request EXCEPT ![q] = z]
  BY <1>1, Zenon DEF Goto
<1> HIDE DEF x, y
<1>3. Same(z, x) /\ Still(z, x) /\ z.at = place
  BY <1>1 DEF Record, Same, Still
<1> HIDE DEF z
<1>4. OnlyMoves(q) /\ y = z
  BY <1>2, <1>3, TypedIfOne DEF Same, TypeOK, y
<1> QED BY <1>3, <1>4 DEF x, y, Moved

LEMMA GotoDone ==
  ASSUME TypeOK, NEW q \in Requests, Goto(q, "done")
  PROVE  Ended(q)
<1>1. request' = [request EXCEPT ![q] = Over]
  BY Zenon DEF Goto
<1> QED BY <1>1, TypedIfOne DEF TypeOK, Ended

LEMMA PreviousSet ==
  ASSUME TypeOK, NEW q \in Requests, UnderWay(q), NEW v \in Target, NEW place \in Places,
         request' = [request EXCEPT ![q].previous = v, ![q].at = place]
  PROVE  LET y == request'[q]
             x == request[q] IN
         /\ OnlyMoves(q) /\ Same(y, x) /\ y.previous = v /\ y.at = place
         /\ y.repo = x.repo /\ y.created = x.created /\ y.guarded = x.guarded
         /\ y.resolving = x.resolving /\ y.last = x.last /\ y.found = x.found
<1> DEFINE x == request[q]  y == request'[q]
           z == [x EXCEPT !.previous = v, !.at = place]
<1>1. x \in Record
  BY RequestFacts
<1>2. request' = [request EXCEPT ![q] = z]
  OBVIOUS
<1> HIDE DEF x, y
<1>3. /\ Same(z, x) /\ z.previous = v /\ z.at = place
      /\ z.repo = x.repo /\ z.created = x.created /\ z.guarded = x.guarded
      /\ z.resolving = x.resolving /\ z.last = x.last /\ z.found = x.found
  BY <1>1 DEF Record, Same
<1> HIDE DEF z
<1>4. OnlyMoves(q) /\ y = z
  BY <1>2, <1>3, TypedIfOne DEF Same, TypeOK, y
<1> QED BY <1>3, <1>4 DEF x, y

LEMMA GuardSet ==
  ASSUME TypeOK, NEW q \in Requests, UnderWay(q), NEW v \in BOOLEAN, NEW place \in Places,
         request' = [request EXCEPT ![q].guarded = v, ![q].at = place]
  PROVE  LET y == request'[q]
             x == request[q] IN
         /\ OnlyMoves(q) /\ Same(y, x) /\ y.guarded = v /\ y.at = place
         /\ y.repo = x.repo /\ y.previous = x.previous /\ y.created = x.created
         /\ y.resolving = x.resolving /\ y.last = x.last /\ y.found = x.found
<1> DEFINE x == request[q]  y == request'[q]
           z == [x EXCEPT !.guarded = v, !.at = place]
<1>1. x \in Record
  BY RequestFacts
<1>2. request' = [request EXCEPT ![q] = z]
  OBVIOUS
<1> HIDE DEF x, y
<1>3. /\ Same(z, x) /\ z.guarded = v /\ z.at = place
      /\ z.repo = x.repo /\ z.previous = x.previous /\ z.created = x.created
      /\ z.resolving = x.resolving /\ z.last = x.last /\ z.found = x.found
  BY <1>1 DEF Record, Same
<1> HIDE DEF z
<1>4. OnlyMoves(q) /\ y = z
  BY <1>2, <1>3, TypedIfOne DEF Same, TypeOK, y
<1> QED BY <1>3, <1>4 DEF x, y

LEMMA CreatedSet ==
  ASSUME TypeOK, NEW q \in Requests, UnderWay(q), NEW v \in BOOLEAN, NEW place \in Places,
         request' = [request EXCEPT ![q].created = v, ![q].at = place]
  PROVE  LET y == request'[q]
             x == request[q] IN
         /\ OnlyMoves(q) /\ Same(y, x) /\ y.created = v /\ y.at = place
         /\ y.repo = x.repo /\ y.previous = x.previous /\ y.guarded = x.guarded
         /\ y.resolving = x.resolving /\ y.last = x.last /\ y.found = x.found
<1> DEFINE x == request[q]  y == request'[q]
           z == [x EXCEPT !.created = v, !.at = place]
<1>1. x \in Record
  BY RequestFacts
<1>2. request' = [request EXCEPT ![q] = z]
  OBVIOUS
<1> HIDE DEF x, y
<1>3. /\ Same(z, x) /\ z.created = v /\ z.at = place
      /\ z.repo = x.repo /\ z.previous = x.previous /\ z.guarded = x.guarded
      /\ z.resolving = x.resolving /\ z.last = x.last /\ z.found = x.found
  BY <1>1 DEF Record, Same
<1> HIDE DEF z
<1>4. OnlyMoves(q) /\ y = z
  BY <1>2, <1>3, TypedIfOne DEF Same, TypeOK, y
<1> QED BY <1>3, <1>4 DEF x, y

LEMMA ResolvingSet ==
  ASSUME TypeOK, NEW q \in Requests, UnderWay(q), NEW v \in BOOLEAN, NEW place \in Places,
         request' = [request EXCEPT ![q].resolving = v, ![q].at = place]
  PROVE  LET y == request'[q]
             x == request[q] IN
         /\ OnlyMoves(q) /\ Same(y, x) /\ y.resolving = v /\ y.at = place
         /\ y.repo = x.repo /\ y.previous = x.previous /\ y.created = x.created
         /\ y.guarded = x.guarded /\ y.last = x.last /\ y.found = x.found
<1> DEFINE x == request[q]  y == request'[q]
           z == [x EXCEPT !.resolving = v, !.at = place]
<1>1. x \in Record
  BY RequestFacts
<1>2. request' = [request EXCEPT ![q] = z]
  OBVIOUS
<1> HIDE DEF x, y
<1>3. /\ Same(z, x) /\ z.resolving = v /\ z.at = place
      /\ z.repo = x.repo /\ z.previous = x.previous /\ z.created = x.created
      /\ z.guarded = x.guarded /\ z.last = x.last /\ z.found = x.found
  BY <1>1 DEF Record, Same
<1> HIDE DEF z
<1>4. OnlyMoves(q) /\ y = z
  BY <1>2, <1>3, TypedIfOne DEF Same, TypeOK, y
<1> QED BY <1>3, <1>4 DEF x, y

LEMMA LastSet ==
  ASSUME TypeOK, NEW q \in Requests, UnderWay(q), NEW v \in BOOLEAN, NEW w \in BOOLEAN,
         NEW place \in Places,
         request' = [request EXCEPT ![q].last = v, ![q].at = place, ![q].found = w]
  PROVE  LET y == request'[q]
             x == request[q] IN
         /\ OnlyMoves(q) /\ Same(y, x) /\ y.last = v /\ y.at = place /\ y.found = w
         /\ y.repo = x.repo /\ y.previous = x.previous /\ y.created = x.created
         /\ y.guarded = x.guarded /\ y.resolving = x.resolving
<1> DEFINE x == request[q]  y == request'[q]
           z == [x EXCEPT !.last = v, !.at = place, !.found = w]
<1>1. x \in Record
  BY RequestFacts
<1>2. request' = [request EXCEPT ![q] = z]
  OBVIOUS
<1> HIDE DEF x, y
<1>3. /\ Same(z, x) /\ z.last = v /\ z.at = place /\ z.found = w
      /\ z.repo = x.repo /\ z.previous = x.previous /\ z.created = x.created
      /\ z.guarded = x.guarded /\ z.resolving = x.resolving
  BY <1>1 DEF Record, Same
<1> HIDE DEF z
<1>4. OnlyMoves(q) /\ y = z
  BY <1>2, <1>3, TypedIfOne DEF Same, TypeOK, y
<1> QED BY <1>3, <1>4 DEF x, y

LEMMA RepoSet ==
  ASSUME TypeOK, NEW q \in Requests, UnderWay(q), NEW v \in Target, NEW place \in Places,
         request' = [request EXCEPT ![q].repo = v, ![q].at = place]
  PROVE  LET y == request'[q]
             x == request[q] IN
         /\ OnlyMoves(q) /\ Same(y, x) /\ y.repo = v /\ y.at = place
         /\ y.previous = x.previous /\ y.created = x.created /\ y.guarded = x.guarded
         /\ y.resolving = x.resolving /\ y.last = x.last /\ y.found = x.found
<1> DEFINE x == request[q]  y == request'[q]
           z == [x EXCEPT !.repo = v, !.at = place]
<1>1. x \in Record
  BY RequestFacts
<1>2. request' = [request EXCEPT ![q] = z]
  OBVIOUS
<1> HIDE DEF x, y
<1>3. /\ Same(z, x) /\ z.repo = v /\ z.at = place
      /\ z.previous = x.previous /\ z.created = x.created /\ z.guarded = x.guarded
      /\ z.resolving = x.resolving /\ z.last = x.last /\ z.found = x.found
  BY <1>1 DEF Record, Same
<1> HIDE DEF z
<1>4. OnlyMoves(q) /\ y = z
  BY <1>2, <1>3, TypedIfOne DEF Same, TypeOK, y
<1> QED BY <1>3, <1>4 DEF x, y

-----------------------------------------------------------------------------
(* The types and the places. *)

LEMMA Underway ==
  ASSUME Shaped, NEW q \in Requests, NEW place \in Places, At(q, place)
  PROVE  UnderWay(q) /\ request[q] \in Record /\ Fits(q) /\ request[q].at = place
<1>1. UnderWay(q)
  BY DEF UnderWay, At, Places
<1> QED BY <1>1, RequestFacts DEF Shaped, PlacesFit, At

LEMMA FitsKept ==
  ASSUME PlacesFit, NEW q \in Requests, OnlyMoves(q), UnderWay(q)' => Fits(q)'
  PROVE  PlacesFit'
<1> SUFFICES ASSUME NEW p \in Requests, UnderWay(p)', p # q PROVE Fits(p)'
  BY DEF PlacesFit
<1>1. request'[p] = request[p]
  BY DEF OnlyMoves
<1>2. UnderWay(p) /\ Fits(p)
  BY <1>1 DEF PlacesFit, UnderWay, At
<1> QED BY <1>1, <1>2 DEF Fits

LEMMA OverFacts == ASSUME NEW q, request'[q] = Over PROVE ~UnderWay(q)' /\ At(q, "done")'
BY DEF UnderWay, At, Over

\* A step at q keeps the shape if it keeps the other types and puts q where it fits.
LEMMA ShapeKept ==
  ASSUME Shaped, NEW q \in Requests, OnlyMoves(q), SharedTyped', UnderWay(q)' => Fits(q)'
  PROVE  Shaped'
BY FitsKept DEF Shaped, TypeOK, OnlyMoves

LEMMA CountSessionStep ==
  ASSUME Shaped, NEW q \in Requests, CountSession(q)
  PROVE  /\ UnderWay(q) /\ Fits(q) /\ request[q] \in Record /\ request[q].at = "adopted"
         /\ Moved(q, "counted")
         /\ Shaped'
<1>1. UnderWay(q) /\ request[q] \in Record /\ Fits(q) /\ request[q].at = "adopted"
  BY Underway DEF CountSession, Places
<1>2. Moved(q, "counted")
  BY <1>1, GotoMoves DEF CountSession, Shaped, Places
<1>3. Fits(q)'
  BY <1>1, <1>2 DEF Fits, Moved, Same, Still, Entering, Fresh, Undoing, Leaving, Ending
<1>4. SharedTyped'
  BY <1>1 DEF CountSession, Shaped, TypeOK, SharedTyped, Session, Repo, Record, Fits, Target,
     registry, session, history, Up, Down, Less
<1> QED BY <1>1, <1>2, <1>3, <1>4, ShapeKept DEF Moved

LEMMA LeaseRefusedStep ==
  ASSUME Shaped, NEW q \in Requests, LeaseRefused(q)
  PROVE  /\ UnderWay(q) /\ Fits(q) /\ request[q] \in Record /\ request[q].at = "counted"
         /\ Moved(q, "refused")
         /\ Shaped'
<1>1. UnderWay(q) /\ request[q] \in Record /\ Fits(q) /\ request[q].at = "counted"
  BY Underway DEF LeaseRefused, Places
<1>2. Moved(q, "refused")
  BY <1>1, GotoMoves DEF LeaseRefused, Shaped, Places
<1>3. Fits(q)'
  BY <1>1, <1>2 DEF Fits, Moved, Same, Still, Entering, Fresh, Undoing, Leaving, Ending
<1>4. SharedTyped'
  BY <1>1 DEF LeaseRefused, Shaped, TypeOK, SharedTyped, Session, Repo, Record, Fits, Target,
     registry, session, history, Up, Down, Less
<1> QED BY <1>1, <1>2, <1>3, <1>4, ShapeKept DEF Moved

LEMMA WithdrawStep ==
  ASSUME Shaped, NEW q \in Requests, Withdraw(q)
  PROVE  /\ UnderWay(q) /\ Fits(q) /\ request[q] \in Record /\ request[q].at = "refused"
         /\ Moved(q, "releasing")
         /\ Shaped'
<1>1. UnderWay(q) /\ request[q] \in Record /\ Fits(q) /\ request[q].at = "refused"
  BY Underway DEF Withdraw, Places
<1>2. Moved(q, "releasing")
  BY <1>1, GotoMoves DEF Withdraw, Shaped, Places
<1>3. Fits(q)'
  BY <1>1, <1>2 DEF Fits, Moved, Same, Still, Entering, Fresh, Undoing, Leaving, Ending
<1>4. SharedTyped'
  BY <1>1 DEF Withdraw, Shaped, TypeOK, SharedTyped, Session, Repo, Record, Fits, Target, registry,
     session, history, Up, Down, Less, LetGo
<1> QED BY <1>1, <1>2, <1>3, <1>4, ShapeKept DEF Moved

LEMMA ForgetAttachesStep ==
  ASSUME Shaped, NEW q \in Requests, ForgetAttaches(q)
  PROVE  /\ UnderWay(q) /\ Fits(q) /\ request[q] \in Record /\ request[q].at = "forgetting"
         /\ Moved(q, "looking")
         /\ Shaped'
<1>1. UnderWay(q) /\ request[q] \in Record /\ Fits(q) /\ request[q].at = "forgetting"
  BY Underway DEF ForgetAttaches, Places
<1>2. Moved(q, "looking")
  BY <1>1, GotoMoves DEF ForgetAttaches, Shaped, Places
<1>3. Fits(q)'
  BY <1>1, <1>2 DEF Fits, Moved, Same, Still, Entering, Fresh, Undoing, Leaving, Ending
<1>4. SharedTyped'
  BY <1>1 DEF ForgetAttaches, Shaped, TypeOK, SharedTyped, Session, Repo, Record, Fits, Target,
     registry, session, history, Up, Down, Less, NoAttach, AttachState
<1> QED BY <1>1, <1>2, <1>3, <1>4, ShapeKept DEF Moved

LEMMA ClearDefaultStep ==
  ASSUME Shaped, NEW q \in Requests, ClearDefault(q)
  PROVE  /\ UnderWay(q) /\ Fits(q) /\ request[q] \in Record /\ request[q].at = "clearing"
         /\ Moved(q, "releasing")
         /\ Shaped'
<1>1. UnderWay(q) /\ request[q] \in Record /\ Fits(q) /\ request[q].at = "clearing"
  BY Underway DEF ClearDefault, Places
<1>2. Moved(q, "releasing")
  BY <1>1, GotoMoves DEF ClearDefault, Shaped, Places
<1>3. Fits(q)'
  BY <1>1, <1>2 DEF Fits, Moved, Same, Still, Entering, Fresh, Undoing, Leaving, Ending
<1>4. SharedTyped'
  BY <1>1 DEF ClearDefault, Shaped, TypeOK, SharedTyped, Session, Repo, Record, Fits, Target,
     registry, session, history, Up, Down, Less
<1> QED BY <1>1, <1>2, <1>3, <1>4, ShapeKept DEF Moved

LEMMA StillAdoptedStep ==
  ASSUME Shaped, NEW q \in Requests, StillAdopted(q)
  PROVE  /\ UnderWay(q) /\ Fits(q) /\ request[q] \in Record /\ request[q].at = "waiting"
         /\ Moved(q, "answering")
         /\ Shaped'
<1>1. UnderWay(q) /\ request[q] \in Record /\ Fits(q) /\ request[q].at = "waiting"
  BY Underway DEF StillAdopted, Places
<1>2. Moved(q, "answering")
  BY <1>1, GotoMoves DEF StillAdopted, Shaped, Places
<1>3. Fits(q)'
  BY <1>1, <1>2 DEF Fits, Moved, Same, Still, Entering, Fresh, Undoing, Leaving, Ending
<1>4. SharedTyped'
  BY <1>1 DEF StillAdopted, Shaped, TypeOK, SharedTyped, Session, Repo, Record, Fits, Target,
     registry, session, history, Up, Down, Less
<1> QED BY <1>1, <1>2, <1>3, <1>4, ShapeKept DEF Moved

LEMMA GiveUpStep ==
  ASSUME Shaped, NEW q \in Requests, GiveUp(q)
  PROVE  /\ UnderWay(q) /\ Fits(q) /\ request[q] \in Record /\ request[q].at = "working" /\ ~request[q].guarded
         /\ request[q].resolving => Moved(q, "leaving")
         /\ ~request[q].resolving => Ended(q)
         /\ Shaped'
<1>1. UnderWay(q) /\ request[q] \in Record /\ Fits(q) /\ request[q].at = "working"
      /\ ~request[q].guarded
  BY Underway DEF GiveUp, Places
<1>2. request[q].resolving => Moved(q, "leaving")
  BY <1>1, GotoMoves DEF GiveUp, Shaped, Places
<1>3. ~request[q].resolving => Ended(q)
  BY <1>1, GotoDone DEF GiveUp, Shaped
<1>4. OnlyMoves(q) /\ (UnderWay(q)' => Fits(q)')
  BY <1>1, <1>2, <1>3, OverFacts DEF Ended, Fits, Moved, Same, Still, Entering, Fresh, Undoing,
     Leaving, Ending
<1>5. SharedTyped'
  BY <1>1 DEF GiveUp, Shaped, TypeOK, SharedTyped, registry, session, history
<1> QED BY <1>1, <1>2, <1>3, <1>4, <1>5, ShapeKept

LEMMA AdoptStep ==
  ASSUME Shaped, NEW q \in Requests, Adopt(q)
  PROVE  /\ UnderWay(q) /\ Fits(q) /\ request[q] \in Record /\ request[q].at = "working"
         /\ Repo(q) \in adopted[Session(q)] => Moved(q, "served")
         /\ Repo(q) \notin adopted[Session(q)] => Moved(q, "adopted")
         /\ Shaped'
<1>1. UnderWay(q) /\ request[q] \in Record /\ Fits(q) /\ request[q].at = "working"
  BY Underway DEF Adopt, Places
<1>2. Repo(q) \in adopted[Session(q)] => Moved(q, "served")
  BY <1>1, GotoMoves DEF Adopt, Shaped, Places
<1>3. Repo(q) \notin adopted[Session(q)] => Moved(q, "adopted")
  BY <1>1, GotoMoves DEF Adopt, Shaped, Places
<1>4. OnlyMoves(q) /\ Fits(q)'
  BY <1>1, <1>2, <1>3 DEF Fits, Moved, Same, Still, Entering, Fresh, Undoing, Leaving, Ending
<1>5. SharedTyped'
  BY <1>1 DEF Adopt, Shaped, TypeOK, SharedTyped, Session, Repo, Record, Fits, Target, registry, history
<1> QED BY <1>1, <1>2, <1>3, <1>4, <1>5, ShapeKept

LEMMA ReadDefaultStep ==
  ASSUME Shaped, NEW q \in Requests, ReadDefault(q)
  PROVE  LET y == request'[q]
             x == request[q] IN
         /\ UnderWay(q) /\ Fits(q) /\ x \in Record /\ x.at = "resolved"
         /\ OnlyMoves(q) /\ Same(y, x) /\ y.previous = default[x.session] /\ y.at = "read"
         /\ y.repo = x.repo /\ y.created = x.created /\ y.guarded = x.guarded
         /\ y.resolving = x.resolving /\ y.last = x.last /\ y.found = x.found
         /\ Shaped'
<1> DEFINE x == request[q]  y == request'[q]
<1>1. UnderWay(q) /\ x \in Record /\ Fits(q) /\ x.at = "resolved"
  BY Underway DEF ReadDefault, Places
<1>2. default[x.session] \in Target /\ "read" \in Places
  BY <1>1 DEF Shaped, TypeOK, SharedTyped, Record, Places
<1>3. request' = [request EXCEPT ![q].previous = default[x.session], ![q].at = "read"]
  BY DEF ReadDefault, Session
<1>4. /\ OnlyMoves(q) /\ Same(y, x) /\ y.previous = default[x.session] /\ y.at = "read"
      /\ y.repo = x.repo /\ y.created = x.created /\ y.guarded = x.guarded
      /\ y.resolving = x.resolving /\ y.last = x.last /\ y.found = x.found
  BY <1>1, <1>2, <1>3, PreviousSet DEF Shaped
<1>5. Fits(q)'
  BY <1>1, <1>4 DEF Fits, Same, Entering, Fresh, Undoing, Leaving, Ending
<1>6. SharedTyped'
  BY DEF ReadDefault, Shaped, TypeOK, SharedTyped, registry, session, history
<1> QED BY <1>1, <1>4, <1>5, <1>6, ShapeKept

LEMMA AttachSet ==
  ASSUME attaching \in [Sessions -> [Repos -> AttachState]], NEW s \in Sessions, NEW r \in Repos,
         NEW z \in AttachState, attaching' = [attaching EXCEPT ![s][r] = z]
  PROVE  /\ attaching' \in [Sessions -> [Repos -> AttachState]]
         /\ attaching'[s][r] = z
         /\ \A u \in Sessions, k \in Repos : u # s \/ k # r => attaching'[u][k] = attaching[u][k]
OBVIOUS

LEMMA ArmStep ==
  ASSUME Shaped, NEW q \in Requests, Arm(q)
  PROVE  LET y == request'[q]
             x == request[q] IN
         /\ UnderWay(q) /\ Fits(q) /\ x \in Record /\ x.at = "read"
         /\ OnlyMoves(q) /\ Same(y, x) /\ y.guarded = TRUE /\ y.at = "working"
         /\ y.repo = x.repo /\ y.previous = x.previous /\ y.created = x.created
         /\ y.resolving = x.resolving /\ y.last = x.last /\ y.found = x.found
         /\ Shaped'
<1> DEFINE x == request[q]  y == request'[q]
<1>1. UnderWay(q) /\ x \in Record /\ Fits(q) /\ x.at = "read"
  BY Underway DEF Arm, Places
<1>2. TRUE \in BOOLEAN /\ "working" \in Places
  BY <1>1 DEF Shaped, TypeOK, SharedTyped, Record, Places
<1>3. request' = [request EXCEPT ![q].guarded = TRUE, ![q].at = "working"]
  BY DEF Arm
<1>4. /\ OnlyMoves(q) /\ Same(y, x) /\ y.guarded = TRUE /\ y.at = "working"
      /\ y.repo = x.repo /\ y.previous = x.previous /\ y.created = x.created
      /\ y.resolving = x.resolving /\ y.last = x.last /\ y.found = x.found
  BY <1>1, <1>2, <1>3, GuardSet DEF Shaped
<1>5. Fits(q)'
  BY <1>1, <1>4 DEF Fits, Same, Entering, Fresh, Undoing, Leaving, Ending
<1>6. SharedTyped'
  <2>1. x.session \in Sessions /\ x.repo \in Repos
    BY <1>1 DEF Record, Fits, Target
  <2> DEFINE w == attaching[x.session][x.repo]
  <2>2. w \in AttachState
    BY <2>1 DEF Shaped, TypeOK, SharedTyped
  <2> DEFINE z == [w EXCEPT !.inFlight = w.inFlight + 1]
  <2>3. attaching' = [attaching EXCEPT ![x.session][x.repo] = z]
    BY DEF Arm, Session, Repo
  <2> HIDE DEF w
  <2>4. z \in AttachState
    BY <2>2 DEF AttachState
  <2> HIDE DEF z, x
  <2>5. attaching' \in [Sessions -> [Repos -> AttachState]]
    BY <2>1, <2>3, <2>4, AttachSet DEF Shaped, TypeOK, SharedTyped
  <2> QED BY <2>5 DEF Arm, Shaped, TypeOK, SharedTyped, registry, history
<1> QED BY <1>1, <1>4, <1>5, <1>6, ShapeKept

LEMMA AcquireLeaseStep ==
  ASSUME Shaped, NEW q \in Requests, AcquireLease(q)
  PROVE  LET y == request'[q]
             x == request[q] IN
         /\ UnderWay(q) /\ Fits(q) /\ x \in Record /\ x.at = "counted"
         /\ OnlyMoves(q) /\ Same(y, x) /\ y.created = TRUE /\ y.at = "served"
         /\ y.repo = x.repo /\ y.previous = x.previous /\ y.guarded = x.guarded
         /\ y.resolving = x.resolving /\ y.last = x.last /\ y.found = x.found
         /\ Shaped'
<1> DEFINE x == request[q]  y == request'[q]
<1>1. UnderWay(q) /\ x \in Record /\ Fits(q) /\ x.at = "counted"
  BY Underway DEF AcquireLease, Places
<1>2. TRUE \in BOOLEAN /\ "served" \in Places
  BY <1>1 DEF Shaped, TypeOK, SharedTyped, Record, Places
<1>3. request' = [request EXCEPT ![q].created = TRUE, ![q].at = "served"]
  BY DEF AcquireLease
<1>4. /\ OnlyMoves(q) /\ Same(y, x) /\ y.created = TRUE /\ y.at = "served"
      /\ y.repo = x.repo /\ y.previous = x.previous /\ y.guarded = x.guarded
      /\ y.resolving = x.resolving /\ y.last = x.last /\ y.found = x.found
  BY <1>1, <1>2, <1>3, CreatedSet DEF Shaped
<1>5. Fits(q)'
  BY <1>1, <1>4 DEF Fits, Same, Entering, Fresh, Undoing, Leaving, Ending
<1>6. SharedTyped'
  BY <1>1 DEF AcquireLease, Shaped, TypeOK, SharedTyped, Session, Repo, Record, Fits, Target,
     registry, session, history, Up
<1> QED BY <1>1, <1>4, <1>5, <1>6, ShapeKept

LEMMA SetDefaultStep ==
  ASSUME Shaped, NEW q \in Requests, SetDefault(q)
  PROVE  /\ UnderWay(q) /\ Fits(q) /\ request[q] \in Record /\ request[q].at = "served"
         /\ request[q].guarded => Moved(q, "leaving")
         /\ ~request[q].guarded => Moved(q, "telling")
         /\ Shaped'
<1>1. UnderWay(q) /\ request[q] \in Record /\ Fits(q) /\ request[q].at = "served"
  BY Underway DEF SetDefault, Places
<1>2. request[q].guarded => Moved(q, "leaving")
  BY <1>1, GotoMoves DEF SetDefault, Shaped, Places
<1>3. ~request[q].guarded => Moved(q, "telling")
  BY <1>1, GotoMoves DEF SetDefault, Shaped, Places
<1>4. OnlyMoves(q) /\ Fits(q)'
  BY <1>1, <1>2, <1>3 DEF Fits, Moved, Same, Still, Entering, Fresh, Undoing, Leaving, Ending
<1>5. SharedTyped'
  BY <1>1 DEF SetDefault, Shaped, TypeOK, SharedTyped, Session, Repo, Record, Fits, Target, registry,
     history
<1> QED BY <1>1, <1>2, <1>3, <1>4, <1>5, ShapeKept

LEMMA TellStep ==
  ASSUME Shaped, NEW q \in Requests, NEW success \in BOOLEAN, Tell(q, success)
  PROVE  /\ UnderWay(q) /\ Fits(q) /\ request[q] \in Record /\ request[q].at = "telling"
         /\ request[q].resolving => Moved(q, "leaving")
         /\ ~request[q].resolving => Ended(q)
         /\ Shaped'
<1>1. UnderWay(q) /\ request[q] \in Record /\ Fits(q) /\ request[q].at = "telling"
  BY Underway DEF Tell, Places
<1>2. request[q].resolving => Moved(q, "leaving")
  BY <1>1, GotoMoves DEF Tell, Shaped, Places
<1>3. ~request[q].resolving => Ended(q)
  BY <1>1, GotoDone DEF Tell, Shaped
<1>4. OnlyMoves(q) /\ (UnderWay(q)' => Fits(q)')
  BY <1>1, <1>2, <1>3, OverFacts DEF Ended, Fits, Moved, Same, Still, Entering, Fresh, Undoing,
     Leaving, Ending
<1>5. SharedTyped'
  BY <1>1 DEF Tell, Shaped, TypeOK, SharedTyped, Session, Repo, Record, Fits, Target, registry,
     session
<1> QED BY <1>1, <1>2, <1>3, <1>4, <1>5, ShapeKept

LEMMA CountsTyped ==
  ASSUME NEW count \in [Repos -> Nat], NEW r \in Repos
  PROVE  Up(count, r) \in [Repos -> Nat] /\ Down(count, r) \in [Repos -> Nat]
<1>1. count[r] + 1 \in Nat /\ Less(count[r]) \in Nat
  BY DEF Less
<1> QED BY <1>1 DEF Up, Down

LEMMA PrunedFacts ==
  ASSUME NEW catalog \in SUBSET Repos, NEW r, NEW pendings, NEW actives
  PROVE  /\ Pruned(catalog, r, pendings, actives) \in SUBSET Repos
         /\ \A k : k \in Pruned(catalog, r, pendings, actives) <=>
              k \in catalog /\ ~(k = r /\ actives[r] = 0 /\ pendings[r] = 0 /\ r \notin Startup)
BY DEF Pruned

LEMMA DropResolutionStep ==
  ASSUME Shaped, NEW q \in Requests, DropResolution(q)
  PROVE  LET y == request'[q]
             x == request[q] IN
         /\ UnderWay(q) /\ Fits(q) /\ x \in Record /\ x.at = "leaving" /\ x.resolving
         /\ x.guarded =>
              /\ OnlyMoves(q) /\ Same(y, x) /\ ~y.resolving /\ y.at = "waiting"
              /\ y.repo = x.repo /\ y.previous = x.previous /\ y.created = x.created
              /\ y.guarded = x.guarded /\ y.last = x.last /\ y.found = x.found
         /\ ~x.guarded => Ended(q)
         /\ Shaped'
<1> DEFINE x == request[q]  y == request'[q]
<1>1. UnderWay(q) /\ x \in Record /\ Fits(q) /\ x.at = "leaving"
  BY Underway DEF DropResolution, Places
<1>2. ASSUME x.guarded
      PROVE  /\ OnlyMoves(q) /\ Same(y, x) /\ ~y.resolving /\ y.at = "waiting"
             /\ y.repo = x.repo /\ y.previous = x.previous /\ y.created = x.created
             /\ y.guarded = x.guarded /\ y.last = x.last /\ y.found = x.found
  <2>1. request' = [request EXCEPT ![q].resolving = FALSE, ![q].at = "waiting"]
    BY <1>2 DEF DropResolution
  <2>2. FALSE \in BOOLEAN /\ "waiting" \in Places
    BY DEF Places
  <2> QED BY <1>1, <2>1, <2>2, ResolvingSet DEF Shaped
<1>3. ~x.guarded => Ended(q)
  BY <1>1, GotoDone DEF DropResolution, Shaped
<1>4. OnlyMoves(q) /\ (UnderWay(q)' => Fits(q)')
  BY <1>1, <1>2, <1>3, OverFacts DEF Ended, Fits, Same, Entering, Fresh, Undoing, Leaving, Ending
<1>5. SharedTyped'
  <2>0. Repo(q) \in Repos
    BY <1>1 DEF Record, Fits, Target, Repo
  <2>1. /\ pending' = Down(pending, Repo(q)) /\ known' = Pruned(known, Repo(q), pending', active)
        /\ UNCHANGED <<active, leases, session, history>>
    BY Zenon DEF DropResolution
  <2>2. known' \in SUBSET Repos /\ pending' \in [Repos -> Nat]
    BY <2>0, <2>1, PrunedFacts, CountsTyped DEF Shaped, TypeOK, SharedTyped
  <2> QED BY <2>1, <2>2 DEF Shaped, TypeOK, SharedTyped, session, history
<1>6. x.resolving
  BY <1>1 DEF Fits
<1> QED BY <1>1, <1>2, <1>3, <1>4, <1>5, <1>6, ShapeKept

LEMMA ReleaseStep ==
  ASSUME Shaped, NEW q \in Requests, Release(q)
  PROVE  LET y == request'[q]
             x == request[q] IN
         /\ UnderWay(q) /\ Fits(q) /\ x \in Record /\ x.at = "releasing" /\ x.repo \in Repos
         /\ OnlyMoves(q) /\ Same(y, x) /\ y.at = "released"
         /\ y.last <=> active'[x.repo] = 0
         /\ y.found <=> x.repo \in known \/ x.repo \notin Imported
         /\ y.repo = x.repo /\ y.previous = x.previous /\ y.created = x.created
         /\ y.guarded = x.guarded /\ y.resolving = x.resolving
         /\ Shaped'
<1> DEFINE x == request[q]  y == request'[q]
<1>1. UnderWay(q) /\ x \in Record /\ Fits(q) /\ x.at = "releasing"
  BY Underway DEF Release, Places
<1>2. PICK v \in BOOLEAN, w \in BOOLEAN :
        /\ v <=> active'[x.repo] = 0
        /\ w <=> x.repo \in known \/ x.repo \notin Imported
        /\ request' = [request EXCEPT ![q].last = v, ![q].at = "released", ![q].found = w]
  <2> DEFINE v == active'[x.repo] = 0  w == x.repo \in known \/ x.repo \notin Imported
  <2>1. v \in BOOLEAN /\ w \in BOOLEAN
    OBVIOUS
  <2>2. request' = [request EXCEPT ![q].last = v, ![q].at = "released", ![q].found = w]
    BY DEF Release, Repo
  <2>3. (v <=> active'[x.repo] = 0) /\ (w <=> x.repo \in known \/ x.repo \notin Imported)
    OBVIOUS
  <2> HIDE DEF v, w
  <2> QED BY <2>1, <2>2, <2>3, Zenon
<1>3. /\ OnlyMoves(q) /\ Same(y, x) /\ y.at = "released" /\ y.last = v /\ y.found = w
      /\ y.repo = x.repo /\ y.previous = x.previous /\ y.created = x.created
      /\ y.guarded = x.guarded /\ y.resolving = x.resolving
  <2>1. "released" \in Places /\ TypeOK
    BY DEF Places, Shaped
  <2>2. request' = [request EXCEPT ![q].last = v, ![q].at = "released", ![q].found = w]
    BY <1>2
  <2> HIDE DEF x, y
  <2> QED BY <1>1, <2>1, <2>2, LastSet, Zenon DEF x, y
<1>4. Fits(q)'
  BY <1>1, <1>3 DEF Fits, Same, Entering, Fresh, Undoing, Leaving, Ending
<1>5. x.repo \in Repos
  BY <1>1 DEF Record, Fits, Target
<1>6. SharedTyped'
  <2>1. /\ UNCHANGED <<known, pending, leases, adopted, default, attaching, open>>
        /\ UNCHANGED <<refused, crossed, forgotten, completed, unanswered>>
    BY DEF Release, session, history
  <2>2. active' = [active EXCEPT ![x.repo] = Less(@)]
    BY DEF Release, Down, Repo
  <2>3. active \in [Repos -> Nat] /\ Less(active[x.repo]) \in Nat
    BY <1>5 DEF Shaped, TypeOK, SharedTyped, Less
  <2>4. active' \in [Repos -> Nat]
    BY <1>5, <2>2, <2>3
  <2> QED BY <2>1, <2>4 DEF Shaped, TypeOK, SharedTyped
<1> QED BY <1>1, <1>2, <1>3, <1>4, <1>5, <1>6, ShapeKept

\* Where a request goes on that has let a repository go.
LEMMA RestFacts ==
  ASSUME Shaped, NEW q \in Requests, UnderWay(q), request[q].at \notin {"rollback", "restored"} => request[q].at = "released"
  PROVE  /\ Rest(q) \in {"failed", "leaving", "closing", "done"}
         /\ request[q].guarded => Rest(q) = "failed"
         /\ ~request[q].guarded /\ request[q].resolving => Rest(q) = "leaving"
         /\ request[q].kind = "close" => Rest(q) = "closing"
         /\ Rest(q) = "closing" => request[q].kind = "close"
         /\ Rest(q) = "done" => ~request[q].guarded /\ ~request[q].resolving
         /\ Rest(q) = "leaving" => request[q].resolving
         /\ Rest(q) = "failed" => request[q].guarded
BY DEF Rest, Shaped, PlacesFit, Fits, Undoing

LEMMA ReleaseLeaseStep ==
  ASSUME Shaped, NEW q \in Requests, ReleaseLease(q)
  PROVE  /\ UnderWay(q) /\ Fits(q) /\ request[q] \in Record /\ request[q].at = "released"
         /\ request[q].repo \in Repos
         /\ Rest(q) # "done" => Moved(q, Rest(q))
         /\ Rest(q) = "done" => Ended(q)
         /\ Shaped'
<1>1. UnderWay(q) /\ request[q] \in Record /\ Fits(q) /\ request[q].at = "released"
  BY Underway DEF ReleaseLease, Places
<1>2. Rest(q) # "done" => Moved(q, Rest(q))
  BY <1>1, GotoMoves, RestFacts DEF ReleaseLease, Shaped, Places
<1>3. Rest(q) = "done" => Ended(q)
  BY <1>1, GotoDone DEF ReleaseLease, Shaped
<1>4. OnlyMoves(q) /\ (UnderWay(q)' => Fits(q)')
  <2>1. CASE Rest(q) = "done"
    BY <2>1, <1>3, OverFacts DEF Ended
  <2>2. CASE Rest(q) # "done"
    <3>1. /\ Rest(q) \in {"failed", "leaving", "closing"}
          /\ request[q].guarded => Rest(q) = "failed"
          /\ ~request[q].guarded /\ request[q].resolving => Rest(q) = "leaving"
          /\ request[q].kind = "close" => Rest(q) = "closing"
          /\ Rest(q) = "closing" => request[q].kind = "close"
          /\ Rest(q) = "leaving" => request[q].resolving
          /\ Rest(q) = "failed" => request[q].guarded
      BY <1>1, <2>2, RestFacts
    <3> QED BY <2>2, <3>1, <1>1, <1>2 DEF Fits, Moved, Same, Still, Entering, Fresh, Undoing, Leaving,
               Ending
  <2> QED BY <2>1, <2>2
<1>5. SharedTyped' /\ request[q].repo \in Repos
  <2>2. request[q].repo \in Repos
    BY <1>1 DEF Record, Fits, Target
  <2>1. known' \in SUBSET Repos /\ leases' \in [Repos -> Nat]
    BY <2>2, PrunedFacts, CountsTyped DEF ReleaseLease, Shaped, TypeOK, SharedTyped, Repo
  <2>3. UNCHANGED <<pending, active, session, history>>
    BY DEF ReleaseLease
  <2> QED BY <2>1, <2>2, <2>3 DEF Shaped, TypeOK, SharedTyped, session, history
<1> QED BY <1>1, <1>2, <1>3, <1>4, <1>5, ShapeKept

LEMMA LetGoFacts ==
  ASSUME Shaped, NEW q \in Requests, Session(q) \in Sessions, NEW r \in Repos, LetGo(q, r)
  PROVE  /\ adopted' \in [Sessions -> SUBSET Repos] /\ crossed' \in SUBSET Repos
         /\ adopted'[Session(q)] = adopted[Session(q)] \ {r}
         /\ \A s \in Sessions : s # Session(q) => adopted'[s] = adopted[s]
         /\ unanswered' \in [Sessions -> SUBSET Repos]
         /\ unanswered'[Session(q)] = unanswered[Session(q)] \ {r}
         /\ \A s \in Sessions : s # Session(q) => unanswered'[s] = unanswered[s]
         /\ crossed \subseteq crossed' /\ crossed' \subseteq crossed \cup {r}
         /\ r \notin crossed' => \A p \in Requests \ {q} : UnderWay(p) /\ Session(p) = Session(q) => Repo(p) # r
<1>1. /\ adopted \in [Sessions -> SUBSET Repos] /\ crossed \in SUBSET Repos
      /\ unanswered \in [Sessions -> SUBSET Repos]
  BY DEF Shaped, TypeOK, SharedTyped
<1>2. /\ adopted' = [adopted EXCEPT ![Session(q)] = adopted[Session(q)] \ {r}]
      /\ unanswered' = [unanswered EXCEPT ![Session(q)] = unanswered[Session(q)] \ {r}]
  BY DEF LetGo
<1>3. /\ crossed' = crossed \/ crossed' = crossed \cup {r}
      /\ (\E p \in RequestsOf(Session(q)) \ {q} : Repo(p) = r) => crossed' = crossed \cup {r}
  BY Zenon DEF LetGo
<1>4. r \notin crossed' => \A p \in Requests \ {q} : UnderWay(p) /\ Session(p) = Session(q) => Repo(p) # r
  BY <1>3 DEF RequestsOf
<1> QED BY <1>1, <1>2, <1>3, <1>4

LEMMA DetachStep ==
  ASSUME Shaped, NEW q \in Requests, Detach(q)
  PROVE  /\ UnderWay(q) /\ Fits(q) /\ request[q] \in Record /\ request[q].at = "detaching"
         /\ request[q].repo \in Repos
         /\ Repo(q) \in adopted[Session(q)] => Moved(q, "forgetting")
         /\ Repo(q) \notin adopted[Session(q)] => Ended(q)
         /\ Shaped'
<1>1. UnderWay(q) /\ request[q] \in Record /\ Fits(q) /\ request[q].at = "detaching"
  BY Underway DEF Detach, Places
<1>2. Repo(q) \in adopted[Session(q)] => Moved(q, "forgetting")
  BY <1>1, GotoMoves DEF Detach, Shaped, Places
<1>3. Repo(q) \notin adopted[Session(q)] => Ended(q)
  BY <1>1, GotoDone DEF Detach, Shaped
<1>4. OnlyMoves(q) /\ (UnderWay(q)' => Fits(q)')
  BY <1>1, <1>2, <1>3, OverFacts DEF Ended, Fits, Moved, Same, Still, Entering, Fresh, Undoing,
     Leaving, Ending
<1>5. Repo(q) \in Repos
  BY <1>1 DEF Record, Fits, Target, Repo
<1>6. SharedTyped'
  <2>1. /\ (Repo(q) \in adopted[Session(q)] /\ LetGo(q, Repo(q))) \/ UNCHANGED <<adopted, crossed, unanswered>>
        /\ completed' = [completed EXCEPT ![Session(q)] = @ \ {Repo(q)}]
        /\ UNCHANGED <<registry, leases, default, attaching, open, refused, forgotten>>
    BY Zenon DEF Detach
  <2>2. Session(q) \in Sessions
    BY <1>1 DEF Record, Session
  <2>3. /\ adopted' \in [Sessions -> SUBSET Repos] /\ crossed' \in SUBSET Repos
        /\ unanswered' \in [Sessions -> SUBSET Repos]
    BY <2>1, <2>2, <1>5, LetGoFacts DEF Shaped, TypeOK, SharedTyped
  <2> QED BY <2>1, <2>2, <2>3 DEF Shaped, TypeOK, SharedTyped, registry
<1> QED BY <1>1, <1>2, <1>3, <1>4, <1>5, <1>6, ShapeKept DEF Repo

LEMMA LookAtDefaultStep ==
  ASSUME Shaped, NEW q \in Requests, LookAtDefault(q)
  PROVE  /\ UnderWay(q) /\ Fits(q) /\ request[q] \in Record /\ request[q].at = "looking"
         /\ Moved(q, "clearing") \/ Moved(q, "releasing")
         /\ Shaped'
<1>1. UnderWay(q) /\ request[q] \in Record /\ Fits(q) /\ request[q].at = "looking"
  BY Underway DEF LookAtDefault, Places
<1>2. Moved(q, "clearing") \/ Moved(q, "releasing")
  BY <1>1, GotoMoves DEF LookAtDefault, Shaped, Places
<1>3. OnlyMoves(q) /\ Fits(q)'
  BY <1>1, <1>2 DEF Fits, Moved, Same, Still, Entering, Fresh, Undoing, Leaving, Ending
<1>4. SharedTyped'
  BY DEF LookAtDefault, Shaped, TypeOK, SharedTyped, registry, session, history
<1> QED BY <1>1, <1>2, <1>3, <1>4, ShapeKept

LEMMA NoAttachFacts ==
  /\ None \in Target
  /\ NoAttach \in AttachState /\ NoAttach.inFlight = 0 /\ ~NoAttach.completed /\ ~NoAttach.rollback
BY DEF NoAttach, AttachState, Target

LEMMA CloseOneStep ==
  ASSUME Shaped, NEW q \in Requests, CloseOne(q)
  PROVE  LET y == request'[q]
             x == request[q]
             mine == adopted[Session(q)] IN
         /\ UnderWay(q) /\ Fits(q) /\ x \in Record /\ x.at = "closing"
         /\ mine = {} => Ended(q) /\ UNCHANGED <<adopted, crossed, unanswered>>
         /\ mine # {} => \E r \in mine :
              /\ LetGo(q, r)
              /\ OnlyMoves(q) /\ Same(y, x) /\ y.repo = r /\ y.at = "releasing"
              /\ y.previous = x.previous /\ y.created = x.created /\ y.guarded = x.guarded
              /\ y.resolving = x.resolving /\ y.last = x.last /\ y.found = x.found
         /\ Shaped'
<1> DEFINE x == request[q]  y == request'[q]  mine == adopted[Session(q)]
<1>1. UnderWay(q) /\ x \in Record /\ Fits(q) /\ x.at = "closing" /\ Session(q) \in Sessions
  BY Underway DEF CloseOne, Places, Record, Session
<1>2. mine \in SUBSET Repos
  BY <1>1 DEF Shaped, TypeOK, SharedTyped
<1>3. mine = {} => Ended(q) /\ UNCHANGED <<adopted, crossed, unanswered>>
  BY <1>1, GotoDone DEF CloseOne, Shaped
<1>4. ASSUME NEW r \in mine, LetGo(q, r), request' = [request EXCEPT ![q].repo = r, ![q].at = "releasing"]
      PROVE  /\ OnlyMoves(q) /\ Same(y, x) /\ y.repo = r /\ y.at = "releasing"
             /\ y.previous = x.previous /\ y.created = x.created /\ y.guarded = x.guarded
             /\ y.resolving = x.resolving /\ y.last = x.last /\ y.found = x.found
             /\ Fits(q)'
             /\ adopted' \in [Sessions -> SUBSET Repos] /\ crossed' \in SUBSET Repos
             /\ unanswered' \in [Sessions -> SUBSET Repos]
  <2>1. r \in Target /\ "releasing" \in Places /\ r # None
    BY <1>2, <1>4, SessionsAssumption DEF Target, Places
  <2>2. /\ OnlyMoves(q) /\ Same(y, x) /\ y.repo = r /\ y.at = "releasing"
        /\ y.previous = x.previous /\ y.created = x.created /\ y.guarded = x.guarded
        /\ y.resolving = x.resolving /\ y.last = x.last /\ y.found = x.found
    BY <1>1, <1>4, <2>1, RepoSet DEF Shaped
  <2>3. Fits(q)'
    BY <1>1, <2>1, <2>2 DEF Fits, Same, Entering, Fresh, Undoing, Leaving, Ending
  <2>4. /\ adopted' \in [Sessions -> SUBSET Repos] /\ crossed' \in SUBSET Repos
        /\ unanswered' \in [Sessions -> SUBSET Repos]
    BY <1>1, <1>2, <1>4 DEF LetGo, Shaped, TypeOK, SharedTyped
  <2> QED BY <2>2, <2>3, <2>4
<1>5. mine # {} => \E r \in mine :
        LetGo(q, r) /\ request' = [request EXCEPT ![q].repo = r, ![q].at = "releasing"]
  BY Zenon DEF CloseOne
<1>6. /\ OnlyMoves(q) /\ (UnderWay(q)' => Fits(q)')
      /\ adopted' \in [Sessions -> SUBSET Repos] /\ crossed' \in SUBSET Repos
      /\ unanswered' \in [Sessions -> SUBSET Repos]
  <2>1. CASE mine = {}
    BY <2>1, <1>3, OverFacts DEF Ended, Shaped, TypeOK, SharedTyped
  <2>2. CASE mine # {}
    BY <2>2, <1>4, <1>5
  <2> QED BY <2>1, <2>2
<1>7. SharedTyped'
  <2>1. /\ default' = [default EXCEPT ![Session(q)] = None]
        /\ attaching' = [attaching EXCEPT ![Session(q)] = [r \in Repos |-> NoAttach]]
        /\ completed' = [completed EXCEPT ![Session(q)] = {}]
        /\ UNCHANGED <<registry, leases, open, refused, forgotten>>
    BY Zenon DEF CloseOne
  <2> QED BY <1>1, <1>6, <2>1, NoAttachFacts DEF Shaped, TypeOK, SharedTyped, registry
<1> QED BY <1>1, <1>3, <1>4, <1>5, <1>6, <1>7, ShapeKept

LEMMA RestoreStep ==
  ASSUME Shaped, NEW q \in Requests, Restore(q)
  PROVE  LET y == request'[q]
             x == request[q] IN
         /\ UnderWay(q) /\ Fits(q) /\ x \in Record /\ x.at = "restoring"
         /\ OnlyMoves(q) /\ Same(y, x) /\ y.at = "restored"
         /\ y.repo = x.repo /\ y.created = x.created /\ y.guarded = x.guarded
         /\ y.resolving = x.resolving /\ y.last = x.last /\ y.found = x.found
         /\ Shaped'
<1> DEFINE x == request[q]  y == request'[q]  v == StillThere(q, adopted[Session(q)])
<1>1. UnderWay(q) /\ x \in Record /\ Fits(q) /\ x.at = "restoring"
  BY Underway DEF Restore, Places
<1>2. v \in Target /\ "restored" \in Places
  BY <1>1 DEF StillThere, Record, Places, Target
<1>3. request' = [request EXCEPT ![q].previous = v, ![q].at = "restored"]
  BY DEF Restore
<1> HIDE DEF v
<1>4. /\ OnlyMoves(q) /\ Same(y, x) /\ y.at = "restored"
      /\ y.repo = x.repo /\ y.created = x.created /\ y.guarded = x.guarded
      /\ y.resolving = x.resolving /\ y.last = x.last /\ y.found = x.found
  BY <1>1, <1>2, <1>3, PreviousSet DEF Shaped
<1>5. Fits(q)'
  BY <1>1, <1>4 DEF Fits, Same, Entering, Fresh, Undoing, Leaving, Ending
<1>6. SharedTyped'
  BY DEF Restore, Shaped, TypeOK, SharedTyped, registry, session, history
<1> QED BY <1>1, <1>4, <1>5, <1>6, ShapeKept

LEMMA UndoDefaultStep ==
  ASSUME Shaped, NEW q \in Requests, UndoDefault(q)
  PROVE  /\ UnderWay(q) /\ Fits(q) /\ request[q] \in Record
         /\ \/ request[q].at = "undoing" /\ Moved(q, "releasing")
            \/ request[q].at = "restored" /\ request[q].resolving /\ Moved(q, "leaving")
            \/ request[q].at = "restored" /\ ~request[q].resolving /\ Ended(q)
         /\ Shaped'
<1>1. /\ UnderWay(q) /\ request[q] \in Record /\ Fits(q)
      /\ request[q].at = "undoing" \/ request[q].at = "restored"
  BY Underway DEF UndoDefault, Places
<1>2. request[q].at = "undoing" => Moved(q, "releasing")
  BY <1>1, GotoMoves DEF UndoDefault, Shaped, Places, At
<1>3. request[q].at = "restored" =>
        /\ Goto(q, Rest(q)) /\ ~request[q].guarded /\ request[q].kind = "attach"
  BY <1>1 DEF UndoDefault, At, Fits, Undoing
<1>4. request[q].at = "restored" /\ request[q].resolving => Moved(q, "leaving")
  BY <1>1, <1>3, GotoMoves DEF Rest, Shaped, Places
<1>5. request[q].at = "restored" /\ ~request[q].resolving => Ended(q)
  BY <1>1, <1>3, GotoDone DEF Rest, Shaped
<1>6. OnlyMoves(q) /\ (UnderWay(q)' => Fits(q)')
  BY <1>1, <1>2, <1>4, <1>5, OverFacts DEF Ended, Fits, Moved, Same, Still, Entering, Fresh, Undoing,
     Leaving, Ending
<1>7. SharedTyped'
  <2>1. Undone(q) \in Target /\ Session(q) \in Sessions
    BY <1>1 DEF Undone, Record, Session
  <2>2. /\ default' = IF default[Session(q)] = Repo(q) THEN [default EXCEPT ![Session(q)] = Undone(q)] ELSE default
        /\ UNCHANGED <<registry, leases, adopted, attaching, open, history>>
    BY DEF UndoDefault
  <2> QED BY <2>1, <2>2 DEF Shaped, TypeOK, SharedTyped, registry, history
<1> QED BY <1>1, <1>2, <1>4, <1>5, <1>6, <1>7, ShapeKept

LEMMA RollbackStep ==
  ASSUME Shaped, NEW q \in Requests, Rollback(q)
  PROVE  LET y == request'[q]
             x == request[q]
             had == Repo(q) \in adopted[Session(q)] IN
         /\ UnderWay(q) /\ Fits(q) /\ x \in Record /\ x.at = "rollback" /\ x.repo \in Repos
         /\ had =>
              /\ LetGo(q, Repo(q))
              /\ OnlyMoves(q) /\ Same(y, x) /\ y.at = "undoing"
              /\ y.previous = StillThere(q, adopted[Session(q)] \ {Repo(q)})
              /\ y.repo = x.repo /\ y.created = x.created /\ y.guarded = x.guarded
              /\ y.resolving = x.resolving /\ y.last = x.last /\ y.found = x.found
         /\ ~had => UNCHANGED <<adopted, crossed, unanswered>>
         /\ ~had /\ x.resolving => Moved(q, "leaving")
         /\ ~had /\ ~x.resolving => Ended(q)
         /\ Shaped'
<1> DEFINE x == request[q]  y == request'[q]  had == Repo(q) \in adopted[Session(q)]
           v == StillThere(q, adopted[Session(q)] \ {Repo(q)})
<1>1. UnderWay(q) /\ x \in Record /\ Fits(q) /\ x.at = "rollback"
  BY Underway DEF Rollback, Places
<1>2. x.repo \in Repos /\ Session(q) \in Sessions
  BY <1>1 DEF Record, Fits, Target, Session
<1>3. v \in Target /\ "undoing" \in Places
  BY <1>1 DEF StillThere, Record, Places, Target
<1>4. ASSUME had
      PROVE  LetGo(q, Repo(q)) /\ request' = [request EXCEPT ![q].previous = v, ![q].at = "undoing"]
  BY <1>4 DEF Rollback
<1>5. ASSUME ~had
      PROVE  UNCHANGED <<adopted, crossed, unanswered>> /\ Goto(q, Rest(q))
  BY <1>5 DEF Rollback
<1> HIDE DEF v
<1>6. ASSUME had
      PROVE  /\ OnlyMoves(q) /\ Same(y, x) /\ y.at = "undoing" /\ y.previous = v
             /\ y.repo = x.repo /\ y.created = x.created /\ y.guarded = x.guarded
             /\ y.resolving = x.resolving /\ y.last = x.last /\ y.found = x.found
             /\ Fits(q)'
  <2>1. /\ OnlyMoves(q) /\ Same(y, x) /\ y.at = "undoing" /\ y.previous = v
        /\ y.repo = x.repo /\ y.created = x.created /\ y.guarded = x.guarded
        /\ y.resolving = x.resolving /\ y.last = x.last /\ y.found = x.found
    BY <1>1, <1>3, <1>4, <1>6, PreviousSet DEF Shaped
  <2>2. Fits(q)'
    BY <1>1, <2>1 DEF Fits, Same, Entering, Fresh, Undoing, Leaving, Ending
  <2> QED BY <2>1, <2>2
<1>7. ~x.guarded /\ x.kind = "attach"
  BY <1>1 DEF Fits, Undoing
<1>8. ~had /\ x.resolving => Moved(q, "leaving")
  BY <1>1, <1>5, <1>7, GotoMoves DEF Rest, Shaped, Places
<1>9. ~had /\ ~x.resolving => Ended(q)
  BY <1>1, <1>5, <1>7, GotoDone DEF Rest, Shaped
<1>10. OnlyMoves(q) /\ (UnderWay(q)' => Fits(q)')
  <2>1. CASE had
    BY <2>1, <1>6
  <2>2. CASE ~had
    BY <2>2, <1>1, <1>8, <1>9, OverFacts DEF Ended, Fits, Moved, Same, Still, Entering, Fresh,
       Undoing, Leaving, Ending
  <2> QED BY <2>1, <2>2
<1>11. SharedTyped'
  <2>1. /\ adopted' \in [Sessions -> SUBSET Repos] /\ crossed' \in SUBSET Repos
        /\ unanswered' \in [Sessions -> SUBSET Repos]
    <3>1. Repo(q) \in Repos
      BY <1>2 DEF Repo
    <3> QED BY <3>1, <1>2, <1>4, <1>5, LetGoFacts DEF Shaped, TypeOK, SharedTyped
  <2>2. UNCHANGED <<registry, leases, default, attaching, open, refused, forgotten, completed>>
    BY DEF Rollback
  <2> QED BY <2>1, <2>2 DEF Shaped, TypeOK, SharedTyped, registry
<1> QED BY <1>1, <1>2, <1>4, <1>5, <1>6, <1>8, <1>9, <1>10, <1>11, ShapeKept DEF v

\* What the end of an attach makes of the state it shares with the others.
LEMMA FinishedFacts ==
  ASSUME NEW q \in Requests, request[q] \in Record, NEW a \in AttachState, NEW success \in BOOLEAN
  PROVE  LET b == Finished(a, q, success)
             x == request[q] IN
         /\ b \in AttachState /\ b.inFlight = Less(a.inFlight)
         /\ success => b.completed /\ ~b.rollback /\ (b.restore => a.restore)
         /\ ~success =>
              /\ b.completed <=> a.completed
              /\ b.rollback <=> a.rollback \/ (x.created /\ ~a.completed)
              /\ b.rollbackTo = IF x.created /\ ~a.completed THEN x.previous ELSE a.rollbackTo
<1> DEFINE x == request[q]  c == Finished(a, q, success)  b == [a EXCEPT !.inFlight = Less(@)]
<1>1. /\ b \in AttachState /\ b.inFlight = Less(a.inFlight) /\ b.completed = a.completed
      /\ b.rollback = a.rollback /\ b.rollbackTo = a.rollbackTo /\ b.restore = a.restore
  BY DEF AttachState, Less
<1>2. x \in Record
  OBVIOUS
<1> DEFINE e == a.defaultConfirmed \/ x.sets
           f == a.restore /\ ~x.sets
           g == IF x.sets THEN None ELSE a.restoreTo
           h == a.rollback \/ ~a.completed
           k == IF a.completed THEN a.rollbackTo ELSE x.previous
           l == a.restore \/ (x.sets /\ ~a.defaultConfirmed)
           m == IF x.sets /\ ~a.defaultConfirmed THEN x.previous ELSE a.restoreTo
<1>3. /\ b = [a EXCEPT !.inFlight = Less(a.inFlight)] /\ b.defaultConfirmed = a.defaultConfirmed
      /\ b.restoreTo = a.restoreTo
  BY DEF AttachState
<1>4. /\ success => c = [b EXCEPT !.completed = TRUE, !.rollback = FALSE, !.rollbackTo = None,
             !.defaultConfirmed = e, !.restore = f, !.restoreTo = g]
      /\ ~success /\ ~x.created => c = b
      /\ ~success /\ x.created => c = [b EXCEPT
             !.rollback = h, !.rollbackTo = k, !.restore = l, !.restoreTo = m]
  <2>1. /\ success => c = [b EXCEPT !.completed = TRUE, !.rollback = FALSE, !.rollbackTo = None,
               !.defaultConfirmed = b.defaultConfirmed \/ x.sets,
               !.restore = b.restore /\ ~x.sets, !.restoreTo = IF x.sets THEN None ELSE b.restoreTo]
        /\ ~success /\ ~x.created => c = b
        /\ ~success /\ x.created => c = [b EXCEPT
               !.rollback = b.rollback \/ ~a.completed,
               !.rollbackTo = IF a.completed THEN b.rollbackTo ELSE x.previous,
               !.restore = b.restore \/ (x.sets /\ ~a.defaultConfirmed),
               !.restoreTo = IF x.sets /\ ~a.defaultConfirmed THEN x.previous ELSE b.restoreTo]
    BY DEF Finished
  <2> HIDE DEF b, c, x
  <2> QED BY <1>1, <1>3, <2>1
<1>5. e \in BOOLEAN /\ f \in BOOLEAN /\ h \in BOOLEAN /\ l \in BOOLEAN
  OBVIOUS
<1>6. g \in Target /\ k \in Target /\ m \in Target
  BY <1>2 DEF AttachState, Record, Target
<1>7. /\ f => a.restore /\ ~x.sets
      /\ x.created => (h <=> a.rollback \/ (x.created /\ ~a.completed))
      /\ x.created => k = IF x.created /\ ~a.completed THEN x.previous ELSE a.rollbackTo
  OBVIOUS
<1>8. None \in Target
  BY DEF Target
<1> HIDE DEF b, c, e, f, g, h, k, l, m, x
<1>9. CASE success
  BY <1>1, <1>4, <1>5, <1>6, <1>7, <1>8, <1>9 DEF AttachState, c, x
<1>10. CASE ~success /\ ~x.created
  BY <1>1, <1>4, <1>10 DEF AttachState, c, x
<1>11. CASE ~success /\ x.created
  BY <1>1, <1>4, <1>5, <1>6, <1>7, <1>11 DEF AttachState, c, x
<1> QED BY <1>9, <1>10, <1>11

\* The attach states after the end of an attach, and where its request goes on.
LEMMA FinishStep ==
  ASSUME Shaped, NEW q \in Requests, NEW success \in BOOLEAN, Finish(q, success)
  PROVE  LET y == request'[q]
             x == request[q]
             s == Session(q)
             r == Repo(q)
             a == attaching[s][r]
             b == Finished(a, q, success)
             Kept == /\ OnlyMoves(q) /\ Same(y, x) /\ y.repo = x.repo /\ y.created = x.created /\ ~y.guarded
                     /\ y.resolving = x.resolving /\ y.last = x.last /\ y.found = x.found IN
         /\ UnderWay(q) /\ Fits(q) /\ x \in Record /\ x.guarded /\ s \in Sessions /\ r \in Repos
         /\ x.at \in {"waiting", "answering", "failed"} /\ (success => x.at = "answering")
         /\ a \in AttachState /\ b \in AttachState
         /\ attaching' \in [Sessions -> [Repos -> AttachState]]
         /\ attaching'[s][r] = (IF b.inFlight = 0 THEN NoAttach ELSE b)
         /\ \A u \in Sessions, k \in Repos : u # s \/ k # r => attaching'[u][k] = attaching[u][k]
         /\ completed' = IF success THEN [completed EXCEPT ![s] = @ \cup {r}] ELSE completed
         /\ RollsBack(b) => Kept /\ y.at = "rollback" /\ y.previous = b.rollbackTo
         /\ ~RollsBack(b) /\ Restores(b) => Kept /\ y.at = "restoring"
         /\ ~RollsBack(b) /\ ~Restores(b) /\ x.resolving => Kept /\ y.at = "leaving" /\ y.previous = x.previous
         /\ ~RollsBack(b) /\ ~Restores(b) /\ ~x.resolving => Ended(q)
         /\ Shaped'
<1> DEFINE y == request'[q]  x == request[q]  s == Session(q)  r == Repo(q)
           a == attaching[s][r]  b == Finished(a, q, success)
           Kept == /\ OnlyMoves(q) /\ Same(y, x) /\ y.repo = x.repo /\ y.created = x.created /\ ~y.guarded
                   /\ y.resolving = x.resolving /\ y.last = x.last /\ y.found = x.found
<1>1. /\ UnderWay(q) /\ x \in Record /\ Fits(q)
      /\ x.at \in {"waiting", "answering", "failed"} /\ (success => x.at = "answering")
  <2>1. IF success THEN At(q, "answering") ELSE \E place \in {"waiting", "answering", "failed"} : At(q, place)
    BY DEF Finish
  <2> QED BY <2>1, Underway DEF Places, At
<1>2. x.guarded /\ s \in Sessions /\ r \in Repos
  BY <1>1 DEF Fits, Record, Target, Session, Repo
<1>3. a \in AttachState
  BY <1>2 DEF Shaped, TypeOK, SharedTyped
<1>4. b \in AttachState
  BY <1>1, <1>3, FinishedFacts
<1>5. /\ attaching' = [attaching EXCEPT ![s][r] = IF b.inFlight = 0 THEN NoAttach ELSE b]
      /\ completed' = IF success THEN [completed EXCEPT ![s] = @ \cup {r}] ELSE completed
      /\ IF RollsBack(b) \/ Restores(b)
         THEN request' = [request EXCEPT ![q].guarded = FALSE,
                ![q].previous = IF RollsBack(b) THEN b.rollbackTo ELSE b.restoreTo,
                ![q].at = IF RollsBack(b) THEN "rollback" ELSE "restoring"]
         ELSE IF request[q].resolving
         THEN request' = [request EXCEPT ![q].guarded = FALSE, ![q].at = "leaving"]
         ELSE Goto(q, "done")
      /\ UNCHANGED <<registry, leases, adopted, default, open, refused, crossed, forgotten, unanswered>>
  BY DEF Finish
<1> HIDE DEF b
<1>6. b.rollbackTo \in Target /\ b.restoreTo \in Target
  BY <1>4 DEF AttachState
<1> DEFINE v == IF RollsBack(b) THEN b.rollbackTo ELSE b.restoreTo
           place == IF RollsBack(b) THEN "rollback" ELSE "restoring"
<1>7. ASSUME RollsBack(b) \/ Restores(b) PROVE Kept /\ y.at = place /\ y.previous = v
  <2> DEFINE z == [x EXCEPT !.guarded = FALSE, !.previous = v, !.at = place]
  <2>1. request' = [request EXCEPT ![q] = z]
    BY <1>5, <1>7
  <2>2. v \in Target /\ place \in Places
    BY <1>6 DEF Places
  <2> HIDE DEF v, place, x, y
  <2>3. /\ Same(z, x) /\ ~z.guarded /\ z.previous = v /\ z.at = place
        /\ z.repo = x.repo /\ z.created = x.created /\ z.resolving = x.resolving /\ z.last = x.last
        /\ z.found = x.found
    BY <1>1, <2>2 DEF Record, Same
  <2> HIDE DEF z
  <2>4. OnlyMoves(q) /\ y = z
    BY <2>1, <2>3, TypedIfOne DEF Same, Shaped, TypeOK, y
  <2> QED BY <2>3, <2>4
<1>8. /\ RollsBack(b) => Kept /\ y.at = "rollback" /\ y.previous = b.rollbackTo
      /\ ~RollsBack(b) /\ Restores(b) => Kept /\ y.at = "restoring"
  <2>1. /\ RollsBack(b) => v = b.rollbackTo /\ place = "rollback"
        /\ ~RollsBack(b) => place = "restoring"
    OBVIOUS
  <2> HIDE DEF Kept, v, place
  <2> QED BY <2>1, <1>7
<1> HIDE DEF v, place
<1>9. ASSUME ~RollsBack(b), ~Restores(b), x.resolving
      PROVE  Kept /\ y.at = "leaving" /\ y.previous = x.previous
  <2>1. request' = [request EXCEPT ![q].guarded = FALSE, ![q].at = "leaving"]
    BY <1>5, <1>9
  <2>2. "leaving" \in Places /\ FALSE \in BOOLEAN /\ TypeOK
    BY DEF Places, Shaped
  <2> HIDE DEF x, y
  <2> QED BY <1>1, <2>1, <2>2, GuardSet, Zenon DEF x, y
<1>10. ASSUME ~RollsBack(b), ~Restores(b), ~x.resolving PROVE Ended(q)
  BY <1>5, <1>10, GotoDone DEF Shaped
<1>11. OnlyMoves(q) /\ (UnderWay(q)' => Fits(q)')
  <2>0. x.kind = "attach" /\ ~(x.at \in {"waiting", "answering"} /\ x.resolving) /\ x.repo # None
    BY <1>1, <1>2 DEF Fits
  <2>1. CASE RollsBack(b)
    BY <2>1, <2>0, <1>1, <1>8 DEF Fits, Same, Entering, Fresh, Undoing, Leaving, Ending
  <2>2. CASE ~RollsBack(b) /\ Restores(b)
    BY <2>2, <2>0, <1>1, <1>8 DEF Fits, Same, Entering, Fresh, Undoing, Leaving, Ending
  <2>3. CASE ~RollsBack(b) /\ ~Restores(b) /\ x.resolving
    BY <2>3, <2>0, <1>1, <1>9 DEF Fits, Same, Entering, Fresh, Undoing, Leaving, Ending
  <2>4. CASE ~RollsBack(b) /\ ~Restores(b) /\ ~x.resolving
    BY <2>4, <1>10, OverFacts DEF Ended
  <2> QED BY <2>1, <2>2, <2>3, <2>4
<1>12. /\ attaching' \in [Sessions -> [Repos -> AttachState]]
       /\ attaching'[s][r] = (IF b.inFlight = 0 THEN NoAttach ELSE b)
       /\ \A u \in Sessions, k \in Repos : u # s \/ k # r => attaching'[u][k] = attaching[u][k]
  <2> DEFINE z == IF b.inFlight = 0 THEN NoAttach ELSE b
  <2>1. z \in AttachState
    BY <1>4, NoAttachFacts
  <2>2. attaching' = [attaching EXCEPT ![s][r] = z]
    BY <1>5
  <2>3. attaching \in [Sessions -> [Repos -> AttachState]]
    BY DEF Shaped, TypeOK, SharedTyped
  <2> HIDE DEF z, s, r
  <2>4. /\ attaching' \in [Sessions -> [Repos -> AttachState]] /\ attaching'[s][r] = z
        /\ \A u \in Sessions, k \in Repos : u # s \/ k # r => attaching'[u][k] = attaching[u][k]
    BY <1>2, <2>1, <2>2, <2>3, AttachSet
  <2> QED BY <2>4 DEF z
<1>13. SharedTyped'
  <2> HIDE DEF s, r
  <2> QED BY <1>2, <1>5, <1>12 DEF Shaped, TypeOK, SharedTyped, registry
<1>14. Shaped'
  BY <1>11, <1>13, ShapeKept
<1> HIDE DEF Kept
<1>15. /\ RollsBack(b) => Kept /\ y.at = "rollback" /\ y.previous = b.rollbackTo
       /\ ~RollsBack(b) /\ Restores(b) => Kept /\ y.at = "restoring"
       /\ ~RollsBack(b) /\ ~Restores(b) /\ x.resolving => Kept /\ y.at = "leaving" /\ y.previous = x.previous
       /\ ~RollsBack(b) /\ ~Restores(b) /\ ~x.resolving => Ended(q)
  BY <1>8, <1>9, <1>10
<1> QED BY <1>1, <1>2, <1>3, <1>4, <1>5, <1>12, <1>14, <1>15, Zenon DEF b, Kept

-----------------------------------------------------------------------------
(* The beginning of a request. *)

LEMMA MakeStep ==
  ASSUME Shaped, NEW q \in Requests, NEW s \in Sessions, NEW r \in Target, NEW kind, NEW sets,
         NEW place \in Places, Make(q, s, r, kind, sets, place)
  PROVE  LET y == request'[q] IN
         /\ At(q, "unmade") /\ ~UnderWay(q) /\ s \in open
         /\ RequestTyped' /\ Others(q)
         /\ \A p \in Requests \ {q} :
              UnderWay(p) => request'[p].before = (IF Session(p) = s THEN NoRecord ELSE request[p].before)
         /\ y \in Record /\ y.at = place /\ y.session = s /\ y.repo = r /\ y.kind = kind
         /\ y.sets = sets
         /\ ~y.created /\ ~y.guarded /\ ~y.last /\ y.found /\ (y.resolving <=> kind \in {"attach", "prepare"})
         /\ y.before = Before(s, kind)
<1> DEFINE y == New(s, r, kind, sets, place)
           back(p) == [request[p] EXCEPT !.before = NoRecord]
<1>1. kind \in Kinds /\ sets \in BOOLEAN /\ At(q, "unmade") /\ s \in open
  BY SessionsAssumption DEF Make, Kinds
<1>2. ~UnderWay(q)
  BY <1>1 DEF UnderWay
<1>3. request' = [p \in Requests |->
        IF p = q THEN y ELSE IF p \in RequestsOf(s) THEN back(p) ELSE request[p]]
  BY Zenon DEF Make
<1>4. adopted[s] \in SUBSET Repos /\ default[s] \in Target
  BY DEF Shaped, TypeOK, SharedTyped
<1>5. NoRecord \in RecordOfBefore /\ Before(s, kind) \in RecordOfBefore
  BY <1>4 DEF NoRecord, RecordOfBefore, Before, Target
<1>6. /\ y \in Record /\ y.at = place /\ y.session = s /\ y.repo = r /\ y.kind = kind /\ y.sets = sets
      /\ ~y.created /\ ~y.guarded /\ ~y.last /\ y.found /\ (y.resolving <=> kind \in {"attach", "prepare"})
      /\ y.before = Before(s, kind)
  <2> DEFINE b == Before(s, kind)  v == kind \in {"attach", "prepare"}
  <2>1. y = [at |-> place, session |-> s, repo |-> r, kind |-> kind, sets |-> sets, previous |-> None,
             created |-> FALSE, guarded |-> FALSE, resolving |-> v, last |-> FALSE, found |-> TRUE,
             before |-> b]
    BY DEF New
  <2>2. v \in BOOLEAN /\ b \in RecordOfBefore /\ None \in Target /\ (v <=> kind \in {"attach", "prepare"})
    BY <1>5 DEF Target
  <2> HIDE DEF y, b, v
  <2>3. /\ y \in Record /\ y.at = place /\ y.session = s /\ y.repo = r /\ y.kind = kind /\ y.sets = sets
        /\ ~y.created /\ ~y.guarded /\ ~y.last /\ y.found /\ y.resolving = v /\ y.before = b
    BY <1>1, <2>1, <2>2 DEF Record
  <2> QED BY <2>2, <2>3 DEF b
<1> HIDE DEF y
<1>7. ASSUME NEW p \in Requests, p # q, UnderWay(p)
      PROVE  /\ back(p) \in Record /\ back(p).at = request[p].at /\ Alike(back(p), request[p])
             /\ back(p).before = NoRecord
  <2>1. request[p] \in Record
    BY <1>7, RequestFacts DEF Shaped
  <2> QED BY <2>1, <1>5 DEF Record, Alike, Still
<1>8. \A p \in RequestsOf(s) : p \in Requests /\ UnderWay(p) /\ Session(p) = s /\ p # q
  BY <1>2 DEF RequestsOf
<1>9. \A p \in Requests : p \notin RequestsOf(s) /\ UnderWay(p) => Session(p) # s
  BY DEF RequestsOf
<1>10. RequestTyped'
  <2>1. \A p \in Requests : request'[p] \in {Unmade, Over} \cup Record
    <3> SUFFICES ASSUME NEW p \in Requests PROVE request'[p] \in {Unmade, Over} \cup Record
      OBVIOUS
    <3>1. CASE p = q
      BY <3>1, <1>3, <1>6
    <3>2. CASE p # q /\ p \in RequestsOf(s)
      <4> HIDE DEF back
      <4> QED BY <3>2, <1>3, <1>7, <1>8
    <3>3. CASE p # q /\ p \notin RequestsOf(s)
      BY <3>3, <1>3 DEF Shaped, TypeOK, RequestTyped
    <3> QED BY <3>1, <3>2, <3>3
  <2> HIDE DEF back
  <2> QED BY <1>3, <2>1 DEF RequestTyped
<1>11. Others(q) /\ \A p \in Requests \ {q} :
         UnderWay(p) => request'[p].before = (IF Session(p) = s THEN NoRecord ELSE request[p].before)
  <2> SUFFICES ASSUME NEW p \in Requests, p # q
               PROVE  /\ request'[p].at = request[p].at
                      /\ UnderWay(p) => /\ Alike(request'[p], request[p])
                                        /\ request'[p].before = (IF Session(p) = s THEN NoRecord ELSE request[p].before)
    BY DEF Others
  <2>1. CASE p \in RequestsOf(s)
    <3> HIDE DEF back
    <3>1. request'[p] = back(p) /\ UnderWay(p) /\ Session(p) = s
      BY <2>1, <1>3, <1>8
    <3> QED BY <3>1, <1>7
  <2>2. CASE p \notin RequestsOf(s)
    <3>1. request'[p] = request[p] /\ (UnderWay(p) => Session(p) # s)
      BY <2>2, <1>3, <1>9
    <3> QED BY <3>1 DEF Alike, Still
  <2> QED BY <2>1, <2>2
<1>12. request'[q] = y
  BY <1>3
<1> QED BY <1>1, <1>2, <1>6, <1>10, <1>11, <1>12

\* A beginning keeps the shape if it keeps the other types and puts its request where it fits.
LEMMA ShapeBegun ==
  ASSUME Shaped, NEW q \in Requests, RequestTyped', Others(q), ~UnderWay(q), SharedTyped', Fits(q)'
  PROVE  Shaped'
<1> SUFFICES ASSUME NEW p \in Requests, UnderWay(p)', p # q PROVE Fits(p)'
  BY DEF Shaped, TypeOK, PlacesFit
<1>1. request'[p].at = request[p].at /\ (UnderWay(p) => Alike(request'[p], request[p]))
  BY DEF Others
<1>2. UnderWay(p) /\ Fits(p)
  BY <1>1 DEF Shaped, PlacesFit, UnderWay, At
<1> QED BY <1>1, <1>2 DEF Fits, Alike, Still

LEMMA ResolvePathStep ==
  ASSUME Shaped, NEW q \in Requests, NEW s \in Sessions, NEW r \in Repos, NEW kind, NEW sets,
         ResolvePath(q, s, r, kind, sets)
  PROVE  LET y == request'[q] IN
         /\ ~UnderWay(q) /\ s \in open /\ kind \in {"attach", "prepare"}
         /\ Others(q)
         /\ \A p \in Requests \ {q} :
              UnderWay(p) => request'[p].before = (IF Session(p) = s THEN NoRecord ELSE request[p].before)
         /\ y \in Record /\ y.at = (IF kind = "attach" THEN "resolved" ELSE "working")
         /\ y.session = s /\ y.repo = r /\ y.kind = kind
         /\ ~y.created /\ ~y.guarded /\ y.resolving /\ y.before = Before(s, kind)
         /\ Shaped'
<1> DEFINE place == IF kind = "attach" THEN "resolved" ELSE "working"
<1>1. /\ kind \in {"attach", "prepare"} /\ Make(q, s, r, kind, sets, place)
      /\ known' = known \cup {r} /\ pending' = Up(pending, r)
      /\ UNCHANGED <<active, leases, session, history>>
  BY Zenon DEF ResolvePath
<1>2. place \in Places /\ r \in Target
  BY DEF Places, Target
<1>3. LET y == request'[q] IN
      /\ ~UnderWay(q) /\ s \in open /\ RequestTyped' /\ Others(q)
      /\ \A p \in Requests \ {q} :
           UnderWay(p) => request'[p].before = (IF Session(p) = s THEN NoRecord ELSE request[p].before)
      /\ y \in Record /\ y.at = place /\ y.session = s /\ y.repo = r /\ y.kind = kind
      /\ ~y.created /\ ~y.guarded /\ y.resolving /\ y.before = Before(s, kind)
  <2> HIDE DEF place
  <2> QED BY <1>1, <1>2, MakeStep
<1>4. Fits(q)'
  <2>1. r # None
    BY SessionsAssumption
  <2> QED BY <2>1, <1>1, <1>3 DEF Fits, Entering, Fresh, Undoing, Leaving, Ending
<1>5. SharedTyped'
  BY <1>1, CountsTyped DEF Shaped, TypeOK, SharedTyped, session, history
<1> QED BY <1>1, <1>3, <1>4, <1>5, ShapeBegun

LEMMA ResolveIdStep ==
  ASSUME Shaped, NEW q \in Requests, NEW s \in Sessions, NEW r \in Repos, NEW sets, ResolveId(q, s, r, sets)
  PROVE  LET y == request'[q] IN
         /\ ~UnderWay(q) /\ s \in open /\ Visible(s, r)
         /\ Others(q)
         /\ \A p \in Requests \ {q} :
              UnderWay(p) => request'[p].before = (IF Session(p) = s THEN NoRecord ELSE request[p].before)
         /\ y \in Record /\ y.at = "working" /\ y.session = s /\ y.repo = r /\ y.kind = "byId"
         /\ ~y.created /\ ~y.guarded /\ ~y.resolving /\ y.before = Before(s, "byId")
         /\ Shaped'
<1>1. /\ Visible(s, r) /\ Make(q, s, r, "byId", sets, "working")
      /\ UNCHANGED <<registry, leases, session, history>>
  BY Zenon DEF ResolveId
<1>2. "working" \in Places /\ r \in Target
  BY DEF Places, Target
<1>3. LET y == request'[q] IN
      /\ ~UnderWay(q) /\ s \in open /\ RequestTyped' /\ Others(q)
      /\ \A p \in Requests \ {q} :
           UnderWay(p) => request'[p].before = (IF Session(p) = s THEN NoRecord ELSE request[p].before)
      /\ y \in Record /\ y.at = "working" /\ y.session = s /\ y.repo = r /\ y.kind = "byId"
      /\ ~y.created /\ ~y.guarded /\ ~y.resolving /\ y.before = Before(s, "byId")
  BY <1>1, <1>2, MakeStep
<1>4. Fits(q)'
  <2>1. r # None
    BY SessionsAssumption
  <2> QED BY <2>1, <1>3 DEF Fits, Entering, Fresh, Undoing, Leaving, Ending
<1>5. SharedTyped'
  BY <1>1 DEF Shaped, TypeOK, SharedTyped, registry, session, history
<1> QED BY <1>1, <1>3, <1>4, <1>5, ShapeBegun

LEMMA BeginDetachStep ==
  ASSUME Shaped, NEW q \in Requests, NEW s \in Sessions, NEW r \in Repos, BeginDetach(q, s, r)
  PROVE  LET y == request'[q] IN
         /\ ~UnderWay(q) /\ s \in open
         /\ Others(q)
         /\ \A p \in Requests \ {q} :
              UnderWay(p) => request'[p].before = (IF Session(p) = s THEN NoRecord ELSE request[p].before)
         /\ y \in Record /\ y.at = "detaching" /\ y.session = s /\ y.repo = r /\ y.kind = "detach"
         /\ ~y.created /\ ~y.guarded /\ ~y.resolving /\ y.before = Before(s, "detach")
         /\ Shaped'
<1> DEFINE never == FALSE
<1>1. /\ Make(q, s, r, "detach", never, "detaching")
      /\ UNCHANGED <<registry, leases, session, history>>
  BY Zenon DEF BeginDetach
<1> HIDE DEF never
<1>2. "detaching" \in Places /\ r \in Target
  BY DEF Places, Target
<1>3. LET y == request'[q] IN
      /\ ~UnderWay(q) /\ s \in open /\ RequestTyped' /\ Others(q)
      /\ \A p \in Requests \ {q} :
           UnderWay(p) => request'[p].before = (IF Session(p) = s THEN NoRecord ELSE request[p].before)
      /\ y \in Record /\ y.at = "detaching" /\ y.session = s /\ y.repo = r /\ y.kind = "detach"
      /\ ~y.created /\ ~y.guarded /\ ~y.resolving /\ y.before = Before(s, "detach")
  BY <1>1, <1>2, MakeStep
<1>4. Fits(q)'
  <2>1. r # None
    BY SessionsAssumption
  <2> QED BY <2>1, <1>3 DEF Fits, Entering, Fresh, Undoing, Leaving, Ending
<1>5. SharedTyped'
  BY <1>1 DEF Shaped, TypeOK, SharedTyped, registry, session, history
<1> QED BY <1>1, <1>3, <1>4, <1>5, ShapeBegun

LEMMA BeginCloseStep ==
  ASSUME Shaped, NEW q \in Requests, NEW s \in Sessions, BeginClose(q, s)
  PROVE  LET y == request'[q] IN
         /\ ~UnderWay(q) /\ s \in open /\ RequestsOf(s) = {} /\ open' = open \ {s}
         /\ Others(q)
         /\ \A p \in Requests \ {q} :
              UnderWay(p) => request'[p].before = (IF Session(p) = s THEN NoRecord ELSE request[p].before)
         /\ y \in Record /\ y.at = "closing" /\ y.session = s /\ y.repo = None /\ y.kind = "close"
         /\ ~y.created /\ ~y.guarded /\ ~y.resolving /\ y.before = Before(s, "close")
         /\ Shaped'
<1> DEFINE never == FALSE
<1>1. /\ RequestsOf(s) = {} /\ Make(q, s, None, "close", never, "closing") /\ open' = open \ {s}
      /\ UNCHANGED <<registry, leases, adopted, default, attaching, history>>
  BY Zenon DEF BeginClose
<1> HIDE DEF never
<1>2. "closing" \in Places /\ None \in Target
  BY DEF Places, Target
<1>3. LET y == request'[q] IN
      /\ ~UnderWay(q) /\ s \in open /\ RequestTyped' /\ Others(q)
      /\ \A p \in Requests \ {q} :
           UnderWay(p) => request'[p].before = (IF Session(p) = s THEN NoRecord ELSE request[p].before)
      /\ y \in Record /\ y.at = "closing" /\ y.session = s /\ y.repo = None /\ y.kind = "close"
      /\ ~y.created /\ ~y.guarded /\ ~y.resolving /\ y.before = Before(s, "close")
  BY <1>1, <1>2, MakeStep
<1>4. Fits(q)'
  BY <1>3 DEF Fits, Entering, Fresh, Undoing, Leaving, Ending
<1>5. SharedTyped'
  BY <1>1 DEF Shaped, TypeOK, SharedTyped, registry, history
<1> QED BY <1>1, <1>3, <1>4, <1>5, ShapeBegun

LEMMA InitShaped == ASSUME Init PROVE Shaped /\ \A q \in Requests : ~UnderWay(q)
<1>1. \A q \in Requests : ~UnderWay(q)
  BY DEF Init, UnderWay, At, Unmade
<1>2. RequestTyped
  BY DEF Init, RequestTyped
<1>3. SharedTyped
  BY NoAttachFacts, SessionsAssumption DEF Init, SharedTyped, Target
<1> QED BY <1>1, <1>2, <1>3 DEF Shaped, TypeOK, PlacesFit

-----------------------------------------------------------------------------
(* The counts.  Busy places are those that a count or a claim is about. *)

Claiming == {"adopted", "counted", "refused"}
Busy     == Claiming \cup {"released"} \cup LettingGo
Resolves(q) == UnderWay(q) /\ request[q].resolving
Claims(q)   == UnderWay(q) /\ request[q].at \in Claiming
Resolving(r) == {q \in Requests : Resolves(q) /\ Repo(q) = r}

\* A resolution that is under way is what a pending count counts.
PendingCounted == \A r \in Repos : pending[r] = Cardinality(Resolving(r))
\* Who is between the session's own set and the lease has the workspace, alone in its session, and
\* its resolution keeps the workspace in the catalog unless the configuration names it.
ClaimsHold ==
  \A q \in Requests : Claims(q) /\ Repo(q) \notin crossed =>
    /\ Repo(q) \in adopted[Session(q)]
    /\ Repo(q) \in Startup \/ request[q].resolving
    /\ \A p \in Requests : Claims(p) /\ Session(p) = Session(q) /\ Repo(p) = Repo(q) => p = q
\* A call by id adopts only what is visible.
ByIdHolds ==
  \A q \in Requests : request[q].at = "working" /\ ~request[q].resolving /\ Repo(q) \notin crossed =>
    Repo(q) \in Startup \cup adopted[Session(q)]
KnownIfUsed ==
  \A r \in Repos \ crossed : active[r] > 0 \/ pending[r] > 0 \/ r \in Startup => r \in known
\* The last one to go prunes the catalog when it releases its lease.
UsedIfKnown ==
  \A r \in known \ Startup :
    active[r] > 0 \/ pending[r] > 0 \/ \E q \in Requests : request[q].at = "released" /\ Repo(q) = r /\ request[q].last
\* Whoever releases a lease has found the partition that it is under.
FoundWhenReleased ==
  \A q \in Requests : request[q].at = "released" /\ Repo(q) \notin crossed => request[q].found

Counted == /\ PendingCounted /\ ClaimsHold /\ ByIdHolds /\ KnownIfUsed /\ UsedIfKnown
           /\ FoundWhenReleased /\ CountsMatchSessions

Bit(b) == IF b THEN 1 ELSE 0

LEMMA CountedOne ==
  ASSUME NEW S, NEW T, NEW e, IsFiniteSet(S), S \ {e} = T \ {e}
  PROVE  /\ IsFiniteSet(T) /\ Cardinality(S) \in Nat /\ Cardinality(T) \in Nat
         /\ Cardinality(T) = Cardinality(S) - Bit(e \in S) + Bit(e \in T)
<1> DEFINE U == S \ {e}
<1>1. /\ IsFiniteSet(U) /\ Cardinality(S) \in Nat
      /\ Cardinality(U) = (IF e \in S THEN Cardinality(S) - 1 ELSE Cardinality(S))
  BY FS_RemoveElement, FS_CardinalityType
<1>2. e \notin U
  OBVIOUS
<1>3. T = (IF e \in T THEN U \cup {e} ELSE U)
  OBVIOUS
<1> HIDE DEF U
<1>4. /\ IsFiniteSet(U \cup {e}) /\ Cardinality(U \cup {e}) = Cardinality(U) + 1
      /\ Cardinality(U) \in Nat
  BY <1>1, <1>2, FS_AddElement, FS_CardinalityType
<1>5. CASE e \in T
  <2>1. T = U \cup {e}
    BY <1>3, <1>5
  <2> QED BY <1>1, <1>4, <1>5, <2>1 DEF Bit
<1>6. CASE e \notin T
  <2>1. T = U
    BY <1>3, <1>6
  <2> QED BY <1>1, <1>4, <1>6, <2>1 DEF Bit
<1> QED BY <1>5, <1>6

LEMMA OthersKept ==
  ASSUME NEW q \in Requests, OnlyMoves(q)
  PROVE  Others(q)
BY DEF OnlyMoves, Others, Alike, Still

LEMMA OthersFacts ==
  ASSUME NEW q \in Requests, Others(q), NEW p \in Requests, p # q
  PROVE  /\ request'[p].at = request[p].at /\ (UnderWay(p)' <=> UnderWay(p))
         /\ UnderWay(p) =>
              /\ Repo(p)' = Repo(p) /\ Session(p)' = Session(p) /\ request'[p].kind = request[p].kind
              /\ request'[p].sets = request[p].sets
              /\ request'[p].resolving = request[p].resolving
              /\ request'[p].guarded = request[p].guarded
              /\ request'[p].created = request[p].created /\ request'[p].previous = request[p].previous
              /\ request'[p].last = request[p].last /\ request'[p].found = request[p].found
BY DEF Others, Alike, Still, UnderWay, At, Repo, Session

\* A step at q changes a number of requests only by q.
LEMMA DoingCounted ==
  ASSUME NEW q \in Requests, Others(q), NEW r, NEW places
  PROVE  /\ Cardinality(Doing(r, places)) \in Nat /\ Cardinality(Doing(r, places)') \in Nat
         /\ Cardinality(Doing(r, places)') = Cardinality(Doing(r, places)) - Bit(q \in Doing(r, places))
                                             + Bit(q \in Doing(r, places)')
<1>1. IsFiniteSet(Doing(r, places))
  BY FiniteAssumption, FS_Subset DEF Doing
<1>2. Doing(r, places) \ {q} = Doing(r, places)' \ {q}
  BY OthersFacts DEF Doing
<1> QED BY <1>1, <1>2, CountedOne

LEMMA ResolvingCounted ==
  ASSUME NEW q \in Requests, Others(q), NEW r
  PROVE  /\ Cardinality(Resolving(r)) \in Nat /\ Cardinality(Resolving(r)') \in Nat
         /\ Cardinality(Resolving(r)') = Cardinality(Resolving(r)) - Bit(q \in Resolving(r)) + Bit(q \in Resolving(r)')
<1>1. IsFiniteSet(Resolving(r))
  BY FiniteAssumption, FS_Subset DEF Resolving
<1>2. Resolving(r) \ {q} = Resolving(r)' \ {q}
  BY OthersFacts DEF Resolving, Resolves
<1> QED BY <1>1, <1>2, CountedOne

LEMMA HoldersCounted ==
  ASSUME NEW s, \A u \in Sessions : u # s => adopted'[u] = adopted[u], NEW r
  PROVE  /\ Cardinality(Holders(r)) \in Nat /\ Cardinality(Holders(r)') \in Nat
         /\ Cardinality(Holders(r)') = Cardinality(Holders(r)) - Bit(s \in Holders(r)) + Bit(s \in Holders(r)')
<1>1. IsFiniteSet(Holders(r))
  BY FiniteAssumption, FS_Subset DEF Holders
<1>2. Holders(r) \ {s} = Holders(r)' \ {s}
  BY DEF Holders
<1> QED BY <1>1, <1>2, CountedOne

\* The claims on a workspace are of different sessions that have it.
LEMMA ClaimsBounded ==
  ASSUME Shaped, ClaimsHold, NEW r \in Repos \ crossed
  PROVE  /\ Cardinality(Doing(r, Adopting)) <= Cardinality(Holders(r))
         /\ Cardinality(Doing(r, Adopting \cup {"counted"})) <= Cardinality(Holders(r))
         /\ Cardinality(Holders(r)) \in Nat /\ Cardinality(Doing(r, Adopting)) \in Nat
         /\ Cardinality(Doing(r, Adopting \cup {"counted"})) \in Nat
<1> DEFINE D == Doing(r, Claiming)  f == [q \in D |-> Session(q)]
<1>1. IsFiniteSet(D) /\ IsFiniteSet(Holders(r))
  BY FiniteAssumption, FS_Subset DEF Doing, Holders
<1>2. \A q \in D : q \in Requests /\ UnderWay(q) /\ Repo(q) = r /\ Claims(q) /\ request[q] \in Record
  BY RequestFacts DEF Doing, Claims, Shaped
<1>3. \A q \in D : Session(q) \in Sessions /\ r \in adopted[Session(q)]
  BY <1>2 DEF ClaimsHold, Record, Session
<1>4. \A q \in D, p \in D : Session(p) = Session(q) => p = q
  BY <1>2 DEF ClaimsHold
<1>5. f \in [D -> Holders(r)]
  BY <1>3 DEF Holders
<1>6. Cardinality(D) <= Cardinality(Holders(r))
  <2>1. \A p, q \in D : f[p] = f[q] => p = q
    BY <1>4
  <2> HIDE DEF D, f
  <2>2. Cardinality(Holders(r)) \in Nat /\ Cardinality(D) \in Nat
    BY <1>1, FS_CardinalityType
  <2>3. ~(Cardinality(Holders(r)) < Cardinality(D))
    BY <1>1, <1>5, <2>1, FS_PigeonHole
  <2> QED BY <2>2, <2>3
<1>7. ASSUME NEW P, P \subseteq Claiming
      PROVE  Cardinality(Doing(r, P)) <= Cardinality(Holders(r)) /\ Cardinality(Doing(r, P)) \in Nat
  <2>1. Doing(r, P) \in SUBSET D
    BY <1>7 DEF Doing
  <2> HIDE DEF D
  <2>2. Cardinality(Doing(r, P)) <= Cardinality(D) /\ IsFiniteSet(Doing(r, P))
    BY <1>1, <2>1, FS_Subset
  <2>3. Cardinality(Doing(r, P)) \in Nat /\ Cardinality(D) \in Nat /\ Cardinality(Holders(r)) \in Nat
    BY <1>1, <2>2, FS_CardinalityType
  <2> QED BY <1>6, <2>2, <2>3
<1>8. Adopting \subseteq Claiming /\ Adopting \cup {"counted"} \subseteq Claiming
  BY DEF Adopting, Claiming
<1> HIDE DEF D
<1>9. Cardinality(Holders(r)) \in Nat
  BY <1>1, FS_CardinalityType
<1> QED BY <1>7, <1>8, <1>9

\* What the steps are to the counts.
Counters == <<known, pending, active, leases, adopted, refused, crossed>>
Stays(q) ==
  /\ Others(q) /\ UnderWay(q) /\ Repo(q) \in Repos /\ Session(q) \in Sessions
  /\ Repo(q)' = Repo(q) /\ Session(q)' = Session(q) /\ (Resolves(q)' <=> Resolves(q))
Passes(q) ==
  /\ Others(q) /\ UNCHANGED Counters
  /\ request[q].at \notin Busy /\ request'[q].at \notin Busy
  /\ Resolves(q)' <=> Resolves(q)
  /\ Resolves(q) => Repo(q)' = Repo(q)
  /\ request'[q].at = "working" /\ ~request'[q].resolving /\ Repo(q)' \notin crossed =>
       Repo(q)' \in Startup \cup adopted[Session(q)']
GoesOn(q) ==
  /\ Stays(q) /\ UNCHANGED Counters
  /\ request[q].at \in LettingGo /\ request'[q].at \in LettingGo
Takes(q, r) ==
  /\ Others(q) /\ UNCHANGED <<known, pending, active, leases, refused>>
  /\ UnderWay(q) /\ Session(q) \in Sessions /\ r \in Repos
  /\ \/ request[q].at \notin Busy /\ r \in adopted[Session(q)]
     \/ request[q].at = "refused" /\ Repo(q) = r
  /\ request'[q].at \in LettingGo /\ Repo(q)' = r /\ (Resolves(q)' <=> Resolves(q))
  /\ Resolves(q) => Repo(q) = r
  /\ LetGo(q, r)
Resolved(q, r) ==
  /\ Others(q) /\ UNCHANGED <<active, leases, adopted, refused, crossed>>
  /\ known' = known \cup {r} /\ pending' = Up(pending, r)
  /\ request[q].at \notin Busy /\ ~Resolves(q)
  /\ request'[q].at \notin Busy /\ Resolves(q)' /\ Repo(q)' = r
Dropped(q) ==
  /\ Others(q) /\ UNCHANGED <<active, leases, adopted, refused, crossed>>
  /\ pending' = Down(pending, Repo(q)) /\ known' = Pruned(known, Repo(q), pending', active)
  /\ request[q].at \notin Busy /\ Resolves(q) /\ Repo(q) \in Repos
  /\ request'[q].at \notin Busy \cup {"working"} /\ ~Resolves(q)'
Adopts(q) ==
  /\ Stays(q) /\ UNCHANGED <<known, pending, active, leases, refused, crossed>>
  /\ request[q].at = "working" /\ request'[q].at = "adopted"
  /\ Repo(q) \notin adopted[Session(q)]
  /\ adopted' = [adopted EXCEPT ![Session(q)] = @ \cup {Repo(q)}]
Counts(q) ==
  /\ Stays(q) /\ UNCHANGED <<known, pending, leases, adopted, refused, crossed>>
  /\ request[q].at = "adopted" /\ request'[q].at = "counted"
  /\ active' = Up(active, Repo(q))
Leases(q) ==
  /\ Stays(q) /\ UNCHANGED <<known, pending, active, adopted, refused, crossed>>
  /\ request[q].at = "counted" /\ request'[q].at = "served"
  /\ leases' = Up(leases, Repo(q))
Refuses(q) ==
  /\ Stays(q) /\ UNCHANGED <<known, pending, active, leases, adopted, crossed>>
  /\ request[q].at = "counted" /\ request'[q].at = "refused"
  /\ refused' = refused \cup {Repo(q)}
Releases(q) ==
  /\ Stays(q) /\ UNCHANGED <<known, pending, leases, adopted, refused, crossed>>
  /\ request[q].at = "releasing" /\ request'[q].at = "released"
  /\ active' = Down(active, Repo(q))
  /\ request'[q].last <=> active'[Repo(q)] = 0
  /\ request'[q].found <=> Repo(q) \in known \/ Repo(q) \notin Imported
GivesBack(q) ==
  /\ Others(q) /\ UNCHANGED <<pending, active, adopted, refused, crossed>>
  /\ request[q].at = "released" /\ Repo(q) \in Repos
  /\ request'[q].at \in {"failed", "leaving", "closing", "done"}
  /\ Resolves(q)' <=> Resolves(q)
  /\ Resolves(q) => Repo(q)' = Repo(q)
  /\ leases' = IF request[q].found THEN Down(leases, Repo(q)) ELSE leases
  /\ known' = IF request[q].last THEN Pruned(known, Repo(q), pending, active) ELSE known

StepClass(q) ==
  \/ Passes(q) \/ GoesOn(q) \/ \E r \in Repos : Takes(q, r) \/ Resolved(q, r)
  \/ Dropped(q) \/ Adopts(q) \/ Counts(q) \/ Leases(q) \/ Refuses(q) \/ Releases(q) \/ GivesBack(q)

LEMMA PlaceFacts ==
  ASSUME Shaped, NEW q \in Requests, UnderWay(q)
  PROVE  /\ request[q] \in Record /\ Session(q) \in Sessions
         /\ request[q].at # "closing" => Repo(q) \in Repos
         /\ request[q].kind \notin {"attach", "prepare"} => ~Resolves(q)
<1>1. request[q] \in Record /\ Fits(q)
  BY RequestFacts DEF Shaped, PlacesFit
<1> QED BY <1>1 DEF Record, Fits, Target, Session, Repo, Resolves

LEMMA EndedFacts ==
  ASSUME NEW q \in Requests, Ended(q)
  PROVE  Others(q) /\ request'[q].at = "done" /\ ~Resolves(q)'
BY OthersKept DEF Ended, Over, Resolves, UnderWay, At

LEMMA MovedFacts ==
  ASSUME NEW q \in Requests, UnderWay(q), NEW place \in Places, Moved(q, place)
  PROVE  /\ Others(q) /\ UnderWay(q)' /\ request'[q].at = place
         /\ Repo(q)' = Repo(q) /\ Session(q)' = Session(q) /\ (Resolves(q)' <=> Resolves(q))
         /\ request'[q].resolving = request[q].resolving /\ request'[q].guarded = request[q].guarded
<1>1. place # "done" /\ place # "unmade"
  BY DEF Places
<1> QED BY <1>1, OthersKept DEF Moved, Same, Still, Repo, Session, Resolves, UnderWay, At

LEMMA BeginClass ==
  ASSUME Shaped, NEW q \in Requests, NEW s \in Sessions,
         \/ \E r \in Repos, sets \in BOOLEAN :
              ResolveId(q, s, r, sets) \/ \E kind \in {"attach", "prepare"} : ResolvePath(q, s, r, kind, sets)
         \/ \E r \in Repos : BeginDetach(q, s, r)
         \/ BeginClose(q, s)
  PROVE  StepClass(q)
<1>1. ASSUME NEW r \in Repos, NEW sets \in BOOLEAN, ResolveId(q, s, r, sets) PROVE Passes(q)
  <2>1. UNCHANGED Counters
    BY <1>1 DEF ResolveId, registry, session, history, Counters
  <2>2. r \in Startup \cup adopted[s]
    BY <1>1 DEF ResolveId, Visible
  <2> QED BY <1>1, <2>1, <2>2, ResolveIdStep
          DEF Passes, Busy, Claiming, LettingGo, Resolves, UnderWay, At, Repo, Session
<1>2. ASSUME NEW r \in Repos, NEW sets \in BOOLEAN, NEW kind \in {"attach", "prepare"},
             ResolvePath(q, s, r, kind, sets)
      PROVE  Resolved(q, r)
  <2>1. UNCHANGED <<active, leases, adopted, refused, crossed>> /\ known' = known \cup {r}
        /\ pending' = Up(pending, r)
    BY <1>2, Zenon DEF ResolvePath, session, history
  <2> QED BY <1>2, <2>1, ResolvePathStep
          DEF Resolved, Busy, Claiming, LettingGo, Resolves, UnderWay, At, Repo, Session
<1>3. ASSUME NEW r \in Repos, BeginDetach(q, s, r) PROVE Passes(q)
  <2>1. UNCHANGED Counters
    BY <1>3 DEF BeginDetach, registry, session, history, Counters
  <2> QED BY <1>3, <2>1, BeginDetachStep
          DEF Passes, Busy, Claiming, LettingGo, Resolves, UnderWay, At, Repo, Session
<1>4. ASSUME BeginClose(q, s) PROVE Passes(q)
  <2>1. UNCHANGED Counters
    BY <1>4 DEF BeginClose, registry, history, Counters
  <2> QED BY <1>4, <2>1, BeginCloseStep
          DEF Passes, Busy, Claiming, LettingGo, Resolves, UnderWay, At, Repo, Session
<1> QED BY <1>1, <1>2, <1>3, <1>4 DEF StepClass

LEMMA ContinueClass ==
  ASSUME Shaped, NEW q \in Requests,
         \/ ReadDefault(q) \/ Arm(q) \/ GiveUp(q)
         \/ Adopt(q) \/ CountSession(q) \/ AcquireLease(q) \/ LeaseRefused(q) \/ SetDefault(q)
         \/ (\E success \in BOOLEAN : Tell(q, success)) \/ DropResolution(q)
         \/ Release(q) \/ ReleaseLease(q) \/ Withdraw(q)
         \/ Detach(q) \/ ForgetAttaches(q) \/ LookAtDefault(q) \/ ClearDefault(q) \/ CloseOne(q)
         \/ StillAdopted(q) \/ \E success \in BOOLEAN : Finish(q, success)
         \/ Rollback(q) \/ Restore(q) \/ UndoDefault(q)
  PROVE  StepClass(q)
<1> USE DEF Busy, Claiming, LettingGo
<1>1. ASSUME ReadDefault(q) PROVE Passes(q)
  <2>1. UNCHANGED Counters
    BY <1>1 DEF ReadDefault, registry, session, history, Counters
  <2> QED BY <1>1, <2>1, ReadDefaultStep, OthersKept DEF Passes, Resolves, UnderWay, At, Repo
<1>2. ASSUME Arm(q) PROVE Passes(q)
  <2>1. UNCHANGED Counters
    BY <1>2, Zenon DEF Arm, registry, history, Counters
  <2>2. request[q].at = "read" /\ Fits(q)
    BY <1>2, ArmStep
  <2>3. request[q].resolving
    BY <2>2 DEF Fits
  <2> QED BY <1>2, <2>1, <2>3, ArmStep, OthersKept DEF Passes, Resolves, UnderWay, At, Repo
<1>3. ASSUME GiveUp(q) PROVE Passes(q)
  <2>1. UNCHANGED Counters
    BY <1>3 DEF GiveUp, registry, session, history, Counters
  <2>2. "leaving" \in Places
    BY DEF Places
  <2> QED BY <1>3, <2>1, <2>2, GiveUpStep, MovedFacts, EndedFacts DEF Passes, Resolves
<1>4. ASSUME Adopt(q) PROVE Passes(q) \/ Adopts(q)
  <2>1. /\ UNCHANGED <<known, pending, active, leases, refused, crossed>>
        /\ adopted' = [adopted EXCEPT ![Session(q)] = @ \cup {Repo(q)}]
    BY <1>4, Zenon DEF Adopt, registry, history
  <2>2. UnderWay(q) /\ request[q].at = "working" /\ Repo(q) \in Repos /\ Session(q) \in Sessions
    BY <1>4, AdoptStep, PlaceFacts
  <2>3. "served" \in Places /\ "adopted" \in Places
    BY DEF Places
  <2>4. CASE Repo(q) \in adopted[Session(q)]
    <3>1. adopted' = adopted
      BY <2>1, <2>2, <2>4 DEF Shaped, TypeOK, SharedTyped
    <3> QED BY <1>4, <2>1, <2>2, <2>3, <2>4, <3>1, AdoptStep, MovedFacts DEF Passes, Counters
  <2>5. CASE Repo(q) \notin adopted[Session(q)]
    BY <1>4, <2>1, <2>2, <2>3, <2>5, AdoptStep, MovedFacts DEF Adopts, Stays
  <2> QED BY <2>4, <2>5
<1>5. ASSUME CountSession(q) PROVE Counts(q)
  <2>1. UNCHANGED <<known, pending, leases, adopted, refused, crossed>> /\ active' = Up(active, Repo(q))
    BY <1>5, Zenon DEF CountSession, session, history
  <2>2. UnderWay(q) /\ request[q].at = "adopted" /\ Repo(q) \in Repos /\ Session(q) \in Sessions
    BY <1>5, CountSessionStep, PlaceFacts
  <2>3. "counted" \in Places
    BY DEF Places
  <2> QED BY <1>5, <2>1, <2>2, <2>3, CountSessionStep, MovedFacts DEF Counts, Stays
<1>6. ASSUME AcquireLease(q) PROVE Leases(q)
  <2>1. UNCHANGED <<known, pending, active, adopted, refused, crossed>> /\ leases' = Up(leases, Repo(q))
    BY <1>6, Zenon DEF AcquireLease, registry, session, history
  <2>2. UnderWay(q) /\ request[q].at = "counted" /\ Repo(q) \in Repos /\ Session(q) \in Sessions
    BY <1>6, AcquireLeaseStep, PlaceFacts
  <2>3. Others(q)
    BY <1>6, AcquireLeaseStep, OthersKept
  <2>4. Repo(q)' = Repo(q) /\ Session(q)' = Session(q) /\ (Resolves(q)' <=> Resolves(q)) /\ request'[q].at = "served"
    BY <1>6, <2>2, AcquireLeaseStep DEF Same, Repo, Session, Resolves, UnderWay, At
  <2> QED BY <2>1, <2>2, <2>3, <2>4 DEF Leases, Stays
<1>7. ASSUME LeaseRefused(q) PROVE Refuses(q)
  <2>1. UNCHANGED <<known, pending, active, leases, adopted, crossed>>
        /\ refused' = refused \cup {Repo(q)}
    BY <1>7, Zenon DEF LeaseRefused, registry, session
  <2>2. UnderWay(q) /\ request[q].at = "counted" /\ Repo(q) \in Repos /\ Session(q) \in Sessions
    BY <1>7, LeaseRefusedStep, PlaceFacts
  <2>3. "refused" \in Places
    BY DEF Places
  <2> QED BY <1>7, <2>1, <2>2, <2>3, LeaseRefusedStep, MovedFacts DEF Refuses, Stays
<1>8. ASSUME SetDefault(q) PROVE Passes(q)
  <2>1. UNCHANGED Counters
    BY <1>8 DEF SetDefault, registry, history, Counters
  <2>2. "leaving" \in Places /\ "telling" \in Places
    BY DEF Places
  <2> QED BY <1>8, <2>1, <2>2, SetDefaultStep, MovedFacts DEF Passes, Resolves
<1>9. ASSUME NEW success \in BOOLEAN, Tell(q, success) PROVE Passes(q)
  <2>1. UNCHANGED Counters
    BY <1>9 DEF Tell, registry, session, Counters
  <2>2. "leaving" \in Places
    BY DEF Places
  <2> QED BY <1>9, <2>1, <2>2, TellStep, MovedFacts, EndedFacts DEF Passes, Resolves
<1>10. ASSUME DropResolution(q) PROVE Dropped(q)
  <2>1. /\ pending' = Down(pending, Repo(q)) /\ known' = Pruned(known, Repo(q), pending', active)
        /\ UNCHANGED <<active, leases, adopted, refused, crossed>>
    BY <1>10, Zenon DEF DropResolution, session, history
  <2>2. UnderWay(q) /\ request[q].at = "leaving" /\ request[q].resolving /\ Repo(q) \in Repos
    BY <1>10, DropResolutionStep, PlaceFacts
  <2>3. CASE request[q].guarded
    BY <1>10, <2>1, <2>2, <2>3, DropResolutionStep, OthersKept DEF Dropped, Resolves
  <2>4. CASE ~request[q].guarded
    BY <1>10, <2>1, <2>2, <2>4, DropResolutionStep, EndedFacts DEF Dropped, Resolves
  <2> QED BY <2>3, <2>4
<1>11. ASSUME Release(q) PROVE Releases(q)
  <2>1. UNCHANGED <<known, pending, leases, adopted, refused, crossed>>
        /\ active' = Down(active, Repo(q))
    BY <1>11, Zenon DEF Release, session, history
  <2>2. UnderWay(q) /\ request[q].at = "releasing" /\ Repo(q) \in Repos /\ Session(q) \in Sessions
    BY <1>11, ReleaseStep, PlaceFacts
  <2>3. Others(q)
    BY <1>11, ReleaseStep, OthersKept
  <2>4. /\ Repo(q)' = Repo(q) /\ Session(q)' = Session(q) /\ (Resolves(q)' <=> Resolves(q))
        /\ request'[q].at = "released"
    BY <1>11, <2>2, ReleaseStep DEF Same, Repo, Session, Resolves, UnderWay, At
  <2> QED BY <1>11, <2>1, <2>2, <2>3, <2>4, ReleaseStep DEF Releases, Stays, Repo
<1>12. ASSUME ReleaseLease(q) PROVE GivesBack(q)
  <2>1. /\ leases' = IF request[q].found THEN Down(leases, Repo(q)) ELSE leases
        /\ known' = IF request[q].last THEN Pruned(known, Repo(q), pending, active) ELSE known
        /\ UNCHANGED <<pending, active, adopted, refused, crossed>>
    BY <1>12, Zenon DEF ReleaseLease, session, history
  <2>2. UnderWay(q) /\ request[q].at = "released" /\ Repo(q) \in Repos
    BY <1>12, ReleaseLeaseStep, PlaceFacts
  <2>3. CASE Rest(q) = "done"
    <3>1. Ended(q) /\ ~request[q].resolving
      BY <1>12, <2>2, <2>3, ReleaseLeaseStep, RestFacts
    <3> QED BY <2>1, <2>2, <3>1, EndedFacts DEF GivesBack, Resolves
  <2>4. CASE Rest(q) # "done"
    <3>1. Moved(q, Rest(q)) /\ Rest(q) \in {"failed", "leaving", "closing"}
      BY <1>12, <2>2, <2>4, ReleaseLeaseStep, RestFacts
    <3>2. Rest(q) \in Places
      BY <3>1 DEF Places
    <3> QED BY <2>1, <2>2, <3>1, <3>2, MovedFacts DEF GivesBack
  <2> QED BY <2>3, <2>4
<1>13. ASSUME Withdraw(q) PROVE Takes(q, Repo(q)) /\ Repo(q) \in Repos
  <2>1. UNCHANGED <<known, pending, active, leases, refused>> /\ LetGo(q, Repo(q))
    BY <1>13, Zenon DEF Withdraw, registry
  <2>2. UnderWay(q) /\ request[q].at = "refused" /\ Repo(q) \in Repos /\ Session(q) \in Sessions
    BY <1>13, WithdrawStep, PlaceFacts
  <2>3. "releasing" \in Places
    BY DEF Places
  <2> QED BY <1>13, <2>1, <2>2, <2>3, WithdrawStep, MovedFacts DEF Takes
<1>14. ASSUME Detach(q) PROVE Passes(q) \/ (Takes(q, Repo(q)) /\ Repo(q) \in Repos)
  <2>1. /\ UNCHANGED <<known, pending, active, leases, refused>>
        /\ Repo(q) \in adopted[Session(q)] => LetGo(q, Repo(q))
        /\ Repo(q) \notin adopted[Session(q)] => UNCHANGED <<adopted, crossed, unanswered>>
    BY <1>14, Zenon DEF Detach, registry
  <2>2. UnderWay(q) /\ request[q].at = "detaching" /\ Repo(q) \in Repos /\ Session(q) \in Sessions
        /\ ~Resolves(q)
    <3>1. UnderWay(q) /\ request[q].at = "detaching" /\ Fits(q)
      BY <1>14, DetachStep
    <3>2. request[q].kind = "detach"
      BY <3>1 DEF Fits, Leaving
    <3> QED BY <3>1, <3>2, PlaceFacts
  <2>3. "forgetting" \in Places
    BY DEF Places
  <2>4. CASE Repo(q) \in adopted[Session(q)]
    BY <1>14, <2>1, <2>2, <2>3, <2>4, DetachStep, MovedFacts DEF Takes
  <2>5. CASE Repo(q) \notin adopted[Session(q)]
    BY <1>14, <2>1, <2>2, <2>5, DetachStep, EndedFacts DEF Passes, Counters
  <2> QED BY <2>4, <2>5
<1>15. ASSUME ForgetAttaches(q) PROVE GoesOn(q)
  <2>1. UNCHANGED Counters
    BY <1>15, Zenon DEF ForgetAttaches, registry, Counters
  <2>2. "looking" \in Places
    BY DEF Places
  <2> QED BY <1>15, <2>1, <2>2, ForgetAttachesStep, PlaceFacts, MovedFacts DEF GoesOn, Stays
<1>16. ASSUME LookAtDefault(q) PROVE GoesOn(q)
  <2>1. UNCHANGED Counters
    BY <1>16, Zenon DEF LookAtDefault, registry, session, history, Counters
  <2>2. "clearing" \in Places /\ "releasing" \in Places
    BY DEF Places
  <2>3. /\ UnderWay(q) /\ request[q].at = "looking"
        /\ Moved(q, "clearing") \/ Moved(q, "releasing")
    BY <1>16, LookAtDefaultStep
  <2>4. Others(q) /\ Repo(q)' = Repo(q) /\ Session(q)' = Session(q) /\ (Resolves(q)' <=> Resolves(q))
        /\ request'[q].at \in {"clearing", "releasing"}
    BY <2>2, <2>3, MovedFacts
  <2> QED BY <2>1, <2>3, <2>4, PlaceFacts DEF GoesOn, Stays
<1>17. ASSUME ClearDefault(q) PROVE GoesOn(q)
  <2>1. UNCHANGED Counters
    BY <1>17, Zenon DEF ClearDefault, registry, history, Counters
  <2>2. "releasing" \in Places
    BY DEF Places
  <2> QED BY <1>17, <2>1, <2>2, ClearDefaultStep, PlaceFacts, MovedFacts DEF GoesOn, Stays
<1>18. ASSUME CloseOne(q) PROVE Passes(q) \/ \E r \in Repos : Takes(q, r)
  <2>1. UNCHANGED <<known, pending, active, leases, refused>>
    BY <1>18, Zenon DEF CloseOne, registry
  <2>2. /\ UnderWay(q) /\ request[q].at = "closing" /\ Session(q) \in Sessions /\ ~Resolves(q)
        /\ adopted[Session(q)] \subseteq Repos
    <3>1. UnderWay(q) /\ request[q].at = "closing" /\ Fits(q)
      BY <1>18, CloseOneStep
    <3>2. request[q].kind = "close"
      BY <3>1 DEF Fits
    <3>3. Session(q) \in Sessions /\ ~Resolves(q)
      BY <3>1, <3>2, PlaceFacts
    <3> QED BY <3>1, <3>3 DEF Shaped, TypeOK, SharedTyped
  <2>3. CASE adopted[Session(q)] = {}
    <3>1. Ended(q) /\ UNCHANGED <<adopted, crossed, unanswered>>
      BY <1>18, <2>3, CloseOneStep
    <3> QED BY <2>1, <2>2, <3>1, EndedFacts DEF Passes, Counters
  <2>4. CASE adopted[Session(q)] # {}
    <3>1. PICK r \in adopted[Session(q)] :
            /\ LetGo(q, r) /\ OnlyMoves(q) /\ request'[q].repo = r /\ request'[q].at = "releasing"
            /\ request'[q].resolving = request[q].resolving
      BY <1>18, <2>4, CloseOneStep
    <3>2. Others(q) /\ ~Resolves(q)' /\ Repo(q)' = r
      BY <3>1, <2>2, OthersKept DEF Resolves, Repo
    <3> QED BY <2>1, <2>2, <3>1, <3>2 DEF Takes
  <2> QED BY <2>3, <2>4
<1>19. ASSUME StillAdopted(q) PROVE Passes(q)
  <2>1. UNCHANGED Counters
    BY <1>19, Zenon DEF StillAdopted, registry, session, history, Counters
  <2>2. "answering" \in Places
    BY DEF Places
  <2> QED BY <1>19, <2>1, <2>2, StillAdoptedStep, MovedFacts DEF Passes
<1>20. ASSUME NEW success \in BOOLEAN, Finish(q, success) PROVE Passes(q)
  <2>1. UNCHANGED Counters
    BY <1>20, Zenon DEF Finish, registry, Counters
  <2>2. UnderWay(q) /\ request[q].at \in {"waiting", "answering", "failed"}
    BY <1>20, FinishStep
  <2>3. \/ Ended(q) /\ ~request[q].resolving
        \/ /\ OnlyMoves(q) /\ request'[q].at \in {"rollback", "restoring", "leaving"}
           /\ request'[q].repo = request[q].repo /\ request'[q].resolving = request[q].resolving
    BY <1>20, FinishStep
  <2>4. CASE Ended(q) /\ ~request[q].resolving
    BY <2>1, <2>2, <2>4, EndedFacts DEF Passes, Resolves
  <2>5. CASE /\ OnlyMoves(q) /\ request'[q].at \in {"rollback", "restoring", "leaving"}
             /\ request'[q].repo = request[q].repo /\ request'[q].resolving = request[q].resolving
    BY <2>1, <2>2, <2>5, OthersKept DEF Passes, Resolves, UnderWay, At, Repo
  <2> QED BY <2>3, <2>4, <2>5
<1>21. ASSUME Rollback(q) PROVE Passes(q) \/ (Takes(q, Repo(q)) /\ Repo(q) \in Repos)
  <2>1. UNCHANGED <<known, pending, active, leases, refused>>
    BY <1>21, Zenon DEF Rollback, registry
  <2>2. UnderWay(q) /\ request[q].at = "rollback" /\ Repo(q) \in Repos /\ Session(q) \in Sessions
    BY <1>21, RollbackStep, PlaceFacts
  <2>3. "leaving" \in Places
    BY DEF Places
  <2>4. CASE Repo(q) \in adopted[Session(q)]
    <3>1. /\ LetGo(q, Repo(q)) /\ OnlyMoves(q) /\ request'[q].at = "undoing"
          /\ request'[q].repo = request[q].repo /\ request'[q].resolving = request[q].resolving
      BY <1>21, <2>4, RollbackStep
    <3> QED BY <2>1, <2>2, <2>4, <3>1, OthersKept DEF Takes, Repo, Resolves, UnderWay, At
  <2>5. CASE Repo(q) \notin adopted[Session(q)] /\ request[q].resolving
    <3>1. Moved(q, "leaving") /\ UNCHANGED <<adopted, crossed, unanswered>>
      BY <1>21, <2>5, RollbackStep
    <3> QED BY <2>1, <2>2, <2>3, <3>1, MovedFacts DEF Passes, Counters
  <2>6. CASE Repo(q) \notin adopted[Session(q)] /\ ~request[q].resolving
    <3>1. Ended(q) /\ UNCHANGED <<adopted, crossed, unanswered>>
      BY <1>21, <2>6, RollbackStep
    <3> QED BY <2>1, <2>2, <2>6, <3>1, EndedFacts DEF Passes, Counters, Resolves
  <2> QED BY <2>4, <2>5, <2>6
<1>22. ASSUME Restore(q) PROVE Passes(q)
  <2>1. UNCHANGED Counters
    BY <1>22 DEF Restore, registry, session, history, Counters
  <2> QED BY <1>22, <2>1, RestoreStep, OthersKept DEF Passes, Resolves, UnderWay, At, Repo
<1>23. ASSUME UndoDefault(q) PROVE Passes(q) \/ GoesOn(q)
  <2>1. UNCHANGED Counters
    BY <1>23 DEF UndoDefault, registry, history, Counters
  <2>2. UnderWay(q) /\ request[q].at \in {"undoing", "restored"} /\ Repo(q) \in Repos
        /\ Session(q) \in Sessions
    BY <1>23, UndoDefaultStep, PlaceFacts
  <2>3. "leaving" \in Places /\ "releasing" \in Places
    BY DEF Places
  <2>4. CASE request[q].at = "undoing" /\ Moved(q, "releasing")
    BY <2>1, <2>2, <2>3, <2>4, MovedFacts DEF GoesOn, Stays
  <2>5. CASE request[q].at = "restored" /\ request[q].resolving /\ Moved(q, "leaving")
    BY <2>1, <2>2, <2>3, <2>5, MovedFacts DEF Passes
  <2>6. CASE request[q].at = "restored" /\ ~request[q].resolving /\ Ended(q)
    BY <2>1, <2>2, <2>6, EndedFacts DEF Passes, Resolves
  <2> QED BY <1>23, <2>4, <2>5, <2>6, UndoDefaultStep
<1> QED BY <1>1, <1>2, <1>3, <1>4, <1>5, <1>6, <1>7, <1>8, <1>9, <1>10, <1>11, <1>12, <1>13, <1>14,
           <1>15, <1>16, <1>17, <1>18, <1>19, <1>20, <1>21, <1>22, <1>23 DEF StepClass

-----------------------------------------------------------------------------
(* Each part of the counts is kept. *)

LEMMA PendingKept ==
  ASSUME Shaped, PendingCounted, NEW q \in Requests, StepClass(q)
  PROVE  PendingCounted'
<1> SUFFICES ASSUME NEW r \in Repos PROVE pending'[r] = Cardinality(Resolving(r)')
  BY DEF PendingCounted
<1>1. Others(q)
  BY DEF StepClass, Passes, GoesOn, Stays, Takes, Resolved, Dropped, Adopts, Counts, Leases, Refuses,
     Releases, GivesBack
<1>2. /\ Cardinality(Resolving(r)) \in Nat /\ Cardinality(Resolving(r)') \in Nat
      /\ Cardinality(Resolving(r)') = Cardinality(Resolving(r)) - Bit(q \in Resolving(r)) + Bit(q \in Resolving(r)')
      /\ pending[r] = Cardinality(Resolving(r)) /\ pending \in [Repos -> Nat]
  BY <1>1, ResolvingCounted DEF PendingCounted, Shaped, TypeOK, SharedTyped
<1>3. /\ q \in Resolving(r) <=> Resolves(q) /\ Repo(q) = r
      /\ q \in Resolving(r)' <=> Resolves(q)' /\ Repo(q)' = r
  BY DEF Resolving
<1>4. CASE pending' = pending /\ (Resolves(q)' <=> Resolves(q)) /\ (Resolves(q) => Repo(q)' = Repo(q))
  BY <1>2, <1>3, <1>4 DEF Bit
<1>5. ASSUME NEW k \in Repos, Resolved(q, k) PROVE pending'[r] = Cardinality(Resolving(r)')
  <2>1. pending' = [pending EXCEPT ![k] = @ + 1] /\ ~Resolves(q) /\ Resolves(q)' /\ Repo(q)' = k
    BY <1>5 DEF Resolved, Up
  <2> QED BY <1>2, <1>3, <2>1 DEF Bit
<1>6. CASE Dropped(q)
  <2>1. /\ pending' = [pending EXCEPT ![Repo(q)] = Less(@)] /\ Resolves(q) /\ ~Resolves(q)'
        /\ Repo(q) \in Repos
    BY <1>6 DEF Dropped, Down
  <2>2. CASE Repo(q) = r
    <3>1. q \in Resolving(r) /\ q \notin Resolving(r)' /\ pending'[r] = Less(pending[r])
      BY <1>2, <1>3, <2>1, <2>2
    <3> QED BY <1>2, <3>1 DEF Bit, Less
  <2>3. CASE Repo(q) # r
    <3>1. q \notin Resolving(r) /\ q \notin Resolving(r)' /\ pending'[r] = pending[r]
      BY <1>2, <1>3, <2>1, <2>3
    <3> QED BY <1>2, <3>1 DEF Bit
  <2> QED BY <2>2, <2>3
<1>7. CASE Passes(q)
  BY <1>4, <1>7 DEF Passes, Counters
<1>8. CASE GoesOn(q)
  BY <1>4, <1>8 DEF GoesOn, Stays, Counters
<1>9. ASSUME NEW k \in Repos, Takes(q, k) PROVE pending'[r] = Cardinality(Resolving(r)')
  BY <1>4, <1>9 DEF Takes
<1>10. CASE Adopts(q) \/ Counts(q) \/ Leases(q) \/ Refuses(q) \/ Releases(q)
  BY <1>4, <1>10 DEF Adopts, Counts, Leases, Refuses, Releases, Stays
<1>11. CASE GivesBack(q)
  BY <1>4, <1>11 DEF GivesBack
<1> QED BY <1>5, <1>6, <1>7, <1>8, <1>9, <1>10, <1>11 DEF StepClass

\* Who holds a claim keeps it: another request of its session that takes the workspace crosses it.
LEMMA ClaimsKept ==
  ASSUME Shaped, ClaimsHold, ByIdHolds, NEW q \in Requests, StepClass(q)
  PROVE  ClaimsHold'
<1>1. Others(q)
  BY DEF StepClass, Passes, GoesOn, Stays, Takes, Resolved, Dropped, Adopts, Counts, Leases, Refuses,
     Releases, GivesBack
<1>2. adopted \in [Sessions -> SUBSET Repos]
  BY DEF Shaped, TypeOK, SharedTyped
<1>3. \A p \in Requests : p # q => (Claims(p)' <=> Claims(p))
  BY <1>1, OthersFacts DEF Claims
<1>4. \A p \in Requests : p # q /\ Claims(p) =>
        Repo(p)' = Repo(p) /\ Session(p)' = Session(p) /\ request'[p].resolving = request[p].resolving
  BY <1>1, OthersFacts DEF Claims
<1>5. \A p \in Requests : Claims(p) => Session(p) \in Sessions /\ Repo(p) \in Repos
  BY PlaceFacts DEF Claims, Claiming
\* A step after which q makes no claim, or makes the one it made, and that takes no claim away.
<1>6. ASSUME Claims(q)' => Claims(q) /\ Stays(q),
             crossed \subseteq crossed',
             \A p \in Requests : Claims(p) /\ (p # q \/ Claims(q)') /\ Repo(p) \notin crossed' /\ Repo(p) \in adopted[Session(p)]
               => Repo(p) \in adopted'[Session(p)]
      PROVE  ClaimsHold'
  <2>1. \A p \in Requests : Claims(p)' => Claims(p) /\ Repo(p)' = Repo(p) /\ Session(p)' = Session(p)
    BY <1>3, <1>4, <1>6 DEF Stays
  <2>2. \A p \in Requests : Claims(p)' => request'[p].resolving = request[p].resolving \/ p = q
    BY <1>3, <1>4, <1>6
  <2>3. Claims(q)' => (request'[q].resolving <=> request[q].resolving)
    BY <1>6 DEF Stays, Resolves, Claims
  <2> SUFFICES ASSUME NEW p \in Requests, Claims(p)', Repo(p)' \notin crossed'
               PROVE  /\ Repo(p)' \in adopted'[Session(p)']
                      /\ Repo(p)' \in Startup \/ request'[p].resolving
                      /\ \A o \in Requests : Claims(o)' /\ Session(o)' = Session(p)' /\ Repo(o)' = Repo(p)' => o = p
    BY DEF ClaimsHold
  <2>4. Claims(p) /\ Repo(p)' = Repo(p) /\ Session(p)' = Session(p) /\ Repo(p) \notin crossed
    BY <2>1, <1>6
  <2>5. /\ Repo(p) \in adopted[Session(p)] /\ (Repo(p) \in Startup \/ request[p].resolving)
        /\ \A o \in Requests : Claims(o) /\ Session(o) = Session(p) /\ Repo(o) = Repo(p) => o = p
    BY <2>4 DEF ClaimsHold
  <2>6. Repo(p)' \in adopted'[Session(p)']
    <3>1. p # q \/ Claims(q)'
      BY DEF Claims, UnderWay, At
    <3>2. Repo(p) \in adopted'[Session(p)] /\ Repo(p) \notin crossed'
      BY <2>4, <2>5, <3>1, <1>6
    <3> QED BY <2>4, <3>2
  <2>7. Repo(p)' \in Startup \/ request'[p].resolving
    BY <2>2, <2>3, <2>4, <2>5
  <2>8. \A o \in Requests : Claims(o)' /\ Session(o)' = Session(p)' /\ Repo(o)' = Repo(p)' => o = p
    BY <2>1, <2>4, <2>5
  <2> QED BY <2>6, <2>7, <2>8
<1>7. ASSUME ~Claims(q)', UNCHANGED <<adopted, crossed>> PROVE ClaimsHold'
  BY <1>6, <1>7
<1>8. ASSUME Stays(q), Claims(q), UNCHANGED <<adopted, crossed>> PROVE ClaimsHold'
  BY <1>6, <1>8
<1>9. CASE Passes(q)
  BY <1>7, <1>9 DEF Passes, Counters, Claims, Busy
<1>10. CASE GoesOn(q)
  BY <1>7, <1>10 DEF GoesOn, Counters, Claims, Claiming, LettingGo
<1>11. ASSUME NEW r \in Repos, Takes(q, r) PROVE ClaimsHold'
  <2>1. ~Claims(q)' /\ LetGo(q, r) /\ Session(q) \in Sessions
    BY <1>11 DEF Takes, Claims, Claiming, LettingGo
  <2>2. /\ adopted'[Session(q)] = adopted[Session(q)] \ {r}
        /\ \A s \in Sessions : s # Session(q) => adopted'[s] = adopted[s]
        /\ crossed \subseteq crossed'
        /\ r \notin crossed' => \A p \in Requests \ {q} : UnderWay(p) /\ Session(p) = Session(q) => Repo(p) # r
    BY <2>1, LetGoFacts
  <2>3. ASSUME NEW p \in Requests, Claims(p), p # q, Repo(p) \notin crossed',
               Repo(p) \in adopted[Session(p)]
        PROVE  Repo(p) \in adopted'[Session(p)]
    <3>1. Session(p) \in Sessions /\ UnderWay(p)
      BY <2>3, <1>5 DEF Claims
    <3>2. Session(p) = Session(q) => Repo(p) # r
      BY <2>2, <2>3, <3>1
    <3> QED BY <2>2, <2>3, <3>1, <3>2
  <2> QED BY <1>6, <2>1, <2>2, <2>3
<1>12. ASSUME NEW r \in Repos, Resolved(q, r) PROVE ClaimsHold'
  BY <1>7, <1>12 DEF Resolved, Claims, Busy
<1>13. CASE Dropped(q)
  BY <1>7, <1>13 DEF Dropped, Claims, Busy
<1>14. CASE Adopts(q)
  <2>1. /\ Stays(q) /\ request[q].at = "working" /\ request'[q].at = "adopted" /\ crossed' = crossed
        /\ Repo(q) \notin adopted[Session(q)]
        /\ adopted' = [adopted EXCEPT ![Session(q)] = @ \cup {Repo(q)}]
    BY <1>14 DEF Adopts
  <2>2. /\ Session(q) \in Sessions /\ Repo(q)' = Repo(q) /\ Session(q)' = Session(q)
        /\ UnderWay(q) /\ UnderWay(q)' /\ (request'[q].resolving <=> request[q].resolving)
    <3>1. UnderWay(q) /\ UnderWay(q)'
      BY <2>1 DEF UnderWay, At
    <3> QED BY <2>1, <3>1 DEF Stays, Resolves
  <2>3. ~Claims(q)
    BY <2>1 DEF Claims, Claiming
  <2>4. \A s \in Sessions : adopted[s] \subseteq adopted'[s]
    BY <1>2, <2>1, <2>2
  <2>5. Repo(q) \in adopted'[Session(q)]
    BY <1>2, <2>1, <2>2
  <2>6. Repo(q) \notin crossed => Repo(q) \in Startup \/ request[q].resolving
    BY <2>1 DEF ByIdHolds
  <2> SUFFICES ASSUME NEW p \in Requests, Claims(p)', Repo(p)' \notin crossed'
               PROVE  /\ Repo(p)' \in adopted'[Session(p)']
                      /\ Repo(p)' \in Startup \/ request'[p].resolving
                      /\ \A o \in Requests : Claims(o)' /\ Session(o)' = Session(p)' /\ Repo(o)' = Repo(p)' => o = p
    BY DEF ClaimsHold
  <2>7. ASSUME NEW o \in Requests, o # q, Claims(o), Session(o) = Session(q), Repo(o) = Repo(q),
               Repo(q) \notin crossed
        PROVE  FALSE
    BY <2>1, <2>7 DEF ClaimsHold
  <2>8. CASE p = q
    <3>1. \A o \in Requests : Claims(o)' /\ Session(o)' = Session(q)' /\ Repo(o)' = Repo(q)' => o = q
      BY <1>3, <1>4, <2>1, <2>2, <2>7, <2>8
    <3> QED BY <2>1, <2>2, <2>5, <2>6, <2>8, <3>1
  <2>9. CASE p # q
    <3>1. Claims(p) /\ Repo(p)' = Repo(p) /\ Session(p)' = Session(p)
          /\ request'[p].resolving = request[p].resolving
      BY <1>3, <1>4, <2>9
    <3>2. /\ Repo(p) \in adopted[Session(p)] /\ (Repo(p) \in Startup \/ request[p].resolving)
          /\ \A o \in Requests : Claims(o) /\ Session(o) = Session(p) /\ Repo(o) = Repo(p) => o = p
      BY <2>1, <3>1 DEF ClaimsHold
    <3>3. ~(Session(p) = Session(q) /\ Repo(p) = Repo(q))
      BY <2>1, <2>7, <2>9, <3>1
    <3>4. \A o \in Requests : Claims(o)' /\ Session(o)' = Session(p)' /\ Repo(o)' = Repo(p)' => o = p
      BY <1>3, <1>4, <2>2, <3>1, <3>2, <3>3
    <3>5. Repo(p)' \in adopted'[Session(p)']
      <4>1. Session(p) \in Sessions
        BY <1>5, <3>1
      <4>2. Repo(p) \in adopted'[Session(p)]
        BY <2>4, <3>2, <4>1
      <4> QED BY <3>1, <4>2
    <3> QED BY <3>1, <3>2, <3>4, <3>5
  <2> QED BY <2>8, <2>9
<1>15. CASE Counts(q) \/ Refuses(q)
  <2>1. Stays(q) /\ Claims(q) /\ UNCHANGED <<adopted, crossed>>
    BY <1>15 DEF Counts, Refuses, Claims, Claiming, Stays
  <2> QED BY <1>8, <2>1
<1>16. CASE Leases(q) \/ Releases(q)
  BY <1>7, <1>16 DEF Leases, Releases, Claims, Claiming
<1>17. CASE GivesBack(q)
  BY <1>7, <1>17 DEF GivesBack, Claims, Claiming
<1> QED BY <1>9, <1>10, <1>11, <1>12, <1>13, <1>14, <1>15, <1>16, <1>17 DEF StepClass

LEMMA ByIdKept ==
  ASSUME Shaped, ByIdHolds, NEW q \in Requests, StepClass(q)
  PROVE  ByIdHolds'
<1>1. Others(q)
  BY DEF StepClass, Passes, GoesOn, Stays, Takes, Resolved, Dropped, Adopts, Counts, Leases, Refuses,
     Releases, GivesBack
<1> SUFFICES ASSUME NEW p \in Requests, request'[p].at = "working", ~request'[p].resolving,
                    Repo(p)' \notin crossed'
             PROVE  Repo(p)' \in Startup \cup adopted'[Session(p)']
  BY DEF ByIdHolds
<1>2. adopted \in [Sessions -> SUBSET Repos]
  BY DEF Shaped, TypeOK, SharedTyped
<1>3. CASE p # q
  <2>1. /\ request[p].at = "working" /\ ~request[p].resolving /\ Repo(p)' = Repo(p)
        /\ Session(p)' = Session(p)
        /\ UnderWay(p) /\ Session(p) \in Sessions
    <3>1. request[p].at = "working" /\ UnderWay(p)
      BY <1>1, <1>3, OthersFacts DEF UnderWay, At
    <3> QED BY <1>1, <1>3, <3>1, OthersFacts, PlaceFacts
  <2>2. ASSUME adopted' = adopted, crossed' = crossed
        PROVE  Repo(p)' \in Startup \cup adopted'[Session(p)']
    BY <2>1, <2>2 DEF ByIdHolds
  <2>3. CASE Adopts(q)
    <3>1. Session(q) \in Sessions /\ adopted' = [adopted EXCEPT ![Session(q)] = @ \cup {Repo(q)}]
          /\ crossed' = crossed
      BY <2>3 DEF Adopts, Stays
    <3>2. adopted[Session(p)] \subseteq adopted'[Session(p)]
      BY <1>2, <2>1, <3>1
    <3> QED BY <2>1, <3>1, <3>2 DEF ByIdHolds
  <2>4. ASSUME NEW r \in Repos, Takes(q, r) PROVE Repo(p)' \in Startup \cup adopted'[Session(p)']
    <3>1. LetGo(q, r) /\ Session(q) \in Sessions
      BY <2>4 DEF Takes
    <3>2. /\ adopted'[Session(q)] = adopted[Session(q)] \ {r}
          /\ \A s \in Sessions : s # Session(q) => adopted'[s] = adopted[s]
          /\ crossed \subseteq crossed'
          /\ r \notin crossed' => \A o \in Requests \ {q} : UnderWay(o) /\ Session(o) = Session(q) => Repo(o) # r
      BY <3>1, LetGoFacts
    <3>3. Repo(p) \in Startup \cup adopted[Session(p)] /\ Repo(p) \notin crossed'
      BY <2>1, <3>2 DEF ByIdHolds
    <3>4. Session(p) = Session(q) => Repo(p) # r
      BY <1>3, <2>1, <3>2, <3>3
    <3> QED BY <2>1, <3>2, <3>3, <3>4
  <2>5. CASE \/ Passes(q) \/ GoesOn(q) \/ (\E r \in Repos : Resolved(q, r)) \/ Dropped(q)
             \/ Counts(q) \/ Leases(q) \/ Refuses(q) \/ Releases(q) \/ GivesBack(q)
    BY <2>2, <2>5 DEF Passes, GoesOn, Resolved, Dropped, Counts, Leases, Refuses, Releases, GivesBack,
       Counters
  <2> QED BY <2>3, <2>4, <2>5 DEF StepClass
<1>4. CASE p = q
  <2>1. ~request'[q].resolving /\ request'[q].at = "working"
    BY <1>4
  <2>2. ~Resolves(q)'
    BY <2>1 DEF Resolves
  <2>3. Passes(q)
    <3>1. \A r \in Repos : ~Takes(q, r) /\ ~Resolved(q, r)
      BY <2>1, <2>2 DEF Takes, Resolved, LettingGo
    <3>2. ~GoesOn(q) /\ ~Dropped(q) /\ ~Adopts(q) /\ ~Counts(q) /\ ~Leases(q) /\ ~Refuses(q)
          /\ ~Releases(q) /\ ~GivesBack(q)
      BY <2>1 DEF GoesOn, Dropped, Adopts, Counts, Leases, Refuses, Releases, GivesBack, LettingGo
    <3> QED BY <3>1, <3>2 DEF StepClass
  <2>4. crossed' = crossed /\ adopted' = adopted
    BY <2>3 DEF Passes, Counters
  <2> QED BY <1>4, <2>1, <2>3, <2>4 DEF Passes
<1> QED BY <1>3, <1>4

\* A count that a request is about to take one from is not 0.
LEMMA CountsPositive ==
  ASSUME Shaped, ClaimsHold, CountsMatchSessions, NEW q \in Requests, UnderWay(q),
         Repo(q) \in Repos \ crossed
  PROVE  /\ request[q].at \in LettingGo => active[Repo(q)] > 0
         /\ request[q].at \in LettingGo \cup {"released"} /\ Repo(q) \notin refused => leases[Repo(q)] > 0
<1> DEFINE r == Repo(q)
<1>1. /\ Cardinality(Doing(r, Adopting)) <= Cardinality(Holders(r))
      /\ Cardinality(Doing(r, Adopting \cup {"counted"})) <= Cardinality(Holders(r))
      /\ Cardinality(Holders(r)) \in Nat /\ Cardinality(Doing(r, Adopting)) \in Nat
      /\ Cardinality(Doing(r, Adopting \cup {"counted"})) \in Nat
  BY ClaimsBounded
<1>2. ASSUME NEW P, request[q].at \in P
      PROVE  Cardinality(Doing(r, P)) \in Nat /\ Cardinality(Doing(r, P)) > 0
  <2>1. IsFiniteSet(Doing(r, P)) /\ q \in Doing(r, P)
    BY <1>2, FiniteAssumption, FS_Subset DEF Doing
  <2> QED BY <2>1, FS_CardinalityType, FS_EmptySet
<1>3. /\ active[r] = Cardinality(Holders(r)) - Cardinality(Doing(r, Adopting)) + Cardinality(Doing(r, LettingGo))
      /\ r \notin refused =>
           leases[r] = Cardinality(Holders(r)) - Cardinality(Doing(r, Adopting \cup {"counted"}))
                         + Cardinality(Doing(r, LettingGo \cup {"released"}))
  BY DEF CountsMatchSessions
<1>4. request[q].at \in LettingGo => active[r] > 0
  BY <1>1, <1>2, <1>3
<1>5. request[q].at \in LettingGo \cup {"released"} /\ r \notin refused => leases[r] > 0
  BY <1>1, <1>2, <1>3
<1> QED BY <1>4, <1>5

LEMMA FoundKept ==
  ASSUME Shaped, ClaimsHold, CountsMatchSessions, KnownIfUsed, FoundWhenReleased,
         NEW q \in Requests, StepClass(q)
  PROVE  FoundWhenReleased'
<1>1. Others(q) /\ crossed \subseteq crossed'
  <2>1. ASSUME NEW r \in Repos, Takes(q, r) PROVE crossed \subseteq crossed'
    BY <2>1, LetGoFacts DEF Takes
  <2> QED BY <2>1 DEF StepClass, Passes, GoesOn, Stays, Takes, Resolved, Dropped, Adopts, Counts,
             Leases,
                      Refuses, Releases, GivesBack, Counters
<1> SUFFICES ASSUME NEW p \in Requests, request'[p].at = "released", Repo(p)' \notin crossed'
             PROVE  request'[p].found
  BY DEF FoundWhenReleased
<1>2. CASE p # q
  <2>1. request[p].at = "released" /\ UnderWay(p)
    BY <1>1, <1>2, OthersFacts DEF UnderWay, At
  <2>2. Repo(p)' = Repo(p) /\ request'[p].found = request[p].found
    BY <1>1, <1>2, <2>1, OthersFacts
  <2> QED BY <1>1, <2>1, <2>2 DEF FoundWhenReleased
<1>3. CASE p = q
  <2>1. request'[q].at = "released"
    BY <1>3
  <2>2. Releases(q)
    BY <2>1 DEF StepClass, Passes, GoesOn, Takes, Resolved, Dropped, Adopts, Counts, Leases, Refuses,
                GivesBack, Busy, LettingGo, Claiming
  <2>3. /\ UnderWay(q) /\ Repo(q) \in Repos /\ Repo(q)' = Repo(q) /\ crossed' = crossed
        /\ request[q].at \in LettingGo
        /\ request'[q].found <=> Repo(q) \in known \/ Repo(q) \notin Imported
    BY <2>2 DEF Releases, Stays, LettingGo
  <2>4. Repo(q) \notin crossed
    BY <1>3, <2>3
  <2>5. Repo(q) \in known
    BY <2>3, <2>4, CountsPositive DEF KnownIfUsed
  <2> QED BY <1>3, <2>3, <2>5
<1> QED BY <1>2, <1>3

LEMMA KnownKept ==
  ASSUME Shaped, PendingCounted, ClaimsHold, KnownIfUsed, NEW q \in Requests, StepClass(q)
  PROVE  KnownIfUsed'
<1>1. crossed \subseteq crossed'
  <2>1. ASSUME NEW r \in Repos, Takes(q, r) PROVE crossed \subseteq crossed'
    BY <2>1, LetGoFacts DEF Takes
  <2> QED BY <2>1 DEF StepClass, Passes, GoesOn, Resolved, Dropped, Adopts, Counts, Leases,
                      Refuses, Releases, GivesBack, Counters
<1> SUFFICES ASSUME NEW r \in Repos, r \notin crossed',
                    active'[r] > 0 \/ pending'[r] > 0 \/ r \in Startup
             PROVE  r \in known'
  BY DEF KnownIfUsed
<1>2. r \notin crossed /\ (active[r] > 0 \/ pending[r] > 0 \/ r \in Startup => r \in known)
  BY <1>1 DEF KnownIfUsed
<1>3. active \in [Repos -> Nat] /\ pending \in [Repos -> Nat] /\ known \in SUBSET Repos
  BY DEF Shaped, TypeOK, SharedTyped
<1>4. CASE \/ Passes(q) \/ GoesOn(q) \/ (\E k \in Repos : Takes(q, k)) \/ Adopts(q) \/ Leases(q) \/ Refuses(q)
  BY <1>2, <1>4 DEF Passes, GoesOn, Takes, Adopts, Leases, Refuses, Counters
<1>5. ASSUME NEW k \in Repos, Resolved(q, k) PROVE r \in known'
  BY <1>2, <1>3, <1>5 DEF Resolved, Up
<1>6. CASE Dropped(q)
  <2>1. /\ known' = Pruned(known, Repo(q), pending', active)
        /\ pending' = [pending EXCEPT ![Repo(q)] = Less(@)]
        /\ active' = active /\ Repo(q) \in Repos
    BY <1>6 DEF Dropped, Down
  <2>2. r \in known
    BY <1>2, <1>3, <2>1 DEF Less
  <2>3. ~(r = Repo(q) /\ active[r] = 0 /\ pending'[r] = 0 /\ r \notin Startup)
    BY <1>3, <2>1
  <2> QED BY <1>3, <2>1, <2>2, <2>3, PrunedFacts
<1>7. CASE Counts(q)
  <2>1. /\ Claims(q) /\ Repo(q) \in Repos /\ active' = [active EXCEPT ![Repo(q)] = @ + 1]
        /\ pending' = pending /\ known' = known
    BY <1>7 DEF Counts, Stays, Claims, Claiming, Up
  <2>2. CASE r = Repo(q)
    <3>1. r \in Startup \/ request[q].resolving
      BY <1>2, <2>1, <2>2 DEF ClaimsHold
    <3>2. request[q].resolving => pending[r] > 0
      <4> SUFFICES ASSUME request[q].resolving PROVE pending[r] > 0
        OBVIOUS
      <4>1. IsFiniteSet(Resolving(r)) /\ q \in Resolving(r)
        BY <2>1, <2>2, FiniteAssumption, FS_Subset DEF Resolving, Resolves, Claims
      <4>2. Cardinality(Resolving(r)) > 0
        BY <4>1, FS_CardinalityType, FS_EmptySet
      <4> QED BY <4>2 DEF PendingCounted
    <3> QED BY <1>2, <2>1, <3>1, <3>2
  <2>3. CASE r # Repo(q)
    BY <1>2, <1>3, <2>1, <2>3
  <2> QED BY <2>2, <2>3
<1>8. CASE Releases(q)
  <2>1. active' = [active EXCEPT ![Repo(q)] = Less(@)] /\ pending' = pending /\ known' = known
        /\ Repo(q) \in Repos
    BY <1>8 DEF Releases, Stays, Down
  <2> QED BY <1>2, <1>3, <2>1 DEF Less
<1>9. CASE GivesBack(q)
  <2>1. /\ known' = known \/ known' = Pruned(known, Repo(q), pending, active)
        /\ active' = active /\ pending' = pending
    BY <1>9 DEF GivesBack
  <2>2. ~(r = Repo(q) /\ active[r] = 0 /\ pending[r] = 0 /\ r \notin Startup)
    BY <1>3, <2>1
  <2> QED BY <1>2, <1>3, <2>1, <2>2, PrunedFacts
<1> QED BY <1>4, <1>5, <1>6, <1>7, <1>8, <1>9 DEF StepClass

LEMMA UsedKept ==
  ASSUME Shaped, UsedIfKnown, NEW q \in Requests, StepClass(q)
  PROVE  UsedIfKnown'
<1> DEFINE Last(p, r) == request[p].at = "released" /\ Repo(p) = r /\ request[p].last
<1>1. Others(q)
  BY DEF StepClass, Passes, GoesOn, Stays, Takes, Resolved, Dropped, Adopts, Counts, Leases, Refuses,
     Releases, GivesBack
<1>2. \A p \in Requests : \A r : p # q /\ Last(p, r) => Last(p, r)'
  <2> SUFFICES ASSUME NEW p \in Requests, NEW r, p # q, Last(p, r) PROVE Last(p, r)'
    OBVIOUS
  <2>1. UnderWay(p)
    BY DEF UnderWay, At
  <2> QED BY <1>1, <2>1, OthersFacts
<1>3. active \in [Repos -> Nat] /\ pending \in [Repos -> Nat] /\ known \in SUBSET Repos
  BY DEF Shaped, TypeOK, SharedTyped
<1> SUFFICES ASSUME NEW r \in known', r \notin Startup
             PROVE  active'[r] > 0 \/ pending'[r] > 0 \/ \E p \in Requests : Last(p, r)'
  BY DEF UsedIfKnown
<1>4. r \in known => active[r] > 0 \/ pending[r] > 0 \/ \E p \in Requests : Last(p, r)
  BY DEF UsedIfKnown
<1>5. ASSUME request[q].at # "released" \/ Repo(q) # r, r \in known,
             active[r] > 0 => active'[r] > 0, pending[r] > 0 => pending'[r] > 0
      PROVE  active'[r] > 0 \/ pending'[r] > 0 \/ \E p \in Requests : Last(p, r)'
  <2>1. ~Last(q, r)
    BY <1>5
  <2> HIDE DEF Last
  <2> QED BY <1>2, <1>4, <1>5, <2>1
<1>6. CASE \/ Passes(q) \/ GoesOn(q) \/ (\E k \in Repos : Takes(q, k)) \/ Adopts(q) \/ Leases(q) \/ Refuses(q)
  <2>1. request[q].at # "released" /\ UNCHANGED <<known, active, pending>>
    BY <1>6 DEF Passes, GoesOn, Takes, Adopts, Leases, Refuses, Counters, Busy, LettingGo
  <2> QED BY <1>5, <2>1
<1>7. ASSUME NEW k \in Repos, Resolved(q, k)
      PROVE  active'[r] > 0 \/ pending'[r] > 0 \/ \E p \in Requests : Last(p, r)'
  <2>1. /\ known' = known \cup {k} /\ pending' = [pending EXCEPT ![k] = @ + 1] /\ active' = active
        /\ request[q].at # "released"
    BY <1>7 DEF Resolved, Up, Busy
  <2>2. CASE r = k
    BY <1>3, <2>1, <2>2
  <2>3. CASE r # k
    BY <1>3, <1>5, <2>1, <2>3
  <2> QED BY <2>2, <2>3
<1>8. CASE Dropped(q)
  <2>1. /\ known' = Pruned(known, Repo(q), pending', active)
        /\ pending' = [pending EXCEPT ![Repo(q)] = Less(@)]
        /\ active' = active /\ Repo(q) \in Repos /\ request[q].at # "released"
    BY <1>8 DEF Dropped, Down, Busy
  <2>2. r \in known /\ ~(r = Repo(q) /\ active[r] = 0 /\ pending'[r] = 0 /\ r \notin Startup)
    <3> DEFINE k == Repo(q)  pendings == pending'
    <3>1. known' = Pruned(known, k, pendings, active)
      BY <2>1
    <3> HIDE DEF k, pendings
    <3>2. r \in known /\ ~(r = k /\ active[k] = 0 /\ pendings[k] = 0 /\ k \notin Startup)
      BY <1>3, <3>1, PrunedFacts
    <3> QED BY <3>2 DEF k, pendings
  <2>3. CASE r = Repo(q)
    BY <1>3, <2>1, <2>2, <2>3 DEF Less
  <2>4. CASE r # Repo(q)
    BY <1>3, <1>5, <2>1, <2>2, <2>4
  <2> QED BY <2>3, <2>4
<1>9. CASE Counts(q)
  <2>1. /\ known' = known /\ active' = [active EXCEPT ![Repo(q)] = @ + 1] /\ pending' = pending
        /\ request[q].at # "released" /\ Repo(q) \in Repos
    BY <1>9 DEF Counts, Stays, Up
  <2>2. active[r] > 0 => active'[r] > 0
    BY <1>3, <2>1
  <2> QED BY <1>5, <2>1, <2>2
<1>10. CASE Releases(q)
  <2>1. /\ known' = known /\ active' = [active EXCEPT ![Repo(q)] = Less(@)] /\ pending' = pending
        /\ request[q].at = "releasing" /\ request'[q].at = "released" /\ Repo(q)' = Repo(q)
        /\ Repo(q) \in Repos
        /\ request'[q].last <=> active'[Repo(q)] = 0
    BY <1>10 DEF Releases, Stays, Down
  <2>2. CASE r = Repo(q)
    <3>1. active'[r] \in Nat
      BY <1>3, <2>1 DEF Less
    <3>2. CASE active'[r] = 0
      <4>1. Last(q, r)'
        BY <2>1, <2>2, <3>2
      <4> QED BY <4>1
    <3>3. CASE active'[r] # 0
      BY <3>1, <3>3
    <3> QED BY <3>2, <3>3
  <2>3. CASE r # Repo(q)
    BY <1>3, <1>5, <2>1, <2>3
  <2> QED BY <2>2, <2>3
<1>11. CASE GivesBack(q)
  <2>1. /\ known' = IF request[q].last THEN Pruned(known, Repo(q), pending, active) ELSE known
        /\ active' = active /\ pending' = pending /\ request[q].at = "released"
    BY <1>11 DEF GivesBack
  <2>2. CASE request[q].last
    <3>1. r \in known /\ ~(r = Repo(q) /\ active[r] = 0 /\ pending[r] = 0 /\ r \notin Startup)
      BY <1>3, <2>1, <2>2, PrunedFacts
    <3>2. CASE r = Repo(q)
      BY <1>3, <2>1, <3>1, <3>2
    <3>3. CASE r # Repo(q)
      BY <1>5, <2>1, <3>1, <3>3
    <3> QED BY <3>2, <3>3
  <2>3. CASE ~request[q].last
    <3>1. ~Last(q, r) /\ known' = known
      BY <2>1, <2>3
    <3> HIDE DEF Last
    <3> QED BY <1>2, <1>4, <2>1, <3>1
  <2> QED BY <2>2, <2>3
<1> QED BY <1>6, <1>7, <1>8, <1>9, <1>10, <1>11 DEF StepClass

\* The counts follow the sessions: what a step adds to or takes from the sets of sessions and
\* requests it adds to or takes from the counts.
LEMMA MatchKept ==
  ASSUME Shaped, ClaimsHold, FoundWhenReleased, CountsMatchSessions, NEW q \in Requests, StepClass(q)
  PROVE  CountsMatchSessions'
<1>1. Others(q)
  BY DEF StepClass, Passes, GoesOn, Stays, Takes, Resolved, Dropped, Adopts, Counts, Leases, Refuses,
     Releases, GivesBack
<1>2. active \in [Repos -> Nat] /\ leases \in [Repos -> Nat] /\ adopted \in [Sessions -> SUBSET Repos]
  BY DEF Shaped, TypeOK, SharedTyped
<1> SUFFICES
      ASSUME NEW r \in Repos, r \notin crossed'
      PROVE  /\ active'[r] = Cardinality(Holders(r)') - Cardinality(Doing(r, Adopting)')
                               + Cardinality(Doing(r, LettingGo)')
             /\ r \notin refused' =>
                  leases'[r] = Cardinality(Holders(r)') - Cardinality(Doing(r, Adopting \cup {"counted"})')
                                 + Cardinality(Doing(r, LettingGo \cup {"released"})')
  BY DEF CountsMatchSessions, Adopting, LettingGo
<1> DEFINE H == Cardinality(Holders(r))
           A == Cardinality(Doing(r, Adopting))
           C == Cardinality(Doing(r, Adopting \cup {"counted"}))
           L == Cardinality(Doing(r, LettingGo))
           M == Cardinality(Doing(r, LettingGo \cup {"released"}))
           before(places) == Bit(q \in Doing(r, places))
           after(places) == Bit(q \in Doing(r, places)')
           Goal == /\ active'[r] = H' - A' + L'
                   /\ r \notin refused' => leases'[r] = H' - C' + M'
<1>3. \A k : q \in Doing(r, k) <=> UnderWay(q) /\ Repo(q) = r /\ request[q].at \in k
  BY DEF Doing
<1>4. \A k : q \in Doing(r, k)' <=> UnderWay(q)' /\ Repo(q)' = r /\ request'[q].at \in k
  BY DEF Doing
<1>5. /\ A \in Nat /\ A' \in Nat /\ A' = A - before(Adopting) + after(Adopting)
      /\ C \in Nat /\ C' \in Nat
      /\ C' = C - before(Adopting \cup {"counted"}) + after(Adopting \cup {"counted"})
      /\ L \in Nat /\ L' \in Nat /\ L' = L - before(LettingGo) + after(LettingGo)
      /\ M \in Nat /\ M' \in Nat
      /\ M' = M - before(LettingGo \cup {"released"}) + after(LettingGo \cup {"released"})
  BY <1>1, DoingCounted DEF Adopting, LettingGo
<1>6. H \in Nat /\ (adopted' = adopted => H' = H)
  <2>1. H \in Nat
    BY FiniteAssumption, FS_Subset, FS_CardinalityType DEF Holders
  <2> QED BY <2>1 DEF Holders
<1>7. r \notin crossed =>
        active[r] = H - A + L /\ (r \notin refused => leases[r] = H - C + M)
  BY DEF CountsMatchSessions
<1>8. active[r] \in Nat /\ leases[r] \in Nat
  BY <1>2
<1>9. crossed \subseteq crossed'
  <2>1. ASSUME NEW k \in Repos, Takes(q, k) PROVE crossed \subseteq crossed'
    BY <2>1, LetGoFacts DEF Takes
  <2> QED BY <2>1 DEF StepClass, Passes, GoesOn, Resolved, Dropped, Adopts, Counts, Leases,
                      Refuses, Releases, GivesBack, Counters
<1>10. /\ active[r] = H - A + L /\ (r \notin refused => leases[r] = H - C + M)
  BY <1>7, <1>9
<1> DEFINE a0 == before(Adopting)  a1 == after(Adopting)
           c0 == before(Adopting \cup {"counted"})  c1 == after(Adopting \cup {"counted"})
           l0 == before(LettingGo)  l1 == after(LettingGo)
           m0 == before(LettingGo \cup {"released"})  m1 == after(LettingGo \cup {"released"})
\* Where the request is and where it goes, in numbers.
<1>11. /\ request[q].at \notin Busy => a0 = 0 /\ c0 = 0 /\ l0 = 0 /\ m0 = 0
       /\ request'[q].at \notin Busy => a1 = 0 /\ c1 = 0 /\ l1 = 0 /\ m1 = 0
       /\ request[q].at = "refused" => a0 = 0 /\ c0 = 0 /\ l0 = 0 /\ m0 = 0
       /\ request'[q].at = "refused" => a1 = 0 /\ c1 = 0 /\ l1 = 0 /\ m1 = 0
       /\ request[q].at \in LettingGo => a0 = 0 /\ c0 = 0 /\ l0 = Bit(Repo(q) = r) /\ m0 = Bit(Repo(q) = r)
       /\ request'[q].at \in LettingGo => a1 = 0 /\ c1 = 0 /\ l1 = Bit(Repo(q)' = r) /\ m1 = Bit(Repo(q)' = r)
       /\ request[q].at = "adopted" => a0 = Bit(Repo(q) = r) /\ c0 = Bit(Repo(q) = r) /\ l0 = 0 /\ m0 = 0
       /\ request'[q].at = "adopted" => a1 = Bit(Repo(q)' = r) /\ c1 = Bit(Repo(q)' = r) /\ l1 = 0 /\ m1 = 0
       /\ request[q].at = "counted" => a0 = 0 /\ c0 = Bit(Repo(q) = r) /\ l0 = 0 /\ m0 = 0
       /\ request'[q].at = "counted" => a1 = 0 /\ c1 = Bit(Repo(q)' = r) /\ l1 = 0 /\ m1 = 0
       /\ request[q].at = "released" => a0 = 0 /\ c0 = 0 /\ l0 = 0 /\ m0 = Bit(Repo(q) = r)
       /\ request'[q].at = "released" => a1 = 0 /\ c1 = 0 /\ l1 = 0 /\ m1 = Bit(Repo(q)' = r)
  BY <1>3, <1>4 DEF Bit, Busy, Claiming, LettingGo, Adopting, UnderWay, At
<1> HIDE DEF a0, a1, c0, c1, l0, l1, m0, m1, before, after
<1>12. A' = A - a0 + a1 /\ C' = C - c0 + c1 /\ L' = L - l0 + l1 /\ M' = M - m0 + m1
  BY <1>5 DEF a0, a1, c0, c1, l0, l1, m0, m1
<1>13. Bit(Repo(q) = r) \in {0, 1} /\ Bit(TRUE) = 1 /\ Bit(FALSE) = 0
  BY DEF Bit
<1> HIDE DEF H, A, C, L, M
<1>14. ASSUME Passes(q) \/ (\E k \in Repos : Resolved(q, k)) \/ Dropped(q) PROVE Goal
  <2>1. /\ UNCHANGED <<active, leases, adopted, refused>>
        /\ request[q].at \notin Busy /\ request'[q].at \notin Busy
    BY <1>14 DEF Passes, Resolved, Dropped, Counters
  <2> QED BY <1>5, <1>6, <1>10, <1>11, <1>12, <2>1
<1>15. ASSUME GoesOn(q) PROVE Goal
  <2>1. /\ UNCHANGED <<active, leases, adopted, refused>>
        /\ request[q].at \in LettingGo /\ request'[q].at \in LettingGo /\ Repo(q)' = Repo(q)
    BY <1>15 DEF GoesOn, Stays, Counters
  <2>2. a0 = 0 /\ c0 = 0 /\ a1 = 0 /\ c1 = 0 /\ l1 = l0 /\ m1 = m0 /\ l0 \in {0, 1} /\ m0 \in {0, 1}
    BY <1>11, <1>13, <2>1
  <2>3. A' = A /\ C' = C /\ L' = L /\ M' = M /\ H' = H
    BY <1>5, <1>6, <1>12, <2>1, <2>2
  <2> QED BY <1>10, <2>1, <2>3
<1>16. ASSUME NEW k \in Repos, Takes(q, k) PROVE Goal
  <2>1. /\ UNCHANGED <<active, leases, refused>> /\ UnderWay(q) /\ Session(q) \in Sessions
        /\ \/ request[q].at \notin Busy /\ k \in adopted[Session(q)]
           \/ request[q].at = "refused" /\ Repo(q) = k
        /\ request'[q].at \in LettingGo /\ Repo(q)' = k /\ LetGo(q, k)
    BY <1>16 DEF Takes
  <2>2. /\ adopted'[Session(q)] = adopted[Session(q)] \ {k}
        /\ \A s \in Sessions : s # Session(q) => adopted'[s] = adopted[s]
    BY <2>1, LetGoFacts
  <2>3. H' \in Nat /\ H' = H - Bit(Session(q) \in Holders(r)) + Bit(Session(q) \in Holders(r)')
    BY <2>2, HoldersCounted DEF H
  <2>4. a0 = 0 /\ c0 = 0 /\ a1 = 0 /\ c1 = 0 /\ l0 = 0 /\ m0 = 0 /\ l1 = Bit(k = r) /\ m1 = Bit(k = r)
    BY <1>11, <2>1
  <2>5. CASE k = r
    <3>1. r \in adopted[Session(q)]
      BY <1>9, <2>1, <2>5 DEF ClaimsHold, Claims, Claiming
    <3>2. Session(q) \in Holders(r) /\ Session(q) \notin Holders(r)'
      BY <2>1, <2>2, <2>5, <3>1 DEF Holders
    <3>3. H' = H - 1 /\ l1 = 1 /\ m1 = 1
      BY <1>6, <2>3, <2>4, <2>5, <3>2 DEF Bit
    <3> QED BY <1>5, <1>6, <1>10, <1>12, <2>1, <2>3, <2>4, <3>3
  <2>6. CASE k # r
    <3>1. Session(q) \in Holders(r) <=> Session(q) \in Holders(r)'
      BY <2>1, <2>2, <2>6 DEF Holders
    <3>2. H' = H /\ l1 = 0 /\ m1 = 0
      BY <1>6, <2>3, <2>4, <2>6, <3>1 DEF Bit
    <3> QED BY <1>5, <1>6, <1>10, <1>12, <2>1, <2>4, <3>2
  <2> QED BY <2>5, <2>6
<1>17. ASSUME Adopts(q) PROVE Goal
  <2>1. /\ UNCHANGED <<active, leases, refused>> /\ Session(q) \in Sessions /\ Repo(q)' = Repo(q)
        /\ request[q].at = "working" /\ request'[q].at = "adopted" /\ Repo(q) \notin adopted[Session(q)]
        /\ adopted' = [adopted EXCEPT ![Session(q)] = @ \cup {Repo(q)}]
    BY <1>17 DEF Adopts, Stays
  <2>2. H' \in Nat /\ H' = H - Bit(Session(q) \in Holders(r)) + Bit(Session(q) \in Holders(r)')
    BY <1>2, <2>1, HoldersCounted DEF H
  <2>3. "working" \notin Busy
    BY DEF Busy, Claiming, LettingGo
  <2>4. /\ a0 = 0 /\ c0 = 0 /\ l0 = 0 /\ m0 = 0 /\ a1 = Bit(Repo(q) = r) /\ c1 = Bit(Repo(q) = r)
        /\ l1 = 0 /\ m1 = 0
    BY <1>11, <2>1, <2>3
  <2>5. CASE Repo(q) = r
    <3>1. Session(q) \notin Holders(r) /\ Session(q) \in Holders(r)'
      BY <1>2, <2>1, <2>5 DEF Holders
    <3>2. H' = H + 1 /\ a1 = 1 /\ c1 = 1
      BY <1>6, <2>2, <2>4, <2>5, <3>1 DEF Bit
    <3>3. A' = A + 1 /\ C' = C + 1 /\ L' = L /\ M' = M
      BY <1>5, <1>12, <2>4, <3>2
    <3> QED BY <1>5, <1>6, <1>10, <2>1, <3>2, <3>3
  <2>6. CASE Repo(q) # r
    <3>1. Session(q) \in Holders(r) <=> Session(q) \in Holders(r)'
      BY <1>2, <2>1, <2>6 DEF Holders
    <3>2. H' = H /\ a1 = 0 /\ c1 = 0
      BY <1>6, <2>2, <2>4, <2>6, <3>1 DEF Bit
    <3> QED BY <1>5, <1>6, <1>10, <1>12, <2>1, <2>4, <3>2
  <2> QED BY <2>5, <2>6
<1>18. ASSUME Counts(q) PROVE Goal
  <2>1. /\ UNCHANGED <<leases, adopted, refused>> /\ Repo(q)' = Repo(q) /\ Repo(q) \in Repos
        /\ request[q].at = "adopted" /\ request'[q].at = "counted"
        /\ active' = [active EXCEPT ![Repo(q)] = @ + 1]
    BY <1>18 DEF Counts, Stays, Up
  <2>2. a0 = Bit(Repo(q) = r) /\ c1 = c0 /\ c0 \in {0, 1} /\ a1 = 0 /\ l0 = 0 /\ l1 = 0 /\ m0 = 0
        /\ m1 = 0
    BY <1>11, <1>13, <2>1
  <2>3. active'[r] = active[r] + a0
    BY <1>2, <2>1, <2>2 DEF Bit
  <2>4. a0 \in {0, 1}
    BY <1>13, <2>2
  <2> QED BY <1>5, <1>6, <1>8, <1>10, <1>12, <2>1, <2>2, <2>3, <2>4
<1>19. ASSUME Leases(q) PROVE Goal
  <2>1. /\ UNCHANGED <<active, adopted, refused>> /\ Repo(q)' = Repo(q) /\ Repo(q) \in Repos
        /\ request[q].at = "counted" /\ request'[q].at = "served"
        /\ leases' = [leases EXCEPT ![Repo(q)] = @ + 1]
    BY <1>19 DEF Leases, Stays, Up
  <2>2. "served" \notin Busy
    BY DEF Busy, Claiming, LettingGo
  <2>3. c0 = Bit(Repo(q) = r) /\ c1 = 0 /\ a0 = 0 /\ a1 = 0 /\ l0 = 0 /\ l1 = 0 /\ m0 = 0 /\ m1 = 0
    BY <1>11, <2>1, <2>2
  <2>4. leases'[r] = leases[r] + c0 /\ c0 \in {0, 1}
    BY <1>2, <1>13, <2>1, <2>3 DEF Bit
  <2> QED BY <1>5, <1>6, <1>8, <1>10, <1>12, <2>1, <2>3, <2>4
<1>20. ASSUME Refuses(q) PROVE Goal
  <2>1. /\ UNCHANGED <<active, leases, adopted>> /\ Repo(q)' = Repo(q)
        /\ request[q].at = "counted" /\ request'[q].at = "refused"
        /\ refused' = refused \cup {Repo(q)}
    BY <1>20 DEF Refuses, Stays
  <2>2. c0 = Bit(Repo(q) = r) /\ c1 = 0 /\ a0 = 0 /\ a1 = 0 /\ l0 = 0 /\ l1 = 0 /\ m0 = 0 /\ m1 = 0
    BY <1>11, <2>1
  <2>3. r \notin refused' => r \notin refused /\ c0 = 0
    BY <2>1, <2>2 DEF Bit
  <2>4. active'[r] = H' - A' + L'
    BY <1>5, <1>6, <1>10, <1>12, <2>1, <2>2
  <2>5. r \notin refused' => leases'[r] = H' - C' + M'
    <3>1. H' = H /\ M' = M /\ (r \notin refused' => C' = C)
      BY <1>5, <1>6, <1>12, <2>1, <2>2, <2>3
    <3> QED BY <1>10, <2>1, <2>3, <3>1
  <2> QED BY <2>4, <2>5
<1>21. ASSUME Releases(q) PROVE Goal
  <2>1. /\ UNCHANGED <<leases, adopted, refused>> /\ Repo(q)' = Repo(q) /\ Repo(q) \in Repos
        /\ UnderWay(q)
        /\ request[q].at = "releasing" /\ request'[q].at = "released"
        /\ active' = [active EXCEPT ![Repo(q)] = Less(@)]
    BY <1>21 DEF Releases, Stays, Down
  <2>2. request[q].at \in LettingGo
    BY <2>1 DEF LettingGo
  <2>3. /\ a0 = 0 /\ a1 = 0 /\ c0 = 0 /\ c1 = 0 /\ l0 = Bit(Repo(q) = r) /\ l1 = 0
        /\ m0 = Bit(Repo(q) = r) /\ m1 = m0 /\ m0 \in {0, 1} /\ l0 \in {0, 1}
    BY <1>11, <1>13, <2>1, <2>2
  <2>4. active'[r] = active[r] - l0
    <3>1. CASE Repo(q) = r
      <4>1. active[r] > 0 /\ l0 = 1
        BY <1>9, <2>1, <2>2, <2>3, <3>1, CountsPositive DEF Bit
      <4> QED BY <1>2, <2>1, <3>1, <4>1 DEF Less
    <3>2. CASE Repo(q) # r
      BY <1>2, <2>1, <2>3, <3>2 DEF Bit
    <3> QED BY <3>1, <3>2
  <2> QED BY <1>5, <1>6, <1>8, <1>10, <1>12, <2>1, <2>3, <2>4
<1>22. ASSUME GivesBack(q) PROVE Goal
  <2>1. /\ UNCHANGED <<active, adopted, refused>> /\ Repo(q) \in Repos /\ UnderWay(q)
        /\ request[q].at = "released" /\ request'[q].at \in {"failed", "leaving", "closing", "done"}
        /\ leases' = IF request[q].found THEN [leases EXCEPT ![Repo(q)] = Less(@)] ELSE leases
    BY <1>22 DEF GivesBack, Down, UnderWay, At
  <2>2. request'[q].at \notin Busy
    BY <2>1 DEF Busy, Claiming, LettingGo
  <2>3. /\ a0 = 0 /\ a1 = 0 /\ c0 = 0 /\ c1 = 0 /\ l0 = 0 /\ l1 = 0 /\ m0 = Bit(Repo(q) = r) /\ m1 = 0
        /\ m0 \in {0, 1}
    BY <1>11, <1>13, <2>1, <2>2
  <2>4. r \notin refused => leases'[r] = leases[r] - m0
    <3> SUFFICES ASSUME r \notin refused PROVE leases'[r] = leases[r] - m0
      OBVIOUS
    <3>1. CASE Repo(q) = r
      <4>1. request[q].found
        BY <1>9, <2>1, <3>1 DEF FoundWhenReleased
      <4>2. leases[r] > 0 /\ m0 = 1
        BY <1>9, <2>1, <2>3, <3>1, CountsPositive DEF Bit
      <4> QED BY <1>2, <2>1, <3>1, <4>1, <4>2 DEF Less
    <3>2. CASE Repo(q) # r
      BY <1>2, <2>1, <2>3, <3>2 DEF Bit
    <3> QED BY <3>1, <3>2
  <2>5. active'[r] = H' - A' + L'
    BY <1>5, <1>6, <1>10, <1>12, <2>1, <2>3
  <2>6. r \notin refused' => leases'[r] = H' - C' + M'
    BY <1>5, <1>6, <1>8, <1>10, <1>12, <2>1, <2>3, <2>4
  <2> QED BY <2>5, <2>6
<1>23. Goal
  BY <1>14, <1>15, <1>16, <1>17, <1>18, <1>19, <1>20, <1>21, <1>22 DEF StepClass
<1> QED BY <1>23 DEF H, A, C, L, M

-----------------------------------------------------------------------------
(* The counts are inductive. *)

LEMMA InitCounted == ASSUME Init PROVE Counted
<1>1. \A q \in Requests : ~UnderWay(q) /\ request[q].at = "unmade"
  BY DEF Init, UnderWay, At, Unmade
<1>2. \A r \in Repos : Resolving(r) = {} /\ Holders(r) = {} /\ \A places : Doing(r, places) = {}
  BY <1>1 DEF Init, Resolving, Resolves, Holders, Doing
<1>3. Cardinality({}) = 0
  BY FS_EmptySet
<1>4. PendingCounted /\ CountsMatchSessions
  <2>1. \A r \in Repos : pending[r] = 0 /\ active[r] = 0 /\ leases[r] = 0
    BY DEF Init
  <2>2. \A r \in Repos : /\ Cardinality(Resolving(r)) = 0 /\ Cardinality(Holders(r)) = 0
                         /\ \A places : Cardinality(Doing(r, places)) = 0
    BY <1>2, <1>3, Zenon
  <2>3. PendingCounted
    BY <2>1, <2>2 DEF PendingCounted
  <2>4. CountsMatchSessions
    BY <2>1, <2>2 DEF CountsMatchSessions
  <2> QED BY <2>3, <2>4
<1>5. ClaimsHold /\ ByIdHolds /\ FoundWhenReleased
  BY <1>1 DEF ClaimsHold, Claims, ByIdHolds, FoundWhenReleased
<1>6. KnownIfUsed /\ UsedIfKnown
  BY DEF Init, KnownIfUsed, UsedIfKnown
<1> QED BY <1>4, <1>5, <1>6 DEF Counted

LEMMA NextClass ==
  ASSUME Shaped, Next
  PROVE  \E q \in Requests : StepClass(q)
BY BeginClass, ContinueClass DEF Next, Begin, Continue

LEMMA NextShaped ==
  ASSUME Shaped, [Next]_vars
  PROVE  Shaped'
<1>1. CASE Begin
  <2>1. PICK q \in Requests, s \in Sessions :
          \/ \E r \in Repos, sets \in BOOLEAN :
               ResolveId(q, s, r, sets) \/ \E kind \in {"attach", "prepare"} : ResolvePath(q, s, r, kind, sets)
          \/ \E r \in Repos : BeginDetach(q, s, r)
          \/ BeginClose(q, s)
    BY <1>1 DEF Begin
  <2> QED BY <2>1, ResolveIdStep, ResolvePathStep, BeginDetachStep, BeginCloseStep
<1>2. CASE Continue
  <2>1. PICK q \in Requests :
          \/ ReadDefault(q) \/ Arm(q) \/ GiveUp(q)
          \/ Adopt(q) \/ CountSession(q) \/ AcquireLease(q) \/ LeaseRefused(q) \/ SetDefault(q)
          \/ (\E success \in BOOLEAN : Tell(q, success)) \/ DropResolution(q)
          \/ Release(q) \/ ReleaseLease(q) \/ Withdraw(q)
          \/ Detach(q) \/ ForgetAttaches(q) \/ LookAtDefault(q) \/ ClearDefault(q) \/ CloseOne(q)
          \/ StillAdopted(q) \/ \E success \in BOOLEAN : Finish(q, success)
          \/ Rollback(q) \/ Restore(q) \/ UndoDefault(q)
    BY <1>2 DEF Continue
  <2> QED BY <2>1, ReadDefaultStep, ArmStep, GiveUpStep, AdoptStep, CountSessionStep, AcquireLeaseStep,
             LeaseRefusedStep, SetDefaultStep, TellStep, DropResolutionStep, ReleaseStep, ReleaseLeaseStep,
             WithdrawStep, DetachStep, ForgetAttachesStep, LookAtDefaultStep, ClearDefaultStep,
             CloseOneStep, StillAdoptedStep, FinishStep, RollbackStep, RestoreStep, UndoDefaultStep
<1>3. CASE UNCHANGED vars
  BY <1>3 DEF Shaped, TypeOK, SharedTyped, RequestTyped, PlacesFit, Fits, UnderWay, At,
              vars, registry, session, history
<1> QED BY <1>1, <1>2, <1>3 DEF Next

LEMMA NextCounted ==
  ASSUME Shaped, Counted, [Next]_vars
  PROVE  Counted'
<1>1. CASE Next
  <2>1. PICK q \in Requests : StepClass(q)
    BY <1>1, NextClass
  <2> QED BY <2>1, PendingKept, ClaimsKept, ByIdKept, KnownKept, UsedKept, FoundKept,
             MatchKept DEF Counted
<1>2. CASE UNCHANGED vars
  <2>1. UNCHANGED <<request, known, pending, active, leases, adopted, refused, crossed>>
    BY <1>2 DEF vars, registry, session, history
  <2>2. \A q \in Requests : /\ Repo(q)' = Repo(q) /\ Session(q)' = Session(q) /\ (UnderWay(q)' <=> UnderWay(q))
                            /\ request'[q] = request[q]
    BY <2>1 DEF Repo, Session, UnderWay, At
  <2>3. \A r : Resolving(r)' = Resolving(r) /\ Holders(r)' = Holders(r)
               /\ Doing(r, Adopting)' = Doing(r, Adopting)
               /\ Doing(r, Adopting \cup {"counted"})' = Doing(r, Adopting \cup {"counted"})
               /\ Doing(r, LettingGo)' = Doing(r, LettingGo)
               /\ Doing(r, LettingGo \cup {"released"})' = Doing(r, LettingGo \cup {"released"})
    BY <2>1 DEF Resolving, Holders, Doing, Resolves, Adopting, LettingGo, UnderWay, At, Repo
  <2>4. PendingCounted'
    BY <2>1, <2>3 DEF Counted, PendingCounted
  <2>5. ClaimsHold'
    BY <2>1 DEF Counted, ClaimsHold, Claims, UnderWay, At, Repo, Session
  <2>6. ByIdHolds' /\ FoundWhenReleased'
    BY <2>1 DEF Counted, ByIdHolds, FoundWhenReleased, Repo, Session
  <2>7. KnownIfUsed' /\ UsedIfKnown'
    BY <2>1 DEF Counted, KnownIfUsed, UsedIfKnown, Repo
  <2>8. CountsMatchSessions'
    BY <2>1, <2>3 DEF Counted, CountsMatchSessions
  <2> QED BY <2>4, <2>5, <2>6, <2>7, <2>8 DEF Counted
<1> QED BY <1>1, <1>2

\* Of a workspace that a session has, the count, or a resolution, says so; what is known and used
\* by nobody is under way to be pruned.
LEMMA CountedCatalog ==
  ASSUME Shaped, Counted
  PROVE  CatalogHoldsWhatIsUsed
<1> SUFFICES ASSUME NEW r \in Repos \ crossed
             PROVE  /\ Holders(r) # {} => r \in known
                    /\ (\A s \in Sessions : Quiet(s)) /\ r \in known \ Startup => Holders(r) # {}
  BY DEF CatalogHoldsWhatIsUsed
<1>1. /\ Cardinality(Doing(r, Adopting)) <= Cardinality(Holders(r))
      /\ Cardinality(Holders(r)) \in Nat /\ Cardinality(Doing(r, Adopting)) \in Nat
  BY ClaimsBounded DEF Counted
<1>2. active[r] = Cardinality(Holders(r)) - Cardinality(Doing(r, Adopting)) + Cardinality(Doing(r, LettingGo))
  BY DEF Counted, CountsMatchSessions
<1>3. /\ IsFiniteSet(Holders(r)) /\ IsFiniteSet(Doing(r, Adopting)) /\ IsFiniteSet(Doing(r, LettingGo))
      /\ IsFiniteSet(Resolving(r))
  BY FiniteAssumption, FS_Subset DEF Holders, Doing, Resolving
<1>4. ASSUME Holders(r) # {} PROVE r \in known
  <2>1. Cardinality(Holders(r)) > 0 /\ Cardinality(Doing(r, LettingGo)) \in Nat
    BY <1>1, <1>3, <1>4, FS_EmptySet, FS_CardinalityType
  <2>2. CASE Doing(r, Adopting) = {}
    <3>1. Cardinality(Doing(r, Adopting)) = 0
      BY <2>2, FS_EmptySet
    <3>2. active[r] > 0
      BY <1>1, <1>2, <2>1, <3>1
    <3> QED BY <3>2 DEF Counted, KnownIfUsed
  <2>3. CASE Doing(r, Adopting) # {}
    <3>1. PICK q \in Requests : Claims(q) /\ Repo(q) = r
      BY <2>3 DEF Doing, Claims, Adopting, Claiming
    <3>2. r \in Startup \/ request[q].resolving
      BY <3>1 DEF Counted, ClaimsHold
    <3>3. request[q].resolving => pending[r] > 0
      <4> SUFFICES ASSUME request[q].resolving PROVE pending[r] > 0
        OBVIOUS
      <4>1. q \in Resolving(r)
        BY <3>1 DEF Resolving, Resolves, Claims
      <4>2. Cardinality(Resolving(r)) > 0
        BY <1>3, <4>1, FS_CardinalityType, FS_EmptySet
      <4> QED BY <4>2 DEF Counted, PendingCounted
    <3> QED BY <3>2, <3>3 DEF Counted, KnownIfUsed
  <2> QED BY <2>2, <2>3
<1>5. ASSUME \A s \in Sessions : Quiet(s), r \in known \ Startup PROVE Holders(r) # {}
  <2>1. \A q \in Requests : ~UnderWay(q)
    BY <1>5, PlaceFacts DEF Quiet, RequestsOf
  <2>2. Resolving(r) = {} /\ Doing(r, Adopting) = {} /\ Doing(r, LettingGo) = {}
    BY <2>1 DEF Resolving, Resolves, Doing
  <2>3. pending[r] = 0 /\ active[r] = Cardinality(Holders(r))
    <3>1. Cardinality(Resolving(r)) = 0 /\ Cardinality(Doing(r, Adopting)) = 0
          /\ Cardinality(Doing(r, LettingGo)) = 0
      BY <2>2, FS_EmptySet
    <3>2. pending[r] = 0
      BY <3>1 DEF Counted, PendingCounted
    <3> QED BY <1>1, <1>2, <3>1, <3>2
  <2>4. \A q \in Requests : request[q].at # "released"
    BY <2>1 DEF UnderWay, At
  <2>5. active[r] > 0
    BY <1>5, <2>3, <2>4 DEF Counted, UsedIfKnown
  <2> QED BY <2>3, <2>5, FS_EmptySet
<1> QED BY <1>4, <1>5

\* The state of the catalog and of the sessions has the types it should have, and a request is
\* where its kind and its locals say (workspace_registry.rs, mcp/server/workspace.rs).
THEOREM RequestsFit == SessionsSpec => []Shaped
<1>1. Init => Shaped
  BY InitShaped
<1>2. Shaped /\ [Next]_vars => Shaped'
  BY NextShaped
<1> QED BY <1>1, <1>2, PTL DEF SessionsSpec

\* The counts of active sessions and of watch leases are those of the sessions that have a
\* workspace, at every instant (mark_session_adopted, release_repository_id, acquire_lease).
THEOREM CountsMatch == SessionsSpec => []CountsMatchSessions
<1>1. Init => Shaped /\ Counted
  BY InitShaped, InitCounted
<1>2. Shaped /\ Counted /\ [Next]_vars => (Shaped /\ Counted)'
  BY NextShaped, NextCounted
<1>3. Counted => CountsMatchSessions
  BY DEF Counted
<1> QED BY <1>1, <1>2, <1>3, PTL DEF SessionsSpec

\* The catalog holds what a session has, and of an ad hoc workspace nothing once nobody has it
\* (prune_inactive_ephemeral_workspace).
THEOREM CatalogHolds == SessionsSpec => []CatalogHoldsWhatIsUsed
<1>1. Init => Shaped /\ Counted
  BY InitShaped, InitCounted
<1>2. Shaped /\ Counted /\ [Next]_vars => (Shaped /\ Counted)'
  BY NextShaped, NextCounted
<1>3. Shaped /\ Counted => CatalogHoldsWhatIsUsed
  BY CountedCatalog
<1> QED BY <1>1, <1>2, <1>3, PTL DEF SessionsSpec

-----------------------------------------------------------------------------
(* What stays of an attach.  A request speaks for a workspace of its session when it will either *)
(* tell the session that it has it, or ask to undo it, or undo it, or leave it unanswered.       *)

Exempt == crossed \cup forgotten \cup refused
Guards(q, s, r) == UnderWay(q) /\ request[q].guarded /\ Session(q) = s /\ Repo(q) = r
Guarded(s, r)   == {q \in Requests : Guards(q, s, r)}
Speaks(q, s, r) ==
  /\ UnderWay(q) /\ Session(q) = s
  /\ \/ request[q].kind = "close"
     \/ /\ Repo(q) = r
        /\ \/ request[q].at \in {"adopted", "counted"}
           \/ request[q].created /\ (request[q].guarded \/ request[q].at \in {"served", "telling"})
           \/ ~request[q].guarded /\ request[q].at = "rollback"

\* The state that the attaches of a workspace share is there while one of them is under way.
FlightsFew ==
  \A s \in Sessions, r \in Repos :
    /\ attaching[s][r].inFlight = 0 => attaching[s][r] = NoAttach
    /\ attaching[s][r].inFlight <= Cardinality(Guarded(s, r))
RefusedNoted == \A q \in Requests : request[q].at = "refused" => Repo(q) \in refused
AnswersHold ==
  \A q \in Requests : request[q].at = "answering" /\ Repo(q) \notin crossed => Repo(q) \in adopted[Session(q)]
\* What an attach has completed the session was told, and it still has it.
CompletedHolds ==
  \A s \in Sessions, r \in Repos \ Exempt :
    attaching[s][r].completed => r \in completed[s] /\ r \in adopted[s]
\* What a session has it was told, or was left without an answer by a request that has no rollback
\* guard, or the last attach will undo it, or a request speaks for it.
Accounted ==
  \A s \in Sessions : \A r \in adopted[s] \ Exempt :
    \/ r \in completed[s] \cup unanswered[s]
    \/ attaching[s][r].rollback
    \/ \E q \in Requests : Speaks(q, s, r)

Told == FlightsFew /\ RefusedNoted /\ AnswersHold /\ CompletedHolds /\ Accounted

\* A step that changes nothing of this, but for what its request says of itself.
Carries(q) ==
  /\ Others(q) /\ UNCHANGED <<adopted, attaching, completed, unanswered, crossed, forgotten>>
  /\ refused \subseteq refused'
  /\ \A s, r : Guards(q, s, r)' <=> Guards(q, s, r)
  /\ \A s \in Sessions : \A r \in adopted[s] \ refused' : Speaks(q, s, r) => Speaks(q, s, r)'
  /\ request'[q].at = "answering" => Repo(q)' \in adopted[Session(q)']
  /\ request'[q].at = "refused" => Repo(q)' \in refused'

LEMMA OthersSpeak ==
  ASSUME NEW q \in Requests, Others(q), NEW p \in Requests, p # q, NEW s, NEW r
  PROVE  /\ Speaks(p, s, r)' <=> Speaks(p, s, r)
         /\ Guards(p, s, r)' <=> Guards(p, s, r)
BY OthersFacts DEF Speaks, Guards

LEMMA GuardedCounted ==
  ASSUME NEW q \in Requests, Others(q), NEW s, NEW r
  PROVE  /\ Cardinality(Guarded(s, r)) \in Nat /\ Cardinality(Guarded(s, r)') \in Nat
         /\ Cardinality(Guarded(s, r)') = Cardinality(Guarded(s, r)) - Bit(Guards(q, s, r)) + Bit(Guards(q, s, r)')
<1>1. IsFiniteSet(Guarded(s, r))
  BY FiniteAssumption, FS_Subset DEF Guarded
<1>2. Guarded(s, r) \ {q} = Guarded(s, r)' \ {q}
  BY OthersSpeak DEF Guarded
<1>3. (q \in Guarded(s, r) <=> Guards(q, s, r)) /\ (q \in Guarded(s, r)' <=> Guards(q, s, r)')
  BY DEF Guarded
<1>4. Bit(q \in Guarded(s, r)) = Bit(Guards(q, s, r))
      /\ Bit(q \in Guarded(s, r)') = Bit(Guards(q, s, r)')
  BY <1>3 DEF Bit
<1> QED BY <1>1, <1>2, <1>4, CountedOne

\* A step that its request only goes on with.
LEMMA MovedSpeaks ==
  ASSUME Shaped, NEW q \in Requests, UnderWay(q), NEW place \in Places, Moved(q, place)
  PROVE  /\ \A s, r : Guards(q, s, r)' <=> Guards(q, s, r)
         /\ request'[q].created = request[q].created /\ request'[q].guarded = request[q].guarded
         /\ request'[q].kind = request[q].kind
         /\ UnderWay(q)' /\ Repo(q)' = Repo(q) /\ Session(q)' = Session(q)
BY MovedFacts DEF Guards, Moved, Same, Still

LEMMA CarriesKept ==
  ASSUME Shaped, Told, NEW q \in Requests, Carries(q)
  PROVE  Told'
<1>1. Others(q) /\ UNCHANGED <<adopted, attaching, completed, unanswered, crossed, forgotten>>
      /\ refused \subseteq refused'
  BY DEF Carries
<1>2. Exempt \subseteq Exempt'
  BY <1>1 DEF Exempt
<1>3. FlightsFew'
  <2> SUFFICES ASSUME NEW s \in Sessions, NEW r \in Repos
               PROVE  /\ attaching'[s][r].inFlight = 0 => attaching'[s][r] = NoAttach
                      /\ attaching'[s][r].inFlight <= Cardinality(Guarded(s, r)')
    BY DEF FlightsFew, NoAttach
  <2>1. Cardinality(Guarded(s, r)') = Cardinality(Guarded(s, r))
    <3>1. Bit(Guards(q, s, r)) = Bit(Guards(q, s, r)') /\ Bit(Guards(q, s, r)) \in {0, 1}
      BY DEF Carries, Bit
    <3> QED BY <1>1, <3>1, GuardedCounted
  <2> QED BY <1>1, <2>1 DEF Told, FlightsFew
<1>4. RefusedNoted'
  <2> SUFFICES ASSUME NEW p \in Requests, request'[p].at = "refused" PROVE Repo(p)' \in refused'
    BY DEF RefusedNoted
  <2>1. CASE p = q
    BY <2>1 DEF Carries
  <2>2. CASE p # q
    <3>1. request[p].at = "refused" /\ UnderWay(p)
      BY <1>1, <2>2, OthersFacts DEF UnderWay, At
    <3>2. Repo(p)' = Repo(p) /\ Repo(p) \in refused
      BY <1>1, <2>2, <3>1, OthersFacts DEF Told, RefusedNoted
    <3> QED BY <1>1, <3>2
  <2> QED BY <2>1, <2>2
<1>5. AnswersHold'
  <2> SUFFICES ASSUME NEW p \in Requests, request'[p].at = "answering", Repo(p)' \notin crossed'
               PROVE  Repo(p)' \in adopted'[Session(p)']
    BY DEF AnswersHold
  <2>1. CASE p = q
    BY <1>1, <2>1 DEF Carries
  <2>2. CASE p # q
    <3>1. request[p].at = "answering" /\ UnderWay(p)
      BY <1>1, <2>2, OthersFacts DEF UnderWay, At
    <3>2. Repo(p)' = Repo(p) /\ Session(p)' = Session(p)
      BY <1>1, <2>2, <3>1, OthersFacts
    <3> QED BY <1>1, <3>1, <3>2 DEF Told, AnswersHold
  <2> QED BY <2>1, <2>2
<1>6. CompletedHolds'
  BY <1>1, <1>2 DEF Told, CompletedHolds
<1>7. Accounted'
  <2> SUFFICES ASSUME NEW s \in Sessions, NEW r \in adopted[s], r \notin Exempt'
               PROVE  r \in completed[s] \cup unanswered[s] \/ attaching[s][r].rollback \/ \E p \in Requests : Speaks(p, s, r)'
    BY <1>1 DEF Accounted
  <2>1. r \in completed[s] \cup unanswered[s] \/ attaching[s][r].rollback \/ \E p \in Requests : Speaks(p, s, r)
    BY <1>2 DEF Told, Accounted
  <2>2. r \notin refused'
    BY DEF Exempt
  <2>3. \A p \in Requests : Speaks(p, s, r) => Speaks(p, s, r)'
    <3> SUFFICES ASSUME NEW p \in Requests, Speaks(p, s, r) PROVE Speaks(p, s, r)'
      OBVIOUS
    <3>1. CASE p = q
      BY <2>2, <3>1 DEF Carries
    <3>2. CASE p # q
      BY <1>1, <3>2, OthersSpeak
    <3> QED BY <3>1, <3>2
  <2> QED BY <2>1, <2>3
<1> QED BY <1>3, <1>4, <1>5, <1>6, <1>7 DEF Told

LEMMA BeginCarries ==
  ASSUME Shaped, NEW q \in Requests, NEW s \in Sessions,
         \/ \E r \in Repos, sets \in BOOLEAN :
              ResolveId(q, s, r, sets) \/ \E kind \in {"attach", "prepare"} : ResolvePath(q, s, r, kind, sets)
         \/ \E r \in Repos : BeginDetach(q, s, r)
         \/ BeginClose(q, s)
  PROVE  Carries(q)
<1>1. UNCHANGED <<adopted, attaching, completed, unanswered, crossed, forgotten, refused>>
  BY DEF ResolveId, ResolvePath, BeginDetach, BeginClose, session, history
<1>2. /\ Others(q) /\ ~UnderWay(q) /\ ~request'[q].guarded
      /\ request'[q].at \in {"resolved", "working", "detaching", "closing"}
  BY ResolveIdStep, ResolvePathStep, BeginDetachStep, BeginCloseStep
<1> QED BY <1>1, <1>2 DEF Carries, Guards, Speaks

LEMMA ContinueCarries ==
  ASSUME Shaped, NEW q \in Requests,
         \/ ReadDefault(q) \/ GiveUp(q)
         \/ Adopt(q) /\ Repo(q) \in adopted[Session(q)]
         \/ CountSession(q) \/ AcquireLease(q) \/ LeaseRefused(q)
         \/ SetDefault(q) \/ DropResolution(q) \/ Release(q) \/ ReleaseLease(q)
         \/ LookAtDefault(q) \/ ClearDefault(q) \/ StillAdopted(q)
         \/ Rollback(q) /\ Repo(q) \notin adopted[Session(q)]
         \/ Restore(q) \/ UndoDefault(q)
  PROVE  Carries(q)
<1> DEFINE Rest2 == <<adopted, attaching, completed, unanswered, crossed, forgotten>>
           Plain(place) ==
             /\ UnderWay(q) /\ Moved(q, place) /\ place \in Places
             /\ place \notin {"answering", "refused"}
             /\ \A s \in Sessions : \A r \in adopted[s] \ refused' : Speaks(q, s, r) => Speaks(q, s, r)'
             /\ UNCHANGED Rest2 /\ refused \subseteq refused'
           Last2 ==
             /\ UnderWay(q) /\ Ended(q) /\ ~request[q].guarded /\ UNCHANGED Rest2
             /\ refused \subseteq refused'
             /\ \A s \in Sessions : \A r \in adopted[s] : ~Speaks(q, s, r)
<1>1. ASSUME NEW place, Plain(place) PROVE Carries(q)
  <2>1. Others(q) /\ request'[q].at = place
    BY <1>1, MovedFacts
  <2> QED BY <1>1, <2>1, MovedSpeaks DEF Carries
<1>2. ASSUME Last2 PROVE Carries(q)
  <2>1. Others(q) /\ request'[q].at = "done" /\ ~UnderWay(q)'
    BY <1>2, EndedFacts DEF UnderWay, At
  <2> QED BY <1>2, <2>1 DEF Carries, Guards
<1>3. ASSUME NEW place \in Places, UnderWay(q), Moved(q, place)
      PROVE  /\ request'[q].created = request[q].created /\ request'[q].guarded = request[q].guarded
             /\ request'[q].kind = request[q].kind /\ request'[q].at = place
             /\ UnderWay(q)' /\ Repo(q)' = Repo(q) /\ Session(q)' = Session(q)
  BY <1>3, MovedSpeaks, MovedFacts
<1>4. /\ {"read", "leaving", "served", "telling", "counted", "refused", "waiting", "released", "failed", "closing",
          "clearing", "releasing", "answering", "restored"} \subseteq Places
  BY DEF Places
<1> HIDE DEF Plain, Last2, Rest2
<1>5. ASSUME ReadDefault(q) PROVE Carries(q)
  <2>1. UNCHANGED <<adopted, attaching, completed, unanswered, crossed, forgotten, refused>>
    BY <1>5 DEF ReadDefault, session, history
  <2>2. /\ Others(q) /\ UnderWay(q) /\ UnderWay(q)' /\ request[q].at = "resolved"
        /\ request'[q].at = "read"
        /\ request'[q].created = request[q].created /\ request'[q].guarded = request[q].guarded
        /\ request'[q].kind = request[q].kind /\ Repo(q)' = Repo(q) /\ Session(q)' = Session(q)
    BY <1>5, ReadDefaultStep, OthersKept DEF UnderWay, At, Same, Repo, Session
  <2> QED BY <2>1, <2>2 DEF Carries, Guards, Speaks
<1>6. ASSUME GiveUp(q) PROVE Carries(q)
  <2>1. UNCHANGED <<adopted, attaching, completed, unanswered, crossed, forgotten, refused>>
    BY <1>6 DEF GiveUp, session, history
  <2>2. UnderWay(q) /\ request[q].at = "working" /\ ~request[q].guarded /\ Fits(q)
    BY <1>6, GiveUpStep
  <2>3. request[q].kind # "close"
    BY <2>2 DEF Fits, Ending
  <2>4. \A s, r : ~Speaks(q, s, r)
    BY <2>2, <2>3 DEF Speaks
  <2>5. CASE request[q].resolving
    <3>1. Plain("leaving")
      BY <1>4, <1>6, <2>1, <2>2, <2>4, <2>5, GiveUpStep DEF Plain, Rest2
    <3> QED BY <1>1, <3>1
  <2>6. CASE ~request[q].resolving
    <3>1. Last2
      BY <1>6, <2>1, <2>2, <2>4, <2>6, GiveUpStep DEF Last2, Rest2
    <3> QED BY <1>2, <3>1
  <2> QED BY <2>5, <2>6
<1>7. ASSUME Adopt(q), Repo(q) \in adopted[Session(q)] PROVE Carries(q)
  <2>1. UNCHANGED <<attaching, completed, unanswered, crossed, forgotten, refused>>
        /\ adopted' = [adopted EXCEPT ![Session(q)] = @ \cup {Repo(q)}]
    BY <1>7, Zenon DEF Adopt, history
  <2>2. UnderWay(q) /\ request[q].at = "working" /\ Fits(q) /\ Moved(q, "served")
        /\ Session(q) \in Sessions
    BY <1>7, AdoptStep, PlaceFacts
  <2>3. adopted' = adopted
    BY <1>7, <2>1, <2>2 DEF Shaped, TypeOK, SharedTyped
  <2>4. request[q].kind # "close" /\ ~request[q].created
    BY <2>2 DEF Fits, Ending, Fresh
  <2>5. \A s, r : ~Speaks(q, s, r)
    BY <2>2, <2>4 DEF Speaks
  <2>6. Plain("served")
    BY <1>4, <2>1, <2>2, <2>3, <2>5 DEF Plain, Rest2
  <2> QED BY <1>1, <2>6
<1>8. ASSUME CountSession(q) PROVE Carries(q)
  <2>1. UNCHANGED <<adopted, attaching, completed, unanswered, crossed, forgotten, refused>>
    BY <1>8, Zenon DEF CountSession, session, history
  <2>2. UnderWay(q) /\ request[q].at = "adopted" /\ Moved(q, "counted")
    BY <1>8, CountSessionStep
  <2>3. \A s, r : Speaks(q, s, r) => Speaks(q, s, r)'
    BY <1>3, <1>4, <2>2 DEF Speaks
  <2>4. Plain("counted")
    BY <1>4, <2>1, <2>2, <2>3 DEF Plain, Rest2
  <2> QED BY <1>1, <2>4
<1>9. ASSUME AcquireLease(q) PROVE Carries(q)
  <2>1. UNCHANGED <<adopted, attaching, completed, unanswered, crossed, forgotten, refused>>
    BY <1>9, Zenon DEF AcquireLease, session, history
  <2>2. /\ Others(q) /\ UnderWay(q) /\ UnderWay(q)' /\ request[q].at = "counted"
        /\ request'[q].at = "served"
        /\ request'[q].created = TRUE /\ request'[q].guarded = request[q].guarded
        /\ request'[q].kind = request[q].kind /\ Repo(q)' = Repo(q) /\ Session(q)' = Session(q)
    BY <1>9, AcquireLeaseStep, OthersKept DEF UnderWay, At, Same, Repo, Session
  <2> QED BY <2>1, <2>2 DEF Carries, Guards, Speaks
<1>10. ASSUME LeaseRefused(q) PROVE Carries(q)
  <2>1. UNCHANGED <<adopted, attaching, completed, unanswered, crossed, forgotten>>
        /\ refused' = refused \cup {Repo(q)}
    BY <1>10, Zenon DEF LeaseRefused, session
  <2>2. UnderWay(q) /\ request[q].at = "counted" /\ Moved(q, "refused") /\ Fits(q)
    BY <1>10, LeaseRefusedStep
  <2>3. request[q].kind # "close" /\ ~request[q].created
    BY <2>2 DEF Fits, Ending, Fresh
  <2>4. \A s \in Sessions : \A r \in adopted[s] \ refused' : ~Speaks(q, s, r)
    BY <2>1, <2>2, <2>3 DEF Speaks
  <2>5. Others(q) /\ \A s, r : Guards(q, s, r)' <=> Guards(q, s, r)
    BY <1>4, <2>2, MovedSpeaks, MovedFacts
  <2>6. request'[q].at = "refused" /\ Repo(q)' \in refused'
    BY <1>3, <1>4, <2>1, <2>2
  <2> QED BY <2>1, <2>4, <2>5, <2>6 DEF Carries
<1>11. ASSUME SetDefault(q) PROVE Carries(q)
  <2>1. UNCHANGED <<adopted, attaching, completed, unanswered, crossed, forgotten, refused>>
    BY <1>11 DEF SetDefault, history
  <2>2. UnderWay(q) /\ request[q].at = "served" /\ Fits(q)
    BY <1>11, SetDefaultStep
  <2>3. request[q].kind # "close"
    BY <2>2 DEF Fits, Entering
  <2>4. CASE request[q].guarded
    <3>1. Moved(q, "leaving")
      BY <1>11, <2>4, SetDefaultStep
    <3>2. \A s, r : Speaks(q, s, r) => Speaks(q, s, r)'
      BY <1>3, <1>4, <2>2, <2>3, <2>4, <3>1 DEF Speaks
    <3>3. Plain("leaving")
      BY <1>4, <2>1, <2>2, <3>1, <3>2 DEF Plain, Rest2
    <3> QED BY <1>1, <3>3
  <2>5. CASE ~request[q].guarded
    <3>1. Moved(q, "telling")
      BY <1>11, <2>5, SetDefaultStep
    <3>2. \A s, r : Speaks(q, s, r) => Speaks(q, s, r)'
      BY <1>3, <1>4, <2>2, <2>3, <2>5, <3>1 DEF Speaks
    <3>3. Plain("telling")
      BY <1>4, <2>1, <2>2, <3>1, <3>2 DEF Plain, Rest2
    <3> QED BY <1>1, <3>3
  <2> QED BY <2>4, <2>5
<1>12. ASSUME DropResolution(q) PROVE Carries(q)
  <2>1. UNCHANGED <<adopted, attaching, completed, unanswered, crossed, forgotten, refused>>
    BY <1>12, Zenon DEF DropResolution, session, history
  <2>2. UnderWay(q) /\ request[q].at = "leaving" /\ Fits(q)
    BY <1>12, DropResolutionStep
  <2>3. request[q].kind # "close"
    BY <2>2 DEF Fits, Ending
  <2>4. CASE request[q].guarded
    <3>1. /\ Others(q) /\ UnderWay(q)' /\ request'[q].at = "waiting"
          /\ request'[q].created = request[q].created /\ request'[q].guarded = request[q].guarded
          /\ request'[q].kind = request[q].kind /\ Repo(q)' = Repo(q) /\ Session(q)' = Session(q)
      BY <1>12, <2>2, <2>4, DropResolutionStep, OthersKept DEF UnderWay, At, Same, Repo, Session
    <3> QED BY <2>1, <2>2, <2>3, <2>4, <3>1 DEF Carries, Guards, Speaks
  <2>5. CASE ~request[q].guarded
    <3>1. Last2
      BY <1>12, <2>1, <2>2, <2>3, <2>5, DropResolutionStep DEF Last2, Rest2, Speaks
    <3> QED BY <1>2, <3>1
  <2> QED BY <2>4, <2>5
<1>13. ASSUME Release(q) PROVE Carries(q)
  <2>1. UNCHANGED <<adopted, attaching, completed, unanswered, crossed, forgotten, refused>>
    BY <1>13, Zenon DEF Release, session, history
  <2>2. /\ Others(q) /\ UnderWay(q) /\ UnderWay(q)' /\ request[q].at = "releasing"
        /\ request'[q].at = "released"
        /\ request'[q].created = request[q].created /\ request'[q].guarded = request[q].guarded
        /\ request'[q].kind = request[q].kind /\ Repo(q)' = Repo(q) /\ Session(q)' = Session(q)
    BY <1>13, ReleaseStep, OthersKept DEF UnderWay, At, Same, Repo, Session
  <2> QED BY <2>1, <2>2 DEF Carries, Guards, Speaks
<1>14. ASSUME ReleaseLease(q) PROVE Carries(q)
  <2>1. UNCHANGED <<adopted, attaching, completed, unanswered, crossed, forgotten, refused>>
    BY <1>14, Zenon DEF ReleaseLease, session, history
  <2>2. UnderWay(q) /\ request[q].at = "released" /\ Fits(q)
    BY <1>14, ReleaseLeaseStep
  <2>3. CASE Rest(q) = "done"
    <3>1. Ended(q) /\ ~request[q].guarded /\ request[q].kind # "close"
      BY <1>14, <2>2, <2>3, ReleaseLeaseStep, RestFacts
    <3>2. Last2
      BY <2>1, <2>2, <3>1 DEF Last2, Rest2, Speaks
    <3> QED BY <1>2, <3>2
  <2>4. CASE Rest(q) # "done"
    <3>1. Moved(q, Rest(q)) /\ Rest(q) \in {"failed", "leaving", "closing"}
      BY <1>14, <2>2, <2>4, ReleaseLeaseStep, RestFacts
    <3>2. \A s, r : Speaks(q, s, r) => Speaks(q, s, r)'
      BY <1>3, <1>4, <2>2, <3>1 DEF Speaks
    <3>3. Plain(Rest(q))
      BY <1>4, <2>1, <2>2, <3>1, <3>2 DEF Plain, Rest2
    <3> QED BY <1>1, <3>3
  <2> QED BY <2>3, <2>4
<1>15. ASSUME LookAtDefault(q) PROVE Carries(q)
  <2>1. UNCHANGED <<adopted, attaching, completed, unanswered, crossed, forgotten, refused>>
    BY <1>15, Zenon DEF LookAtDefault, session, history
  <2>2. UnderWay(q) /\ request[q].at = "looking"
    BY <1>15, LookAtDefaultStep
  <2>3. ASSUME NEW place \in {"clearing", "releasing"}, Moved(q, place) PROVE Carries(q)
    <3>1. \A s, r : Speaks(q, s, r) => Speaks(q, s, r)'
      BY <1>3, <1>4, <2>2, <2>3 DEF Speaks
    <3>2. Plain(place)
      BY <1>4, <2>1, <2>2, <2>3, <3>1 DEF Plain, Rest2
    <3> QED BY <1>1, <3>2
  <2> QED BY <1>15, <2>3, LookAtDefaultStep
<1>16. ASSUME ClearDefault(q) PROVE Carries(q)
  <2>1. UNCHANGED <<adopted, attaching, completed, unanswered, crossed, forgotten, refused>>
    BY <1>16, Zenon DEF ClearDefault, history
  <2>2. UnderWay(q) /\ request[q].at = "clearing" /\ Moved(q, "releasing")
    BY <1>16, ClearDefaultStep
  <2>3. \A s, r : Speaks(q, s, r) => Speaks(q, s, r)'
    BY <1>3, <1>4, <2>2 DEF Speaks
  <2>4. Plain("releasing")
    BY <1>4, <2>1, <2>2, <2>3 DEF Plain, Rest2
  <2> QED BY <1>1, <2>4
<1>17. ASSUME StillAdopted(q) PROVE Carries(q)
  <2>1. UNCHANGED <<adopted, attaching, completed, unanswered, crossed, forgotten, refused>>
        /\ Repo(q) \in adopted[Session(q)]
    BY <1>17, Zenon DEF StillAdopted, session, history
  <2>2. UnderWay(q) /\ request[q].at = "waiting" /\ Moved(q, "answering")
    BY <1>17, StillAdoptedStep
  <2>3. \A s, r : Speaks(q, s, r) => Speaks(q, s, r)'
    BY <1>3, <1>4, <2>2 DEF Speaks
  <2>4. Others(q) /\ \A s, r : Guards(q, s, r)' <=> Guards(q, s, r)
    BY <1>4, <2>2, MovedSpeaks, MovedFacts
  <2>5. Repo(q)' = Repo(q) /\ Session(q)' = Session(q) /\ request'[q].at = "answering"
    BY <1>3, <1>4, <2>2
  <2> QED BY <2>1, <2>3, <2>4, <2>5 DEF Carries
<1>18. ASSUME Rollback(q), Repo(q) \notin adopted[Session(q)] PROVE Carries(q)
  <2>1. UNCHANGED <<adopted, attaching, completed, unanswered, crossed, forgotten, refused>>
    BY <1>18 DEF Rollback
  <2>2. UnderWay(q) /\ request[q].at = "rollback" /\ Fits(q)
    BY <1>18, RollbackStep
  <2>3. ~request[q].guarded /\ request[q].kind = "attach"
    BY <2>2 DEF Fits, Undoing
  <2>4. \A s \in Sessions : \A r \in adopted[s] : ~Speaks(q, s, r)
    BY <1>18, <2>2, <2>3 DEF Speaks
  <2>5. CASE request[q].resolving
    <3>1. Plain("leaving")
      BY <1>4, <1>18, <2>1, <2>2, <2>4, <2>5, RollbackStep DEF Plain, Rest2
    <3> QED BY <1>1, <3>1
  <2>6. CASE ~request[q].resolving
    <3>1. Last2
      BY <1>18, <2>1, <2>2, <2>3, <2>4, <2>6, RollbackStep DEF Last2, Rest2
    <3> QED BY <1>2, <3>1
  <2> QED BY <2>5, <2>6
<1>19. ASSUME Restore(q) PROVE Carries(q)
  <2>1. UNCHANGED <<adopted, attaching, completed, unanswered, crossed, forgotten, refused>>
    BY <1>19 DEF Restore, session, history
  <2>2. /\ Others(q) /\ UnderWay(q) /\ UnderWay(q)' /\ request[q].at = "restoring"
        /\ request'[q].at = "restored"
        /\ request'[q].created = request[q].created /\ request'[q].guarded = request[q].guarded
        /\ request'[q].kind = request[q].kind /\ Repo(q)' = Repo(q) /\ Session(q)' = Session(q)
    BY <1>19, RestoreStep, OthersKept DEF UnderWay, At, Same, Repo, Session
  <2> QED BY <2>1, <2>2 DEF Carries, Guards, Speaks
<1>20. ASSUME UndoDefault(q) PROVE Carries(q)
  <2>1. UNCHANGED <<adopted, attaching, completed, unanswered, crossed, forgotten, refused>>
    BY <1>20 DEF UndoDefault, history
  <2>2. UnderWay(q) /\ request[q].at \in {"undoing", "restored"} /\ Fits(q)
    BY <1>20, UndoDefaultStep
  <2>3. ~request[q].guarded /\ request[q].kind = "attach"
    BY <2>2 DEF Fits, Undoing
  <2>4. \A s, r : ~Speaks(q, s, r)
    BY <2>2, <2>3 DEF Speaks
  <2>5. ASSUME NEW place \in {"releasing", "leaving"}, Moved(q, place) PROVE Carries(q)
    <3>1. Plain(place)
      BY <1>4, <2>1, <2>2, <2>4, <2>5 DEF Plain, Rest2
    <3> QED BY <1>1, <3>1
  <2>6. ASSUME Ended(q) PROVE Carries(q)
    <3>1. Last2
      BY <2>1, <2>2, <2>3, <2>4, <2>6 DEF Last2, Rest2
    <3> QED BY <1>2, <3>1
  <2> QED BY <1>20, <2>5, <2>6, UndoDefaultStep
<1> QED BY <1>5, <1>6, <1>7, <1>8, <1>9, <1>10, <1>11, <1>12, <1>13, <1>14, <1>15, <1>16, <1>17,
           <1>18, <1>19, <1>20

\* What Told says of one workspace of one session, and a step that leaves it alone.
ToldOf(s, r) ==
  /\ attaching[s][r].inFlight = 0 => attaching[s][r] = NoAttach
  /\ attaching[s][r].inFlight <= Cardinality(Guarded(s, r))
  /\ attaching[s][r].completed /\ r \notin Exempt => r \in completed[s] /\ r \in adopted[s]
  /\ r \in adopted[s] \ Exempt =>
       \/ r \in completed[s] \cup unanswered[s]
       \/ attaching[s][r].rollback
       \/ \E q \in Requests : Speaks(q, s, r)
Untouched(q, s, r) ==
  /\ r \in adopted'[s] <=> r \in adopted[s]
  /\ r \in completed'[s] <=> r \in completed[s]
  /\ r \in unanswered'[s] <=> r \in unanswered[s]
  /\ attaching'[s][r] = attaching[s][r]
  /\ Guards(q, s, r)' <=> Guards(q, s, r)
  /\ Speaks(q, s, r) => Speaks(q, s, r)'

LEMMA ToldParts ==
  ASSUME Shaped
  PROVE  Told <=> RefusedNoted /\ AnswersHold /\ \A s \in Sessions, r \in Repos : ToldOf(s, r)
<1>1. \A s \in Sessions : adopted[s] \subseteq Repos
  BY DEF Shaped, TypeOK, SharedTyped
<1>2. Told => \A s \in Sessions, r \in Repos : ToldOf(s, r)
  BY DEF Told, FlightsFew, CompletedHolds, Accounted, ToldOf
<1>3. (\A s \in Sessions, r \in Repos : ToldOf(s, r)) => FlightsFew /\ CompletedHolds
  BY DEF FlightsFew, CompletedHolds, ToldOf
<1>4. (\A s \in Sessions, r \in Repos : ToldOf(s, r)) => Accounted
  BY <1>1 DEF Accounted, ToldOf
<1> QED BY <1>2, <1>3, <1>4 DEF Told

\* What is untouched stays accounted for.
LEMMA UntouchedKept ==
  ASSUME NEW q \in Requests, Others(q), NEW s, NEW r, ToldOf(s, r), Untouched(q, s, r),
         Exempt \subseteq Exempt'
  PROVE  ToldOf(s, r)'
<1>1. Cardinality(Guarded(s, r)') = Cardinality(Guarded(s, r))
  <2>1. Bit(Guards(q, s, r)) = Bit(Guards(q, s, r)') /\ Bit(Guards(q, s, r)) \in {0, 1}
    BY DEF Untouched, Bit
  <2> QED BY <2>1, GuardedCounted
<1>2. \A p \in Requests : Speaks(p, s, r) => Speaks(p, s, r)'
  <2> SUFFICES ASSUME NEW p \in Requests, Speaks(p, s, r) PROVE Speaks(p, s, r)'
    OBVIOUS
  <2>1. CASE p = q
    BY <2>1 DEF Untouched
  <2>2. CASE p # q
    BY <2>2, OthersSpeak
  <2> QED BY <2>1, <2>2
<1>3. /\ r \in adopted'[s] <=> r \in adopted[s]
      /\ r \in completed'[s] <=> r \in completed[s]
      /\ r \in unanswered'[s] <=> r \in unanswered[s]
      /\ attaching'[s][r] = attaching[s][r]
  BY DEF Untouched
<1>4. /\ attaching'[s][r].inFlight = 0 => attaching'[s][r] = NoAttach
      /\ attaching'[s][r].inFlight <= Cardinality(Guarded(s, r)')
  BY <1>1, <1>3 DEF ToldOf
<1>5. attaching'[s][r].completed /\ r \notin Exempt' => r \in completed'[s] /\ r \in adopted'[s]
  BY <1>3 DEF ToldOf
<1>6. r \in adopted'[s] \ Exempt' =>
       \/ r \in completed'[s] \cup unanswered'[s]
       \/ attaching'[s][r].rollback
       \/ \E p \in Requests : Speaks(p, s, r)'
  BY <1>2, <1>3 DEF ToldOf
<1> QED BY <1>4, <1>5, <1>6 DEF ToldOf, NoAttach

\* A step of one request keeps what was told if it keeps that of the workspaces it touches, and
\* takes a workspace from nobody who still waits for it.
LEMMA ToldKept ==
  ASSUME Shaped, Told, Shaped', NEW q \in Requests, Others(q), NEW S \in Sessions, NEW R,
         crossed \subseteq crossed', forgotten \subseteq forgotten', refused \subseteq refused',
         \A s \in Sessions, r \in Repos : s # S \/ r \notin R => Untouched(q, s, r),
         \A r \in R \cap Repos : ToldOf(S, r)',
         request'[q].at \notin {"refused", "answering"},
         \A r \in R \cap Repos : r \notin crossed' /\ r \in adopted[S] /\ r \notin adopted'[S] =>
           \A p \in Requests \ {q} : UnderWay(p) /\ Session(p) = S => Repo(p) # r
  PROVE  Told'
<1>1. Exempt \subseteq Exempt'
  BY DEF Exempt
<1>2. RefusedNoted /\ AnswersHold /\ \A s \in Sessions, r \in Repos : ToldOf(s, r)
  BY ToldParts
<1>3. \A s \in Sessions, r \in Repos : ToldOf(s, r)'
  <2> SUFFICES ASSUME NEW s \in Sessions, NEW r \in Repos PROVE ToldOf(s, r)'
    OBVIOUS
  <2>1. CASE s = S /\ r \in R
    BY <2>1
  <2>2. CASE s # S \/ r \notin R
    BY <2>2, <1>1, <1>2, UntouchedKept
  <2> QED BY <2>1, <2>2
<1>4. ASSUME NEW p \in Requests, request'[p].at \in {"refused", "answering"}
      PROVE  /\ p # q /\ request[p].at = request'[p].at /\ UnderWay(p)
             /\ Repo(p)' = Repo(p) /\ Session(p)' = Session(p)
             /\ Repo(p) \in Repos /\ Session(p) \in Sessions
  <2>1. p # q
    BY <1>4
  <2>2. request[p].at = request'[p].at /\ UnderWay(p)
    BY <1>4, <2>1, OthersFacts DEF UnderWay, At
  <2> QED BY <1>4, <2>1, <2>2, OthersFacts, PlaceFacts
<1>5. RefusedNoted'
  BY <1>2, <1>4 DEF RefusedNoted
<1>6. AnswersHold'
  <2> SUFFICES ASSUME NEW p \in Requests, request'[p].at = "answering", Repo(p)' \notin crossed'
               PROVE  Repo(p)' \in adopted'[Session(p)']
    BY DEF AnswersHold
  <2>1. /\ p # q /\ request[p].at = "answering" /\ UnderWay(p)
        /\ Repo(p)' = Repo(p) /\ Session(p)' = Session(p)
        /\ Repo(p) \in Repos /\ Session(p) \in Sessions
    BY <1>4
  <2>2. Repo(p) \in adopted[Session(p)]
    BY <1>2, <2>1 DEF AnswersHold
  <2>3. CASE Session(p) = S /\ Repo(p) \in R
    BY <2>1, <2>2, <2>3
  <2>4. CASE Session(p) # S \/ Repo(p) \notin R
    <3>1. Untouched(q, Session(p), Repo(p))
      BY <2>1, <2>4
    <3> QED BY <2>1, <2>2, <3>1 DEF Untouched
  <2> QED BY <2>3, <2>4
<1>7. (RefusedNoted /\ AnswersHold /\ \A s \in Sessions, r \in Repos : ToldOf(s, r))'
  BY <1>3, <1>5, <1>6
<1>8. FlightsFew' /\ CompletedHolds' /\ Accounted'
  <2>1. \A s \in Sessions : adopted'[s] \subseteq Repos
    BY DEF Shaped, TypeOK, SharedTyped
  <2>2. FlightsFew' /\ CompletedHolds'
    BY <1>3 DEF ToldOf, FlightsFew, CompletedHolds
  <2>3. Accounted'
    BY <1>3, <2>1 DEF ToldOf, Accounted
  <2> QED BY <2>2, <2>3
<1> QED BY <1>7, <1>8 DEF Told

\* The speakers other than the one that moves go on speaking.
LEMMA OthersGoOn ==
  ASSUME NEW q \in Requests, Others(q), NEW s, NEW r, ~Speaks(q, s, r), \E p \in Requests : Speaks(p, s, r)
  PROVE  \E p \in Requests : Speaks(p, s, r)'
<1>1. PICK p \in Requests : Speaks(p, s, r)
  OBVIOUS
<1>2. p # q
  BY <1>1
<1> QED BY <1>1, <1>2, OthersSpeak

-----------------------------------------------------------------------------
(* The steps that do change what a session has, was told or will undo. *)

\* The same for a step that touches one workspace.
LEMMA ToldKeptAt ==
  ASSUME Shaped, Told, Shaped', NEW q \in Requests, Others(q), NEW S \in Sessions, NEW R \in Repos,
         crossed \subseteq crossed', forgotten \subseteq forgotten', refused \subseteq refused',
         \A s \in Sessions, r \in Repos : s # S \/ r # R => Untouched(q, s, r),
         ToldOf(S, R)',
         request'[q].at \notin {"refused", "answering"},
         R \notin crossed' /\ R \in adopted[S] /\ R \notin adopted'[S] =>
           \A p \in Requests \ {q} : UnderWay(p) /\ Session(p) = S => Repo(p) # R
  PROVE  Told'
<1> DEFINE D == {R}
<1>1. \A s \in Sessions, r \in Repos : s # S \/ r \notin D => Untouched(q, s, r)
  OBVIOUS
<1>2. \A r \in D \cap Repos : r = R
  OBVIOUS
<1>3. \A r \in D \cap Repos : ToldOf(S, r)'
  BY Zenon
<1>4. \A r \in D \cap Repos : r \notin crossed' /\ r \in adopted[S] /\ r \notin adopted'[S] =>
        \A p \in Requests \ {q} : UnderWay(p) /\ Session(p) = S => Repo(p) # r
  BY <1>2
<1> HIDE DEF D
<1> QED BY <1>1, <1>3, <1>4, ToldKept

LEMMA ArmTold ==
  ASSUME Shaped, Told, NEW q \in Requests, Arm(q)
  PROVE  Told'
<1> DEFINE x == request[q]  y == request'[q]
<1>1. /\ UnderWay(q) /\ Fits(q) /\ x \in Record /\ x.at = "read" /\ Shaped'
      /\ OnlyMoves(q) /\ Same(y, x) /\ y.guarded = TRUE /\ y.at = "working" /\ y.repo = x.repo
  BY ArmStep
<1>2. PICK S \in Sessions, R \in Repos : S = x.session /\ R = x.repo
  BY <1>1 DEF Record, Fits, Target
<1>3. /\ Others(q) /\ x.kind = "attach" /\ ~x.guarded
      /\ Session(q) = S /\ Repo(q) = R /\ Session(q)' = S /\ Repo(q)' = R /\ UnderWay(q)'
  BY <1>1, <1>2, OthersKept DEF Fits, Session, Repo, Same, UnderWay, At
<1> DEFINE w == attaching[S][R]  z == [w EXCEPT !.inFlight = w.inFlight + 1]
<1>4. attaching \in [Sessions -> [Repos -> AttachState]]
  BY DEF Shaped, TypeOK, SharedTyped
<1>5. /\ attaching' = [attaching EXCEPT ![S][R] = z]
      /\ UNCHANGED <<adopted, completed, unanswered, refused, crossed, forgotten>>
  BY <1>3 DEF Arm, history
<1>6. w \in AttachState
  BY <1>2, <1>4
<1> HIDE DEF w
<1>7. z \in AttachState /\ z.inFlight = w.inFlight + 1 /\ z.completed = w.completed
      /\ z.rollback = w.rollback
  BY <1>6 DEF AttachState
<1> HIDE DEF z
<1>8. /\ attaching'[S][R] = z
      /\ \A u \in Sessions, k \in Repos : u # S \/ k # R => attaching'[u][k] = attaching[u][k]
  BY <1>2, <1>4, <1>5, <1>7, AttachSet
<1>9. /\ \A s, r : ~Speaks(q, s, r)
      /\ \A s, r : ~Guards(q, s, r)
      /\ \A s, r : Guards(q, s, r)' <=> s = S /\ r = R
  BY <1>1, <1>3 DEF Speaks, Guards
<1>10. \A s \in Sessions, r \in Repos : s # S \/ r # R => Untouched(q, s, r)
  BY <1>5, <1>8, <1>9 DEF Untouched
<1>11. ToldOf(S, R)'
  <2>1. ToldOf(S, R)
    BY <1>2, ToldParts
  <2>2. Cardinality(Guarded(S, R)') = Cardinality(Guarded(S, R)) + 1
        /\ Cardinality(Guarded(S, R)) \in Nat
    <3>1. Bit(Guards(q, S, R)) = 0 /\ Bit(Guards(q, S, R)') = 1
      BY <1>9 DEF Bit
    <3> QED BY <1>3, <3>1, GuardedCounted
  <2>3. w.inFlight \in Nat
    BY <1>6 DEF AttachState
  <2>4. z.inFlight <= Cardinality(Guarded(S, R)') /\ z.inFlight # 0
    BY <1>7, <2>1, <2>2, <2>3 DEF ToldOf, w
  <2>5. z.completed /\ R \notin Exempt' => R \in completed'[S] /\ R \in adopted'[S]
    BY <1>5, <1>7, <2>1 DEF ToldOf, w, Exempt
  <2>6. (\E p \in Requests : Speaks(p, S, R)) => \E p \in Requests : Speaks(p, S, R)'
    BY <1>3, <1>9, OthersGoOn
  <2>7. R \in adopted'[S] \ Exempt' =>
          R \in completed'[S] \cup unanswered'[S] \/ z.rollback \/ \E p \in Requests : Speaks(p, S, R)'
    BY <1>5, <1>7, <2>1, <2>6 DEF ToldOf, w, Exempt
  <2> QED BY <1>8, <2>4, <2>5, <2>7 DEF ToldOf, NoAttach
<1>12. y.at \notin {"refused", "answering"}
  BY <1>1
<1>13. R \in adopted[S] => R \in adopted'[S]
  BY <1>5
<1> QED BY <1>1, <1>3, <1>5, <1>10, <1>11, <1>12, <1>13, ToldKeptAt

LEMMA AdoptTold ==
  ASSUME Shaped, Told, NEW q \in Requests, Adopt(q), Repo(q) \notin adopted[Session(q)]
  PROVE  Told'
<1>1. /\ UnderWay(q) /\ Fits(q) /\ request[q] \in Record /\ request[q].at = "working" /\ Shaped'
      /\ Moved(q, "adopted")
  BY AdoptStep
<1>2. PICK S \in Sessions, R \in Repos : S = Session(q) /\ R = Repo(q)
  BY <1>1, PlaceFacts
<1>3. "adopted" \in Places
  BY DEF Places
<1>4. /\ Others(q) /\ UnderWay(q)' /\ request'[q].at = "adopted" /\ Repo(q)' = R /\ Session(q)' = S
      /\ \A s, r : Guards(q, s, r)' <=> Guards(q, s, r)
  BY <1>1, <1>2, <1>3, MovedFacts, MovedSpeaks
<1>5. adopted' = [adopted EXCEPT ![S] = @ \cup {R}]
      /\ UNCHANGED <<attaching, completed, unanswered, refused, crossed, forgotten>>
  BY <1>2, Zenon DEF Adopt, history
<1>6. request[q].kind # "close" /\ ~request[q].created
  BY <1>1 DEF Fits, Ending, Fresh
<1>7. \A s, r : ~Speaks(q, s, r)
  BY <1>1, <1>6 DEF Speaks
<1>8. adopted'[S] = adopted[S] \cup {R} /\ \A s \in Sessions : s # S => adopted'[s] = adopted[s]
  BY <1>2, <1>5 DEF Shaped, TypeOK, SharedTyped
<1>9. Speaks(q, S, R)'
  BY <1>2, <1>4 DEF Speaks
<1>10. \A s \in Sessions, r \in Repos : s # S \/ r # R => Untouched(q, s, r)
  BY <1>4, <1>5, <1>7, <1>8 DEF Untouched
<1>11. ToldOf(S, R)'
  <2>1. ToldOf(S, R)
    BY <1>2, ToldParts
  <2>2. Cardinality(Guarded(S, R)') = Cardinality(Guarded(S, R))
    <3>1. Bit(Guards(q, S, R)) = Bit(Guards(q, S, R)') /\ Bit(Guards(q, S, R)) \in {0, 1}
      BY <1>4 DEF Bit
    <3> QED BY <1>4, <3>1, GuardedCounted
  <2>3. attaching'[S][R].completed /\ R \notin Exempt' => R \in completed'[S] /\ R \in adopted'[S]
    BY <1>5, <1>8, <2>1 DEF ToldOf, Exempt
  <2>4. /\ attaching'[S][R].inFlight = 0 => attaching'[S][R] = NoAttach
        /\ attaching'[S][R].inFlight <= Cardinality(Guarded(S, R)')
    BY <1>5, <2>1, <2>2 DEF ToldOf
  <2> QED BY <1>9, <2>3, <2>4 DEF ToldOf, NoAttach
<1>12. request'[q].at \notin {"refused", "answering"}
  BY <1>4
<1>13. R \in adopted[S] => R \in adopted'[S]
  BY <1>8
<1> QED BY <1>1, <1>2, <1>4, <1>5, <1>10, <1>11, <1>12, <1>13, ToldKeptAt

\* A request without a rollback guard ends: it has told, or what it adopted is noted.
LEMMA TellTold ==
  ASSUME Shaped, Told, NEW q \in Requests, NEW success \in BOOLEAN, Tell(q, success)
  PROVE  Told'
<1>1. /\ UnderWay(q) /\ Fits(q) /\ request[q] \in Record /\ request[q].at = "telling" /\ Shaped'
      /\ request[q].resolving => Moved(q, "leaving")
      /\ ~request[q].resolving => Ended(q)
  BY TellStep
<1>2. PICK S \in Sessions, R \in Repos : S = Session(q) /\ R = Repo(q)
  BY <1>1, PlaceFacts
<1>3. "leaving" \in Places
  BY DEF Places
<1>4. Others(q) /\ request'[q].at \in {"leaving", "done"} /\ \A s, r : Guards(q, s, r)' <=> Guards(q, s, r)
  <2>1. CASE request[q].resolving
    BY <1>1, <1>3, <2>1, MovedFacts, MovedSpeaks
  <2>2. CASE ~request[q].resolving
    BY <1>1, <2>2, EndedFacts DEF Guards, UnderWay, At, Fits
  <2> QED BY <2>1, <2>2
<1>5. /\ completed' = IF success THEN [completed EXCEPT ![S] = @ \cup {R}] ELSE completed
      /\ unanswered' = IF ~success /\ request[q].created
                       THEN [unanswered EXCEPT ![S] = @ \cup {R}] ELSE unanswered
      /\ UNCHANGED <<adopted, attaching, refused, crossed, forgotten>>
  BY <1>2 DEF Tell, session
<1>6. request[q].kind # "close" /\ ~request[q].guarded
  BY <1>1 DEF Fits
<1>7. \A s, r : Speaks(q, s, r) => s = S /\ r = R /\ request[q].created
  BY <1>1, <1>2, <1>6 DEF Speaks
<1>8. /\ completed[S] \subseteq completed'[S] /\ unanswered[S] \subseteq unanswered'[S]
      /\ request[q].created => R \in completed'[S] \cup unanswered'[S]
      /\ \A r \in Repos : r # R => /\ r \in completed'[S] <=> r \in completed[S]
                                  /\ r \in unanswered'[S] <=> r \in unanswered[S]
      /\ \A s \in Sessions : s # S => completed'[s] = completed[s] /\ unanswered'[s] = unanswered[s]
  <2>1. completed \in [Sessions -> SUBSET Repos] /\ unanswered \in [Sessions -> SUBSET Repos]
    BY DEF Shaped, TypeOK, SharedTyped
  <2>2. CASE success
    BY <1>5, <2>1, <2>2
  <2>3. CASE ~success /\ request[q].created
    BY <1>5, <2>1, <2>3
  <2>4. CASE ~success /\ ~request[q].created
    BY <1>5, <2>1, <2>4
  <2> QED BY <2>2, <2>3, <2>4
<1>9. \A s \in Sessions, r \in Repos : s # S \/ r # R => Untouched(q, s, r)
  BY <1>4, <1>5, <1>7, <1>8 DEF Untouched
<1>10. ToldOf(S, R)'
  <2>1. ToldOf(S, R)
    BY <1>2, ToldParts
  <2>2. Cardinality(Guarded(S, R)') = Cardinality(Guarded(S, R))
    <3>1. Bit(Guards(q, S, R)) = Bit(Guards(q, S, R)') /\ Bit(Guards(q, S, R)) \in {0, 1}
      BY <1>4 DEF Bit
    <3> QED BY <1>4, <3>1, GuardedCounted
  <2>3. attaching'[S][R].completed /\ R \notin Exempt' => R \in completed'[S] /\ R \in adopted'[S]
    BY <1>5, <1>8, <2>1 DEF ToldOf, Exempt
  <2>4. /\ attaching'[S][R].inFlight = 0 => attaching'[S][R] = NoAttach
        /\ attaching'[S][R].inFlight <= Cardinality(Guarded(S, R)')
    BY <1>5, <2>1, <2>2 DEF ToldOf
  <2>5. R \in adopted'[S] \ Exempt' =>
          R \in completed'[S] \cup unanswered'[S] \/ attaching'[S][R].rollback
            \/ \E p \in Requests : Speaks(p, S, R)'
    <3>1. CASE request[q].created
      BY <1>8, <3>1
    <3>2. CASE ~request[q].created
      <4>1. (\E p \in Requests : Speaks(p, S, R)) => \E p \in Requests : Speaks(p, S, R)'
        BY <1>4, <1>7, <3>2, OthersGoOn
      <4> QED BY <1>5, <1>8, <2>1, <4>1 DEF ToldOf, Exempt
    <3> QED BY <3>1, <3>2
  <2> QED BY <2>3, <2>4, <2>5 DEF ToldOf, NoAttach
<1>11. request'[q].at \notin {"refused", "answering"}
  BY <1>4
<1>12. R \in adopted[S] => R \in adopted'[S]
  BY <1>5
<1> QED BY <1>1, <1>2, <1>4, <1>5, <1>9, <1>10, <1>11, <1>12, ToldKeptAt

\* A request takes a workspace from its session.  If an attach that is still under way has already
\* been told of it, it is another request's, and the workspace crossed.
LEMMA TakenTold ==
  ASSUME Shaped, Told, NEW q \in Requests, Shaped', Others(q), LetGo(q, Repo(q)),
         UnderWay(q), Repo(q) \in Repos, request[q].kind # "close",
         request[q].guarded => request[q].at = "refused",
         \A s, r : Guards(q, s, r)' <=> Guards(q, s, r),
         request'[q].at \notin {"refused", "answering"},
         UNCHANGED <<attaching, refused, forgotten>>,
         \A s \in Sessions, r \in Repos : s # Session(q) \/ r # Repo(q) => (r \in completed'[s] <=> r \in completed[s])
  PROVE  Told'
<1>1. PICK S \in Sessions, R \in Repos : S = Session(q) /\ R = Repo(q)
  BY PlaceFacts
<1>2. /\ adopted'[S] = adopted[S] \ {R} /\ \A s \in Sessions : s # S => adopted'[s] = adopted[s]
      /\ \A s \in Sessions, r \in Repos : s # S \/ r # R => (r \in unanswered'[s] <=> r \in unanswered[s])
      /\ crossed \subseteq crossed'
      /\ R \notin crossed' => \A p \in Requests \ {q} : UnderWay(p) /\ Session(p) = S => Repo(p) # R
  BY <1>1, LetGoFacts
<1>3. \A s, r : Speaks(q, s, r) => s = S /\ r = R
  BY <1>1 DEF Speaks
<1>4. request[q].guarded => R \in refused
  BY <1>1 DEF Told, RefusedNoted
<1>5. \A s \in Sessions, r \in Repos : s # S \/ r # R => Untouched(q, s, r)
  BY <1>1, <1>2, <1>3 DEF Untouched
<1>6. ToldOf(S, R)'
  <2>1. ToldOf(S, R)
    BY <1>1, ToldParts
  <2>2. Cardinality(Guarded(S, R)') = Cardinality(Guarded(S, R)) /\ Cardinality(Guarded(S, R)) \in Nat
    <3>1. Bit(Guards(q, S, R)) = Bit(Guards(q, S, R)') /\ Bit(Guards(q, S, R)) \in {0, 1}
      BY DEF Bit
    <3> QED BY <3>1, GuardedCounted
  <2>3. /\ attaching'[S][R].inFlight = 0 => attaching'[S][R] = NoAttach
        /\ attaching'[S][R].inFlight <= Cardinality(Guarded(S, R)')
    BY <2>1, <2>2 DEF ToldOf
  <2>4. attaching[S][R].completed => R \in Exempt'
    <3> SUFFICES ASSUME attaching[S][R].completed, R \notin Exempt' PROVE FALSE
      OBVIOUS
    <3>1. attaching[S][R].inFlight # 0 /\ attaching[S][R].inFlight \in Nat
      <4>1. attaching[S][R] \in AttachState
        BY <1>1 DEF Shaped, TypeOK, SharedTyped
      <4> QED BY <4>1, <2>1, NoAttachFacts DEF ToldOf, AttachState
    <3>2. Cardinality(Guarded(S, R)) # 0
      BY <2>1, <2>2, <3>1 DEF ToldOf
    <3>3. PICK p \in Requests : Guards(p, S, R)
      BY <3>2, FS_EmptySet DEF Guarded
    <3>4. R \notin crossed' /\ R \notin refused
      BY DEF Exempt
    <3>5. p = q
      BY <1>2, <3>3, <3>4 DEF Guards
    <3> QED BY <1>4, <3>3, <3>4, <3>5 DEF Guards
  <2>5. R \notin adopted'[S]
    BY <1>2
  <2> QED BY <2>3, <2>4, <2>5 DEF ToldOf, NoAttach
<1>7. R \notin crossed' => \A p \in Requests \ {q} : UnderWay(p) /\ Session(p) = S => Repo(p) # R
  BY <1>2
<1> QED BY <1>1, <1>2, <1>5, <1>6, <1>7, ToldKeptAt

LEMMA WithdrawTold ==
  ASSUME Shaped, Told, NEW q \in Requests, Withdraw(q)
  PROVE  Told'
<1>1. /\ UnderWay(q) /\ Fits(q) /\ request[q].at = "refused" /\ Moved(q, "releasing") /\ Shaped'
      /\ LetGo(q, Repo(q)) /\ UNCHANGED <<attaching, refused, forgotten, completed>>
  BY WithdrawStep DEF Withdraw
<1>2. Repo(q) \in Repos /\ request[q].kind # "close" /\ "releasing" \in Places
  BY <1>1, PlaceFacts DEF Fits, Ending, Places
<1>3. /\ Others(q) /\ request'[q].at = "releasing"
      /\ \A s, r : Guards(q, s, r)' <=> Guards(q, s, r)
  BY <1>1, <1>2, MovedFacts, MovedSpeaks
<1> QED BY <1>1, <1>2, <1>3, TakenTold

LEMMA RollbackTold ==
  ASSUME Shaped, Told, NEW q \in Requests, Rollback(q), Repo(q) \in adopted[Session(q)]
  PROVE  Told'
<1>1. /\ UnderWay(q) /\ Fits(q) /\ request[q].at = "rollback" /\ request[q].repo \in Repos /\ Shaped'
      /\ LetGo(q, Repo(q)) /\ OnlyMoves(q) /\ request'[q].at = "undoing"
      /\ request'[q].guarded = request[q].guarded
  BY RollbackStep
<1>2. UNCHANGED <<attaching, refused, forgotten, completed>>
  BY DEF Rollback
<1>3. Repo(q) \in Repos /\ request[q].kind # "close" /\ ~request[q].guarded /\ Others(q)
  BY <1>1, OthersKept DEF Fits, Undoing, Repo
<1>4. \A s, r : Guards(q, s, r)' <=> Guards(q, s, r)
  BY <1>1, <1>3 DEF Guards
<1> QED BY <1>1, <1>2, <1>3, <1>4, TakenTold

LEMMA DetachTold ==
  ASSUME Shaped, Told, NEW q \in Requests, Detach(q)
  PROVE  Told'
<1>1. /\ UnderWay(q) /\ Fits(q) /\ request[q].at = "detaching" /\ request[q].repo \in Repos /\ Shaped'
      /\ Repo(q) \in adopted[Session(q)] => Moved(q, "forgetting")
      /\ Repo(q) \notin adopted[Session(q)] => Ended(q)
  BY DetachStep
<1>2. /\ Repo(q) \in adopted[Session(q)] => LetGo(q, Repo(q))
      /\ Repo(q) \notin adopted[Session(q)] => UNCHANGED <<adopted, crossed, unanswered>>
      /\ completed' = [completed EXCEPT ![Session(q)] = @ \ {Repo(q)}]
      /\ UNCHANGED <<attaching, refused, forgotten>>
  BY DEF Detach
<1>3. PICK S \in Sessions, R \in Repos : S = Session(q) /\ R = Repo(q)
  BY <1>1, PlaceFacts
<1>4. request[q].kind = "detach" /\ ~request[q].guarded /\ "forgetting" \in Places
  BY <1>1 DEF Fits, Leaving, Places
<1>5. /\ Others(q) /\ request'[q].at \in {"forgetting", "done"}
      /\ \A s, r : Guards(q, s, r)' <=> Guards(q, s, r)
  <2>1. CASE Repo(q) \in adopted[Session(q)]
    BY <1>1, <1>4, <2>1, MovedFacts, MovedSpeaks
  <2>2. CASE Repo(q) \notin adopted[Session(q)]
    BY <1>1, <1>4, <2>2, EndedFacts DEF Guards, UnderWay, At
  <2> QED BY <2>1, <2>2
<1>6. completed'[S] = completed[S] \ {R} /\ \A s \in Sessions : s # S => completed'[s] = completed[s]
  BY <1>2, <1>3 DEF Shaped, TypeOK, SharedTyped
<1>7. CASE R \in adopted[S]
  BY <1>1, <1>2, <1>3, <1>4, <1>5, <1>6, <1>7, TakenTold
<1>8. CASE R \notin adopted[S]
  <2>1. UNCHANGED <<adopted, crossed, unanswered>>
    BY <1>2, <1>3, <1>8
  <2>2. \A s, r : ~Speaks(q, s, r)
    BY <1>1, <1>4 DEF Speaks
  <2>3. \A s \in Sessions, r \in Repos : s # S \/ r # R => Untouched(q, s, r)
    BY <1>2, <1>5, <1>6, <2>1, <2>2 DEF Untouched
  <2>4. ToldOf(S, R)'
    <3>1. ToldOf(S, R)
      BY ToldParts
    <3>2. Cardinality(Guarded(S, R)') = Cardinality(Guarded(S, R))
      <4>1. Bit(Guards(q, S, R)) = Bit(Guards(q, S, R)') /\ Bit(Guards(q, S, R)) \in {0, 1}
        BY <1>5 DEF Bit
      <4> QED BY <1>5, <4>1, GuardedCounted
    <3>3. R \notin adopted'[S] /\ Exempt' = Exempt
      BY <1>2, <1>8, <2>1 DEF Exempt
    <3> QED BY <1>2, <1>8, <3>1, <3>2, <3>3 DEF ToldOf, NoAttach
  <2>5. request'[q].at \notin {"refused", "answering"}
    BY <1>5
  <2> QED BY <1>1, <1>2, <1>5, <1>8, <2>1, <2>3, <2>4, <2>5, ToldKeptAt
<1> QED BY <1>7, <1>8

\* A detach drops the states that later attaches of the workspace share, and it is noted.
LEMMA ForgetAttachesTold ==
  ASSUME Shaped, Told, NEW q \in Requests, ForgetAttaches(q)
  PROVE  Told'
<1>1. /\ UnderWay(q) /\ Fits(q) /\ request[q].at = "forgetting" /\ Moved(q, "looking") /\ Shaped'
  BY ForgetAttachesStep
<1>2. request[q].kind = "detach" /\ "looking" \in Places
  BY <1>1 DEF Fits, Leaving, Places
<1>3. PICK S \in Sessions, R \in Repos : S = Session(q) /\ R = Repo(q)
  BY <1>1, <1>2, PlaceFacts
<1>4. /\ Others(q) /\ request'[q].at = "looking"
      /\ \A s, r : Guards(q, s, r)' <=> Guards(q, s, r)
  BY <1>1, <1>2, MovedFacts, MovedSpeaks
<1>5. /\ attaching' = [attaching EXCEPT ![S][R] = NoAttach]
      /\ forgotten' = IF attaching[S][R] = NoAttach THEN forgotten ELSE forgotten \cup {R}
      /\ UNCHANGED <<adopted, refused, crossed, completed, unanswered>>
  BY <1>3, Zenon DEF ForgetAttaches
<1>6. /\ attaching'[S][R] = NoAttach
      /\ \A u \in Sessions, k \in Repos : u # S \/ k # R => attaching'[u][k] = attaching[u][k]
  BY <1>5, NoAttachFacts, AttachSet DEF Shaped, TypeOK, SharedTyped
<1>7. \A s, r : ~Speaks(q, s, r)
  BY <1>1, <1>2 DEF Speaks, Fits
<1>8. \A s \in Sessions, r \in Repos : s # S \/ r # R => Untouched(q, s, r)
  BY <1>4, <1>5, <1>6, <1>7 DEF Untouched
<1>9. ToldOf(S, R)'
  <2>1. ToldOf(S, R)
    BY ToldParts
  <2>2. NoAttach.inFlight = 0 /\ ~NoAttach.completed /\ Cardinality(Guarded(S, R)') \in Nat
    BY <1>4, NoAttachFacts, GuardedCounted
  <2>3. R \notin Exempt' => attaching[S][R] = NoAttach /\ R \notin Exempt
    BY <1>5 DEF Exempt
  <2>4. (\E p \in Requests : Speaks(p, S, R)) => \E p \in Requests : Speaks(p, S, R)'
    BY <1>4, <1>7, OthersGoOn
  <2>5. R \in adopted'[S] \ Exempt' =>
          R \in completed'[S] \cup unanswered'[S] \/ attaching'[S][R].rollback \/ \E p \in Requests : Speaks(p, S, R)'
    BY <1>5, <1>6, <2>1, <2>3, <2>4 DEF ToldOf
  <2>6. /\ attaching'[S][R].inFlight = 0 => attaching'[S][R] = NoAttach
        /\ attaching'[S][R].inFlight <= Cardinality(Guarded(S, R)')
        /\ ~attaching'[S][R].completed
    BY <1>6, <2>2
  <2> QED BY <2>5, <2>6 DEF ToldOf, NoAttach
<1>10. request'[q].at \notin {"refused", "answering"}
  BY <1>4
<1>11. forgotten \subseteq forgotten' /\ (R \in adopted[S] => R \in adopted'[S])
  BY <1>5
<1> QED BY <1>1, <1>4, <1>5, <1>8, <1>9, <1>10, <1>11, ToldKeptAt

LEMMA CloseOneTold ==
  ASSUME Shaped, Told, NEW q \in Requests, CloseOne(q)
  PROVE  Told'
<1>1. /\ UnderWay(q) /\ Fits(q) /\ request[q] \in Record /\ request[q].at = "closing" /\ Shaped'
      /\ adopted[Session(q)] = {} => Ended(q) /\ UNCHANGED <<adopted, crossed, unanswered>>
      /\ adopted[Session(q)] # {} => \E r \in adopted[Session(q)] :
           /\ LetGo(q, r) /\ OnlyMoves(q) /\ Same(request'[q], request[q])
           /\ request'[q].at = "releasing"
           /\ request'[q].guarded = request[q].guarded
  BY CloseOneStep
<1>2. PICK S \in Sessions : S = Session(q)
  BY <1>1, PlaceFacts
<1>3. /\ attaching' = [attaching EXCEPT ![S] = [r \in Repos |-> NoAttach]]
      /\ completed' = [completed EXCEPT ![S] = {}]
      /\ UNCHANGED <<refused, forgotten>>
  BY <1>2, Zenon DEF CloseOne
<1>4. request[q].kind = "close" /\ ~request[q].guarded
  BY <1>1 DEF Fits
<1>5. /\ \A r \in Repos : attaching'[S][r] = NoAttach
      /\ \A u \in Sessions : u # S => attaching'[u] = attaching[u] /\ completed'[u] = completed[u]
      /\ adopted[S] \subseteq Repos
  BY <1>3 DEF Shaped, TypeOK, SharedTyped
<1>6. /\ Others(q) /\ request'[q].at \in {"releasing", "done"}
      /\ \A u \in Sessions : u # S => adopted'[u] = adopted[u] /\ unanswered'[u] = unanswered[u]
      /\ crossed \subseteq crossed'
      /\ \A s, r : Guards(q, s, r)' <=> Guards(q, s, r)
      /\ adopted'[S] # {} => UnderWay(q)' /\ Session(q)' = S /\ request'[q].kind = "close"
      /\ \A r \in Repos : r \notin crossed' /\ r \in adopted[S] /\ r \notin adopted'[S] =>
           \A p \in Requests \ {q} : UnderWay(p) /\ Session(p) = S => Repo(p) # r
  <2>1. CASE adopted[S] = {}
    <3>1. Ended(q) /\ UNCHANGED <<adopted, crossed, unanswered>>
      BY <1>1, <1>2, <2>1
    <3>2. Others(q) /\ request'[q].at = "done" /\ ~UnderWay(q)'
      BY <3>1, EndedFacts DEF UnderWay, At
    <3> QED BY <1>4, <2>1, <3>1, <3>2 DEF Guards
  <2>2. CASE adopted[S] # {}
    <3>1. PICK r \in adopted[S] :
             /\ LetGo(q, r) /\ OnlyMoves(q) /\ Same(request'[q], request[q])
             /\ request'[q].at = "releasing"
             /\ request'[q].guarded = request[q].guarded
      BY <1>1, <1>2, <2>2
    <3>2. /\ adopted'[S] = adopted[S] \ {r}
          /\ \A u \in Sessions : u # S => adopted'[u] = adopted[u] /\ unanswered'[u] = unanswered[u]
          /\ crossed \subseteq crossed'
          /\ r \notin crossed' => \A p \in Requests \ {q} : UnderWay(p) /\ Session(p) = S => Repo(p) # r
      BY <1>2, <1>5, <3>1, LetGoFacts
    <3>3. Others(q) /\ UnderWay(q)' /\ Session(q)' = S /\ request'[q].kind = "close"
          /\ ~request'[q].guarded
      BY <1>2, <1>4, <3>1, OthersKept DEF UnderWay, At, Session, Same
    <3>4. \A s, k : Guards(q, s, k)' <=> Guards(q, s, k)
      BY <1>4, <3>3 DEF Guards
    <3>5. \A k \in Repos : k \notin crossed' /\ k \in adopted[S] /\ k \notin adopted'[S] => k = r
      BY <3>2
    <3> QED BY <3>1, <3>2, <3>3, <3>4, <3>5
  <2> QED BY <2>1, <2>2
<1>7. \A s, r : Speaks(q, s, r) => s = S
  BY <1>2 DEF Speaks
<1>8. \A s \in Sessions, r \in Repos : s # S \/ r \notin Repos => Untouched(q, s, r)
  BY <1>5, <1>6, <1>7 DEF Untouched
<1>9. \A r \in Repos \cap Repos : ToldOf(S, r)'
  <2> SUFFICES ASSUME NEW r \in Repos PROVE ToldOf(S, r)'
    OBVIOUS
  <2>1. NoAttach.inFlight = 0 /\ ~NoAttach.completed /\ Cardinality(Guarded(S, r)') \in Nat
    BY <1>6, NoAttachFacts, GuardedCounted
  <2>2. r \in adopted'[S] => Speaks(q, S, r)'
    BY <1>6 DEF Speaks
  <2>3. /\ attaching'[S][r].inFlight = 0 => attaching'[S][r] = NoAttach
        /\ attaching'[S][r].inFlight <= Cardinality(Guarded(S, r)')
        /\ ~attaching'[S][r].completed
    BY <1>5, <2>1
  <2> QED BY <2>2, <2>3 DEF ToldOf, NoAttach
<1>10. request'[q].at \notin {"refused", "answering"}
  BY <1>6
<1>11. \A r \in Repos \cap Repos : r \notin crossed' /\ r \in adopted[S] /\ r \notin adopted'[S] =>
         \A p \in Requests \ {q} : UnderWay(p) /\ Session(p) = S => Repo(p) # r
  BY <1>6
<1>12. crossed \subseteq crossed' /\ forgotten \subseteq forgotten' /\ refused \subseteq refused'
  BY <1>3, <1>6
<1>13. Others(q)
  BY <1>6
<1> QED BY <1>1, <1>8, <1>9, <1>10, <1>11, <1>12, <1>13, ToldKept

\* The last attach undoes what one of them asked to undo, and an attach that answers has told.
LEMMA FinishTold ==
  ASSUME Shaped, Told, NEW q \in Requests, NEW success \in BOOLEAN, Finish(q, success)
  PROVE  Told'
<1> DEFINE x == request[q]  y == request'[q]  a == attaching[Session(q)][Repo(q)]  b == Finished(a, q, success)
<1>1. /\ UnderWay(q) /\ Fits(q) /\ x \in Record /\ x.guarded /\ Session(q) \in Sessions
      /\ Repo(q) \in Repos
      /\ x.at \in {"waiting", "answering", "failed"} /\ (success => x.at = "answering")
      /\ a \in AttachState /\ b \in AttachState
      /\ attaching'[Session(q)][Repo(q)] = (IF b.inFlight = 0 THEN NoAttach ELSE b)
      /\ \A u \in Sessions, k \in Repos : u # Session(q) \/ k # Repo(q) => attaching'[u][k] = attaching[u][k]
      /\ completed' = IF success THEN [completed EXCEPT ![Session(q)] = @ \cup {Repo(q)}] ELSE completed
      /\ Shaped'
  BY FinishStep
<1>2. /\ OnlyMoves(q) /\ (Ended(q) \/ (Same(y, x) /\ y.repo = x.repo /\ ~y.guarded
                                       /\ y.at \in {"rollback", "restoring", "leaving"}))
      /\ RollsBack(b) => Same(y, x) /\ y.repo = x.repo /\ ~y.guarded /\ y.at = "rollback"
  BY FinishStep DEF Ended
<1>3. UNCHANGED <<adopted, refused, crossed, forgotten, unanswered>>
  BY DEF Finish
<1>4. PICK S \in Sessions, R \in Repos : S = Session(q) /\ R = Repo(q)
  BY <1>1
<1>5. /\ b.inFlight = Less(a.inFlight)
      /\ success => b.completed /\ ~b.rollback
      /\ ~success => /\ b.completed <=> a.completed
                     /\ b.rollback <=> a.rollback \/ (x.created /\ ~a.completed)
  BY <1>1, FinishedFacts
<1>6. a = attaching[S][R]
  BY <1>4
<1>7. x.kind = "attach"
  BY <1>1 DEF Fits
<1> HIDE DEF a, b
<1>8. /\ \A s, r : Guards(q, s, r) <=> s = S /\ r = R
      /\ \A s, r : ~Guards(q, s, r)'
      /\ \A s, r : Speaks(q, s, r) => s = S /\ r = R
  <2>1. \A s, r : Guards(q, s, r) <=> s = S /\ r = R
    BY <1>1, <1>4 DEF Guards
  <2>2. \A s, r : Speaks(q, s, r) => s = S /\ r = R
    BY <1>4, <1>7 DEF Speaks
  <2>3. \A s, r : ~Guards(q, s, r)'
    BY <1>2, OverFacts DEF Guards, Ended
  <2> QED BY <2>1, <2>2, <2>3
<1>9. Others(q) /\ y.at \notin {"refused", "answering"}
  BY <1>2, OthersKept DEF Ended, Over
<1>10. completed'[S] = (IF success THEN completed[S] \cup {R} ELSE completed[S])
       /\ \A s \in Sessions : s # S => completed'[s] = completed[s]
  BY <1>1, <1>4 DEF Shaped, TypeOK, SharedTyped
<1>11. \A s \in Sessions, r \in Repos : s # S \/ r # R => Untouched(q, s, r)
  BY <1>1, <1>3, <1>4, <1>8, <1>10 DEF Untouched
<1>12. attaching'[S][R] = (IF b.inFlight = 0 THEN NoAttach ELSE b)
  BY <1>1, <1>4
<1>13. ToldOf(S, R)'
  <2>1. ToldOf(S, R) /\ AnswersHold
    BY ToldParts
  <2>2. Cardinality(Guarded(S, R)') = Cardinality(Guarded(S, R)) - 1
        /\ Cardinality(Guarded(S, R)) \in Nat
        /\ Cardinality(Guarded(S, R)') \in Nat
    <3>1. Bit(Guards(q, S, R)) = 1 /\ Bit(Guards(q, S, R)') = 0
      BY <1>8 DEF Bit
    <3> QED BY <1>9, <3>1, GuardedCounted
  <2>3. a.inFlight \in Nat
    BY <1>1 DEF AttachState
  <2>4. a.inFlight <= Cardinality(Guarded(S, R))
    BY <1>6, <2>1 DEF ToldOf
  <2>5. b.inFlight <= Cardinality(Guarded(S, R)')
    BY <1>5, <2>2, <2>3, <2>4 DEF Less
  <2>6. /\ attaching'[S][R].inFlight = 0 => attaching'[S][R] = NoAttach
        /\ attaching'[S][R].inFlight <= Cardinality(Guarded(S, R)')
    BY <1>12, <2>2, <2>5, NoAttachFacts
  <2>7. Exempt' = Exempt
    BY <1>3 DEF Exempt
  <2>8. ASSUME attaching'[S][R].completed,
               R \notin Exempt PROVE R \in completed'[S] /\ R \in adopted'[S]
    <3>1. b.completed
      BY <1>12, <2>8, NoAttachFacts
    <3>2. CASE success
      <4>1. x.at = "answering" /\ R \notin crossed
        BY <1>1, <2>8, <3>2 DEF Exempt
      <4>2. R \in adopted[S]
        BY <1>4, <2>1, <4>1 DEF AnswersHold
      <4> QED BY <1>3, <1>10, <3>2, <4>2
    <3>3. CASE ~success
      BY <1>3, <1>5, <1>6, <1>10, <2>1, <2>8, <3>1, <3>3 DEF ToldOf
    <3> QED BY <3>2, <3>3
  <2>9. ASSUME R \in adopted[S], R \notin Exempt, R \notin completed'[S] \cup unanswered'[S]
        PROVE  attaching'[S][R].rollback \/ \E p \in Requests : Speaks(p, S, R)'
    <3>1. ~success /\ R \notin completed[S] /\ R \notin unanswered[S] /\ ~a.completed
      BY <1>3, <1>6, <1>10, <2>1, <2>9 DEF ToldOf
    <3>2. a.rollback \/ \E p \in Requests : Speaks(p, S, R)
      BY <1>6, <2>1, <2>9, <3>1 DEF ToldOf
    <3>3. Speaks(q, S, R) => x.created
      BY <1>1, <1>7 DEF Speaks
    <3>4. CASE a.rollback \/ x.created
      <4>1. b.rollback /\ ~b.completed
        BY <1>5, <3>1, <3>4
      <4>2. CASE b.inFlight = 0
        <5>1. y.at = "rollback" /\ ~y.guarded /\ Same(y, x) /\ y.repo = x.repo
          BY <1>2, <4>1, <4>2 DEF RollsBack
        <5>2. Speaks(q, S, R)'
          BY <1>4, <5>1 DEF Speaks, UnderWay, At, Session, Repo, Same
        <5> QED BY <5>2
      <4>3. CASE b.inFlight # 0
        BY <1>12, <4>1, <4>3
      <4> QED BY <4>2, <4>3
    <3>5. CASE ~a.rollback /\ ~x.created
      BY <1>9, <3>2, <3>3, <3>5, OthersGoOn
    <3> QED BY <3>4, <3>5
  <2>10. attaching'[S][R].completed /\ R \notin Exempt' => R \in completed'[S] /\ R \in adopted'[S]
    BY <2>7, <2>8
  <2>11. R \in adopted'[S] \ Exempt' =>
           R \in completed'[S] \cup unanswered'[S] \/ attaching'[S][R].rollback \/ \E p \in Requests : Speaks(p, S, R)'
    BY <1>3, <2>7, <2>9
  <2> QED BY <2>6, <2>10, <2>11 DEF ToldOf, NoAttach
<1>14. R \in adopted[S] => R \in adopted'[S]
  BY <1>3
<1> QED BY <1>1, <1>3, <1>9, <1>11, <1>13, <1>14, ToldKeptAt

LEMMA InitTold == ASSUME Init PROVE Told
<1>1. Shaped /\ \A q \in Requests : ~UnderWay(q)
  BY InitShaped
<1>2. \A q \in Requests : request[q].at \notin {"refused", "answering"}
  BY <1>1 DEF UnderWay, At
<1>3. \A s \in Sessions, r \in Repos : ToldOf(s, r)
  <2> SUFFICES ASSUME NEW s \in Sessions, NEW r \in Repos PROVE ToldOf(s, r)
    OBVIOUS
  <2>1. attaching[s][r] = NoAttach /\ adopted[s] = {}
    BY DEF Init
  <2>2. Cardinality(Guarded(s, r)) \in Nat
    BY FiniteAssumption, FS_Subset, FS_CardinalityType DEF Guarded
  <2> QED BY <2>1, <2>2, NoAttachFacts DEF ToldOf
<1>4. RefusedNoted /\ AnswersHold
  BY <1>2 DEF RefusedNoted, AnswersHold
<1> QED BY <1>1, <1>3, <1>4, ToldParts

LEMMA NextTold ==
  ASSUME Shaped, Told, [Next]_vars
  PROVE  Told'
<1>1. CASE Begin
  <2>1. PICK q \in Requests, s \in Sessions :
          \/ \E r \in Repos, sets \in BOOLEAN :
               ResolveId(q, s, r, sets) \/ \E kind \in {"attach", "prepare"} : ResolvePath(q, s, r, kind, sets)
          \/ \E r \in Repos : BeginDetach(q, s, r)
          \/ BeginClose(q, s)
    BY <1>1 DEF Begin
  <2> QED BY <2>1, BeginCarries, CarriesKept
<1>2. CASE Continue
  <2>1. PICK q \in Requests :
          \/ ReadDefault(q) \/ Arm(q) \/ GiveUp(q)
          \/ Adopt(q) \/ CountSession(q) \/ AcquireLease(q) \/ LeaseRefused(q) \/ SetDefault(q)
          \/ (\E success \in BOOLEAN : Tell(q, success)) \/ DropResolution(q)
          \/ Release(q) \/ ReleaseLease(q) \/ Withdraw(q)
          \/ Detach(q) \/ ForgetAttaches(q) \/ LookAtDefault(q) \/ ClearDefault(q) \/ CloseOne(q)
          \/ StillAdopted(q) \/ \E success \in BOOLEAN : Finish(q, success)
          \/ Rollback(q) \/ Restore(q) \/ UndoDefault(q)
    BY <1>2 DEF Continue
  <2>2. CASE \/ Arm(q) \/ Withdraw(q) \/ Detach(q) \/ ForgetAttaches(q) \/ CloseOne(q)
             \/ \E success \in BOOLEAN : Finish(q, success)
    BY <2>2, ArmTold, WithdrawTold, DetachTold, ForgetAttachesTold, CloseOneTold, FinishTold
  <2>3. CASE \/ Adopt(q) /\ Repo(q) \notin adopted[Session(q)]
             \/ (\E success \in BOOLEAN : Tell(q, success))
             \/ Rollback(q) /\ Repo(q) \in adopted[Session(q)]
    BY <2>3, AdoptTold, TellTold, RollbackTold
  <2>4. CASE \/ ReadDefault(q) \/ GiveUp(q)
             \/ Adopt(q) /\ Repo(q) \in adopted[Session(q)]
             \/ CountSession(q) \/ AcquireLease(q) \/ LeaseRefused(q)
             \/ SetDefault(q) \/ DropResolution(q) \/ Release(q) \/ ReleaseLease(q)
             \/ LookAtDefault(q) \/ ClearDefault(q) \/ StillAdopted(q)
             \/ Rollback(q) /\ Repo(q) \notin adopted[Session(q)]
             \/ Restore(q) \/ UndoDefault(q)
    BY <2>4, ContinueCarries, CarriesKept
  <2> QED BY <2>1, <2>2, <2>3, <2>4, Zenon
<1>3. CASE UNCHANGED vars
  <2>1. UNCHANGED <<request, adopted, attaching, completed, unanswered, refused, crossed, forgotten>>
    BY <1>3 DEF vars, session, history
  <2>2. \A q \in Requests : \A s, r : (Guards(q, s, r)' <=> Guards(q, s, r)) /\ (Speaks(q, s, r)' <=> Speaks(q, s, r))
    BY <2>1 DEF Guards, Speaks, UnderWay, At, Session, Repo
  <2>3. \A s, r : Guarded(s, r)' = Guarded(s, r)
    BY <2>2 DEF Guarded
  <2>4. FlightsFew'
    BY <2>1, <2>3 DEF Told, FlightsFew, NoAttach
  <2>5. RefusedNoted' /\ AnswersHold' /\ CompletedHolds'
    BY <2>1 DEF Told, RefusedNoted, AnswersHold, CompletedHolds, Exempt, Repo, Session
  <2>6. Accounted'
    BY <2>1, <2>2 DEF Told, Accounted, Exempt
  <2> QED BY <2>4, <2>5, <2>6 DEF Told
<1> QED BY <1>1, <1>2, <1>3 DEF Next

\* When the requests of a session have ended, what it has it was told it has, or a request without a
\* rollback guard left it and did not answer: the last attach that ends undoes what one of them asked
\* to undo (WorkspaceAttachRollbackGuard::finish).
THEOREM NothingStays == SessionsSpec => []NothingStaysOfFailed
<1>1. Init => Shaped /\ Told
  BY InitShaped, InitTold
<1>2. Shaped /\ Told /\ [Next]_vars => (Shaped /\ Told)'
  BY NextShaped, NextTold
<1>3. Shaped /\ Told => NothingStaysOfFailed
  <2> SUFFICES ASSUME Shaped, Told, NEW s \in Sessions, Quiet(s), NEW r \in adopted[s], r \notin Exempt
               PROVE  r \in completed[s] \cup unanswered[s]
    BY DEF NothingStaysOfFailed, Exempt
  <2>1. r \in Repos
    BY DEF Shaped, TypeOK, SharedTyped
  <2>2. \A q \in Requests : ~(UnderWay(q) /\ Session(q) = s)
    BY DEF Quiet, RequestsOf
  <2>3. \A q \in Requests : ~Speaks(q, s, r) /\ ~Guards(q, s, r)
    BY <2>2 DEF Speaks, Guards
  <2>4. Cardinality(Guarded(s, r)) = 0
    <3>1. Guarded(s, r) = {}
      BY <2>3 DEF Guarded
    <3> QED BY <3>1, FS_EmptySet
  <2>5. attaching[s][r] = NoAttach
    <3>1. attaching[s][r].inFlight \in Nat
      BY <2>1 DEF Shaped, TypeOK, SharedTyped, AttachState
    <3> QED BY <2>1, <2>4, <3>1 DEF Told, FlightsFew
  <2> QED BY <2>3, <2>5, NoAttachFacts DEF Told, Accounted
<1> QED BY <1>1, <1>2, <1>3, PTL DEF SessionsSpec

-----------------------------------------------------------------------------
(* An attach that is alone in its session.  One is the state of an attach that shares it with no *)
(* other, and Traces what such an attach has changed, by where it is.                            *)

One == [NoAttach EXCEPT !.inFlight = 1]
Traces(me, has, def, shared) ==
  LET b   == me.before
      new == me.repo \notin b.adopted
  IN
  /\ me.guarded => shared = One /\ me.previous = b.default
  /\ me.at \in {"resolved", "read", "working"} => has = b.adopted /\ def = b.default
  /\ me.at = "read" => me.previous = b.default
  /\ me.at \in Claiming => new /\ has = b.adopted \cup {me.repo} /\ def = b.default
  /\ me.at \in {"served", "waiting", "answering"} \/ (me.at = "leaving" /\ me.guarded) =>
       (me.created <=> new) /\ has = b.adopted \cup {me.repo} /\ def \in {b.default, me.repo}
  /\ me.at = "rollback" =>
       new /\ has = b.adopted \cup {me.repo} /\ def \in {b.default, me.repo} /\ me.previous = b.default
  /\ me.at = "undoing" =>
       /\ new /\ has = b.adopted /\ def \in {b.default, me.repo}
       /\ me.previous = IF b.default \in b.adopted THEN b.default ELSE None
  /\ me.at \in {"releasing", "released", "failed"} \/ (me.at = "leaving" /\ ~me.guarded) =>
       new /\ has = b.adopted /\ (def = b.default \/ (def = None /\ b.default \notin b.adopted))
  /\ me.at \notin {"restoring", "restored"}
Only(q) == \A p \in Requests : UnderWay(p) /\ Session(p) = Session(q) => p = q
AloneAt(q) ==
  /\ request[q].kind = "attach" /\ Only(q)
  /\ Traces(request[q], adopted[Session(q)], default[Session(q)], attaching[Session(q)][Repo(q)])
AloneHolds == \A q \in Requests : UnderWay(q) /\ request[q].before.alone => AloneAt(q)

Continues(q) ==
  \/ ReadDefault(q) \/ Arm(q) \/ GiveUp(q)
  \/ Adopt(q) \/ CountSession(q) \/ AcquireLease(q) \/ LeaseRefused(q) \/ SetDefault(q)
  \/ (\E success \in BOOLEAN : Tell(q, success)) \/ DropResolution(q)
  \/ Release(q) \/ ReleaseLease(q) \/ Withdraw(q)
  \/ Detach(q) \/ ForgetAttaches(q) \/ LookAtDefault(q) \/ ClearDefault(q) \/ CloseOne(q)
  \/ StillAdopted(q) \/ \E success \in BOOLEAN : Finish(q, success)
  \/ Rollback(q) \/ Restore(q) \/ UndoDefault(q)

\* What another session has, a step leaves alone.
LEMMA OtherSessions ==
  ASSUME Shaped, NEW q \in Requests, Continues(q)
  PROVE  /\ UnderWay(q) /\ OnlyMoves(q) /\ Session(q) \in Sessions
         /\ \A u \in Sessions : u # Session(q) =>
              adopted'[u] = adopted[u] /\ default'[u] = default[u] /\ attaching'[u] = attaching[u]
<1>1. UnderWay(q) /\ OnlyMoves(q)
  <2>1. CASE ReadDefault(q) \/ Arm(q) \/ GiveUp(q) \/ Adopt(q) \/ CountSession(q)
    BY <2>1, ReadDefaultStep, ArmStep, GiveUpStep, AdoptStep, CountSessionStep DEF Moved, Ended
  <2>4. CASE \/ AcquireLease(q) \/ LeaseRefused(q) \/ SetDefault(q) \/ DropResolution(q) \/ Release(q)
             \/ \E success \in BOOLEAN : Tell(q, success)
    BY <2>4, AcquireLeaseStep, LeaseRefusedStep, SetDefaultStep, TellStep, DropResolutionStep,
       ReleaseStep DEF Moved, Ended
  <2>2. CASE \/ ReleaseLease(q) \/ Withdraw(q) \/ Detach(q) \/ ForgetAttaches(q) \/ LookAtDefault(q)
             \/ ClearDefault(q) \/ CloseOne(q)
    BY <2>2, ReleaseLeaseStep, WithdrawStep, DetachStep, ForgetAttachesStep, LookAtDefaultStep,
       ClearDefaultStep, CloseOneStep DEF Moved, Ended
  <2>3. CASE \/ StillAdopted(q) \/ (\E success \in BOOLEAN : Finish(q, success))
             \/ Rollback(q) \/ Restore(q) \/ UndoDefault(q)
    BY <2>3, StillAdoptedStep, FinishStep, RollbackStep, RestoreStep, UndoDefaultStep DEF Moved, Ended
  <2> QED BY <2>1, <2>2, <2>3, <2>4 DEF Continues
<1>2. PICK S \in Sessions : S = Session(q)
  BY <1>1, PlaceFacts
<1>3. /\ adopted \in [Sessions -> SUBSET Repos] /\ default \in [Sessions -> Target]
      /\ attaching \in [Sessions -> [Repos -> AttachState]]
  BY DEF Shaped, TypeOK, SharedTyped
<1>4. \A u \in Sessions : u # S => adopted'[u] = adopted[u]
  <2>1. adopted' = adopted \/ (\E r \in Repos : adopted' = [adopted EXCEPT ![S] = @ \cup {r}])
        \/ \E r : adopted' = [adopted EXCEPT ![S] = @ \ {r}]
    <3>1. CASE Adopt(q)
      <4>1. Repo(q) \in Repos
        BY <1>1, <3>1, AdoptStep, PlaceFacts
      <4> QED BY <1>2, <3>1, <4>1 DEF Adopt
    <3>2. CASE Withdraw(q) \/ Detach(q) \/ CloseOne(q) \/ Rollback(q)
      BY <1>2, <3>2 DEF Withdraw, Detach, CloseOne, Rollback, LetGo
    <3>3. CASE \/ ReadDefault(q) \/ Arm(q) \/ GiveUp(q) \/ CountSession(q) \/ AcquireLease(q) \/ LeaseRefused(q)
               \/ SetDefault(q) \/ DropResolution(q) \/ Release(q) \/ ReleaseLease(q)
      BY <3>3 DEF ReadDefault, Arm, GiveUp, CountSession, AcquireLease, LeaseRefused, SetDefault,
                  DropResolution, Release, ReleaseLease, session
    <3>4. CASE \/ ForgetAttaches(q) \/ LookAtDefault(q) \/ ClearDefault(q) \/ StillAdopted(q)
               \/ Restore(q) \/ UndoDefault(q)
      BY <3>4 DEF ForgetAttaches, LookAtDefault, ClearDefault, StillAdopted, Restore, UndoDefault,
         session
    <3>5. CASE \E success \in BOOLEAN : Finish(q, success) \/ Tell(q, success)
      BY <3>5 DEF Finish, Tell, session
    <3> QED BY <3>1, <3>2, <3>3, <3>4, <3>5 DEF Continues
  <2> QED BY <1>3, <2>1
<1>5. \A u \in Sessions : u # S => default'[u] = default[u]
  <2>1. default' = default \/ \E v : default' = [default EXCEPT ![S] = v]
    <3>1. CASE SetDefault(q) \/ ClearDefault(q) \/ CloseOne(q) \/ UndoDefault(q)
      BY <1>2, <3>1 DEF SetDefault, ClearDefault, CloseOne, UndoDefault
    <3>2. CASE \/ ReadDefault(q) \/ Arm(q) \/ GiveUp(q) \/ Adopt(q) \/ CountSession(q) \/ AcquireLease(q)
               \/ LeaseRefused(q) \/ DropResolution(q) \/ Release(q) \/ ReleaseLease(q)
      BY <3>2 DEF ReadDefault, Arm, GiveUp, Adopt, CountSession, AcquireLease, LeaseRefused,
                  DropResolution, Release, ReleaseLease, session
    <3>3. CASE \/ Withdraw(q) \/ Detach(q) \/ ForgetAttaches(q) \/ LookAtDefault(q) \/ StillAdopted(q)
               \/ Rollback(q) \/ Restore(q)
      BY <3>3 DEF Withdraw, Detach, ForgetAttaches, LookAtDefault, StillAdopted, Rollback, Restore,
         session
    <3>4. CASE \E success \in BOOLEAN : Finish(q, success) \/ Tell(q, success)
      BY <3>4 DEF Finish, Tell, session
    <3> QED BY <3>1, <3>2, <3>3, <3>4 DEF Continues
  <2> QED BY <1>3, <2>1
<1>6. \A u \in Sessions : u # S => attaching'[u] = attaching[u]
  <2>1. attaching' = attaching \/ \E v : attaching' = [attaching EXCEPT ![S] = v]
    <3>1. CASE Arm(q)
      BY <1>2, <3>1 DEF Arm
    <3>2. CASE ForgetAttaches(q) \/ CloseOne(q)
      BY <1>2, <3>2 DEF ForgetAttaches, CloseOne
    <3>3. CASE \E success \in BOOLEAN : Finish(q, success) \/ Tell(q, success)
      BY <1>2, <3>3 DEF Finish, Tell, session
    <3>4. CASE \/ ReadDefault(q) \/ GiveUp(q) \/ Adopt(q) \/ CountSession(q) \/ AcquireLease(q)
               \/ LeaseRefused(q) \/ SetDefault(q) \/ DropResolution(q) \/ Release(q) \/ ReleaseLease(q)
      BY <3>4 DEF ReadDefault, GiveUp, Adopt, CountSession, AcquireLease, LeaseRefused, SetDefault,
                  DropResolution, Release, ReleaseLease, session
    <3>5. CASE \/ Withdraw(q) \/ Detach(q) \/ LookAtDefault(q) \/ ClearDefault(q) \/ StillAdopted(q)
               \/ Rollback(q) \/ Restore(q) \/ UndoDefault(q)
      BY <3>5 DEF Withdraw, Detach, LookAtDefault, ClearDefault, StillAdopted, Rollback, Restore,
         UndoDefault, session
    <3> QED BY <3>1, <3>2, <3>3, <3>4, <3>5 DEF Continues
  <2> QED BY <1>3, <2>1
<1> QED BY <1>1, <1>2, <1>4, <1>5, <1>6

\* After a step of an attach that is alone: it goes on with the trace it has, or ends without one.
Goes(q, S, R, B) ==
  /\ Same(request'[q], request[q]) /\ request'[q].repo = R
  /\ Traces(request'[q], adopted'[S], default'[S], attaching'[S][R])
Stops(S, R, B) ==
  /\ adopted'[S] = B.adopted
  /\ R \notin B.adopted => default'[S] = B.default \/ (default'[S] = None /\ B.default \notin B.adopted)

LEMMA AloneMoves ==
  ASSUME Shaped, Told, NEW q \in Requests, UnderWay(q), AloneAt(q), Continues(q)
  PROVE  LET S == Session(q)
             R == Repo(q)
             B == request[q].before
         IN  Goes(q, S, R, B) \/ (Ended(q) /\ (At(q, "answering") \/ Stops(S, R, B)))
<1> DEFINE x == request[q]  y == request'[q]
<1>1. x \in Record /\ Fits(q) /\ x.kind = "attach" /\ x.repo \in Repos
  BY RequestFacts DEF Shaped, PlacesFit, AloneAt, Fits, Record, Target
<1>2. PICK S \in Sessions, R \in Repos, B \in RecordOfBefore : S = Session(q) /\ R = Repo(q) /\ B = x.before
  BY <1>1 DEF Record, Session, Repo
<1>3. /\ x.session = S /\ x.repo = R /\ x.before = B
      /\ Traces(x, adopted[S], default[S], attaching[S][R])
  BY <1>2 DEF AloneAt, Session, Repo
<1>4. /\ adopted \in [Sessions -> SUBSET Repos] /\ default \in [Sessions -> Target]
      /\ attaching \in [Sessions -> [Repos -> AttachState]]
  BY DEF Shaped, TypeOK, SharedTyped
<1> DEFINE Goal == Goes(q, S, R, B) \/ (Ended(q) /\ (At(q, "answering") \/ Stops(S, R, B)))
<1>5. ASSUME NEW place \in Places, Moved(q, place)
      PROVE  /\ Same(y, x) /\ y.repo = R /\ y.at = place /\ y.previous = x.previous /\ y.created = x.created
             /\ y.guarded = x.guarded /\ y.resolving = x.resolving /\ y.before = B
  BY <1>3, <1>5 DEF Moved, Still, Same
<1>6. ASSUME ReadDefault(q) PROVE Goal
  <2>1. UNCHANGED <<adopted, default, attaching>>
    BY <1>6 DEF ReadDefault, session
  <2>2. /\ x.at = "resolved" /\ Same(y, x) /\ y.previous = default[S] /\ y.at = "read"
        /\ y.repo = R /\ y.created = x.created /\ y.guarded = x.guarded /\ y.before = B /\ ~x.guarded
    BY <1>1, <1>3, <1>6, ReadDefaultStep DEF Same, Fits
  <2> QED BY <1>3, <2>1, <2>2 DEF Goes, Traces, Claiming
<1>7. ASSUME Arm(q) PROVE Goal
  <2>1. UNCHANGED <<adopted, default>>
    BY <1>7 DEF Arm
  <2>2. /\ x.at = "read" /\ Same(y, x) /\ y.guarded = TRUE /\ y.at = "working" /\ y.repo = R
        /\ y.previous = x.previous /\ y.created = x.created /\ y.before = B /\ ~x.guarded
    BY <1>1, <1>3, <1>7, ArmStep DEF Same, Fits
  <2>3. attaching[S][R] = NoAttach
    <3>1. Guarded(S, R) = {}
      BY <1>2, <2>2 DEF Guarded, Guards, AloneAt, Only
    <3>2. attaching[S][R].inFlight \in Nat /\ attaching[S][R].inFlight <= Cardinality(Guarded(S, R))
      BY <1>4 DEF AttachState, Told, FlightsFew
    <3>3. attaching[S][R].inFlight = 0
      BY <3>1, <3>2, FS_EmptySet
    <3> QED BY <3>3 DEF Told, FlightsFew
  <2>4. attaching'[S][R] = One
    <3>1. attaching' = [attaching EXCEPT ![S][R].inFlight = @ + 1]
      BY <1>2, <1>7 DEF Arm
    <3>2. attaching'[S][R] = [attaching[S][R] EXCEPT !.inFlight = @ + 1]
      BY <1>4, <3>1
    <3>3. [NoAttach EXCEPT !.inFlight = @ + 1] = One
      BY DEF NoAttach, One
    <3> QED BY <2>3, <3>2, <3>3
  <2> QED BY <1>3, <2>1, <2>2, <2>4 DEF Goes, Traces, Claiming
<1>8. ASSUME Adopt(q) PROVE Goal
  <2>1. UNCHANGED <<default, attaching>> /\ adopted' = [adopted EXCEPT ![S] = @ \cup {R}]
    BY <1>2, <1>8, Zenon DEF Adopt
  <2>2. adopted'[S] = adopted[S] \cup {R}
    BY <1>4, <2>1
  <2>3. x.at = "working" /\ ~x.created /\ x.guarded
    BY <1>1, <1>8, AdoptStep DEF Fits, Fresh, Entering
  <2>4. CASE R \in adopted[S]
    <3>1. Moved(q, "served") /\ "served" \in Places
      BY <1>2, <1>8, <2>4, AdoptStep DEF Places
    <3>2. /\ Same(y, x) /\ y.repo = R /\ y.at = "served" /\ y.previous = x.previous
          /\ y.created = x.created
          /\ y.guarded = x.guarded /\ y.before = B
      BY <1>5, <3>1
    <3> QED BY <1>3, <2>1, <2>2, <2>3, <2>4, <3>2 DEF Goes, Traces, Claiming
  <2>5. CASE R \notin adopted[S]
    <3>1. Moved(q, "adopted") /\ "adopted" \in Places
      BY <1>2, <1>8, <2>5, AdoptStep DEF Places
    <3>2. /\ Same(y, x) /\ y.repo = R /\ y.at = "adopted" /\ y.previous = x.previous
          /\ y.created = x.created
          /\ y.guarded = x.guarded /\ y.before = B
      BY <1>5, <3>1
    <3> QED BY <1>3, <2>1, <2>2, <2>3, <2>5, <3>2 DEF Goes, Traces, Claiming
  <2> QED BY <2>4, <2>5
<1>9. ASSUME CountSession(q) \/ LeaseRefused(q) PROVE Goal
  <2>1. UNCHANGED <<adopted, default, attaching>>
    BY <1>9 DEF CountSession, LeaseRefused, session
  <2>2. x.at \in {"adopted", "counted"} /\ \E place \in {"counted", "refused"} : Moved(q, place)
    BY <1>9, CountSessionStep, LeaseRefusedStep
  <2>3. PICK place \in {"counted", "refused"} : Moved(q, place) /\ place \in Places
    BY <2>2 DEF Places
  <2>4. /\ Same(y, x) /\ y.repo = R /\ y.at = place /\ y.previous = x.previous /\ y.created = x.created
        /\ y.guarded = x.guarded /\ y.before = B
    BY <1>5, <2>3
  <2> QED BY <1>3, <2>1, <2>2, <2>4 DEF Goes, Traces, Claiming
<1>10. ASSUME AcquireLease(q) PROVE Goal
  <2>1. UNCHANGED <<adopted, default, attaching>>
    BY <1>10 DEF AcquireLease, session
  <2>2. /\ x.at = "counted" /\ Same(y, x) /\ y.created = TRUE /\ y.at = "served" /\ y.before = B
        /\ y.repo = R /\ y.previous = x.previous /\ y.guarded = x.guarded
    BY <1>3, <1>10, AcquireLeaseStep DEF Same
  <2> QED BY <1>3, <2>1, <2>2 DEF Goes, Traces, Claiming
<1>11. ASSUME SetDefault(q) PROVE Goal
  <2>1. UNCHANGED <<adopted, attaching>> /\ default' = IF x.sets THEN [default EXCEPT ![S] = R] ELSE default
    BY <1>2, <1>11 DEF SetDefault
  <2>2. default'[S] \in {default[S], R}
    BY <1>4, <2>1
  <2>3. x.at = "served" /\ x.resolving /\ x.guarded /\ Moved(q, "leaving") /\ "leaving" \in Places
    BY <1>1, <1>11, SetDefaultStep DEF Fits, Entering, Places
  <2>4. /\ Same(y, x) /\ y.repo = R /\ y.at = "leaving" /\ y.previous = x.previous
        /\ y.created = x.created
        /\ y.guarded = x.guarded /\ y.before = B
    BY <1>5, <2>3
  <2>5. default'[S] \in {B.default, R} /\ (x.created <=> R \notin B.adopted) /\ adopted'[S] = B.adopted \cup {R}
    BY <1>3, <2>1, <2>2, <2>3 DEF Traces
  <2> QED BY <1>3, <2>1, <2>3, <2>4, <2>5 DEF Goes, Traces, Claiming
<1>12. ASSUME NEW success \in BOOLEAN, Tell(q, success) PROVE FALSE
  BY <1>1, <1>12, TellStep DEF Fits
<1>13. ASSUME DropResolution(q) PROVE Goal
  <2>1. UNCHANGED <<adopted, default, attaching>>
    BY <1>13 DEF DropResolution, session
  <2>2. x.at = "leaving"
    BY <1>13, DropResolutionStep
  <2>3. CASE x.guarded
    <3>1. /\ Same(y, x) /\ y.at = "waiting" /\ y.repo = R /\ y.previous = x.previous
          /\ y.created = x.created
          /\ y.guarded = x.guarded /\ y.before = B
      BY <1>3, <1>13, <2>3, DropResolutionStep DEF Same
    <3> QED BY <1>3, <2>1, <2>2, <2>3, <3>1 DEF Goes, Traces, Claiming
  <2>4. CASE ~x.guarded
    <3>1. Ended(q)
      BY <1>13, <2>4, DropResolutionStep
    <3>2. Stops(S, R, B)
      BY <1>3, <2>1, <2>2, <2>4 DEF Traces, Stops
    <3> QED BY <3>1, <3>2
  <2> QED BY <2>3, <2>4
<1>14. ASSUME Release(q) PROVE Goal
  <2>1. UNCHANGED <<adopted, default, attaching>>
    BY <1>14 DEF Release, session
  <2>2. /\ x.at = "releasing" /\ Same(y, x) /\ y.at = "released" /\ y.before = B
        /\ y.repo = R /\ y.previous = x.previous /\ y.guarded = x.guarded
    BY <1>3, <1>14, ReleaseStep DEF Same
  <2> QED BY <1>3, <2>1, <2>2 DEF Goes, Traces, Claiming
<1>15. ASSUME ReleaseLease(q) PROVE Goal
  <2>1. UNCHANGED <<adopted, default, attaching>>
    BY <1>15 DEF ReleaseLease, session
  <2>2. x.at = "released"
    BY <1>15, ReleaseLeaseStep
  <2>3. Stops(S, R, B)
    BY <1>3, <2>1, <2>2 DEF Traces, Stops
  <2>4. CASE Rest(q) = "done"
    <3>1. Ended(q)
      BY <1>15, <2>4, ReleaseLeaseStep
    <3> QED BY <2>3, <3>1
  <2>5. CASE Rest(q) # "done"
    <3>1. Moved(q, Rest(q)) /\ Rest(q) \in {"failed", "leaving"} /\ (Rest(q) = "leaving" => ~x.guarded)
      BY <1>1, <1>15, <2>2, <2>5, ReleaseLeaseStep, RestFacts
    <3>2. PICK place \in {"failed", "leaving"} : Moved(q, place) /\ place \in Places /\ (place = "leaving" => ~x.guarded)
      BY <3>1 DEF Places
    <3>3. /\ Same(y, x) /\ y.repo = R /\ y.at = place /\ y.previous = x.previous
          /\ y.guarded = x.guarded /\ y.before = B
      BY <1>5, <3>2
    <3> QED BY <1>3, <2>1, <2>2, <3>2, <3>3 DEF Goes, Traces, Claiming
  <2> QED BY <2>4, <2>5
<1>16. ASSUME Withdraw(q) PROVE Goal
  <2>1. UNCHANGED <<default, attaching>> /\ LetGo(q, R) /\ x.at = "refused" /\ Moved(q, "releasing")
        /\ "releasing" \in Places
    BY <1>2, <1>16, WithdrawStep DEF Withdraw, Places
  <2>2. adopted'[S] = adopted[S] \ {R}
    BY <1>2, <2>1, LetGoFacts
  <2>3. /\ Same(y, x) /\ y.repo = R /\ y.at = "releasing" /\ y.previous = x.previous
        /\ y.guarded = x.guarded /\ y.before = B
    BY <1>5, <2>1
  <2>4. R \notin B.adopted /\ adopted'[S] = B.adopted /\ default'[S] = B.default
    BY <1>3, <2>1, <2>2 DEF Traces, Claiming
  <2> QED BY <1>3, <2>1, <2>3, <2>4 DEF Goes, Traces, Claiming
<1>17. ASSUME StillAdopted(q) PROVE Goal
  <2>1. UNCHANGED <<adopted, default, attaching>>
    BY <1>17 DEF StillAdopted, session
  <2>2. x.at = "waiting" /\ Moved(q, "answering") /\ "answering" \in Places
    BY <1>17, StillAdoptedStep DEF Places
  <2>3. /\ Same(y, x) /\ y.repo = R /\ y.at = "answering" /\ y.previous = x.previous
        /\ y.created = x.created
        /\ y.guarded = x.guarded /\ y.before = B
    BY <1>5, <2>2
  <2> QED BY <1>3, <2>1, <2>2, <2>3 DEF Goes, Traces, Claiming
<1>18. ASSUME Rollback(q) PROVE Goal
  <2>1. x.at = "rollback" /\ R \notin B.adopted /\ adopted[S] = B.adopted \cup {R}
        /\ default[S] \in {B.default, R} /\ x.previous = B.default
    <3>1. x.at = "rollback"
      BY <1>18, RollbackStep
    <3> QED BY <1>3, <3>1 DEF Traces
  <2>2. /\ LetGo(q, R) /\ Same(y, x) /\ y.at = "undoing" /\ y.previous = StillThere(q, adopted[S] \ {R})
        /\ y.repo = R /\ y.guarded = x.guarded /\ y.before = B
    BY <1>2, <1>3, <1>18, <2>1, RollbackStep DEF Same
  <2>7. adopted'[S] = adopted[S] \ {R}
    BY <1>2, <2>2, LetGoFacts
  <2>3. adopted'[S] = B.adopted /\ adopted[S] \ {R} = B.adopted
    BY <2>1, <2>7
  <2>4. UNCHANGED <<default, attaching>>
    BY <1>18 DEF Rollback
  <2>5. y.previous = IF B.default \in B.adopted THEN B.default ELSE None
    BY <2>1, <2>2, <2>3 DEF StillThere
  <2>6. ~x.guarded
    BY <1>1, <2>1 DEF Fits, Undoing
  <2> QED BY <1>3, <2>1, <2>2, <2>3, <2>4, <2>5, <2>6 DEF Goes, Traces, Claiming
<1>19. ASSUME UndoDefault(q) PROVE Goal
  <2>1. x.at = "undoing" /\ Moved(q, "releasing") /\ "releasing" \in Places /\ ~x.guarded
    BY <1>1, <1>3, <1>19, UndoDefaultStep DEF Traces, Fits, Undoing, Places
  <2>2. /\ R \notin B.adopted /\ adopted[S] = B.adopted /\ default[S] \in {B.default, R}
        /\ x.previous = IF B.default \in B.adopted THEN B.default ELSE None
    BY <1>3, <2>1 DEF Traces
  <2>3. /\ UNCHANGED <<adopted, attaching>>
        /\ default' = IF default[S] = R THEN [default EXCEPT ![S] = x.previous] ELSE default
    BY <1>2, <1>19 DEF UndoDefault, Undone
  <2>4. default'[S] = IF default[S] = R THEN x.previous ELSE default[S]
    BY <1>4, <2>3
  <2>5. default'[S] = B.default \/ (default'[S] = None /\ B.default \notin B.adopted)
    BY <2>2, <2>4
  <2>6. /\ Same(y, x) /\ y.repo = R /\ y.at = "releasing" /\ y.guarded = x.guarded /\ y.before = B
    BY <1>5, <2>1
  <2> QED BY <1>3, <2>1, <2>2, <2>3, <2>5, <2>6 DEF Goes, Traces, Claiming
<1>20. ASSUME NEW success \in BOOLEAN, Finish(q, success) PROVE Goal
  <2> DEFINE a == attaching[Session(q)][Repo(q)]  b == Finished(a, q, success)
  <2>1. /\ x.guarded /\ x.at \in {"waiting", "answering", "failed"} /\ (success => x.at = "answering")
        /\ a \in AttachState /\ b \in AttachState
        /\ RollsBack(b) => /\ Same(y, x) /\ y.repo = x.repo /\ ~y.guarded
                           /\ y.at = "rollback" /\ y.previous = b.rollbackTo
        /\ ~RollsBack(b) /\ ~Restores(b) /\ x.resolving => /\ Same(y, x) /\ y.repo = x.repo /\ ~y.guarded
                           /\ y.at = "leaving" /\ y.previous = x.previous
        /\ ~RollsBack(b) /\ ~Restores(b) /\ ~x.resolving => Ended(q)
    BY <1>20, FinishStep
  <2>2. UNCHANGED <<adopted, default>>
    BY <1>20 DEF Finish
  <2>3. a = One
    BY <1>2, <1>3, <2>1 DEF Traces
  <2>4. One.inFlight = 1 /\ ~One.completed /\ ~One.rollback /\ ~One.restore
    BY DEF One, NoAttach
  <2>5. /\ b.inFlight = Less(a.inFlight)
        /\ success => b.completed /\ ~b.rollback /\ (b.restore => a.restore)
        /\ ~success => /\ b.completed <=> a.completed
                       /\ b.rollback <=> a.rollback \/ (x.created /\ ~a.completed)
                       /\ b.rollbackTo = IF x.created /\ ~a.completed THEN x.previous ELSE a.rollbackTo
    BY <1>1, <2>1, FinishedFacts
  <2> HIDE DEF a, b
  <2>6. /\ b.inFlight = 0
        /\ success => ~b.rollback /\ ~b.restore
        /\ ~success => ~b.completed /\ (b.rollback <=> x.created) /\ (x.created => b.rollbackTo = x.previous)
    BY <2>3, <2>4, <2>5 DEF Less
  <2>7. ~Restores(b) /\ (RollsBack(b) <=> ~success /\ x.created)
    BY <2>6 DEF Restores, RollsBack
  <2>8. y.at # "unmade" => (Same(y, x) => y.before = B)
    BY <1>3 DEF Same
  <2>9. CASE ~success /\ x.created
    <3>1. x.at \in {"waiting", "answering"}
      BY <1>1, <2>1, <2>9 DEF Fits, Fresh
    <3>2. /\ R \notin B.adopted /\ adopted'[S] = B.adopted \cup {R} /\ default'[S] \in {B.default, R}
          /\ x.previous = B.default
      BY <1>3, <2>1, <2>2, <2>9, <3>1 DEF Traces
    <3>3. Same(y, x) /\ y.repo = R /\ ~y.guarded /\ y.at = "rollback" /\ y.previous = B.default
          /\ y.before = B
      BY <1>3, <2>1, <2>6, <2>7, <2>9, <3>2 DEF Same
    <3> QED BY <3>2, <3>3 DEF Goes, Traces, Claiming
  <2>10. CASE ~(~success /\ x.created) /\ x.resolving
    <3>1. x.at = "failed"
      BY <1>1, <2>1, <2>10 DEF Fits
    <3>2. Same(y, x) /\ y.repo = R /\ ~y.guarded /\ y.at = "leaving" /\ y.before = B
      BY <1>3, <2>1, <2>7, <2>10 DEF Same
    <3>3. /\ R \notin B.adopted /\ adopted'[S] = B.adopted
          /\ default'[S] = B.default \/ (default'[S] = None /\ B.default \notin B.adopted)
      BY <1>3, <2>2, <3>1 DEF Traces
    <3> QED BY <3>2, <3>3 DEF Goes, Traces, Claiming
  <2>11. CASE ~(~success /\ x.created) /\ ~x.resolving
    <3>1. Ended(q) /\ x.at \in {"waiting", "answering"}
      BY <1>1, <2>1, <2>7, <2>11 DEF Fits
    <3>2. CASE x.at = "answering"
      BY <3>1, <3>2 DEF At
    <3>3. CASE x.at = "waiting"
      <4>1. ~x.created
        BY <2>1, <2>11, <3>3
      <4>2. adopted[S] = B.adopted /\ R \in B.adopted
        BY <1>3, <3>3, <4>1 DEF Traces
      <4> QED BY <2>2, <3>1, <4>2 DEF Stops
    <3> QED BY <3>1, <3>2, <3>3
  <2> QED BY <2>9, <2>10, <2>11
<1>21. ASSUME GiveUp(q) \/ Detach(q) \/ ForgetAttaches(q) \/ LookAtDefault(q) \/ ClearDefault(q) \/ CloseOne(q) \/ Restore(q)
       PROVE  FALSE
  <2>1. \/ x.at = "working" /\ ~x.guarded
        \/ x.at \in Leaving \cup {"closing", "restoring"}
    BY <1>21, GiveUpStep, DetachStep, ForgetAttachesStep, LookAtDefaultStep, ClearDefaultStep,
       CloseOneStep, RestoreStep DEF Leaving
  <2> QED BY <1>1, <1>3, <2>1 DEF Fits, Traces, Entering, Leaving
<1>22. Goal
  <2> HIDE DEF Goal
  <2> QED BY <1>6, <1>7, <1>8, <1>9, <1>10, <1>11, <1>12, <1>13, <1>14, <1>15, <1>16, <1>17, <1>18,
             <1>19, <1>20, <1>21
          DEF Continues
<1> QED BY <1>2, <1>22

\* A request that goes on is of the session, the kind and the beginning that it was.
LEMMA SessionStays ==
  ASSUME Shaped, NEW q \in Requests, Continues(q)
  PROVE  Same(request'[q], request[q]) \/ Ended(q)
<1>1. CASE ReadDefault(q) \/ Arm(q) \/ GiveUp(q) \/ Adopt(q) \/ CountSession(q)
  BY <1>1, ReadDefaultStep, ArmStep, GiveUpStep, AdoptStep, CountSessionStep DEF Moved
<1>2. CASE \/ AcquireLease(q) \/ LeaseRefused(q) \/ SetDefault(q) \/ DropResolution(q) \/ Release(q)
           \/ \E success \in BOOLEAN : Tell(q, success)
  BY <1>2, AcquireLeaseStep, LeaseRefusedStep, SetDefaultStep, TellStep, DropResolutionStep,
     ReleaseStep DEF Moved
<1>3. CASE ReleaseLease(q) \/ Withdraw(q) \/ Detach(q) \/ ForgetAttaches(q)
  BY <1>3, ReleaseLeaseStep, WithdrawStep, DetachStep, ForgetAttachesStep DEF Moved
<1>4. CASE LookAtDefault(q) \/ ClearDefault(q) \/ CloseOne(q) \/ StillAdopted(q)
  BY <1>4, LookAtDefaultStep, ClearDefaultStep, CloseOneStep, StillAdoptedStep DEF Moved
<1>5. CASE \E success \in BOOLEAN : Finish(q, success)
  BY <1>5, FinishStep
<1>6. CASE Rollback(q) \/ Restore(q) \/ UndoDefault(q)
  BY <1>6, RollbackStep, RestoreStep, UndoDefaultStep DEF Moved
<1> QED BY <1>1, <1>2, <1>3, <1>4, <1>5, <1>6 DEF Continues

LEMMA SessionKept ==
  ASSUME Shaped, NEW q \in Requests, Continues(q), UnderWay(q)'
  PROVE  /\ Session(q)' = Session(q) /\ request'[q].before = request[q].before
         /\ request'[q].kind = request[q].kind
BY SessionStays, OverFacts DEF Ended, Same, Session

LEMMA OnlyKept ==
  ASSUME NEW q \in Requests, Only(q), Session(q)' = Session(q), NEW m \in Requests, Others(m),
         m # q => ~(UnderWay(m)' /\ Session(m)' = Session(q))
  PROVE  Only(q)'
<1> SUFFICES ASSUME NEW p \in Requests, UnderWay(p)', Session(p)' = Session(q), p # q PROVE FALSE
  BY DEF Only
<1>1. CASE p = m
  BY <1>1
<1>2. CASE p # m
  <2>1. UnderWay(p) /\ Session(p) = Session(q)
    BY <1>2, OthersFacts
  <2> QED BY <2>1 DEF Only
<1> QED BY <1>1, <1>2

LEMMA NextAlone ==
  ASSUME Shaped, Told, AloneHolds, [Next]_vars
  PROVE  AloneHolds'
<1>1. CASE Begin
  <2>1. PICK m \in Requests, u \in Sessions :
          \/ \E r \in Repos, sets \in BOOLEAN :
               ResolveId(m, u, r, sets) \/ \E kind \in {"attach", "prepare"} : ResolvePath(m, u, r, kind, sets)
          \/ \E r \in Repos : BeginDetach(m, u, r)
          \/ BeginClose(m, u)
    BY <1>1 DEF Begin
  <2>2. UNCHANGED <<adopted, default, attaching>>
    BY <2>1 DEF ResolveId, ResolvePath, BeginDetach, BeginClose, session
  <2>5. /\ ~UnderWay(m) /\ Others(m)
        /\ \A p \in Requests \ {m} :
             UnderWay(p) => request'[p].before = (IF Session(p) = u THEN NoRecord ELSE request[p].before)
        /\ request'[m] \in Record /\ request'[m].session = u /\ ~request'[m].guarded
        /\ request'[m].kind = "attach" => request'[m].at = "resolved"
        /\ request'[m].before = Before(u, request'[m].kind)
    BY <2>1, ResolveIdStep, ResolvePathStep, BeginDetachStep, BeginCloseStep
  <2> SUFFICES ASSUME NEW q \in Requests, UnderWay(q)', request'[q].before.alone PROVE AloneAt(q)'
    BY DEF AloneHolds
  <2>6. CASE q = m
    <3>1. RequestsOf(u) = {} /\ request'[q].kind = "attach"
          /\ request'[q].before = [adopted |-> adopted[u], default |-> default[u], alone |-> TRUE]
      BY <2>5, <2>6 DEF Before, NoRecord
    <3>2. request'[q].before.adopted = adopted[u] /\ request'[q].before.default = default[u]
          /\ Session(q)' = u
      BY <2>5, <2>6, <3>1 DEF Session
    <3>3. Only(q)'
      <4> SUFFICES ASSUME NEW p \in Requests, UnderWay(p)', Session(p)' = u, p # q PROVE FALSE
        BY <3>2 DEF Only
      <4>1. UnderWay(p) /\ Session(p) = u
        BY <2>5, <2>6, OthersFacts
      <4> QED BY <3>1, <4>1 DEF RequestsOf
    <3>4. Traces(request'[q], adopted'[u], default'[u], attaching'[u][Repo(q)'])
      BY <2>2, <2>5, <2>6, <3>1, <3>2 DEF Traces, Claiming
    <3> QED BY <2>5, <2>6, <3>1, <3>2, <3>3, <3>4 DEF AloneAt
  <2>7. CASE q # m
    <3>1. /\ UnderWay(q) /\ Alike(request'[q], request[q]) /\ request'[q].at = request[q].at
          /\ Session(q)' = Session(q) /\ Repo(q)' = Repo(q)
      BY <2>5, <2>7, OthersFacts DEF Others
    <3>2. Session(q) # u /\ request'[q].before = request[q].before
      BY <2>5, <2>7, <3>1 DEF NoRecord
    <3>3. AloneAt(q)
      BY <3>1, <3>2 DEF AloneHolds
    <3>4. Only(q)'
      <4>1. Session(m)' = u
        BY <2>5 DEF Session
      <4> QED BY <2>5, <3>1, <3>2, <3>3, <4>1, OnlyKept DEF AloneAt
    <3>5. Traces(request'[q], adopted'[Session(q)'], default'[Session(q)'], attaching'[Session(q)'][Repo(q)'])
      <4>1. Traces(request[q], adopted[Session(q)], default[Session(q)], attaching[Session(q)][Repo(q)])
        BY <3>3 DEF AloneAt
      <4>2. request'[q].repo = request[q].repo /\ request'[q].guarded = request[q].guarded
            /\ request'[q].created = request[q].created /\ request'[q].previous = request[q].previous
        BY <3>1 DEF Alike, Still
      <4> QED BY <2>2, <3>1, <3>2, <4>1, <4>2 DEF Traces
    <3> QED BY <3>1, <3>3, <3>4, <3>5 DEF AloneAt, Alike
  <2> QED BY <2>6, <2>7
<1>2. CASE Continue
  <2>1. PICK m \in Requests : Continues(m)
    BY <1>2 DEF Continue, Continues
  <2>2. /\ UnderWay(m) /\ OnlyMoves(m) /\ Others(m) /\ Session(m) \in Sessions
        /\ \A u \in Sessions : u # Session(m) =>
             adopted'[u] = adopted[u] /\ default'[u] = default[u] /\ attaching'[u] = attaching[u]
    BY <2>1, OtherSessions, OthersKept
  <2> SUFFICES ASSUME NEW q \in Requests, UnderWay(q)', request'[q].before.alone PROVE AloneAt(q)'
    BY DEF AloneHolds
  <2>3. CASE q # m
    <3>1. request'[q] = request[q] /\ UnderWay(q) /\ Session(q)' = Session(q) /\ Repo(q)' = Repo(q)
      BY <2>2, <2>3 DEF OnlyMoves, UnderWay, At, Session, Repo
    <3>2. AloneAt(q) /\ Session(q) \in Sessions
      BY <3>1, PlaceFacts DEF AloneHolds
    <3>3. Session(m) # Session(q)
      BY <2>2, <2>3, <3>2 DEF AloneAt, Only
    <3>4. UnderWay(m)' => Session(m)' = Session(m)
      BY <2>1, <2>2, SessionKept
    <3>5. Only(q)'
      BY <2>2, <3>1, <3>2, <3>3, <3>4, OnlyKept DEF AloneAt
    <3> QED BY <2>2, <3>1, <3>2, <3>3, <3>5 DEF AloneAt
  <2>4. CASE q = m
    <3>1. request[q].before = request'[q].before /\ Session(q)' = Session(q)
          /\ request'[q].kind = request[q].kind
      BY <2>1, <2>2, <2>4, SessionKept
    <3>2. AloneAt(q)
      BY <2>2, <2>4, <3>1 DEF AloneHolds
    <3>3. Goes(q, Session(q), Repo(q), request[q].before)
      <4>1. ~Ended(q)
        BY <2>4, OverFacts DEF Ended
      <4> QED BY <2>1, <2>2, <2>4, <3>2, <4>1, AloneMoves
    <3>4. Repo(q)' = Repo(q)
      BY <3>3 DEF Goes, Repo
    <3>5. Only(q)'
      BY <2>2, <2>4, <3>1, <3>2, OnlyKept DEF AloneAt
    <3> QED BY <3>1, <3>2, <3>3, <3>4, <3>5 DEF AloneAt, Goes
  <2> QED BY <2>3, <2>4
<1>3. CASE UNCHANGED vars
  <2>1. UNCHANGED <<request, adopted, default, attaching>>
    BY <1>3 DEF vars, session
  <2>2. \A q : /\ Session(q)' = Session(q) /\ Repo(q)' = Repo(q) /\ (UnderWay(q)' <=> UnderWay(q))
               /\ request'[q] = request[q]
    BY <2>1 DEF UnderWay, At, Session, Repo
  <2>3. \A q : Only(q)' <=> Only(q)
    BY <2>2 DEF Only
  <2>4. \A q : Traces(request[q], adopted[Session(q)], default[Session(q)], attaching[Session(q)][Repo(q)])'
              <=> Traces(request[q], adopted[Session(q)], default[Session(q)], attaching[Session(q)][Repo(q)])
    BY <2>1, <2>2 DEF Traces
  <2> QED BY <2>2, <2>3, <2>4 DEF AloneHolds, AloneAt
<1> QED BY <1>1, <1>2, <1>3 DEF Next

LEMMA BeginMoves ==
  ASSUME Shaped, Begin
  PROVE  \E m \in Requests : Others(m) /\ ~UnderWay(m) /\ UnderWay(m)'
<1>1. PICK m \in Requests, u \in Sessions :
        \/ \E r \in Repos, sets \in BOOLEAN :
             ResolveId(m, u, r, sets) \/ \E kind \in {"attach", "prepare"} : ResolvePath(m, u, r, kind, sets)
        \/ \E r \in Repos : BeginDetach(m, u, r)
        \/ BeginClose(m, u)
  BY DEF Begin
<1>2. Others(m) /\ ~UnderWay(m) /\ request'[m].at \in {"resolved", "working", "detaching", "closing"}
  BY <1>1, ResolveIdStep, ResolvePathStep, BeginDetachStep, BeginCloseStep
<1> QED BY <1>2 DEF UnderWay, At

\* An attach that ends while it is alone in its session, and does not answer, leaves the session
\* as it was; of the default no more is left than that what is gone is not the default again
\* (WorkspaceAttachRollbackGuard::finish, rollback_adoption).
THEOREM FailedAttachLeavesNothing == SessionsSpec => FailedAttachLeavesNoTrace
<1>1. Init => Shaped /\ Told /\ AloneHolds
  <2> SUFFICES ASSUME Init PROVE Shaped /\ Told /\ AloneHolds
    OBVIOUS
  <2> QED BY InitShaped, InitTold DEF AloneHolds
<1>2. Shaped /\ Told /\ AloneHolds /\ [Next]_vars => (Shaped /\ Told /\ AloneHolds)'
  BY NextShaped, NextTold, NextAlone
<1>3. Shaped /\ Told /\ AloneHolds /\ [Next]_vars =>
        [\A q \in Requests :
           LET before == request[q].before
               default2 == default'[Session(q)]
           IN UnderWay(q) /\ At(q, "done")' /\ ~At(q, "answering")
                /\ request[q].kind = "attach" /\ before.alone
              => /\ adopted'[Session(q)] = before.adopted
                 /\ Repo(q) \notin before.adopted =>
                      \/ default2 = before.default
                      \/ default2 = None /\ before.default \notin before.adopted]_vars
  <2> SUFFICES ASSUME Shaped, Told, AloneHolds, Next,
                      NEW q \in Requests, UnderWay(q), At(q, "done")', ~At(q, "answering"), request[q].before.alone
               PROVE  Stops(Session(q), Repo(q), request[q].before)
    BY DEF Stops
  <2>1. AloneAt(q)
    BY DEF AloneHolds
  <2>2. CASE Begin
    <3>1. PICK m \in Requests : Others(m) /\ ~UnderWay(m) /\ UnderWay(m)'
      BY <2>2, BeginMoves
    <3> QED BY <3>1, OthersFacts DEF UnderWay, At
  <2>3. CASE Continue
    <3>1. PICK m \in Requests : Continues(m)
      BY <2>3 DEF Continue, Continues
    <3>2. m = q
      BY <3>1, OtherSessions, OthersKept, OthersFacts DEF UnderWay, At
    <3>3. ~Goes(q, Session(q), Repo(q), request[q].before)
      BY DEF Goes, Same, Record, Places, At
    <3> QED BY <2>1, <3>1, <3>2, <3>3, AloneMoves
  <2> QED BY <2>2, <2>3 DEF Next
<1> QED BY <1>1, <1>2, <1>3, PTL DEF SessionsSpec, FailedAttachLeavesNoTrace
=============================================================================
