--------------------------- MODULE BookingProofs ---------------------------
(***************************************************************************)
(* Proofs about Booking, for every set of people, listings and requests    *)
(* and every value of the settings.                                        *)
(***************************************************************************)
EXTENDS Booking, TLAPS

\* Half a price, rounded to the even neighbour, is between nothing and the
\* price (cancellation.refund_amount).
LEMMA HalfInRange == ASSUME NEW a \in Nat PROVE HalfOf(a) \in 0..a
  BY DEF HalfOf

\* What a cancellation writes down is an amount of the price, or nothing.
LEMMA RefundTyped ==
  ASSUME TypeOK, NEW action \in Action, NEW role \in Role, NEW b \in Requests
  PROVE  RefundOf(action, role, b) \in (0..Amount) \cup {Null}
<1>1. Amount \in Nat
  BY LengthsAssumption
<1>2. HalfOf(Amount) \in 0..Amount
  BY <1>1, HalfInRange
<1>3. PolicyRefund(role, b) \in 0..Amount
  BY <1>1, <1>2 DEF PolicyRefund
<1>4. row[b].refund \in (0..Amount) \cup {Null}
  BY DEF TypeOK, Row
<1> QED
  BY <1>1, <1>3, <1>4 DEF RefundOf

\* Writing a status, and what an ending writes with it, makes a row of a row.
LEMMA RowsStayRows ==
  ASSUME NEW x \in Row, NEW to \in RowStatus,
         NEW expires \in Nat \cup {Null},
         NEW refund \in (0..Amount) \cup {Null},
         NEW noShow \in {"nobody", "owner", "renter"}
  PROVE  /\ [x EXCEPT !.status = to, !.expires = expires] \in Row
         /\ [x EXCEPT !.status = to, !.refund = refund] \in Row
         /\ [x EXCEPT !.status = to, !.refund = refund, !.expires = expires] \in Row
         /\ [x EXCEPT !.status = to, !.expires = expires, !.refund = refund,
                      !.noShow = noShow] \in Row
  BY DEF Row

\* The row that create inserts.
LEMMA NewRowTyped == ASSUME now \in Nat PROVE NewRow \in Row /\ NoRow \in Row
<1>1. NoRow \in Row
  BY DEF NoRow, Row, RowStatus
<1>2. now + PaymentTimeout \in Nat
  BY LengthsAssumption
<1>3. ASSUME NEW n \in Nat, NEW m \in Nat
      PROVE  [NoRow EXCEPT !.status = "awaiting_payment", !.created = n, !.expires = m] \in Row
  BY DEF NoRow, Row, RowStatus, Status
<1> QED
  BY <1>1, <1>2, <1>3 DEF NewRow

\* The types in the initial state: no row, no answer, empty queues.
LEMMA TypeInit == Init => TypeOK
  BY LengthsAssumption, PeopleAssumption, NewRowTyped DEF Init, TypeOK, PC, EventsOf

\* The handler of a request keeps the types, whichever step it takes.
LEMMA TypeCreate ==
  ASSUME TypeOK, NEW r \in Requests, Create(r) PROVE TypeOK'
<1> USE DEF TypeOK, Goto, external
<1>1. CASE Extend(r)
  BY <1>1 DEF Extend, PC
<1>2. CASE LookUpKey(r)
  BY <1>2 DEF LookUpKey, ByKey, Replay, PC
<1>3. CASE CheckLimits(r)
  BY <1>3 DEF CheckLimits, PC
<1>4. CASE MatchOffer(r)
  BY <1>4 DEF MatchOffer, PC
<1>5. CASE CheckStanding(r)
  BY <1>5 DEF CheckStanding, PC
<1>6. CASE Insert(r)
  <2>1. NewRow \in Row
    BY NewRowTyped
  <2> QED
    BY <1>6, <2>1 DEF Insert, ByKey, Replay, PC
<1>7. CASE StartPayment(r)
  <2>1. WithIntent(got[r]) \in [Requests -> {"none", "created", "authorised", "declined"}]
    BY DEF WithIntent
  <2> QED
    BY <1>7, <2>1 DEF StartPayment, PC
<1>8. CASE ReleaseUnpayable(r)
  <2>1. \A b \in Requests :
          [row[b] EXCEPT !.status = "payment_failed", !.expires = Null] \in Row
    BY RowsStayRows DEF RowStatus, Status
  <2>2. got[r] \in Requests \cup {None}
    OBVIOUS
  <2>3. row' \in [Requests -> Row]
    BY <1>8, <2>1, <2>2 DEF ReleaseUnpayable
  <2> QED
    BY <1>8, <2>3 DEF ReleaseUnpayable, PC
<1> QED
  BY <1>1, <1>2, <1>3, <1>4, <1>5, <1>6, <1>7, <1>8 DEF Create

\* A person's action, a settlement or a sweep writes only well-typed rows.
LEMMA TypeMoves == ASSUME TypeOK, Moves PROVE TypeOK'
<1> USE DEF TypeOK, request, external
<1>1. ASSUME NEW b \in Requests, NEW action \in Action, NEW role \in Role,
             Transition(action, role, b)
      PROVE  TypeOK'
  <2>1. TRANSITIONS[action].to \in Status
    BY DEF TRANSITIONS, Action, Status
  <2>2. RefundOf(action, role, b) \in (0..Amount) \cup {Null}
    BY RefundTyped
  <2>3. \A e \in Requests : EndedExtension(e) \in Row
    <3>1. Amount \in 0..Amount
      BY LengthsAssumption
    <3> QED
      BY <3>1, RowsStayRows DEF EndedExtension, RowStatus, Status
  <2>4. [row[b] EXCEPT !.status = TRANSITIONS[action].to, !.expires = Null,
                       !.refund = RefundOf(action, role, b),
                       !.noShow = IF action = "no_show" THEN Missing(role) ELSE row[b].noShow] \in Row
    <3>1. (IF action = "no_show" THEN Missing(role) ELSE row[b].noShow)
            \in {"nobody", "owner", "renter"}
      BY DEF Missing, Row
    <3>2. ASSUME NEW to \in RowStatus, NEW refund \in (0..Amount) \cup {Null},
                 NEW noShow \in {"nobody", "owner", "renter"}
          PROVE  [row[b] EXCEPT !.status = to, !.expires = Null, !.refund = refund,
                               !.noShow = noShow] \in Row
      BY RowsStayRows
    <3> QED
      BY <2>1, <2>2, <3>1, <3>2 DEF RowStatus
  <2>5. row' \in [Requests -> Row]
    BY <1>1, <2>3, <2>4 DEF Transition
  <2> QED
    BY <1>1, <2>5 DEF Transition
<1>2. ASSUME NEW b \in Requests, NEW refund \in 0..Amount, Settle(b, refund)
      PROVE  TypeOK'
  <2>1. row[b].refund \in (0..Amount) \cup {Null}
    BY DEF Row
  <2>2. [row[b] EXCEPT
           !.status = IF refund = Amount THEN "cancelled" ELSE "completed",
           !.refund = IF refund # 0 THEN refund ELSE row[b].refund] \in Row
    BY <2>1, RowsStayRows DEF RowStatus, Status
  <2>3. row' \in [Requests -> Row]
    BY <1>2, <2>2 DEF Settle
  <2> QED
    BY <1>2, <2>3 DEF Settle
<1>3. ASSUME NEW batch \in SUBSET Requests, Expire(batch) \/ AutoComplete(batch)
      PROVE  TypeOK'
  <2>1. PICK to \in {"expired", "completed"} : Sweep(batch, to)
    BY <1>3 DEF Expire, AutoComplete
  <2>2. row' \in [Requests -> Row]
    BY <2>1, RowsStayRows DEF Sweep, RowStatus, Status
  <2> QED
    BY <2>1, <2>2 DEF Sweep
<1> QED
  BY <1>1, <1>2, <1>3 DEF Moves

\* Handling an event writes only well-typed rows.
LEMMA TypeEvents == ASSUME TypeOK, Events PROVE TypeOK'
<1> USE DEF TypeOK, request, Receive
<1>1. ASSUME NEW b \in Requests PROVE AnswerDeadline(b) \in Nat
  BY LengthsAssumption, BodyAssumption DEF AnswerDeadline, Windowed
<1>2. ASSUME NEW b \in Requests, NEW action \in SystemAction, NEW status,
             Apply(b, action, status)
      PROVE  row' \in [Requests -> Row]
  <2>1. SYSTEM[action].to \in Status
    BY DEF SystemAction, SYSTEM, Status
  <2>2. WithResult(b, SYSTEM[action].to) \in Row
    BY <1>1, <2>1, RowsStayRows DEF WithResult, RowStatus
  <2> QED
    BY <1>2, <2>2 DEF Apply
<1>3. ASSUME NEW S, DeclinePending(S) PROVE row' \in [Requests -> Row]
  BY <1>3, RowsStayRows DEF DeclinePending, SYSTEM, RowStatus, Status
<1>4. ASSUME NEW b \in Requests, ReadAuthorised(b) \/ OnAuthorised(b) \/ OnFailed(b)
      PROVE  TypeOK'
  <2>1. CASE ReadAuthorised(b)
    <3>1. row[b].status \in RowStatus
      BY DEF Row
    <3> QED
      BY <2>1, <3>1 DEF ReadAuthorised
  <2>2. CASE OnAuthorised(b)
    <3>1. row' \in [Requests -> Row]
      BY <1>2, <2>2 DEF OnAuthorised, HeldAction, SystemAction
    <3> QED
      BY <2>2, <3>1 DEF OnAuthorised
  <2>3. CASE OnFailed(b)
    <3>1. row' \in [Requests -> Row]
      BY <1>2, <2>3 DEF OnFailed, SystemAction
    <3> QED
      BY <2>3, <3>1 DEF OnFailed
  <2> QED
    BY <1>4, <2>1, <2>2, <2>3
<1>5. ASSUME NEW l \in Listings, OnListingRemoved(l) PROVE TypeOK'
  BY <1>3, <1>5 DEF OnListingRemoved
<1>6. ASSUME NEW p \in People, OnSuspended(p) \/ OnReinstated(p) PROVE TypeOK'
  BY <1>3, <1>6 DEF OnSuspended, OnReinstated
<1> QED
  BY <1>4, <1>5, <1>6 DEF Events

\* What the other services do leaves the rows alone and keeps the types.
LEMMA TypeWorld == ASSUME TypeOK, World PROVE TypeOK'
<1> USE DEF TypeOK, request, external, Event
<1>1. ASSUME NEW b \in Requests, PayAgain(b) PROVE TypeOK'
  BY <1>1 DEF PayAgain, WithIntent
<1>2. ASSUME NEW b \in Requests, CardHeld(b) PROVE TypeOK'
  BY <1>2 DEF CardHeld, EventsOf
<1>3. ASSUME NEW b \in Requests, CaptureDeclined(b) PROVE TypeOK'
  BY <1>3 DEF CaptureDeclined, EventsOf
<1>4. ASSUME NEW pair \in MayBlock, Block(pair) PROVE TypeOK'
  BY <1>4, PeopleAssumption DEF Block
<1>5. ASSUME NEW l \in MayRemove, Remove(l) PROVE TypeOK'
  BY <1>5, PeopleAssumption DEF Remove, EventsOf
<1>6. ASSUME NEW p \in MayModerate, Suspend(p) PROVE TypeOK'
  BY <1>6, PeopleAssumption DEF Suspend, EventsOf
<1>7. ASSUME NEW p \in MayModerate, Reinstate(p) PROVE TypeOK'
  BY <1>7, PeopleAssumption DEF Reinstate, EventsOf
<1>8. CASE Tick
  BY <1>8, LengthsAssumption DEF Tick
<1> QED
  BY <1>1, <1>2, <1>3, <1>4, <1>5, <1>6, <1>7, <1>8 DEF World

\* Every step keeps the types.
LEMMA TypeStep == ASSUME TypeOK, [Next]_vars PROVE TypeOK'
<1>1. CASE UNCHANGED vars
  BY <1>1 DEF vars, TypeOK
<1>2. CASE Next
  BY <1>2, TypeCreate, TypeMoves, TypeEvents, TypeWorld DEF Next
<1> QED
  BY <1>1, <1>2

\* Every reachable state is well typed.
THEOREM TypeCorrect == Spec => []TypeOK
  BY TypeInit, TypeStep, PTL DEF Spec

---------------------------------------------------------------------------
(* What one step does to one row.  The inductive invariant relates a row to *)
(* how far the handler that will insert it has got (without FreshRow the    *)
(* insert might overwrite a row that has already lived and ended) and to    *)
(* the held card whose event is still on the queue.                         *)

Started(b) == row[b].status # "absent"

FreshRow ==
  /\ \A r \in Requests :
       pc[r] \in {"extend", "key", "limits", "match", "standing", "insert"} => ~Started(r)
  /\ \A r \in Requests : got[r] \in Requests => Started(got[r])

CardInv ==
  \A b \in Requests :
    /\ pay[b] # "none" => Started(b)
    /\ Event("authorised", b) \in inbox => pay[b] \in {"authorised", "declined"}
    /\ seen[b] # "unread" => Event("authorised", b) \in inbox

IInv ==
  /\ TypeOK /\ FreshRow /\ CardInv /\ CardHeldFirst
  /\ NoDoubleBooking /\ DeadlineWhilePending /\ AnsweredBeforeStart

\* The insert of b by its own request.
Inserts(b) ==
  /\ pc[b] = "insert"
  /\ ~WindowTaken(b) /\ ByKey(b) = {}
  /\ row' = [row EXCEPT ![b] = NewRow]
  /\ pc' = [pc EXCEPT ![b] = "pay"]

\* A held card that reaches b, whose handler read it waiting for the card.
Holds(b) ==
  /\ seen[b] = "awaiting_payment"
  /\ Event("authorised", b) \notin inbox'
  /\ ~WindowTaken(b)
  /\ row'[b].status \in {"requested", "accepted"}
  /\ IF row'[b].status = "requested"
       THEN row'[b].expires \in Nat /\ row'[b].expires <= Body[b].start
       ELSE row'[b].expires = Null
  /\ \A c \in Requests : c # b => row'[c] = row[c]

\* What was charged is not merely released, and a request past its answer-by
\* only lapses or is declined.
Charges(x) == x.status \in {"accepted", "active", "disputed"}
Overdue(x) == x.status = "requested" /\ x.expires # Null /\ x.expires <= now

\* A booking in flight moves on, to a status without a deadline.
MovesOn(x, y) ==
  /\ x.status \in OPEN
  /\ y.status \in Status \ Pending
  /\ y.status \in Worked => x.status \in Worked
  /\ y.expires = Null
  /\ Charges(x) => y.status \notin {"declined", "expired"}
  /\ Overdue(x) => y.status \in {"declined", "expired"}

\* The only steps a row can take.
RowStep(b) ==
  row'[b] = row[b] \/ MovesOn(row[b], row'[b]) \/ Inserts(b) \/ Holds(b)

\* Writing a status (and what goes with it) changes nothing else of a row.
LEMMA Written ==
  ASSUME NEW x \in Row, NEW to, NEW expires, NEW refund, NEW noShow
  PROVE  /\ [x EXCEPT !.status = to, !.expires = expires].status = to
         /\ [x EXCEPT !.status = to, !.expires = expires].expires = expires
         /\ [x EXCEPT !.status = to, !.refund = refund].status = to
         /\ [x EXCEPT !.status = to, !.refund = refund].expires = x.expires
         /\ [x EXCEPT !.status = to, !.refund = refund, !.expires = expires].status = to
         /\ [x EXCEPT !.status = to, !.refund = refund, !.expires = expires].expires = expires
         /\ [x EXCEPT !.status = to, !.expires = expires, !.refund = refund,
                      !.noShow = noShow].status = to
         /\ [x EXCEPT !.status = to, !.expires = expires, !.refund = refund,
                      !.noShow = noShow].expires = expires
  BY DEF Row

\* A request's handler only inserts its own row, or gives up a booking that
\* still waits for the card.
LEMMA CreateSteps ==
  ASSUME TypeOK, NEW r \in Requests, Create(r), NEW b \in Requests
  PROVE  RowStep(b)
<1>1. CASE Extend(r) \/ LookUpKey(r) \/ CheckLimits(r) \/ MatchOffer(r)
           \/ CheckStanding(r) \/ StartPayment(r)
  BY <1>1 DEF Extend, LookUpKey, CheckLimits, MatchOffer, CheckStanding,
              StartPayment, RowStep
<1>2. CASE Insert(r)
  BY <1>2 DEF Insert, Goto, Inserts, RowStep, TypeOK
<1>3. CASE ReleaseUnpayable(r)
  <2>1. /\ got[r] \in Requests \cup {None}
        /\ row \in [Requests -> Row]
    BY DEF TypeOK
  <2>2. CASE row' = row
    BY <2>2 DEF RowStep
  <2>3. CASE /\ row[got[r]].status = "awaiting_payment"
             /\ row' = [row EXCEPT ![got[r]] =
                          [@ EXCEPT !.status = "payment_failed", !.expires = Null]]
    BY <2>1, <2>3, Written DEF RowStep, MovesOn, OPEN, Status, Pending, Worked, Charges, Overdue
  <2> QED
    BY <1>3, <2>2, <2>3 DEF ReleaseUnpayable
<1> QED
  BY <1>1, <1>2, <1>3 DEF Create

\* A person's action, a settlement and a sweep move only bookings in flight.
LEMMA MovesSteps ==
  ASSUME TypeOK, DeadlineWhilePending, Moves, NEW b \in Requests
  PROVE  RowStep(b)
<1> row \in [Requests -> Row]
  BY DEF TypeOK
<1>1. ASSUME NEW c \in Requests, NEW action \in Action, NEW role \in Role,
             Transition(action, role, c)
      PROVE  RowStep(b)
  <2>1. /\ row[c].status \in OPEN
        /\ TRANSITIONS[action].to \in Status \ Pending
        /\ TRANSITIONS[action].to \in Worked => row[c].status \in Worked
        /\ Charges(row[c]) => TRANSITIONS[action].to \notin {"declined", "expired"}
    BY <1>1 DEF Transition, CanAct, TRANSITIONS, Action, OPEN, Status, Pending, Worked, Charges
  <2>5. ~Overdue(row[c])
    BY <1>1 DEF Transition, Lapsed, Overdue
  <2>2. CASE b = c
    <3>1. row'[b] = [row[b] EXCEPT !.status = TRANSITIONS[action].to, !.expires = Null,
                       !.refund = RefundOf(action, role, b),
                       !.noShow = IF action = "no_show" THEN Missing(role)
                                                        ELSE row[b].noShow]
      BY <1>1, <2>2 DEF Transition
    <3>2. row'[b].status = TRANSITIONS[action].to /\ row'[b].expires = Null
      BY <3>1, Written
    <3> QED
      BY <2>1, <2>2, <2>5, <3>2 DEF RowStep, MovesOn
  <2>3. CASE b # c /\ b \in Extensions(c)
    <3>1. row'[b] = row[b] \/ row'[b] = EndedExtension(b)
      BY <1>1, <2>3 DEF Transition
    <3>2. row[b].status \in OPEN
      BY <2>3 DEF Extensions, OPEN
    <3>3. /\ EndedExtension(b).status =
               IF row[b].status = "accepted" THEN "cancelled" ELSE "declined"
          /\ EndedExtension(b).expires = Null
      BY Written DEF EndedExtension
    <3>4. row[b].status \in {"awaiting_payment", "requested", "accepted"}
      BY <2>3 DEF Extensions
    <3> QED
      BY <3>1, <3>2, <3>3, <3>4 DEF RowStep, MovesOn, Status, Pending, Worked, Charges, Overdue
  <2>4. CASE b # c /\ b \notin Extensions(c)
    BY <1>1, <2>4 DEF Transition, RowStep
  <2> QED
    BY <2>2, <2>3, <2>4
<1>2. ASSUME NEW c \in Requests, NEW refund \in 0..Amount, Settle(c, refund)
      PROVE  RowStep(b)
  <2>1. row[c].expires = Null
    BY <1>2 DEF Settle, DeadlineWhilePending, Pending
  <2>2. CASE b = c
    <3>1. /\ row'[b].status \in {"cancelled", "completed"}
          /\ row'[b].expires = row[b].expires
      BY <1>2, <2>2, Written DEF Settle
    <3> QED
      BY <1>2, <2>1, <2>2, <3>1 DEF Settle, RowStep, MovesOn, OPEN, Status, Pending, Worked,
                                           Charges, Overdue
  <2>3. CASE b # c
    BY <1>2, <2>3 DEF Settle, RowStep
  <2> QED
    BY <2>2, <2>3
<1>3. ASSUME NEW batch \in SUBSET Requests, Expire(batch) \/ AutoComplete(batch)
      PROVE  RowStep(b)
  <2>1. PICK to \in {"expired", "completed"} :
          /\ Sweep(batch, to)
          /\ \A c \in batch : row[c].status \in OPEN
          /\ \A c \in batch : to = "completed" => row[c].status \in {"accepted", "active"}
          /\ \A c \in batch : to = "expired" => row[c].status \in Pending
    BY <1>3 DEF Expire, AutoComplete, Due, Finished, OPEN, Pending, Worked
  <2>2. CASE b \in batch
    <3>1. row'[b] = [row[b] EXCEPT !.status = to, !.expires = Null]
      BY <2>1, <2>2 DEF Sweep
    <3> QED
      BY <2>1, <2>2, <3>1, Written DEF RowStep, MovesOn, Status, Pending, Worked, Charges, Overdue
  <2>3. CASE b \notin batch
    BY <2>1, <2>3 DEF Sweep, RowStep
  <2> QED
    BY <2>2, <2>3
<1> QED
  BY <1>1, <1>2, <1>3 DEF Moves

\* Handling an event moves only bookings in flight, but for the held card; it
\* starts the owner's clock, which stops by the start of the window.
LEMMA EventsSteps ==
  ASSUME TypeOK, Events, NEW b \in Requests
  PROVE  RowStep(b)
<1> row \in [Requests -> Row]
  BY DEF TypeOK
<1>1. AnswerDeadline(b) \in Nat /\ AnswerDeadline(b) <= Body[b].start
  BY LengthsAssumption, BodyAssumption DEF AnswerDeadline, Windowed, TypeOK
<1>2. ASSUME NEW to PROVE
        /\ WithResult(b, to).status = to
        /\ WithResult(b, to).expires = IF to = "requested" THEN AnswerDeadline(b) ELSE Null
  BY Written DEF WithResult
<1>3. ASSUME NEW S, DeclinePending(S) PROVE RowStep(b)
  <2>1. CASE b \in S /\ Applies("listing_removed", row[b].status)
    <3>1. row'[b] = [row[b] EXCEPT !.status = "declined", !.expires = Null]
      BY <1>3, <2>1 DEF DeclinePending, SYSTEM
    <3> QED
      BY <2>1, <3>1, Written DEF RowStep, MovesOn, Applies, SYSTEM, OPEN, Status,
                                 Pending, Worked, Charges, Overdue
  <2>2. CASE ~(b \in S /\ Applies("listing_removed", row[b].status))
    BY <1>3, <2>2 DEF DeclinePending, RowStep
  <2> QED
    BY <2>1, <2>2
<1>4. ASSUME NEW c \in Requests, ReadAuthorised(c) PROVE RowStep(b)
  BY <1>4 DEF ReadAuthorised, RowStep
<1>5. ASSUME NEW c \in Requests, OnAuthorised(c) PROVE RowStep(b)
  <2>1. CASE row' = row
    BY <2>1 DEF RowStep
  <2>2. CASE b # c
    BY <1>5, <2>2 DEF OnAuthorised, Apply, RowStep
  <2>3. CASE b = c /\ row' # row
    <3> DEFINE to == SYSTEM[HeldAction(b)].to
    <3>1. /\ Applies(HeldAction(b), seen[b]) /\ ~WindowTaken(b)
          /\ row' = [row EXCEPT ![b] = WithResult(b, to)]
          /\ inbox' = inbox \ {Event("authorised", b)}
      BY <1>5, <2>3 DEF OnAuthorised, Apply, Receive
    <3>2. seen[b] = "awaiting_payment" /\ to \in {"requested", "accepted"}
      BY <3>1 DEF Applies, HeldAction, SYSTEM
    <3>3. row'[b] = WithResult(b, to) /\ \A d \in Requests : d # b => row'[d] = row[d]
      BY <3>1
    <3>4. Event("authorised", b) \notin inbox'
      BY <3>1
    <3> HIDE DEF to
    <3> QED
      BY <1>1, <1>2, <3>1, <3>2, <3>3, <3>4 DEF RowStep, Holds
  <2> QED
    BY <2>1, <2>2, <2>3
<1>6. ASSUME NEW c \in Requests, OnFailed(c) PROVE RowStep(b)
  <2>1. CASE b = c /\ Applies("payment_failed", row[c].status)
    <3>1. row'[b] = WithResult(b, "payment_failed")
      BY <1>6, <2>1 DEF OnFailed, Apply, SYSTEM
    <3> QED
      BY <1>2, <2>1, <3>1 DEF RowStep, MovesOn, Applies, SYSTEM, OPEN, Status,
                              Pending, Worked, Charges, Overdue
  <2>2. CASE b # c \/ ~Applies("payment_failed", row[c].status)
    BY <1>6, <2>2 DEF OnFailed, Apply, RowStep
  <2> QED
    BY <2>1, <2>2
<1>7. ASSUME NEW l \in Listings, OnListingRemoved(l) PROVE RowStep(b)
  BY <1>3, <1>7 DEF OnListingRemoved
<1>8. ASSUME NEW p \in People, OnSuspended(p) \/ OnReinstated(p) PROVE RowStep(b)
  BY <1>3, <1>8 DEF OnSuspended, OnReinstated, RowStep
<1> QED
  BY <1>4, <1>5, <1>6, <1>7, <1>8 DEF Events

\* Every step of the service is one of these for every row.
LEMMA Steps ==
  ASSUME TypeOK, DeadlineWhilePending, [Next]_vars, NEW b \in Requests
  PROVE  RowStep(b)
<1>1. CASE UNCHANGED vars
  BY <1>1 DEF vars, RowStep
<1>2. CASE World
  BY <1>2 DEF World, PayAgain, CardHeld, CaptureDeclined, Block, Remove, Suspend,
              Reinstate, Tick, RowStep
<1> QED
  BY <1>1, <1>2, CreateSteps, MovesSteps, EventsSteps DEF Next

---------------------------------------------------------------------------
(* The invariant, and what follows from it. *)

\* The inserted row.
LEMMA InsertedRow ==
  ASSUME TypeOK, NEW b \in Requests, Inserts(b)
  PROVE  /\ row'[b].status = "awaiting_payment"
         /\ row'[b].expires \in Nat
         /\ \A c \in Requests : c # b => row'[c] = row[c]
<1>1. row' = [row EXCEPT ![b] = NewRow] /\ row \in [Requests -> Row]
  BY DEF Inserts, TypeOK
<1>2. NewRow.status = "awaiting_payment" /\ NewRow.expires = now + PaymentTimeout
  BY DEF NewRow, NoRow
<1> QED
  BY <1>1, <1>2, LengthsAssumption DEF TypeOK

\* A row that exists never stops existing.
LEMMA StartedStays ==
  ASSUME TypeOK, DeadlineWhilePending, [Next]_vars, NEW b \in Requests, Started(b)
  PROVE  Started(b)'
<1>1. CASE Inserts(b)
  BY <1>1, InsertedRow DEF Started
<1> QED
  BY <1>1, Steps DEF RowStep, Started, MovesOn, Holds, Status

\* Only the handlers of requests move pc and got.
LEMMA RequestSteps ==
  ASSUME Moves \/ Events \/ World PROVE UNCHANGED <<pc, got>>
  BY DEF Moves, Transition, Settle, Expire, AutoComplete, Sweep, Events,
         ReadAuthorised, OnAuthorised, OnFailed, OnListingRemoved, OnSuspended,
         OnReinstated, World, PayAgain, CardHeld, CaptureDeclined, Block, Remove,
         Suspend, Reinstate, Tick, request

\* A handler past its insert never comes back before it, and what it holds in
\* memory exists.
LEMMA FreshKept ==
  ASSUME TypeOK, FreshRow, CardInv, DeadlineWhilePending, [Next]_vars PROVE FreshRow'
<1> DEFINE Before == {"extend", "key", "limits", "match", "standing", "insert"}
<1>1. ASSUME NEW b \in Requests, pc'[b] \in Before PROVE ~Started(b)'
  <2>1. pc[b] \in Before
    <3>1. CASE UNCHANGED pc
      BY <1>1, <3>1
    <3>2. ASSUME NEW r \in Requests, Create(r) PROVE pc[b] \in Before
      BY <1>1, <3>2 DEF Create, Extend, LookUpKey, CheckLimits, MatchOffer, CheckStanding,
                  Insert, StartPayment, ReleaseUnpayable, Goto, Replay, TypeOK
    <3> QED
      BY <3>1, <3>2, RequestSteps DEF Next, vars
  <2>2. ~Started(b)
    BY <2>1 DEF FreshRow
  <2>3. ~Inserts(b)
    BY <1>1 DEF Inserts, TypeOK
  <2>4. ~Holds(b)
    BY <2>2 DEF Holds, CardInv
  <2>5. row'[b] = row[b]
    BY <2>2, <2>3, <2>4, Steps DEF RowStep, MovesOn, OPEN, Started
  <2> QED
    BY <2>2, <2>5 DEF Started
<1>2. ASSUME NEW r \in Requests, got'[r] \in Requests PROVE Started(got[r])'
  <2>1. CASE got'[r] = got[r]
    BY <1>2, <2>1, StartedStays DEF FreshRow, Started
  <2>2. CASE got'[r] # got[r]
    <3>1. ASSUME NEW q \in Requests, Create(q) PROVE Started(got[r])'
      <4>1. q = r /\ (LookUpKey(r) \/ Insert(r))
        BY <2>2, <3>1 DEF Create, Extend, LookUpKey, CheckLimits, MatchOffer,
             CheckStanding, Insert, StartPayment, ReleaseUnpayable, Replay, TypeOK
      <4>2. CASE \E b \in ByKey(r) : Replay(r, b)
        <5>1. PICK b \in ByKey(r) : got'[r] = b
          BY <4>2 DEF Replay, TypeOK
        <5>2. Started(b)'
          BY <5>1, StartedStays DEF ByKey, Exists, Started
        <5> QED
          BY <5>1, <5>2 DEF Started
      <4>3. CASE Inserts(r) /\ got'[r] = r
        BY <4>3, InsertedRow DEF Started
      <4> QED
        BY <2>2, <4>1, <4>2, <4>3 DEF LookUpKey, Insert, Inserts, Goto, TypeOK
    <3> QED
      BY <2>2, <3>1, RequestSteps DEF Next, vars
  <2> QED
    BY <2>1, <2>2
<1> QED
  BY <1>1, <1>2 DEF FreshRow, Started

\* What payments has for a booking, and the event that says so: an intent is
\* made for a row that exists, and the card is held once.
LEMMA CardStep ==
  ASSUME TypeOK, FreshRow, [Next]_vars, NEW b \in Requests
  PROVE  /\ pay'[b] = "none" \/ pay[b] # "none" \/ Started(b)
         /\ pay[b] \in {"authorised", "declined"} => pay'[b] \in {"authorised", "declined"}
         /\ Event("authorised", b) \in inbox' =>
              \/ Event("authorised", b) \in inbox
              \/ pay[b] = "created" /\ pay'[b] = "authorised"
         /\ seen'[b] = seen[b] \/ seen'[b] = "unread" \/ Event("authorised", b) \in inbox'
         /\ Event("authorised", b) \in inbox =>
              Event("authorised", b) \in inbox' \/ seen'[b] = "unread"
<1> USE DEF TypeOK, request, external, Event
<1>1. CASE UNCHANGED <<pay, inbox, seen>>
  BY <1>1
<1>2. ASSUME NEW r \in Requests, Create(r), ~UNCHANGED <<pay, inbox, seen>>
      PROVE  /\ \A c \in Requests : c # got[r] => pay'[c] = pay[c]
             /\ UNCHANGED <<inbox, seen>>
             /\ pay' = WithIntent(got[r])
  BY <1>2 DEF Create, Extend, LookUpKey, CheckLimits, MatchOffer, CheckStanding,
              Insert, StartPayment, ReleaseUnpayable, WithIntent
<1>3. CASE \E r \in Requests : Create(r)
  BY <1>1, <1>2, <1>3 DEF WithIntent, FreshRow
<1>4. CASE Moves
  BY <1>1, <1>4 DEF Moves, Transition, Settle, Expire, AutoComplete, Sweep
<1>5. CASE Events
  BY <1>5 DEF Events, ReadAuthorised, OnAuthorised, OnFailed, OnListingRemoved,
              OnSuspended, OnReinstated, Receive
<1>6. CASE World
  BY <1>6 DEF World, PayAgain, WithIntent, CardHeld, CaptureDeclined, Block, Remove,
              Suspend, Reinstate, Tick, Started
<1> QED
  BY <1>1, <1>3, <1>4, <1>5, <1>6 DEF Next, vars

\* The held card and its event keep in step with the row.
LEMMA CardKept ==
  ASSUME TypeOK, FreshRow, CardInv, CardHeldFirst, DeadlineWhilePending, [Next]_vars
  PROVE  CardInv' /\ CardHeldFirst'
<1>1. ASSUME NEW b \in Requests
      PROVE  /\ pay'[b] # "none" => Started(b)'
             /\ Event("authorised", b) \in inbox' => pay'[b] \in {"authorised", "declined"}
             /\ seen'[b] # "unread" => Event("authorised", b) \in inbox'
  BY CardStep, StartedStays DEF CardInv
<1>2. ASSUME NEW b \in Requests, row'[b].status \in Worked
      PROVE  /\ pay'[b] \in {"authorised", "declined"}
             /\ Event("authorised", b) \notin inbox'
  <2>1. CASE Holds(b)
    BY <2>1, CardStep DEF Holds, CardInv
  <2>2. CASE ~Holds(b)
    <3>1. row[b].status \in Worked
      BY <1>2, <2>2, Steps, InsertedRow DEF RowStep, MovesOn, Worked
    <3> QED
      BY <3>1, CardStep DEF CardHeldFirst
  <2> QED
    BY <2>1, <2>2
<1> QED
  BY <1>1, <1>2 DEF CardInv, CardHeldFirst, Event

\* Deadlines stay on exactly what waits, and the owner's never passes the start.
LEMMA DeadlinesKept ==
  ASSUME TypeOK, DeadlineWhilePending, AnsweredBeforeStart, [Next]_vars
  PROVE  DeadlineWhilePending' /\ AnsweredBeforeStart'
<1> SUFFICES ASSUME NEW b \in Requests
             PROVE  /\ row'[b].status \in Pending <=> row'[b].expires # Null
                    /\ row'[b].status = "requested" => row'[b].expires <= Body[b].start
  BY DEF DeadlineWhilePending, AnsweredBeforeStart
<1>1. CASE row'[b] = row[b]
  BY <1>1 DEF DeadlineWhilePending, AnsweredBeforeStart
<1>2. CASE MovesOn(row[b], row'[b])
  BY <1>2 DEF MovesOn, Pending
<1>3. CASE Inserts(b)
  BY <1>3, InsertedRow DEF Pending, Null
<1>4. CASE Holds(b)
  BY <1>4 DEF Holds, Pending, Null
<1> QED
  BY <1>1, <1>2, <1>3, <1>4, Steps DEF RowStep

\* A slot is taken only when it is free, by one row per step: by an insert, or
\* by a held card, both under the exclusion constraint.
LEMMA CalendarKeptByStep ==
  ASSUME TypeOK, DeadlineWhilePending, NoDoubleBooking, [Next]_vars
  PROVE  NoDoubleBooking'
<1> SUFFICES ASSUME NEW a \in Requests, NEW b \in Requests, a # b, Overlap(Body[a], Body[b]),
                    row'[a].status \notin Unsold, row'[b].status \notin Unsold
             PROVE  FALSE
  BY DEF NoDoubleBooking
<1>1. ASSUME NEW c \in Requests, NEW d \in Requests, c # d, Overlap(Body[c], Body[d]),
             row'[c].status \notin Unsold, Inserts(d) \/ Holds(d)
      PROVE  FALSE
  <2>1. row'[c] = row[c]
    BY <1>1, InsertedRow DEF Holds
  <2>2. row[c].status \in HOLDING
    BY <1>1, <2>1 DEF TypeOK, Row, RowStatus, Status, HOLDING, Unsold
  <2>3. WindowTaken(d)
    BY <1>1, <2>2 DEF WindowTaken
  <2> QED
    BY <1>1, <2>3 DEF Inserts, Holds
<1>2. ASSUME NEW c \in Requests, row'[c].status \notin Unsold, ~Inserts(c), ~Holds(c)
      PROVE  row[c].status \notin Unsold
  BY <1>2, Steps DEF RowStep, MovesOn, OPEN, Unsold
<1>3. Overlap(Body[b], Body[a])
  BY BodyAssumption DEF Overlap
<1>4. ~Inserts(a) /\ ~Inserts(b) /\ ~Holds(a) /\ ~Holds(b)
  BY <1>1, <1>3
<1> QED
  BY <1>2, <1>4 DEF NoDoubleBooking

\* The invariant holds in every reachable state.
THEOREM Invariant == Spec => []IInv
<1>1. Init => IInv
  <2> SUFFICES ASSUME Init PROVE IInv
    OBVIOUS
  <2>1. \A b \in Requests : row[b].status = "absent" /\ row[b].expires = Null
    BY DEF Init, NoRow
  <2>2. /\ pay = [r \in Requests |-> "none"] /\ inbox = {}
        /\ seen = [r \in Requests |-> "unread"] /\ got = [r \in Requests |-> None]
    BY DEF Init
  <2>3. CardInv
    BY <2>1, <2>2 DEF CardInv
  <2>4. FreshRow /\ CardHeldFirst
    BY <2>1, <2>2, BodyAssumption DEF FreshRow, Started, CardHeldFirst, Worked
  <2> QED
    BY <2>1, <2>3, <2>4, TypeInit DEF IInv, NoDoubleBooking, Unsold,
                          DeadlineWhilePending, AnsweredBeforeStart, Pending
<1>2. ASSUME IInv, [Next]_vars PROVE IInv'
  <2>1. TypeOK'
    BY <1>2, TypeStep DEF IInv
  <2> QED
    BY <1>2, <2>1, FreshKept, CardKept, DeadlinesKept, CalendarKeptByStep DEF IInv
<1> QED
  BY <1>1, <1>2, PTL DEF Spec

\* No hour of a listing is ever sold twice, for any number of requests, any
\* windows and any settings: what the exclusion constraint and the re-check in
\* the insert's transaction are for.
THEOREM NeverDoubleBooked == Spec => []NoDoubleBooking
<1>1. IInv => NoDoubleBooking
  BY DEF IInv
<1> QED
  BY <1>1, Invariant, PTL

\* The sweep can always end a wait, and no deadline outlives it.
THEOREM DeadlinesCorrect == Spec => []DeadlinesHold
<1>1. IInv => DeadlinesHold
  BY DEF IInv, DeadlinesHold
<1> QED
  BY <1>1, Invariant, PTL

\* Nobody is asked for work before the card is held, and booking hears of a
\* held card once.
THEOREM HeldBeforeAsked == Spec => []CardHeldFirst
<1>1. IInv => CardHeldFirst
  BY DEF IInv
<1> QED
  BY <1>1, Invariant, PTL

\* No late result, sweep, listing event or replayed request ever rewrites a
\* booking that has ended, except a held card read too early; and nothing ever
\* rewrites a completed one.
THEOREM EndedIsFinal == Spec => OnlyLateHoldRevives
<1>1. ASSUME IInv, [Next]_vars
      PROVE  [\A b \in Requests :
                row[b].status \in FINAL /\ row'[b] # row[b] =>
                  /\ row[b].status # "completed"
                  /\ seen[b] = "awaiting_payment"
                  /\ row'[b].status \in {"requested", "accepted"}]_vars
  <2> SUFFICES ASSUME NEW b \in Requests, row[b].status \in FINAL, row'[b] # row[b]
               PROVE  /\ row[b].status # "completed"
                      /\ seen[b] = "awaiting_payment"
                      /\ row'[b].status \in {"requested", "accepted"}
    OBVIOUS
  <2>1. ~Inserts(b)
    BY <1>1 DEF IInv, FreshRow, Started, Inserts, FINAL
  <2>2. Holds(b)
    BY <1>1, <2>1, Steps DEF IInv, RowStep, MovesOn, OPEN, FINAL
  <2>3. Event("authorised", b) \in inbox
    BY <1>1, <2>2 DEF IInv, CardInv, Holds
  <2> QED
    BY <1>1, <2>2, <2>3 DEF IInv, CardHeldFirst, Worked, Holds
<1> QED
  BY <1>1, Invariant, PTL DEF Spec, OnlyLateHoldRevives

\* The service implements the calendar: every step of its rows takes one free
\* slot, ends some held ones, or changes nothing the calendar can see.
THEOREM KeepsCalendar == Spec => CalendarKept
<1> DEFINE Sold == [b \in Requests |-> SoldAs(row[b].status)]
<1>1. Init => Cal!Init
  BY DEF Init, Cal!Init, NoRow, SoldAs
<1>2. ASSUME IInv, IInv', [Next]_vars
      PROVE  [Cal!Next]_Sold
  <2>1. ASSUME NEW b \in Requests, Inserts(b) \/ Holds(b), Sold[b] \in {"free", "released"}
        PROVE  Cal!Take(b)
    <3>1. \A c \in Requests : Cal!Clash(b, c) => Sold[c] \in {"free", "released"}
      BY <1>2, <2>1 DEF IInv, TypeOK, Row, RowStatus, Status, Inserts, Holds, WindowTaken,
                        Overlap, HOLDING, OPEN, Cal!Clash, SoldAs
    <3>2. /\ row'[b].status \in OPEN
          /\ \A c \in Requests : c # b => row'[c] = row[c]
      BY <1>2, <2>1, InsertedRow DEF IInv, Holds, OPEN
    <3>3. SoldAs(row'[b].status) = "held"
      BY <3>2 DEF SoldAs, OPEN
    <3>4. Sold' = [Sold EXCEPT ![b] = "held"]
      BY <3>2, <3>3
    <3> QED
      BY <2>1, <3>1, <3>4 DEF Cal!Take
  <2>2. ASSUME NEW b \in Requests, Inserts(b) PROVE Sold[b] = "free"
    BY <1>2, <2>2 DEF IInv, FreshRow, Started, Inserts, SoldAs
  <2>3. ASSUME NEW b \in Requests, Holds(b), Sold[b] \notin {"free", "released"}
        PROVE  Sold' = Sold
    <3>1. Sold[b] = "held"
      BY <1>2, <2>3 DEF IInv, CardInv, CardHeldFirst, Worked, Holds, SoldAs
    <3>2. SoldAs(row'[b].status) = "held"
      BY <2>3 DEF Holds, SoldAs, OPEN
    <3> QED
      BY <2>3, <3>1, <3>2 DEF Holds
  <2>4. CASE \A b \in Requests : ~Inserts(b) /\ ~Holds(b)
    <3> DEFINE used == {b \in Requests : Sold[b] = "held" /\ Sold'[b] = "used"}
               released == {b \in Requests : Sold[b] = "held" /\ Sold'[b] = "released"}
    <3>1. \A b \in Requests :
            \/ Sold'[b] = Sold[b]
            \/ Sold[b] = "held" /\ Sold'[b] \in {"held", "used", "released"}
      BY <1>2, <2>4, Steps DEF IInv, RowStep, MovesOn, SoldAs, OPEN, Status
    <3>2. Cal!End(used, released)
      BY <3>1 DEF Cal!End
    <3> QED
      BY <3>2 DEF Cal!Next
  <2> QED
    BY <2>1, <2>2, <2>3, <2>4 DEF Cal!Next
<1> QED
  BY <1>1, <1>2, Invariant, PTL DEF Spec, CalendarKept, Cal!Spec

\* The promise itself keeps an hour from being sold twice, so whatever
\* implements it does.
THEOREM CalendarNeverClashes == Cal!Spec => []Cal!NoClash
<1> DEFINE Sold == [b \in Requests |-> SoldAs(row[b].status)]
<1>1. Cal!Init => Cal!NoClash
  BY DEF Cal!Init, Cal!NoClash
<1>2. ASSUME Cal!NoClash, [Cal!Next]_Sold PROVE Cal!NoClash'
  <2>1. ASSUME NEW b \in Requests, Cal!Take(b) PROVE Cal!NoClash'
    <3>1. \A a \in Requests : Cal!Clash(a, b) => Cal!Clash(b, a)
      BY DEF Cal!Clash
    <3>2. \A c \in Requests : c # b => Sold'[c] = Sold[c]
      BY <2>1 DEF Cal!Take
    <3>3. SUFFICES ASSUME NEW a \in Requests, NEW c \in Requests, Cal!Clash(a, c)
                   PROVE  \/ Sold'[a] \in {"free", "released"}
                          \/ Sold'[c] \in {"free", "released"}
      BY DEF Cal!NoClash
    <3>4. a # c
      BY <3>3 DEF Cal!Clash
    <3>5. CASE a = b
      BY <2>1, <3>2, <3>3, <3>4, <3>5 DEF Cal!Take
    <3>6. CASE c = b
      BY <2>1, <3>1, <3>2, <3>3, <3>4, <3>6 DEF Cal!Take
    <3>7. CASE a # b /\ c # b
      BY <1>2, <3>2, <3>3, <3>7 DEF Cal!NoClash
    <3> QED
      BY <3>5, <3>6, <3>7
  <2>2. ASSUME NEW used, NEW released, Cal!End(used, released) PROVE Cal!NoClash'
    BY <1>2, <2>2 DEF Cal!End, Cal!NoClash
  <2>3. CASE UNCHANGED Sold
    BY <1>2, <2>3 DEF Cal!NoClash
  <2> QED
    BY <1>2, <2>1, <2>2, <2>3 DEF Cal!Next
<1> QED
  BY <1>1, <1>2, PTL DEF Cal!Spec

\* A row that holds already exists: its card was held.
LEMMA HeldExists ==
  ASSUME IInv, NEW b \in Requests, Holds(b)
  PROVE  Exists(b)
BY DEF IInv, CardInv, Holds, Started, Exists

\* However the retries of one Idempotency-Key race, they make one booking at most: the insert is the
\* only step that makes a row, and it finds no other of its key.
THEOREM KeyedOnce == Spec => []OneBookingPerKey
<1>1. Init => OneBookingPerKey
  BY DEF Init, OneBookingPerKey, Exists, NoRow
<1>2. IInv /\ OneBookingPerKey /\ [Next]_vars => OneBookingPerKey'
  <2> SUFFICES ASSUME IInv, OneBookingPerKey, [Next]_vars, NEW a \in Requests, NEW b \in Requests,
                      a # b, SameKey(a, b), Exists(a)', Exists(b)'
               PROVE  FALSE
    BY DEF OneBookingPerKey, SameKey
  <2>1. TypeOK /\ DeadlineWhilePending
    BY DEF IInv
  <2>2. ASSUME NEW c \in Requests, Exists(c)', ~Inserts(c) PROVE Exists(c)
    BY <2>1, <2>2, Steps, HeldExists DEF RowStep, MovesOn, Exists, OPEN
  <2>3. ASSUME NEW c \in Requests, NEW d \in Requests, c # d, SameKey(c, d), Inserts(c), Exists(d)'
        PROVE  FALSE
    <3>1. row'[d] = row[d]
      BY <2>1, <2>3, InsertedRow
    <3>2. d \in ByKey(c)
      BY <2>3, <3>1 DEF Exists, ByKey, SameKey
    <3> QED
      BY <2>3, <3>2 DEF Inserts
  <2>4. SameKey(b, a)
    BY DEF SameKey
  <2>5. ~Inserts(a) /\ ~Inserts(b)
    BY <2>3, <2>4
  <2> QED
    BY <2>2, <2>5 DEF OneBookingPerKey
<1> QED
  BY <1>1, <1>2, Invariant, PTL DEF Spec

\* What was charged is refunded or kept, and never merely declined or let lapse.
THEOREM ChargedStands == Spec => ChargedIsNotJustReleased
<1>1. ASSUME IInv, [Next]_vars
      PROVE  [\A b \in Requests :
                row[b].status \in {"accepted", "active", "disputed"} =>
                  row'[b].status \notin {"declined", "expired"}]_vars
  <2> SUFFICES ASSUME NEW b \in Requests, row[b].status \in {"accepted", "active", "disputed"}
               PROVE  row'[b].status \notin {"declined", "expired"}
    OBVIOUS
  <2>1. ~Inserts(b)
    BY <1>1 DEF IInv, FreshRow, Started, Inserts
  <2> QED
    BY <1>1, <2>1, Steps DEF IInv, RowStep, MovesOn, Holds, Charges
<1> QED
  BY <1>1, Invariant, PTL DEF Spec, ChargedIsNotJustReleased

\* A request past its answer-by is not answered, swept or not: it lapses or the system declines it.
THEOREM NotAnsweredLate == Spec => LapsedIsNotAnswered
<1>1. ASSUME IInv, [Next]_vars
      PROVE  [\A b \in Requests : Due(b) /\ row[b].status = "requested" =>
                row'[b] = row[b] \/ row'[b].status \in {"expired", "declined"}]_vars
  <2> SUFFICES ASSUME NEW b \in Requests, Due(b), row[b].status = "requested"
               PROVE  row'[b] = row[b] \/ row'[b].status \in {"expired", "declined"}
    OBVIOUS
  <2>1. ~Inserts(b)
    BY <1>1 DEF IInv, FreshRow, Started, Inserts
  <2>2. ~Holds(b)
    BY <1>1 DEF IInv, CardInv, CardHeldFirst, Worked, Holds
  <2> QED
    BY <1>1, <2>1, <2>2, Steps DEF IInv, RowStep, MovesOn, Overdue, Due
<1> QED
  BY <1>1, Invariant, PTL DEF Spec, LapsedIsNotAnswered

---------------------------------------------------------------------------
(* What a row says of the refund.                                          *)

Says(x) ==
  /\ x.status \in (Status \ {"cancelled", "completed"}) => x.refund = Null
  /\ x.noShow # "nobody" =>
       /\ x.status = "cancelled"
       /\ x.refund = IF x.noShow = "owner" THEN Amount ELSE 0

Silent(x) == x.refund = Null /\ x.noShow = "nobody"

\* A row that says anything of a refund is one whose card was held: it has
\* ended, and the late result of a card cannot bring it back.
RefundInv ==
  \A b \in Requests :
    /\ Says(row[b])
    /\ ~Silent(row[b]) => /\ row[b].status \in {"cancelled", "completed"}
                          /\ pay[b] \in {"authorised", "declined"}
                          /\ Event("authorised", b) \notin inbox

\* A step leaves what a row says, or writes it where the card was charged.
Keeps(x, y) == y.refund = x.refund /\ y.noShow = x.noShow
Ends(x, y) ==
  /\ x.status \in Worked /\ x.status # "completed" /\ y.status \in {"cancelled", "completed"}
  /\ \/ y.noShow = x.noShow
     \/ y.status = "cancelled" /\ y.refund = IF y.noShow = "owner" THEN Amount ELSE 0

RefundStep(b) == Keeps(row[b], row'[b]) \/ Ends(row[b], row'[b])

\* Writing a status and a deadline writes nothing of the refund.
LEMMA StatusKeeps ==
  ASSUME NEW x \in Row, NEW to, NEW expires
  PROVE  Keeps(x, [x EXCEPT !.status = to, !.expires = expires])
BY DEF Row, Keeps

\* Writing a refund with the status leaves who was missing; a no-show writes that too.
LEMMA RefundWritten ==
  ASSUME NEW x \in Row, NEW to, NEW expires, NEW refund
  PROVE  /\ [x EXCEPT !.status = to, !.refund = refund].noShow = x.noShow
         /\ [x EXCEPT !.status = to, !.refund = refund, !.expires = expires].noShow = x.noShow
BY DEF Row

LEMMA NoShowWritten ==
  ASSUME NEW x \in Row, NEW to, NEW expires, NEW refund, NEW noShow
  PROVE  LET y == [x EXCEPT !.status = to, !.expires = expires, !.refund = refund, !.noShow = noShow]
         IN  y.status = to /\ y.refund = refund /\ y.noShow = noShow
BY DEF Row

\* The requests' handlers write nothing of it: a new row says nothing.
LEMMA CreateRefunds ==
  ASSUME TypeOK, FreshRow, NEW r \in Requests, Create(r), NEW b \in Requests,
         ~Started(b) => Silent(row[b])
  PROVE  RefundStep(b)
<1> row \in [Requests -> Row]
  BY DEF TypeOK
<1>1. CASE UNCHANGED row
  BY <1>1 DEF RefundStep, Keeps
<1>2. CASE ReleaseUnpayable(r) /\ row' # row
  <2>1. got[r] \in Requests \cup {None}
    BY DEF TypeOK
  <2>2. row' = [row EXCEPT ![got[r]] = [@ EXCEPT !.status = "payment_failed", !.expires = Null]]
    BY <1>2 DEF ReleaseUnpayable
  <2> QED
    BY <2>1, <2>2, StatusKeeps DEF RefundStep, Keeps
<1>3. CASE Insert(r) /\ row' # row
  <2>1. row' = [row EXCEPT ![r] = NewRow] /\ ~WindowTaken(r)
    BY <1>3 DEF Insert
  <2>2. Silent(NewRow)
    BY DEF NewRow, NoRow, Silent
  <2>3. CASE b = r
    <3>1. ~Started(b)
      BY <1>3, <2>3 DEF Insert, FreshRow
    <3> QED
      BY <2>1, <2>2, <2>3, <3>1 DEF RefundStep, Keeps, Silent
  <2>4. CASE b # r
    BY <2>1, <2>4 DEF RefundStep, Keeps
  <2> QED
    BY <2>3, <2>4
<1> QED
  BY <1>1, <1>2, <1>3 DEF Create, Extend, LookUpKey, CheckLimits, MatchOffer, CheckStanding, StartPayment

\* A person's action, a settlement and a sweep write of it only where the card was charged.
LEMMA MovesRefunds ==
  ASSUME TypeOK, Moves, NEW b \in Requests
  PROVE  RefundStep(b)
<1> row \in [Requests -> Row]
  BY DEF TypeOK
<1>1. ASSUME NEW c \in Requests, NEW action \in Action, NEW role \in Role,
             Transition(action, role, c)
      PROVE  RefundStep(b)
  <2>1. row[c].status \in TRANSITIONS[action].from /\ role \in {"requester", "owner"}
    BY <1>1 DEF Transition, CanAct, Role
  <2>2. CASE b = c
    <3>1. row'[b] = [row[b] EXCEPT !.status = TRANSITIONS[action].to, !.expires = Null,
                       !.refund = RefundOf(action, role, b),
                       !.noShow = IF action = "no_show" THEN Missing(role)
                                                        ELSE row[b].noShow]
      BY <1>1, <2>2 DEF Transition
    <3>2. /\ row'[b].status = TRANSITIONS[action].to
          /\ row'[b].refund = RefundOf(action, role, b)
          /\ row'[b].noShow = IF action = "no_show" THEN Missing(role) ELSE row[b].noShow
      <4> DEFINE to == TRANSITIONS[action].to
                 back == RefundOf(action, role, b)
                 who == IF action = "no_show" THEN Missing(role) ELSE row[b].noShow
      <4>1. row'[b] = [row[b] EXCEPT !.status = to, !.expires = Null, !.refund = back, !.noShow = who]
        BY <3>1
      <4>2. row[b] \in Row
        OBVIOUS
      <4> HIDE DEF to, back, who
      <4>3. row'[b].status = to /\ row'[b].refund = back /\ row'[b].noShow = who
        <5> DEFINE y == [row[b] EXCEPT !.status = to, !.expires = Null, !.refund = back, !.noShow = who]
        <5>1. y.status = to /\ y.refund = back /\ y.noShow = who
          BY <4>2, NoShowWritten
        <5> QED
          BY <4>1, <5>1
      <4> QED
        BY <4>3 DEF to, back, who
    <3>3. CASE action = "no_show"
      <4>1. row[b].status = "accepted" /\ row'[b].status = "cancelled"
        BY <2>1, <2>2, <3>2, <3>3 DEF TRANSITIONS
      <4>2. row'[b].refund = IF row'[b].noShow = "owner" THEN Amount ELSE 0
        BY <2>1, <3>2, <3>3 DEF RefundOf, Missing
      <4> QED
        BY <4>1, <4>2 DEF RefundStep, Ends, Worked
    <3>4. CASE action = "cancel" /\ Charged(b)
      <4>1. row[b].status \in {"accepted", "active"} /\ row'[b].status = "cancelled"
        BY <3>2, <3>4 DEF TRANSITIONS, Charged
      <4> QED
        BY <3>2, <3>4, <4>1 DEF RefundStep, Ends, Worked
    <3>5. CASE action # "no_show" /\ ~(action = "cancel" /\ Charged(b))
      BY <3>2, <3>5 DEF RefundOf, RefundStep, Keeps
    <3> QED
      BY <3>3, <3>4, <3>5
  <2>3. CASE b # c /\ b \in Extensions(c)
    <3>1. row'[b] = row[b] \/ row'[b] = EndedExtension(b)
      BY <1>1, <2>3 DEF Transition
    <3>2. CASE row[b].status = "accepted"
      <4>1. EndedExtension(b).status = "cancelled" /\ EndedExtension(b).noShow = row[b].noShow
        <5>1. EndedExtension(b) = [row[b] EXCEPT !.status = "cancelled", !.refund = Amount, !.expires = Null]
          BY <3>2 DEF EndedExtension
        <5>2. row[b] \in Row
          OBVIOUS
        <5> QED
          BY <5>1, <5>2, Written, RefundWritten
      <4> QED
        BY <3>1, <3>2, <4>1 DEF RefundStep, Ends, Keeps, Worked
    <3>3. CASE row[b].status # "accepted"
      <4>1. EndedExtension(b) = [row[b] EXCEPT !.status = "declined", !.expires = Null]
        BY <3>3 DEF EndedExtension
      <4>2. Keeps(row[b], [row[b] EXCEPT !.status = "declined", !.expires = Null])
        BY StatusKeeps
      <4>3. Keeps(row[b], EndedExtension(b))
        BY <4>1, <4>2
      <4> QED
        BY <3>1, <4>3 DEF RefundStep, Keeps
    <3> QED
      BY <3>2, <3>3
  <2>4. CASE b # c /\ b \notin Extensions(c)
    BY <1>1, <2>4 DEF Transition, RefundStep, Keeps
  <2> QED
    BY <2>2, <2>3, <2>4
<1>2. ASSUME NEW c \in Requests, NEW refund \in 0..Amount, Settle(c, refund)
      PROVE  RefundStep(b)
  <2>1. CASE b = c
    <3>1. row[b].status = "disputed"
      BY <1>2, <2>1 DEF Settle
    <3>2. row'[b].status \in {"cancelled", "completed"} /\ row'[b].noShow = row[b].noShow
      <4> DEFINE to == IF refund = Amount THEN "cancelled" ELSE "completed"
                 back == IF refund # 0 THEN refund ELSE row[b].refund
      <4>1. row'[b] = [row[b] EXCEPT !.status = to, !.refund = back]
        BY <1>2, <2>1 DEF Settle
      <4>2. to \in {"cancelled", "completed"} /\ row[b] \in Row
        OBVIOUS
      <4> HIDE DEF to, back
      <4> QED
        BY <4>1, <4>2, Written, RefundWritten
    <3> QED
      BY <3>1, <3>2 DEF RefundStep, Ends, Worked
  <2>2. CASE b # c
    BY <1>2, <2>2 DEF Settle, RefundStep, Keeps
  <2> QED
    BY <2>1, <2>2
<1>3. ASSUME NEW batch \in SUBSET Requests, NEW to, Sweep(batch, to)
      PROVE  RefundStep(b)
  <2>1. row'[b] = row[b] \/ row'[b] = [row[b] EXCEPT !.status = to, !.expires = Null]
    BY <1>3 DEF Sweep
  <2>2. Keeps(row[b], [row[b] EXCEPT !.status = to, !.expires = Null])
    BY StatusKeeps
  <2> QED
    BY <2>1, <2>2 DEF RefundStep, Keeps
<1> QED
  BY <1>1, <1>2, <1>3 DEF Moves, Expire, AutoComplete

\* Handling an event writes nothing of it.
LEMMA EventsRefunds ==
  ASSUME TypeOK, Events, NEW b \in Requests
  PROVE  RefundStep(b)
<1> row \in [Requests -> Row]
  BY DEF TypeOK
<1>1. \A to : Keeps(row[b], WithResult(b, to))
  BY StatusKeeps DEF WithResult
<1>2. ASSUME NEW S, DeclinePending(S) PROVE RefundStep(b)
  <2>1. row'[b] = row[b] \/ row'[b] = [row[b] EXCEPT !.status = SYSTEM["listing_removed"].to, !.expires = Null]
    BY <1>2 DEF DeclinePending
  <2>2. Keeps(row[b], [row[b] EXCEPT !.status = SYSTEM["listing_removed"].to, !.expires = Null])
    BY StatusKeeps
  <2> QED
    BY <2>1, <2>2 DEF RefundStep, Keeps
<1>3. ASSUME NEW c \in Requests, NEW action, NEW status, Apply(c, action, status) PROVE RefundStep(b)
  <2>1. row'[b] = row[b] \/ row'[b] = WithResult(b, SYSTEM[action].to)
    BY <1>3 DEF Apply
  <2> QED
    BY <1>1, <2>1 DEF RefundStep, Keeps
<1>4. CASE UNCHANGED row
  BY <1>4 DEF RefundStep, Keeps
<1>5. \/ UNCHANGED row \/ (\E S : DeclinePending(S))
      \/ \E c \in Requests : \E action, status : Apply(c, action, status)
  BY DEF Events, ReadAuthorised, OnAuthorised, OnFailed, OnListingRemoved, OnSuspended, OnReinstated
<1> QED
  BY <1>2, <1>3, <1>4, <1>5

\* Any step keeps what the rows say true.
LEMMA RefundKept ==
  ASSUME IInv, RefundInv, [Next]_vars
  PROVE  RefundInv'
<1> SUFFICES ASSUME NEW b \in Requests
             PROVE  /\ Says(row'[b])
                    /\ ~Silent(row'[b]) => /\ row'[b].status \in {"cancelled", "completed"}
                                           /\ pay'[b] \in {"authorised", "declined"}
                                           /\ Event("authorised", b) \notin inbox'
  BY DEF RefundInv, Event, Says, Silent
<1>1. TypeOK /\ FreshRow /\ DeadlineWhilePending
  BY DEF IInv
<1>2. Says(row[b]) /\ (~Silent(row[b]) => row[b].status \in {"cancelled", "completed"})
  BY DEF RefundInv
<1>3. RefundStep(b)
  <2>1. ~Started(b) => Silent(row[b])
    BY <1>2 DEF Started
  <2>2. CASE UNCHANGED row
    BY <2>2 DEF RefundStep, Keeps
  <2>3. CASE World
    BY <2>2, <2>3 DEF World, PayAgain, CardHeld, CaptureDeclined, Block, Remove, Suspend, Reinstate, Tick
  <2> QED
    BY <1>1, <2>1, <2>2, <2>3, CreateRefunds, MovesRefunds, EventsRefunds DEF Next, vars
<1>4. CASE Silent(row[b]) /\ Keeps(row[b], row'[b])
  BY <1>4 DEF Silent, Keeps, Says
<1>5. CASE ~Silent(row[b]) /\ Keeps(row[b], row'[b])
  <2>1. ~Inserts(b)
    BY <1>1, <1>2, <1>5 DEF Inserts, FreshRow, Started
  <2>2. ~Holds(b)
    BY <1>5 DEF RefundInv, Holds, IInv, CardInv
  <2>3. row'[b] = row[b] \/ row[b].status \in OPEN
    BY <1>1, <2>1, <2>2, Steps DEF RowStep, MovesOn
  <2>4. row'[b] = row[b]
    BY <1>2, <1>5, <2>3 DEF OPEN
  <2>5. pay'[b] \in {"authorised", "declined"} /\ Event("authorised", b) \notin inbox'
    BY <1>1, <1>5, CardStep DEF RefundInv
  <2> QED
    BY <1>2, <1>5, <2>4, <2>5
<1>6. CASE Ends(row[b], row'[b])
  <2>1. pay[b] \in {"authorised", "declined"} /\ Event("authorised", b) \notin inbox
    BY <1>6 DEF Ends, IInv, CardHeldFirst
  <2>2. pay'[b] \in {"authorised", "declined"} /\ Event("authorised", b) \notin inbox'
    BY <1>1, <2>1, CardStep
  <2>3. row[b].noShow = "nobody"
    BY <1>2, <1>6 DEF Ends, Says, Worked
  <2>4. Says(row'[b]) /\ row'[b].status \in {"cancelled", "completed"}
    BY <1>6, <2>3 DEF Ends, Says
  <2> QED
    BY <2>2, <2>4
<1> QED
  BY <1>3, <1>4, <1>5, <1>6 DEF RefundStep

LEMMA RefundAlways == Spec => []RefundInv
<1>1. Init => RefundInv
  BY DEF Init, RefundInv, Says, Silent, NoRow
<1>2. IInv /\ RefundInv /\ [Next]_vars => RefundInv'
  BY RefundKept
<1> QED
  BY <1>1, <1>2, Invariant, PTL DEF Spec

\* The refund that payments acts on is written only where the card was charged, and a no-show's goes by
\* who was missing, whoever reported it and whatever came after.
THEOREM RefundsSayCharged == Spec => []RefundSaysCharged
<1>1. RefundInv => RefundSaysCharged
  BY DEF RefundInv, Says, RefundSaysCharged
<1> QED
  BY <1>1, RefundAlways, PTL

---------------------------------------------------------------------------
(* What a cancellation takes with it.                                      *)

\* What the service does on its own cancels nothing.
LEMMA CreateCancelsNothing ==
  ASSUME TypeOK, NEW r \in Requests, Create(r), NEW b \in Requests, row'[b] # row[b]
  PROVE  row'[b].status # "cancelled"
<1> row \in [Requests -> Row] /\ got[r] \in Requests \cup {None}
  BY DEF TypeOK
<1>1. CASE Insert(r)
  <2>1. row'[b] = NewRow
    BY <1>1 DEF Insert
  <2> QED
    BY <2>1 DEF NewRow
<1>2. CASE ReleaseUnpayable(r)
  <2>1. row'[b] = [row[b] EXCEPT !.status = "payment_failed", !.expires = Null]
    BY <1>2 DEF ReleaseUnpayable
  <2> QED
    BY <2>1, Written
<1> QED
  BY <1>1, <1>2 DEF Create, Extend, LookUpKey, CheckLimits, MatchOffer, CheckStanding, StartPayment

LEMMA EventsCancelNothing ==
  ASSUME TypeOK, Events, NEW b \in Requests, row'[b] # row[b]
  PROVE  row'[b].status # "cancelled"
<1> row \in [Requests -> Row]
  BY DEF TypeOK
<1>1. ASSUME NEW S, DeclinePending(S) PROVE row'[b].status # "cancelled"
  <2>1. row'[b] = [row[b] EXCEPT !.status = "declined", !.expires = Null]
    BY <1>1 DEF DeclinePending, SYSTEM
  <2> QED
    BY <2>1, Written
<1>2. ASSUME NEW c \in Requests, NEW action \in {"authorised", "authorised_instant", "payment_failed"},
             NEW status, Apply(c, action, status)
      PROVE  row'[b].status # "cancelled"
  <2>1. row'[b] = WithResult(b, SYSTEM[action].to)
    BY <1>2 DEF Apply
  <2>2. WithResult(b, SYSTEM[action].to).status = SYSTEM[action].to
    BY Written DEF WithResult
  <2> QED
    BY <2>1, <2>2 DEF SYSTEM
<1>3. \A c \in Requests : HeldAction(c) \in {"authorised", "authorised_instant", "payment_failed"}
  BY DEF HeldAction
<1> QED
  BY <1>1, <1>2, <1>3 DEF Events, ReadAuthorised, OnAuthorised, OnFailed,
                         OnListingRemoved, OnSuspended, OnReinstated

\* A booking is cancelled by a person, with the booking it extends, or where a
\* dispute is settled.
LEMMA CancelledBy ==
  ASSUME TypeOK, [Next]_vars, NEW b \in Requests,
         row'[b].status = "cancelled", row[b].status # "cancelled"
  PROVE  \/ \E c \in Requests, action \in {"cancel", "no_show"}, role \in Role :
              Transition(action, role, c) /\ (b = c \/ b \in Extensions(c))
         \/ \E refund \in 0..Amount : Settle(b, refund)
<1> row \in [Requests -> Row]
  BY DEF TypeOK
<1>1. row'[b] # row[b]
  OBVIOUS
<1>2. ~(World \/ UNCHANGED vars)
  BY <1>1 DEF World, PayAgain, CardHeld, CaptureDeclined, Block, Remove, Suspend, Reinstate, Tick, vars
<1>3. Moves
  BY <1>1, <1>2, CreateCancelsNothing, EventsCancelNothing DEF Next
<1>4. ASSUME NEW c \in Requests, NEW action \in Action, NEW role \in Role, Transition(action, role, c)
      PROVE  action \in {"cancel", "no_show"} /\ (b = c \/ b \in Extensions(c))
  <2>1. b = c \/ (b \in Extensions(c) /\ TRANSITIONS[action].to = "cancelled")
    BY <1>1, <1>4 DEF Transition
  <2>2. CASE b = c
    <3>1. row'[b] = [row[b] EXCEPT
             !.status = TRANSITIONS[action].to, !.expires = Null, !.refund = RefundOf(action, role, b),
             !.noShow = IF action = "no_show" THEN Missing(role) ELSE row[b].noShow]
      BY <1>4, <2>2 DEF Transition
    <3>2. row'[b].status = TRANSITIONS[action].to
      BY <3>1, Written
    <3> QED
      BY <2>2, <3>2 DEF TRANSITIONS, Action
  <2>3. CASE b \in Extensions(c) /\ TRANSITIONS[action].to = "cancelled"
    BY <2>3 DEF TRANSITIONS, Action
  <2> QED
    BY <2>1, <2>2, <2>3
<1>5. ASSUME NEW batch \in SUBSET Requests, NEW to \in {"expired", "completed"}, Sweep(batch, to)
      PROVE  FALSE
  <2>1. row'[b] = [row[b] EXCEPT !.status = to, !.expires = Null]
    BY <1>1, <1>5 DEF Sweep
  <2> QED
    BY <2>1, Written
<1>6. ASSUME NEW c \in Requests, NEW refund \in 0..Amount, Settle(c, refund)
      PROVE  b = c
  BY <1>1, <1>6 DEF Settle
<1> QED
  BY <1>3, <1>4, <1>5, <1>6 DEF Moves, Expire, AutoComplete

\* What a cancellation writes on a row that was not cancelled.
LEMMA RefundOfCancelled ==
  ASSUME TypeOK, RefundInv, NEW c \in Requests, NEW action \in {"cancel", "no_show"}, NEW role \in Role,
         Transition(action, role, c), NEW b \in Requests, b = c \/ b \in Extensions(c),
         row'[b].status = "cancelled"
  PROVE  row[b].status \in {"accepted", "active", "disputed"} <=> row'[b].refund # Null
<1> row \in [Requests -> Row]
  BY DEF TypeOK
<1>1. row[c].status \in {"awaiting_payment", "requested", "accepted"}
      /\ (action = "no_show" => row[c].status = "accepted")
  BY DEF Transition, CanAct, TRANSITIONS
<1>2. CASE b = c
  <2>1. row'[b].refund = RefundOf(action, role, b)
    <3>1. row'[b] = [row[b] EXCEPT
             !.status = TRANSITIONS[action].to, !.expires = Null, !.refund = RefundOf(action, role, b),
             !.noShow = IF action = "no_show" THEN Missing(role) ELSE row[b].noShow]
      BY <1>2 DEF Transition
    <3> QED
      BY <3>1 DEF Row
  <2>2. CASE row[b].status = "accepted"
    <3>1. RefundOf(action, role, b) \in 0..Amount
      BY <2>2, HalfInRange, LengthsAssumption DEF RefundOf, PolicyRefund, Charged
    <3> QED
      BY <2>1, <2>2, <3>1 DEF Null
  <2>3. CASE row[b].status # "accepted"
    <3>1. RefundOf(action, role, b) = row[b].refund
      BY <1>1, <1>2, <2>3 DEF RefundOf, Charged
    <3>2. row[b].refund = Null
      BY <1>1, <1>2 DEF RefundInv, Says, Status
    <3> QED
      BY <1>1, <1>2, <2>1, <2>3, <3>1, <3>2
  <2> QED
    BY <2>2, <2>3
<1>3. CASE b # c
  <2>1. row'[b] = EndedExtension(b) /\ b \in Extensions(c)
    BY <1>3 DEF Transition, TRANSITIONS
  <2>2. row[b].status = "accepted"
    <3>1. [row[b] EXCEPT !.status = "declined", !.expires = Null].status = "declined"
      BY Written
    <3> QED
      BY <2>1, <3>1 DEF EndedExtension
  <2>3. row'[b].refund = Amount
    BY <2>1, <2>2 DEF EndedExtension, Row
  <2> QED
    BY <2>2, <2>3, LengthsAssumption DEF Null
<1> QED
  BY <1>2, <1>3

\* Whatever cancels a booking writes its refund where the card was charged and only there, and a
\* cancellation or a no-show of a booking leaves none of its extensions waiting or confirmed.
THEOREM EndingsSettle == Spec => EndingSettlesAll
<1>1. ASSUME IInv, RefundInv, [Next]_vars
      PROVE  [\A b \in Requests :
                row'[b].status = "cancelled" /\ row[b].status # "cancelled" =>
                  (row[b].status \in {"accepted", "active", "disputed"} <=> row'[b].refund # Null)]_vars
  <2> SUFFICES ASSUME NEW b \in Requests, row'[b].status = "cancelled", row[b].status # "cancelled"
               PROVE  row[b].status \in {"accepted", "active", "disputed"} <=> row'[b].refund # Null
    OBVIOUS
  <2>1. TypeOK /\ row \in [Requests -> Row]
    BY <1>1 DEF IInv, TypeOK
  <2>2. ASSUME NEW refund \in 0..Amount, Settle(b, refund)
        PROVE  row[b].status \in {"accepted", "active", "disputed"} <=> row'[b].refund # Null
    <3>1. row[b].status = "disputed"
      BY <2>2 DEF Settle
    <3>2. refund = Amount
      <4>1. row'[b].status = IF refund = Amount THEN "cancelled" ELSE "completed"
        BY <2>1, <2>2, Written DEF Settle
      <4> QED
        BY <4>1
    <3>3. row'[b] = [row[b] EXCEPT !.status = "cancelled", !.refund = Amount]
      <4>1. refund = Amount /\ refund # 0
        BY <3>2, LengthsAssumption
      <4>2. row' = [row EXCEPT ![b] = [row[b] EXCEPT !.status = "cancelled", !.refund = refund]]
        BY <2>2, <4>1 DEF Settle
      <4> QED
        BY <2>1, <3>2, <4>2
    <3>4. row'[b].refund = Amount
      BY <2>1, <3>3 DEF Row
    <3> QED
      BY <3>1, <3>4, LengthsAssumption DEF Null
  <2> QED
    BY <1>1, <2>1, <2>2, CancelledBy, RefundOfCancelled
<1>2. ASSUME IInv, [Next]_vars
      PROVE  [\A b \in Requests :
                Cancels(b) /\ ~(\E p \in Requests : Body[b].extends = p /\ Cancels(p))
                => \A e \in Requests : Body[e].extends = b =>
                     row'[e].status \notin {"awaiting_payment", "requested", "accepted"}]_vars
  <2> SUFFICES ASSUME NEW b \in Requests, Cancels(b),
                      ~(\E p \in Requests : Body[b].extends = p /\ Cancels(p)),
                      NEW e \in Requests, Body[e].extends = b
               PROVE  row'[e].status \notin {"awaiting_payment", "requested", "accepted"}
    OBVIOUS
  <2>1. TypeOK /\ row \in [Requests -> Row]
    BY <1>1, <1>2 DEF IInv, TypeOK
  <2>2. PICK c \in Requests, action \in {"cancel", "no_show"}, role \in Role :
          Transition(action, role, c) /\ (b = c \/ b \in Extensions(c))
    BY <1>2, <2>1, CancelledBy DEF Cancels, Settle
  <2>3. b = c
    <3>1. /\ row[c].status \in {"awaiting_payment", "requested", "accepted"}
          /\ row'[c].status = "cancelled"
      <4>1. /\ CanAct(action, row[c].status, role)
            /\ row'[c] = [row[c] EXCEPT
                 !.status = TRANSITIONS[action].to, !.expires = Null, !.refund = RefundOf(action, role, c),
                 !.noShow = IF action = "no_show" THEN Missing(role) ELSE row[c].noShow]
        BY <2>2 DEF Transition
      <4>2. row'[c].status = TRANSITIONS[action].to
        BY <2>1, <4>1, Written
      <4> QED
        BY <4>1, <4>2 DEF CanAct, TRANSITIONS
    <3> QED
      BY <2>2, <3>1 DEF Extensions, Cancels
  <2>4. CASE e = b
    BY <2>4 DEF Cancels
  <2>5. CASE e # b /\ e \in Extensions(b)
    <3>1. row'[e] = EndedExtension(e)
      BY <2>2, <2>3, <2>5 DEF Transition, TRANSITIONS
    <3>2. EndedExtension(e).status \in {"cancelled", "declined"}
      BY <2>1, Written DEF EndedExtension
    <3> QED
      BY <3>1, <3>2
  <2>6. CASE e # b /\ e \notin Extensions(b)
    <3>1. row'[e] = row[e]
      BY <2>2, <2>3, <2>6 DEF Transition
    <3> QED
      BY <2>6, <3>1 DEF Extensions
  <2> QED
    BY <2>4, <2>5, <2>6
<1>3. Spec => []RefundInv
  BY RefundAlways
<1> QED
  BY <1>1, <1>2, <1>3, Invariant, PTL DEF Spec, EndingSettlesAll, CancelEndsExtensions, ChargedCancelsRefund
=============================================================================
