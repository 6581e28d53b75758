----------------------------- MODULE Settlement -----------------------------
(***************************************************************************)
(* The money of one booking.  Three records of it have to agree: the row   *)
(* of the booking service, the row of the payments service, and Stripe.    *)
(*                                                                         *)
(* The two services talk by events, delivered at least once and in any     *)
(* order; payments and Stripe by calls and webhooks.  A handler calls      *)
(* Stripe before its transaction commits, so a process that dies in        *)
(* between leaves Stripe changed, the row as it was, and the event on the  *)
(* queue.  The Stripe calls look before they act, or carry a key, so that  *)
(* the repeat finds what the first one did.                                *)
(*                                                                         *)
(* The booking moves by the tables of Lifecycle, at any time its status    *)
(* allows (module Booking has the clock); Stripe is external.              *)
(***************************************************************************)
EXTENDS Integers, Lifecycle

CONSTANTS
  Amount,      \* what the renter pays, in minor units
  OwnerNet,    \* the owner's share of it
  MayCrash,    \* a process may die between a Stripe call and its commit
  MayPause,    \* payouts may be switched off, or the owner's account go
  MayDispute,  \* the card holder may dispute the charge
  MaxDebt      \* bound: what the owner may owe for other bookings

ASSUME AmountAssumption ==
  /\ Amount \in Nat \ {0} /\ OwnerNet \in 0..Amount /\ MaxDebt \in Nat

ASSUME SwitchAssumption == {MayCrash, MayPause, MayDispute} \subseteq BOOLEAN

VARIABLES
  status, refund,  \* booking's row: its status and refund_amount
  seen,            \* the status a running on_authorised read before it locked
  revived,         \* history: the booking came back after it had ended
  queue,           \* status changes announced and not yet handled by payments
  inbox,           \* payments' results not yet handled by booking
  asks,            \* calls of create_intent under way
  row,             \* payments' row
  debt,            \* the owner's owed chargebacks on other bookings
  payoutsOn,       \* the payouts switch
  connected,       \* the owner has a connected account
  stripe,          \* what Stripe has: the intent, and the money that moved
  webhooks         \* Stripe's events not yet handled by payments

vars == <<status, refund, seen, revived, queue, inbox, asks, row, debt,
          payoutsOn, connected, stripe, webhooks>>

booking  == <<status, refund, seen, revived>>
settings == <<payoutsOn, connected>>

Null == -1     \* no refund_amount

NoPayment == [status |-> "none", refunded |-> 0, paid |-> 0, hold |-> FALSE,
              held |-> FALSE, recovered |-> 0, owes |-> 0]

Authorisable == {"created", "authorised"}

\* Statuses of a row with a charge_id: capture has been recorded.
WithCharge == {"captured", "transferred", "refunded", "partially_refunded",
               "charged_back"}

Least(a, b) == IF a < b THEN a ELSE b

Init ==
  /\ status = "awaiting_payment" /\ refund = Null
  /\ seen = "unread" /\ revived = FALSE
  /\ queue = {} /\ inbox = {} /\ asks = {} /\ webhooks = {}
  /\ row = NoPayment /\ debt = 0
  /\ payoutsOn = TRUE /\ connected = TRUE
  /\ stripe = [intent |-> "none", refunded |-> 0, transferred |-> 0,
               reversed |-> 0, dispute |-> "none"]

---------------------------------------------------------------------------
(* Booking: every move announces itself in the same transaction. *)

Acted == RELEASE \cup {"accepted", "completed"}

\* status_event, and the outbox.  Payments' handler looks at nothing but these.
Become(to, back) ==
  /\ status' = to /\ refund' = back
  /\ revived' = (revived \/ (status \in FINAL /\ to \notin FINAL))
  /\ queue' = IF to \in Acted THEN queue \cup {[to |-> to, refund |-> back]} ELSE queue

\* Wrong on purpose: a cancellation before the hand-over records no refund.
BackOnceActive(action) ==
  IF action = "no_show" THEN {0, Amount}
  ELSE IF action = "cancel" /\ status = "active" THEN 0..Amount
  ELSE {refund}

\* What a step records as refund: of a cancellation, what the policy says.
Back(action) ==
  IF action = "no_show" THEN {0, Amount}
  ELSE IF action = "cancel" /\ status \in {"accepted", "active"} THEN 0..Amount
  ELSE {refund}

Transition(action) ==
  /\ status \in TRANSITIONS[action].from
  /\ \E back \in Back(action) : Become(TRANSITIONS[action].to, back)
  /\ UNCHANGED <<seen, inbox, asks, row, debt, settings, stripe, webhooks>>

\* A sweep, or a listing or an account taken down.
SystemMove(action) ==
  /\ Applies(action, status)
  /\ Become(SYSTEM[action].to, refund)
  /\ UNCHANGED <<seen, inbox, asks, row, debt, settings, stripe, webhooks>>

\* A dispute settled by agreement or by staff.
Settle(back) ==
  /\ status = "disputed"
  /\ Become(IF back = Amount THEN "cancelled" ELSE "completed",
            IF back # 0 THEN back ELSE refund)
  /\ UNCHANGED <<seen, inbox, asks, row, debt, settings, stripe, webhooks>>

\* The two steps of on_authorised: what the second tests is what the first read.
ReadAuthorised ==
  /\ "authorised" \in inbox /\ seen = "unread"
  /\ seen' = status
  /\ UNCHANGED <<status, refund, revived, queue, inbox, asks, row, debt,
                 settings, stripe, webhooks>>

OnAuthorised ==
  /\ seen # "unread"
  /\ seen' = "unread" /\ inbox' = inbox \ {"authorised"}
  /\ IF Applies("authorised", seen)
       THEN \E action \in {"authorised", "authorised_instant"} :
              Become(SYSTEM[action].to, refund)
       ELSE UNCHANGED <<status, refund, revived, queue>>
  /\ UNCHANGED <<asks, row, debt, settings, stripe, webhooks>>

OnFailed ==
  /\ "failed" \in inbox /\ inbox' = inbox \ {"failed"}
  /\ IF Applies("payment_failed", status)
       THEN Become(SYSTEM["payment_failed"].to, refund)
       ELSE UNCHANGED <<status, refund, revived, queue>>
  /\ UNCHANGED <<seen, asks, row, debt, settings, stripe, webhooks>>

---------------------------------------------------------------------------
(* The intent: asked for by booking while its row waits for the card. *)

Ask ==
  /\ status = "awaiting_payment" /\ row.status = "none"
  /\ asks' = asks \cup {"sent"}
  /\ UNCHANGED <<booking, queue, inbox, row, debt, settings, stripe, webhooks>>

\* Between create_intent's two transactions: Stripe has the intent, payments
\* not yet.  An owner who cannot be paid is refused.
MakeIntent ==
  /\ "sent" \in asks /\ row.status = "none"
  /\ \/ /\ connected
        /\ asks' = (asks \ {"sent"}) \cup {"made"}
        /\ stripe' = [stripe EXCEPT !.intent = IF @ = "none" THEN "open" ELSE @]
     \/ /\ ~connected
        /\ asks' = (asks \ {"sent"}) \cup {"refused"}
        /\ UNCHANGED stripe
  /\ UNCHANGED <<booking, queue, inbox, row, debt, settings, webhooks>>

StoreIntent ==
  /\ "made" \in asks /\ asks' = asks \ {"made"}
  /\ row' = IF row.status = "none" THEN [row EXCEPT !.status = "created"] ELSE row
  /\ UNCHANGED <<booking, queue, inbox, debt, settings, stripe, webhooks>>

\* Stripe or payments gave no answer: the renter may ask again.
DropAsk ==
  /\ \E ask \in {"sent", "made"} \cap asks : asks' = asks \ {ask}
  /\ UNCHANGED <<booking, queue, inbox, row, debt, settings, stripe, webhooks>>

\* A definite refusal, under the booking's lock.
ReleaseUnpayable ==
  /\ "refused" \in asks /\ asks' = asks \ {"refused"}
  /\ IF status = "awaiting_payment" THEN Become("payment_failed", refund)
                                    ELSE UNCHANGED <<status, refund, revived, queue>>
  /\ UNCHANGED <<seen, inbox, row, debt, settings, stripe, webhooks>>

---------------------------------------------------------------------------
(* What Stripe tells payments. *)

Authorised ==
  /\ row' = [row EXCEPT !.status = "authorised"]
  /\ inbox' = inbox \cup {"authorised"}

OnCapturable ==
  /\ "authorised" \in webhooks /\ webhooks' = webhooks \ {"authorised"}
  /\ IF row.status = "created" THEN Authorised ELSE UNCHANGED <<row, inbox>>
  /\ UNCHANGED <<booking, queue, asks, debt, settings, stripe>>

\* reconcile_once, for an intent that has waited long.
Reconcile ==
  /\ row.status = "created"
  /\ \/ stripe.intent = "held" /\ Authorised
     \/ /\ stripe.intent = "canceled"
        /\ row' = [row EXCEPT !.status = "cancelled"]
        /\ UNCHANGED inbox
  /\ UNCHANGED <<booking, queue, asks, debt, settings, stripe, webhooks>>

---------------------------------------------------------------------------
(* on_status_changed: one action per branch, each under the row's lock. *)

\* Wrong on purpose: the event is taken off the queue before it is handled.
EndsTakenFirst(e, after, left) ==
  /\ queue' = queue \ {e}
  /\ \/ row' = after /\ debt' = left
     \/ MayCrash /\ UNCHANGED <<row, debt>>

\* The transaction commits, or the process died after calling Stripe and the
\* event comes again.
Ends(e, after, left) ==
  \/ queue' = queue \ {e} /\ row' = after /\ debt' = left
  \/ MayCrash /\ UNCHANGED <<queue, row, debt>>

Capture(e) ==
  /\ e.to = "accepted" /\ row.status \in Authorisable
  /\ stripe.intent \in {"held", "succeeded"}
  /\ stripe' = [stripe EXCEPT !.intent = "succeeded"]
  /\ Ends(e, [row EXCEPT !.status = "captured"], debt)
  /\ UNCHANGED <<booking, inbox, asks, settings, webhooks>>

CaptureDeclined(e) ==
  /\ e.to = "accepted" /\ row.status \in Authorisable
  /\ stripe.intent # "succeeded"
  /\ stripe' = [stripe EXCEPT !.intent = "canceled"]
  /\ queue' = queue \ {e}
  /\ row' = [row EXCEPT !.status = "failed"]
  /\ inbox' = inbox \cup {"failed"}
  /\ UNCHANGED <<booking, asks, debt, settings, webhooks>>

\* Wrong on purpose: a repeated cancel fails for ever.
CancelStrict(e) ==
  /\ e.to \in RELEASE /\ row.status \in Authorisable
  /\ stripe.intent \in {"open", "held"}
  /\ stripe' = [stripe EXCEPT !.intent = "canceled"]
  /\ Ends(e, [row EXCEPT !.status = "cancelled"], debt)
  /\ UNCHANGED <<booking, inbox, asks, settings, webhooks>>

\* provider.cancel takes an intent in an unexpected state for a hold that is gone.
Cancel(e) ==
  /\ e.to \in RELEASE /\ row.status \in Authorisable
  /\ stripe' = [stripe EXCEPT !.intent = IF @ = "succeeded" THEN @ ELSE "canceled"]
  /\ Ends(e, [row EXCEPT !.status = "cancelled"], debt)
  /\ UNCHANGED <<booking, inbox, asks, settings, webhooks>>

Refunds(e) == /\ row.status = "captured"
              /\ e.to = "cancelled" \/ (e.to = "completed" /\ e.refund \notin {Null, 0})

Returned(e) == IF e.refund = Null THEN Amount ELSE Least(Amount, e.refund)

\* Wrong on purpose: the owner's share of the whole price, not of what is kept.
OwnerPartOfAll(back) == IF back = Amount THEN 0 ELSE OwnerNet

OwnerPart(back) == ((Amount - back) * OwnerNet) \div Amount

\* provider.transfer and provider.refund: the first one made is the only one.
Sent(amount) == [stripe EXCEPT !.transferred = IF @ = 0 THEN amount ELSE @]

GivenBack(amount) == [stripe EXCEPT !.refunded = IF @ = 0 THEN amount ELSE @]

RefundStatus(back) ==
  IF back = Amount THEN "refunded"
  ELSE IF back > 0 THEN "partially_refunded" ELSE "transferred"

MayPayPart == payoutsOn /\ ~row.hold /\ connected

\* The refund, and the owner's share of what is kept.
Refund(e) ==
  LET back == Returned(e)
      part == OwnerPart(back)
  IN /\ Refunds(e)
     /\ part = 0 \/ MayPayPart
     /\ stripe' = [GivenBack(back) EXCEPT
                     !.transferred = IF @ = 0 THEN part ELSE @]
     /\ Ends(e, [row EXCEPT !.status = RefundStatus(back), !.refunded = back,
                            !.paid = part], debt)
     /\ UNCHANGED <<booking, inbox, asks, settings, webhooks>>

\* The refund was made, but the share cannot be paid now (NotReady rolls the
\* row back), or the process died between the two calls.
RefundOnly(e) ==
  /\ Refunds(e)
  /\ MayCrash \/ (OwnerPart(Returned(e)) > 0 /\ ~MayPayPart)
  /\ stripe' = GivenBack(Returned(e))
  /\ UNCHANGED <<booking, queue, inbox, asks, row, debt, settings, webhooks>>

HoldPayout(e) ==
  /\ e.to = "completed" /\ row.status = "captured" /\ ~Refunds(e)
  /\ row.hold
  /\ Ends(e, [row EXCEPT !.held = TRUE], debt)
  /\ UNCHANGED <<booking, inbox, asks, settings, stripe, webhooks>>

\* pay_out: what the owner owes for other bookings is kept back first.
Deducted == Least(debt, OwnerNet)

Paid == [row EXCEPT !.status = "transferred", !.paid = OwnerNet - Deducted, !.held = FALSE]

\* Wrong on purpose: pays the owner while the bank has the money in question.
PayOutUnderDispute(e) ==
  /\ e.to = "completed" /\ row.status = "captured" /\ ~Refunds(e)
  /\ payoutsOn /\ connected
  /\ stripe' = Sent(OwnerNet - Deducted)
  /\ Ends(e, Paid, debt - Deducted)
  /\ UNCHANGED <<booking, inbox, asks, settings, webhooks>>

PayOut(e) ==
  /\ e.to = "completed" /\ row.status = "captured" /\ ~Refunds(e)
  /\ payoutsOn /\ ~row.hold /\ connected
  /\ stripe' = Sent(OwnerNet - Deducted)
  /\ Ends(e, Paid, debt - Deducted)
  /\ UNCHANGED <<booking, inbox, asks, settings, webhooks>>

\* Nothing to do: no payment, or one that ended.  A completion that overtook
\* its capture is no case of this: it waits (NotReady).
Ignore(e) ==
  /\ \/ row.status = "none"
     \/ e.to = "accepted" /\ row.status \notin Authorisable
     \/ e.to = "completed" /\ row.status \notin Authorisable \cup {"captured"}
     \/ e.to \in RELEASE /\ row.status \notin Authorisable /\ ~Refunds(e)
  /\ queue' = queue \ {e}
  /\ UNCHANGED <<booking, inbox, asks, row, debt, settings, stripe, webhooks>>

OnStatusChanged(e) ==
  \/ Capture(e) \/ CaptureDeclined(e) \/ Cancel(e) \/ Refund(e) \/ RefundOnly(e)
  \/ HoldPayout(e) \/ PayOut(e) \/ Ignore(e)

---------------------------------------------------------------------------
(* Chargebacks: Stripe sends their events in any order. *)

OnDisputeOpened ==
  /\ "opened" \in webhooks /\ webhooks' = webhooks \ {"opened"}
  /\ row' = IF row.status \in WithCharge THEN [row EXCEPT !.hold = TRUE] ELSE row
  /\ UNCHANGED <<booking, queue, inbox, asks, debt, settings, stripe>>

\* The hold ends, and the completion it kept is paid out, the switch or not.
OnDisputeWon ==
  /\ "won" \in webhooks
  /\ LET open == row.status \in WithCharge /\ row.hold
         freed == [row EXCEPT !.hold = FALSE]
     IN \/ /\ open /\ row.held /\ row.status = "captured" /\ connected
           /\ stripe' = Sent(OwnerNet - Deducted)
           /\ \/ /\ webhooks' = webhooks \ {"won"}
                 /\ row' = [Paid EXCEPT !.hold = FALSE]
                 /\ debt' = debt - Deducted
              \/ MayCrash /\ UNCHANGED <<webhooks, row, debt>>
        \/ /\ ~(open /\ row.held /\ row.status = "captured")
           /\ webhooks' = webhooks \ {"won"}
           /\ row' = IF open THEN freed ELSE row
           /\ UNCHANGED <<stripe, debt>>
  /\ UNCHANGED <<booking, queue, inbox, asks, settings>>

\* The platform has lost the money; an owner already paid gives it back, or
\* owes it.
OnDisputeLost ==
  /\ "lost" \in webhooks
  /\ LET due == IF row.paid > row.recovered THEN row.paid - row.recovered ELSE 0
         lost == [row EXCEPT !.status = "charged_back", !.held = FALSE]
     IN \/ /\ row.status \in WithCharge \ {"charged_back"}
           /\ due > 0
           /\ stripe' = [stripe EXCEPT !.reversed = due]
           /\ \/ /\ webhooks' = webhooks \ {"lost"}
                 /\ row' = [lost EXCEPT !.recovered = @ + due]
              \/ MayCrash /\ UNCHANGED <<webhooks, row>>
        \/ /\ row.status \in WithCharge \ {"charged_back"}
           /\ webhooks' = webhooks \ {"lost"}
           /\ row' = IF due > 0 THEN [lost EXCEPT !.owes = due] ELSE lost
           /\ UNCHANGED stripe
        \/ /\ row.status \notin WithCharge \ {"charged_back"}
           /\ webhooks' = webhooks \ {"lost"}
           /\ UNCHANGED <<row, stripe>>
  /\ UNCHANGED <<booking, queue, inbox, asks, debt, settings>>

---------------------------------------------------------------------------
(* The renter's card, Stripe, the bank, and the owner's other bookings. *)

\* The renter confirms the card, given the secret of the stored intent.
Confirm ==
  /\ row.status # "none" /\ stripe.intent = "open"
  /\ stripe' = [stripe EXCEPT !.intent = "held"]
  /\ webhooks' \in {webhooks, webhooks \cup {"authorised"}}   \* or it is lost
  /\ UNCHANGED <<booking, queue, inbox, asks, row, debt, settings>>

\* A hold nobody captured runs out after a week.
HoldRunsOut ==
  /\ stripe.intent = "held"
  /\ stripe' = [stripe EXCEPT !.intent = "canceled"]
  /\ UNCHANGED <<booking, queue, inbox, asks, row, debt, settings, webhooks>>

Dispute ==
  /\ MayDispute
  /\ stripe.intent = "succeeded"
  /\ \/ /\ stripe.dispute = "none"
        /\ stripe' = [stripe EXCEPT !.dispute = "open"]
        /\ webhooks' = webhooks \cup {"opened"}
     \/ /\ stripe.dispute = "open"
        /\ \E how \in {"won", "lost"} :
             /\ stripe' = [stripe EXCEPT !.dispute = how]
             /\ webhooks' = webhooks \cup {how}
  /\ UNCHANGED <<booking, queue, inbox, asks, row, debt, settings>>

Switch ==
  /\ MayPause
  /\ \/ payoutsOn' = ~payoutsOn /\ UNCHANGED connected
     \/ connected' = ~connected /\ UNCHANGED payoutsOn
  /\ UNCHANGED <<booking, queue, inbox, asks, row, debt, stripe, webhooks>>

\* The owner's other bookings: one more lost, or some of it kept back there.
OtherBookings ==
  /\ debt' \in 0..MaxDebt /\ debt' # debt
  /\ UNCHANGED <<booking, queue, inbox, asks, row, settings, stripe, webhooks>>

---------------------------------------------------------------------------
BookingMoves ==
  \/ \E action \in Action : Transition(action)
  \/ \E action \in {"expire", "auto_complete", "listing_removed"} : SystemMove(action)
  \/ \E back \in 0..Amount : Settle(back)
  \/ ReadAuthorised \/ OnAuthorised \/ OnFailed

Intents == Ask \/ MakeIntent \/ StoreIntent \/ DropAsk \/ ReleaseUnpayable

Webhooks == OnCapturable \/ OnDisputeOpened \/ OnDisputeWon \/ OnDisputeLost

World == Confirm \/ HoldRunsOut \/ Dispute \/ Switch \/ OtherBookings

Next ==
  \/ BookingMoves \/ Intents \/ Webhooks \/ Reconcile \/ World
  \/ \E e \in queue : OnStatusChanged(e)

Spec == Init /\ [][Next]_vars

\* Every queue is served (relay, consumer, redrive), a lost webhook is made good
\* (Reconcile), and nobody else has to do anything.  Nothing makes the renter
\* confirm, the bank decide, or a person move the booking.
Fairness ==
  /\ \A to \in Acted, back \in {Null} \cup 0..Amount :
       LET e == [to |-> to, refund |-> back]
       IN WF_vars(e \in queue /\ OnStatusChanged(e) /\ e \notin queue')
  /\ WF_vars(ReadAuthorised) /\ WF_vars(OnAuthorised) /\ WF_vars(OnFailed)
  /\ WF_vars(OnCapturable) /\ WF_vars(Reconcile)
  /\ WF_vars(StoreIntent \/ DropAsk)

FairSpec == Spec /\ Fairness

---------------------------------------------------------------------------
(* What is claimed of it. *)

Event == [to : Acted, refund : {Null} \cup 0..Amount]

Payment == [status : {"none", "created", "authorised", "cancelled", "failed"} \cup WithCharge,
            refunded : 0..Amount, paid : 0..OwnerNet, hold : BOOLEAN,
            held : BOOLEAN, recovered : 0..OwnerNet, owes : 0..OwnerNet]

\* Every variable keeps its type.
TypeOK ==
  /\ status \in Status /\ refund \in {Null} \cup 0..Amount
  /\ seen \in Status \cup {"unread"} /\ revived \in BOOLEAN
  /\ queue \subseteq Event
  /\ inbox \subseteq {"authorised", "failed"}
  /\ asks \subseteq {"sent", "made", "refused"}
  /\ row \in Payment
  /\ debt \in 0..MaxDebt
  /\ payoutsOn \in BOOLEAN /\ connected \in BOOLEAN
  /\ stripe \in [intent : {"none", "open", "held", "succeeded", "canceled"},
                 refunded : 0..Amount, transferred : 0..OwnerNet,
                 reversed : 0..OwnerNet, dispute : {"none", "open", "won", "lost"}]
  /\ webhooks \subseteq {"authorised", "opened", "won", "lost"}

\* What goes back to the renter and what goes to the owner is never together
\* more than what the renter paid, and only once it was paid: whichever call a
\* crash cut short, whichever event came first, and however often each came.
\* (Of a booking that did not come back after it ended: see BookingRevived.)
MoneyConserved ==
  ~revived =>
    /\ stripe.refunded + stripe.transferred <= Amount
    /\ stripe.refunded + stripe.transferred > 0 => stripe.intent = "succeeded"

\* Nobody is charged for a booking that did not go ahead: one that was declined,
\* lapsed, or withdrawn before it was accepted (ADR 0005, "nothing is charged").
ChargedWentAhead ==
  stripe.intent = "succeeded" =>
    \/ status \in {"accepted", "active", "completed", "disputed"}
    \/ status = "cancelled" /\ refund # Null

\* A refund or a transfer that Stripe made and the row does not show, its handler
\* cut short or its second call refused, is not forgotten: what ends the booking is
\* still on the queue, or the payout is kept for the bank's decision.  What comes
\* asks of Stripe what was made already (it looks before it acts, so that a second
\* amount would be recorded and not moved), and of a refund the row records what
\* moved.  (handlers.py, on_status_changed; of a booking that ended once.)
Unrecorded == row.status = "captured" /\ (stripe.refunded > 0 \/ stripe.transferred > 0)

HalfDoneIsFinished ==
  ~revived =>
    /\ Unrecorded => row.held \/ \E e \in queue : e.to \in {"completed", "cancelled"}
    /\ \A e \in queue : Refunds(e) =>
         /\ stripe.refunded \in {0, Returned(e)}
         /\ stripe.transferred \in {0, OwnerPart(Returned(e))}
    /\ row.status \in {"refunded", "partially_refunded"} =>
         row.refunded = stripe.refunded /\ row.paid = stripe.transferred

\* Once the charge is recorded and the booking's last word has been handled,
\* the renter got back what booking says and the owner got their share of the
\* rest, less what they owed; unless the bank stepped in.
SettledAsBooked ==
  LET back == IF refund = Null THEN 0 ELSE refund IN
  (/\ queue = {} /\ status \in {"completed", "cancelled"} /\ ~revived
   /\ row.status \in WithCharge \ {"charged_back"} /\ ~row.held)
  => /\ stripe.refunded = back /\ row.refunded = back
     /\ stripe.transferred \in {OwnerPart(back)} \cup
          (IF back = 0 THEN (OwnerPart(back) - MaxDebt)..OwnerPart(back) ELSE {})

\* Together: what moved at Stripe is what the booking says happened.
MoneyFollowsBooking == ChargedWentAhead /\ SettledAsBooked

\* While the card holder disputes the charge the owner is not paid (tables.py,
\* chargeback_at).
NoPayoutUnderDispute ==
  [][stripe'.transferred # stripe.transferred =>
       ~row.hold \/ "won" \in webhooks]_vars

\* What was announced is handled in the end: nothing a booking says is stuck
\* behind a call that was made before, a hold that is gone or an event that
\* came first, once payouts are on, the owner has an account and the bank leaves
\* the charge alone.
EveryEventHandled ==
  <>[](payoutsOn /\ connected /\ stripe.dispute = "none") =>
    <>[](queue = {})

---------------------------------------------------------------------------
(* What the repository's documents say, and the code does not quite do. *)

\* Everything said was heard, of a booking that ended at most once.
AtRest == ~revived /\ queue = {} /\ inbox = {} /\ asks = {} /\ webhooks = {}

\* repository.money_of: the money of a booking, the way payments moves it: a
\* cancelled booking that recorded a refund was charged.
CancelledWasCharged ==
  AtRest /\ status = "cancelled" /\ refund \in 0..(Amount - 1) =>
    stripe.intent = "succeeded"

\* FLOWS.md, capture declined after accept: the booking is off.
DeclinedIsOff == AtRest /\ row.status = "failed" => status \in RELEASE

\* resilience.md F17: out-of-order webhooks are harmless, so a dispute that
\* was won holds nothing back.
WonDisputeHoldsNothing ==
  AtRest /\ stripe.dispute = "won" => ~row.hold

\* The terms (routes.py, R2-20): what the owner owes is taken from the next
\* payout.
DebtTakenFirst ==
  [][stripe'.transferred # stripe.transferred => debt' = 0]_vars

=============================================================================
