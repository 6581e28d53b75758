-------------------------- MODULE SettlementProofs --------------------------
(***************************************************************************)
(* Proofs about Settlement and Statement, for every price, share and debt. *)
(* The money invariant says that an ending on the queue is the booking's   *)
(* last word: what a handler refunds and pays out is then one amount and   *)
(* its share, however many times and in whatever order the handlers run.   *)
(* The second invariant adds what is still on its way: a card is charged   *)
(* only of a booking that went ahead, and the event that settles an ending *)
(* is on the queue until the row says it is settled.                       *)
(***************************************************************************)
EXTENDS Statement, TLAPS

\* A product grows with its factors.
LEMMA ProductGrows ==
  ASSUME NEW a \in Nat, NEW b \in Nat, NEW c \in Nat, a <= b
  PROVE  a * c \in Nat /\ a * c <= b * c
<1>1. PICK d \in Nat : b = a + d
  <2>1. b - a \in Nat /\ b = a + (b - a)
    OBVIOUS
  <2> QED
    BY <2>1
<1>2. (a + d) * c = a * c + d * c
  OBVIOUS
<1>3. a * c \in Nat /\ d * c \in Nat
  OBVIOUS
<1> QED
  BY <1>1, <1>2, <1>3

\* What divides a multiple of the divisor, rounded down, is bounded by it.
LEMMA QuotientBound ==
  ASSUME NEW n \in Nat, NEW k \in Nat, NEW d \in Nat \ {0}, n <= k * d
  PROVE  n \div d \in 0..k
<1> DEFINE q == n \div d
<1>1. q \in Nat /\ q * d <= n
  BY SMTT(30)
<1>2. SUFFICES ASSUME q > k PROVE FALSE
  BY <1>1
<1>3. k + 1 <= q /\ k + 1 \in Nat
  BY <1>1, <1>2
<1>4. (k + 1) * d <= q * d
  BY <1>1, <1>3, ProductGrows
<1>5. (k + 1) * d = k * d + d /\ k * d \in Nat
  OBVIOUS
<1> QED
  <2>1. q * d \in Nat
    BY <1>1
  <2> HIDE DEF q
  <2> QED BY <1>1, <1>4, <1>5, <2>1

\* The owner's share of what is kept is no more than what is kept, and no more
\* than their share of the whole (on_status_changed, owner_part).
LEMMA OwnerPartBounds ==
  ASSUME NEW back \in 0..Amount
  PROVE  OwnerPart(back) \in 0..(Amount - back) /\ OwnerPart(back) \in 0..OwnerNet
<1> DEFINE kept == Amount - back
<1>1. kept \in Nat /\ Amount \in Nat \ {0} /\ OwnerNet \in Nat
      /\ OwnerNet <= Amount /\ kept <= Amount
  BY AmountAssumption
<1> HIDE DEF kept
<1>2. kept * OwnerNet \in Nat
  BY <1>1
<1>3. kept * OwnerNet <= kept * Amount
  <2>1. OwnerNet * kept <= Amount * kept
    BY <1>1, ProductGrows
  <2> QED
    BY <1>1, <2>1
<1>4. kept * OwnerNet <= OwnerNet * Amount
  <2>1. kept * OwnerNet <= Amount * OwnerNet
    BY <1>1, ProductGrows
  <2> QED
    BY <1>1, <2>1
<1>5. (kept * OwnerNet) \div Amount \in 0..kept /\ (kept * OwnerNet) \div Amount \in 0..OwnerNet
  BY <1>1, <1>2, <1>3, <1>4, QuotientBound
<1> QED
  BY <1>5 DEF OwnerPart, kept

\* Of a price nothing of which goes back, the share is owner_net exactly.
LEMMA WholeShare == OwnerPart(0) = OwnerNet
<1>1. Amount \in Nat \ {0} /\ OwnerNet \in Nat
  BY AmountAssumption
<1>2. (Amount * OwnerNet) \div Amount = OwnerNet
  BY <1>1, SMTT(30)
<1> QED
  BY <1>1, <1>2 DEF OwnerPart

\* The types hold before anything was asked, announced or paid.
LEMMA TypeInit == Init => TypeOK
<1> SUFFICES ASSUME Init PROVE TypeOK
  OBVIOUS
<1>1. Amount \in Nat /\ OwnerNet \in Nat /\ 0 \in 0..Amount /\ 0 \in 0..OwnerNet /\ 0 \in 0..MaxDebt
  BY AmountAssumption
<1>2. row \in Payment
  BY <1>1 DEF Init, NoPayment, Payment
<1>3. stripe \in [intent : {"none", "open", "held", "succeeded", "canceled"},
                 refunded : 0..Amount, transferred : 0..OwnerNet,
                 reversed : 0..OwnerNet, dispute : {"none", "open", "won", "lost"}]
  BY <1>1 DEF Init
<1> QED
  BY <1>1, <1>2, <1>3 DEF Init, TypeOK, Status

\* Booking's moves keep the types: every status comes from the tables, every
\* refund from the price.
LEMMA TypeBooking == ASSUME TypeOK, BookingMoves PROVE TypeOK'
<1> USE AmountAssumption
<1> USE DEF TypeOK, settings
<1>1. ASSUME NEW to \in Status, NEW back \in {Null} \cup 0..Amount, Become(to, back)
      PROVE  /\ status' \in Status /\ refund' \in {Null} \cup 0..Amount
             /\ revived' \in BOOLEAN /\ queue' \subseteq Event
  BY <1>1 DEF Become, Event
<1>2. \A action \in Action : TRANSITIONS[action].to \in Status
  BY DEF TRANSITIONS, Action, Status
<1>3. \A action \in SystemAction : SYSTEM[action].to \in Status
  BY DEF SYSTEM, SystemAction, Status
<1>4. ASSUME NEW action \in Action, Transition(action) PROVE TypeOK'
  <2>1. PICK back \in Back(action) : Become(TRANSITIONS[action].to, back)
    BY <1>4 DEF Transition
  <2>2. back \in {Null} \cup 0..Amount
    BY DEF Back
  <2> QED
    BY <1>1, <1>2, <1>4, <2>1, <2>2 DEF Transition
<1>5. ASSUME NEW action \in {"expire", "auto_complete", "listing_removed"}, SystemMove(action)
      PROVE  TypeOK'
  BY <1>1, <1>3, <1>5 DEF SystemMove, SystemAction
<1>6. ASSUME NEW back \in 0..Amount, Settle(back) PROVE TypeOK'
  <2>1. (IF back = Amount THEN "cancelled" ELSE "completed") \in Status
    BY DEF Status
  <2>2. (IF back # 0 THEN back ELSE refund) \in {Null} \cup 0..Amount
    OBVIOUS
  <2> QED
    BY <1>1, <1>6, <2>1, <2>2 DEF Settle
<1>7. CASE ReadAuthorised
  BY <1>7 DEF ReadAuthorised
<1>8. CASE OnAuthorised
  <2>1. /\ status' \in Status /\ refund' \in {Null} \cup 0..Amount
        /\ revived' \in BOOLEAN /\ queue' \subseteq Event
    BY <1>1, <1>3, <1>8 DEF OnAuthorised, SystemAction
  <2> QED
    BY <1>8, <2>1 DEF OnAuthorised
<1>9. CASE OnFailed
  <2>1. /\ status' \in Status /\ refund' \in {Null} \cup 0..Amount
        /\ revived' \in BOOLEAN /\ queue' \subseteq Event
    BY <1>1, <1>3, <1>9 DEF OnFailed, SystemAction
  <2> QED
    BY <1>9, <2>1 DEF OnFailed
<1> QED
  BY <1>4, <1>5, <1>6, <1>7, <1>8, <1>9 DEF BookingMoves

\* Asking for the intent keeps the types.
LEMMA TypeIntents == ASSUME TypeOK, Intents PROVE TypeOK'
<1> USE DEF TypeOK, settings, booking
<1>1. CASE Ask
  BY <1>1 DEF Ask
<1>2. CASE MakeIntent
  BY <1>2 DEF MakeIntent
<1>3. CASE StoreIntent
  BY <1>3 DEF StoreIntent, Payment
<1>4. CASE DropAsk
  BY <1>4 DEF DropAsk
<1>5. CASE ReleaseUnpayable
  <2>1. /\ status' \in Status /\ refund' \in {Null} \cup 0..Amount
        /\ revived' \in BOOLEAN /\ queue' \subseteq Event
    <3>1. CASE status = "awaiting_payment"
      <4>1. Become("payment_failed", refund)
        BY <1>5, <3>1 DEF ReleaseUnpayable
      <4>2. [to |-> "payment_failed", refund |-> refund] \in Event
        BY DEF Event, Acted, RELEASE
      <4> QED
        BY <4>1, <4>2 DEF Become, Status
    <3>2. CASE status # "awaiting_payment"
      BY <1>5, <3>2 DEF ReleaseUnpayable
    <3> QED
      BY <3>1, <3>2
  <2> QED
    BY <1>5, <2>1 DEF ReleaseUnpayable
<1> QED
  BY <1>1, <1>2, <1>3, <1>4, <1>5 DEF Intents

\* So do the amounts a handler computes: nothing it keeps back or sends is more
\* than the owner's share.
LEMMA AmountsTyped ==
  ASSUME TypeOK
  PROVE  /\ Deducted \in 0..OwnerNet /\ OwnerNet - Deducted \in 0..OwnerNet
         /\ debt - Deducted \in 0..MaxDebt
         /\ Paid \in Payment
         /\ \A e \in queue : Returned(e) \in 0..Amount
<1>1. /\ Deducted \in 0..OwnerNet /\ OwnerNet - Deducted \in 0..OwnerNet
      /\ debt - Deducted \in 0..MaxDebt
  BY AmountAssumption DEF TypeOK, Deducted, Least
<1>2. Paid \in Payment
  BY <1>1 DEF TypeOK, Paid, Payment, WithCharge
<1>3. \A e \in queue : Returned(e) \in 0..Amount
  BY AmountAssumption DEF TypeOK, Returned, Event, Least
<1> QED
  BY <1>1, <1>2, <1>3

\* Sending and giving back keep Stripe's record typed.
LEMMA StripeTyped ==
  ASSUME TypeOK, NEW amount \in 0..OwnerNet, NEW back \in 0..Amount
  PROVE  /\ (stripe' = Sent(amount) \/ stripe' = GivenBack(back)
             \/ stripe' = [GivenBack(back) EXCEPT !.transferred = IF @ = 0 THEN amount ELSE @])
            => stripe' \in [intent : {"none", "open", "held", "succeeded", "canceled"},
                            refunded : 0..Amount, transferred : 0..OwnerNet,
                            reversed : 0..OwnerNet,
                            dispute : {"none", "open", "won", "lost"}]
  BY DEF TypeOK, Sent, GivenBack

\* Every branch of on_status_changed keeps the types.
LEMMA TypeStatusChanged ==
  ASSUME TypeOK, NEW e \in queue, OnStatusChanged(e) PROVE TypeOK'
<1> USE DEF TypeOK, settings, booking
<1>1. CASE Capture(e)
  BY <1>1 DEF Capture, Ends, Payment, WithCharge
<1>2. CASE CaptureDeclined(e)
  BY <1>2 DEF CaptureDeclined, Payment
<1>3. CASE Cancel(e)
  BY <1>3 DEF Cancel, Ends, Payment
<1>4. CASE Refund(e)
  <2> DEFINE back == Returned(e)
             part == OwnerPart(back)
  <2>1. back \in 0..Amount /\ part \in 0..OwnerNet
    BY AmountsTyped, OwnerPartBounds
  <2> HIDE DEF back, part
  <2>2. stripe' = [GivenBack(back) EXCEPT !.transferred = IF @ = 0 THEN part ELSE @]
        /\ Ends(e, [row EXCEPT !.status = RefundStatus(back), !.refunded = back,
                               !.paid = part], debt)
    BY <1>4 DEF Refund, back, part
  <2>3. [row EXCEPT !.status = RefundStatus(back), !.refunded = back, !.paid = part] \in Payment
    BY <2>1 DEF Payment, RefundStatus, WithCharge
  <2>4. row' \in Payment /\ queue' \subseteq Event /\ debt' \in 0..MaxDebt
    BY <2>2, <2>3 DEF Ends
  <2> QED
    BY <1>4, <2>1, <2>2, <2>4, StripeTyped DEF Refund
<1>5. CASE RefundOnly(e)
  <2>1. Returned(e) \in 0..Amount /\ 0 \in 0..OwnerNet
    BY AmountsTyped, AmountAssumption
  <2>2. stripe' = GivenBack(Returned(e))
    BY <1>5 DEF RefundOnly
  <2>3. stripe' \in [intent : {"none", "open", "held", "succeeded", "canceled"},
                    refunded : 0..Amount, transferred : 0..OwnerNet,
                    reversed : 0..OwnerNet, dispute : {"none", "open", "won", "lost"}]
    BY <2>1, <2>2, StripeTyped
  <2> QED
    BY <1>5, <2>3 DEF RefundOnly
<1>6. CASE HoldPayout(e)
  <2>1. [row EXCEPT !.held = TRUE] \in Payment
    BY DEF Payment
  <2>2. row' \in Payment /\ queue' \subseteq queue /\ debt' = debt
    BY <1>6, <2>1 DEF HoldPayout, Ends
  <2> QED
    BY <1>6, <2>2 DEF HoldPayout
<1>7. CASE PayOut(e)
  <2>1. stripe' = Sent(OwnerNet - Deducted) /\ Ends(e, Paid, debt - Deducted)
    BY <1>7 DEF PayOut
  <2>2. row' \in Payment /\ queue' \subseteq Event /\ debt' \in 0..MaxDebt
    BY <2>1, AmountsTyped DEF Ends
  <2>3. OwnerNet - Deducted \in 0..OwnerNet /\ 0 \in 0..Amount
    BY AmountsTyped, AmountAssumption
  <2> QED
    BY <1>7, <2>1, <2>2, <2>3, StripeTyped DEF PayOut
<1>8. CASE Ignore(e)
  BY <1>8 DEF Ignore
<1> QED
  BY <1>1, <1>2, <1>3, <1>4, <1>5, <1>6, <1>7, <1>8 DEF OnStatusChanged

\* And what comes from Stripe, and from outside.
LEMMA TypeRest == ASSUME TypeOK, Webhooks \/ Reconcile \/ World PROVE TypeOK'
<1> USE DEF TypeOK, settings, booking
<1>1. CASE OnCapturable
  BY <1>1 DEF OnCapturable, Authorised, Payment
<1>2. CASE OnDisputeOpened
  BY <1>2 DEF OnDisputeOpened, Payment
<1>3. CASE OnDisputeWon
  <2>1. [Paid EXCEPT !.hold = FALSE] \in Payment /\ [row EXCEPT !.hold = FALSE] \in Payment
    BY AmountsTyped DEF Payment
  <2>2. row' \in Payment /\ debt' \in 0..MaxDebt /\ webhooks' \subseteq webhooks
    BY <1>3, <2>1, AmountsTyped DEF OnDisputeWon
  <2>3. stripe' = Sent(OwnerNet - Deducted) \/ stripe' = stripe
    BY <1>3 DEF OnDisputeWon
  <2>4. OwnerNet - Deducted \in 0..OwnerNet /\ 0 \in 0..Amount
    BY AmountsTyped, AmountAssumption
  <2> QED
    BY <1>3, <2>2, <2>3, <2>4, StripeTyped DEF OnDisputeWon
<1>4. CASE OnDisputeLost
  <2> DEFINE due == IF row.paid > row.recovered THEN row.paid - row.recovered ELSE 0
             lost == [row EXCEPT !.status = "charged_back", !.held = FALSE]
  <2>1. due \in 0..OwnerNet /\ (due > 0 => row.recovered + due \in 0..OwnerNet)
    BY AmountAssumption DEF Payment
  <2>2. lost \in Payment
    BY DEF Payment, WithCharge
  <2> HIDE DEF due
  <2>3. [lost EXCEPT !.owes = due] \in Payment
        /\ (due > 0 => [lost EXCEPT !.recovered = @ + due] \in Payment)
    BY <2>1, <2>2 DEF Payment
  <2>4. row' \in {row, lost, [lost EXCEPT !.owes = due]}
        \/ (due > 0 /\ row' = [lost EXCEPT !.recovered = @ + due])
    BY <1>4 DEF OnDisputeLost, due
  <2>5. stripe' \in {stripe, [stripe EXCEPT !.reversed = due]}
    BY <1>4 DEF OnDisputeLost, due
  <2>6. row' \in Payment
    BY <2>2, <2>3, <2>4
  <2>7. webhooks' \subseteq webhooks
    BY <1>4 DEF OnDisputeLost
  <2> HIDE DEF lost
  <2> QED
    BY <1>4, <2>1, <2>5, <2>6, <2>7 DEF OnDisputeLost
<1>5. CASE Reconcile
  BY <1>5 DEF Reconcile, Authorised, Payment
<1>6. CASE Confirm
  BY <1>6 DEF Confirm
<1>7. CASE HoldRunsOut
  BY <1>7 DEF HoldRunsOut
<1>8. CASE Dispute
  BY <1>8 DEF Dispute
<1>9. CASE Switch
  BY <1>9 DEF Switch
<1>10. CASE OtherBookings
  BY <1>10 DEF OtherBookings
<1> QED
  BY <1>1, <1>2, <1>3, <1>4, <1>5, <1>6, <1>7, <1>8, <1>9, <1>10 DEF Webhooks, World

\* So every step keeps the types.
LEMMA TypeStep == ASSUME TypeOK, [Next]_vars PROVE TypeOK'
<1>1. CASE UNCHANGED vars
  BY <1>1 DEF TypeOK, vars
<1> QED
  BY <1>1, TypeBooking, TypeIntents, TypeStatusChanged, TypeRest DEF Next

\* Every variable of the settlement keeps its type.
THEOREM SettlementTyped == Spec => []TypeOK
<1>1. Init => TypeOK
  BY TypeInit
<1>2. TypeOK /\ [Next]_vars => TypeOK'
  BY TypeStep
<1> QED
  BY <1>1, <1>2, PTL DEF Spec

---------------------------------------------------------------------------
\* What goes back to the renter of a booking that ended.
Owed == IF refund = Null THEN (IF status = "cancelled" THEN Amount ELSE 0) ELSE refund

\* Payments has recorded a charge, or moved money, only of a captured intent.
ChargeKnown ==
  /\ row.status \in WithCharge => stripe.intent = "succeeded"
  /\ stripe.refunded > 0 \/ stripe.transferred > 0 => stripe.intent = "succeeded"

\* Every ending still on the queue is the booking's last word, with its refund.
LastWord == \A e \in queue : e.to \in FINAL => e.to = status /\ e.refund = refund

\* A payout the bank holds back is that of a booking completed without refund.
HeldWord == row.held => status = "completed" /\ refund \in {Null, 0}

\* What moved is no more than what the last word says.
MovedWord ==
  stripe.refunded > 0 \/ stripe.transferred > 0 =>
    /\ status \in {"completed", "cancelled"}
    /\ stripe.refunded <= Owed /\ stripe.transferred <= OwnerPart(Owed)

MoneyInv ==
  /\ TypeOK /\ ChargeKnown
  /\ ~revived => LastWord /\ HeldWord /\ MovedWord

\* What goes back is an amount of the price.
LEMMA OwedTyped == ASSUME TypeOK PROVE Owed \in 0..Amount
  BY AmountAssumption DEF TypeOK, Owed

\* A booking's move out of a status that is not an ending leaves nothing of an
\* earlier ending behind; a move out of an ending is a revival.
LEMMA BecomeKeeps ==
  ASSUME MoneyInv, NEW to, NEW back, Become(to, back), UNCHANGED <<row, stripe>>,
         status \notin FINAL \/ to \notin FINAL
  PROVE  ChargeKnown' /\ (~revived' => LastWord' /\ HeldWord' /\ MovedWord')
<1>1. ChargeKnown'
  BY DEF MoneyInv, ChargeKnown
<1>2. SUFFICES ASSUME ~revived' PROVE LastWord' /\ HeldWord' /\ MovedWord'
  BY <1>1
<1>3. ~revived /\ status \notin FINAL /\ status' = to /\ refund' = back
  BY <1>2 DEF Become
<1>4. LastWord /\ HeldWord /\ MovedWord
  BY <1>3 DEF MoneyInv
<1>5. ~row.held /\ ~(stripe.refunded > 0 \/ stripe.transferred > 0)
  BY <1>3, <1>4 DEF HeldWord, MovedWord, FINAL
<1>6. HeldWord' /\ MovedWord'
  BY <1>5 DEF HeldWord, MovedWord
<1>7. \A e \in queue : e.to \notin FINAL
  BY <1>3, <1>4 DEF LastWord
<1>8. \A e \in queue' : e \in queue \/ e = [to |-> to, refund |-> back]
  BY DEF Become
<1>9. LastWord'
  BY <1>3, <1>7, <1>8 DEF LastWord
<1> QED
  BY <1>6, <1>9

\* Booking's moves: none of its tables leaves an ending, and a card that was
\* held brings a booking to a status that is none.
LEMMA MoneyBooking ==
  ASSUME MoneyInv, BookingMoves \/ ReleaseUnpayable
  PROVE  ChargeKnown' /\ (~revived' => LastWord' /\ HeldWord' /\ MovedWord')
<1>1. ASSUME NEW action \in Action, Transition(action)
      PROVE  ChargeKnown' /\ (~revived' => LastWord' /\ HeldWord' /\ MovedWord')
  <2>1. \E back : Become(TRANSITIONS[action].to, back)
    BY <1>1 DEF Transition
  <2>2. status \notin FINAL
    BY <1>1 DEF Transition, TRANSITIONS, Action, FINAL
  <2> QED
    BY <1>1, <2>1, <2>2, BecomeKeeps DEF Transition
<1>2. ASSUME NEW action \in {"expire", "auto_complete", "listing_removed"}, SystemMove(action)
      PROVE  ChargeKnown' /\ (~revived' => LastWord' /\ HeldWord' /\ MovedWord')
  <2>1. status \notin FINAL
    BY <1>2 DEF SystemMove, Applies, SYSTEM, FINAL
  <2> QED
    BY <1>2, <2>1, BecomeKeeps DEF SystemMove
<1>3. ASSUME NEW back \in 0..Amount, Settle(back)
      PROVE  ChargeKnown' /\ (~revived' => LastWord' /\ HeldWord' /\ MovedWord')
  <2>1. status \notin FINAL
    BY <1>3 DEF Settle, FINAL
  <2> QED
    BY <1>3, <2>1, BecomeKeeps DEF Settle
<1>4. ASSUME UNCHANGED <<status, refund, revived, queue, row, stripe>>
      PROVE  ChargeKnown' /\ (~revived' => LastWord' /\ HeldWord' /\ MovedWord')
  BY <1>4 DEF MoneyInv, ChargeKnown, LastWord, HeldWord, MovedWord, Owed
<1>5. CASE ReadAuthorised
  BY <1>4, <1>5 DEF ReadAuthorised
<1>6. CASE OnAuthorised
  <2>1. CASE Applies("authorised", seen)
    <3>1. PICK action \in {"authorised", "authorised_instant"} : Become(SYSTEM[action].to, refund)
      BY <1>6, <2>1 DEF OnAuthorised
    <3>2. SYSTEM[action].to \notin FINAL
      BY DEF SYSTEM, FINAL
    <3> QED
      BY <1>6, <3>1, <3>2, BecomeKeeps DEF OnAuthorised
  <2>2. CASE ~Applies("authorised", seen)
    BY <1>4, <1>6, <2>2 DEF OnAuthorised
  <2> QED
    BY <2>1, <2>2
<1>7. CASE OnFailed
  <2>1. CASE Applies("payment_failed", status)
    <3>1. status \notin FINAL
      BY <2>1 DEF Applies, SYSTEM, FINAL
    <3> QED
      BY <1>7, <2>1, <3>1, BecomeKeeps DEF OnFailed
  <2>2. CASE ~Applies("payment_failed", status)
    BY <1>4, <1>7, <2>2 DEF OnFailed
  <2> QED
    BY <2>1, <2>2
<1>8. CASE ReleaseUnpayable
  <2>1. CASE status = "awaiting_payment"
    <3>1. status \notin FINAL
      BY <2>1 DEF FINAL
    <3> QED
      BY <1>8, <2>1, <3>1, BecomeKeeps DEF ReleaseUnpayable
  <2>2. CASE status # "awaiting_payment"
    BY <1>4, <1>8, <2>2 DEF ReleaseUnpayable
  <2> QED
    BY <2>1, <2>2
<1> QED
  BY <1>1, <1>2, <1>3, <1>5, <1>6, <1>7, <1>8 DEF BookingMoves

\* Steps that move no money and hold nothing back.
LEMMA MoneyStill ==
  ASSUME MoneyInv, UNCHANGED <<status, refund, revived>>, queue' \subseteq queue,
         row'.held => row.held, ChargeKnown',
         stripe'.refunded = stripe.refunded, stripe'.transferred = stripe.transferred
  PROVE  ChargeKnown' /\ (~revived' => LastWord' /\ HeldWord' /\ MovedWord')
<1>1. Owed' = Owed /\ OwnerPart(Owed)' = OwnerPart(Owed)
  BY DEF Owed, OwnerPart
<1> QED
  BY <1>1 DEF MoneyInv, LastWord, HeldWord, MovedWord

\* The intent, the webhooks and the world move no money of the booking.
LEMMA MoneyOther ==
  ASSUME MoneyInv, (Intents /\ ~ReleaseUnpayable) \/ OnCapturable \/ OnDisputeOpened
                   \/ OnDisputeLost \/ Reconcile \/ World
  PROVE  ChargeKnown' /\ (~revived' => LastWord' /\ HeldWord' /\ MovedWord')
<1> USE DEF booking, MoneyInv
<1>0. row \in Payment /\ TypeOK
  BY DEF TypeOK
<1>1. CASE Ask
  BY <1>0, <1>1, MoneyStill DEF Ask, ChargeKnown
<1>2. CASE MakeIntent
  BY <1>0, <1>2, MoneyStill DEF MakeIntent, ChargeKnown, TypeOK
<1>3. CASE StoreIntent
  BY <1>0, <1>3, MoneyStill DEF StoreIntent, ChargeKnown, Payment, WithCharge
<1>4. CASE DropAsk
  BY <1>0, <1>4, MoneyStill DEF DropAsk, ChargeKnown
<1>5. CASE OnCapturable
  BY <1>0, <1>5, MoneyStill DEF OnCapturable, Authorised, ChargeKnown, Payment, WithCharge
<1>6. CASE OnDisputeOpened
  BY <1>0, <1>6, MoneyStill DEF OnDisputeOpened, ChargeKnown, Payment, WithCharge
<1>7. CASE OnDisputeLost
  <2>1. row'.held => row.held
    BY <1>0, <1>7 DEF OnDisputeLost, Payment
  <2>2. row'.status \in WithCharge => row.status \in WithCharge
    BY <1>0, <1>7 DEF OnDisputeLost, Payment
  <2>3. stripe'.intent = stripe.intent /\ stripe'.refunded = stripe.refunded
        /\ stripe'.transferred = stripe.transferred
    BY <1>0, <1>7 DEF OnDisputeLost, TypeOK
  <2>4. UNCHANGED <<status, refund, revived, queue>>
    BY <1>7 DEF OnDisputeLost
  <2> QED
    BY <2>1, <2>2, <2>3, <2>4, MoneyStill DEF ChargeKnown
<1>8. CASE Reconcile
  BY <1>0, <1>8, MoneyStill DEF Reconcile, Authorised, ChargeKnown, Payment, WithCharge
<1>9. CASE Confirm
  BY <1>0, <1>9, MoneyStill DEF Confirm, ChargeKnown, TypeOK
<1>10. CASE HoldRunsOut
  BY <1>0, <1>10, MoneyStill DEF HoldRunsOut, ChargeKnown, TypeOK
<1>11. CASE Dispute
  BY <1>0, <1>11, MoneyStill DEF Dispute, ChargeKnown, TypeOK
<1>12. CASE Switch
  BY <1>0, <1>12, MoneyStill DEF Switch, ChargeKnown
<1>13. CASE OtherBookings
  BY <1>0, <1>13, MoneyStill DEF OtherBookings, ChargeKnown
<1> QED
  BY <1>1, <1>2, <1>3, <1>4, <1>5, <1>6, <1>7, <1>8, <1>9, <1>10, <1>11, <1>12, <1>13
     DEF Intents, World

\* The handler's branches.  What it refunds and pays is what the event says, and
\* an ending on the queue says what the booking says.
LEMMA MoneyStatusChanged ==
  ASSUME MoneyInv, NEW e \in queue, OnStatusChanged(e)
  PROVE  ChargeKnown' /\ (~revived' => LastWord' /\ HeldWord' /\ MovedWord')
<1> USE DEF booking, MoneyInv
<1>0. row \in Payment /\ TypeOK
  BY DEF TypeOK
<1>1. CASE Capture(e)
  BY <1>0, <1>1, MoneyStill DEF Capture, Ends, ChargeKnown, TypeOK, Payment
<1>2. CASE CaptureDeclined(e)
  BY <1>0, <1>2, MoneyStill DEF CaptureDeclined, ChargeKnown, TypeOK, Payment, WithCharge
<1>3. CASE Cancel(e)
  <2>1. stripe'.refunded = stripe.refunded /\ stripe'.transferred = stripe.transferred
        /\ (stripe.intent = "succeeded" => stripe'.intent = "succeeded")
    BY <1>0, <1>3 DEF Cancel, TypeOK
  <2>2. /\ row'.held = row.held /\ queue' \subseteq queue
        /\ row'.status \in WithCharge => row.status \in WithCharge
    BY <1>0, <1>3 DEF Cancel, Ends, Payment, WithCharge
  <2>3. UNCHANGED <<status, refund, revived>>
    BY <1>3 DEF Cancel
  <2> QED
    BY <2>1, <2>2, <2>3, MoneyStill DEF ChargeKnown
<1>4. CASE Ignore(e)
  BY <1>0, <1>4, MoneyStill DEF Ignore, ChargeKnown
<1>5. ASSUME row.status = "captured", NEW back \in 0..Amount, NEW part \in 0..OwnerNet,
             e.to \in {"cancelled", "completed"},
             back = IF Refunds(e) THEN Returned(e) ELSE 0,
             Refunds(e) => part <= OwnerPart(back),
             UNCHANGED <<status, refund, revived>>, queue' \subseteq queue,
             row'.held => row.held \/ (e.to = "completed" /\ ~Refunds(e)),
             stripe'.intent = stripe.intent,
             stripe'.refunded \in {stripe.refunded, back},
             stripe'.transferred \in {stripe.transferred, part}
      PROVE  ChargeKnown' /\ (~revived' => LastWord' /\ HeldWord' /\ MovedWord')
  <2>1. ChargeKnown'
    BY <1>5 DEF ChargeKnown, WithCharge
  <2>2. SUFFICES ASSUME ~revived PROVE LastWord' /\ HeldWord' /\ MovedWord'
    BY <1>5, <2>1
  <2>3. status = e.to /\ refund = e.refund
    BY <1>5, <2>2 DEF LastWord, FINAL
  <2>4. LastWord'
    BY <1>5, <2>2 DEF LastWord
  <2>5. HeldWord'
    BY <1>5, <2>2, <2>3 DEF HeldWord, Refunds
  <2>6. back = Owed
    <3>1. refund \in {Null} \cup 0..Amount /\ Null \notin 0..Amount /\ Amount \in Nat
      BY <1>0, AmountAssumption DEF TypeOK, Null
    <3>2. CASE Refunds(e)
      BY <1>5, <2>3, <3>1, <3>2 DEF Refunds, Returned, Least, Owed
    <3>3. CASE ~Refunds(e)
      BY <1>5, <2>3, <3>1, <3>3 DEF Refunds, Owed, Returned, Least
    <3> QED
      BY <3>2, <3>3
  <2>7. part <= OwnerPart(Owed)
    <3>1. CASE Refunds(e)
      BY <1>5, <2>6, <3>1
    <3>2. CASE ~Refunds(e)
      <4>1. Owed = 0
        BY <1>5, <2>3, <2>6, <3>2 DEF Refunds, Owed
      <4> QED
        BY <1>5, <4>1, WholeShare, AmountAssumption
    <3> QED
      BY <3>1, <3>2
  <2>8. Owed' = Owed /\ OwnerPart(Owed)' = OwnerPart(Owed)
    BY <1>5 DEF Owed, OwnerPart
  <2>9. 0 <= OwnerPart(Owed) /\ OwnerPart(Owed) \in Int /\ Owed \in 0..Amount
    BY <1>0, OwedTyped, OwnerPartBounds
  <2>10. MovedWord'
    <3>1. stripe'.refunded <= Owed
      BY <1>0, <1>5, <2>2, <2>6, <2>9, AmountAssumption DEF MovedWord, TypeOK
    <3>2. stripe'.transferred <= OwnerPart(Owed)
      BY <1>0, <1>5, <2>2, <2>7, <2>9, AmountAssumption DEF MovedWord, TypeOK
    <3> QED
      BY <1>5, <2>3, <2>8, <3>1, <3>2 DEF MovedWord
  <2> QED
    BY <2>4, <2>5, <2>10
<1>6. CASE Refund(e)
  <2> DEFINE back == Returned(e)
  <2>1. back \in 0..Amount /\ OwnerPart(back) \in 0..OwnerNet /\ OwnerPart(back) <= OwnerPart(back)
    BY <1>0, AmountsTyped, OwnerPartBounds
  <2>2. /\ row.status = "captured" /\ Refunds(e) /\ e.to \in {"cancelled", "completed"}
        /\ UNCHANGED <<status, refund, revived>>
    BY <1>6 DEF Refund, Refunds
  <2>3. stripe' = [GivenBack(back) EXCEPT !.transferred = IF @ = 0 THEN OwnerPart(back) ELSE @]
    BY <1>6 DEF Refund
  <2>4. stripe'.intent = stripe.intent /\ stripe'.refunded \in {stripe.refunded, back}
        /\ stripe'.transferred \in {stripe.transferred, OwnerPart(back)}
    BY <1>0, <2>3 DEF GivenBack, TypeOK
  <2>5. queue' \subseteq queue /\ row'.held = row.held
    BY <1>0, <1>6 DEF Refund, Ends, Payment
  <2> HIDE DEF back
  <2>6. Returned(e) = back
    BY DEF back
  <2> QED
    BY <1>5, <2>1, <2>2, <2>4, <2>5, <2>6
<1>7. CASE RefundOnly(e)
  <2> DEFINE back == Returned(e)
  <2>1. back \in 0..Amount /\ OwnerPart(back) \in 0..OwnerNet /\ OwnerPart(back) <= OwnerPart(back)
    BY <1>0, AmountsTyped, OwnerPartBounds
  <2>2. /\ row.status = "captured" /\ Refunds(e) /\ e.to \in {"cancelled", "completed"}
        /\ UNCHANGED <<status, refund, revived, queue, row>>
    BY <1>7 DEF RefundOnly, Refunds
  <2>3. stripe' = GivenBack(back)
    BY <1>7 DEF RefundOnly
  <2>4. stripe'.intent = stripe.intent /\ stripe'.refunded \in {stripe.refunded, back}
        /\ stripe'.transferred = stripe.transferred
    BY <1>0, <2>3 DEF GivenBack, TypeOK
  <2> HIDE DEF back
  <2>5. Returned(e) = back
    BY DEF back
  <2> QED
    BY <1>5, <2>1, <2>2, <2>4, <2>5
<1>8. CASE HoldPayout(e)
  <2>1. e.refund \in {Null, 0} /\ ~Refunds(e) /\ e.to = "completed" /\ row.status = "captured"
        /\ UNCHANGED <<status, refund, revived, stripe>>
    BY <1>8 DEF HoldPayout, Refunds
  <2>2. queue' \subseteq queue
    BY <1>8 DEF HoldPayout, Ends
  <2>3. 0 \in 0..Amount /\ 0 \in 0..OwnerNet
    BY AmountAssumption
  <2> QED
    BY <1>5, <2>1, <2>2, <2>3
<1>9. CASE PayOut(e)
  <2>1. e.refund \in {Null, 0} /\ ~Refunds(e) /\ e.to = "completed" /\ row.status = "captured"
        /\ UNCHANGED <<status, refund, revived>>
    BY <1>9 DEF PayOut, Refunds
  <2>2. queue' \subseteq queue /\ (row'.held => row.held)
    BY <1>0, <1>9 DEF PayOut, Ends, Paid, Payment
  <2>3. 0 \in 0..Amount /\ OwnerNet - Deducted \in 0..OwnerNet
    BY <1>0, AmountsTyped, AmountAssumption
  <2>4. stripe'.intent = stripe.intent /\ stripe'.refunded = stripe.refunded
        /\ stripe'.transferred \in {stripe.transferred, OwnerNet - Deducted}
    BY <1>0, <1>9 DEF PayOut, Sent, TypeOK
  <2> QED
    BY <1>5, <2>1, <2>2, <2>3, <2>4
<1> QED
  BY <1>1, <1>2, <1>3, <1>4, <1>6, <1>7, <1>8, <1>9 DEF OnStatusChanged

\* A won dispute pays out what was held: the booking completed without refund.
LEMMA MoneyDisputeWon ==
  ASSUME MoneyInv, OnDisputeWon
  PROVE  ChargeKnown' /\ (~revived' => LastWord' /\ HeldWord' /\ MovedWord')
<1> USE DEF booking, MoneyInv
<1>0. row \in Payment /\ TypeOK
  BY DEF TypeOK
<1>1. /\ UNCHANGED <<status, refund, revived, queue>>
      /\ row'.held => row.held
      /\ row'.status \in WithCharge => row.status \in WithCharge
  BY <1>0 DEF OnDisputeWon, Paid, Payment, WithCharge
<1>2. CASE UNCHANGED stripe
  BY <1>1, <1>2, MoneyStill DEF ChargeKnown
<1>3. CASE ~UNCHANGED stripe
  <2>1. row.held /\ row.status = "captured" /\ stripe' = Sent(OwnerNet - Deducted)
    BY <1>3 DEF OnDisputeWon
  <2>2. OwnerNet - Deducted \in 0..OwnerNet
    BY <1>0, AmountsTyped
  <2>3. stripe'.intent = stripe.intent /\ stripe'.refunded = stripe.refunded
        /\ stripe'.transferred \in {stripe.transferred, OwnerNet - Deducted}
    BY <1>0, <2>1 DEF Sent, TypeOK
  <2>4. ChargeKnown'
    BY <1>1, <2>1, <2>3 DEF ChargeKnown, WithCharge
  <2>5. SUFFICES ASSUME ~revived PROVE LastWord' /\ HeldWord' /\ MovedWord'
    BY <1>1, <2>4
  <2>6. LastWord' /\ HeldWord'
    BY <1>1, <2>5 DEF LastWord, HeldWord
  <2>7. Owed = 0 /\ status = "completed" /\ Owed' = Owed /\ OwnerPart(Owed)' = OwnerPart(Owed)
    BY <1>1, <2>1, <2>5 DEF HeldWord, Owed, OwnerPart
  <2>8. MovedWord'
    <3>1. stripe'.transferred <= OwnerPart(0)
      BY <1>0, <2>2, <2>3, <2>5, <2>7, WholeShare, AmountAssumption DEF MovedWord, TypeOK
    <3>2. stripe'.refunded <= 0
      BY <1>0, <2>3, <2>5, <2>7, AmountAssumption DEF MovedWord, TypeOK
    <3> QED
      BY <1>1, <2>7, <3>1, <3>2 DEF MovedWord
  <2> QED
    BY <2>6, <2>8
<1> QED
  BY <1>2, <1>3

\* So every step keeps the invariant.
LEMMA MoneyStep == ASSUME MoneyInv, [Next]_vars PROVE MoneyInv'
<1>1. TypeOK'
  BY TypeStep DEF MoneyInv
<1>2. ChargeKnown' /\ (~revived' => LastWord' /\ HeldWord' /\ MovedWord')
  <2>1. CASE UNCHANGED vars
    BY <2>1 DEF vars, MoneyInv, ChargeKnown, LastWord, HeldWord, MovedWord, Owed, OwnerPart
  <2>2. CASE Next
    BY <2>2, MoneyBooking, MoneyOther, MoneyStatusChanged, MoneyDisputeWon
       DEF Next, Webhooks, Intents
  <2> QED
    BY <2>1, <2>2
<1> QED
  BY <1>1, <1>2 DEF MoneyInv

\* The invariant: the endings on the queue, and the money that moved, agree with
\* the booking's last word.
THEOREM MoneyInvariant == Spec => []MoneyInv
<1>1. Init => MoneyInv
  <2> SUFFICES ASSUME Init PROVE MoneyInv
    OBVIOUS
  <2>1. TypeOK
    BY TypeInit
  <2> QED
    BY <2>1 DEF Init, MoneyInv, ChargeKnown, LastWord, HeldWord, MovedWord, NoPayment, WithCharge
<1>2. MoneyInv /\ [Next]_vars => MoneyInv'
  BY MoneyStep
<1> QED
  BY <1>1, <1>2, PTL DEF Spec

\* What goes back to the renter and to the owner is never together more than
\* what was paid, for every price, share and debt, whatever crashes, pauses,
\* disputes and orders of delivery (on_status_changed, pay_out).
THEOREM MoneyIsConserved == Spec => []MoneyConserved
<1>1. MoneyInv => MoneyConserved
  <2> SUFFICES ASSUME MoneyInv, ~revived
               PROVE  /\ stripe.refunded + stripe.transferred <= Amount
                      /\ stripe.refunded + stripe.transferred > 0 => stripe.intent = "succeeded"
    BY DEF MoneyConserved
  <2>1. stripe.refunded \in 0..Amount /\ stripe.transferred \in 0..OwnerNet
    BY DEF MoneyInv, TypeOK
  <2>2. Owed \in 0..Amount /\ OwnerPart(Owed) \in 0..(Amount - Owed)
    BY OwedTyped, OwnerPartBounds DEF MoneyInv
  <2>3. CASE stripe.refunded > 0 \/ stripe.transferred > 0
    BY <2>1, <2>2, <2>3, AmountAssumption DEF MoneyInv, MovedWord, ChargeKnown
  <2>4. CASE ~(stripe.refunded > 0 \/ stripe.transferred > 0)
    BY <2>1, <2>4, AmountAssumption
  <2> QED
    BY <2>3, <2>4
<1> QED
  BY <1>1, MoneyInvariant, PTL
---------------------------------------------------------------------------
\* Every action pays the owner nothing under a dispute, but for the step that hears it was won.
LEMMA PaidFreely ==
  ASSUME TypeOK, Next
  PROVE  stripe'.transferred # stripe.transferred => ~row.hold \/ "won" \in webhooks
<1> DEFINE Freely == stripe'.transferred # stripe.transferred => ~row.hold \/ "won" \in webhooks
<1> USE DEF TypeOK
<1>1. CASE stripe'.transferred = stripe.transferred
  BY <1>1
<1>2. CASE BookingMoves
  BY <1>1, <1>2 DEF BookingMoves, Transition, SystemMove, Settle, ReadAuthorised,
                    OnAuthorised, OnFailed
<1>3. CASE Intents
  BY <1>1, <1>3 DEF Intents, Ask, MakeIntent, StoreIntent, DropAsk, ReleaseUnpayable
<1>4. CASE Reconcile \/ World
  BY <1>1, <1>4 DEF Reconcile, World, Confirm, HoldRunsOut, Dispute, Switch, OtherBookings
<1>5. CASE Webhooks
  <2>1. CASE OnCapturable \/ OnDisputeOpened
    BY <1>1, <2>1 DEF OnCapturable, OnDisputeOpened
  <2>2. CASE OnDisputeLost
    BY <1>1, <2>2 DEF OnDisputeLost
  <2>3. CASE OnDisputeWon
    BY <2>3, AmountsTyped DEF OnDisputeWon, Sent
  <2> QED
    BY <1>5, <2>1, <2>2, <2>3 DEF Webhooks
<1>6. ASSUME NEW e \in queue, OnStatusChanged(e) PROVE Freely
  <2>1. CASE Capture(e) \/ CaptureDeclined(e) \/ Cancel(e) \/ HoldPayout(e) \/ Ignore(e)
    BY <1>1, <2>1 DEF Capture, CaptureDeclined, Cancel, HoldPayout, Ignore
  <2>2. CASE Refund(e)
    <3>1. Returned(e) \in 0..Amount /\ OwnerPart(Returned(e)) \in 0..OwnerNet
      BY AmountsTyped, OwnerPartBounds
    <3>2. ~row.hold \/ OwnerPart(Returned(e)) = 0
      BY <2>2 DEF Refund, MayPayPart
    <3>3. stripe' = [GivenBack(Returned(e)) EXCEPT
                       !.transferred = IF @ = 0 THEN OwnerPart(Returned(e)) ELSE @]
      BY <2>2 DEF Refund
    <3> QED
      BY <3>1, <3>2, <3>3 DEF GivenBack
  <2>3. CASE RefundOnly(e)
    BY <2>3 DEF RefundOnly, GivenBack
  <2>4. CASE PayOut(e)
    BY <2>4, AmountsTyped DEF PayOut, Sent
  <2> QED
    BY <1>6, <2>1, <2>2, <2>3, <2>4 DEF OnStatusChanged
<1> QED
  BY <1>2, <1>3, <1>4, <1>5, <1>6 DEF Next

\* An owner is not paid while the charge is disputed (PaymentRow.chargeback_at).
THEOREM DisputeStopsPayout == Spec => NoPayoutUnderDispute
<1>1. TypeOK /\ [Next]_vars =>
        [stripe'.transferred # stripe.transferred => ~row.hold \/ "won" \in webhooks]_vars
  BY PaidFreely
<1> QED
  BY <1>1, SettlementTyped, PTL DEF Spec, NoPayoutUnderDispute

---------------------------------------------------------------------------
\* A booking that has ended other than in nothing.
Ended == status \in {"completed", "cancelled"}

\* A booking that went ahead: it was accepted, and is not withdrawn as one that was not.
WentAhead ==
  \/ status \in {"accepted", "active", "completed", "disputed"}
  \/ status = "cancelled" /\ refund # Null

\* An acceptance is still to be handled by payments.
Accepted == \E e \in queue : e.to = "accepted"

\* What the owner gets: the share of what is kept, less what they owed.
Due == {OwnerPart(Owed)} \cup (IF Owed = 0 THEN (OwnerNet - MaxDebt)..OwnerNet ELSE {})

\* A card is charged, and a charge on its way, only of a booking that went ahead.
ChargeInv ==
  /\ stripe.intent = "succeeded" => WentAhead
  /\ Accepted => WentAhead \/ row.status = "failed"
  /\ "failed" \in inbox => row.status = "failed"
  /\ row.status = "failed" => stripe.intent # "succeeded"
  /\ row.status = "cancelled" => stripe.intent \in {"canceled", "succeeded"}
  /\ refund # Null => Ended
  /\ seen = "awaiting_payment" => status \in {"awaiting_payment"} \cup RELEASE /\ refund = Null

\* A booking leaves the wait for its card only when payments knows of a hold.
HoldInv ==
  /\ seen # "unread" => "authorised" \in inbox
  /\ \/ "authorised" \in inbox \/ Accepted \/ refund # Null
     \/ status \notin {"awaiting_payment"} \cup RELEASE
     => row.status \notin {"none", "created"}

\* The row records a refund or a payout only past its capture.
RowInv ==
  /\ row.refunded # 0 => row.status \in WithCharge \ {"captured"}
  /\ row.paid > 0 => stripe.transferred > 0

\* What is still to be heard is on its way: of an acceptance its event, its charge or its refusal, of
\* an ending the event that settles it.
Orders ==
  /\ Accepted \/ row.status = "failed" \/ stripe.intent = "succeeded" =>
       status \notin {"awaiting_payment", "requested"}
  /\ row.status = "cancelled" =>
       \/ status \in FINAL
       \/ status = "awaiting_payment" /\ "authorised" \notin inbox
  /\ status = "accepted" =>
       /\ Accepted \/ row.status \in WithCharge \/ "failed" \in inbox
       /\ row.status = "failed" => "failed" \in inbox
  /\ WentAhead /\ Ended /\ row.status \in Authorisable \cup {"captured"} /\ ~row.held =>
       [to |-> status, refund |-> refund] \in queue

\* What moved is none of what is owed or all of it, and the row says so once it is settled.
Moved ==
  /\ stripe.refunded \in {0, Owed}
  /\ stripe.transferred \in {0} \cup Due
  /\ row.refunded \in {0, stripe.refunded}
  /\ row.status \in {"refunded", "partially_refunded", "transferred"} =>
       /\ Ended /\ stripe.refunded = Owed /\ row.refunded = Owed
       /\ stripe.transferred \in Due

OrderInv == ~revived => Orders /\ Moved

Stand == MoneyInv /\ ChargeInv /\ HoldInv /\ RowInv

\* Booking's moves: none leaves a charged booking as if it had not gone ahead, and the first
\* move out of waiting comes of a hold that payments knows.
LEMMA ChargeBooking ==
  ASSUME Stand, BookingMoves \/ ReleaseUnpayable
  PROVE  ChargeInv' /\ HoldInv' /\ RowInv'
<1> USE DEF Stand, ChargeInv, HoldInv, WentAhead, Ended, Accepted, RELEASE, FINAL, settings, Null
<1>0. TypeOK /\ row \in Payment
  BY DEF MoneyInv, TypeOK
<1>2. UNCHANGED <<row, stripe>>
  BY DEF BookingMoves, Transition, SystemMove, Settle, ReadAuthorised, OnAuthorised, OnFailed, ReleaseUnpayable
<1>3. RowInv'
  BY <1>2 DEF RowInv
<1>5. ASSUME NEW action \in Action, Transition(action) PROVE ChargeInv' /\ HoldInv'
  <2>1. PICK back \in Back(action) : Become(TRANSITIONS[action].to, back)
    BY <1>5 DEF Transition
  <2>2. status \in TRANSITIONS[action].from /\ UNCHANGED <<seen, inbox>>
    BY <1>5 DEF Transition
  <2>3. \A e \in queue' : e \in queue \/ e = [to |-> status', refund |-> back]
    BY <2>1 DEF Become
  <2>4. status' = TRANSITIONS[action].to /\ refund' = back
    BY <2>1 DEF Become
  <2>5. CASE action = "accept"
    BY <1>0, <1>2, <2>1, <2>2, <2>3, <2>4, <2>5 DEF TRANSITIONS, Back, TypeOK, Null
  <2>6. CASE action \in {"decline", "dispute", "start", "complete"}
    BY <1>0, <1>2, <2>1, <2>2, <2>3, <2>4, <2>6 DEF TRANSITIONS, Back, TypeOK, Null
  <2>7. CASE action = "cancel"
    BY <1>0, <1>2, <2>1, <2>2, <2>3, <2>4, <2>7 DEF TRANSITIONS, Back, TypeOK, Null
  <2>8. CASE action = "no_show"
    BY <1>0, <1>2, <2>1, <2>2, <2>3, <2>4, <2>8, AmountAssumption DEF TRANSITIONS, Back, TypeOK, Null
  <2> QED
    BY <2>5, <2>6, <2>7, <2>8 DEF Action
<1>6. ASSUME NEW action \in {"expire", "auto_complete", "listing_removed"}, SystemMove(action)
      PROVE ChargeInv' /\ HoldInv'
  <2>1. Become(SYSTEM[action].to, refund) /\ status \in SYSTEM[action].from /\ UNCHANGED <<seen, inbox>>
    BY <1>6 DEF SystemMove, Applies
  <2>2. \A e \in queue' : e \in queue \/ e = [to |-> status', refund |-> refund]
    BY <2>1 DEF Become
  <2>3. status' = SYSTEM[action].to /\ refund' = refund /\ status' # "accepted"
    BY <2>1 DEF Become, SYSTEM
  <2> QED
    BY <1>0, <1>2, <2>1, <2>2, <2>3 DEF SYSTEM, TypeOK
<1>7. ASSUME NEW back \in 0..Amount, Settle(back) PROVE ChargeInv' /\ HoldInv'
  <2>1. status = "disputed" /\ UNCHANGED <<seen, inbox>>
    BY <1>7 DEF Settle
  <2>2. status' \in {"cancelled", "completed"} /\ (status' = "cancelled" => refund' # Null)
    BY <1>7, AmountAssumption DEF Settle, Become, Null
  <2>3. \A e \in queue' : e \in queue \/ e.to = status'
    BY <1>7 DEF Settle, Become
  <2> QED
    BY <1>2, <1>3, <2>1, <2>2, <2>3
<1>8. CASE ReadAuthorised
  BY <1>2, <1>3, <1>8 DEF ReadAuthorised
<1>9. CASE OnAuthorised
  <2>0. seen # "unread" /\ seen' = "unread" /\ inbox' = inbox \ {"authorised"}
    BY <1>9 DEF OnAuthorised
  <2>1. CASE Applies("authorised", seen)
    <3>1. PICK action \in {"authorised", "authorised_instant"} : Become(SYSTEM[action].to, refund)
      BY <1>9, <2>1 DEF OnAuthorised
    <3>2. seen = "awaiting_payment"
      BY <2>1 DEF Applies, SYSTEM
    <3>3. status' \in {"requested", "accepted"} /\ refund' = refund
      BY <3>1 DEF Become, SYSTEM
    <3>4. \A e \in queue' : e \in queue \/ e.to = status'
      BY <3>1 DEF Become
    <3> QED
      BY <1>2, <1>3, <2>0, <3>2, <3>3, <3>4
  <2>2. CASE ~Applies("authorised", seen)
    BY <1>2, <1>3, <1>9, <2>0, <2>2 DEF OnAuthorised
  <2> QED
    BY <2>1, <2>2
<1>10. CASE OnFailed
  <2>0. "failed" \in inbox /\ inbox' = inbox \ {"failed"} /\ seen' = seen
    BY <1>10 DEF OnFailed
  <2>1. CASE Applies("payment_failed", status)
    <3>1. Become("payment_failed", refund) /\ status \in {"awaiting_payment", "accepted"}
      BY <1>10, <2>1 DEF OnFailed, Applies, SYSTEM
    <3>2. status' = "payment_failed" /\ refund' = refund /\ \A e \in queue' : e \in queue \/ e.to = status'
      BY <3>1 DEF Become
    <3> QED
      BY <1>2, <1>3, <2>0, <3>1, <3>2
  <2>2. CASE ~Applies("payment_failed", status)
    BY <1>2, <1>3, <1>10, <2>0, <2>2 DEF OnFailed
  <2> QED
    BY <2>1, <2>2
<1>11. CASE ReleaseUnpayable
  <2>0. UNCHANGED <<inbox, seen>>
    BY <1>11 DEF ReleaseUnpayable
  <2>1. CASE status = "awaiting_payment"
    <3>1. Become("payment_failed", refund)
      BY <1>11, <2>1 DEF ReleaseUnpayable
    <3>2. status' = "payment_failed" /\ refund' = refund /\ \A e \in queue' : e \in queue \/ e.to = status'
      BY <3>1 DEF Become
    <3> QED
      BY <1>2, <1>3, <2>0, <2>1, <3>2
  <2>2. CASE status # "awaiting_payment"
    BY <1>2, <1>3, <1>11, <2>0, <2>2 DEF ReleaseUnpayable
  <2> QED
    BY <2>1, <2>2
<1> QED
  BY <1>3, <1>5, <1>6, <1>7, <1>8, <1>9, <1>10, <1>11 DEF BookingMoves

\* Payments' steps, and the world's, leave the booking's row as it is.
LEMMA ChargeOther ==
  ASSUME Stand, (Intents /\ ~ReleaseUnpayable) \/ Webhooks \/ Reconcile \/ World
  PROVE  ChargeInv' /\ HoldInv' /\ RowInv'
<1> USE DEF Stand, ChargeInv, HoldInv, RowInv, WentAhead, Ended, Accepted, booking, settings, Null,
            WithCharge
<1>0. row \in Payment /\ stripe \in [intent : {"none", "open", "held", "succeeded", "canceled"},
                 refunded : 0..Amount, transferred : 0..OwnerNet,
                 reversed : 0..OwnerNet, dispute : {"none", "open", "won", "lost"}]
      /\ OwnerNet \in Nat
  BY AmountAssumption DEF MoneyInv, TypeOK
<1>1. CASE Ask \/ DropAsk \/ Switch \/ OtherBookings
  BY <1>1 DEF Ask, DropAsk, Switch, OtherBookings
<1>2. CASE MakeIntent
  BY <1>0, <1>2 DEF MakeIntent
<1>3. CASE StoreIntent
  BY <1>0, <1>3 DEF StoreIntent, Payment
<1>4. CASE OnCapturable
  BY <1>0, <1>4 DEF OnCapturable, Authorised, Payment
<1>5. CASE OnDisputeOpened
  BY <1>0, <1>5 DEF OnDisputeOpened, Payment
<1>6. CASE OnDisputeLost
  <2>1. UNCHANGED <<status, refund, seen, queue, inbox>>
    BY <1>6 DEF OnDisputeLost
  <2>2. /\ row'.refunded = row.refunded /\ row'.paid = row.paid
        /\ row'.status # row.status => row.status \in WithCharge /\ row'.status = "charged_back"
    BY <1>0, <1>6 DEF OnDisputeLost, Payment
  <2>3. stripe'.intent = stripe.intent /\ stripe'.transferred = stripe.transferred
    BY <1>0, <1>6 DEF OnDisputeLost
  <2> QED
    BY <2>1, <2>2, <2>3
<1>7. CASE OnDisputeWon
  <2>1. UNCHANGED <<status, refund, seen, queue, inbox>>
    BY <1>7 DEF OnDisputeWon
  <2>2. /\ row'.refunded = row.refunded
        /\ \/ row'.status = row.status /\ row'.paid = row.paid
           \/ row.status = "captured" /\ row'.status = "transferred" /\ stripe' = Sent(row'.paid)
    BY <1>0, <1>7 DEF OnDisputeWon, Payment, Paid
  <2>3. stripe' = stripe \/ stripe' = Sent(OwnerNet - Deducted)
    BY <1>7 DEF OnDisputeWon
  <2>5. OwnerNet - Deducted \in Nat
    BY <1>0, AmountsTyped DEF MoneyInv
  <2>6. /\ stripe'.intent = stripe.intent
        /\ stripe.transferred > 0 => stripe'.transferred > 0
    BY <1>0, <2>3, <2>5 DEF Sent
  <2>4. row'.paid > 0 => stripe'.transferred > 0
    BY <1>0, <2>2, <2>6 DEF Sent, Payment
  <2> QED
    BY <2>1, <2>2, <2>4, <2>6
<1>8. CASE Reconcile
  BY <1>0, <1>8 DEF Reconcile, Authorised, Payment
<1>9. CASE Confirm
  BY <1>0, <1>9 DEF Confirm
<1>10. CASE HoldRunsOut
  BY <1>0, <1>10 DEF HoldRunsOut
<1>11. CASE Dispute
  BY <1>0, <1>11 DEF Dispute
<1> QED
  BY <1>1, <1>2, <1>3, <1>4, <1>5, <1>6, <1>7, <1>8, <1>9, <1>10, <1>11 DEF Intents, Webhooks, World

\* The handler charges only for an acceptance, and records what it gives back and pays only then.
LEMMA ChargeStatusChanged ==
  ASSUME Stand, NEW e \in queue, OnStatusChanged(e)
  PROVE  ChargeInv' /\ HoldInv' /\ RowInv'
<1> USE DEF Stand, ChargeInv, HoldInv, RowInv, WentAhead, Ended, Accepted, booking, settings, Null,
            WithCharge, Authorisable
<1>0. row \in Payment /\ stripe \in [intent : {"none", "open", "held", "succeeded", "canceled"},
                 refunded : 0..Amount, transferred : 0..OwnerNet,
                 reversed : 0..OwnerNet, dispute : {"none", "open", "won", "lost"}]
      /\ OwnerNet \in Nat /\ ChargeKnown
  BY AmountAssumption DEF MoneyInv, TypeOK
<1>1. CASE Capture(e)
  BY <1>0, <1>1 DEF Capture, Ends, Payment, ChargeKnown
<1>2. CASE CaptureDeclined(e)
  BY <1>0, <1>2 DEF CaptureDeclined, Payment, ChargeKnown
<1>3. CASE Cancel(e)
  BY <1>0, <1>3 DEF Cancel, Ends, Payment, ChargeKnown
<1>4. CASE Refund(e)
  <2>1. OwnerPart(Returned(e)) \in Nat
    BY <1>0, AmountsTyped, OwnerPartBounds DEF MoneyInv
  <2>2. row.status = "captured" /\ UNCHANGED <<status, refund, seen, inbox>> /\ queue' \subseteq queue
    BY <1>4 DEF Refund, Refunds, Ends
  <2>3. \/ row' = row
        \/ row' = [row EXCEPT !.status = RefundStatus(Returned(e)), !.refunded = Returned(e),
                              !.paid = OwnerPart(Returned(e))]
    BY <1>4 DEF Refund, Ends
  <2>4. stripe' = [GivenBack(Returned(e)) EXCEPT !.transferred = IF @ = 0 THEN OwnerPart(Returned(e)) ELSE @]
    BY <1>4 DEF Refund
  <2>5. /\ stripe'.intent = stripe.intent
        /\ stripe'.transferred = IF stripe.transferred = 0 THEN OwnerPart(Returned(e))
                                 ELSE stripe.transferred
    BY <1>0, <2>4 DEF GivenBack
  <2>6. RefundStatus(Returned(e)) \in {"refunded", "partially_refunded", "transferred"}
    BY DEF RefundStatus
  <2>7. row'.status \in WithCharge /\ (row'.paid > 0 => stripe'.transferred > 0)
    <3>1. CASE row' = row
      BY <1>0, <2>1, <2>2, <2>5, <3>1
    <3>2. CASE row' # row
      <4>1. row'.status = RefundStatus(Returned(e)) /\ row'.paid = OwnerPart(Returned(e))
        BY <1>0, <2>3, <3>2 DEF Payment
      <4> QED
        BY <1>0, <2>1, <2>5, <2>6, <4>1
    <3> QED
      BY <3>1, <3>2
  <2>8. RowInv'
    BY <1>0, <2>1, <2>2, <2>3, <2>5, <2>6, <2>7 DEF Payment
  <2>9. Accepted' => Accepted
    BY <2>2
  <2> QED
    BY <2>2, <2>5, <2>7, <2>8, <2>9
<1>5. CASE RefundOnly(e)
  BY <1>0, <1>5 DEF RefundOnly, GivenBack
<1>6. CASE HoldPayout(e)
  BY <1>0, <1>6 DEF HoldPayout, Ends, Payment
<1>7. CASE PayOut(e)
  <2>1. /\ row.status = "captured" /\ UNCHANGED <<status, refund, seen, inbox>> /\ queue' \subseteq queue
        /\ row' \in {row, Paid} /\ stripe' = Sent(OwnerNet - Deducted)
    BY <1>7 DEF PayOut, Ends
  <2>2. OwnerNet - Deducted \in Nat
    BY <1>0, AmountsTyped DEF MoneyInv
  <2>3. stripe'.intent = stripe.intent /\ (stripe.transferred > 0 => stripe'.transferred > 0)
    BY <1>0, <2>1, <2>2 DEF Sent
  <2>4. row'.status \in {"captured", "transferred"} /\ row'.refunded = row.refunded
        /\ (row'.paid > 0 => stripe'.transferred > 0)
    <3>1. CASE row' = row
      BY <1>0, <2>1, <2>3, <3>1
    <3>2. CASE row' = Paid
      <4>1. row'.status = "transferred" /\ row'.refunded = row.refunded
            /\ row'.paid = OwnerNet - Deducted
        BY <1>0, <3>2 DEF Payment, Paid
      <4> QED
        BY <1>0, <2>1, <2>2, <4>1 DEF Sent
    <3> QED
      BY <2>1, <3>1, <3>2
  <2>5. Accepted' => Accepted
    BY <2>1
  <2> QED
    BY <2>1, <2>3, <2>4, <2>5
<1>8. CASE Ignore(e)
  BY <1>8 DEF Ignore
<1> QED
  BY <1>1, <1>2, <1>3, <1>4, <1>5, <1>6, <1>7, <1>8 DEF OnStatusChanged

\* Before its ending nothing of a booking's money has moved.
LEMMA NothingMovedYet ==
  ASSUME Stand, OrderInv, ~revived, status \notin FINAL
  PROVE  stripe.refunded = 0 /\ stripe.transferred = 0 /\ row.refunded = 0
         /\ row.status \notin {"refunded", "partially_refunded", "transferred"}
<1>1. stripe.refunded \in Nat /\ stripe.transferred \in Nat
  BY AmountAssumption DEF Stand, MoneyInv, TypeOK
<1>2. stripe.refunded = 0 /\ stripe.transferred = 0
  BY <1>1 DEF Stand, MoneyInv, MovedWord, FINAL
<1> QED
  BY <1>2 DEF OrderInv, Moved, Ended, FINAL

\* A move of the booking that says so keeps the order, if it keeps the first two parts.
LEMMA OrderBecome ==
  ASSUME Stand, OrderInv, NEW to, NEW back, Become(to, back), UNCHANGED <<row, stripe>>,
         ~revived', status \notin FINAL, inbox' \subseteq inbox,
         to = "accepted" => row.status \notin {"cancelled", "failed"},
         row.status = "cancelled" => to \in FINAL,
         Accepted \/ row.status = "failed" \/ stripe.intent = "succeeded" =>
           to \notin {"awaiting_payment", "requested"}
  PROVE  OrderInv'
<1>1. ~revived /\ status' = to /\ refund' = back
  BY DEF Become
<1>2. Moved'
  BY <1>1, NothingMovedYet DEF Moved
<1>3. \A e \in queue' : e \in queue \/ e = [to |-> to, refund |-> back]
  BY DEF Become
<1>4. to \in Acted => [to |-> to, refund |-> back] \in queue'
  BY DEF Become
<1>5. Orders'
  <2>1. Accepted' => Accepted \/ to = "accepted"
    BY <1>3 DEF Accepted
  <2>2. to = "accepted" => Accepted'
    BY <1>4 DEF Accepted, Acted
  <2>3. Ended' => [to |-> status', refund |-> refund'] \in queue'
    BY <1>1, <1>4 DEF Ended, Acted, RELEASE
  <2> QED
    BY <1>1, <2>1, <2>2, <2>3 DEF Orders, FINAL
<1> QED
  BY <1>2, <1>5 DEF OrderInv

\* Every move of the booking keeps the order.
LEMMA OrderBooking ==
  ASSUME Stand, OrderInv, BookingMoves \/ ReleaseUnpayable
  PROVE  OrderInv'
<1> SUFFICES ASSUME ~revived' PROVE OrderInv'
  BY DEF OrderInv
<1>0. UNCHANGED <<row, stripe>>
  BY DEF BookingMoves, Transition, SystemMove, Settle, ReadAuthorised, OnAuthorised, OnFailed, ReleaseUnpayable
<1>1. ASSUME UNCHANGED <<status, refund, revived, queue>>, inbox' \subseteq inbox,
             status = "accepted" => inbox' = inbox \ {"authorised"} \/ inbox' = inbox
      PROVE  OrderInv'
  <2>1. Orders /\ Moved
    BY <1>1 DEF OrderInv
  <2>2. Moved'
    BY <1>0, <1>1, <2>1 DEF Moved, Owed, Due, Ended, OwnerPart
  <2>3. Orders'
    BY <1>0, <1>1, <2>1 DEF Orders, Accepted, Ended, WentAhead, Null
  <2> QED
    BY <2>2, <2>3 DEF OrderInv
<1>2. ASSUME NEW action \in Action, Transition(action) PROVE OrderInv'
  <2>1. PICK back \in Back(action) : Become(TRANSITIONS[action].to, back)
    BY <1>2 DEF Transition
  <2>2. status \in TRANSITIONS[action].from /\ UNCHANGED inbox /\ ~revived
    BY <1>2, <2>1 DEF Transition, Become
  <2>3. Orders
    BY <2>2 DEF OrderInv
  <2>4. status \notin FINAL
    BY <2>2 DEF TRANSITIONS, Action, FINAL
  <2>5. TRANSITIONS[action].to = "accepted" => status = "requested"
    BY <2>2 DEF TRANSITIONS, Action
  <2>6. TRANSITIONS[action].to \notin {"awaiting_payment", "requested"}
    BY DEF TRANSITIONS, Action
  <2>7. TRANSITIONS[action].to \in FINAL \/ status \in {"requested", "accepted", "active"}
    BY <2>2 DEF TRANSITIONS, Action, FINAL
  <2>8. row.status \in {"cancelled", "failed"} => status # "requested"
    BY <2>3 DEF Orders, FINAL
  <2>9. row.status = "cancelled" => TRANSITIONS[action].to \in FINAL
    BY <2>3, <2>4, <2>7 DEF Orders
  <2> QED
    BY <1>0, <2>1, <2>2, <2>4, <2>5, <2>6, <2>8, <2>9, OrderBecome
<1>3. ASSUME NEW action \in {"expire", "auto_complete", "listing_removed"}, SystemMove(action)
      PROVE  OrderInv'
  <2>1. Become(SYSTEM[action].to, refund) /\ status \in SYSTEM[action].from /\ UNCHANGED inbox
    BY <1>3 DEF SystemMove, Applies
  <2>2. status \notin FINAL /\ SYSTEM[action].to \in FINAL
    BY <2>1 DEF SYSTEM, FINAL
  <2> QED
    BY <1>0, <2>1, <2>2, OrderBecome DEF FINAL
<1>4. ASSUME NEW back \in 0..Amount, Settle(back) PROVE OrderInv'
  <2>1. PICK to, left : to \in {"cancelled", "completed"} /\ Become(to, left) /\ UNCHANGED inbox
    BY <1>4 DEF Settle
  <2>2. status \notin FINAL
    BY <1>4 DEF Settle, FINAL
  <2> QED
    BY <1>0, <2>1, <2>2, OrderBecome DEF FINAL
<1>5. CASE ReadAuthorised
  BY <1>1, <1>5 DEF ReadAuthorised
<1>6. CASE OnAuthorised
  <2>1. CASE Applies("authorised", seen)
    <3>1. PICK action \in {"authorised", "authorised_instant"} : Become(SYSTEM[action].to, refund)
      BY <1>6, <2>1 DEF OnAuthorised
    <3>2. seen = "awaiting_payment" /\ inbox' \subseteq inbox
      BY <1>6, <2>1 DEF Applies, SYSTEM, OnAuthorised
    <3>3. SYSTEM[action].to \in {"requested", "accepted"}
      BY DEF SYSTEM
    <3>4. status = "awaiting_payment" /\ ~revived /\ "authorised" \in inbox
      BY <3>1, <3>2, <3>3 DEF Become, Stand, ChargeInv, HoldInv, RELEASE, FINAL
    <3>5. Orders
      BY <3>4 DEF OrderInv
    <3>6. row.status \notin {"failed", "cancelled"} /\ ~Accepted /\ stripe.intent # "succeeded"
      BY <3>4, <3>5 DEF Orders, FINAL
    <3> QED
      BY <1>0, <3>1, <3>2, <3>3, <3>4, <3>6, OrderBecome DEF FINAL
  <2>2. CASE ~Applies("authorised", seen)
    BY <1>1, <1>6, <2>2 DEF OnAuthorised
  <2> QED
    BY <2>1, <2>2
<1>7. CASE OnFailed
  <2>1. CASE Applies("payment_failed", status)
    <3>1. Become("payment_failed", refund) /\ status \notin FINAL /\ inbox' \subseteq inbox
      BY <1>7, <2>1 DEF OnFailed, Applies, SYSTEM, FINAL
    <3> QED
      BY <1>0, <3>1, OrderBecome DEF FINAL
  <2>2. CASE ~Applies("payment_failed", status)
    BY <1>1, <1>7, <2>2 DEF OnFailed, Applies, SYSTEM
  <2> QED
    BY <2>1, <2>2
<1>8. CASE ReleaseUnpayable
  <2>1. CASE status = "awaiting_payment"
    <3>1. Become("payment_failed", refund) /\ status \notin FINAL /\ UNCHANGED inbox
      BY <1>8, <2>1 DEF ReleaseUnpayable, FINAL
    <3> QED
      BY <1>0, <3>1, OrderBecome DEF FINAL
  <2>2. CASE status # "awaiting_payment"
    BY <1>1, <1>8, <2>2 DEF ReleaseUnpayable
  <2> QED
    BY <2>1, <2>2
<1> QED
  BY <1>2, <1>3, <1>4, <1>5, <1>6, <1>7, <1>8 DEF BookingMoves

\* Steps that neither touch the booking's row nor move money.
LEMMA OrderStill ==
  ASSUME Stand, OrderInv, ~revived, UNCHANGED <<status, refund, revived>>, queue' \subseteq queue,
         stripe'.refunded = stripe.refunded, stripe'.transferred = stripe.transferred,
         row'.refunded = row.refunded,
         row'.status \in {"refunded", "partially_refunded", "transferred"} => row'.status = row.status,
         Orders'
  PROVE  OrderInv'
<1>1. Moved
  BY DEF OrderInv
<1>2. Moved'
  BY <1>1 DEF Moved, Owed, Due, Ended, OwnerPart, Null
<1> QED
  BY <1>2 DEF OrderInv

\* So do the intent, the webhooks but for a dispute that was won, and the world.
LEMMA OrderOther ==
  ASSUME Stand, OrderInv, (Intents /\ ~ReleaseUnpayable) \/ OnCapturable \/ OnDisputeOpened
                          \/ OnDisputeLost \/ Reconcile \/ World
  PROVE  OrderInv'
<1> USE DEF booking, settings, Null, WithCharge, Authorisable, WentAhead, Ended, Accepted, FINAL, RELEASE
<1>0. row \in Payment /\ stripe \in [intent : {"none", "open", "held", "succeeded", "canceled"},
                 refunded : 0..Amount, transferred : 0..OwnerNet,
                 reversed : 0..OwnerNet, dispute : {"none", "open", "won", "lost"}]
      /\ HoldInv /\ ChargeInv
  BY DEF Stand, MoneyInv, TypeOK
<1> SUFFICES ASSUME ~revived' PROVE OrderInv'
  BY DEF OrderInv
<1>a. UNCHANGED <<status, refund, revived, queue>>
  BY DEF Intents, Ask, MakeIntent, StoreIntent, DropAsk, OnCapturable, OnDisputeOpened, OnDisputeLost,
         Reconcile, World, Confirm, HoldRunsOut, Dispute, Switch, OtherBookings
<1>b. Orders
  BY <1>a DEF OrderInv
<1>1. CASE Ask \/ DropAsk \/ Switch \/ OtherBookings
  BY <1>1, <1>a, <1>b, OrderStill DEF Ask, DropAsk, Switch, OtherBookings, Orders
<1>2. CASE MakeIntent
  <2>1. /\ UNCHANGED <<row, inbox>> /\ stripe'.refunded = stripe.refunded
        /\ stripe'.transferred = stripe.transferred
        /\ stripe'.intent = "succeeded" => stripe.intent = "succeeded"
    BY <1>0, <1>2 DEF MakeIntent
  <2> QED
    BY <1>a, <1>b, <2>1, OrderStill DEF Orders
<1>3. CASE StoreIntent
  <2>1. /\ UNCHANGED <<stripe, inbox>> /\ row'.refunded = row.refunded /\ row'.held = row.held
        /\ row'.status = row.status \/ (row.status = "none" /\ row'.status = "created")
    BY <1>0, <1>3 DEF StoreIntent, Payment
  <2>2. Orders'
    BY <1>0, <1>a, <1>b, <2>1 DEF Orders, HoldInv
  <2> QED
    BY <1>a, <2>1, <2>2, OrderStill
<1>4. CASE OnCapturable
  <2>1. /\ UNCHANGED stripe /\ row'.refunded = row.refunded /\ row'.held = row.held
        /\ \/ row' = row /\ inbox' = inbox
           \/ /\ row.status = "created" /\ row'.status = "authorised"
              /\ inbox' = inbox \cup {"authorised"}
    BY <1>0, <1>4 DEF OnCapturable, Authorised, Payment
  <2>2. Orders'
    BY <1>0, <1>a, <1>b, <2>1 DEF Orders, HoldInv
  <2> QED
    BY <1>a, <2>1, <2>2, OrderStill
<1>5. CASE OnDisputeOpened
  <2>1. /\ UNCHANGED <<stripe, inbox>> /\ row'.refunded = row.refunded /\ row'.held = row.held
        /\ row'.status = row.status
    BY <1>0, <1>5 DEF OnDisputeOpened, Payment
  <2> QED
    BY <1>a, <1>b, <2>1, OrderStill DEF Orders
<1>6. CASE OnDisputeLost
  <2>1. /\ row'.refunded = row.refunded /\ inbox' = inbox
        /\ \/ row' = row
           \/ row.status \in WithCharge /\ row'.status = "charged_back"
    BY <1>0, <1>6 DEF OnDisputeLost, Payment
  <2>2. /\ stripe'.intent = stripe.intent /\ stripe'.refunded = stripe.refunded
        /\ stripe'.transferred = stripe.transferred
    BY <1>0, <1>6 DEF OnDisputeLost
  <2>3. Orders'
    BY <1>0, <1>a, <1>b, <2>1, <2>2 DEF Orders
  <2> QED
    BY <1>a, <2>1, <2>2, <2>3, OrderStill
<1>7. CASE Reconcile
  <2>1. /\ UNCHANGED stripe /\ row'.refunded = row.refunded /\ row'.held = row.held
        /\ row.status = "created"
        /\ \/ row'.status = "authorised" /\ inbox' = inbox \cup {"authorised"}
           \/ row'.status = "cancelled" /\ inbox' = inbox
    BY <1>0, <1>7 DEF Reconcile, Authorised, Payment
  <2>2. status \in {"awaiting_payment"} \cup RELEASE /\ "authorised" \notin inbox /\ refund = Null
        /\ ~Accepted
    BY <1>0, <2>1 DEF HoldInv
  <2>3. Orders'
    BY <1>a, <1>b, <2>1, <2>2 DEF Orders
  <2> QED
    BY <1>a, <2>1, <2>3, OrderStill
<1>8. CASE Confirm \/ HoldRunsOut \/ Dispute
  <2>1. /\ UNCHANGED <<row, inbox>> /\ stripe'.refunded = stripe.refunded
        /\ stripe'.transferred = stripe.transferred
        /\ stripe'.intent = "succeeded" => stripe.intent = "succeeded"
    BY <1>0, <1>8 DEF Confirm, HoldRunsOut, Dispute
  <2> QED
    BY <1>a, <1>b, <2>1, OrderStill DEF Orders
<1> QED
  BY <1>1, <1>2, <1>3, <1>4, <1>5, <1>6, <1>7, <1>8 DEF Intents, World

\* What was held back for the bank, or is paid out at once, is the share of a booking nothing of
\* which goes back.
LEMMA OrderPaidOut ==
  ASSUME Stand, OrderInv, ~revived, UNCHANGED <<status, refund, revived, inbox>>, queue' \subseteq queue,
         status = "completed", refund \in {Null, 0}, row.status = "captured",
         row' \in {row, Paid, [Paid EXCEPT !.hold = FALSE]},
         row' = row => queue' = queue,
         stripe' = Sent(OwnerNet - Deducted)
  PROVE  OrderInv'
<1>0. row \in Payment /\ stripe \in [intent : {"none", "open", "held", "succeeded", "canceled"},
                 refunded : 0..Amount, transferred : 0..OwnerNet,
                 reversed : 0..OwnerNet, dispute : {"none", "open", "won", "lost"}]
      /\ RowInv /\ Orders /\ Moved
  BY DEF Stand, MoneyInv, TypeOK, OrderInv
<1>1. Owed = 0 /\ Owed' = 0 /\ OwnerPart(Owed)' = OwnerPart(Owed)
  BY DEF Owed, OwnerPart, Null
<1>2. Due = {OwnerNet} \cup (OwnerNet - MaxDebt)..OwnerNet /\ Due' = Due
  BY <1>1, WholeShare DEF Due
<1>3. OwnerNet - Deducted \in Due
  <2>1. debt \in 0..MaxDebt /\ MaxDebt \in Nat /\ OwnerNet \in Nat
    BY AmountAssumption DEF Stand, MoneyInv, TypeOK
  <2>2. OwnerNet - Deducted \in (OwnerNet - MaxDebt)..OwnerNet
    BY <2>1 DEF Deducted, Least
  <2> QED
    BY <1>2, <2>2
<1>4. stripe.refunded = 0 /\ row.refunded = 0
  BY <1>0, <1>1 DEF Moved, RowInv
<1>5. stripe'.intent = stripe.intent /\ stripe'.refunded = 0 /\ stripe'.transferred \in Due
  BY <1>0, <1>3, <1>4 DEF Sent, Moved
<1>6. row'.refunded = 0 /\ (row' = row \/ row'.status = "transferred")
  BY <1>0, <1>4 DEF Payment, Paid
<1>7. Moved'
  BY <1>0, <1>1, <1>2, <1>5, <1>6 DEF Moved, Ended
<1>8. Orders'
  <2>1. Accepted' => Accepted
    BY DEF Accepted
  <2> QED
    BY <1>0, <1>5, <1>6, <2>1 DEF Orders, Authorisable, FINAL, Ended, WentAhead, Null
<1> QED
  BY <1>7, <1>8 DEF OrderInv

\* A dispute won frees the hold, and pays out what was held back.
LEMMA OrderDisputeWon == ASSUME Stand, OrderInv, OnDisputeWon PROVE OrderInv'
<1> SUFFICES ASSUME ~revived' PROVE OrderInv'
  BY DEF OrderInv
<1>0. row \in Payment /\ UNCHANGED <<status, refund, revived, queue, inbox>> /\ Orders
  BY DEF Stand, MoneyInv, TypeOK, OnDisputeWon, booking, OrderInv
<1>1. CASE row.held /\ row.status = "captured" /\ stripe' = Sent(OwnerNet - Deducted)
           /\ row' \in {row, [Paid EXCEPT !.hold = FALSE]}
  <2>1. status = "completed" /\ refund \in {Null, 0}
    BY <1>0, <1>1 DEF Stand, MoneyInv, HeldWord
  <2> QED
    BY <1>0, <1>1, <2>1, OrderPaidOut
<1>2. CASE UNCHANGED stripe /\ row' \in {row, [row EXCEPT !.hold = FALSE]}
  <2>1. row'.status = row.status /\ row'.refunded = row.refunded /\ row'.held = row.held
    BY <1>0, <1>2 DEF Payment
  <2>2. Orders'
    BY <1>0, <1>2, <2>1 DEF Orders, Accepted, Ended, WentAhead, Null, WithCharge, Authorisable, FINAL
  <2> QED
    BY <1>0, <1>2, <2>1, <2>2, OrderStill
<1> QED
  BY <1>1, <1>2 DEF OnDisputeWon

\* What a handler gives back is what the booking owes, once the card was charged.
LEMMA ReturnedIsOwed ==
  ASSUME Stand, ~revived, NEW e \in queue, Refunds(e)
  PROVE  /\ Returned(e) = Owed /\ Ended /\ e.to = status
         /\ Owed \in 0..Amount /\ OwnerPart(Owed) \in Due
<1>1. refund \in {Null} \cup 0..Amount /\ Amount \in Nat /\ TypeOK
  BY AmountAssumption DEF Stand, MoneyInv, TypeOK
<1>2. e.to \in {"cancelled", "completed"} /\ (e.to = "completed" => e.refund \notin {Null, 0})
  BY DEF Refunds
<1>3. e.to = status /\ e.refund = refund
  BY <1>2 DEF Stand, MoneyInv, LastWord, FINAL
<1>4. Returned(e) = Owed
  BY <1>1, <1>2, <1>3 DEF Returned, Least, Owed, Null
<1> QED
  BY <1>1, <1>2, <1>3, <1>4, OwedTyped DEF Ended, Due

\* The handler's branches: each consumes the event it was for and no other.
LEMMA OrderStatusChanged ==
  ASSUME Stand, OrderInv, NEW e \in queue, OnStatusChanged(e)
  PROVE  OrderInv'
<1> SUFFICES ASSUME ~revived' PROVE OrderInv'
  BY DEF OrderInv
<1>0. row \in Payment /\ stripe \in [intent : {"none", "open", "held", "succeeded", "canceled"},
                 refunded : 0..Amount, transferred : 0..OwnerNet,
                 reversed : 0..OwnerNet, dispute : {"none", "open", "won", "lost"}]
      /\ HoldInv /\ ChargeInv /\ RowInv /\ ChargeKnown /\ TypeOK
  BY DEF Stand, MoneyInv, TypeOK
<1>a. /\ UNCHANGED <<status, refund, revived>> /\ ~revived
      /\ queue' \subseteq queue /\ queue' \in {queue, queue \ {e}}
  BY DEF OnStatusChanged, Capture, CaptureDeclined, Cancel, Refund, RefundOnly, HoldPayout, PayOut, Ignore,
         Ends, booking
<1>b. Orders /\ Moved
  BY <1>a DEF OrderInv
<1>c. Accepted' => Accepted
  BY <1>a DEF Accepted
<1> USE DEF settings, Null, WithCharge, Authorisable, WentAhead, Ended, FINAL, RELEASE
<1>1. CASE Capture(e)
  <2>1. /\ row'.refunded = row.refunded /\ row'.held = row.held /\ inbox' = inbox
        /\ row.status \in Authorisable
        /\ \/ row' = row /\ queue' = queue
           \/ row'.status = "captured"
    BY <1>0, <1>1 DEF Capture, Ends, Payment
  <2>2. e.to = "accepted" /\ Accepted
    BY <1>1 DEF Capture, Accepted
  <2>3. stripe'.refunded = stripe.refunded /\ stripe'.transferred = stripe.transferred
    BY <1>0, <1>1 DEF Capture
  <2>4. WentAhead /\ Ended /\ ~row.held => [to |-> status, refund |-> refund] \in queue'
    <3>1. \A f \in queue : f.to # "accepted" => f \in queue'
      BY <1>a, <2>2
    <3> QED
      BY <1>b, <2>1, <3>1 DEF Orders
  <2>5. Orders'
    <3>1. status \notin {"awaiting_payment", "requested"}
      BY <1>b, <2>2 DEF Orders
    <3>2. row'.status \in WithCharge \/ (row' = row /\ queue' = queue)
      BY <2>1
    <3>3. row'.status # "failed" \/ row' = row
      BY <2>1
    <3>4. row'.status # "cancelled"
      BY <2>1
    <3>5. status = "accepted" =>
            /\ Accepted' \/ row'.status \in WithCharge \/ "failed" \in inbox'
            /\ row'.status = "failed" => "failed" \in inbox'
      BY <1>b, <2>1, <3>2, <3>3 DEF Orders, Accepted
    <3>6. WentAhead' /\ Ended' /\ ~row'.held => [to |-> status', refund |-> refund'] \in queue'
      BY <1>a, <2>1, <2>4
    <3> QED
      BY <1>a, <3>1, <3>4, <3>5, <3>6 DEF Orders
  <2> QED
    BY <1>a, <2>1, <2>3, <2>5, OrderStill
<1>2. CASE CaptureDeclined(e)
  <2>1. /\ row'.refunded = row.refunded /\ row'.held = row.held /\ inbox' = inbox \cup {"failed"}
        /\ row'.status = "failed"
    BY <1>0, <1>2 DEF CaptureDeclined, Payment
  <2>2. e.to = "accepted" /\ Accepted
    BY <1>2 DEF CaptureDeclined, Accepted
  <2>3. stripe'.refunded = stripe.refunded /\ stripe'.transferred = stripe.transferred
    BY <1>0, <1>2 DEF CaptureDeclined
  <2>5. Orders'
    BY <1>a, <1>b, <1>c, <2>1, <2>2 DEF Orders
  <2> QED
    BY <1>a, <2>1, <2>3, <2>5, OrderStill
<1>3. CASE Cancel(e)
  <2>1. /\ row'.refunded = row.refunded /\ row'.held = row.held /\ inbox' = inbox
        /\ \/ row' = row /\ queue' = queue
           \/ row'.status = "cancelled"
    BY <1>0, <1>3 DEF Cancel, Ends, Payment
  <2>2. status \in RELEASE
    BY <1>3, <1>a DEF Cancel, Stand, MoneyInv, LastWord
  <2>3. /\ stripe'.refunded = stripe.refunded /\ stripe'.transferred = stripe.transferred
        /\ stripe'.intent = "succeeded" => stripe.intent = "succeeded"
    BY <1>0, <1>3 DEF Cancel
  <2>5. Orders'
    BY <1>a, <1>b, <1>c, <2>1, <2>2, <2>3 DEF Orders
  <2> QED
    BY <1>a, <2>1, <2>3, <2>5, OrderStill
<1>4. ASSUME Refunds(e), inbox' = inbox, stripe'.intent = stripe.intent,
             stripe'.refunded = IF stripe.refunded = 0 THEN Owed ELSE stripe.refunded,
             stripe'.transferred \in {stripe.transferred} \cup Due,
             \/ UNCHANGED <<row, queue>>
             \/ /\ row'.status \in {"refunded", "partially_refunded", "transferred"}
                /\ row'.refunded = Owed
                /\ stripe'.transferred = IF stripe.transferred = 0 THEN OwnerPart(Owed)
                                         ELSE stripe.transferred
      PROVE  OrderInv'
  <2>1. Owed' = Owed /\ Due' = Due
    BY <1>a DEF Owed, Due, OwnerPart
  <2>2. Ended /\ OwnerPart(Owed) \in Due /\ row.status = "captured"
    BY <1>4, <1>a, ReturnedIsOwed DEF Refunds
  <2>3. stripe'.refunded = Owed
    BY <1>4, <1>b DEF Moved
  <2>4. row.refunded = 0
    BY <1>0, <2>2 DEF RowInv
  <2>5. Moved'
    BY <1>4, <1>a, <1>b, <2>1, <2>2, <2>3, <2>4 DEF Moved
  <2>6. Orders'
    BY <1>4, <1>a, <1>b, <1>c, <2>2 DEF Orders
  <2> QED
    BY <2>5, <2>6 DEF OrderInv
<1>5. CASE Refund(e)
  <2> DEFINE back == Returned(e)
  <2>0. Refunds(e) /\ inbox' = inbox
    BY <1>5 DEF Refund
  <2>1. back = Owed /\ OwnerPart(Owed) \in Due
    BY <1>a, <2>0, ReturnedIsOwed
  <2>2. stripe' = [GivenBack(back) EXCEPT !.transferred = IF @ = 0 THEN OwnerPart(back) ELSE @]
    BY <1>5 DEF Refund
  <2>3. \/ UNCHANGED <<row, queue>>
        \/ row' = [row EXCEPT !.status = RefundStatus(back), !.refunded = back, !.paid = OwnerPart(back)]
    BY <1>5 DEF Refund, Ends
  <2>4. RefundStatus(back) \in {"refunded", "partially_refunded", "transferred"}
    BY DEF RefundStatus
  <2> HIDE DEF back
  <2>5. \/ UNCHANGED <<row, queue>>
        \/ row'.status = RefundStatus(back) /\ row'.refunded = back
    BY <1>0, <2>3 DEF Payment
  <2>6. /\ stripe'.intent = stripe.intent
        /\ stripe'.refunded = IF stripe.refunded = 0 THEN back ELSE stripe.refunded
        /\ stripe'.transferred = IF stripe.transferred = 0 THEN OwnerPart(back) ELSE stripe.transferred
    BY <1>0, <2>2 DEF GivenBack
  <2> QED
    BY <1>4, <2>0, <2>1, <2>4, <2>5, <2>6
<1>6. CASE RefundOnly(e)
  <2>0. Refunds(e) /\ inbox' = inbox /\ UNCHANGED <<row, queue>> /\ stripe' = GivenBack(Returned(e))
    BY <1>6 DEF RefundOnly
  <2>1. Returned(e) = Owed
    BY <1>a, <2>0, ReturnedIsOwed
  <2>2. /\ stripe'.intent = stripe.intent /\ stripe'.transferred = stripe.transferred
        /\ stripe'.refunded = IF stripe.refunded = 0 THEN Owed ELSE stripe.refunded
    BY <1>0, <2>0, <2>1 DEF GivenBack
  <2> QED
    BY <1>4, <2>0, <2>2
<1>7. CASE HoldPayout(e)
  <2>1. /\ row'.refunded = row.refunded /\ inbox' = inbox /\ UNCHANGED stripe
        /\ row'.status = row.status /\ ((row' = row /\ queue' = queue) \/ row'.held)
    BY <1>0, <1>7 DEF HoldPayout, Ends, Payment
  <2>2. status = "completed"
    BY <1>7, <1>a DEF HoldPayout, Stand, MoneyInv, LastWord
  <2>3. Orders'
    BY <1>a, <1>b, <1>c, <2>1, <2>2 DEF Orders
  <2> QED
    BY <1>a, <2>1, <2>3, OrderStill
<1>8. CASE PayOut(e)
  <2>1. /\ inbox' = inbox /\ row.status = "captured" /\ stripe' = Sent(OwnerNet - Deducted)
        /\ row' = Paid \/ (row' = row /\ queue' = queue)
        /\ e.to = "completed" /\ ~Refunds(e)
    BY <1>8 DEF PayOut, Ends
  <2>2. e.refund \in {Null, 0}
    BY <2>1 DEF Refunds
  <2>3. status = "completed" /\ refund \in {Null, 0}
    BY <1>a, <2>1, <2>2 DEF Stand, MoneyInv, LastWord
  <2>4. Paid # row
    BY <1>0, <2>1 DEF Paid, Payment
  <2> QED
    BY <1>a, <2>1, <2>3, <2>4, OrderPaidOut
<1>9. CASE Ignore(e)
  <2>1. UNCHANGED <<row, inbox, stripe>>
    BY <1>9 DEF Ignore
  <2>2. e.to = "accepted" => row.status \in {"none", "cancelled", "failed"} \cup WithCharge
    BY <1>0, <1>9 DEF Ignore, Payment
  <2>3. e.to = "accepted" /\ status = "accepted" => row.status \in WithCharge \/ "failed" \in inbox
    BY <1>0, <1>b, <2>2 DEF Orders, HoldInv
  <2>4. status = "accepted" /\ Accepted /\ ~Accepted' => e.to = "accepted"
    BY <1>a DEF Accepted
  <2>5. WentAhead /\ Ended /\ row.status \in Authorisable \cup {"captured"} => e.to # status
    BY <1>0, <1>9 DEF Ignore, Refunds, HoldInv
  <2>6. Orders'
    <3>1. \A f \in queue : f # e => f \in queue'
      BY <1>a
    <3>2. WentAhead /\ Ended /\ row.status \in Authorisable \cup {"captured"} /\ ~row.held =>
             [to |-> status, refund |-> refund] \in queue'
      BY <1>b, <2>5, <3>1 DEF Orders
    <3> QED
      BY <1>a, <1>b, <1>c, <2>1, <2>3, <2>4, <3>2 DEF Orders
  <2> QED
    BY <1>a, <2>1, <2>6, OrderStill
<1> QED
  BY <1>1, <1>2, <1>3, <1>5, <1>6, <1>7, <1>8, <1>9 DEF OnStatusChanged

\* The money as the booking's moves, the events and Stripe leave it.
StandInv == Stand /\ OrderInv

\* So every step keeps the invariant.
LEMMA StandStep == ASSUME StandInv, [Next]_vars PROVE StandInv'
<1>1. MoneyInv'
  BY MoneyStep DEF StandInv, Stand
<1>2. ChargeInv' /\ HoldInv' /\ RowInv' /\ OrderInv'
  <2>1. CASE UNCHANGED vars
    <3>1. ChargeInv' /\ HoldInv' /\ RowInv'
      BY <2>1 DEF vars, StandInv, Stand, ChargeInv, HoldInv, RowInv, WentAhead, Ended, Accepted, Null,
                  WithCharge, RELEASE
    <3>2. Orders => Orders'
      BY <2>1 DEF vars, Orders, WentAhead, Ended, Accepted, Null, WithCharge, Authorisable, FINAL
    <3>3. Moved => Moved'
      BY <2>1 DEF vars, Moved, Ended, Due, Owed, OwnerPart, Null
    <3> QED
      BY <2>1, <3>1, <3>2, <3>3 DEF vars, OrderInv, StandInv
  <2>2. CASE Next
    BY <2>2, ChargeBooking, ChargeOther, ChargeStatusChanged, OrderBooking, OrderOther,
       OrderDisputeWon, OrderStatusChanged DEF Next, Webhooks, Intents, StandInv
  <2> QED
    BY <2>1, <2>2
<1> QED
  BY <1>1, <1>2 DEF StandInv, Stand

\* The invariant: a charge means the booking went ahead, the event still to be handled is on the queue,
\* and what moved is none of what is owed or all of it.
THEOREM StandInvariant == Spec => []StandInv
<1>1. Init => StandInv
  <2> SUFFICES ASSUME Init PROVE StandInv
    OBVIOUS
  <2>1. TypeOK
    BY TypeInit
  <2>2. MoneyInv
    BY <2>1 DEF Init, MoneyInv, ChargeKnown, LastWord, HeldWord, MovedWord, NoPayment, WithCharge
  <2>3. ChargeInv /\ HoldInv /\ RowInv
    BY DEF Init, ChargeInv, HoldInv, RowInv, WentAhead, Accepted, NoPayment, RELEASE, Null
  <2>4. OrderInv
    BY DEF Init, OrderInv, Orders, Moved, WentAhead, Ended, Accepted, NoPayment, Null, FINAL
  <2> QED
    BY <2>2, <2>3, <2>4 DEF StandInv, Stand
<1>2. StandInv /\ [Next]_vars => StandInv'
  BY StandStep
<1> QED
  BY <1>1, <1>2, PTL DEF Spec

\* Of a booking that went ahead and ended, what is owed back is what its row records.
LEMMA OwedOfEnded ==
  ASSUME StandInv, ~revived, Ended, row.status \in WithCharge
  PROVE  /\ WentAhead
         /\ Owed = IF refund = Null THEN 0 ELSE refund
         /\ Owed \in 0..Amount /\ OwnerPart(Owed) \in 0..OwnerNet
         /\ stripe.transferred \in Nat /\ stripe.transferred <= OwnerPart(Owed)
         /\ stripe.refunded \in {0, Owed} /\ row.refunded \in {0, Owed}
<1>1. TypeOK /\ ChargeKnown /\ ChargeInv /\ MovedWord /\ Moved /\ RowInv
  BY DEF StandInv, Stand, MoneyInv, OrderInv
<1>2. WentAhead
  BY <1>1 DEF ChargeKnown, ChargeInv
<1>3. Owed = IF refund = Null THEN 0 ELSE refund
  BY <1>2 DEF WentAhead, Owed, Ended
<1>4. Owed \in 0..Amount /\ OwnerPart(Owed) \in 0..OwnerNet
  BY <1>1, OwedTyped, OwnerPartBounds
<1>5. stripe.transferred \in Nat /\ stripe.transferred <= OwnerPart(Owed)
  BY <1>1, <1>4, AmountAssumption DEF TypeOK, MovedWord
<1> QED
  BY <1>1, <1>2, <1>3, <1>4, <1>5 DEF Moved

\* Once the last word is handled, the row is past its capture or holds the payout back.
LEMMA LastWordHandled ==
  ASSUME StandInv, ~revived, Ended, queue = {}, row.status \in WithCharge \ {"charged_back"}, ~row.held
  PROVE  /\ stripe.refunded = Owed /\ row.refunded = Owed /\ stripe.transferred \in Due
<1>1. Orders /\ Moved
  BY DEF StandInv, OrderInv
<1>2. row.status # "captured"
  BY <1>1, OwedOfEnded DEF Orders, WithCharge
<1> QED
  BY <1>1, <1>2 DEF Moved, WithCharge

\* Nobody is charged for a booking that did not go ahead, and once what a booking said last is handled the
\* renter got back what it says and the owner their share of the rest (on_status_changed), for every price,
\* share and debt, in every order of the events, whatever crashes.
THEOREM MoneyFollows == Spec => []MoneyFollowsBooking
<1>1. StandInv => MoneyFollowsBooking
  <2> SUFFICES ASSUME StandInv PROVE ChargedWentAhead /\ SettledAsBooked
    BY DEF MoneyFollowsBooking
  <2>1. ChargedWentAhead
    BY DEF StandInv, Stand, ChargeInv, WentAhead, ChargedWentAhead
  <2>2. SettledAsBooked
    <3> DEFINE back == IF refund = Null THEN 0 ELSE refund
    <3> SUFFICES ASSUME queue = {}, status \in {"completed", "cancelled"}, ~revived,
                        row.status \in WithCharge \ {"charged_back"}, ~row.held
                 PROVE  /\ stripe.refunded = back /\ row.refunded = back
                        /\ stripe.transferred \in {OwnerPart(back)} \cup
                             (IF back = 0 THEN (OwnerPart(back) - MaxDebt)..OwnerPart(back) ELSE {})
      BY DEF SettledAsBooked
    <3>1. Owed = back
      BY OwedOfEnded DEF Ended
    <3>2. stripe.refunded = Owed /\ row.refunded = Owed /\ stripe.transferred \in Due
      BY LastWordHandled DEF Ended
    <3> QED
      BY <3>1, <3>2, WholeShare DEF Due
  <2> QED
    BY <2>1, <2>2
<1> QED
  BY <1>1, StandInvariant, PTL

---------------------------------------------------------------------------
\* What moved to the owner of a cancelled booking is their part of what is kept, and the row of a refund
\* records that part with it.
PartInv ==
  /\ ~revived /\ status = "cancelled" => stripe.transferred \in {0, OwnerPart(Owed)}
  /\ row.status \in {"refunded", "partially_refunded"} =>
       row.refunded # 0 /\ row.paid = OwnerPart(row.refunded)

\* A move of the booking leaves an ending only by reviving it.
LEMMA MovesOnce ==
  ASSUME BookingMoves \/ ReleaseUnpayable
  PROVE  /\ UNCHANGED <<row, stripe>> /\ (revived => revived')
         /\ UNCHANGED <<status, refund>> \/ status \notin FINAL \/ status' \notin FINAL
<1>1. ASSUME NEW action \in Action, Transition(action)
      PROVE  status \notin FINAL /\ UNCHANGED <<row, stripe>> /\ (revived => revived')
  <2>1. status \notin FINAL
    BY <1>1 DEF Transition, TRANSITIONS, Action, FINAL
  <2>2. PICK back : Become(TRANSITIONS[action].to, back)
    BY <1>1 DEF Transition
  <2> QED
    BY <1>1, <2>1, <2>2 DEF Transition, Become
<1>2. ASSUME NEW action \in {"expire", "auto_complete", "listing_removed"}, SystemMove(action)
      PROVE  status \notin FINAL /\ UNCHANGED <<row, stripe>> /\ (revived => revived')
  <2>1. status \notin FINAL
    BY <1>2 DEF SystemMove, Applies, SYSTEM, FINAL
  <2> QED
    BY <1>2, <2>1 DEF SystemMove, Become
<1>3. ASSUME NEW back \in 0..Amount, Settle(back)
      PROVE  status \notin FINAL /\ UNCHANGED <<row, stripe>> /\ (revived => revived')
  BY <1>3 DEF Settle, FINAL, Become
<1>4. CASE ReadAuthorised
  BY <1>4 DEF ReadAuthorised
<1>5. CASE OnAuthorised
  <2>1. CASE Applies("authorised", seen)
    <3>1. PICK action \in {"authorised", "authorised_instant"} : Become(SYSTEM[action].to, refund)
      BY <1>5, <2>1 DEF OnAuthorised
    <3>2. SYSTEM[action].to \notin FINAL
      BY DEF SYSTEM, FINAL
    <3> QED
      BY <1>5, <3>1, <3>2 DEF OnAuthorised, Become
  <2>2. CASE ~Applies("authorised", seen)
    BY <1>5, <2>2 DEF OnAuthorised
  <2> QED
    BY <2>1, <2>2
<1>6. CASE OnFailed
  BY <1>6 DEF OnFailed, Applies, SYSTEM, FINAL, Become
<1>7. CASE ReleaseUnpayable
  BY <1>7 DEF ReleaseUnpayable, FINAL, Become
<1> QED
  BY <1>1, <1>2, <1>3, <1>4, <1>5, <1>6, <1>7 DEF BookingMoves

\* The other steps leave the booking, and what moved and was recorded of it, or are a payout of a
\* completed booking, a refund, or a payout the bank freed.
LEMMA PartStill ==
  ASSUME PartInv, UNCHANGED <<status, refund, revived>>, stripe'.transferred = stripe.transferred,
         row'.status \in {"refunded", "partially_refunded"} =>
           row'.status = row.status /\ row'.paid = row.paid /\ row'.refunded = row.refunded
  PROVE  PartInv'
  BY DEF PartInv, Owed, OwnerPart

LEMMA PartStep == ASSUME StandInv, PartInv, [Next]_vars PROVE PartInv'
<1>1. TypeOK /\ row \in Payment
  BY DEF StandInv, Stand, MoneyInv, TypeOK
<1>2. ~revived => LastWord /\ HeldWord /\ MovedWord
  BY DEF StandInv, Stand, MoneyInv
<1>3. CASE UNCHANGED vars
  BY <1>3, PartStill DEF vars
<1>4. CASE BookingMoves \/ ReleaseUnpayable
  <2>1. /\ UNCHANGED <<row, stripe>> /\ (revived => revived')
        /\ UNCHANGED <<status, refund>> \/ status \notin FINAL \/ status' \notin FINAL
    BY <1>4, MovesOnce
  <2>2. CASE UNCHANGED <<status, refund>>
    BY <2>1, <2>2 DEF PartInv, Owed, OwnerPart
  <2>3. CASE status' \notin FINAL
    BY <2>1, <2>3 DEF PartInv, FINAL, OwnerPart
  <2>4. ASSUME status \notin FINAL, ~revived PROVE stripe.transferred = 0
    BY <1>1, <1>2, <2>4 DEF MovedWord, FINAL, TypeOK
  <2>5. CASE status \notin FINAL
    BY <2>1, <2>4, <2>5 DEF PartInv, OwnerPart
  <2> QED
    BY <2>1, <2>2, <2>3, <2>5
<1>5. CASE Intents /\ ~ReleaseUnpayable
  <2>1. UNCHANGED booking /\ stripe'.transferred = stripe.transferred
    BY <1>1, <1>5 DEF Intents, Ask, MakeIntent, StoreIntent, DropAsk, TypeOK
  <2>2. row' = row \/ row'.status = "created"
    BY <1>1, <1>5 DEF Intents, Ask, MakeIntent, StoreIntent, DropAsk, Payment
  <2> QED
    BY <2>1, <2>2, PartStill DEF booking
<1>6. CASE Reconcile \/ World \/ OnCapturable
  <2>1. UNCHANGED booking /\ stripe'.transferred = stripe.transferred
    BY <1>1, <1>6 DEF Reconcile, World, Confirm, HoldRunsOut, Dispute, Switch, OtherBookings, OnCapturable, TypeOK
  <2>2. row' = row \/ row'.status \in {"authorised", "cancelled"}
    BY <1>1, <1>6 DEF Reconcile, World, Confirm, HoldRunsOut, Dispute, Switch, OtherBookings, OnCapturable,
                      Authorised, Payment
  <2> QED
    BY <2>1, <2>2, PartStill DEF booking
<1>7. CASE OnDisputeOpened
  <2>1. row'.status = row.status /\ row'.paid = row.paid /\ row'.refunded = row.refunded
    BY <1>1, <1>7 DEF OnDisputeOpened, Payment
  <2> QED
    BY <1>7, <2>1, PartStill DEF OnDisputeOpened, booking
<1>8. CASE OnDisputeLost
  <2>1. stripe'.transferred = stripe.transferred
    BY <1>1, <1>8 DEF OnDisputeLost, TypeOK
  <2>2. row' = row \/ row'.status = "charged_back"
    BY <1>1, <1>8 DEF OnDisputeLost, Payment
  <2> QED
    BY <1>8, <2>1, <2>2, PartStill DEF OnDisputeLost, booking
<1>9. CASE OnDisputeWon
  <2>1. CASE row.held /\ row.status = "captured"
    <3>1. ~revived => status = "completed"
      BY <1>2, <2>1 DEF HeldWord
    <3>2. UNCHANGED <<status, refund, revived>>
      BY <1>9 DEF OnDisputeWon, booking
    <3>3. row'.status \in {"captured", "transferred"}
      BY <1>1, <1>9, <2>1 DEF OnDisputeWon, Paid, Payment
    <3> QED
      BY <3>1, <3>2, <3>3 DEF PartInv
  <2>2. CASE ~(row.held /\ row.status = "captured")
    <3>1. row'.status = row.status /\ row'.paid = row.paid /\ row'.refunded = row.refunded
      BY <1>1, <1>9, <2>2 DEF OnDisputeWon, Payment
    <3> QED
      BY <1>9, <2>2, <3>1, PartStill DEF OnDisputeWon, booking
  <2> QED
    BY <2>1, <2>2
<1>10. ASSUME NEW e \in queue, OnStatusChanged(e) PROVE PartInv'
  <2>1. UNCHANGED <<status, refund, revived>>
    BY <1>10 DEF OnStatusChanged, Capture, CaptureDeclined, Cancel, Refund, RefundOnly, HoldPayout, PayOut,
                 Ignore, booking
  <2>2. CASE Capture(e) \/ CaptureDeclined(e) \/ Cancel(e) \/ HoldPayout(e) \/ Ignore(e)
    <3>1. stripe'.transferred = stripe.transferred
      BY <1>1, <2>2 DEF Capture, CaptureDeclined, Cancel, HoldPayout, Ignore, TypeOK
    <3>2. \/ row' = row \/ row'.status \in {"captured", "failed", "cancelled"}
      BY <1>1, <2>2 DEF Capture, CaptureDeclined, Cancel, HoldPayout, Ignore, Ends, Payment
    <3> QED
      BY <2>1, <3>1, <3>2, PartStill
  <2>3. CASE Refund(e)
    <3>1. ~revived => OwnerPart(Returned(e)) = OwnerPart(Owed)
      BY <2>3, ReturnedIsOwed DEF Refund, StandInv
    <3>2. stripe'.transferred \in {stripe.transferred, OwnerPart(Returned(e))}
      BY <1>1, <2>3 DEF Refund, GivenBack, TypeOK
    <3>3. \/ row' = row
          \/ /\ row'.paid = OwnerPart(Returned(e)) /\ row'.refunded = Returned(e)
             /\ row'.status = RefundStatus(Returned(e))
      BY <1>1, <2>3 DEF Refund, Ends, Payment
    <3>4. Returned(e) = 0 => RefundStatus(Returned(e)) = "transferred"
      BY AmountAssumption DEF RefundStatus
    <3> QED
      BY <2>1, <3>1, <3>2, <3>3, <3>4 DEF PartInv, Owed, OwnerPart
  <2>4. CASE RefundOnly(e)
    BY <1>1, <2>1, <2>4, PartStill DEF RefundOnly, GivenBack, TypeOK
  <2>5. CASE PayOut(e)
    <3>1. ~revived => status = "completed"
      BY <1>2, <2>5 DEF PayOut, LastWord, FINAL
    <3>2. row'.status \in {"captured", "transferred"}
      BY <1>1, <2>5 DEF PayOut, Ends, Paid, Payment
    <3> QED
      BY <2>1, <3>1, <3>2 DEF PartInv
  <2> QED
    BY <1>10, <2>2, <2>3, <2>4, <2>5 DEF OnStatusChanged
<1> QED
  BY <1>3, <1>4, <1>5, <1>6, <1>7, <1>8, <1>9, <1>10 DEF Next, Webhooks, Intents

\* A refund or a transfer that a crash or a refused second call left out of the row has its event still to
\* come, which asks for the same, and what the row records of a refund is what moved: for every price, share
\* and debt, wherever a handler dies (on_status_changed).
THEOREM HalfDoneFinishes == Spec => []HalfDoneIsFinished
<1>1. Init => PartInv
  BY DEF Init, PartInv, NoPayment
<1>2. StandInv /\ PartInv /\ [Next]_vars => PartInv'
  BY PartStep
<1>3. StandInv /\ PartInv => HalfDoneIsFinished
  <2> SUFFICES ASSUME StandInv, PartInv, ~revived
               PROVE  /\ Unrecorded => row.held \/ \E e \in queue : e.to \in {"completed", "cancelled"}
                      /\ \A e \in queue : Refunds(e) =>
                           /\ stripe.refunded \in {0, Returned(e)}
                           /\ stripe.transferred \in {0, OwnerPart(Returned(e))}
                      /\ row.status \in {"refunded", "partially_refunded"} =>
                           row.refunded = stripe.refunded /\ row.paid = stripe.transferred
    BY DEF HalfDoneIsFinished
  <2>1. Orders /\ Moved /\ MovedWord /\ ChargeKnown /\ ChargeInv /\ RowInv /\ TypeOK /\ row \in Payment
    BY DEF StandInv, Stand, OrderInv, MoneyInv, TypeOK
  <2>2. ASSUME Unrecorded, ~row.held PROVE \E e \in queue : e.to \in {"completed", "cancelled"}
    <3>1. Ended /\ WentAhead
      BY <2>1, <2>2 DEF Unrecorded, MovedWord, Ended, ChargeKnown, ChargeInv, WentAhead
    <3>2. [to |-> status, refund |-> refund] \in queue
      BY <2>1, <2>2, <3>1 DEF Orders, Unrecorded
    <3> QED
      BY <3>1, <3>2 DEF Ended
  <2>3. ASSUME NEW e \in queue, Refunds(e)
        PROVE  stripe.refunded \in {0, Returned(e)} /\ stripe.transferred \in {0, OwnerPart(Returned(e))}
    <3>1. Returned(e) = Owed /\ Ended /\ e.to = status
      BY <2>3, ReturnedIsOwed DEF StandInv
    <3>2. CASE status = "cancelled"
      BY <2>1, <3>1, <3>2 DEF PartInv, Moved
    <3>3. CASE status = "completed"
      <4>1. Owed # 0
        BY <2>3, <3>1, <3>3 DEF Refunds, StandInv, Stand, MoneyInv, LastWord, FINAL, Owed
      <4> QED
        BY <2>1, <3>1, <4>1 DEF Moved, Due
    <3> QED
      BY <3>1, <3>2, <3>3 DEF Ended
  <2>4. ASSUME row.status \in {"refunded", "partially_refunded"}
        PROVE  row.refunded = stripe.refunded /\ row.paid = stripe.transferred
    <3>1. stripe.refunded = Owed /\ row.refunded = Owed /\ stripe.transferred \in Due
      BY <2>1, <2>4 DEF Moved
    <3>2. row.paid = OwnerPart(Owed) /\ Owed # 0
      BY <2>4, <3>1 DEF PartInv
    <3> QED
      BY <2>1, <2>4, <3>1, <3>2 DEF Due
  <2> QED
    BY <2>2, <2>3, <2>4
<1> QED
  BY <1>1, <1>2, <1>3, StandInvariant, PTL DEF Spec

---------------------------------------------------------------------------
\* What the pages say of the money.

\* booking's reckoning of a booking that went ahead.
LEMMA ReckoningOfCharged ==
  ASSUME TypeOK, WentAhead
  PROVE  /\ MoneyOf.charged = Amount
         /\ refund = Null => MoneyOf = Money(Amount, 0)
         /\ refund # Null => MoneyOf = Money(Amount, refund)
<1>1. refund \in {Null} \cup 0..Amount /\ Amount \in Nat
  BY AmountAssumption DEF TypeOK
<1>2. status \in Captured \/ (status = "cancelled" /\ refund # Null)
  BY DEF WentAhead, Captured
<1> QED
  BY <1>1, <1>2 DEF MoneyOf, Money, Least

\* The list, the page and the sums of a booking that ended.
LEMMA SumsProved == ASSUME StandInv PROVE SumsAgree
<1> SUFFICES ASSUME ~revived, queue = {}, Ended, row.status \in WithCharge \ {"charged_back"}
             PROVE  /\ MoneyOf = Detail
                    /\ Spent = Amount - stripe.refunded
                    /\ AmountOf(FALSE) = IF Spent = 0 THEN Null ELSE Spent
                    /\ Panel = IF Spent = 0 THEN "refunded" ELSE "paid"
                    /\ stripe.transferred <= Earned
  BY DEF SumsAgree, Ended
<1>1. TypeOK /\ RowInv /\ HeldWord /\ Amount \in Nat \ {0}
  BY AmountAssumption DEF StandInv, Stand, MoneyInv
<1>2. /\ WentAhead /\ Owed = (IF refund = Null THEN 0 ELSE refund) /\ Owed \in 0..Amount
      /\ stripe.transferred <= OwnerPart(Owed)
      /\ stripe.refunded \in {0, Owed} /\ row.refunded \in {0, Owed}
  BY OwedOfEnded
<1>3. stripe.refunded = Owed /\ row.refunded = Owed
  <2>1. CASE row.held
    BY <1>1, <1>2, <2>1 DEF HeldWord
  <2> QED
    BY <1>2, <2>1, LastWordHandled
<1>4. MoneyOf = Money(Amount, Owed)
  BY <1>1, <1>2, ReckoningOfCharged
<1>5. Detail = Money(Amount, Owed)
  BY <1>3 DEF Detail, PaymentsMoney, WithCharge
<1>6. Spent = Amount - Owed /\ MoneyOf.charged = Amount /\ Detail.charged = Amount
      /\ Kept(Detail) = Amount - Owed
  BY <1>4, <1>5 DEF Spent, Kept, Money
<1>7. MoneyOf.share = OwnerPart(Owed)
  BY <1>4 DEF Money, OwnerPart
<1>8. AmountOf(FALSE) = IF Spent = 0 THEN Null ELSE Spent
  <2>1. Spent \in Nat /\ Kept(MoneyOf) = Spent /\ status \notin Live
    BY <1>1, <1>2, <1>6 DEF Spent, Live, Ended
  <2> QED
    BY <2>1 DEF AmountOf
<1>9. Panel = IF Spent = 0 THEN "refunded" ELSE "paid"
  BY <1>1, <1>2, <1>6 DEF Panel
<1> QED
  BY <1>2, <1>3, <1>4, <1>5, <1>6, <1>7, <1>8, <1>9 DEF Earned, Ended

\* A charge is shown.
LEMMA ChargeShown == ASSUME StandInv PROVE ChargeIsShown
<1> SUFFICES ASSUME stripe.intent = "succeeded"
             PROVE MoneyOf.charged = Amount /\ (Banner = "nothing charged" => refund = 0)
  BY DEF ChargeIsShown
<1>1. WentAhead /\ TypeOK
  BY DEF StandInv, Stand, ChargeInv, MoneyInv
<1>2. Banner = "nothing charged" => refund = 0
  BY <1>1 DEF Banner, WentAhead, RELEASE
<1> QED
  BY <1>1, <1>2, ReckoningOfCharged

\* What the lists ask for and announce.
LEMMA ListsProved == ASSUME StandInv PROVE ListsAgree
<1> SUFFICES ASSUME ~revived
    PROVE  /\ NextUp(FALSE) = "Finish paying" => stripe.intent # "succeeded"
           /\ \/ NextUp(TRUE) = "Answer this request" \/ HandoverShown
              \/ StepsShown /\ Reached # {}
              => row.status \notin {"none", "created"}
           /\ stripe.transferred > 0 =>
                /\ Section = "none" /\ Upcoming = 0 /\ Tab = "Past"
                /\ ~(refund = Amount /\ Decided = "not paid out to you")
           /\ status = "completed" /\ Decided = "your payout is on its way" => stripe.refunded = 0
           /\ queue = {} /\ inbox = {} /\ Pill(TRUE) = "Confirmed" => Panel = "paid"
           /\ Row(FALSE) = "Nothing charged" => Row(TRUE) = "Nothing charged" /\ stripe.intent # "succeeded"
  BY DEF ListsAgree
<1>0. /\ TypeOK /\ ChargeInv /\ HoldInv /\ RowInv /\ Orders /\ Moved /\ MovedWord
      /\ refund \in {Null} \cup 0..Amount /\ Amount \in Nat \ {0} /\ OwnerNet \in Nat /\ status \in Status
      /\ stripe.refunded \in 0..Amount /\ stripe.transferred \in 0..OwnerNet
  BY AmountAssumption DEF StandInv, Stand, MoneyInv, OrderInv, TypeOK
<1>1. NextUp(FALSE) = "Finish paying" => stripe.intent # "succeeded"
  BY <1>0 DEF NextUp, ChargeInv, WentAhead
<1>2. status \notin {"awaiting_payment"} \cup RELEASE => row.status \notin {"none", "created"}
  BY <1>0 DEF HoldInv
<1>3. \/ NextUp(TRUE) = "Answer this request" \/ HandoverShown
      \/ StepsShown /\ Reached # {}
      => row.status \notin {"none", "created"}
  <2>1. NextUp(TRUE) = "Answer this request" => status = "requested"
    BY <1>0 DEF NextUp
  <2>2. HandoverShown => status \in {"accepted", "active", "disputed"}
    BY DEF HandoverShown
  <2>3. StepsShown /\ Reached # {} => status \in {"requested", "accepted", "active", "completed"}
    BY DEF StepsShown, Reached, Steps
  <2> QED
    BY <1>2, <2>1, <2>2, <2>3 DEF RELEASE
<1>4. ASSUME stripe.transferred > 0
      PROVE  /\ Section = "none" /\ Upcoming = 0 /\ Tab = "Past"
             /\ ~(refund = Amount /\ Decided = "not paid out to you")
  <2>1. status \in {"completed", "cancelled"} /\ stripe.transferred <= OwnerPart(Owed)
    BY <1>0, <1>4 DEF MovedWord
  <2>2. Section = "none" /\ Upcoming = 0 /\ Tab = "Past"
    BY <2>1 DEF Section, Upcoming, Tab, Live
  <2>3. refund # Amount
    <3>1. SUFFICES ASSUME refund = Amount PROVE FALSE
      OBVIOUS
    <3>2. Owed = Amount
      BY <1>0, <3>1 DEF Owed, Null
    <3>3. OwnerPart(Amount) \in 0..(Amount - Amount)
      BY <1>0, OwnerPartBounds
    <3> QED
      BY <1>0, <1>4, <2>1, <3>2, <3>3
  <2> QED
    BY <2>2, <2>3
<1>5. status = "completed" /\ Decided = "your payout is on its way" => stripe.refunded = 0
  BY <1>0 DEF Decided, Moved, Owed
<1>6. queue = {} /\ inbox = {} /\ Pill(TRUE) = "Confirmed" => Panel = "paid"
  <2>1. Pill(TRUE) = "Confirmed" => status = "accepted"
    <3>1. /\ StatusPill["awaiting_payment"] # "Confirmed"
          /\ StatusPill["requested"] # "Confirmed"
          /\ StatusPill["active"] # "Confirmed"
          /\ StatusPill["completed"] # "Confirmed"
          /\ StatusPill["declined"] # "Confirmed"
          /\ StatusPill["cancelled"] # "Confirmed"
          /\ StatusPill["expired"] # "Confirmed"
          /\ StatusPill["payment_failed"] # "Confirmed"
          /\ StatusPill["disputed"] # "Confirmed"
      BY DEF StatusPill
    <3>2. Pill(TRUE) = "Confirmed" => StatusPill[status] = "Confirmed"
      BY <1>0 DEF Pill
    <3> QED
      BY <1>0, <3>1, <3>2 DEF Status
  <2>2. ASSUME queue = {}, inbox = {}, status = "accepted" PROVE Panel = "paid"
    <3>2. row.status \in WithCharge
      BY <1>0, <2>2 DEF Orders, Accepted
    <3>3. row.refunded = 0
      BY <2>2, NothingMovedYet DEF StandInv, FINAL
    <3>4. Detail.charged = Amount /\ Kept(Detail) = Amount
      BY <1>0, <3>2, <3>3 DEF Detail, PaymentsMoney, Money, Kept, WithCharge
    <3> QED
      BY <1>0, <3>4 DEF Panel
  <2> QED
    BY <2>1, <2>2
<1>7. Row(FALSE) = "Nothing charged" => Row(TRUE) = "Nothing charged" /\ stripe.intent # "succeeded"
  <2>1. /\ WentAhead => MoneyOf.charged > 0
        /\ stripe.intent = "succeeded" => WentAhead
    BY <1>0, ReckoningOfCharged DEF ChargeInv
  <2>2. ~WentAhead => MoneyOf.charged = 0 /\ Kept(MoneyOf) = 0
    <3>1. ~WentAhead => status \notin Captured /\ ~(status = "cancelled" /\ refund # Null)
      BY DEF WentAhead, Captured
    <3>2. (IF refund = Null THEN 0 ELSE Least(0, refund)) = 0
      BY <1>0 DEF Least
    <3> QED
      BY <3>1, <3>2 DEF MoneyOf, Money, Kept
  <2>3. Row(FALSE) = "Nothing charged" => ~(MoneyOf.charged > 0) /\ AmountOf(FALSE) = Null
    BY DEF Row
  <2>4. Kept(MoneyOf) = 0 /\ AmountOf(FALSE) = Null => status \notin Live
    BY <1>0 DEF AmountOf, Quote, Null
  <2>5. Kept(MoneyOf) = 0 /\ status \notin Live => AmountOf(TRUE) = Null
    BY DEF AmountOf
  <2>6. MoneyOf.charged = 0 /\ AmountOf(TRUE) = Null => Row(TRUE) = "Nothing charged"
    BY DEF Row
  <2> QED
    BY <2>1, <2>2, <2>3, <2>4, <2>5, <2>6, Zenon
<1> QED
  BY <1>1, <1>3, <1>4, <1>5, <1>6, <1>7

\* Staff's case.
LEMMA CaseProved == ASSUME StandInv PROVE CaseIsTrue
<1> SUFFICES ASSUME ~revived
    PROVE  /\ Case.captured > 0 => stripe.intent = "succeeded"
           /\ Case.refunded <= stripe.refunded
           /\ Case.paidOut > 0 => stripe.transferred > 0
           /\ Case.says = "Hold released" => stripe.intent # "held"
           /\ InCases => Case.refunded = 0 /\ Case.paidOut = 0
  BY DEF CaseIsTrue
<1>0. /\ ChargeKnown /\ ChargeInv /\ RowInv /\ Moved /\ MovedWord
      /\ row \in Payment /\ Amount \in Nat /\ OwnerNet \in Nat
      /\ stripe.refunded \in 0..Amount /\ stripe.transferred \in 0..OwnerNet
  BY AmountAssumption DEF StandInv, Stand, MoneyInv, OrderInv, TypeOK
<1>1. Case.captured > 0 => stripe.intent = "succeeded"
  BY <1>0 DEF Case, ChargeKnown
<1>2. Case.refunded = row.refunded /\ Case.paidOut = row.paid
  BY DEF Case
<1>3. Case.refunded <= stripe.refunded
  BY <1>0, <1>2 DEF Moved
<1>4. Case.paidOut > 0 => stripe.transferred > 0
  BY <1>0, <1>2 DEF RowInv
<1>5. Case.says = "Hold released" => stripe.intent # "held"
  <2>1. Case.says = "Hold released" => row.status = "cancelled"
    <3>1. /\ PaymentStatus["created"] # "Hold released"
          /\ PaymentStatus["authorised"] # "Hold released"
          /\ PaymentStatus["captured"] # "Hold released"
          /\ PaymentStatus["refunded"] # "Hold released"
          /\ PaymentStatus["partially_refunded"] # "Hold released"
          /\ PaymentStatus["transferred"] # "Hold released"
          /\ PaymentStatus["failed"] # "Hold released"
          /\ {"none", "charged_back"} \cap DOMAIN PaymentStatus = {}
      BY DEF PaymentStatus
    <3>2. row.status \in {"none", "created", "authorised", "cancelled", "failed"} \cup WithCharge
      BY <1>0 DEF Payment
    <3>3. Case.says = IF row.status \in DOMAIN PaymentStatus THEN PaymentStatus[row.status] ELSE row.status
      BY DEF Case
    <3> QED
      BY <3>1, <3>2, <3>3 DEF WithCharge
  <2> QED
    BY <1>0, <2>1 DEF ChargeInv
<1>6. InCases => Case.refunded = 0 /\ Case.paidOut = 0
  <2> SUFFICES ASSUME InCases PROVE row.refunded = 0 /\ row.paid = 0
    BY <1>2
  <2>1. row.refunded = 0 /\ stripe.transferred = 0
    BY NothingMovedYet DEF InCases, StandInv, FINAL
  <2> QED
    BY <1>0, <2>1 DEF RowInv, Payment
<1> QED
  BY <1>1, <1>3, <1>4, <1>5, <1>6

\* What every page says of the money is what happened to it (money_of, payments_money, pricing.ts,
\* AdminCases): on both sides, in every order of the events and after every crash.
THEOREM PagesTellTheTruth == Spec => []PagesTellTheMoney
<1>1. StandInv => PagesTellTheMoney
  BY SumsProved, ChargeShown, ListsProved, CaseProved DEF PagesTellTheMoney
<1> QED
  BY <1>1, StandInvariant, PTL
=============================================================================
