----------------------------- MODULE Statement -----------------------------
(***************************************************************************)
(* What the pages of the app say of the money that Settlement moves.       *)
(*                                                                         *)
(* The list of bookings, the sums under You and Earn, and every answer     *)
(* that payments does not reach in time, show what booking works out from  *)
(* its own row.  The page of one booking shows what payments has recorded. *)
(* Neither asks Stripe.                                                    *)
(***************************************************************************)
EXTENDS Settlement, Sequences

Money(charged, refunded) ==
  [charged |-> charged, refunded |-> refunded,
   share |-> ((charged - refunded) * OwnerNet) \div Amount]

\* money_of: booking's reckoning, from the status and refund_amount.
Captured == {"accepted", "active", "completed", "disputed"}

\* Wrong on purpose: what is kept of a cancelled booking is forgotten.
MoneyOfLive ==
  LET charged == IF status \in Captured THEN Amount ELSE 0
  IN Money(charged, IF refund = Null THEN 0 ELSE Least(charged, refund))

MoneyOf ==
  LET charged == IF status \in Captured \/ (status = "cancelled" /\ refund # Null)
                   THEN Amount ELSE 0
  IN Money(charged, IF refund = Null THEN 0 ELSE Least(charged, refund))

\* payments_money: what payments answers for a row it has.
PaymentsMoney == Money(IF row.status \in WithCharge THEN Amount ELSE 0, row.refunded)

\* get_booking: booking's own figures where payments knows nothing.
Detail == IF row.status = "none" THEN MoneyOf ELSE PaymentsMoney

Kept(m) == m.charged - m.refunded

Live == {"awaiting_payment", "requested", "accepted", "active", "disputed"}

Quote(hosting) == IF hosting THEN OwnerNet ELSE Amount

\* amountOf: the price of what is coming, of the past what stayed; Null is
\* "Refunded" or "Nothing charged".
AmountOf(hosting) ==
  LET m == MoneyOf IN
  IF Kept(m) > 0 THEN (IF hosting THEN m.share ELSE Kept(m))
  ELSE IF status \in Live THEN Quote(hosting) ELSE Null

\* The list of bookings: what a row says of its money, and of its state.
Row(hosting) ==
  IF AmountOf(hosting) # Null THEN "an amount"
  ELSE IF MoneyOf.charged > 0 THEN "Refunded" ELSE "Nothing charged"

\* statusPill, and what a host reads instead.
StatusPill ==
  [awaiting_payment |-> "Authorising payment", requested |-> "Waiting for reply",
   accepted |-> "Confirmed", active |-> "In progress", completed |-> "Rate it",
   declined |-> "Declined", cancelled |-> "Cancelled", expired |-> "Expired",
   payment_failed |-> "Payment failed", disputed |-> "Under review"]

Pill(hosting) ==
  IF hosting /\ status = "requested" THEN "Needs your answer"
  ELSE IF hosting /\ status = "completed" THEN "Finished" ELSE StatusPill[status]

Tab == IF status \in Live THEN "Upcoming" ELSE "Past"

\* "Next up": what this booking asks of the reader.
NextUp(hosting) ==
  CASE status = "requested" /\ hosting -> "Answer this request"
    [] status = "awaiting_payment" /\ ~hosting -> "Finish paying"
    [] status = "active" -> "In progress now"
    [] status = "accepted" -> "Next hand-over"
    [] status = "completed" /\ ~hosting -> "Rate how it went"
    [] OTHER -> "none"

\* The lists under Earn, and the two sums there; the sum under You.
Section ==
  CASE status = "requested" -> "Requests"
    [] status \in {"accepted", "active"} -> "Coming up"
    [] status = "disputed" -> "Payout on hold"
    [] OTHER -> "none"

Upcoming == IF Section = "Coming up" THEN OwnerNet ELSE 0
Earned == IF status \in {"completed", "cancelled"} THEN MoneyOf.share ELSE 0
Spent  == Kept(MoneyOf)

\* The banner of a booking that ended, of nobody's no-show: what it says.
Banner ==
  CASE status = "cancelled" /\ refund \notin {Null, 0} -> "refunded"
    [] status \in RELEASE /\ (status # "cancelled" \/ refund \in {Null, 0}) -> "nothing charged"
    [] OTHER -> "on"

\* "What you agreed".
Panel ==
  IF Detail.charged = 0
    THEN IF status \in {"awaiting_payment", "requested"} THEN "held" ELSE "nothing: hold released"
    ELSE IF Kept(Detail) <= 0 THEN "refunded" ELSE "paid"

\* The steps of a booking under way: how far it got.  Past the hand-over the
\* address is there too.
Steps == <<"requested", "accepted", "active", "completed">>
StepsShown == status \notin (FINAL \ {"completed"}) \cup {"disputed"}
Reached == {i \in DOMAIN Steps : \E j \in i..Len(Steps) : Steps[j] = status}
HandoverShown == status \in {"accepted", "active", "disputed"}

\* DisputeDecided, of a report that was settled: what the owner reads.
Decided ==
  IF status = "cancelled" THEN "not paid out to you"
  ELSE IF refund \notin {Null, 0} THEN "you are paid the rest"
  ELSE "your payout is on its way"

\* Staff's case: where the money of a booking stands, as payments has it.  What
\* has no words there is shown as it is stored.
PaymentStatus ==
  [created |-> "Waiting for the card", authorised |-> "Card held", captured |-> "Charged",
   refunded |-> "Refunded", partially_refunded |-> "Partly refunded",
   transferred |-> "Paid out", cancelled |-> "Hold released", failed |-> "Failed"]

Case ==
  [says |-> IF row.status \in DOMAIN PaymentStatus THEN PaymentStatus[row.status] ELSE row.status,
   captured |-> IF row.status \in WithCharge THEN Amount ELSE 0,
   refunded |-> row.refunded, paidOut |-> row.paid]

\* The cases listed at first: what is disputed, with its amount.
InCases == status = "disputed"

---------------------------------------------------------------------------
(* What is claimed of it. *)

\* Once everything announced is handled, the list, the page and the sums of a
\* booking that went ahead say what Stripe kept and what it gave back, on both
\* sides, to the minor unit, and they say the same ("the same rule on lists",
\* pricing.ts): whatever overtook what, however often it was repeated.  What
\* the owner owed before is taken from a payout and not from what is shown.
SumsAgree ==
  (/\ ~revived /\ queue = {} /\ status \in {"completed", "cancelled"}
   /\ row.status \in WithCharge \ {"charged_back"})
  => /\ MoneyOf = Detail
     /\ Spent = Amount - stripe.refunded
     /\ AmountOf(FALSE) = IF Spent = 0 THEN Null ELSE Spent
     /\ Panel = IF Spent = 0 THEN "refunded" ELSE "paid"
     /\ stripe.transferred <= Earned

\* A page never says that nothing was charged, and an amount is never left out,
\* of a booking whose card was charged: not while a capture is being recorded,
\* not after a crash between Stripe and the row.  (A cancellation that kept
\* everything is the exception: its banner says so all the same.)
ChargeIsShown ==
  stripe.intent = "succeeded" /\ ~revived =>
    /\ MoneyOf.charged = Amount
    /\ Banner = "nothing charged" => refund = 0

\* What the lists ask for and announce fits what has happened to the money, in
\* every order of the events between the two services: nobody is told to finish
\* paying what was charged, no owner is asked, and no address or step shown,
\* before payments knew of a hold; "Earned means paid out" (Earn.tsx), so what
\* has been paid out is not to come and not on hold; what a report's outcome
\* promises the owner is what they get; and a booking that reads "Confirmed"
\* with nothing left to hear about it has been paid.
ListsAgree ==
  ~revived =>
    /\ NextUp(FALSE) = "Finish paying" => stripe.intent # "succeeded"
    /\ \/ NextUp(TRUE) = "Answer this request" \/ HandoverShown
       \/ StepsShown /\ Reached # {}
       => row.status \notin {"none", "created"}
    /\ stripe.transferred > 0 =>
         /\ Section = "none" /\ Upcoming = 0 /\ Tab = "Past"
         /\ ~(refund = Amount /\ Decided = "not paid out to you")
    /\ status = "completed" /\ Decided = "your payout is on its way" => stripe.refunded = 0
    /\ queue = {} /\ inbox = {} /\ Pill(TRUE) = "Confirmed" => Panel = "paid"
    /\ Row(FALSE) = "Nothing charged" => Row(TRUE) = "Nothing charged" /\ stripe.intent # "succeeded"

\* What staff read before they decide is never ahead of Stripe: nothing is shown
\* as charged, given back or paid out that was not, a listed case has nothing
\* paid out or given back, and "Hold released" is said of no card that is still
\* held.  (How much was paid out can be shown too high: what the owner owes may
\* change between a payout that crashed and its repeat.)
CaseIsTrue ==
  ~revived =>
    /\ Case.captured > 0 => stripe.intent = "succeeded"
    /\ Case.refunded <= stripe.refunded
    /\ Case.paidOut > 0 => stripe.transferred > 0
    /\ Case.says = "Hold released" => stripe.intent # "held"
    /\ InCases => Case.refunded = 0 /\ Case.paidOut = 0

\* Together: what the pages say of the money is what happened to it.
PagesTellTheMoney == SumsAgree /\ ChargeIsShown /\ ListsAgree /\ CaseIsTrue

---------------------------------------------------------------------------
(* What the repository's documents say, and the code does not quite do. *)

\* FEATURES.md: "Nothing: hold released" is shown when nothing was charged, and
\* the hold is released then.
ReleasedIsReleased == Panel = "nothing: hold released" => stripe.intent \notin {"held", "succeeded"}
=============================================================================
