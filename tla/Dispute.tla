------------------------------ MODULE Dispute -------------------------------
(***************************************************************************)
(* One booking in dispute, settled by whoever comes first: the two sides   *)
(* offer and accept (DisputeOffers in BookingExtras.tsx, make_offer and    *)
(* accept_offer in booking/support.py), or staff decide, alone up to their *)
(* limit and with a second pair of eyes above it (AdminCases.tsx, _resolve,*)
(* approve, reject, withdraw).  Everybody acts on a page read earlier, and *)
(* the time a request is under way counts into the age of that page; the   *)
(* sweep hands a dispute past its deadline to staff.                       *)
(***************************************************************************)
EXTENDS Naturals, FiniteSets

CONSTANTS Total,         \* the price of the booking, in minor units
          Support, Lead, \* staff, by role
          LimitSupport, LimitLead, \* the refund each role decides alone (markets.json)
          MaxOffer,      \* offers made
          MaxResolution  \* resolutions written


Party == {"renter", "owner"}

VARIABLES
    status,      \* the booking: "disputed", then "completed" or "cancelled"
    offer,       \* the offer on the table: a set of at most one [by, amount]
    overdue,     \* respond_by has passed
    escalated,   \* handed to staff
    resolutions, \* booking_resolutions
    made,        \* resolutions written so far
    offers,      \* offers made so far
    page,        \* per party: the dispute and its offer as their page last read them
    desk         \* per staff member: the case and the proposals as their pages last read them

vars == <<status, offer, overdue, escalated, resolutions, made, offers, page, desk>>
pages == <<page, desk>>

Staff == Support \cup Lead
Amount == 0 .. Total
Offer == [by: Party, amount: Amount]
Resolution ==
    [id: 1 .. MaxResolution, by: Party \cup Staff, refund: Amount, shown: Amount,
     st: {"done", "pending_approval", "rejected", "withdrawn"}, approvedBy: SUBSET Staff]

TypeOK ==
    /\ status \in {"disputed", "completed", "cancelled"}
    /\ offer \subseteq Offer /\ overdue \in BOOLEAN /\ escalated \in BOOLEAN
    /\ resolutions \subseteq Resolution /\ made \in 0 .. MaxResolution /\ offers \in 0 .. MaxOffer
    /\ page \in [Party -> [open: BOOLEAN, offer: SUBSET Offer]]
    /\ desk \in [Staff -> [open: BOOLEAN, waiting: SUBSET (1 .. MaxResolution)]]

Waiting == {r \in resolutions : r.st = "pending_approval"}
Done == {r \in resolutions : r.st = "done"}

Init ==
    /\ status = "disputed" /\ offer = {} /\ overdue = FALSE /\ escalated = FALSE
    /\ resolutions = {} /\ made = 0 /\ offers = 0
    /\ page = [p \in Party |-> [open |-> TRUE, offer |-> {}]]
    /\ desk = [m \in Staff |-> [open |-> TRUE, waiting |-> {}]]

\* The queries are read again: after every request, and when the page is opened or focused.
ReadPage(p) ==
    /\ page' = [page EXCEPT ![p] = [open |-> status = "disputed", offer |-> offer]]
    /\ UNCHANGED <<status, offer, overdue, escalated, resolutions, made, offers, desk>>

ReadDesk(m) ==
    /\ desk' = [desk EXCEPT ![m] = [open |-> status = "disputed", waiting |-> {r.id : r \in Waiting}]]
    /\ UNCHANGED <<status, offer, overdue, escalated, resolutions, made, offers, page>>

-----------------------------------------------------------------------------
(* What the two sides and staff do.  Each handler holds the booking's row; *)
(* one that refuses changes nothing, and the page stays as it was.         *)

Limit(m) == IF m \in Lead THEN LimitLead ELSE LimitSupport

\* settle: all of it back is a cancelled booking, anything less a completed one.
Settled(refund) == status' = (IF refund = Total THEN "cancelled" ELSE "completed")

Write(x, refund, shown, st) ==
    /\ made' = made + 1
    /\ resolutions' = resolutions \cup
         {[id |-> made + 1, by |-> x, refund |-> refund, shown |-> shown, st |-> st, approvedBy |-> {}]}

Changed(r, st, m) == resolutions' = (resolutions \ {r}) \cup {[r EXCEPT !.st = st, !.approvedBy = m]}

\* DisputeOffers and make_offer: between nothing and the price; replaces the offer on the table
\* and starts the other side's time again.
MakeOffer(p, a) ==
    /\ page[p].open /\ status = "disputed" /\ offers < MaxOffer
    /\ offer' = {[by |-> p, amount |-> a]} /\ overdue' = FALSE /\ offers' = offers + 1
    /\ UNCHANGED <<status, escalated, resolutions, made, pages>>

\* accept_offer: the other side's, and still the amount that was shown.
Stands(p, a) == \E o \in offer : o.by # p /\ o.amount = a

\* "Accept {amount}": the amount on the page is sent back.
Accept(p, seen) ==
    /\ page[p].open /\ seen \in page[p].offer /\ seen.by # p
    /\ status = "disputed" /\ Stands(p, seen.amount) /\ made < MaxResolution
    /\ \E o \in offer : Write(p, o.amount, seen.amount, "done") /\ Settled(o.amount)
    /\ UNCHANGED <<offer, overdue, escalated, offers, pages>>

\* The form and _resolve: one decision waits at a time.
MayResolve(m) == desk[m].open /\ desk[m].waiting = {} /\ status = "disputed" /\ Waiting = {} /\ made < MaxResolution

\* Within the limit at once, above it for a second staff member.
Resolve(m, a) ==
    /\ MayResolve(m)
    /\ IF a <= Limit(m) THEN Write(m, a, a, "done") /\ Settled(a)
       ELSE Write(m, a, a, "pending_approval") /\ UNCHANGED status
    /\ UNCHANGED <<offer, overdue, escalated, offers, pages>>

\* _pending: on the page, and still waiting.
Pending(m) == {r \in Waiting : r.id \in desk[m].waiting}

\* Wrong on purpose: one's own proposal counts as looked at.
MayApproveOwn(m, r) == m \in Lead \/ r.refund <= LimitSupport

\* A lead may approve, anybody else up to their limit; settle refuses a booking settled meanwhile,
\* and the whole of it is undone.
MayApprove(m, r) == r.by # m /\ (m \in Lead \/ r.refund <= LimitSupport)
Approve(m) ==
    /\ status = "disputed"
    /\ \E r \in Pending(m) : MayApprove(m, r) /\ Changed(r, "done", {m}) /\ Settled(r.refund)
    /\ UNCHANGED <<offer, overdue, escalated, made, offers, pages>>

Reject(m) ==
    /\ \E r \in Pending(m) : r.by # m /\ Changed(r, "rejected", {m})
    /\ UNCHANGED <<status, offer, overdue, escalated, made, offers, pages>>

\* The proposer takes it back.
Withdraw(m) ==
    /\ \E r \in Pending(m) : r.by = m /\ Changed(r, "withdrawn", {})
    /\ UNCHANGED <<status, offer, overdue, escalated, made, offers, pages>>

\* The clock reaches respond_by, and the sweep escalate_due finds it passed.
TimePasses ==
    /\ ~overdue /\ overdue' = TRUE
    /\ UNCHANGED <<status, offer, escalated, resolutions, made, offers, pages>>

Escalate ==
    /\ status = "disputed" /\ overdue /\ ~escalated /\ escalated' = TRUE
    /\ UNCHANGED <<status, offer, overdue, resolutions, made, offers, pages>>

-----------------------------------------------------------------------------
Parties ==
    \E p \in Party :
        \/ ReadPage(p)
        \/ \E a \in Amount : MakeOffer(p, a)
        \/ \E o \in page[p].offer : Accept(p, o)
StaffActs ==
    \E m \in Staff : ReadDesk(m) \/ Approve(m) \/ Reject(m) \/ Withdraw(m) \/ \E a \in Amount : Resolve(m, a)
Next == Parties \/ StaffActs \/ TimePasses \/ Escalate

Spec == Init /\ [][Next]_vars

\* The clock and booking's sweep go on (jobs.py sweep_forever).
FairSpec == Spec /\ WF_vars(TimePasses) /\ WF_vars(Escalate)

-----------------------------------------------------------------------------
\* A dispute is decided once, whoever comes first: two sides agreeing, one staff member and a
\* second one approving never both move the money, and the booking says what was decided.
DecidedOnce ==
    /\ \A r, s \in Done : r = s
    /\ status # "disputed" <=> Done # {}
    /\ \A r \in Done : status = "cancelled" <=> r.refund = Total

\* Nobody accepts an offer that changed under them: what the two sides settle on is the amount the
\* accepting side's page showed, offered by the other side (support.py accept_offer).
AgreedAsShown == \A r \in Done : r.by \in Party => r.refund = r.shown /\ \E o \in offer : o.amount = r.refund /\ o.by # r.by

\* A refund above what its proposer may decide moves only when somebody else looked at it.
FourEyes ==
    \A r \in Done : r.by \in Staff /\ r.refund > Limit(r.by) =>
        \E m \in r.approvedBy : m # r.by /\ (m \in Lead \/ r.refund <= LimitSupport)

\* One decision at a time: a second proposal never waits beside the first (AdminCases.tsx V6-10).
OneProposalWaits == \A r, s \in Waiting : r = s

\* Together: one decision, agreed on or looked at as it must be.
OneDecision == DecidedOnce /\ FourEyes /\ OneProposalWaits /\ AgreedAsShown

\* "someone else, whose limit covers the refund (a lead's does, up to theirs; two leads together,
\* anything)" (support.py approve_resolution).
ApprovedWithinLimits ==
    \A r \in Done : r.by \in Staff /\ r.refund > Limit(r.by) =>
        \A m \in r.approvedBy : r.refund <= Limit(m) \/ {m, r.by} \subseteq Lead

\* A dispute the sides do not settle goes to staff: each offer starts the time again, and after
\* the last of them the sweep finds the deadline passed.
Open == status = "disputed"
OverdueGoesToStaff == Open ~> escalated \/ ~Open
=============================================================================
