---------------------------- MODULE RequestProofs -----------------------------
(***************************************************************************)
(* Proofs about five of the machines of MCDesk, those whose requests meet  *)
(* other requests: a dispute, the claims of a late return, a form with its *)
(* idempotency keys, the save of a schedule beside the job that rolls it   *)
(* on, and that of a hand-over's photos beside the sweep.  Each is proved  *)
(* for every value of its constants; DeskProofs has the other three, and   *)
(* takes all eight to MCDesk.                                              *)
(*                                                                         *)
(* A dispute is decided once because whatever writes a decision finds the  *)
(* booking still disputed and settles it in the same step, and the offer   *)
(* that was agreed on cannot change after it.  Assumed there: amounts and  *)
(* bounds are numbers, and nobody of staff is a side of the booking, both  *)
(* of which MCDesk's assumptions give.                                     *)
(***************************************************************************)
EXTENDS MCDesk, FiniteSetTheorems, SequenceTheorems, TLAPS

\* What TLC evaluates of the bounds, one by one.
LEMMA Bounds ==
  /\ MaxKey \in Nat \ {0} /\ MaxWish \in Nat \ {0} /\ MaxCopy \in Nat \ {0} /\ LastDay \in Nat \ {0}
  /\ MaxSlot \in Nat \ {0} /\ MaxPost \in Nat \ {0} /\ MaxPhotos \in Nat \ {0} /\ MaxPick \in Nat \ {0}
  /\ MaxEdit \in Nat \ {0} /\ MaxSend \in Nat \ {0} /\ MaxDecide \in Nat \ {0} /\ MaxSheet \in Nat \ {0}
  /\ MaxAct \in Nat \ {0} /\ MaxOffer \in Nat \ {0} /\ MaxResolution \in Nat \ {0}
BY BoundsArePositive

---------------------------------------------------------------------------
(* A dispute.                                                              *)

Sizes ==
    /\ Total \in Nat /\ LimitSupport \in Nat /\ LimitLead \in Nat
    /\ MaxOffer \in Nat /\ MaxResolution \in Nat

Apart == Party \cap Staff = {}

---------------------------------------------------------------------------
(* The inductive invariant.                                                *)

\* Only staff propose what waits, and one offer is on the table at most.
ProposedByStaff == \A r \in Waiting : r.by \in Staff
OneOffer == \A o, q \in offer : o = q

DisputeInv == TypeOK /\ OneDecision /\ ProposedByStaff /\ OneOffer

\* It holds when the dispute is opened.
LEMMA InvInit ==
  ASSUME Sizes, Init
  PROVE  DisputeInv
<1>1. TypeOK
  <2>1. /\ status = "disputed" /\ offer = {} /\ overdue = FALSE /\ escalated = FALSE
        /\ resolutions = {} /\ made = 0 /\ offers = 0 /\ 0 \in 0 .. MaxResolution /\ 0 \in 0 .. MaxOffer
    BY DEF Init, Sizes
  <2>2. page \in [Party -> [open: BOOLEAN, offer: SUBSET Offer]]
    BY DEF Init
  <2>3. desk \in [Staff -> [open: BOOLEAN, waiting: SUBSET (1 .. MaxResolution)]]
    BY DEF Init
  <2> QED
    BY <2>1, <2>2, <2>3 DEF TypeOK
<1>2. Done = {} /\ Waiting = {} /\ offer = {}
  BY DEF Init, Done, Waiting
<1> QED
  BY <1>1, <1>2 DEF Init, DisputeInv, OneDecision, DecidedOnce, FourEyes, OneProposalWaits,
                    AgreedAsShown, ProposedByStaff, OneOffer

---------------------------------------------------------------------------
(* What the two ways of writing do to what is done and what waits.         *)

\* A new resolution is done or waits, beside what is there.
LEMMA WriteAdds ==
  ASSUME TypeOK, NEW x \in Party \cup Staff, NEW refund \in Amount, NEW agreed \in Amount,
         NEW st \in {"done", "pending_approval"}, made < MaxResolution, Write(x, refund, agreed, st),
         Sizes
  PROVE  /\ resolutions' \subseteq Resolution /\ made' \in 0 .. MaxResolution
         /\ \E n \in Resolution :
              /\ n.by = x /\ n.refund = refund /\ n.shown = agreed
              /\ Done' = IF st = "done" THEN Done \cup {n} ELSE Done
              /\ Waiting' = IF st = "done" THEN Waiting ELSE Waiting \cup {n}
<1> DEFINE n == [id |-> made + 1, by |-> x, refund |-> refund, shown |-> agreed, st |-> st, approvedBy |-> {}]
<1>1. made + 1 \in 1 .. MaxResolution /\ made' \in 0 .. MaxResolution
  BY DEF TypeOK, Write, Sizes
<1>2. n \in Resolution
  BY <1>1 DEF Resolution
<1>3. resolutions' = resolutions \cup {n}
  BY DEF Write
<1>4. n.by = x /\ n.refund = refund /\ n.shown = agreed /\ n.st = st
  OBVIOUS
<1> HIDE DEF n
<1>5. /\ Done' = IF st = "done" THEN Done \cup {n} ELSE Done
      /\ Waiting' = IF st = "done" THEN Waiting ELSE Waiting \cup {n}
  BY <1>3, <1>4 DEF Done, Waiting
<1> QED
  BY <1>1, <1>2, <1>3, <1>4, <1>5 DEF TypeOK

\* A proposal that is looked at or taken back no longer waits; approved, it is done as it was proposed.
LEMMA ChangedMoves ==
  ASSUME TypeOK, NEW r \in Waiting, NEW st \in {"done", "rejected", "withdrawn"},
         NEW m \in SUBSET Staff, Changed(r, st, m)
  PROVE  /\ resolutions' \subseteq Resolution /\ Waiting' = Waiting \ {r}
         /\ \E n \in Resolution :
              /\ n.by = r.by /\ n.refund = r.refund /\ n.shown = r.shown /\ n.approvedBy = m
              /\ Done' = IF st = "done" THEN Done \cup {n} ELSE Done
<1> DEFINE n == [r EXCEPT !.st = st, !.approvedBy = m]
<1>1. r \in Resolution /\ r.st = "pending_approval"
  BY DEF Waiting, TypeOK
<1>2. n \in Resolution
  BY <1>1 DEF Resolution
<1>3. n.by = r.by /\ n.refund = r.refund /\ n.shown = r.shown /\ n.approvedBy = m /\ n.st = st
  BY <1>1 DEF Resolution
<1>4. resolutions' = (resolutions \ {r}) \cup {n}
  BY DEF Changed
<1> HIDE DEF n
<1>5. Waiting' = Waiting \ {r} /\ Done' = IF st = "done" THEN Done \cup {n} ELSE Done
  BY <1>1, <1>3, <1>4 DEF Done, Waiting
<1> QED
  BY <1>2, <1>3, <1>4, <1>5 DEF TypeOK

\* A first decision, by a side that agreed or by staff with the eyes it takes, is the only one.
LEMMA DecisionIsOne ==
  ASSUME Apart, DisputeInv, status = "disputed", UNCHANGED offer, NEW n \in Resolution,
         Done' = Done \cup {n}, Waiting' \subseteq Waiting, Settled(n.refund),
         n.by \in Party => n.refund = n.shown /\ \E o \in offer : o.amount = n.refund /\ o.by # n.by,
         n.by \in Staff /\ n.refund > Limit(n.by) =>
            \E m \in n.approvedBy : m # n.by /\ (m \in Lead \/ n.refund <= LimitSupport)
  PROVE  OneDecision' /\ ProposedByStaff' /\ OneOffer'
<1> USE DEF DisputeInv
<1>1. Done' = {n}
  BY DEF OneDecision, DecidedOnce
<1>2. status' # "disputed" /\ (status' = "cancelled" <=> n.refund = Total)
  BY DEF Settled
<1>3. DecidedOnce'
  BY <1>1, <1>2 DEF DecidedOnce
<1>4. FourEyes' /\ AgreedAsShown'
  BY <1>1 DEF FourEyes, AgreedAsShown, Limit
<1>5. OneProposalWaits' /\ ProposedByStaff' /\ OneOffer'
  BY DEF OneDecision, OneProposalWaits, ProposedByStaff, OneOffer
<1> QED
  BY <1>3, <1>4, <1>5 DEF OneDecision

\* A step that decides nothing keeps what was decided.
LEMMA NothingDecided ==
  ASSUME DisputeInv, UNCHANGED status, Done' = Done,
         offer' = offer \/ (status = "disputed" /\ \E o \in Offer : offer' = {o}),
         Waiting' \subseteq Waiting \/ \E n \in Resolution : Waiting' = {n} /\ n.by \in Staff
  PROVE  OneDecision' /\ ProposedByStaff' /\ OneOffer'
<1> USE DEF DisputeInv, OneDecision
<1>1. DecidedOnce' /\ FourEyes'
  BY DEF DecidedOnce, FourEyes, Limit
<1>2. AgreedAsShown'
  <2>1. CASE offer' = offer
    BY <2>1 DEF AgreedAsShown
  <2>2. CASE status = "disputed"
    BY <2>2 DEF AgreedAsShown, DecidedOnce
  <2> QED
    BY <2>1, <2>2
<1>3. OneProposalWaits' /\ ProposedByStaff' /\ OneOffer'
  BY DEF OneProposalWaits, ProposedByStaff, OneOffer
<1> QED
  BY <1>1, <1>2, <1>3

---------------------------------------------------------------------------
(* The steps.                                                              *)

\* The two sides: pages read, offers made, one accepted.
LEMMA InvParties ==
  ASSUME Sizes, Apart, DisputeInv, Parties
  PROVE  DisputeInv'
<1> USE DEF DisputeInv
<1>1. PICK p \in Party : \/ ReadPage(p)
                         \/ \E a \in Amount : MakeOffer(p, a)
                         \/ \E o \in page[p].offer : Accept(p, o)
  BY DEF Parties
<1>2. CASE ReadPage(p)
  <2>1. UNCHANGED <<status, offer, resolutions>> /\ Done' = Done /\ Waiting' = Waiting
    BY <1>2 DEF ReadPage, Done, Waiting
  <2>2. TypeOK'
    BY <1>2 DEF ReadPage, TypeOK
  <2> QED
    BY <2>1, <2>2, NothingDecided
<1>3. ASSUME NEW a \in Amount, MakeOffer(p, a) PROVE DisputeInv'
  <2>1. UNCHANGED <<status, resolutions>> /\ Done' = Done /\ Waiting' = Waiting
    BY <1>3 DEF MakeOffer, Done, Waiting
  <2>2. status = "disputed" /\ [by |-> p, amount |-> a] \in Offer /\ offer' = {[by |-> p, amount |-> a]}
    BY <1>3 DEF MakeOffer, Offer
  <2>3. TypeOK'
    <3>1. offers' \in 0 .. MaxOffer /\ offer' \subseteq Offer
      BY <1>3, <2>2 DEF MakeOffer, TypeOK, Sizes
    <3>2. overdue' = FALSE /\ UNCHANGED <<status, escalated, resolutions, made, page, desk>>
      BY <1>3 DEF MakeOffer, pages
    <3> QED
      BY <3>1, <3>2 DEF TypeOK
  <2> QED
    BY <2>1, <2>2, <2>3, NothingDecided
<1>4. ASSUME NEW seen \in page[p].offer, Accept(p, seen) PROVE DisputeInv'
  <2>1. status = "disputed" /\ made < MaxResolution /\ Stands(p, seen.amount)
        /\ UNCHANGED <<offer, overdue, escalated, offers, page, desk>>
    BY <1>4 DEF Accept, pages
  <2>2. PICK o \in offer : Write(p, o.amount, seen.amount, "done") /\ Settled(o.amount)
    BY <1>4 DEF Accept
  <2>3. o.by # p /\ o.amount = seen.amount /\ o.amount \in Amount
    BY <2>1, <2>2 DEF Stands, OneOffer, TypeOK, Offer
  <2>4. resolutions' \subseteq Resolution /\ made' \in 0 .. MaxResolution
    BY <2>1, <2>2, <2>3, WriteAdds
  <2>5. PICK n \in Resolution : n.by = p /\ n.refund = o.amount /\ n.shown = seen.amount
                                /\ Done' = Done \cup {n} /\ Waiting' = Waiting
    BY <2>1, <2>2, <2>3, WriteAdds
  <2>6. n.by \notin Staff
    BY <2>5 DEF Apart
  <2>7. OneDecision' /\ ProposedByStaff' /\ OneOffer'
    BY <2>1, <2>2, <2>3, <2>5, <2>6, DecisionIsOne
  <2>8. TypeOK'
    BY <2>1, <2>2, <2>4 DEF TypeOK, Settled
  <2> QED
    BY <2>7, <2>8
<1> QED
  BY <1>1, <1>2, <1>3, <1>4

\* Staff: cases read, decisions and proposals, and what the others do with those.
LEMMA InvStaff ==
  ASSUME Sizes, Apart, DisputeInv, StaffActs
  PROVE  DisputeInv'
<1> USE DEF DisputeInv
<1>1. PICK m \in Staff : \/ ReadDesk(m) \/ Approve(m) \/ Reject(m) \/ Withdraw(m)
                         \/ \E a \in Amount : Resolve(m, a)
  BY DEF StaffActs
<1>2. CASE ReadDesk(m)
  <2>1. UNCHANGED <<status, offer, resolutions>> /\ Done' = Done /\ Waiting' = Waiting
    BY <1>2 DEF ReadDesk, Done, Waiting
  <2>2. {r.id : r \in Waiting} \subseteq 1 .. MaxResolution
    BY DEF Waiting, TypeOK, Resolution
  <2>3. TypeOK'
    BY <1>2, <2>2 DEF ReadDesk, TypeOK
  <2> QED
    BY <2>1, <2>3, NothingDecided
<1>3. CASE Approve(m)
  <2>1. status = "disputed" /\ UNCHANGED <<offer, overdue, escalated, made, offers, page, desk>>
    BY <1>3 DEF Approve, pages
  <2>2. PICK r \in Waiting : MayApprove(m, r) /\ Changed(r, "done", {m}) /\ Settled(r.refund)
    BY <1>3 DEF Approve, Pending
  <2>3. resolutions' \subseteq Resolution /\ Waiting' = Waiting \ {r}
    BY <2>2, ChangedMoves
  <2>4. PICK n \in Resolution : n.by = r.by /\ n.refund = r.refund /\ n.approvedBy = {m}
                                /\ Done' = Done \cup {n}
    BY <2>2, ChangedMoves
  <2>5. n.by \notin Party
    BY <2>4 DEF ProposedByStaff, Apart
  <2>6. m # n.by /\ (m \in Lead \/ n.refund <= LimitSupport)
    BY <2>2, <2>4 DEF MayApprove
  <2>7. OneDecision' /\ ProposedByStaff' /\ OneOffer'
    BY <2>1, <2>2, <2>3, <2>4, <2>5, <2>6, DecisionIsOne
  <2>8. TypeOK'
    BY <2>1, <2>2, <2>3 DEF TypeOK, Settled
  <2> QED
    BY <2>7, <2>8
<1>4. CASE Reject(m) \/ Withdraw(m)
  <2>1. UNCHANGED <<status, offer, overdue, escalated, made, offers, page, desk>>
    BY <1>4 DEF Reject, Withdraw, pages
  <2>2. PICK r \in Waiting, st \in {"rejected", "withdrawn"}, eyes \in SUBSET Staff : Changed(r, st, eyes)
    BY <1>4 DEF Reject, Withdraw, Pending
  <2>3. resolutions' \subseteq Resolution /\ Waiting' = Waiting \ {r} /\ Done' = Done
    BY <2>2, ChangedMoves
  <2>4. TypeOK'
    BY <2>1, <2>3 DEF TypeOK
  <2> QED
    BY <2>1, <2>3, <2>4, NothingDecided
<1>5. ASSUME NEW a \in Amount, Resolve(m, a) PROVE DisputeInv'
  <2>1. status = "disputed" /\ Waiting = {} /\ made < MaxResolution
        /\ UNCHANGED <<offer, overdue, escalated, offers, page, desk>>
    BY <1>5 DEF Resolve, MayResolve, pages
  <2>2. CASE a <= Limit(m) /\ Write(m, a, a, "done") /\ Settled(a)
    <3>1. resolutions' \subseteq Resolution /\ made' \in 0 .. MaxResolution
      BY <2>1, <2>2, WriteAdds
    <3>2. PICK n \in Resolution : n.by = m /\ n.refund = a /\ Done' = Done \cup {n} /\ Waiting' = Waiting
      BY <2>1, <2>2, WriteAdds
    <3>3. n.by \notin Party
      BY <3>2 DEF Apart
    <3>4. ~(n.refund > Limit(n.by))
      BY <2>2, <3>2 DEF Limit, Sizes, Amount
    <3>5. OneDecision' /\ ProposedByStaff' /\ OneOffer'
      BY <2>1, <2>2, <3>2, <3>3, <3>4, DecisionIsOne
    <3>6. TypeOK'
      BY <2>1, <2>2, <3>1 DEF TypeOK, Settled
    <3> QED
      BY <3>5, <3>6
  <2>3. CASE Write(m, a, a, "pending_approval") /\ UNCHANGED status
    <3>1. resolutions' \subseteq Resolution /\ made' \in 0 .. MaxResolution
      BY <2>1, <2>3, WriteAdds
    <3>2. PICK n \in Resolution : n.by = m /\ Done' = Done /\ Waiting' = Waiting \cup {n}
      BY <2>1, <2>3, WriteAdds
    <3>3. Waiting' = {n} /\ n.by \in Staff
      BY <2>1, <3>2
    <3>4. OneDecision' /\ ProposedByStaff' /\ OneOffer'
      BY <2>1, <2>3, <3>2, <3>3, NothingDecided
    <3>5. TypeOK'
      BY <2>1, <2>3, <3>1 DEF TypeOK
    <3> QED
      BY <3>4, <3>5
  <2> QED
    BY <1>5, <2>2, <2>3 DEF Resolve
<1> QED
  BY <1>1, <1>2, <1>3, <1>4, <1>5

\* Any step keeps it.
LEMMA InvNext ==
  ASSUME Sizes, Apart, DisputeInv, [Next]_vars
  PROVE  DisputeInv'
<1> USE DEF DisputeInv
<1>1. CASE Parties
  BY <1>1, InvParties
<1>2. CASE StaffActs
  BY <1>2, InvStaff
<1>3. CASE TimePasses \/ Escalate \/ UNCHANGED vars
  <2>1. UNCHANGED <<status, offer, resolutions>> /\ Done' = Done /\ Waiting' = Waiting
    BY <1>3 DEF TimePasses, Escalate, vars, Done, Waiting
  <2>2. TypeOK'
    BY <1>3 DEF TimePasses, Escalate, vars, pages, TypeOK
  <2> QED
    BY <2>1, <2>2, NothingDecided
<1> QED
  BY <1>1, <1>2, <1>3 DEF Next

---------------------------------------------------------------------------

\* Every variable keeps its type, whatever the sides, staff and the sweep do.
THEOREM DisputeTyped ==
  ASSUME Sizes, Apart
  PROVE  Spec => []TypeOK
<1>1. Init => DisputeInv
  BY InvInit
<1>2. DisputeInv /\ [Next]_vars => DisputeInv'
  BY InvNext
<1>3. DisputeInv => TypeOK
  BY DEF DisputeInv
<1> QED
  BY <1>1, <1>2, <1>3, PTL DEF Spec

\* A dispute ends in one decision: the amount the two sides had on their pages, or a refund that as
\* many of staff looked at as its size takes, and one proposal waits at a time.
THEOREM DecidedOnceAsItMust ==
  ASSUME Sizes, Apart
  PROVE  Spec => []OneDecision
<1>1. Init => DisputeInv
  BY InvInit
<1>2. DisputeInv /\ [Next]_vars => DisputeInv'
  BY InvNext
<1>3. DisputeInv => OneDecision
  BY DEF DisputeInv
<1> QED
  BY <1>1, <1>2, <1>3, PTL DEF Spec

---------------------------------------------------------------------------
(* The claims of a late return.                                            *)

\* The rows and the notices tell one story: nothing, filed, or filed and decided once.
Story ==
    \/ claims = <<>> /\ notices = <<>>
    \/ claims = <<"open">> /\ notices = <<"filed">>
    \/ \E d \in C!Final : claims = <<d>> /\ notices = <<"filed", d>>

\* Decisions under way are decisions of staff, and who was told of one was told what is recorded.
Told ==
    /\ decisions \subseteq [who : Clerk, is : C!Final]
    /\ toasts \in [Clerk -> SUBSET C!Final]
    /\ \A s \in Clerk : \A d \in toasts[s] : claims = <<d>>

ClaimsInv == Story /\ Told

\* It holds before anything was claimed.
LEMMA ClaimsInit == C!Init => ClaimsInv
BY DEF C!Init, ClaimsInv, Story, Told

\* A report, heard or lost, first or repeated, adds a row only where there was none.
LEMMA ClaimsReport ==
  ASSUME ClaimsInv, NEW n \in reports, C!ReportLateReturn(n)
  PROVE  ClaimsInv'
<1> USE DEF ClaimsInv
<1>1. UNCHANGED <<toasts, decisions>>
  BY DEF C!ReportLateReturn, C!staff
<1>2. CASE clock = "day" /\ claims = <<>>
  <2>1. claims' = <<"open">> /\ notices = <<>>
    BY <1>2 DEF C!ReportLateReturn, Story, C!Final
  <2>2. notices' = <<"filed">>
    BY <1>2, <2>1 DEF C!ReportLateReturn
  <2>3. \A s \in Clerk : toasts[s] = {}
    BY <1>2 DEF Told
  <2> QED
    BY <1>1, <2>1, <2>2, <2>3 DEF Story, Told
<1>3. CASE ~(clock = "day" /\ claims = <<>>)
  BY <1>1, <1>3 DEF C!ReportLateReturn, C!store, Story, Told
<1> QED
  BY <1>2, <1>3

\* A decision changes the row only while it is open, and only then is anybody told of it.
LEMMA ClaimsDecide ==
  ASSUME ClaimsInv, NEW c \in decisions, C!DecideClaim(c)
  PROVE  ClaimsInv'
<1> USE DEF ClaimsInv
<1>1. c.who \in Clerk /\ c.is \in C!Final /\ decisions' \subseteq [who : Clerk, is : C!Final]
  BY DEF Told, C!DecideClaim
<1>2. CASE C!MayBeDecided
  <2>1. claims = <<"open">> /\ notices = <<"filed">>
    BY <1>2 DEF C!MayBeDecided, Story, C!Final
  <2>2. claims' = <<c.is>>
    BY <1>2, <2>1 DEF C!DecideClaim
  <2>3. notices' = <<"filed", c.is>>
    BY <1>2, <2>1 DEF C!DecideClaim
  <2>4. \A s \in Clerk : toasts[s] = {}
    BY <2>1 DEF Told, C!Final
  <2>5. PICK heard \in {{c.is}, {}} : toasts' = [toasts EXCEPT ![c.who] = @ \cup heard]
    BY <1>2 DEF C!DecideClaim
  <2>6. toasts' \in [Clerk -> SUBSET C!Final] /\ \A s \in Clerk : toasts'[s] \subseteq {c.is}
    BY <1>1, <2>4, <2>5 DEF Told
  <2> QED
    BY <1>1, <2>2, <2>3, <2>6 DEF Story, Told
<1>3. CASE ~C!MayBeDecided
  BY <1>1, <1>3 DEF C!DecideClaim, C!store, Story, Told
<1> QED
  BY <1>2, <1>3

\* Any step keeps it.
LEMMA ClaimsNext == ClaimsInv /\ [C!Next]_(C!vars) => ClaimsInv'
<1> SUFFICES ASSUME ClaimsInv, [C!Next]_(C!vars) PROVE ClaimsInv'
  OBVIOUS
<1> USE DEF C!store, C!owner, C!staff, ClaimsInv, Story, Told
<1>1. CASE C!Tick \/ C!ReadClaims \/ C!OpenSheet \/ C!CloseSheet \/ C!SendReport \/ C!GiveUp
  BY <1>1 DEF C!Tick, C!ReadClaims, C!OpenSheet, C!CloseSheet, C!SendReport, C!GiveUp
<1>2. CASE \E n \in reports : C!ReportLateReturn(n)
  BY <1>2, ClaimsReport
<1>3. CASE \E c \in decisions : C!DecideClaim(c)
  BY <1>3, ClaimsDecide
<1>4. CASE \E s \in Clerk : C!ReadCase(s)
  BY <1>4 DEF C!ReadCase
<1>5. CASE \E s \in Clerk, d \in C!Final : C!Decide(s, d)
  BY <1>5 DEF C!Decide
<1>6. CASE UNCHANGED C!vars
  BY <1>6 DEF C!vars
<1> QED
  BY <1>1, <1>2, <1>3, <1>4, <1>5, <1>6 DEF C!Next

---------------------------------------------------------------------------

\* However often the owner reports it, one late return is claimed of a booking.
THEOREM ClaimedOnce == C!Spec => []C!OneClaim
<1>1. C!Init => ClaimsInv
  BY ClaimsInit
<1>2. ClaimsInv /\ [C!Next]_(C!vars) => ClaimsInv'
  BY ClaimsNext
<1>3. ClaimsInv => C!OneClaim
  <2>1. claims = <<>> => Len(claims) <= 1
    OBVIOUS
  <2>2. \A x : claims = <<x>> => Len(claims) <= 1
    OBVIOUS
  <2> QED
    BY <2>1, <2>2 DEF ClaimsInv, Story, C!OneClaim
<1> QED
  BY <1>1, <1>2, <1>3, PTL DEF C!Spec

\* The story of one row has at most one outcome in it, the one that is recorded.
LEMMA StoryHasOneOutcome == ClaimsInv => C!OutcomeIsOne
<1> SUFFICES ASSUME ClaimsInv PROVE C!OutcomeIsOne
  OBVIOUS
<1> DEFINE Outcomes == {i \in DOMAIN notices : notices[i] \in C!Final}
<1>1. \A i \in DOMAIN notices : notices[i] \in C!Final => i = 2 /\ claims = <<notices[i]>>
  <2>1. CASE claims = <<>> /\ notices = <<>>
    BY <2>1
  <2>2. CASE claims = <<"open">> /\ notices = <<"filed">>
    BY <2>2 DEF C!Final
  <2>3. ASSUME NEW d \in C!Final, claims = <<d>>, notices = <<"filed", d>>
        PROVE  \A i \in DOMAIN notices : notices[i] \in C!Final => i = 2 /\ claims = <<notices[i]>>
    <3>1. DOMAIN notices = {1, 2} /\ notices[1] = "filed" /\ notices[2] = d
      BY <2>3
    <3> QED
      BY <2>3, <3>1 DEF C!Final
  <2> QED
    BY <2>1, <2>2, <2>3 DEF ClaimsInv, Story
<1>2. Outcomes = {} \/ Outcomes = {2}
  BY <1>1
<1>3. Cardinality(Outcomes) <= 1
  <2>1. Cardinality({}) = 0 /\ Cardinality({2}) = 1
    BY FS_EmptySet, FS_Singleton
  <2> HIDE DEF Outcomes
  <2>2. Cardinality(Outcomes) \in {0, 1}
    BY <1>2, <2>1
  <2> QED
    BY <2>2
<1> QED
  <2>1. \A s \in Clerk : \A d \in toasts[s] : claims = <<d>>
    BY DEF ClaimsInv, Told
  <2>2. \A i \in DOMAIN notices : notices[i] \in C!Final => claims = <<notices[i]>>
    BY <1>1
  <2>3. C!Cardinality(Outcomes) = Cardinality(Outcomes)
    BY DEF C!Cardinality, Cardinality
  <2> QED
    BY <1>3, <2>1, <2>2, <2>3, Zenon DEF C!OutcomeIsOne

\* Two of staff may decide the claim at once: one of them is heard, and the parties are told that outcome.
THEOREM OutcomeOnce == C!Spec => []C!OutcomeIsOne
<1>1. C!Init => ClaimsInv
  BY ClaimsInit
<1>2. ClaimsInv /\ [C!Next]_(C!vars) => ClaimsInv'
  BY ClaimsNext
<1>3. ClaimsInv => C!OutcomeIsOne
  BY StoryHasOneOutcome
<1> QED
  BY <1>1, <1>2, <1>3, PTL DEF C!Spec

\* What the page, the desk and the clock may hold; a list once read is no longer than the rows.
ClaimsHeld ==
    /\ clock \in {"before", "day", "after"}
    /\ latenessPage \in [seen: Seq(C!Status), sheet: BOOLEAN, busy: 0 .. MaxSend]
    /\ Len(latenessPage.seen) <= Len(claims)
    /\ reports \subseteq 1 .. MaxSend /\ latenessSent \in 0 .. MaxSend
    /\ latenessDesk \in [Clerk -> [seen: Seq(C!Status), busy: {"no"} \cup C!Final]]
    /\ \A s \in Clerk : Len(latenessDesk[s].seen) <= Len(claims)
    /\ decided \in 0 .. MaxDecide

\* The rows of a story, none or one.
RowsFit ==
    claims \in Seq(C!Status) /\ Len(claims) \in {0, 1} /\ \A i \in DOMAIN notices : notices[i] \in {"filed"} \cup C!Final

\* None or one row there is, and notices of it.
LEMMA RowsAre == ClaimsInv => RowsFit
<1> SUFFICES ASSUME ClaimsInv PROVE RowsFit
  OBVIOUS
<1>1. CASE claims = <<>> /\ notices = <<>>
  BY <1>1 DEF RowsFit
<1>2. CASE claims = <<"open">> /\ notices = <<"filed">>
  <2>1. "open" \in C!Status
    BY DEF C!Status
  <2> QED
    BY <1>2, <2>1 DEF RowsFit
<1>3. ASSUME NEW d \in C!Final, claims = <<d>>, notices = <<"filed", d>>
      PROVE  RowsFit
  <2>1. d \in C!Status
    BY DEF C!Status
  <2> QED
    BY <1>3, <2>1 DEF RowsFit
<1> QED
  BY <1>1, <1>2, <1>3 DEF ClaimsInv, Story

\* No step takes a row away.
LEMMA RowsGrow ==
  ASSUME ClaimsInv, ClaimsInv', C!Next
  PROVE  Len(claims) <= Len(claims')
<1>0. RowsFit /\ RowsFit'
  BY RowsAre, PTL
<1>1. Len(claims) \in {0, 1} /\ Len(claims') \in {0, 1} /\ claims \in Seq(C!Status) /\ claims' \in Seq(C!Status)
  BY <1>0 DEF RowsFit
<1>2. claims = <<>> <=> Len(claims) = 0
  BY <1>1, EmptySeq
<1>3. ASSUME NEW n \in reports, C!ReportLateReturn(n) PROVE claims' = claims \/ claims = <<>>
  BY <1>3 DEF C!ReportLateReturn, C!store
<1>4. ASSUME NEW c \in decisions, C!DecideClaim(c) PROVE Len(claims') = Len(claims)
  <2>1. claims' = claims \/ claims' = [claims EXCEPT ![1] = c.is]
    BY <1>4 DEF C!DecideClaim, C!store
  <2>2. c.is \in C!Status
    BY DEF ClaimsInv, Told, C!Status
  <2>3. Len([claims EXCEPT ![1] = c.is]) = Len(claims)
    BY <1>1, ExceptSeq
  <2> QED
    BY <2>1, <2>3
<1>5. ASSUME C!Tick \/ C!ReadClaims \/ C!OpenSheet \/ C!CloseSheet \/ C!SendReport \/ C!GiveUp PROVE claims' = claims
  BY <1>5 DEF C!Tick, C!ReadClaims, C!OpenSheet, C!CloseSheet, C!SendReport, C!GiveUp, C!store
<1>6. ASSUME NEW s \in Clerk, C!ReadCase(s) \/ \E d \in C!Final : C!Decide(s, d) PROVE claims' = claims
  BY <1>6 DEF C!ReadCase, C!Decide, C!store
<1> QED
  BY <1>1, <1>2, <1>3, <1>4, <1>5, <1>6 DEF C!Next

\* Any step keeps what is held.
LEMMA ClaimsHeldNext ==
  ASSUME ClaimsInv, ClaimsHeld, ClaimsInv', C!Next
  PROVE  ClaimsHeld'
<1> DEFINE Page == [seen: Seq(C!Status), sheet: BOOLEAN, busy: 0 .. MaxSend]
           Desks == [Clerk -> [seen: Seq(C!Status), busy: {"no"} \cup C!Final]]
<1>1. Len(claims) <= Len(claims') /\ Len(claims) \in Nat /\ Len(claims') \in Nat /\ claims \in Seq(C!Status)
  <2>1. RowsFit /\ RowsFit'
    BY RowsAre, PTL
  <2> QED
    BY <2>1, RowsGrow DEF RowsFit
<1>2. MaxSend \in Nat /\ MaxDecide \in Nat
  BY Bounds
<1>3. /\ latenessPage \in Page /\ Len(latenessPage.seen) <= Len(claims) /\ latenessDesk \in Desks
      /\ reports \subseteq 1 .. MaxSend /\ latenessSent \in 0 .. MaxSend /\ decided \in 0 .. MaxDecide
      /\ \A s \in Clerk : Len(latenessDesk[s].seen) <= Len(claims)
      /\ clock \in {"before", "day", "after"}
  BY DEF ClaimsHeld
<1>4. Len(latenessPage.seen) \in Nat /\ \A s \in Clerk : Len(latenessDesk[s].seen) \in Nat
  BY <1>3
<1>5. ASSUME latenessPage' \in Page, latenessPage'.seen \in {latenessPage.seen, claims}, latenessDesk' = latenessDesk,
             reports' \subseteq 1 .. MaxSend, latenessSent' \in 0 .. MaxSend, decided' = decided,
             clock' \in {"before", "day", "after"}
      PROVE  ClaimsHeld'
  BY <1>1, <1>3, <1>4, <1>5 DEF ClaimsHeld
<1>6. ASSUME latenessDesk' \in Desks, \A s \in Clerk : latenessDesk'[s].seen \in {latenessDesk[s].seen, claims},
             UNCHANGED <<latenessPage, reports, latenessSent, clock>>, decided' \in 0 .. MaxDecide
      PROVE  ClaimsHeld'
  <2>1. \A s \in Clerk : Len(latenessDesk'[s].seen) <= Len(claims')
    <3> SUFFICES ASSUME NEW s \in Clerk PROVE Len(latenessDesk'[s].seen) <= Len(claims')
      OBVIOUS
    <3>1. latenessDesk'[s].seen = latenessDesk[s].seen \/ latenessDesk'[s].seen = claims
      BY <1>6
    <3>2. Len(latenessDesk[s].seen) <= Len(claims) /\ Len(latenessDesk[s].seen) \in Nat
      BY <1>3, <1>4
    <3>3. CASE latenessDesk'[s].seen = latenessDesk[s].seen
      <4>1. Len(latenessDesk'[s].seen) = Len(latenessDesk[s].seen)
        BY <3>3
      <4> QED
        BY <1>1, <3>2, <4>1
    <3>4. CASE latenessDesk'[s].seen = claims
      BY <1>1, <3>4
    <3> QED
      BY <3>1, <3>3, <3>4
  <2>2. Len(latenessPage'.seen) <= Len(claims')
    BY <1>1, <1>3, <1>4, <1>6
  <2> QED
    BY <1>3, <1>6, <2>1, <2>2 DEF ClaimsHeld
<1> HIDE DEF Desks
<1>7. ASSUME C!Tick \/ C!ReadClaims \/ C!OpenSheet \/ C!CloseSheet \/ C!SendReport \/ C!GiveUp PROVE ClaimsHeld'
  <2>1. CASE C!Tick
    BY <1>3, <1>5, <2>1 DEF C!Tick, C!owner, C!staff
  <2>2. CASE C!ReadClaims
    <3>1. latenessPage' \in Page /\ latenessPage'.seen = claims
      BY <1>1, <1>3, <2>2 DEF C!ReadClaims
    <3> HIDE DEF Page
    <3> QED
      BY <1>3, <1>5, <2>2, <3>1 DEF C!ReadClaims, C!staff
  <2>3. CASE C!OpenSheet \/ C!CloseSheet
    <3>1. latenessPage' \in Page /\ latenessPage'.seen = latenessPage.seen
      BY <1>3, <2>3 DEF C!OpenSheet, C!CloseSheet
    <3> HIDE DEF Page
    <3> QED
      BY <1>3, <1>5, <2>3, <3>1 DEF C!OpenSheet, C!CloseSheet, C!staff
  <2>4. CASE C!SendReport
    <3>1. latenessSent + 1 \in 1 .. MaxSend /\ latenessSent' = latenessSent + 1
      BY <1>2, <1>3, <2>4 DEF C!SendReport
    <3>2. latenessPage' \in Page /\ latenessPage'.seen = latenessPage.seen
      BY <1>3, <2>4, <3>1 DEF C!SendReport
    <3>3. latenessSent' \in 0 .. MaxSend /\ reports' \subseteq 1 .. MaxSend
      BY <1>2, <1>3, <2>4, <3>1 DEF C!SendReport
    <3> HIDE DEF Page
    <3> QED
      BY <1>3, <1>5, <2>4, <3>2, <3>3 DEF C!SendReport, C!staff
  <2>5. CASE C!GiveUp
    <3>1. latenessPage' \in Page /\ latenessPage'.seen = latenessPage.seen
      BY <1>2, <1>3, <2>5 DEF C!GiveUp
    <3> HIDE DEF Page
    <3> QED
      BY <1>3, <1>5, <2>5, <3>1 DEF C!GiveUp, C!staff
  <2> QED
    BY <1>7, <2>1, <2>2, <2>3, <2>4, <2>5
<1>8. ASSUME NEW n \in reports, C!ReportLateReturn(n) PROVE ClaimsHeld'
  <2>1. C!Over(n, claims' # claims) /\ reports' = reports \ {n} /\ UNCHANGED <<clock, latenessSent, C!staff>>
    BY <1>8 DEF C!ReportLateReturn
  <2>2. PICK heard \in BOOLEAN :
          latenessPage' = IF latenessPage.busy # n THEN latenessPage
                          ELSE [latenessPage EXCEPT !.busy = 0, !.sheet = @ /\ ~(heard /\ claims' # claims)]
    BY <2>1 DEF C!Over
  <2>3. latenessPage' \in Page /\ latenessPage'.seen = latenessPage.seen
    <3>1. (latenessPage.sheet /\ ~(heard /\ claims' # claims)) \in BOOLEAN
      OBVIOUS
    <3> HIDE DEF Page
    <3>2. CASE latenessPage.busy # n
      BY <1>3, <2>2, <3>2
    <3>3. CASE latenessPage.busy = n
      <4> DEFINE b == latenessPage.sheet /\ ~(heard /\ claims' # claims)
      <4>1. latenessPage' = [latenessPage EXCEPT !.busy = 0, !.sheet = b]
        BY <2>2, <3>3, Zenon
      <4>2. b \in BOOLEAN
        BY <3>1
      <4> HIDE DEF b
      <4>3. latenessPage' = [seen |-> latenessPage.seen, sheet |-> b, busy |-> 0]
        BY <1>3, <4>1 DEF Page
      <4> QED
        BY <1>2, <1>3, <4>2, <4>3 DEF Page
    <3> QED
      BY <3>2, <3>3
  <2> HIDE DEF Page
  <2>4. reports' \subseteq 1 .. MaxSend
    BY <1>3, <2>1
  <2> QED
    BY <1>3, <1>5, <2>1, <2>3, <2>4 DEF C!staff
<1>9. ASSUME NEW s \in Clerk, NEW v, v \in [seen: Seq(C!Status), busy: {"no"} \cup C!Final],
             v.seen \in {latenessDesk[s].seen, claims}, latenessDesk' = [latenessDesk EXCEPT ![s] = v]
      PROVE  latenessDesk' \in Desks /\ \A x \in Clerk : latenessDesk'[x].seen \in {latenessDesk[x].seen, claims}
  BY <1>3, <1>9 DEF Desks
<1>10. \A s \in Clerk : latenessDesk[s] \in [seen: Seq(C!Status), busy: {"no"} \cup C!Final]
  BY <1>3 DEF Desks
<1>11. ASSUME NEW s \in Clerk, C!ReadCase(s) PROVE ClaimsHeld'
  <2> DEFINE v == [latenessDesk[s] EXCEPT !.seen = claims]
  <2>1. latenessDesk' = [latenessDesk EXCEPT ![s] = v]
    BY <1>11 DEF C!ReadCase
  <2>2. v \in [seen: Seq(C!Status), busy: {"no"} \cup C!Final] /\ v.seen = claims
    BY <1>1, <1>10
  <2> HIDE DEF v
  <2>3. latenessDesk' \in Desks /\ \A x \in Clerk : latenessDesk'[x].seen \in {latenessDesk[x].seen, claims}
    BY <1>9, <2>1, <2>2
  <2> QED
    BY <1>3, <1>6, <1>11, <2>3 DEF C!ReadCase, C!owner
<1>12. ASSUME NEW s \in Clerk, NEW d \in C!Final, C!Decide(s, d) PROVE ClaimsHeld'
  <2> DEFINE v == [latenessDesk[s] EXCEPT !.busy = d]
  <2>1. latenessDesk' = [latenessDesk EXCEPT ![s] = v]
    BY <1>12 DEF C!Decide
  <2>2. v \in [seen: Seq(C!Status), busy: {"no"} \cup C!Final] /\ v.seen = latenessDesk[s].seen
    BY <1>10
  <2> HIDE DEF v
  <2>3. latenessDesk' \in Desks /\ \A x \in Clerk : latenessDesk'[x].seen \in {latenessDesk[x].seen, claims}
    BY <1>9, <2>1, <2>2
  <2>4. decided' \in 0 .. MaxDecide
    BY <1>2, <1>3, <1>12 DEF C!Decide
  <2> QED
    BY <1>3, <1>6, <1>12, <2>3, <2>4 DEF C!Decide, C!owner
<1>13. ASSUME NEW c \in decisions, C!DecideClaim(c) PROVE ClaimsHeld'
  <2>0. c.who \in Clerk
    BY DEF ClaimsInv, Told
  <2> DEFINE v == [latenessDesk[c.who] EXCEPT !.busy = "no"]
  <2>1. latenessDesk' = [latenessDesk EXCEPT ![c.who] = v]
    BY <1>13 DEF C!DecideClaim
  <2>2. v \in [seen: Seq(C!Status), busy: {"no"} \cup C!Final] /\ v.seen = latenessDesk[c.who].seen
    BY <1>10, <2>0
  <2> HIDE DEF v
  <2>3. latenessDesk' \in Desks /\ \A x \in Clerk : latenessDesk'[x].seen \in {latenessDesk[x].seen, claims}
    BY <1>9, <2>0, <2>1, <2>2
  <2> QED
    BY <1>3, <1>6, <1>13, <2>3 DEF C!DecideClaim, C!owner
<1> QED
  BY <1>7, <1>8, <1>11, <1>12, <1>13 DEF C!Next

\* Every variable of the claims keeps its type.
THEOREM ClaimsTyped == C!Spec => []C!TypeOK
<1> DEFINE I == ClaimsInv /\ ClaimsHeld
<1>1. C!Init => I
  <2> SUFFICES ASSUME C!Init PROVE I
    OBVIOUS
  <2>1. MaxSend \in Nat /\ MaxDecide \in Nat /\ <<>> \in Seq(C!Status) /\ Len(<<>>) = 0
    BY Bounds
  <2>2. ClaimsHeld
    BY <2>1 DEF C!Init, ClaimsHeld
  <2> QED
    BY <2>2, ClaimsInit
<1>2. I /\ [C!Next]_(C!vars) => I'
  <2> SUFFICES ASSUME I, [C!Next]_(C!vars) PROVE I'
    OBVIOUS
  <2>1. ClaimsInv'
    BY ClaimsNext
  <2>2. CASE C!Next
    BY <2>1, <2>2, ClaimsHeldNext
  <2>3. CASE UNCHANGED C!vars
    BY <2>1, <2>3 DEF C!vars, ClaimsHeld
  <2> QED
    BY <2>2, <2>3
<1>3. I => C!TypeOK
  <2> SUFFICES ASSUME I PROVE C!TypeOK
    OBVIOUS
  <2>1. claims \in Seq(C!Status) /\ \A i \in DOMAIN claims : claims[i] \in C!Status
    BY RowsAre DEF RowsFit
  <2>2. \A i \in DOMAIN notices : notices[i] \in {"filed"} \cup C!Final
    BY RowsAre DEF RowsFit
  <2>3. latenessPage.sheet \in BOOLEAN /\ latenessPage.busy \in 0 .. MaxSend /\ \A s \in Clerk : latenessDesk[s].busy \in {"no"} \cup C!Final
    <3>1. latenessPage.sheet \in BOOLEAN
      BY Zenon DEF ClaimsHeld
    <3> QED
      BY <3>1 DEF ClaimsHeld
  <2> HIDE DEF I
  <2> QED
    BY <2>1, <2>2, <2>3, Zenon DEF I, ClaimsHeld, ClaimsInv, Told, C!TypeOK
<1> HIDE DEF I
<1> QED
  BY <1>1, <1>2, <1>3, PTL DEF C!Spec

---------------------------------------------------------------------------
(* One form and its idempotency keys.                                      *)

Posted == copies \cup attemptMade
OneNumber ==
    /\ \A c \in copies : c.n <= sent
    /\ \A c, d \in copies : c.n = d.n => c = d
OneAnswer ==
    /\ \A x \in answers : x.n = busy.n
    /\ \A x, y \in answers : x = y
    /\ answers # {} => \A c \in copies : c.n # busy.n
    /\ busy.n <= sent
OneBody ==
    /\ last.key <= keys
    /\ \A x \in Posted : x.key <= keys /\ (x.key = last.key => x.body = last.body)
    /\ \A x, y \in Posted : x.key = y.key => x.body = y.body
OwnText == \A x \in Posted : x.wish <= A!wish /\ x.body = texts[x.wish]
OneRow == \A r, s \in attemptMade : r.key = s.key => r = s
Awaited ==
    busy.n # 0 =>
      /\ busy.wish <= A!wish /\ last.key # 0 /\ last.body = texts[busy.wish]
      /\ \A c \in copies : c.n = busy.n => c.key = last.key
      /\ \A x \in answers : x.is = "ok" => \E r \in attemptMade : r.key = last.key
      /\ busy.wish # A!wish => \A x \in Posted : x.wish # A!wish
OneKey ==
    /\ \A x, y \in Posted : x.wish = y.wish /\ x.wish \notin refused => x.key = y.key
    /\ A!wish \notin refused /\ ~blank => \A x \in Posted : x.wish = A!wish => x.key = last.key
ToldOf ==
    \A v \in told :
                    /\ v.wish <= A!wish /\ v.key <= keys /\ v.key # last.key
                    /\ \E r \in attemptMade : r.key = v.key /\ r.body = texts[v.wish]
                    /\ \A w \in told : v.key = w.key => v = w
AttemptInv == A!TypeOK /\ OneNumber /\ OneAnswer /\ OneBody /\ OwnText /\ OneRow /\ Awaited /\ OneKey /\ ToldOf
\* What the types say of the numbers and the sets, one by one.
LEMMA AttemptTypes ==
  ASSUME A!TypeOK
  PROVE  /\ MaxKey \in Nat /\ MaxWish \in Nat /\ MaxCopy \in Nat
         /\ A!wish \in 1 .. MaxWish /\ A!wish \in Nat /\ texts \in [1 .. A!wish -> Body] /\ A!draft \in Body
         /\ keys \in Nat /\ keys <= MaxKey /\ sent \in Nat /\ last.key \in Nat /\ last.body \in Body
         /\ busy.n \in Nat /\ busy.wish \in 1 .. MaxWish
         /\ \A x \in Posted : x.key \in 1 .. MaxKey /\ x.wish \in 1 .. MaxWish /\ x.body \in Body
         /\ \A c \in copies : c.n \in 1 .. MaxCopy
<1>1. MaxKey \in Nat /\ MaxWish \in Nat /\ MaxCopy \in Nat
  BY Bounds
<1>2. /\ A!wish \in 1 .. MaxWish /\ A!wish \in Nat /\ texts \in [1 .. A!wish -> Body] /\ A!draft \in Body
  BY <1>1 DEF A!TypeOK, A!wish, A!draft, A!Wish
<1>3. /\ keys \in Nat /\ keys <= MaxKey /\ sent \in Nat /\ last.key \in Nat /\ last.body \in Body
      /\ busy.n \in Nat /\ busy.wish \in 1 .. MaxWish
  BY <1>1 DEF A!TypeOK, A!Wish, A!Key
<1>4. /\ \A x \in Posted : x.key \in 1 .. MaxKey /\ x.wish \in 1 .. MaxWish /\ x.body \in Body
      /\ \A c \in copies : c.n \in 1 .. MaxCopy
  BY DEF A!TypeOK, Posted, A!Copy, A!Row, A!Key, A!Wish
<1> QED
  BY <1>1, <1>2, <1>3, <1>4

\* It holds at first.
LEMMA AttemptBegins == A!Init => AttemptInv
<1> SUFFICES ASSUME A!Init PROVE AttemptInv
  OBVIOUS
<1>1. PICK b \in Body : texts = <<b>> /\ last = [key |-> 0, body |-> b]
  BY DEF A!Init
<1>2. texts \in Seq(Body) /\ Len(texts) = 1
  BY <1>1
<1>3. copies = {} /\ attemptMade = {} /\ answers = {} /\ told = {} /\ keys = 0 /\ busy = [n |-> 0, wish |-> 1] /\ sent = 0 /\ refused = {} /\ blank = FALSE
  BY Zenon DEF A!Init
<1>4. 1 \in A!Wish /\ MaxCopy \in Nat
  BY Bounds DEF A!Wish
<1>5. A!TypeOK
  <2>1. last \in [key : {0} \cup A!Key, body : Body]
    BY <1>1
  <2>2. busy \in [n : 0 .. MaxCopy, wish : A!Wish]
    BY <1>3, <1>4
  <2> QED
    BY <1>1, <1>2, <1>3, <1>4, <2>1, <2>2 DEF A!TypeOK
<1>6. OneNumber /\ OneAnswer /\ OneBody /\ OwnText /\ OneRow /\ Awaited /\ OneKey /\ ToldOf
  BY <1>1, <1>3 DEF OneNumber, OneAnswer, OneBody, OwnText, OneRow, Awaited, OneKey, ToldOf, Posted
<1> QED
  BY <1>5, <1>6 DEF AttemptInv

\* Another wish begins: nothing of it was sent yet.
LEMMA WriteKeeps ==
  ASSUME AttemptInv, NEW b \in Body, A!Write(b)
  PROVE  AttemptInv'
<1> USE DEF AttemptInv
<1>1. /\ A!wish \in Nat /\ A!wish + 1 \in 1 .. MaxWish /\ texts \in [1 .. A!wish -> Body]
      /\ \A x \in Posted : x.wish \in 1 .. A!wish
      /\ busy.wish \in Nat /\ busy.wish >= 1
  BY AttemptTypes DEF A!Write, OwnText
<1>2. texts' \in Seq(Body) /\ A!wish' = A!wish + 1 /\ \A i \in 1 .. A!wish : texts'[i] = texts[i]
  BY DEF A!TypeOK, A!Write, A!wish
<1>3. /\ UNCHANGED <<last, keys, busy, sent, copies, answers, attemptMade, told, refused, Posted>> /\ blank' = FALSE
  BY DEF A!Write, Posted
<1>4. A!TypeOK'
  BY <1>1, <1>2, <1>3 DEF A!TypeOK, A!Write, A!wish, A!Wish
<1>5. OneNumber' /\ OneAnswer' /\ OneBody' /\ OneRow'
  BY <1>3 DEF OneNumber, OneAnswer, OneBody, OneRow
<1>6. OwnText'
  BY <1>1, <1>2, <1>3 DEF OwnText
<1>7. Awaited'
  BY <1>1, <1>2, <1>3 DEF Awaited
<1>8. OneKey'
  BY <1>1, <1>2, <1>3 DEF OneKey
<1>9. ToldOf'
  <2>1. \A v \in told : v.wish \in 1 .. A!wish
    BY <1>1 DEF A!TypeOK, A!Wish, ToldOf
  <2> QED
    BY <1>1, <1>2, <1>3, <2>1 DEF ToldOf
<1> QED
  BY <1>4, <1>5, <1>6, <1>7, <1>8, <1>9

\* The button: the key kept for this body, or one that nothing was sent under.
LEMMA SubmitKeeps ==
  ASSUME AttemptInv, A!Submit
  PROVE  AttemptInv'
<1> USE DEF AttemptInv, A!TypeOK
<1> DEFINE c == [n |-> sent + 1, key |-> A!KeyFor(A!draft), body |-> A!draft, wish |-> A!wish, st |-> "new"]
<1>1. /\ copies' = copies \cup {c} /\ attemptMade' = attemptMade /\ answers = {} /\ answers' = {}
      /\ sent' = sent + 1 /\ busy' = [n |-> sent + 1, wish |-> A!wish]
      /\ last' = [key |-> c.key, body |-> A!draft] /\ A!wish' = A!wish
      /\ UNCHANGED <<texts, blank, told, refused>> /\ ~blank
  BY DEF A!Submit, OneAnswer, A!wish
<1>2. A!draft \in Body /\ A!wish \in A!Wish /\ c \in A!Copy /\ c.key \in A!Key
  BY AttemptTypes DEF A!Submit, A!Wish, A!Key, A!Copy, A!KeyFor, A!Kept
<1>3. /\ A!Kept(A!draft) => c.key = last.key /\ c.body = last.body /\ keys' = keys
      /\ ~A!Kept(A!draft) => c.key = keys + 1 /\ keys' = keys + 1
  BY DEF A!Submit, A!Kept, A!KeyFor
<1>4. keys' \in {0} \cup A!Key /\ keys \in Nat /\ keys' \in Nat /\ keys <= keys' /\ c.key <= keys'
  BY <1>2, <1>3, Bounds DEF A!Key, OneBody
<1>5. A!TypeOK'
  BY <1>1, <1>2, <1>4, Bounds DEF A!Submit, A!wish
<1>6. \A x \in Posted : x.n \in Nat => TRUE
  OBVIOUS
<1>7. \A x \in Posted : x.key \in Nat /\ x.key <= keys
  BY DEF OneBody, Posted, A!Copy, A!Row, A!Key
<1>8. \A x \in Posted : x.key = c.key => x.body = c.body /\ c.key = last.key
  BY <1>3, <1>4, <1>7 DEF OneBody
<1>9. OneNumber'
  BY <1>1, Bounds DEF OneNumber, A!Copy
<1>10. OneAnswer'
  BY <1>1 DEF OneAnswer
<1>11. OneBody'
  <2>1. Posted' = Posted \cup {c}
    BY <1>1 DEF Posted
  <2>2. \A x \in Posted' : x.key <= keys' /\ (x.key = c.key => x.body = c.body)
    BY <2>1, <1>4, <1>7, <1>8
  <2> QED
    BY <1>1, <1>4, <2>1, <2>2, <1>8 DEF OneBody
<1>12. OwnText'
  BY <1>1, <1>2 DEF OwnText, Posted, A!draft, A!Wish
<1>13. OneRow'
  BY <1>1 DEF OneRow
<1>14. Awaited'
  <2>1. \A d \in copies : d.n # sent + 1
    BY Bounds DEF OneNumber, A!Copy
  <2> QED
    BY <1>1, <1>2, <2>1 DEF Awaited, A!draft, A!Wish, A!Key
<1>15. OneKey'
  <2>1. \A x \in Posted : x.wish = A!wish /\ A!wish \notin refused => x.key = c.key
    <3> SUFFICES ASSUME NEW x \in Posted, x.wish = A!wish, A!wish \notin refused PROVE x.key = c.key
      OBVIOUS
    <3>1. x.key = last.key /\ x.body = A!draft
      BY <1>1 DEF OneKey, OwnText, A!draft
    <3>2. last.key # 0 /\ last.body = A!draft
      BY <3>1 DEF OneBody, Posted, A!Copy, A!Row, A!Key
    <3> QED
      BY <3>1, <3>2, <1>3 DEF A!Kept
  <2>2. Posted' = Posted \cup {c} /\ refused' = refused /\ last'.key = c.key
    BY <1>1 DEF Posted
  <2> QED
    BY <1>1, <2>1, <2>2 DEF OneKey
<1>16. ToldOf'
  <2>1. \A v \in told : v.key # c.key
    BY <1>3, <1>4 DEF ToldOf, A!Key
  <2> QED
    BY <1>1, <1>4, <2>1 DEF ToldOf, A!Key
<1> QED
  BY <1>5, <1>9, <1>10, <1>11, <1>12, <1>13, <1>14, <1>15, <1>16

\* An answer, or none in time: the attempt ends with a success and with a definite refusal only.
LEMMA HearKeeps ==
  ASSUME AttemptInv, NEW x \in answers, A!Hear(x)
  PROVE  AttemptInv'
<1> USE DEF AttemptInv, A!TypeOK
<1>1. /\ x.n = busy.n /\ answers' = {} /\ busy' = [busy EXCEPT !.n = 0] /\ busy.n # 0
      /\ UNCHANGED <<texts, keys, sent, copies, attemptMade, A!wish, Posted>>
  BY DEF A!Hear, OneAnswer, A!wish, Posted
<1>2. /\ last' = last \/ last' = [last EXCEPT !.key = 0]
      /\ last'.body = last.body /\ last'.key \in {0, last.key}
  BY DEF A!Hear, A!Settled
<1>3. last.key # 0 /\ last.key \in A!Key /\ busy.wish \in 1 .. A!wish /\ last.body = texts[busy.wish]
  BY <1>1 DEF Awaited, A!Wish
<1>4. A!TypeOK'
  <2>1. told' \subseteq [wish : A!Wish, key : A!Key] /\ refused' \subseteq A!Wish
    BY <1>3 DEF A!Hear
  <2>2. blank' \in BOOLEAN
    BY Zenon DEF A!Hear
  <2>3. last' \in [key : {0} \cup A!Key, body : Body] /\ busy' \in [n : 0 .. MaxCopy, wish : A!Wish]
    BY <1>1, <1>2, AttemptTypes, SMTT(30)
  <2>4. texts' \in Seq(Body) /\ Len(texts') \in A!Wish
    BY <1>1
  <2> QED
    BY <1>1, <2>1, <2>2, <2>3, <2>4
<1>5. OneNumber' /\ OneRow' /\ OwnText'
  BY <1>1 DEF OneNumber, OneRow, OwnText
<1>9. OneAnswer' /\ Awaited'
  BY <1>1, AttemptTypes DEF OneAnswer, Awaited
<1>6. OneBody'
  BY <1>1, <1>2 DEF OneBody, Posted, A!Copy, A!Row, A!Key
<1>7. OneKey'
  <2>1. CASE x.is = "ok"
    BY <2>1, <1>1 DEF A!Hear, OneKey, A!Definite
  <2>2. CASE A!Definite(x.is)
    <3>1. refused' = refused \cup {busy.wish} /\ blank' = blank
      BY <2>2 DEF A!Hear, A!Definite
    <3>2. busy.wish # A!wish => \A y \in Posted : y.wish # A!wish
      BY <1>1 DEF Awaited
    <3> QED
      BY <1>1, <3>1, <3>2 DEF OneKey
  <2>3. CASE x.is # "ok" /\ ~A!Definite(x.is)
    BY <2>3, <1>1 DEF A!Hear, A!Settled, OneKey
  <2> QED
    BY <2>1, <2>2, <2>3
<1>8. ToldOf'
  <2>1. CASE x.is = "ok"
    <3> DEFINE w == [wish |-> busy.wish, key |-> last.key]
    <3>1. told' = told \cup {w} /\ last'.key = 0
      BY <2>1 DEF A!Hear, A!Settled
    <3>2. PICK r \in attemptMade : r.key = last.key
      BY <1>1, <2>1 DEF Awaited
    <3>3. r.key = w.key /\ r.body = texts[w.wish]
      BY <1>3, <3>2 DEF OneBody, Posted
    <3>4. w.wish <= A!wish /\ w.key <= keys /\ w.key # 0
      BY <1>3 DEF OneBody
    <3>5. \A v \in told : v.key # w.key /\ v.key # 0
      BY DEF ToldOf, A!Key
    <3> QED
      BY <1>1, <3>1, <3>3, <3>4, <3>5 DEF ToldOf
  <2>2. CASE x.is # "ok"
    BY <1>1, <1>2, <2>2 DEF A!Hear, ToldOf, A!Key
  <2> QED
    BY <2>1, <2>2
<1> QED
  BY <1>4, <1>5, <1>6, <1>7, <1>8, <1>9

LEMMA GiveUpKeeps ==
  ASSUME AttemptInv, A!GiveUp
  PROVE  AttemptInv'
<1> USE DEF AttemptInv, A!TypeOK
<1>1. /\ answers' = {} /\ busy' = [busy EXCEPT !.n = 0]
      /\ UNCHANGED <<texts, blank, last, keys, sent, copies, attemptMade, told, refused, A!wish, Posted>>
  BY DEF A!GiveUp, OneAnswer, A!wish, Posted
<1>2. A!TypeOK'
  BY <1>1, AttemptTypes, SMTT(30) DEF A!wish
<1>3. OneNumber' /\ OneAnswer' /\ OneRow' /\ OwnText' /\ Awaited' /\ OneBody' /\ OneKey' /\ ToldOf'
  BY <1>1, Bounds DEF OneNumber, OneAnswer, OneRow, OwnText, Awaited, OneBody, OneKey, ToldOf
<1> QED
  BY <1>2, <1>3

---------------------------------------------------------------------------
\* A copy is handled: it goes, or stays as it was sent, and what is made of it has its key and its text.
LEMMA HandledKeeps ==
  ASSUME AttemptInv, NEW c \in copies, UNCHANGED A!form,
         copies' \in {copies \ {c}, (copies \ {c}) \cup {[c EXCEPT !.st = "checked"]}},
         \/ attemptMade' = attemptMade
         \/ /\ attemptMade' = attemptMade \cup {[key |-> c.key, body |-> c.body, wish |-> c.wish]}
            /\ \A r \in attemptMade : r.key # c.key,
         \/ answers' = answers
         \/ /\ copies' = copies \ {c} /\ c.n = busy.n
            /\ \E a \in A!Answer :
                 /\ answers' = answers \cup {[n |-> c.n, is |-> a]}
                 /\ a = "ok" => \E r \in attemptMade' : r.key = c.key
  PROVE  AttemptInv'
<1> USE DEF AttemptInv, A!TypeOK
<1> DEFINE thing == [key |-> c.key, body |-> c.body, wish |-> c.wish]
<1>1. /\ UNCHANGED <<texts, blank, last, keys, busy, sent, told, refused, A!wish>>
      /\ c \in A!Copy /\ thing \in A!Row /\ c \in Posted
  BY DEF A!form, A!wish, Posted, A!Copy, A!Row
<1>2. /\ \A d \in copies' : d \in A!Copy /\ \E e \in copies : d.n = e.n /\ d.key = e.key /\ d.body = e.body /\ d.wish = e.wish
      /\ \A d \in copies' : d.n = c.n => d = [c EXCEPT !.st = "checked"] /\ copies' # copies \ {c}
      /\ \A d \in copies' : d.n # c.n => d \in copies
  BY DEF A!Copy, OneNumber
<1>3. \A r \in attemptMade' : r \in A!Row /\ (r \in attemptMade \/ r = thing)
  BY <1>1
<1>4. \A x \in Posted' : \E y \in Posted : x.key = y.key /\ x.body = y.body /\ x.wish = y.wish
  BY <1>1, <1>2, <1>3 DEF Posted
<1>5. /\ OneBody' /\ OwnText' /\ OneKey'
  BY <1>1, <1>4 DEF OneBody, OwnText, OneKey
<1>6. OneRow'
  BY <1>3 DEF OneRow
<1>7. OneNumber'
  BY <1>1, <1>2 DEF OneNumber
<1>8. OneAnswer' /\ answers' \subseteq [n : 1 .. MaxCopy, is : A!Answer]
  <2>1. CASE answers' = answers
    BY <1>1, <1>2, <2>1 DEF OneAnswer
  <2>2. CASE answers' # answers
    <3>1. PICK a \in A!Answer : answers' = answers \cup {[n |-> c.n, is |-> a]}
      BY <2>2
    <3>2. answers = {} /\ copies' = copies \ {c} /\ c.n = busy.n /\ c.n \in 1 .. MaxCopy
      BY <1>1, <2>2 DEF OneAnswer, A!Copy
    <3>3. answers' = {[n |-> c.n, is |-> a]} /\ \A d \in copies' : d.n # busy.n
      BY <1>2, <3>1, <3>2
    <3>4. \A x \in answers' : x.n = busy.n /\ x \in [n : 1 .. MaxCopy, is : A!Answer] /\ \A y \in answers' : x = y
      BY <3>2, <3>3
    <3> QED
      BY <1>1, <3>3, <3>4 DEF OneAnswer
  <2> QED
    BY <2>1, <2>2
<1>10. A!TypeOK'
  BY <1>1, <1>2, <1>3, <1>8 DEF A!wish
<1>11. attemptMade \subseteq attemptMade'
  OBVIOUS
<1>12. Awaited'
  <2> SUFFICES ASSUME busy.n # 0 PROVE Awaited'
    BY <1>1 DEF Awaited
  <2>1. \A d \in copies' : d.n = busy.n => d.key = last.key
    BY <1>2 DEF Awaited
  <2>2. \A x \in answers' : x.is = "ok" => \E r \in attemptMade' : r.key = last.key
    <3>1. CASE answers' = answers
      BY <1>11, <3>1 DEF Awaited
    <3>2. CASE answers' # answers
      <4>1. c.n = busy.n /\ answers = {} /\ c.key = last.key
        BY <3>2 DEF Awaited, OneAnswer
      <4>2. PICK a \in A!Answer :
                                /\ answers' = answers \cup {[n |-> c.n, is |-> a]}
                                /\ a = "ok" => \E r \in attemptMade' : r.key = c.key
        BY <3>2
      <4> QED
        BY <4>1, <4>2
    <3> QED
      BY <3>1, <3>2
  <2>3. busy.wish # A!wish => \A x \in Posted' : x.wish # A!wish
    BY <1>4 DEF Awaited
  <2> QED
    BY <1>1, <2>1, <2>2, <2>3 DEF Awaited
<1>13. ToldOf'
  BY <1>1, <1>11 DEF ToldOf
<1> QED
  BY <1>5, <1>6, <1>7, <1>8, <1>10, <1>12, <1>13

LEMMA PostServed ==
  ASSUME AttemptInv, NEW c \in copies, A!Check(c) \/ A!Make(c) \/ A!Turned(c)
  PROVE  AttemptInv'
<1>1. CASE A!Check(c)
  BY <1>1, HandledKeeps DEF A!Check, A!Say, A!Answer
<1>2. CASE A!Make(c)
  <2>1. CASE \E r \in attemptMade : r.key = c.key
    BY <1>2, <2>1, HandledKeeps DEF A!Make, A!Say, A!Answer
  <2>2. CASE ~\E r \in attemptMade : r.key = c.key
    <3> DEFINE thing == [key |-> c.key, body |-> c.body, wish |-> c.wish]
    <3>1. /\ UNCHANGED A!form /\ copies' = copies \ {c} /\ attemptMade' = attemptMade \cup {thing}
          /\ answers' = answers \/ (c.n = busy.n /\ answers' = answers \cup {[n |-> c.n, is |-> "ok"]})
      BY <1>2, <2>2 DEF A!Make, A!Say
    <3>2. thing \in attemptMade' /\ thing.key = c.key /\ "ok" \in A!Answer
      BY <3>1 DEF A!Answer
    <3> QED
      BY <2>2, <3>1, <3>2, HandledKeeps
  <2> QED
    BY <2>1, <2>2
<1>3. CASE A!Turned(c)
  BY <1>3, HandledKeeps DEF A!Turned, A!Say, A!Answer
<1> QED
  BY <1>1, <1>2, <1>3

\* Any step keeps it.
LEMMA AttemptNext == AttemptInv /\ [A!Next]_(A!vars) => AttemptInv'
<1> SUFFICES ASSUME AttemptInv, [A!Next]_(A!vars) PROVE AttemptInv'
  OBVIOUS
<1>1. CASE UNCHANGED A!vars
  BY <1>1 DEF A!vars, AttemptInv, A!TypeOK, OneNumber, OneAnswer, OneBody, OwnText, OneRow, Awaited, OneKey, ToldOf, Posted, A!wish
<1>2. CASE A!Submit
  BY <1>2, SubmitKeeps
<1>3. CASE A!GiveUp
  BY <1>3, GiveUpKeeps
<1>4. CASE \E b \in Body : A!Write(b)
  BY <1>4, WriteKeeps
<1>5. CASE \E x \in answers : A!Hear(x)
  BY <1>5, HearKeeps
<1>6. CASE \E c \in copies : A!Check(c) \/ A!Make(c) \/ A!Turned(c)
  BY <1>6, PostServed
<1> QED
  BY <1>1, <1>2, <1>3, <1>4, <1>5, <1>6 DEF A!Next

LEMMA AttemptHolds == AttemptInv => A!KeyFollowsBody /\ A!DoneIsItsOwn /\ A!TwiceOnlyAfterRefusal
BY DEF AttemptInv, A!KeyFollowsBody, A!DoneIsItsOwn, A!TwiceOnlyAfterRefusal, OneBody, OneRow, OneKey, ToldOf, Posted

---------------------------------------------------------------------------
(* The windows of a listing and its save.                                  *)

\* What the page has read and what is taken away in it were made before; a window made since has a
\* number of its own.
SlotsNumbered ==
    /\ \A s \in slots : s.id <= count
    /\ \A i \in view \cup gone : i <= count

\* What is still to go is on its way, and once all went nothing of it is there.
TakenGoes ==
    /\ step = "remove" => gone \cap L!Ids \subseteq todo
    /\ step \in {"add", "done"} => gone \cap L!Ids = {}

ListingsInv == L!TypeOK /\ L!GeneratedApart /\ SlotsNumbered /\ TakenGoes

---------------------------------------------------------------------------
\* Every finite set of days can be numbered in its order: each has the number of those up to it.
LEMMA Numbers ==
  ASSUME NEW days \in SUBSET Nat, IsFiniteSet(days)
  PROVE  L!Number(days) \in [days -> 1 .. Cardinality(days)] /\ Cardinality(days) \in Nat
<1> DEFINE upTo(d) == {e \in days : e <= d}
           f == [d \in days |-> Cardinality(upTo(d))]
<1>1. Cardinality(days) \in Nat
  BY FS_CardinalityType
<1>2. ASSUME NEW d \in days PROVE IsFiniteSet(upTo(d)) /\ Cardinality(upTo(d)) \in 1 .. Cardinality(days)
  <2>1. IsFiniteSet(upTo(d)) /\ Cardinality(upTo(d)) <= Cardinality(days)
    BY FS_Subset
  <2>2. Cardinality(upTo(d)) \in Nat /\ Cardinality(upTo(d)) # 0
    <3>1. d \in upTo(d)
      OBVIOUS
    <3> QED
      BY <2>1, <3>1, FS_CardinalityType, FS_EmptySet
  <2> QED
    BY <1>1, <2>1, <2>2
<1>3. f \in [days -> 1 .. Cardinality(days)]
  BY <1>2
<1>4. ASSUME NEW d \in days, NEW e \in days, d < e PROVE f[d] < f[e]
  <2>1. upTo(d) \in SUBSET upTo(e) /\ upTo(d) # upTo(e)
    <3>1. e \in upTo(e) /\ e \notin upTo(d)
      BY <1>4
    <3>2. \A x \in upTo(d) : x \in upTo(e)
      BY <1>4
    <3> QED
      BY <3>1, <3>2
  <2>2. Cardinality(upTo(d)) <= Cardinality(upTo(e)) /\ Cardinality(upTo(d)) # Cardinality(upTo(e))
    BY <1>2, <2>1, FS_Subset
  <2>3. Cardinality(upTo(d)) \in Nat /\ Cardinality(upTo(e)) \in Nat
    BY <1>1, <1>2
  <2> QED
    BY <2>2, <2>3
<1> HIDE DEF f
<1>5. \E g \in [days -> 1 .. Cardinality(days)] : \A d, e \in days : d < e => g[d] < g[e]
  BY <1>3, <1>4
<1> QED
  BY <1>1, <1>5 DEF L!Number, L!Cardinality, Cardinality

\* Days among those there are.
LEMMA DaysAre ==
  ASSUME NEW days, days \subseteq L!Day
  PROVE  days \in SUBSET Nat /\ IsFiniteSet(days)
<1>1. IsFiniteSet(1 .. LastDay)
  <2>1. 1 \in Int /\ LastDay \in Int
    BY Bounds
  <2> QED
    BY <2>1, FS_Interval
<1>2. days \in SUBSET (1 .. LastDay)
  BY DEF L!Day
<1>3. IsFiniteSet(days)
  BY <1>1, <1>2, FS_Subset
<1>4. days \in SUBSET Nat
  BY <1>2, Bounds
<1> QED
  BY <1>3, <1>4

\* New windows are numbered on from the last.
LEMMA NewSlotsAre ==
  ASSUME L!TypeOK, NEW days, days \subseteq L!Day, NEW gen \in BOOLEAN, count + Cardinality(days) <= MaxSlot
  PROVE  /\ L!New(days, gen) \subseteq L!Slot
         /\ \A s \in L!New(days, gen) : s.id > count /\ s.id <= count + Cardinality(days) /\ s.gen = gen /\ s.at \in days
         /\ \A s, t \in L!New(days, gen) : s.at = t.at => s = t
         /\ count + Cardinality(days) \in 0 .. MaxSlot /\ count <= count + Cardinality(days)
<1>1. /\ L!Number(days) \in [days -> 1 .. Cardinality(days)] /\ Cardinality(days) \in Nat
      /\ count \in Nat /\ MaxSlot \in Nat
  BY DaysAre, Numbers, Bounds DEF L!TypeOK
<1>2. \A d \in days : count + L!Number(days)[d] \in 1 .. MaxSlot
  BY <1>1
<1> DEFINE window(d) == [id |-> count + L!Number(days)[d], at |-> d, gen |-> gen]
<1>3. \A d \in days : window(d) \in L!Slot
  BY <1>2 DEF L!Slot, L!Id
<1>4. L!New(days, gen) = {window(d) : d \in days}
  BY DEF L!New, L!Cardinality, Cardinality
<1>5. \A d \in days : window(d).id > count /\ window(d).id <= count + Cardinality(days) /\ window(d).gen = gen /\ window(d).at = d
  BY <1>1
<1> HIDE DEF window
<1>6. count + Cardinality(days) \in 0 .. MaxSlot /\ count <= count + Cardinality(days)
  BY <1>1
<1> QED
  BY <1>3, <1>4, <1>5, <1>6

---------------------------------------------------------------------------
(* What each of the catalog's handlers does to the windows.                *)

\* The windows after: some of those there were, and new ones; the schedule's own stay apart.
WindowsGrown ==
    /\ slots' \subseteq L!Slot /\ count' \in 0 .. MaxSlot /\ count <= count'
    /\ \A s \in slots' : s \in slots \/ (s.id > count /\ s.id <= count')
    /\ until' \in 0 .. LastDay
    /\ L!GeneratedApart'

\* apply_schedule lays nothing over a window of its own that stays.
LEMMA ScheduleApplied ==
  ASSUME L!TypeOK, L!GeneratedApart, NEW plan \in Plans, NEW replace \in BOOLEAN,
         NEW there \in SUBSET slots, L!ApplySchedule(plan, replace, there)
  PROVE  WindowsGrown /\ \A s \in slots' : s \in there \/ s.id > count
<1> DEFINE left == IF replace THEN {s \in there : ~s.gen} ELSE there
           days == L!Free(plan, left)
           new == L!New(days, TRUE)
<1>1. days \subseteq L!Day
  BY PlansAreDays DEF L!Free, L!Day
<1>2. /\ slots' = left \cup new /\ count' = count + Cardinality(days) /\ count + Cardinality(days) <= MaxSlot
      /\ until' = (IF plan = {} THEN 0 ELSE day)
  BY DEF L!ApplySchedule, L!Cardinality, Cardinality
<1>3. /\ new \subseteq L!Slot
      /\ \A s \in new : s.id > count /\ s.id <= count + Cardinality(days) /\ s.at \in days
      /\ \A s, t \in new : s.at = t.at => s = t
      /\ count + Cardinality(days) \in 0 .. MaxSlot /\ count <= count + Cardinality(days)
  BY <1>1, <1>2, NewSlotsAre
<1>4. left \subseteq there /\ \A s \in left : s.at \notin days
  BY DEF L!Free, L!Taken
<1> HIDE DEF left, days, new
<1>5. L!GeneratedApart'
  BY <1>2, <1>3, <1>4 DEF L!GeneratedApart
<1>6. until' \in 0 .. LastDay
  BY <1>2, Bounds DEF L!TypeOK, L!Day
<1>7. slots' \subseteq L!Slot
  BY <1>2, <1>3, <1>4 DEF L!TypeOK
<1> QED
  BY <1>2, <1>3, <1>4, <1>5, <1>6, <1>7 DEF WindowsGrown

\* add_slots: windows made by hand.
LEMMA SlotsAdded ==
  ASSUME L!TypeOK, L!GeneratedApart, NEW days, days \subseteq L!Day, L!AddSlots(days)
  PROVE  WindowsGrown /\ spec' = spec
<1>1. /\ slots' = slots \cup L!New(days, FALSE) /\ count' = count + Cardinality(days)
      /\ count + Cardinality(days) <= MaxSlot /\ until' = until /\ spec' = spec
  BY DEF L!AddSlots, L!Cardinality, Cardinality
<1>2. /\ L!New(days, FALSE) \subseteq L!Slot
      /\ \A s \in L!New(days, FALSE) : s.id > count /\ s.id <= count + Cardinality(days) /\ s.gen = FALSE
      /\ count + Cardinality(days) \in 0 .. MaxSlot /\ count <= count + Cardinality(days)
  BY <1>1, NewSlotsAre
<1>3. L!GeneratedApart'
  BY <1>1, <1>2 DEF L!GeneratedApart
<1> QED
  BY <1>1, <1>2, <1>3 DEF WindowsGrown, L!TypeOK

\* A server left alone is grown by nothing.
LEMMA ServerStands ==
  ASSUME L!TypeOK, L!GeneratedApart, UNCHANGED L!server
  PROVE  WindowsGrown /\ spec' = spec
BY Bounds DEF L!server, WindowsGrown, L!TypeOK, L!GeneratedApart

\* update_listing.
LEMMA PutGrows ==
  ASSUME L!TypeOK, L!GeneratedApart, L!Put
  PROVE  WindowsGrown /\ spec' \in Plans
<1>1. CASE form.plan \subseteq {spec}
  BY <1>1, ServerStands DEF L!Put, L!TypeOK
<1>2. CASE ~(form.plan \subseteq {spec})
  <2>1. PICK p \in form.plan : spec' = p /\ L!ApplySchedule(p, TRUE, slots)
    BY <1>2 DEF L!Put
  <2>2. p \in Plans
    BY DEF L!TypeOK, L!Form
  <2> QED
    BY <2>1, <2>2, ScheduleApplied
<1> QED
  BY <1>1, <1>2

\* remove_slot: it is gone, also where the schedule comes back in its place.
LEMMA RemoveGrows ==
  ASSUME L!TypeOK, L!GeneratedApart, SlotsNumbered, NEW id \in L!Ids, L!RemoveSlot(id)
  PROVE  WindowsGrown /\ spec' = spec /\ \A s \in slots' : s.id # id
<1> DEFINE left == {s \in slots : s.id # id}
<1>1. spec' = spec /\ id <= count /\ id \in Nat /\ count \in Nat
  BY Bounds DEF L!RemoveSlot, L!Ids, SlotsNumbered, L!TypeOK, L!Slot, L!Id
<1>2. CASE spec # {} /\ \E s \in slots : s.id = id /\ ~s.gen
  <2>1. L!ApplySchedule(spec, FALSE, left)
    BY <1>2 DEF L!RemoveSlot
  <2>2. WindowsGrown /\ \A s \in slots' : s \in left \/ s.id > count
    BY <2>1, ScheduleApplied DEF L!TypeOK
  <2> QED
    BY <1>1, <2>2
<1>3. CASE ~(spec # {} /\ \E s \in slots : s.id = id /\ ~s.gen)
  <2>1. slots' = left /\ UNCHANGED <<until, count>>
    BY <1>3 DEF L!RemoveSlot
  <2> QED
    BY <1>1, <2>1 DEF WindowsGrown, L!TypeOK, L!GeneratedApart
<1> QED
  BY <1>2, <1>3

---------------------------------------------------------------------------
\* It holds at first.
LEMMA ListingsBegin == L!Init => ListingsInv
<1> SUFFICES ASSUME L!Init PROVE ListingsInv
  OBVIOUS
<1>1. 1 \in L!Day /\ 1 \in L!Id /\ 1 \in 0 .. MaxSlot /\ 1 \in 0 .. LastDay /\ 0 \in 0 .. LastDay
  BY Bounds DEF L!Day, L!Id
<1>2. slots \subseteq {[id |-> 1, at |-> 1, gen |-> 1 \in spec]} /\ [id |-> 1, at |-> 1, gen |-> 1 \in spec] \in L!Slot
  BY <1>1 DEF L!Init, L!Slot
<1>3. form \in L!Form
  BY DEF L!Init, L!Blank, L!Form
<1>4. L!Ids \subseteq {1}
  BY <1>2 DEF L!Ids
<1>5. /\ spec \in Plans /\ day = 1 /\ until \in {0, 1} /\ count = 1 /\ rolling = {} /\ view = L!Ids
      /\ open = FALSE /\ drafted = FALSE /\ dropped = {} /\ step = "idle" /\ gone = {} /\ todo = {}
  BY DEF L!Init
<1>6. L!TypeOK
  BY <1>1, <1>2, <1>3, <1>4, <1>5 DEF L!TypeOK
<1> QED
  BY <1>2, <1>4, <1>5, <1>6 DEF ListingsInv, L!GeneratedApart, SlotsNumbered, TakenGoes

\* However the windows grow, it is kept by a save that stands or goes on with what it took away.
LEMMA WindowsGrownKeep ==
  ASSUME ListingsInv, WindowsGrown, spec' \in Plans,
         UNCHANGED <<day, open, drafted, form, dropped>>, rolling' \subseteq Plans,
         view' = view, gone' \in {gone, {}},
         step' \in {"idle", "put", "remove", "add", "done"}, todo' \in SUBSET L!Id,
         step' = "remove" => gone' \cap L!Ids' \subseteq todo',
         step' \in {"add", "done"} => gone' \cap L!Ids' = {}
  PROVE  ListingsInv'
<1> USE DEF ListingsInv
<1>1. L!TypeOK'
  BY DEF L!TypeOK, WindowsGrown
<1>2. SlotsNumbered'
  <2>1. count \in Nat /\ count' \in Nat /\ count <= count'
    BY Bounds DEF L!TypeOK, WindowsGrown
  <2>2. \A s \in slots' : s.id <= count'
    BY <2>1 DEF SlotsNumbered, WindowsGrown, L!TypeOK, L!Slot, L!Id
  <2>3. \A i \in view' \cup gone' : i \in L!Id /\ i <= count
    BY DEF SlotsNumbered, L!TypeOK
  <2> QED
    BY <2>1, <2>2, <2>3 DEF SlotsNumbered, L!Id
<1>3. L!GeneratedApart' /\ TakenGoes'
  BY DEF WindowsGrown, TakenGoes
<1> QED
  BY <1>1, <1>2, <1>3

\* A window taken away is none of the new ones.
LEMMA GoneIsOld ==
  ASSUME ListingsInv, WindowsGrown
  PROVE  gone \cap L!Ids' \subseteq gone \cap L!Ids
<1> SUFFICES ASSUME NEW s \in slots', s.id \in gone PROVE s.id \in L!Ids
  BY DEF L!Ids
<1>1. s.id \in L!Id /\ s.id \in view \cup gone /\ count \in 0 .. MaxSlot
  BY DEF ListingsInv, L!TypeOK
<1>2. s.id <= count
  BY <1>1 DEF ListingsInv, SlotsNumbered
<1>3. s \in slots \/ s.id > count
  BY DEF WindowsGrown
<1>4. s.id \in Nat /\ count \in Nat
  BY <1>1, Bounds DEF L!Id
<1> QED
  BY <1>2, <1>3, <1>4 DEF L!Ids

LEMMA SaveKeeps ==
  ASSUME ListingsInv, L!Saving
  PROVE  ListingsInv'
<1> USE DEF ListingsInv
<1>1. CASE L!SavePut
  <2>1. WindowsGrown /\ spec' \in Plans
    BY <1>1, PutGrows DEF L!SavePut
  <2>2. \/ step' = "remove" /\ gone' = gone /\ todo' = gone
        \/ step' = "idle" /\ gone' = {} /\ todo' = todo
    BY <1>1 DEF L!SavePut, L!Goes, L!Failed
  <2>3. UNCHANGED <<day, rolling, view, open, drafted, form, dropped>>
    BY <1>1 DEF L!SavePut, L!Rest, L!job, L!fields
  <2>4. rolling' \subseteq Plans /\ todo' \in SUBSET L!Id /\ gone' \in {gone, {}}
    BY <2>2, <2>3 DEF L!TypeOK
  <2> QED
    BY <2>1, <2>2, <2>3, <2>4, WindowsGrownKeep
<1>2. ASSUME NEW id \in todo, L!SaveRemove(id) PROVE ListingsInv'
  <2>1. UNCHANGED <<day, rolling, view, open, drafted, form, dropped>> /\ todo' = todo \ {id}
    BY <1>2 DEF L!SaveRemove, L!Rest, L!job, L!fields
  <2>2. rolling' \subseteq Plans /\ todo' \in SUBSET L!Id
    BY <2>1 DEF L!TypeOK
  <2>3. CASE id \in L!Ids
    <3>1. WindowsGrown /\ spec' = spec /\ \A s \in slots' : s.id # id
      BY <1>2, <2>3, RemoveGrows DEF L!SaveRemove
    <3>2. gone \cap L!Ids' \subseteq (gone \cap L!Ids) \ {id}
      BY <3>1, GoneIsOld DEF L!Ids
    <3>3. (step' = step /\ gone' = gone) \/ (step' = "idle" /\ gone' = {})
      BY <1>2, <2>3 DEF L!SaveRemove, L!Goes, L!Failed
    <3>4. /\ step' \in {"idle", "put", "remove", "add", "done"} /\ spec' \in Plans
          /\ step' = "remove" => gone' \cap L!Ids' \subseteq todo'
          /\ step' \in {"add", "done"} => gone' \cap L!Ids' = {}
      BY <2>1, <3>1, <3>2, <3>3 DEF TakenGoes, L!TypeOK
    <3> QED
      BY <2>1, <2>2, <3>1, <3>3, <3>4, WindowsGrownKeep
  <2>4. CASE id \notin L!Ids
    <3>1. WindowsGrown /\ spec' = spec /\ step' = "idle" /\ gone' = {}
      BY <1>2, <2>4, ServerStands DEF L!SaveRemove, L!Failed
    <3>2. spec' \in Plans
      BY <3>1 DEF L!TypeOK
    <3> QED
      BY <2>1, <2>2, <3>1, <3>2, WindowsGrownKeep
  <2> QED
    BY <2>3, <2>4
<1>3. CASE L!Removed
  <2>1. /\ step = "remove" /\ todo = {} /\ step' \in {"add", "done"} /\ gone' = gone /\ todo' = todo
        /\ UNCHANGED L!server
        /\ UNCHANGED <<day, rolling, view, open, drafted, form, dropped>>
    BY <1>3 DEF L!Removed, L!Goes, L!Rest, L!job, L!fields
  <2>2. WindowsGrown /\ spec' = spec
    BY <2>1, ServerStands
  <2>3. gone' \cap L!Ids' = {}
    BY <2>1, <2>2, GoneIsOld DEF TakenGoes
  <2>4. rolling' \subseteq Plans /\ todo' \in SUBSET L!Id /\ spec' \in Plans
    BY <2>1, <2>2 DEF L!TypeOK
  <2> QED
    BY <2>1, <2>2, <2>3, <2>4, WindowsGrownKeep
<1>4. CASE L!SaveAdd
  <2>1. /\ step = "add" /\ todo' = todo /\ L!AddSlots(form.adds)
        /\ (step' = "done" /\ gone' = gone) \/ (step' = "idle" /\ gone' = {})
        /\ UNCHANGED <<day, rolling, view, open, drafted, form, dropped>>
    BY <1>4 DEF L!SaveAdd, L!Goes, L!Failed, L!Rest, L!job, L!fields
  <2>2. form.adds \subseteq L!Day
    BY PlansAreDays DEF L!TypeOK, L!Form, L!Day
  <2>3. WindowsGrown /\ spec' = spec
    BY <2>1, <2>2, SlotsAdded
  <2>4. gone \cap L!Ids' = {}
    BY <2>1, <2>3, GoneIsOld DEF TakenGoes
  <2>5. rolling' \subseteq Plans /\ todo' \in SUBSET L!Id /\ spec' \in Plans
    BY <2>1, <2>3 DEF L!TypeOK
  <2> QED
    BY <2>1, <2>3, <2>4, <2>5, WindowsGrownKeep
<1>5. CASE L!Lost
  <2>1. /\ step' = "idle" /\ gone' = {} /\ UNCHANGED L!server /\ todo' \subseteq todo
        /\ UNCHANGED <<day, rolling, view, open, drafted, form, dropped>>
    BY <1>5 DEF L!Lost, L!Failed, L!Rest, L!job, L!fields
  <2>2. WindowsGrown /\ spec' = spec
    BY <2>1, ServerStands
  <2>3. rolling' \subseteq Plans /\ todo' \in SUBSET L!Id /\ spec' \in Plans
    BY <2>1, <2>2 DEF L!TypeOK
  <2> QED
    BY <2>1, <2>2, <2>3, WindowsGrownKeep
<1>6. CASE L!Saved
  <2>1. /\ step' = "idle" /\ gone' = {} /\ view' = L!Ids /\ open' = FALSE /\ drafted' = FALSE /\ dropped' = {}
        /\ form' = L!Blank /\ UNCHANGED <<slots, spec, until, count, day, rolling, todo>>
    BY <1>6 DEF L!Saved, L!Emptied, L!server, L!job
  <2>2. L!Blank \in L!Form /\ L!Ids \subseteq L!Id /\ \A i \in L!Ids : i <= count
    BY DEF L!Blank, L!Form, L!Ids, L!TypeOK, L!Slot, SlotsNumbered
  <2> QED
    BY <2>1, <2>2 DEF L!TypeOK, L!GeneratedApart, SlotsNumbered, TakenGoes
<1> QED
  BY <1>1, <1>2, <1>3, <1>4, <1>5, <1>6 DEF L!Saving

LEMMA OwnerEditKeeps ==
  ASSUME ListingsInv, L!Owner
  PROVE  ListingsInv'
<1> USE DEF ListingsInv
<1>1. /\ UNCHANGED <<slots, spec, until, count, day, rolling, todo, L!Ids>>
      /\ view' \in {view, L!Ids} /\ gone' \in {gone, view \ form.kept}
      /\ (step' = step /\ gone' = gone) \/ step' = "put"
  BY DEF L!Owner, L!Fetch, L!Mount, L!Leave, L!Discard, L!Emptied, L!Submit, L!TakeAway, L!ChoosePlan, L!AddDates, L!Edited,
         L!server, L!job, L!fields, L!saving, L!Ids
<1>2. form' \in L!Form /\ open' \in BOOLEAN /\ drafted' \in BOOLEAN /\ dropped' \subseteq L!Id
  <2>1. L!Blank \in L!Form /\ [L!Blank EXCEPT !.kept = view] \in L!Form
    BY DEF L!Blank, L!Form, L!TypeOK
  <2>2. CASE L!Fetch \/ L!Mount \/ L!Leave \/ L!Discard \/ L!Submit
    BY <2>1, <2>2 DEF L!Fetch, L!Mount, L!Leave, L!Discard, L!Emptied, L!Submit, L!fields, L!TypeOK
  <2>3. ASSUME NEW id \in L!Id, L!TakeAway(id) PROVE form' \in L!Form /\ open' = open /\ drafted' = TRUE /\ dropped' \subseteq L!Id
    BY <2>3 DEF L!TakeAway, L!Edited, L!TypeOK, L!Form
  <2>4. ASSUME NEW p \in Plans, L!ChoosePlan(p) PROVE form' \in L!Form /\ open' = open /\ drafted' = TRUE /\ dropped' = dropped
    BY <2>4 DEF L!ChoosePlan, L!Edited, L!TypeOK, L!Form
  <2>5. ASSUME NEW ds \in SUBSET Dates, L!AddDates(ds) PROVE form' \in L!Form /\ open' = open /\ drafted' = TRUE /\ dropped' = dropped
    BY <2>5 DEF L!AddDates, L!Edited, L!TypeOK, L!Form
  <2> QED
    BY <2>2, <2>3, <2>4, <2>5 DEF L!Owner, L!TypeOK
<1>3. L!Ids \subseteq L!Id /\ \A i \in L!Ids : i <= count
  BY DEF L!Ids, L!TypeOK, L!Slot, SlotsNumbered
<1>4. L!TypeOK'
  BY <1>1, <1>2, <1>3 DEF L!TypeOK
<1>5. SlotsNumbered' /\ L!GeneratedApart' /\ TakenGoes'
  BY <1>1, <1>3 DEF SlotsNumbered, L!GeneratedApart, TakenGoes
<1> QED
  BY <1>4, <1>5

LEMMA JobRunKeeps ==
  ASSUME ListingsInv, L!ReadDue \/ L!RollOn \/ L!Tomorrow \/ L!Elsewhere
  PROVE  ListingsInv'
<1> USE DEF ListingsInv
<1>1. CASE L!ReadDue \/ L!Tomorrow
  <2>1. /\ UNCHANGED <<slots, spec, until, count, view, open, drafted, form, dropped, step, gone, todo, L!Ids>>
        /\ rolling' \in {rolling, {spec}}
        /\ day' \in L!Day
    BY <1>1, Bounds DEF L!ReadDue, L!Tomorrow, L!server, L!fields, L!saving, L!Ids, L!TypeOK, L!Day
  <2> QED
    BY <2>1 DEF L!TypeOK, SlotsNumbered, L!GeneratedApart, TakenGoes
<1>2. CASE L!RollOn \/ L!Elsewhere
  <2>1. UNCHANGED <<day, spec, view, open, drafted, form, dropped, step, gone, todo>> /\ rolling' \in {rolling, {}}
    BY <1>2 DEF L!RollOn, L!Elsewhere, L!AddSlots, L!job, L!fields, L!saving
  <2>2. WindowsGrown
    <3>1. CASE L!RollOn
      <4>1. PICK p \in rolling : L!ApplySchedule(p, FALSE, slots)
        BY <3>1 DEF L!RollOn
      <4> QED
        BY <4>1, ScheduleApplied DEF L!TypeOK
    <3>2. CASE L!Elsewhere
      <4>1. PICK d \in Dates : L!AddSlots({d})
        BY <3>2 DEF L!Elsewhere
      <4>2. {d} \subseteq L!Day
        BY PlansAreDays DEF L!Day
      <4> QED
        BY <4>1, <4>2, SlotsAdded
    <3> QED
      BY <1>2, <3>1, <3>2
  <2>3. gone \cap L!Ids' \subseteq gone \cap L!Ids
    BY <2>2, GoneIsOld
  <2>4. /\ spec' \in Plans /\ rolling' \subseteq Plans /\ todo' \in SUBSET L!Id /\ gone' = gone
        /\ step' \in {"idle", "put", "remove", "add", "done"}
        /\ step' = "remove" => gone' \cap L!Ids' \subseteq todo'
        /\ step' \in {"add", "done"} => gone' \cap L!Ids' = {}
    BY <2>1, <2>3 DEF L!TypeOK, TakenGoes
  <2> QED
    BY <2>1, <2>2, <2>4, WindowsGrownKeep
<1> QED
  BY <1>1, <1>2

\* Any step keeps it.
LEMMA ListingsNext ==
  ASSUME ListingsInv, [L!Next]_(L!vars)
  PROVE  ListingsInv'
<1>1. CASE UNCHANGED L!vars
  BY <1>1 DEF L!vars, L!server, L!job, L!fields, L!saving, ListingsInv, L!TypeOK, L!GeneratedApart, SlotsNumbered, TakenGoes, L!Ids
<1> QED
  BY <1>1, OwnerEditKeeps, SaveKeeps, JobRunKeeps DEF L!Next

LEMMA SavedHolds == ASSUME ListingsInv, L!Saved PROVE gone \cap L!Ids = {}
BY DEF ListingsInv, L!Saved, TakenGoes

---------------------------------------------------------------------------
(* The photos of a hand-over and the sweep.                                *)

CallAt == {"none", "sent", "put", "recorded", "asked", "owned", "marked"}
Asked == {"asked", "owned", "marked"}
Job == [photos : P!Picks, had : SUBSET File, up : Nat]

\* How far the save is: a photo under way is one of its own, and a save asked for is the last post.
Along ==
    /\ job \in Job /\ call \in [at : CallAt]
    /\ call.at \in {"sent", "put", "recorded"} => job.up < Len(job.photos)
    /\ call.at \in Asked => Len(posts) > 0 /\ job.photos = posts[Len(posts)].photos
    /\ Len(posts) > 0 => (posts[Len(posts)].end = "waits" <=> call.at \in Asked)
    /\ P!Busy /\ call.at \notin Asked => Len(posts) < MaxPost
    /\ call # P!NoCall => P!Busy

KeyOfLast ==
    /\ key <= Len(posts)
    /\ \A i \in DOMAIN posts : posts[i].key <= key /\ posts[i].photos # <<>>
    /\ Len(posts) = 0 => kept = <<>>
    /\ Len(posts) > 0 =>
         LET p == posts[Len(posts)] IN
         /\ key = p.key
         /\ kept = (IF p.end \in {"waits", "unknown"} THEN p.photos ELSE <<>>)

LockedUnused == locked \cap used = {}
PhotosInv == P!TypeOK /\ Along /\ KeyOfLast /\ P!RetryKeepsKey /\ LockedUnused
\* Picks without the library's names for its parts.
LEMMA PicksAre ==
  /\ \A s : s \in P!Picks <=>
       \E m \in 0 .. Cardinality(File) :
         s \in [1 .. m -> File] /\ \A i, j \in 1 .. m : s[i] = s[j] => i = j
  /\ Cardinality(File) \in Nat
<1>1. Cardinality(File) \in Nat
  BY FilesAreFinite, FS_CardinalityType
<1>2. ASSUME NEW s
      PROVE  s \in P!Picks <=> \E m \in 0 .. Cardinality(File) :
                               s \in [1 .. m -> File] /\ \A i, j \in 1 .. m : s[i] = s[j] => i = j
  BY ZenonT(60) DEF P!Picks, P!SeqOf, P!IsInjective, P!Cardinality, Cardinality
<1> QED
  BY <1>1, <1>2

LEMMA PickedOne ==
  ASSUME NEW s \in P!Picks
  PROVE  s \in Seq(File) /\ DOMAIN s = 1 .. Len(s) /\ Len(s) \in Nat /\ <<>> \in P!Picks
<1>1. PICK m \in 0 .. Cardinality(File) : s \in [1 .. m -> File]
  BY PicksAre
<1>2. <<>> \in [1 .. 0 -> File] /\ 0 \in 0 .. Cardinality(File) /\ \A i \in 1 .. 0 : FALSE
  BY PicksAre
<1>3. <<>> \in P!Picks
  BY <1>2, PicksAre, Zenon
<1>4. m \in Nat
  BY PicksAre
<1> QED
  BY <1>1, <1>3, <1>4

\* One more, which was not among them: no photo is picked twice, so there are not more than there are.
LEMMA PickedMore ==
  ASSUME NEW s \in P!Picks, NEW f \in File, \A i \in 1 .. Len(s) : s[i] # f
  PROVE  Append(s, f) \in P!Picks
<1>1. PICK m \in 0 .. Cardinality(File) :
         s \in [1 .. m -> File] /\ \A i, j \in 1 .. m : s[i] = s[j] => i = j
  BY PicksAre
<1>2. m \in Nat /\ Len(s) = m /\ s \in Seq(File)
  BY <1>1, PicksAre
<1>3. m < Cardinality(File)
  <2>1. s \in Injection(1 .. m, File)
    BY <1>1 DEF Injection, IsInjective
  <2>2. IsFiniteSet(1 .. m) /\ Cardinality(1 .. m) = m
    BY <1>2, FS_Interval
  <2>3. s \notin Surjection(1 .. m, File)
    BY <1>2 DEF Surjection
  <2>4. Cardinality(1 .. m) <= Cardinality(File) /\ Cardinality(1 .. m) # Cardinality(File)
    BY <2>1, <2>3, FS_Injection, FilesAreFinite
  <2> QED
    BY <1>2, <2>2, <2>4, PicksAre
<1>4. /\ Append(s, f) \in [1 .. (m + 1) -> File] /\ Append(s, f)[m + 1] = f
      /\ \A i \in 1 .. m : Append(s, f)[i] = s[i]
  <2> DEFINE t == Append(s, f)
  <2>1. /\ t \in Seq(File) /\ Len(t) = Len(s) + 1 /\ t[Len(s) + 1] = f
        /\ \A i \in 1 .. Len(s) : t[i] = s[i]
    BY <1>2, AppendProperties
  <2> HIDE DEF t
  <2>2. t \in [1 .. Len(t) -> File]
    BY <2>1, LenProperties
  <2>3. /\ t \in [1 .. (m + 1) -> File] /\ t[m + 1] = f
        /\ \A i \in 1 .. m : t[i] = s[i]
    BY <1>2, <2>1, <2>2
  <2> QED
    BY <2>3 DEF t
<1>5. \A i, j \in 1 .. (m + 1) : Append(s, f)[i] = Append(s, f)[j] => i = j
  BY <1>1, <1>2, <1>4
<1>6. m + 1 \in 0 .. Cardinality(File)
  BY <1>2, <1>3, PicksAre
<1> QED
  BY <1>4, <1>5, <1>6, PicksAre

\* One of them fewer.
LEMMA PickedLess ==
  ASSUME NEW s \in P!Picks, NEW k \in DOMAIN s
  PROVE  P!RemoveAt(s, k) \in P!Picks
<1>1. PICK m \in 0 .. Cardinality(File) :
         s \in [1 .. m -> File] /\ \A i, j \in 1 .. m : s[i] = s[j] => i = j
  BY PicksAre
<1>2. m \in Nat /\ Len(s) = m /\ s \in Seq(File) /\ k \in 1 .. m
  BY <1>1, PicksAre
<1> DEFINE t == P!RemoveAt(s, k)
<1>3. /\ t \in [1 .. (m - 1) -> File]
      /\ \A i \in 1 .. (m - 1) : t[i] = IF i < k THEN s[i] ELSE s[i + 1]
  <2> DEFINE u == SubSeq(s, 1, k - 1)
             v == SubSeq(s, k + 1, m)
  <2>1. \A i \in 1 .. m : s[i] \in File
    BY <1>2
  <2>2. u \in Seq(File) /\ Len(u) = k - 1 /\ \A i \in 1 .. (k - 1) : u[i] = s[i]
    BY <1>2, <2>1, SubSeqProperties
  <2>3. v \in Seq(File) /\ Len(v) = m - k /\ \A i \in 1 .. (m - k) : v[i] = s[i + k]
    BY <1>2, <2>1, SubSeqProperties
  <2>4. t = u \o v
    BY <1>2 DEF P!RemoveAt
  <2> HIDE DEF t, u, v
  <2>5. /\ t \in Seq(File) /\ Len(t) = m - 1
        /\ \A i \in 1 .. (m - 1) : t[i] = IF i <= k - 1 THEN u[i] ELSE v[i - (k - 1)]
    <3>1. /\ u \o v \in Seq(File) /\ Len(u \o v) = Len(u) + Len(v)
          /\ \A i \in 1 .. Len(u) + Len(v) : (u \o v)[i] = IF i <= Len(u) THEN u[i] ELSE v[i - Len(u)]
      BY <2>2, <2>3, ConcatProperties
    <3>2. Len(u) + Len(v) = m - 1 /\ Len(u) = k - 1
      BY <1>2, <2>2, <2>3
    <3> QED
      BY <2>4, <3>1, <3>2
  <2>6. t \in [1 .. (m - 1) -> File]
    BY <2>5, LenProperties
  <2>7. ASSUME NEW i \in 1 .. (m - 1) PROVE t[i] = IF i < k THEN s[i] ELSE s[i + 1]
    <3>1. CASE i < k
      <4>1. i \in 1 .. (k - 1) /\ i <= k - 1
        BY <3>1, <1>2
      <4> QED
        BY <3>1, <4>1, <2>2, <2>5
    <3>2. CASE ~(i < k)
      <4>1. i - (k - 1) \in 1 .. (m - k) /\ ~(i <= k - 1) /\ (i - (k - 1)) + k = i + 1
        BY <3>2, <1>2
      <4> QED
        BY <3>2, <4>1, <2>3, <2>5
    <3> QED
      BY <3>1, <3>2
  <2> QED
    BY <2>6, <2>7
<1> HIDE DEF t
<1>4. \A i, j \in 1 .. (m - 1) : t[i] = t[j] => i = j
  <2> SUFFICES ASSUME NEW i \in 1 .. (m - 1), NEW j \in 1 .. (m - 1), t[i] = t[j] PROVE i = j
    OBVIOUS
  <2> DEFINE r(n) == IF n < k THEN n ELSE n + 1
  <2>1. r(i) \in 1 .. m /\ r(j) \in 1 .. m /\ t[i] = s[r(i)] /\ t[j] = s[r(j)]
    BY <1>2, <1>3
  <2>2. r(i) = r(j)
    BY <1>1, <2>1
  <2> QED
    BY <1>2, <2>2
<1>5. m - 1 \in 0 .. Cardinality(File)
  BY <1>2, PicksAre
<1>6. t \in P!Picks
  BY <1>3, <1>4, <1>5, PicksAre
<1> QED
  BY <1>6 DEF t

---------------------------------------------------------------------------
\* It holds at first.
LEMMA PhotosBegin == P!Init => PhotosInv
<1> SUFFICES ASSUME P!Init PROVE PhotosInv
  OBVIOUS
<1>1. <<>> \in P!Picks
  <2>1. <<>> \in [1 .. 0 -> File] /\ 0 \in 0 .. Cardinality(File) /\ \A i \in 1 .. 0 : FALSE
    BY PicksAre
  <2> QED
    BY <2>1, PicksAre, Zenon
<1>2. job \in Job /\ call \in [at : CallAt] /\ call.at = "none" /\ call = P!NoCall /\ ~P!Busy
  BY <1>1 DEF P!Init, P!Idle, Job, P!NoCall, CallAt, P!Busy
<1>3. P!TypeOK
  <2>1. job.photos = <<>> /\ job.had = {} /\ job.up = 0
    BY DEF P!Init, P!Idle
  <2>2. posts \in Seq(P!Post) /\ Len(posts) = 0
    BY DEF P!Init
  <2> QED
    BY <1>1, <1>2, <2>1, <2>2, Bounds DEF P!Init, P!TypeOK
<1>4. Along /\ KeyOfLast /\ P!RetryKeepsKey
  BY <1>2 DEF P!Init, Along, KeyOfLast, P!RetryKeepsKey, Asked
<1> QED
  BY <1>3, <1>4 DEF P!Init, PhotosInv, LockedUnused

\* What the types say of the numbers and the sets, one by one.
LEMMA PostTypes ==
  ASSUME PhotosInv
  PROVE  /\ MaxPost \in Nat /\ key \in Nat /\ Len(posts) \in Nat
         /\ \A i \in 1 .. Len(posts) : posts[i] \in P!Post /\ posts[i].key \in Nat /\ posts[i].key >= 1
<1>1. posts \in Seq(P!Post) /\ MaxPost \in Nat /\ key \in Nat
  BY Bounds DEF PhotosInv, P!TypeOK
<1>2. \A i \in 1 .. Len(posts) : posts[i] \in P!Post
  BY <1>1
<1>3. \A p \in P!Post : p.key \in Nat /\ p.key >= 1
  BY <1>1 DEF P!Post
<1> QED
  BY <1>1, <1>2, <1>3

\* What the types say of the numbers and the sets, one by one.
LEMMA PhotosTypes ==
  ASSUME PhotosInv
  PROVE  /\ MaxPost \in Nat /\ MaxPost > 0 /\ key \in Nat /\ Len(posts) \in Nat /\ Len(posts) <= MaxPost
         /\ posts \in Seq(P!Post) /\ DOMAIN posts = 1 .. Len(posts) /\ job.photos \in Seq(File) /\ job.up \in Nat
         /\ DOMAIN job.photos = 1 .. Len(job.photos) /\ Len(job.photos) \in Nat
         /\ <<>> \in P!Picks
BY Bounds, PickedOne DEF PhotosInv, P!TypeOK, Along, Job

\* What is picked, taken out and put away leaves the save alone.
LEMMA SheetKeeps ==
  ASSUME PhotosInv,
         (\E f \in File : P!Pick(f)) \/ (\E i \in DOMAIN files : P!TakeOut(i)) \/ P!NotNow
  PROVE  PhotosInv' /\ doomed' = doomed
<1> USE DEF PhotosInv
<1>1. UNCHANGED <<uploaded, job, key, kept, posts, call, row, used, stored, locked, doomed, evidence>>
  BY DEF P!Pick, P!TakeOut, P!NotNow, P!sweep
<1>2. files' \in P!Picks
  <2>1. ASSUME NEW f \in File, P!Pick(f) PROVE files' \in P!Picks
    BY <2>1, PickedMore DEF P!TypeOK, P!Pick, P!Contains
  <2>2. ASSUME NEW i \in DOMAIN files, P!TakeOut(i) PROVE files' \in P!Picks
    BY <2>2, PickedLess DEF P!TypeOK, P!TakeOut
  <2>3. CASE P!NotNow
    BY <2>3, PhotosTypes DEF P!NotNow
  <2> QED
    BY <2>1, <2>2, <2>3
<1>3. P!TypeOK'
  BY <1>1, <1>2 DEF P!TypeOK
<1> QED
  BY <1>1, <1>3 DEF Along, P!Busy, KeyOfLast, P!RetryKeepsKey, LockedUnused

\* A save begins, and one photo after the other is up.
LEMMA SavePressKeeps ==
  ASSUME PhotosInv, P!Save
  PROVE  PhotosInv' /\ doomed' = doomed
<1> USE DEF PhotosInv
<1>1. /\ UNCHANGED <<files, uploaded, key, kept, posts, call, row, used, stored, locked, doomed, evidence>>
      /\ job' = [photos |-> files, had |-> uploaded, up |-> 0] /\ files # <<>> /\ Len(posts) < MaxPost /\ ~P!Busy
  BY DEF P!Save, P!sweep
<1>2. call = P!NoCall /\ call.at = "none" /\ files \in P!Picks /\ Len(files) \in Nat
  BY <1>1, PickedOne DEF Along, P!NoCall, P!TypeOK
<1>3. P!TypeOK' /\ job' \in Job
  BY <1>1, <1>2 DEF P!TypeOK, Job
<1>4. Along'
  BY <1>1, <1>2, <1>3 DEF Along, Asked, P!NoCall
<1> QED
  BY <1>1, <1>3, <1>4 DEF KeyOfLast, P!RetryKeepsKey, LockedUnused

LEMMA UploadKeeps ==
  ASSUME PhotosInv, P!Skip \/ P!SendPhoto \/ P!PhotoUp \/ P!PhotoFails \/ P!Put \/ P!RecordMedia
  PROVE  PhotosInv' /\ doomed' = doomed
<1> USE DEF PhotosInv
<1>1. /\ UNCHANGED <<files, key, kept, posts, used, locked, doomed, evidence>>
      /\ call.at \notin Asked /\ call'.at \notin Asked /\ call' \in [at : CallAt]
      /\ P!Busy /\ Len(posts) < MaxPost
  BY DEF P!Skip, P!SendPhoto, P!PhotoUp, P!PhotoFails, P!Put, P!RecordMedia, P!ToSend, P!Advance, P!web, P!sweep, P!NoCall, Along, Asked, CallAt
<1>2. CASE P!PhotoFails
  <2>1. job' = P!Idle /\ call' = P!NoCall /\ UNCHANGED <<uploaded, row, stored>>
    BY <1>2 DEF P!PhotoFails
  <2>2. job' \in Job /\ job'.photos = <<>> /\ P!TypeOK'
    BY <1>1, <2>1, PhotosTypes DEF P!Idle, Job, P!TypeOK, P!NoCall
  <2> QED
    BY <1>1, <2>1, <2>2 DEF Along, P!Busy, KeyOfLast, P!RetryKeepsKey, LockedUnused, P!NoCall, Asked
<1>3. CASE ~P!PhotoFails
  <2>1. job.up < Len(job.photos) /\ P!Upcoming \in File
    BY <1>3, PhotosTypes DEF P!Skip, P!SendPhoto, P!PhotoUp, P!Put, P!RecordMedia, P!ToSend, Along, P!Upcoming
  <2>2. /\ job' \in Job /\ job'.photos = job.photos /\ job'.up <= Len(job.photos)
        /\ uploaded' \subseteq File /\ stored' \subseteq File /\ row' \in [File -> {"none", "young", "old"}]
    <3>1. CASE P!Skip \/ P!PhotoUp
      BY <3>1, <2>1, PhotosTypes DEF P!Skip, P!PhotoUp, P!Advance, Along, Job, P!TypeOK
    <3>2. CASE P!SendPhoto \/ P!Put \/ P!RecordMedia
      BY <3>2, <2>1, PhotosTypes DEF P!SendPhoto, P!Put, P!RecordMedia, P!web, Along, Job, P!TypeOK
    <3> QED
      BY <1>3, <3>1, <3>2
  <2>3. call'.at \in {"sent", "put", "recorded"} => job' = job
    BY <1>3 DEF P!Skip, P!SendPhoto, P!PhotoUp, P!Put, P!RecordMedia, P!web, P!NoCall, P!ToSend
  <2>4. P!TypeOK'
    BY <1>1, <2>2, PhotosTypes DEF P!TypeOK, Job, CallAt
  <2>5. Along'
    BY <1>1, <2>1, <2>2, <2>3 DEF Along, P!Busy
  <2> QED
    BY <1>1, <2>4, <2>5 DEF KeyOfLast, P!RetryKeepsKey, LockedUnused
<1> QED
  BY <1>2, <1>3

\* The save goes out under the key kept for its photos, or under a new one.
LEMMA SendSaveKeeps ==
  ASSUME PhotosInv, P!SendSave
  PROVE  PhotosInv' /\ doomed' = doomed
<1> USE DEF PhotosInv
<1> DEFINE p == [key |-> key', photos |-> job.photos, end |-> "waits"]
           n == Len(posts)
<1>1. /\ UNCHANGED <<files, uploaded, job, row, used, stored, locked, doomed, evidence>>
      /\ P!Busy /\ call = P!NoCall /\ call' = [at |-> "asked"] /\ kept' = job.photos
      /\ posts' = Append(posts, p)
      /\ key' = IF kept = job.photos THEN key ELSE key + 1
  BY DEF P!SendSave, P!sweep
<1>2. /\ call.at = "none" /\ n < MaxPost /\ job.photos \in P!Picks /\ job.photos # <<>>
      /\ n > 0 => posts[n].end # "waits"
  BY <1>1 DEF Along, P!NoCall, Asked, P!TypeOK, P!Busy
<1>3. /\ Len(posts') = n + 1 /\ posts'[n + 1] = p /\ DOMAIN posts' = 1 .. (n + 1)
      /\ \A i \in 1 .. n : posts'[i] = posts[i]
  BY <1>1, PhotosTypes
<1>4. /\ key' \in 1 .. (n + 1) /\ key <= key'
  <2>1. CASE kept = job.photos
    <3>1. key = posts[n].key /\ n \in 1 .. n /\ key <= n
      BY <2>1, <1>2, PostTypes DEF KeyOfLast
    <3> QED
      BY <2>1, <3>1, <1>1, PostTypes
  <2>2. CASE kept # job.photos
    BY <2>2, <1>1, PhotosTypes DEF KeyOfLast
  <2> QED
    BY <2>1, <2>2
<1>5. p \in P!Post
  BY <1>2, <1>4, PhotosTypes DEF P!Post
<1>6. P!TypeOK'
  <2>1. posts' \in Seq(P!Post) /\ Len(posts') <= MaxPost
    BY <1>1, <1>2, <1>3, <1>5, PhotosTypes
  <2> QED
    BY <1>1, <1>2, <1>4, <2>1, PhotosTypes DEF P!TypeOK
<1>7. Along'
  BY <1>1, <1>2, <1>3, PhotosTypes DEF Along, P!Busy, Asked, CallAt, P!NoCall
<1>8. KeyOfLast'
  <2>1. \A i \in 1 .. (n + 1) : posts'[i].key <= key' /\ posts'[i].photos # <<>>
    <3>1. \A i \in 1 .. n : posts[i].key <= key /\ posts[i].photos # <<>>
      BY PhotosTypes DEF KeyOfLast
    <3>2. p.key = key' /\ p.photos # <<>>
      BY <1>2
    <3>3. \A i \in 1 .. (n + 1) : i \in 1 .. n \/ i = n + 1
      BY PostTypes
    <3> QED
      BY <1>3, <1>4, <3>1, <3>2, <3>3, PostTypes
  <2> QED
    BY <1>1, <1>3, <1>4, <2>1, PhotosTypes DEF KeyOfLast
<1>9. P!RetryKeepsKey'
  <2> SUFFICES ASSUME NEW i \in 1 .. n, posts'[i].photos = posts'[i + 1].photos
               PROVE  posts'[i].key = posts'[i + 1].key <=> posts'[i].end = "unknown"
    BY <1>3, PhotosTypes, SMTT(30) DEF P!RetryKeepsKey
  <2>1. CASE i < n
    <3>1. i \in 1 .. n - 1 /\ i \in 1 .. n /\ i + 1 \in 1 .. n
      BY <2>1, PostTypes
    <3> QED
      BY <3>1, <1>3 DEF P!RetryKeepsKey
  <2>2. CASE i = n
    <3>1. /\ posts'[i] = posts[n] /\ posts'[i + 1] = p /\ posts[n].photos = job.photos /\ key = posts[n].key
          /\ kept = IF posts[n].end = "unknown" THEN job.photos ELSE <<>>
      BY <2>2, <1>2, <1>3, PhotosTypes DEF KeyOfLast
    <3> QED
      BY <3>1, <1>1, <1>2, PhotosTypes
  <2> QED
    BY <2>1, <2>2, PostTypes
<1> QED
  BY <1>1, <1>6, <1>7, <1>8, <1>9 DEF LockedUnused

\* It ends: the key is kept as long as nobody knows how.
LEMMA EndsKeep ==
  ASSUME PhotosInv, NEW how \in {"unknown", "refused", "saved"}, P!Ends(how), call.at \in Asked,
         evidence' = evidence \/ evidence' = P!Insert, UNCHANGED <<row, used, stored, P!sweep>>
  PROVE  PhotosInv' /\ doomed' = doomed
<1> USE DEF PhotosInv
<1> DEFINE n == Len(posts)
<1>1. /\ UNCHANGED <<uploaded, key, row, used, stored, locked, doomed>>
      /\ job' = P!Idle /\ call' = P!NoCall /\ kept' = (IF how = "unknown" THEN kept ELSE <<>>)
      /\ posts' = [posts EXCEPT ![n].end = how] /\ files' \in {files, <<>>}
  BY DEF P!Ends, P!Settled, P!sweep
<1>2. /\ n > 0 /\ posts[n].end = "waits" /\ posts[n] \in P!Post /\ job.photos \in P!Picks
  BY PhotosTypes DEF Along, P!TypeOK
<1>3. /\ Len(posts') = n /\ DOMAIN posts' = 1 .. n /\ posts'[n] = [posts[n] EXCEPT !.end = how]
      /\ \A i \in 1 .. n : i # n => posts'[i] = posts[i]
  BY <1>1, <1>2, PhotosTypes
<1>4. posts'[n] \in P!Post /\ posts'[n].key = posts[n].key /\ posts'[n].photos = posts[n].photos /\ posts'[n].end = how
  BY <1>2, <1>3 DEF P!Post
<1>5. posts' \in Seq(P!Post)
  <2>1. posts \in Seq(P!Post) /\ n \in 1 .. Len(posts)
    BY <1>2, PhotosTypes
  <2>2. [posts[n] EXCEPT !.end = how] \in P!Post
    BY <1>3, <1>4
  <2> QED
    BY <1>1, <2>1, <2>2, ExceptSeq
<1>6. P!TypeOK'
  <2>1. evidence' \subseteq [n : 1 .. MaxPost, photos : P!Picks]
    BY <1>2, PhotosTypes DEF P!TypeOK, P!Insert
  <2>2. job'.photos = <<>> /\ job'.had = {} /\ job'.up = 0 /\ Len(job'.photos) = 0
    BY <1>1 DEF P!Idle
  <2>3. call'.at = "none"
    BY <1>1 DEF P!NoCall
  <2>4. files' \in P!Picks /\ kept' \in P!Picks /\ Len(posts') <= MaxPost
    BY <1>1, <1>3, PhotosTypes DEF P!TypeOK
  <2> QED
    BY <1>1, <1>5, <2>1, <2>2, <2>3, <2>4, PhotosTypes DEF P!TypeOK
<1>7. Along'
  <2>1. job' \in Job /\ job'.photos = <<>> /\ call' \in [at : CallAt] /\ call'.at = "none" /\ call' = P!NoCall
    BY <1>1, PhotosTypes DEF P!Idle, Job, P!NoCall, CallAt
  <2> QED
    BY <2>1, <1>3, <1>4 DEF Along, P!Busy, Asked, P!NoCall
<1>8. KeyOfLast'
  <2>1. \A i \in 1 .. n : posts'[i].key <= key' /\ posts'[i].photos # <<>>
    BY <1>1, <1>3, <1>4, PhotosTypes DEF KeyOfLast
  <2> QED
    BY <1>1, <1>2, <1>3, <1>4, <2>1, PhotosTypes DEF KeyOfLast
<1>9. P!RetryKeepsKey'
  <2> SUFFICES ASSUME NEW i \in 1 .. n - 1, posts'[i].photos = posts'[i + 1].photos
               PROVE  posts'[i].key = posts'[i + 1].key <=> posts'[i].end = "unknown"
    BY <1>3, PhotosTypes DEF P!RetryKeepsKey
  <2>1. /\ posts'[i] = posts[i]
        /\ posts'[i + 1].key = posts[i + 1].key /\ posts'[i + 1].photos = posts[i + 1].photos
    <3>1. i \in 1 .. n /\ i # n /\ i + 1 \in 1 .. n
      BY <1>3, PostTypes
    <3> QED
      BY <3>1, <1>3, <1>4
  <2>2. i \in 1 .. Len(posts) - 1
    BY <1>3
  <2> QED
    BY <2>1, <2>2 DEF P!RetryKeepsKey
<1> QED
  BY <1>1, <1>6, <1>7, <1>8, <1>9 DEF LockedUnused

\* The server and the sweep: what is locked is not in use, and nothing locked is marked.
LEMMA ServerKeeps ==
  ASSUME PhotosInv, P!Owned \/ P!MarkUsed \/ P!SweepReads \/ P!SweepCommits \/ P!DeleteFiles \/ P!DayPasses
  PROVE  PhotosInv' /\ \A f \in doomed' \ doomed : f \notin used
<1> USE DEF PhotosInv
<1>1. /\ UNCHANGED <<files, uploaded, job, key, kept, posts, evidence>>
      /\ call'.at \in Asked <=> call.at \in Asked
      /\ call' \in [at : CallAt] /\ (call' # P!NoCall => call # P!NoCall)
      /\ call'.at \in {"sent", "put", "recorded"} => call' = call
  BY DEF P!Owned, P!MarkUsed, P!SweepReads, P!SweepCommits, P!DeleteFiles, P!DayPasses, P!web, Along, Asked, CallAt, P!NoCall
<1>2. /\ row' \in [File -> {"none", "young", "old"}] /\ used' \subseteq File /\ stored' \subseteq File
      /\ locked' \subseteq File /\ doomed' \subseteq File /\ locked' \cap used' = {}
      /\ doomed' \subseteq doomed \cup locked
  <2> USE DEF P!TypeOK, LockedUnused, P!sweep
  <2>1. CASE P!Owned \/ P!SweepReads \/ P!DeleteFiles
    BY <2>1 DEF P!Owned, P!SweepReads, P!DeleteFiles, P!Orphans
  <2>2. CASE P!MarkUsed
    <3>1. P!ToSet(job.photos) \subseteq File
      BY PhotosTypes DEF P!ToSet
    <3> QED
      BY <2>2, <3>1 DEF P!MarkUsed
  <2>3. CASE P!SweepCommits \/ P!DayPasses
    BY <2>3 DEF P!SweepCommits, P!DayPasses
  <2> QED
    BY <2>1, <2>2, <2>3
<1>3. P!TypeOK'
  BY <1>1, <1>2 DEF P!TypeOK, CallAt
<1>4. Along'
  BY <1>1 DEF Along, P!Busy
<1> QED
  BY <1>1, <1>2, <1>3, <1>4 DEF KeyOfLast, P!RetryKeepsKey, LockedUnused

\* Any step keeps it.
LEMMA PhotosNext ==
  ASSUME PhotosInv, [P!Next]_(P!vars)
  PROVE  PhotosInv' /\ \A f \in doomed' \ doomed : f \notin used
<1>1. CASE UNCHANGED P!vars
  BY <1>1 DEF P!vars, P!web, P!sweep, PhotosInv, P!TypeOK, Along, P!Busy, KeyOfLast, P!RetryKeepsKey, LockedUnused
<1>2. CASE (\E f \in File : P!Pick(f)) \/ (\E i \in DOMAIN files : P!TakeOut(i)) \/ P!NotNow
  BY <1>2, SheetKeeps
<1>3. CASE P!Save
  BY <1>3, SavePressKeeps
<1>4. CASE P!Skip \/ P!SendPhoto \/ P!PhotoUp \/ P!PhotoFails \/ P!Put \/ P!RecordMedia
  BY <1>4, UploadKeeps
<1>5. CASE P!SendSave
  BY <1>5, SendSaveKeeps
<1>6. CASE P!Saved \/ P!SavedUnheard \/ P!Refused \/ P!Lost
  BY <1>6, EndsKeep DEF P!Saved, P!SavedUnheard, P!Refused, P!Lost, Asked
<1>7. CASE P!Owned \/ P!MarkUsed \/ P!SweepReads \/ P!SweepCommits \/ P!DeleteFiles \/ P!DayPasses
  BY <1>7, ServerKeeps
<1> QED
  BY <1>1, <1>2, <1>3, <1>4, <1>5, <1>6, <1>7 DEF P!Next
==============================================================================
