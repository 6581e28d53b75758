----------------------------- MODULE PagesProofs ------------------------------
(***************************************************************************)
(* Proofs about the machines of MCPages.  A listing: what is down stays    *)
(* down because no step clears moderated or deleted; a report is decided   *)
(* once because the decision is counted in the step that closes it; and    *)
(* nothing dear is live unlooked at because an edit that leaves a hold or  *)
(* raises a price finds what it read, or has crossed another.  A booking's page: what it calls *)
(* done stands because the booking never goes back to waiting, and what it *)
(* offers is in the server's table because a booking that waits lapses at  *)
(* its booked time.  The choice of a window: starts are only ever shown    *)
(* for hours that had a quote, so a window of the hours picked was shown   *)
(* with their price.                                                       *)
(***************************************************************************)
EXTENDS MCPages, FiniteSetTheorems, WellFoundedInduction, TLAPS

\* What TLC evaluates of the bounds of the choice, one by one.
LEMMA PickBounds ==
  LastHour \in Nat /\ MaxRate \in Nat \ {0} /\ MaxCall \in Nat /\ MaxOther \in Nat /\ MaxPick \in Nat
BY BoundsAreNaturals

---------------------------------------------------------------------------
(* A listing on the market.                                               *)

\* Nothing that staff do to the row brings it back, and they leave the rest of it in its type.
LEMMA TakenDown ==
  ASSUME TypeOK, TakeDown \/ NothingMoves \/ Suspend
  PROVE  /\ ~Mine => ~Mine'
         /\ active' \in BOOLEAN /\ moderated' \in BOOLEAN /\ deleted' \in BOOLEAN
         /\ dear' \in BOOLEAN /\ abroad' \in BOOLEAN /\ removals' \in BOOLEAN
         /\ held' \in Held /\ request' \in Request
BY DEF TypeOK, TakeDown, NothingMoves, Suspend, Mine, row, booking

\* A decision takes effect, is counted and closes the report in one step.
LEMMA DecidedCounts ==
  ASSUME TypeOK, DecidedOnce, NEW d \in Decision, Decided(d)
  PROVE  /\ TakeDown \/ NothingMoves \/ Suspend
         /\ report' \in {"dismissed", "actioned"} /\ decisions' = 1 /\ looked' \in BOOLEAN
<1>1. report = "open" /\ decisions = 0
  BY DEF Decided, MayDecide, DecidedOnce
<1>2. report' \in {"dismissed", "actioned"} /\ decisions' = 1 /\ looked' \in BOOLEAN
  BY <1>1 DEF Decided, TypeOK
<1>3. TakeDown \/ NothingMoves \/ Suspend
  BY DEF Decided, Decision
<1> QED
  BY <1>2, <1>3

---------------------------------------------------------------------------
(* The inductive invariant: the types, and the count of the decisions.     *)

MarketInv == TypeOK /\ DecidedOnce

\* It holds of a listing just made.
LEMMA InvInit == Init => MarketInv
<1> SUFFICES ASSUME Init PROVE MarketInv
  OBVIOUS
<1>1. active \in BOOLEAN /\ held \in Held /\ dear \in BOOLEAN /\ abroad \in BOOLEAN
  BY DEF Init, Held
<1>2. /\ moderated \in BOOLEAN /\ deleted \in BOOLEAN /\ looked \in BOOLEAN
      /\ removals \in BOOLEAN /\ asked \in BOOLEAN /\ queue \in BOOLEAN /\ waiting \in BOOLEAN
  BY Zenon DEF Init
<1>3. /\ report = "none" /\ decisions = 0 /\ editing = {} /\ request = "none" /\ sweeping = {}
      /\ sheet = "none" /\ decision = "none" /\ earn = {active} /\ clash \in BOOLEAN
  BY Zenon DEF Init
<1>4. earn \subseteq BOOLEAN
  BY <1>1, <1>3
<1> QED
  BY <1>1, <1>2, <1>3, <1>4 DEF MarketInv, TypeOK, DecidedOnce, Request

\* An edit keeps its types, and leaves what is down as it is.
LEMMA InvEdits ==
  ASSUME MarketInv, EditReads \/ \E e \in editing : EditRefused(e) \/ \E d \in BOOLEAN : EditWrites(e, d)
  PROVE  MarketInv' /\ (~Mine => ~Mine')
<1> USE DEF MarketInv, TypeOK, DecidedOnce, Mine, Held, Request
<1>1. CASE EditReads
  <2>1. [held |-> held, dear |-> dear, off |-> held = "place" /\ ~active] \in Reading
    <3>1. (held = "place" /\ ~active) \in BOOLEAN
      BY Zenon
    <3> QED
      BY <3>1 DEF Reading
  <2>2. editing' \subseteq Reading
    BY <1>1, <2>1 DEF EditReads
  <2> QED
    BY <1>1, <2>2 DEF EditReads, row, staff, booking, owner, console
<1>2. CASE \E e \in editing : EditRefused(e)
  BY <1>2 DEF EditRefused, EditEnds, row, staff, booking, owner, console
<1>3. CASE \E e \in editing : \E d \in BOOLEAN : EditWrites(e, d)
  <2>1. PICK e \in editing, d \in BOOLEAN : EditWrites(e, d)
    BY <1>3
  <2>2. e \in Reading /\ e.dear \in BOOLEAN /\ e.off \in BOOLEAN
    BY DEF Reading
  <2>3. UNCHANGED <<moderated, deleted, staff, sweeping, booking, owner, console>> /\ editing' \subseteq editing
    BY <2>1 DEF EditWrites, EditEnds
  <2>4. clash' \in BOOLEAN
    BY <2>1, Zenon DEF EditWrites
  <2>5. dear' \in BOOLEAN /\ abroad' \in BOOLEAN /\ active' \in BOOLEAN
    <3>1. /\ abroad' = FALSE /\ active' = (active \/ e.off)
          /\ dear' \in {d} \cup (IF d = e.dear THEN {dear} ELSE {})
      BY <2>1 DEF EditWrites
    <3>2. dear' \in BOOLEAN
      BY <3>1
    <3>3. active' \in BOOLEAN
      BY <3>1, <2>2, Zenon
    <3> QED
      BY <3>1, <3>2, <3>3
  <2>6. held' \in Held
    BY <2>1 DEF EditWrites
  <2> QED
    BY <2>3, <2>4, <2>5, <2>6 DEF staff, booking, owner, console
<1> QED
  BY <1>1, <1>2, <1>3

\* What the owner does keeps it, and brings nothing back.
LEMMA InvOwner ==
  ASSUME MarketInv, Owner
  PROVE  MarketInv' /\ (~Mine => ~Mine')
<1> USE DEF MarketInv, TypeOK, DecidedOnce, Mine, Held, Request, row, staff, edits, booking, owner, console
<1>1. CASE ReadEarn
  BY <1>1 DEF ReadEarn
<1>2. CASE \E s \in {"remove", "decline"} : Open(s)
  BY <1>2 DEF Open
<1>3. CASE Keep
  BY <1>3 DEF Keep
<1>4. CASE Flip
  <2>1. UNCHANGED <<moderated, deleted, held, dear, abroad, staff, edits, sweeping, booking, owner, console>>
    BY <1>4 DEF Flip
  <2>2. active' \in BOOLEAN
    <3>1. active' \in IF Mine THEN {~l : l \in earn} ELSE {active}
      BY <1>4, Zenon DEF Flip
    <3>2. \A l \in earn : (~l) \in BOOLEAN
      BY Zenon
    <3> QED
      BY <3>1, <3>2
  <2> QED
    BY <2>1, <2>2
<1>5. CASE Remove
  <2>1. /\ UNCHANGED <<moderated, held, dear, abroad, staff, edits, sweeping, request, earn, asked, console>>
        /\ sheet' = "none"
    BY <1>5, Zenon DEF Remove
  <2>2. /\ active' \in BOOLEAN /\ deleted' \in BOOLEAN /\ removals' \in BOOLEAN
        /\ deleted => deleted'
    BY <1>5, Zenon DEF Remove
  <2> QED
    BY <2>1, <2>2
<1>6. CASE \E to \in {"accepted", "declined"} : Answer(to)
  BY <1>6 DEF Answer
<1>7. CASE EditReads \/ \E e \in editing : EditRefused(e) \/ \E d \in BOOLEAN : EditWrites(e, d)
  BY <1>7, InvEdits
<1> QED
  BY <1>1, <1>2, <1>3, <1>4, <1>5, <1>6, <1>7 DEF Owner

\* What staff do keeps it, and brings nothing back.
LEMMA InvStaff ==
  ASSUME MarketInv, StaffActs
  PROVE  MarketInv' /\ (~Mine => ~Mine')
<1> USE DEF MarketInv
<1>1. ASSUME NEW d \in Decision, Decided(d), UNCHANGED <<edits, sweeping, owner, queue, waiting>>,
             decision' \in {"none"} \cup Decision
      PROVE  MarketInv' /\ (~Mine => ~Mine')
  BY <1>1, DecidedCounts, TakenDown DEF TypeOK, DecidedOnce, edits, owner
<1>2. CASE ReadConsole
  <2>1. queue' \in BOOLEAN /\ waiting' \in BOOLEAN
    BY <1>2, Zenon DEF ReadConsole
  <2> QED
    BY <1>2, <2>1 DEF ReadConsole, TypeOK, DecidedOnce, Mine, row, staff, edits, booking, owner
<1>7. CASE CloseDecision
  BY <1>7 DEF CloseDecision, TypeOK, DecidedOnce, Mine, row, staff, edits, booking, owner
<1>8. CASE Approve
  <2>1. active' \in BOOLEAN /\ looked' \in BOOLEAN /\ held' \in Held
    BY <1>8, Zenon DEF Approve, TypeOK, Held
  <2> QED
    BY <1>8, <2>1 DEF Approve, TypeOK, DecidedOnce, Mine, edits, booking, owner, console
<1>3. CASE \E d \in Decision : Choose(d)
  BY <1>3 DEF Choose, TypeOK, DecidedOnce, Mine, row, staff, edits, booking, owner
<1>4. CASE \E d \in Decision : OthersDecide(d)
  BY <1>1, <1>4 DEF OthersDecide, console, TypeOK
<1>5. CASE Decide
  <2>1. CASE Decided(decision) /\ decision' = "none"
    BY <1>1, <1>5, <2>1 DEF Decide, TypeOK
  <2>2. CASE ~MayDecide(decision) /\ NothingMoves /\ UNCHANGED <<staff, decision>>
    BY <1>5, <2>2 DEF Decide, NothingMoves, TypeOK, DecidedOnce, Mine, row, staff, edits, booking, owner
  <2> QED
    BY <1>5, <2>1, <2>2 DEF Decide
<1>6. CASE \E d \in {"take_down", "suspend"} : Direct(d)
  BY <1>6, TakenDown DEF Direct, TypeOK, DecidedOnce, staff, edits, owner, console
<1> QED
  BY <1>2, <1>3, <1>4, <1>5, <1>6, <1>7, <1>8 DEF StaffActs

\* Any step keeps it, and brings nothing back.
LEMMA InvNext ==
  ASSUME MarketInv, [Next]_vars
  PROVE  MarketInv' /\ (~Mine => ~Mine')
<1>1. CASE Owner
  BY <1>1, InvOwner
<1>2. CASE StaffActs
  BY <1>2, InvStaff
<1>3. CASE Report \/ Ask \/ Ends
  BY <1>3 DEF Report, Ask, Ends, MarketInv, TypeOK, DecidedOnce, Mine, Request,
              row, staff, edits, booking, owner, console
<1>5. CASE HearRemoval
  <2>1. removals' \in BOOLEAN /\ request' \in Request
    BY <1>5 DEF HearRemoval, MarketInv, TypeOK, Request
  <2> QED
    BY <1>5, <2>1 DEF HearRemoval, MarketInv, TypeOK, DecidedOnce, Mine, row, staff, edits, owner, console
<1>6. CASE SweepFinds
  BY <1>6 DEF SweepFinds, MarketInv, TypeOK, DecidedOnce, Mine, row, staff, edits, booking, owner, console
<1>7. CASE SweepHolds
  <2>1. active' \in BOOLEAN /\ held' \in Held
    BY <1>7, Zenon DEF SweepHolds, Held
  <2> QED
    BY <1>7, <2>1 DEF SweepHolds, MarketInv, TypeOK, DecidedOnce, Mine, staff, edits, booking, owner, console
<1>4. CASE UNCHANGED vars
  BY <1>4 DEF vars, MarketInv, TypeOK, DecidedOnce, Mine, row, staff, edits, booking, owner, console
<1> QED
  BY <1>1, <1>2, <1>3, <1>4, <1>5, <1>6, <1>7 DEF Next

---------------------------------------------------------------------------
(* Nothing dear comes onto the market unlooked at.                         *)

\* A dear listing that is held for nothing was looked at, paused or not, unless two edits crossed.
LookedInv == ~clash /\ dear /\ held = "no" => looked

\* An edit that did not cross another keeps it: one that leaves a hold for its place finds the price it
\* read, and one that read the check still finds a hold.
LEMMA EditLooks ==
  ASSUME TypeOK, LookedInv, NEW e \in editing, NEW d \in BOOLEAN, EditWrites(e, d)
  PROVE  LookedInv'
<1>1. e.held \in Held /\ e.dear \in BOOLEAN
  BY DEF TypeOK, Reading
<1>2. SUFFICES ASSUME ~clash', dear', held' = "no" PROVE looked
  BY DEF LookedInv, EditWrites, staff
<1>3. ~clash /\ ~Crossed(e)
  BY <1>2 DEF EditWrites
<1>4. dear' = d \/ (d = e.dear /\ dear' = dear)
  BY DEF EditWrites
<1>5. held' = CASE e.held = "place" -> IF d THEN "check" ELSE "no"
                [] e.held = "no" /\ d -> IF held = "place" THEN "place" ELSE "check"
                [] OTHER -> held
  BY DEF EditWrites
<1>6. CASE e.held = "place"
  <2>1. ~d /\ dear = e.dear
    BY <1>2, <1>3, <1>5, <1>6 DEF Crossed
  <2> QED
    BY <1>2, <1>4, <2>1
<1>7. CASE e.held = "no"
  <2>1. ~d
    BY <1>2, <1>5, <1>7
  <2>2. held = "no"
    BY <1>2, <1>5, <1>7, <2>1
  <2> QED
    BY <1>2, <1>3, <1>4, <2>1, <2>2 DEF LookedInv
<1>8. CASE e.held = "check"
  BY <1>2, <1>3, <1>5, <1>8 DEF Crossed
<1> QED
  BY <1>1, <1>6, <1>7, <1>8 DEF Held

\* Any step keeps it.
LEMMA LookedNext ==
  ASSUME TypeOK, LookedInv, [Next]_vars
  PROVE  LookedInv'
<1>1. CASE UNCHANGED <<dear, held, looked, clash>>
  BY <1>1 DEF LookedInv
<1>2. CASE \E e \in editing : \E d \in BOOLEAN : EditWrites(e, d)
  BY <1>2, EditLooks
<1>3. CASE Approve
  <2>1. dear' = dear /\ clash' = clash
    BY <1>3 DEF Approve, edits
  <2>2. (held' = held /\ looked' = looked) \/ looked'
    BY <1>3, Zenon DEF Approve
  <2> QED
    BY <2>1, <2>2 DEF LookedInv
<1>4. CASE SweepHolds
  BY <1>4, Zenon DEF SweepHolds, LookedInv
<1>5. ASSUME NEW d \in Decision, Decided(d), UNCHANGED clash
      PROVE  UNCHANGED <<dear, held, looked, clash>>
  BY <1>5 DEF Decided, Decision, NothingMoves, TakeDown, Suspend, row
<1>6. CASE \E d \in Decision : OthersDecide(d)
  BY <1>1, <1>5, <1>6 DEF OthersDecide, edits
<1>7. CASE Decide
  <2>1. decision \in Decision
    BY <1>7 DEF Decide, TypeOK
  <2> QED
    BY <1>1, <1>5, <1>7, <2>1 DEF Decide, NothingMoves, row, staff, edits
<1>8. CASE \E d \in {"take_down", "suspend"} : Direct(d)
  BY <1>1, <1>8 DEF Direct, TakeDown, Suspend, NothingMoves, row, staff, edits
<1>9. CASE ReadEarn \/ (\E s \in {"remove", "decline"} : Open(s)) \/ Keep \/ Flip \/ Remove
           \/ (\E to \in {"accepted", "declined"} : Answer(to)) \/ EditReads \/ \E e \in editing : EditRefused(e)
  BY <1>1, <1>9 DEF ReadEarn, Open, Keep, Flip, Remove, Answer, EditReads, EditRefused, row, staff, edits
<1>10. CASE ReadConsole \/ (\E d \in Decision : Choose(d)) \/ CloseDecision
  BY <1>1, <1>10 DEF ReadConsole, Choose, CloseDecision, row, staff, edits
<1>11. CASE Report \/ Ask \/ Ends \/ HearRemoval \/ SweepFinds \/ UNCHANGED vars
  BY <1>1, <1>11 DEF Report, Ask, Ends, HearRemoval, SweepFinds, vars, row, staff, edits
<1> QED
  BY <1>2, <1>3, <1>4, <1>6, <1>7, <1>8, <1>9, <1>10, <1>11 DEF Next, Owner, StaffActs

---------------------------------------------------------------------------

\* Every variable keeps its type, whatever the owner, staff, renters and the catalog's jobs do.
THEOREM MarketTyped == Spec => []TypeOK
<1>1. Init => MarketInv
  BY InvInit
<1>2. MarketInv /\ [Next]_vars => MarketInv'
  BY InvNext
<1>3. MarketInv => TypeOK
  BY DEF MarketInv
<1> QED
  BY <1>1, <1>2, <1>3, PTL DEF Spec

\* Two of the staff may decide the same report: one decision is recorded of it, and none of one that waits.
THEOREM ReportDecidedOnce == Spec => []DecidedOnce
<1>1. Init => MarketInv
  BY InvInit
<1>2. MarketInv /\ [Next]_vars => MarketInv'
  BY InvNext
<1>3. MarketInv => DecidedOnce
  BY DEF MarketInv
<1> QED
  BY <1>1, <1>2, <1>3, PTL DEF Spec

\* A listing that was taken down or removed is never again one that can be booked.
THEOREM TakenDownStays == Spec => StaysDown
<1>1. Init => MarketInv
  BY InvInit
<1>2. MarketInv /\ [Next]_vars => MarketInv'
  BY InvNext
<1>3. MarketInv /\ [Next]_vars => [~Mine => ~Bookable']_vars
  BY InvNext DEF Bookable
<1> QED
  BY <1>1, <1>2, <1>3, PTL DEF Spec, StaysDown

\* A new owner's dear listing is on no market before one of the staff has looked at it, in whatever
\* order edits, approvals and the job that holds what lies abroad write their columns, however many
\* edits are under way; unless two of those crossed.
THEOREM LookedAtFirst == Spec => []NoneUnlooked
<1>1. Init => LookedInv
  <2>1. Init => held = IF dear THEN "check" ELSE "no"
    BY DEF Init
  <2> QED
    BY <2>1 DEF LookedInv
<1>2. TypeOK /\ LookedInv /\ [Next]_vars => LookedInv'
  BY LookedNext
<1>3. LookedInv => NoneUnlooked
  BY DEF LookedInv, NoneUnlooked, Bookable
<1> QED
  BY <1>1, <1>2, <1>3, MarketTyped, PTL DEF Spec

\* The three together: what is off the market stays off it, by one decision, and nothing comes onto it
\* that had to be looked at and was not, but for edits that crossed.
THEOREM OffTheMarket == Spec => DownForGood
BY TakenDownStays, ReportDecidedOnce, LookedAtFirst, PTL DEF DownForGood

---------------------------------------------------------------------------
(* The page of a booking.                                                  *)

\* What a person or the system did to a booking no later step undoes: the statuses that count as it.
Stands(a) ==
    \/ status = B!TRANSITIONS[a].to
    \/ B!TRANSITIONS[a].to \notin B!FINAL /\ status \notin B!Live

\* A booking nobody answered lapses at its booked time at the latest.
LapsesInTime == status \in B!Live /\ phase >= B!Begun => lapsed

\* An answer on its way, and the one said last, were given for what still stands.
TrueAnswers ==
    /\ \A c \in cmd : c.st = "ok" /\ c.act \in B!Moves => Stands(c.act)
    /\ said \in B!Moves => Stands(said)

BookingPageInv == B!TypeOK /\ LapsesInTime /\ TrueAnswers

---------------------------------------------------------------------------
\* The half of the price.
LEMMA Halves == Total \div 2 \in 0 .. Total /\ Total \in 0 .. Total /\ 0 \in 0 .. Total
BY PriceHalves

\* Where each move leads, and who may make it from where.
LEMMA MovesLead ==
  /\ \A a \in B!Moves : B!TRANSITIONS[a].to \in {"accepted", "declined", "active", "completed", "cancelled", "disputed"}
  /\ B!TRANSITIONS["accept"].to = "accepted" /\ B!TRANSITIONS["start"].to = "active"
  /\ B!TRANSITIONS["complete"].to = "completed" /\ B!TRANSITIONS["cancel"].to = "cancelled"
  /\ B!TRANSITIONS["decline"].to = "declined" /\ B!TRANSITIONS["dispute"].to = "disputed"
  /\ B!TRANSITIONS["no_show"].to = "cancelled"
  /\ \A a \in B!Moves : B!TRANSITIONS[a].from \subseteq {"awaiting_payment", "requested", "accepted", "active"}
BY DEF B!TRANSITIONS, B!Moves, B!Plain

LEMMA SystemLeads ==
  /\ \A a \in B!SystemAction : B!SYSTEM[a].to \in {"requested", "accepted", "payment_failed", "expired", "completed", "declined"}
  /\ \A a \in B!SystemAction : B!SYSTEM[a].to = "requested" => a = "authorised" /\ B!SYSTEM[a].from = {"awaiting_payment"}
  /\ \A a \in B!SystemAction : B!SYSTEM[a].from \subseteq {"awaiting_payment", "requested", "accepted", "active"}
  /\ \A a \in B!SystemAction : B!SYSTEM[a].to = "accepted" => B!SYSTEM[a].from = {"awaiting_payment"}
  /\ \A a \in B!SystemAction : B!SYSTEM[a].from \cap {"accepted", "active"} # {} => B!SYSTEM[a].to \in {"completed", "payment_failed"}
BY DEF B!SYSTEM, B!SystemAction

\* A booking begins before the hand-over, whatever parts of its time are told apart.
LEMMA BeginsAhead == B!First \in Phases /\ B!First < B!Begun
<1>1. \E p \in Phases : \A q \in Phases : p <= q
  <2>1. \A S : S \subseteq 0 .. 8 /\ (\E p \in S : p < 3) => \E p \in S : \A q \in S : p <= q
    <3> SUFFICES ASSUME NEW S, S \subseteq 0 .. 8, NEW x \in S, x < 3
                 PROVE  \E p \in S : \A q \in S : p <= q
      OBVIOUS
    <3>1. CASE 0 \in S
      BY <3>1
    <3>2. CASE 0 \notin S /\ 1 \in S
      BY <3>2
    <3>3. CASE 0 \notin S /\ 1 \notin S
      <4>1. x = 2
        BY <3>3
      <4> QED
        BY <3>3, <4>1
    <3> QED
      BY <3>1, <3>2, <3>3
  <2> QED
    BY <2>1, PhasesAreKnown
<1>2. B!First \in Phases /\ \A q \in Phases : B!First <= q
  BY <1>1 DEF B!First
<1> QED
  BY <1>2, PhasesAreKnown DEF B!Begun

\* It holds at first.
LEMMA BookingPageBegins == B!Init => BookingPageInv
<1> SUFFICES ASSUME B!Init PROVE BookingPageInv
  OBVIOUS
<1>1. B!TypeOK
  BY BeginsAhead, Halves DEF B!Init, B!TypeOK, B!View, B!Now, B!Status, B!Role
<1>2. LapsesInTime
  BY BeginsAhead, PhasesAreKnown DEF B!Init, LapsesInTime, B!Begun
<1>3. TrueAnswers
  BY DEF B!Init, TrueAnswers, B!Moves, B!Plain
<1> QED
  BY <1>1, <1>2, <1>3 DEF BookingPageInv

---------------------------------------------------------------------------
\* The booking moves on: by a move of its table, and never back to waiting.
Onward ==
    \/ status' = status
    \/ status \in {"awaiting_payment", "requested"} /\ status' \in B!Status \ {"awaiting_payment"}
    \/ status \in {"accepted", "active"} /\ status' \in {"active", "completed", "cancelled", "disputed", "payment_failed"}

\* What stood stands.
LEMMA StandsOn ==
  ASSUME B!TypeOK, Onward, NEW a \in B!Moves, Stands(a)
  PROVE  Stands(a)'
<1>1. B!TRANSITIONS[a].to \in {"accepted", "declined", "active", "completed", "cancelled", "disputed"}
  BY MovesLead
<1>2. CASE B!TRANSITIONS[a].to \in B!FINAL
  BY <1>1, <1>2 DEF Stands, Onward, B!FINAL
<1>3. CASE B!TRANSITIONS[a].to \notin B!FINAL
  BY <1>1, <1>3 DEF Stands, Onward, B!Live, B!FINAL, B!TypeOK
<1> QED
  BY <1>2, <1>3

\* A command the server takes.
LEMMA TakenMoves ==
  ASSUME B!TypeOK, LapsesInTime, NEW a \in B!Act, NEW r \in B!Role, B!Takes(a, r), B!Effect(a, r)
  PROVE  /\ Onward /\ LapsesInTime' /\ (a \in B!Moves => Stands(a)')
         /\ status' \in B!Status /\ lapsed' \in BOOLEAN /\ back' \in 0 .. Total
         /\ rated' \subseteq B!Role /\ claim' \in BOOLEAN
         /\ UNCHANGED <<phase, moderate, card, role>> /\ B!Refund(r) \in 0 .. Total
<1>1. /\ UNCHANGED <<phase, moderate, card, role>>
      /\ rated' \subseteq B!Role /\ claim' \in BOOLEAN
  BY DEF B!Effect, B!TypeOK
<1>2. B!Refund(r) \in 0 .. Total
  BY Halves DEF B!Refund
<1>3. back' \in 0 .. Total
  BY <1>2, Halves DEF B!Effect, B!TypeOK
<1>4. CASE a \in B!Moves
  <2>1. status' = B!TRANSITIONS[a].to /\ lapsed' = FALSE
    BY <1>4 DEF B!Effect
  <2>2. status \in B!TRANSITIONS[a].from
    <3>1. \A n \in B!Notes : n \notin B!Moves
      BY DEF B!Notes, B!Moves, B!Plain
    <3> QED
      BY <1>4, <3>1 DEF B!Takes, B!CanAct, B!Moves, B!Plain
  <2>3. status' \in {"accepted", "declined", "active", "completed", "cancelled", "disputed"}
    BY <1>4, <2>1, MovesLead
  <2>4. Onward
    BY <1>4, <2>1, <2>2, <2>3 DEF Onward, B!TRANSITIONS, B!Moves, B!Plain, B!Status
  <2>5. LapsesInTime' /\ status' \in B!Status /\ lapsed' \in BOOLEAN /\ Stands(a)'
    BY <2>1, <2>3 DEF LapsesInTime, B!Live, B!Status, Stands
  <2> QED
    BY <1>1, <1>2, <1>3, <2>4, <2>5
<1>5. CASE a \notin B!Moves
  <2>1. UNCHANGED <<status, lapsed>>
    BY <1>5 DEF B!Effect
  <2>2. Onward /\ LapsesInTime' /\ status' \in B!Status /\ lapsed' \in BOOLEAN
    BY <1>1, <2>1 DEF Onward, LapsesInTime, B!TypeOK
  <2> QED
    BY <1>1, <1>2, <1>3, <1>5, <2>2
<1> QED
  BY <1>4, <1>5

\* The booking moves on behind the page.
LEMMA BookingMovesKeep ==
  ASSUME BookingPageInv, Onward, LapsesInTime', UNCHANGED <<role, B!page>>,
         status' \in B!Status, phase' \in Phases, lapsed' \in BOOLEAN, moderate' \in BOOLEAN, card' \in BOOLEAN,
         rated' \subseteq B!Role, claim' \in BOOLEAN, back' \in 0 .. Total
  PROVE  BookingPageInv'
<1>1. B!TypeOK'
  BY DEF BookingPageInv, B!TypeOK, B!page
<1>2. TrueAnswers'
  <2>1. \A a \in B!Moves : Stands(a) => Stands(a)'
    BY StandsOn DEF BookingPageInv
  <2> QED
    BY <2>1 DEF BookingPageInv, TrueAnswers, B!page
<1> QED
  BY <1>1, <1>2 DEF BookingPageInv

\* The other side, the system and the clock.
LEMMA ElsewhereKeeps ==
  ASSUME BookingPageInv, B!Elsewhere
  PROVE  BookingPageInv'
<1> USE DEF BookingPageInv
<1>1. ASSUME NEW a \in B!Act, B!OtherActs(a) PROVE BookingPageInv'
  <2>1. B!Other \in B!Role
    <3>1. \E r \in B!Role : r # role
      BY DEF B!Role
    <3> QED
      BY <3>1 DEF B!Other
  <2>2. B!Takes(a, B!Other) /\ B!Effect(a, B!Other) /\ UNCHANGED B!page
    BY <1>1 DEF B!OtherActs
  <2> HIDE DEF BookingPageInv
  <2>3. /\ Onward /\ LapsesInTime' /\ status' \in B!Status /\ lapsed' \in BOOLEAN /\ back' \in 0 .. Total
        /\ rated' \subseteq B!Role /\ claim' \in BOOLEAN /\ UNCHANGED <<phase, moderate, card, role>>
    BY <2>1, <2>2, TakenMoves DEF BookingPageInv
  <2>4. phase' \in Phases /\ moderate' \in BOOLEAN /\ card' \in BOOLEAN
    BY <2>3 DEF BookingPageInv, B!TypeOK
  <2> QED
    BY <2>2, <2>3, <2>4, BookingMovesKeep
<1>2. ASSUME NEW a \in B!SystemAction, B!SystemMove(a) PROVE BookingPageInv'
  <2>1. /\ status \in B!SYSTEM[a].from /\ status' = B!SYSTEM[a].to /\ lapsed' = (a = "authorised" /\ phase >= B!Begun)
        /\ UNCHANGED <<phase, moderate, card, rated, claim, back, role, B!page>>
    BY <1>2 DEF B!SystemMove, B!Applies
  <2>2. Onward
    BY <2>1, SystemLeads DEF Onward, B!Status
  <2>3. LapsesInTime' /\ status' \in B!Status /\ lapsed' \in BOOLEAN
    BY <2>1, SystemLeads DEF LapsesInTime, B!Live, B!Status
  <2>4. /\ phase' \in Phases /\ moderate' \in BOOLEAN /\ card' \in BOOLEAN
        /\ rated' \subseteq B!Role /\ claim' \in BOOLEAN /\ back' \in 0 .. Total
    BY <2>1 DEF B!TypeOK
  <2> HIDE DEF BookingPageInv
  <2> QED
    BY <2>1, <2>2, <2>3, <2>4, BookingMovesKeep
<1>3. CASE B!OtherPays \/ B!RunsOut \/ B!Tick
  <2>1. /\ UNCHANGED <<status, moderate, rated, claim, back, role, B!page>>
        /\ phase' \in Phases /\ lapsed' \in BOOLEAN /\ card' \in BOOLEAN
    BY <1>3 DEF B!OtherPays, B!RunsOut, B!Tick, B!TypeOK
  <2>2. LapsesInTime'
    BY <1>3 DEF B!OtherPays, B!RunsOut, B!Tick, LapsesInTime
  <2>3. Onward /\ status' \in B!Status /\ moderate' \in BOOLEAN /\ rated' \subseteq B!Role /\ claim' \in BOOLEAN /\ back' \in 0 .. Total
    BY <2>1 DEF Onward, B!TypeOK
  <2> HIDE DEF BookingPageInv
  <2> QED
    BY <2>1, <2>2, <2>3, BookingMovesKeep
<1> QED
  BY <1>1, <1>2, <1>3 DEF B!Elsewhere

\* The page, of which the server learns nothing: it may forget what it called done, or send a command.
LEMMA PageKeeps ==
  ASSUME BookingPageInv, UNCHANGED <<B!server, role>>,
         seen' \in B!View, pageSheet' \in {"none"} \cup B!Act, photos' \in {"none", "check_in", "check_out"},
         toFinish' \in BOOLEAN, confirming' \in BOOLEAN, quote' \subseteq B!Quote,
         deal' = deal, said' \in {said, "none"},
         cmd' = cmd \/ cmd' \in {{[act |-> a, st |-> "sent", shown |-> n]} : a \in B!Act, n \in 0 .. Total}
  PROVE  BookingPageInv'
<1> USE DEF BookingPageInv
<1>1. cmd' \subseteq B!Command /\ said' \in {"none"} \cup B!Act
  BY DEF B!TypeOK, B!Command
<1>2. B!TypeOK'
  BY <1>1 DEF B!TypeOK, B!server
<1>3. \A a : Stands(a)' = Stands(a)
  BY DEF Stands, B!server
<1>4. TrueAnswers'
  BY <1>3 DEF TrueAnswers, B!Moves, B!Plain
<1>5. LapsesInTime'
  BY DEF LapsesInTime, B!server
<1> QED
  BY <1>2, <1>4, <1>5

\* What the cancel sheet says is part of the price.
LEMMA QuoteIsPart == ASSUME B!TypeOK PROVE B!Shown \in 0 .. Total
<1>1. CASE ~B!SaysCharged \/ quote = {}
  BY <1>1, Halves DEF B!Shown
<1>2. CASE B!SaysCharged /\ quote # {}
  <2>1. \E q \in quote : q.refund \in 0 .. Total
    BY <1>2 DEF B!TypeOK, B!Quote
  <2>2. \E r \in 0 .. Total : \E q \in quote : q.refund = r
    BY <2>1
  <2> QED
    BY <1>2, <2>2 DEF B!Shown
<1> QED
  BY <1>1, <1>2

\* The person and the page's own reads.
LEMMA PersonKeeps ==
  ASSUME BookingPageInv, (B!Person /\ ~B!Pay) \/ B!Read \/ B!ReadQuote \/ B!StopConfirming
  PROVE  BookingPageInv'
<1> USE DEF BookingPageInv
<1>1. CASE B!Read
  <2>1. B!Now \in B!View
    BY DEF B!Now, B!View, B!TypeOK
  <2> QED
    BY <1>1, <2>1, PageKeeps DEF B!Read, B!TypeOK
<1>2. CASE B!ReadQuote
  <2>1. [refund |-> B!Refund(role), charged |-> B!Charged] \in B!Quote
    BY Halves DEF B!Refund, B!Quote, B!Charged
  <2> QED
    BY <1>2, <2>1, PageKeeps DEF B!ReadQuote, B!TypeOK
<1>3. CASE B!StopConfirming \/ B!CloseSheet \/ B!PhotosFirst \/ B!NotNow
  <2>1. /\ UNCHANGED <<B!server, role, seen, cmd, quote, said, deal>> /\ confirming' \in {confirming, FALSE}
        /\ pageSheet' \in {pageSheet, "none"} /\ photos' \in {photos, "none", "check_out"} /\ toFinish' \in BOOLEAN
    BY <1>3 DEF B!StopConfirming, B!CloseSheet, B!PhotosFirst, B!NotNow, B!PhotosClosed, B!TypeOK
  <2>2. /\ seen' \in B!View /\ pageSheet' \in {"none"} \cup B!Act /\ photos' \in {"none", "check_in", "check_out"}
        /\ toFinish' \in BOOLEAN /\ confirming' \in BOOLEAN /\ quote' \subseteq B!Quote
        /\ deal' = deal /\ said' \in {said, "none"} /\ cmd' = cmd /\ UNCHANGED <<B!server, role>>
    BY <2>1 DEF B!TypeOK
  <2> HIDE DEF BookingPageInv
  <2> QED
    BY <2>2, PageKeeps
<1>4. ASSUME NEW a \in B!Act, B!Open(a) \/ B!OpenPhotos(a) PROVE BookingPageInv'
  BY <1>4, PageKeeps DEF B!Open, B!OpenPhotos, B!Stage, B!TypeOK
<1>5. CASE (\E a \in B!Act : B!Tap(a)) \/ B!Confirm \/ B!SavePhotos
  <2>1. \A a \in B!Act : B!Sends(a) => cmd' \in {{[act |-> b, st |-> "sent", shown |-> n]} : b \in B!Act, n \in 0 .. Total}
    BY QuoteIsPart, Halves DEF B!Sends
  <2>2. B!Stage \subseteq B!Act /\ "rate" \in B!Act /\ {"check_in", "check_out"} \subseteq B!Act
    BY DEF B!Stage, B!Act, B!Notes
  <2>3. CASE \E a \in B!Act : B!Tap(a)
    BY <2>1, <2>3, PageKeeps DEF B!Tap, B!TypeOK
  <2>4. CASE B!Confirm
    <3>1. pageSheet \in B!Act /\ pageSheet' \in {"none"} \cup B!Act
      BY <2>2, <2>4 DEF B!Confirm, B!TypeOK
    <3> QED
      BY <2>1, <2>4, <3>1, PageKeeps DEF B!Confirm, B!TypeOK
  <2>5. CASE B!SavePhotos
    <3>1. photos \in B!Act
      BY <2>2, <2>5 DEF B!SavePhotos, B!TypeOK
    <3> QED
      BY <2>1, <2>5, <3>1, PageKeeps DEF B!SavePhotos, B!TypeOK
  <2> QED
    BY <1>5, <2>3, <2>4, <2>5
<1> QED
  BY <1>1, <1>2, <1>3, <1>4, <1>5 DEF B!Person

LEMMA PayKeeps ==
  ASSUME BookingPageInv, B!Pay
  PROVE  BookingPageInv'
<1> USE DEF BookingPageInv
<1>1. B!TypeOK'
  BY DEF B!Pay, B!TypeOK
<1>2. LapsesInTime' /\ TrueAnswers'
  BY DEF B!Pay, LapsesInTime, TrueAnswers, Stands
<1> QED
  BY <1>1, <1>2

\* A command, its answer, and what is said of it.
LEMMA CommandKeeps ==
  ASSUME BookingPageInv, NEW c \in cmd, B!Handle(c) \/ B!Answered(c) \/ B!Lost(c)
  PROVE  BookingPageInv'
<1> USE DEF BookingPageInv
<1>1. c \in B!Command /\ c.act \in B!Act /\ c.shown \in 0 .. Total
  BY DEF B!TypeOK, B!Command
<1>2. CASE B!Handle(c) /\ B!Takes(c.act, role)
  <2>1. /\ B!Effect(c.act, role) /\ cmd' = {[c EXCEPT !.st = "ok"]}
        /\ deal' = (IF c.act = "cancel" THEN {[shown |-> c.shown, got |-> B!Refund(role)]} ELSE deal)
        /\ UNCHANGED <<seen, pageSheet, photos, toFinish, confirming, quote, said>>
    BY <1>2 DEF B!Handle
  <2>2. role \in B!Role
    BY DEF B!TypeOK
  <2>3. /\ Onward /\ LapsesInTime' /\ (c.act \in B!Moves => Stands(c.act)')
        /\ status' \in B!Status /\ lapsed' \in BOOLEAN /\ back' \in 0 .. Total
        /\ rated' \subseteq B!Role /\ claim' \in BOOLEAN
        /\ UNCHANGED <<phase, moderate, card, role>> /\ B!Refund(role) \in 0 .. Total
    <3> HIDE DEF BookingPageInv
    <3> QED
      BY <1>1, <1>2, <2>1, <2>2, TakenMoves DEF BookingPageInv
  <2>4. [c EXCEPT !.st = "ok"] \in B!Command /\ [c EXCEPT !.st = "ok"].act = c.act
    BY <1>1 DEF B!Command
  <2>5. B!TypeOK'
    BY <1>1, <2>1, <2>3, <2>4 DEF B!TypeOK
  <2>6. TrueAnswers'
    <3>1. \A a \in B!Moves : Stands(a) => Stands(a)'
      BY <2>3, StandsOn
    <3>2. \A d \in cmd' : d.act = c.act
      BY <2>1, <2>4
    <3> QED
      BY <2>1, <2>3, <3>1, <3>2 DEF TrueAnswers
  <2> QED
    BY <2>3, <2>5, <2>6
<1>3. CASE B!Handle(c) /\ ~B!Takes(c.act, role)
  <2>1. /\ cmd' = {[c EXCEPT !.st = "no"]}
        /\ UNCHANGED <<B!server, role, deal, seen, pageSheet, photos, toFinish, confirming, quote, said>>
    BY <1>3 DEF B!Handle
  <2>2. [c EXCEPT !.st = "no"] \in B!Command /\ [c EXCEPT !.st = "no"].st = "no"
    BY <1>1 DEF B!Command
  <2>3. B!TypeOK'
    BY <2>1, <2>2 DEF B!TypeOK, B!server
  <2>4. LapsesInTime' /\ TrueAnswers'
    BY <2>1, <2>2 DEF LapsesInTime, TrueAnswers, Stands, B!server
  <2> QED
    BY <2>3, <2>4
<1>4. CASE B!Done(c.act) /\ (c.act \in B!Moves => Stands(c.act))
  <2>1. cmd' = {} /\ said' = c.act /\ UNCHANGED <<B!server, role, seen, confirming, quote, deal>>
    BY <1>4 DEF B!Done
  <2>2. pageSheet' \in {"none"} \cup B!Act /\ photos' \in {"none", "check_in", "check_out"} /\ toFinish' \in BOOLEAN
    <3>1. "complete" \in B!Act
      BY DEF B!Act, B!Moves, B!Plain
    <3> QED
      BY <1>4, <3>1 DEF B!Done, B!PhotosClosed, B!TypeOK
  <2>3. B!TypeOK'
    BY <1>1, <2>1, <2>2 DEF B!TypeOK, B!server
  <2>4. LapsesInTime' /\ TrueAnswers'
    BY <1>4, <2>1 DEF LapsesInTime, TrueAnswers, Stands, B!server
  <2> QED
    BY <2>3, <2>4
<1>5. CASE B!Sorry
  <2>1. cmd' = {} /\ said' = "none" /\ UNCHANGED <<B!server, role, seen, pageSheet, photos, toFinish, confirming, quote, deal>>
    BY <1>5 DEF B!Sorry
  <2>2. B!TypeOK'
    BY <2>1 DEF B!TypeOK, B!server
  <2>3. LapsesInTime' /\ TrueAnswers'
    BY <2>1 DEF LapsesInTime, TrueAnswers, Stands, B!Moves, B!Plain, B!server
  <2> QED
    BY <2>2, <2>3
<1>6. ASSUME B!Answered(c) PROVE (B!Done(c.act) /\ (c.act \in B!Moves => Stands(c.act))) \/ B!Sorry
  <2>1. CASE c.st = "ok" /\ B!Done(c.act)
    BY <2>1 DEF TrueAnswers
  <2>2. CASE c.st = "no" /\ B!There(c) /\ B!Done(c.act)
    BY <2>2 DEF B!There, Stands
  <2>3. CASE B!Sorry
    BY <2>3
  <2> QED
    BY <1>6, <2>1, <2>2, <2>3 DEF B!Answered
<1> QED
  BY <1>2, <1>3, <1>4, <1>5, <1>6 DEF B!Lost

\* Any step keeps it.
LEMMA BookingPageNext ==
  ASSUME BookingPageInv, [B!Next]_(B!vars)
  PROVE  BookingPageInv'
<1>1. CASE UNCHANGED B!vars
  BY <1>1 DEF B!vars, B!server, B!page, BookingPageInv, B!TypeOK, LapsesInTime, TrueAnswers, Stands
<1>2. CASE B!Person \/ B!Read \/ B!ReadQuote \/ B!StopConfirming
  BY <1>2, PersonKeeps, PayKeeps DEF B!Person
<1>3. CASE B!Elsewhere
  BY <1>3, ElsewhereKeeps
<1>4. CASE \E c \in cmd : B!Handle(c) \/ B!Answered(c) \/ B!Lost(c)
  BY <1>4, CommandKeeps
<1> QED
  BY <1>1, <1>2, <1>3, <1>4 DEF B!Next

\* What is called done stands, and each button the page offers is one the server's table has.
LEMMA PageIsTrue == BookingPageInv => B!OfferedIsTaken /\ B!SaidIsTrue
<1> SUFFICES ASSUME BookingPageInv PROVE B!OfferedIsTaken /\ B!SaidIsTrue
  OBVIOUS
<1>1. B!SaidIsTrue
  BY DEF BookingPageInv, TrueAnswers, B!SaidIsTrue, Stands
<1>2. B!OfferedIsTaken
  <2> SUFFICES ASSUME seen = B!Now, ~lapsed, phase < B!Closed, NEW a \in B!Act, B!Offered(a)
               PROVE  B!Takes(a, role)
    BY DEF B!OfferedIsTaken
  <2>1. /\ B!s = status /\ B!t = phase /\ seen.rated = rated /\ seen.claim = claim
    BY DEF B!s, B!t, B!Now
  <2>2. role \in {"requester", "owner"} /\ phase \in 0 .. 8 /\ (status \in B!Live => phase < B!Begun)
    BY PhasesAreKnown DEF BookingPageInv, B!TypeOK, B!Role, LapsesInTime, B!Begun
  <2> USE DEF B!asOwner, B!CanAct, B!TRANSITIONS, B!Role, B!Moves, B!Plain, B!TimeAllows, B!Takes, B!HandOver, B!Begun, B!Late, B!After, B!Closed, B!Live
  <2>3. CASE B!OffersAnswer(a)
    BY <2>1, <2>2, <2>3 DEF B!OffersAnswer
  <2>4. CASE B!OffersStart(a)
    BY <2>1, <2>2, <2>4 DEF B!OffersStart
  <2>5. CASE B!OffersCancel(a)
    BY <2>1, <2>2, <2>5 DEF B!OffersCancel
  <2>6. CASE B!OffersNoShow(a)
    BY <2>1, <2>2, <2>6 DEF B!OffersNoShow
  <2>7. CASE B!OffersHandBack(a)
    BY <2>1, <2>2, <2>7 DEF B!OffersHandBack
  <2>8. CASE B!OffersDispute(a)
    BY <2>1, <2>2, <2>8 DEF B!OffersDispute
  <2>9. CASE B!OffersRating(a)
    BY <2>1, <2>2, <2>9 DEF B!OffersRating
  <2>10. CASE B!OffersLateReturn(a)
    BY <2>1, <2>2, <2>10 DEF B!OffersLateReturn
  <2>11. CASE B!OffersExtension(a)
    BY <2>1, <2>2, <2>11 DEF B!OffersExtension
  <2>12. CASE B!OffersPhotos(a)
    BY <2>1, <2>2, <2>12 DEF B!OffersPhotos
  <2> HIDE DEF B!Takes
  <2> QED
    BY <2>3, <2>4, <2>5, <2>6, <2>7, <2>8, <2>9, <2>10, <2>11, <2>12 DEF B!Offered
<1> QED
  BY <1>1, <1>2

---------------------------------------------------------------------------
(* The choice of a window and its payment.                                 *)

\* What the page shows of a quote or of starts, it was once answered: the starts only for hours that had
\* a quote before, and so the offer tapped among them.
ShownWasQuoted ==
    /\ lastQuote # 0 => quotes[lastQuote] # 0
    /\ lastFree # 0 => quotes[lastFree] # 0
    /\ \A h \in Hours : free[h].there => quotes[h] # 0
    /\ \A w \in picked : quotes[w.len] # 0

\* So a body whose window is as long as the hours picked was shown with the quote for them.
SentAsShown ==
    /\ \A c \in calls : c.body.hours = c.body.len => c.saw.hours = c.body.hours
    /\ \A x \in checking : x[1].hours = x[1].len => x[2].hours = x[1].hours

\* A new key is made only for a booking that is sent.
KeysAreSent == keys <= checkoutAsked

CheckoutInv == C!TypeOK /\ KeysAreSent /\ ShownWasQuoted /\ SentAsShown /\ C!HeldAsShown

---------------------------------------------------------------------------
\* A set of numbers has a least one.
LEMMA LeastNat ==
  ASSUME NEW T \in SUBSET Nat, T # {}
  PROVE  \E n \in T : \A m \in T : n <= m
<1>1. PICK k \in T : TRUE
  OBVIOUS
<1> DEFINE U == {1 .. m : m \in {j \in T : j <= k}}
<1>2. IsWellFoundedOn(StrictSubsetOrdering(1 .. k), FiniteSubsetsOf(1 .. k))
  BY FS_StrictSubsetOrderingWellFounded
<1>3. U \subseteq FiniteSubsetsOf(1 .. k)
  <2> SUFFICES ASSUME NEW m \in T, m <= k PROVE 1 .. m \in FiniteSubsetsOf(1 .. k)
    OBVIOUS
  <2>1. IsFiniteSet(1 .. m)
    BY FS_Interval
  <2> QED
    BY <2>1 DEF FiniteSubsetsOf
<1>4. U # {}
  BY <1>1
<1>5. PICK x \in U : \A y \in U : ~(<<y, x>> \in StrictSubsetOrdering(1 .. k))
  BY <1>2, <1>3, <1>4, WFMin
<1>6. PICK n \in T : n <= k /\ x = 1 .. n
  OBVIOUS
<1>7. ASSUME NEW m \in T, m < n PROVE FALSE
  <2>1. 1 .. m \in U /\ 1 .. n \in U
    BY <1>6, <1>7
  <2>2. (1 .. m) \subseteq (1 .. n) /\ n \in 1 .. n /\ n \notin 1 .. m
    BY <1>7
  <2>3. <<1 .. m, 1 .. n>> \in StrictSubsetOrdering(1 .. k)
    BY <2>1, <2>2, <1>6 DEF StrictSubsetOrdering
  <2> QED
    BY <2>1, <2>3, <1>5, <1>6
<1> QED
  BY <1>7

\* It holds at first.
LEMMA CheckoutBegins == C!Init => CheckoutInv
<1> SUFFICES ASSUME C!Init PROVE CheckoutInv
  OBVIOUS
<1>1. 0 \in C!Start /\ 1 \in 1 .. MaxRate /\ 0 \in 0 .. MaxRate /\ 0 \in 0 .. MaxPick /\ 0 \in 0 .. MaxCall
  BY PickBounds DEF C!Start
<1>2. last \in [key : {0} \cup C!Key, body : C!Body]
  BY <1>1 DEF C!Init, C!Body
<1>3. C!TypeOK
  BY <1>1, <1>2 DEF C!Init, C!TypeOK
<1> QED
  BY <1>3 DEF C!Init, CheckoutInv, KeysAreSent, ShownWasQuoted, SentAsShown, C!HeldAsShown

\* The shortest duration is one of them, and the soonest start one of those there are.
LEMMA LeastIn ==
  /\ C!Min(Hours) \in Hours
  /\ \A T \in SUBSET C!Start : T # {} => C!Min(T) \in T
<1>1. ASSUME NEW T \in SUBSET Nat, T # {} PROVE C!Min(T) \in T
  BY <1>1, LeastNat DEF C!Min
<1>2. C!Start \subseteq Nat
  BY PickBounds DEF C!Start
<1> QED
  BY <1>1, <1>2, HoursArePositive

\* What is selected is a window of the calendar, of a length that was quoted.
LEMMA SelectedAre ==
  ASSUME C!TypeOK, ShownWasQuoted, NEW w \in C!Selected
  PROVE  w \in C!Window /\ quotes[w.len] # 0 /\ C!ShownQuote # 0
<1>1. C!ShownFree \in {0} \cup Hours /\ C!ShownQuote \in {0} \cup Hours
  BY DEF C!TypeOK, C!ShownFree, C!ShownQuote
<1>2. C!Starts \subseteq C!Start
  BY <1>1 DEF C!Starts, C!TypeOK
<1>3. C!Starts # {} /\ w \in picked \cup C!Soonest
  BY DEF C!Selected, C!Soonest
<1>4. C!ShownQuote # 0 /\ C!ShownFree # 0
  BY <1>3 DEF C!Starts
<1>5. CASE w \in picked
  BY <1>4, <1>5 DEF C!TypeOK, ShownWasQuoted
<1>6. CASE w \in C!Soonest
  <2>1. w = [start |-> C!Min(C!Starts), len |-> C!ShownFree]
    BY <1>3, <1>6 DEF C!Soonest
  <2>2. C!Min(C!Starts) \in C!Start
    BY <1>2, <1>3, LeastIn
  <2>3. quotes[C!ShownFree] # 0
    BY <1>1, <1>4 DEF C!ShownFree, ShownWasQuoted
  <2> QED
    BY <1>1, <1>4, <2>1, <2>2, <2>3 DEF C!Window
<1> QED
  BY <1>3, <1>5, <1>6

\* Choosing leaves the attempt alone, or starts another.
LEMMA AttemptFollows ==
  ASSUME C!TypeOK, C!Follows
  PROVE  paying' \subseteq C!Key /\ last' \in [key : {0} \cup C!Key, body : C!Body] /\ keys' = keys
BY DEF C!Follows, C!StartOver, C!TypeOK

\* Hours and starts are picked, and the queries answer: what is shown was quoted.
LEMMA ChoosingKeeps ==
  ASSUME CheckoutInv, C!Choose \/ C!QuoteLoads \/ C!StartsLoad
  PROVE  CheckoutInv'
<1> USE DEF CheckoutInv
<1>1. /\ UNCHANGED <<C!server, confirm, calls, checkoutAsked, idSheet, checking, open>>
      /\ paying' \subseteq C!Key /\ last' \in [key : {0} \cup C!Key, body : C!Body] /\ keys' = keys
  BY AttemptFollows DEF C!Choose, C!ChooseHours, C!PickStart, C!TryShortest, C!QuoteLoads, C!StartsLoad
<1>2. /\ C!ShownQuote \in {0} \cup Hours /\ C!ShownFree \in {0} \cup Hours
      /\ C!ShownQuote # 0 => quotes[C!ShownQuote] # 0
      /\ C!ShownFree # 0 => quotes[C!ShownFree] # 0
      /\ hours # 0 /\ 0 \notin Hours
  BY HoursArePositive DEF C!ShownQuote, C!ShownFree, ShownWasQuoted, C!TypeOK
<1>3. /\ hours' \in Hours /\ quotes' \in [Hours -> 0 .. MaxRate] /\ lastQuote' \in {0} \cup Hours
      /\ free' \in [Hours -> [there: BOOLEAN, starts: SUBSET C!Start]] /\ lastFree' \in {0} \cup Hours
      /\ picked' \subseteq C!Window /\ picks' \in 0 .. MaxPick
      /\ ShownWasQuoted'
  <2>1. ASSUME NEW h \in Hours, C!ChooseHours(h) PROVE <1>3
    <3>1. picks' \in 0 .. MaxPick
      BY <2>1, PickBounds DEF C!ChooseHours, C!TypeOK
    <3> QED
      BY <2>1, <1>2, <3>1 DEF C!ChooseHours, C!TypeOK, ShownWasQuoted
  <2>2. ASSUME NEW x \in C!Start, C!PickStart(x) PROVE <1>3
    <3>1. picks' \in 0 .. MaxPick
      BY <2>2, PickBounds DEF C!PickStart, C!TypeOK
    <3>2. picked' = {[start |-> x, len |-> C!ShownFree]} /\ x \in C!Starts
      BY <2>2 DEF C!PickStart
    <3>3. C!ShownFree \in Hours
      BY <1>2, <3>2 DEF C!Starts
    <3>4. picked' \subseteq C!Window /\ \A w \in picked' : quotes[w.len] # 0
      BY <1>2, <3>2, <3>3 DEF C!Window
    <3> QED
      BY <2>2, <3>1, <3>4 DEF C!PickStart, C!TypeOK, ShownWasQuoted, C!queries
  <2>5. CASE C!TryShortest
    BY <2>5, <1>2, LeastIn DEF C!TryShortest, C!TypeOK, ShownWasQuoted
  <2>3. CASE C!QuoteLoads
    <3>1. rate \in 0 .. MaxRate /\ rate # 0
      BY PickBounds DEF C!TypeOK
    <3>2. /\ quotes' = [quotes EXCEPT ![hours] = rate] /\ lastQuote' = hours /\ lastFree' = C!ShownFree
          /\ UNCHANGED <<hours, picked, picks, free>>
      BY <2>3 DEF C!QuoteLoads, C!choice
    <3>3. \A h \in Hours : quotes[h] # 0 => quotes'[h] # 0
      BY <3>1, <3>2 DEF C!TypeOK
    <3>4. quotes'[hours] # 0 /\ quotes' \in [Hours -> 0 .. MaxRate]
      BY <3>1, <3>2 DEF C!TypeOK
    <3>5. \A w \in picked : w.len \in Hours
      BY DEF C!TypeOK, C!Window
    <3> QED
      BY <1>2, <3>2, <3>3, <3>4, <3>5 DEF C!TypeOK, ShownWasQuoted
  <2>4. CASE C!StartsLoad
    <3>1. PICK now \in [there : {TRUE}, starts : SUBSET C!Start] :
             free' = [free EXCEPT ![C!ShownQuote] = now] /\ lastFree' = C!ShownQuote /\ C!ShownQuote # 0
      BY <2>4 DEF C!StartsLoad
    <3>2. UNCHANGED <<hours, picked, picks, quotes, lastQuote>>
      BY <2>4 DEF C!StartsLoad, C!choice
    <3>3. now \in [there : BOOLEAN, starts : SUBSET C!Start]
      BY <3>1
    <3>4. free' \in [Hours -> [there: BOOLEAN, starts: SUBSET C!Start]] /\ ShownWasQuoted'
      BY <1>2, <3>1, <3>2, <3>3 DEF C!TypeOK, ShownWasQuoted
    <3> QED
      BY <1>2, <3>1, <3>2, <3>4 DEF C!TypeOK
  <2> QED
    BY <2>1, <2>2, <2>3, <2>4, <2>5 DEF C!Choose
<1>4. C!TypeOK'
  BY <1>1, <1>3 DEF C!TypeOK, C!server
<1>5. SentAsShown' /\ C!HeldAsShown' /\ KeysAreSent'
  BY <1>1 DEF SentAsShown, C!HeldAsShown, KeysAreSent, C!server
<1> QED
  BY <1>3, <1>4, <1>5

\* What is sent or handed to the check: the hours picked, the window selected, and the price that the
\* button shows; a window as long as the hours had their quote.
LEMMA WhatIsShown ==
  ASSUME CheckoutInv, NEW w \in C!Selected
  PROVE  /\ [hours |-> hours, start |-> w.start, len |-> w.len] \in C!Body
         /\ [hours |-> C!ShownQuote, rate |-> quotes[C!ShownQuote]] \in C!Seen
         /\ w.len = hours => C!ShownQuote = hours
<1> USE DEF CheckoutInv
<1>1. w \in C!Window /\ quotes[w.len] # 0 /\ C!ShownQuote # 0
  BY SelectedAre
<1>2. C!ShownQuote \in Hours /\ quotes[C!ShownQuote] # 0 /\ hours \in Hours
  BY <1>1 DEF C!ShownQuote, ShownWasQuoted, C!TypeOK
<1>3. quotes[C!ShownQuote] \in 1 .. MaxRate
  BY <1>2, PickBounds DEF C!TypeOK
<1>4. w.len = hours => C!ShownQuote = hours
  BY <1>1 DEF C!ShownQuote
<1> QED
  BY <1>1, <1>2, <1>3, <1>4 DEF C!Body, C!Seen, C!Window

\* A booking is sent.
LEMMA BookingSent ==
  ASSUME C!TypeOK, KeysAreSent, SentAsShown, NEW body \in C!Body, NEW saw \in C!Seen, C!Book(body, saw),
         body.hours = body.len => saw.hours = body.hours, checking' \subseteq checking
  PROVE  /\ calls' \subseteq C!Call /\ checkoutAsked' \in 0 .. MaxCall /\ keys' \in 0 .. MaxCall
         /\ last' \in [key : {0} \cup C!Key, body : C!Body] /\ SentAsShown' /\ KeysAreSent'
<1> DEFINE k == IF C!Kept(body) THEN last.key ELSE keys + 1
           call == [n |-> checkoutAsked + 1, key |-> k, body |-> body, saw |-> saw, st |-> "sent"]
<1>1. /\ checkoutAsked < MaxCall /\ last' = [key |-> k, body |-> body] /\ checkoutAsked' = checkoutAsked + 1
      /\ keys' \in {keys, keys + 1} /\ calls' = calls \cup {call}
  BY DEF C!Book
<1>2. checkoutAsked \in Nat /\ keys \in Nat /\ MaxCall \in Nat /\ keys <= checkoutAsked /\ checkoutAsked + 1 \in C!Key /\ keys + 1 \in C!Key
  BY <1>1, PickBounds DEF C!TypeOK, KeysAreSent, C!Key
<1>3. k \in C!Key
  BY <1>2 DEF C!TypeOK, C!Kept
<1>4. call \in C!Call /\ call.body = body /\ call.saw = saw
  BY <1>2, <1>3 DEF C!Call
<1> HIDE DEF k, call
<1>5. calls' \subseteq C!Call /\ checkoutAsked' \in 0 .. MaxCall /\ keys' \in 0 .. MaxCall /\ KeysAreSent'
  BY <1>1, <1>2, <1>4 DEF C!TypeOK, KeysAreSent, C!Key
<1>6. last' \in [key : {0} \cup C!Key, body : C!Body]
  BY <1>1, <1>3
<1>7. SentAsShown'
  BY <1>1, <1>4 DEF SentAsShown
<1> QED
  BY <1>5, <1>6, <1>7

\* The confirm sheet, and the check that sends what it was for.
LEMMA BookSendKeeps ==
  ASSUME CheckoutInv, C!Confirm \/ C!CheckPasses
  PROVE  CheckoutInv'
<1>1. PICK body \in C!Body, saw \in C!Seen :
         /\ C!Book(body, saw) /\ (body.hours = body.len => saw.hours = body.hours) /\ checking' \subseteq checking
  <2>1. CASE C!Confirm
    <3>1. PICK w \in C!Selected :
             C!Book([hours |-> hours, start |-> w.start, len |-> w.len], [hours |-> C!ShownQuote, rate |-> quotes[C!ShownQuote]])
      BY <2>1 DEF C!Confirm
    <3>2. checking' = checking
      BY <2>1 DEF C!Confirm
    <3> QED
      BY <3>1, <3>2, WhatIsShown
  <2>2. CASE C!CheckPasses
    <3>1. PICK x \in checking : C!Book(x[1], x[2]) /\ checking' = {}
      BY <2>2 DEF C!CheckPasses
    <3>2. x[1] \in C!Body /\ x[2] \in C!Seen /\ (x[1].hours = x[1].len => x[2].hours = x[1].hours)
      BY DEF CheckoutInv, C!TypeOK, SentAsShown
    <3> QED
      BY <3>1, <3>2
  <2> QED
    BY <2>1, <2>2
<1>2. /\ calls' \subseteq C!Call /\ checkoutAsked' \in 0 .. MaxCall /\ keys' \in 0 .. MaxCall
      /\ last' \in [key : {0} \cup C!Key, body : C!Body] /\ SentAsShown' /\ KeysAreSent'
  BY <1>1, BookingSent DEF CheckoutInv
<1>3. /\ UNCHANGED <<rate, others, mine, C!choice, C!queries, confirm, paying, open>>
      /\ checked' \in {checked, "done"} /\ idSheet' \in {idSheet, "closed"} /\ checking' \subseteq checking
  BY DEF C!Confirm, C!CheckPasses, C!server
<1>4. C!TypeOK'
  BY <1>2, <1>3 DEF CheckoutInv, C!TypeOK, C!choice, C!queries
<1>5. ShownWasQuoted' /\ C!HeldAsShown'
  BY <1>3 DEF CheckoutInv, ShownWasQuoted, C!HeldAsShown, C!queries, C!choice
<1> QED
  BY <1>2, <1>4, <1>5 DEF CheckoutInv

\* The sheets, the check and what others do: nothing is sent, and what is held keeps its body.
LEMMA CheckoutSheetsKeep ==
  ASSUME CheckoutInv,
         \/ C!Request \/ C!CloseSheet \/ C!NotYet \/ C!StartCheck \/ C!CloseCheck \/ C!CheckFails
         \/ C!Reprice \/ \E w \in C!Window : C!SomeoneBooks(w)
  PROVE  CheckoutInv'
<1> USE DEF CheckoutInv
<1>1. /\ UNCHANGED <<mine, checked, C!choice, C!queries, calls, checkoutAsked, keys, open>>
      /\ rate' \in 1 .. MaxRate /\ others' \subseteq C!Window /\ confirm' \in BOOLEAN
      /\ paying' \subseteq paying /\ last' \in {last, [last EXCEPT !.key = 0]}
      /\ idSheet' \in {"closed", "ask", "busy"}
  <2>1. CASE C!Reprice
    BY <2>1, PickBounds DEF C!Reprice, C!TypeOK, C!attempt
  <2>2. CASE \E w \in C!Window : C!SomeoneBooks(w)
    BY <2>2 DEF C!SomeoneBooks, C!TypeOK, C!attempt
  <2>3. CASE C!Request \/ C!CloseSheet \/ C!NotYet \/ C!CheckFails
    BY <2>3 DEF C!Request, C!CloseSheet, C!StartOver, C!NotYet, C!CheckFails, C!TypeOK, C!attempt, C!server
  <2>4. CASE C!StartCheck \/ C!CloseCheck
    BY <2>4 DEF C!StartCheck, C!CloseCheck, C!TypeOK, C!attempt, C!server
  <2> QED
    BY <2>1, <2>2, <2>3, <2>4
<1>2. checking' \subseteq C!Body \X C!Seen /\ \A x \in checking' : x[1].hours = x[1].len => x[2].hours = x[1].hours
  <2>1. CASE C!StartCheck
    <3>1. PICK w \in C!Selected :
             checking' = {<<[hours |-> hours, start |-> w.start, len |-> w.len],
                            [hours |-> C!ShownQuote, rate |-> quotes[C!ShownQuote]]>>}
      BY <2>1 DEF C!StartCheck
    <3> QED
      BY <3>1, WhatIsShown
  <2>2. CASE ~C!StartCheck
    <3>1. checking' \subseteq checking
      BY <2>2 DEF C!Request, C!CloseSheet, C!NotYet, C!CloseCheck, C!CheckFails, C!Reprice, C!SomeoneBooks
    <3> QED
      BY <3>1 DEF C!TypeOK, SentAsShown
  <2> QED
    BY <2>1, <2>2
<1>3. last' \in [key : {0} \cup C!Key, body : C!Body]
  BY <1>1 DEF C!TypeOK
<1>4. C!TypeOK'
  BY <1>1, <1>2, <1>3 DEF C!TypeOK, C!choice, C!queries
<1>5. ShownWasQuoted' /\ C!HeldAsShown' /\ KeysAreSent' /\ SentAsShown'
  BY <1>1, <1>2 DEF ShownWasQuoted, C!HeldAsShown, KeysAreSent, SentAsShown, C!queries, C!choice
<1> QED
  BY <1>4, <1>5

\* The server's answer to one that was sent.
LEMMA AnswersKeep ==
  ASSUME CheckoutInv, NEW c \in calls, C!Answers(c)
  PROVE  CheckoutInv'
<1> USE DEF CheckoutInv
<1>1. /\ c \in C!Call /\ c.key \in C!Key /\ c.body \in C!Body /\ c.saw \in C!Seen
      /\ c.body.hours = c.body.len => c.saw.hours = c.body.hours
  BY DEF C!TypeOK, C!Call, SentAsShown
<1>2. [c EXCEPT !.st = "made"] \in C!Call /\ [c EXCEPT !.st = "made"].body = c.body /\ [c EXCEPT !.st = "made"].saw = c.saw
  BY <1>1 DEF C!Call
<1>3. /\ UNCHANGED <<rate, others, checked, C!choice, C!queries, confirm, checkoutAsked, keys, checking, open>>
      /\ calls' \subseteq calls \cup {[c EXCEPT !.st = "made"]}
      /\ last' \in {last, [last EXCEPT !.key = 0]} /\ paying' \in {paying, {c.key}}
      /\ idSheet' \in {idSheet, "ask"}
  BY DEF C!Answers, C!Replay, C!Create, C!Made, C!Refused, C!MustVerify, C!Unknown, C!MadeNow, C!server, C!attempt
<1>4. mine' \subseteq C!Booking /\ C!HeldAsShown'
  <2>1. CASE C!Create(c)
    <3> DEFINE b == [key |-> c.key, body |-> c.body, rate |-> rate, saw |-> c.saw, st |-> "unpaid"]
    <3>1. mine' = mine \cup {b} /\ c.body.hours = c.body.len
      BY <2>1 DEF C!Create, C!Priced
    <3>2. b \in C!Booking /\ b.body = c.body /\ b.saw = c.saw
      BY <1>1 DEF C!Booking, C!TypeOK
    <3> HIDE DEF b
    <3> QED
      BY <1>1, <3>1, <3>2 DEF C!HeldAsShown, C!TypeOK
  <2>2. CASE ~C!Create(c)
    <3>1. mine' = mine
      BY <2>2 DEF C!Answers, C!Replay, C!Made, C!Refused, C!MustVerify, C!Unknown, C!server
    <3> QED
      BY <3>1 DEF C!HeldAsShown, C!TypeOK
  <2> QED
    BY <2>1, <2>2
<1>5. calls' \subseteq C!Call /\ \A d \in calls' : d.body.hours = d.body.len => d.saw.hours = d.body.hours
  BY <1>1, <1>2, <1>3 DEF C!TypeOK, SentAsShown
<1>6. last' \in [key : {0} \cup C!Key, body : C!Body] /\ paying' \subseteq C!Key
  BY <1>1, <1>3 DEF C!TypeOK
<1>7. C!TypeOK'
  BY <1>3, <1>4, <1>5, <1>6 DEF C!TypeOK, C!choice, C!queries
<1>8. ShownWasQuoted' /\ KeysAreSent' /\ SentAsShown'
  BY <1>3, <1>5 DEF ShownWasQuoted, KeysAreSent, SentAsShown, C!queries, C!choice
<1> QED
  BY <1>4, <1>7, <1>8

\* A booking is paid or lapses: its body stays.
LEMMA HeldKeeps ==
  ASSUME CheckoutInv, C!Pay \/ \E b \in mine : C!Lapse(b)
  PROVE  CheckoutInv'
<1> USE DEF CheckoutInv
<1>1. PICK b \in mine, st \in {"held", "gone"} : mine' = (mine \ {b}) \cup {[b EXCEPT !.st = st]}
  BY DEF C!Pay, C!Lapse
<1>2. /\ [b EXCEPT !.st = st] \in C!Booking
      /\ [b EXCEPT !.st = st].body = b.body /\ [b EXCEPT !.st = st].saw = b.saw
  BY DEF C!TypeOK, C!Booking
<1>3. mine' \subseteq C!Booking /\ C!HeldAsShown'
  BY <1>1, <1>2 DEF C!TypeOK, C!HeldAsShown
<1>4. /\ UNCHANGED <<rate, others, checked, C!choice, C!queries, calls, checkoutAsked, keys, idSheet, checking>>
      /\ confirm' \in BOOLEAN /\ open' \in BOOLEAN /\ paying' \subseteq paying
      /\ last' \in {last, [last EXCEPT !.key = 0]}
  BY DEF C!Pay, C!Lapse, C!StartOver, C!attempt, C!TypeOK
<1>5. last' \in [key : {0} \cup C!Key, body : C!Body]
  BY <1>4 DEF C!TypeOK
<1>6. C!TypeOK'
  BY <1>3, <1>4, <1>5 DEF C!TypeOK, C!choice, C!queries
<1>7. ShownWasQuoted' /\ KeysAreSent' /\ SentAsShown'
  BY <1>4 DEF ShownWasQuoted, KeysAreSent, SentAsShown, C!queries, C!choice
<1> QED
  BY <1>3, <1>6, <1>7

\* Any step keeps it.
LEMMA CheckoutNext ==
  ASSUME CheckoutInv, [C!Next]_(C!vars)
  PROVE  CheckoutInv'
<1>1. CASE UNCHANGED C!vars
  BY <1>1 DEF C!vars, CheckoutInv, C!TypeOK, KeysAreSent, ShownWasQuoted, SentAsShown, C!HeldAsShown
<1>2. CASE C!Choose \/ C!QuoteLoads \/ C!StartsLoad
  BY <1>2, ChoosingKeeps
<1>3. CASE C!Confirm \/ C!CheckPasses
  BY <1>3, BookSendKeeps
<1>4. CASE \/ C!Request \/ C!CloseSheet \/ C!NotYet \/ C!StartCheck \/ C!CloseCheck \/ C!CheckFails
           \/ C!Reprice \/ \E w \in C!Window : C!SomeoneBooks(w)
  BY <1>4, CheckoutSheetsKeep
<1>5. CASE \E c \in calls : C!Answers(c)
  BY <1>5, AnswersKeep
<1>6. CASE C!Pay \/ \E b \in mine : C!Lapse(b)
  BY <1>6, HeldKeeps
<1> QED
  BY <1>1, <1>2, <1>3, <1>4, <1>5, <1>6 DEF C!Next, C!Sheets

---------------------------------------------------------------------------
(* The pages implement each of the three, so what those keep they keep.    *)

\* Every machine starts in a state of its own specification.
LEMMA EachBegins == PagesInit => B!Init /\ C!Init /\ Init
BY DEF PagesInit

\* And every step is a step of it, or leaves it alone.
LEMMA EachMoves ==
  ASSUME [PagesNext]_pagesVars
  PROVE  [B!Next]_(B!vars) /\ [C!Next]_(C!vars) /\ [Next]_vars
<1>1. /\ bookingPage' = bookingPage => UNCHANGED B!vars
      /\ checkout' = checkout => UNCHANGED C!vars
  <2>1. bookingPage' = bookingPage => UNCHANGED B!vars
    BY DEF bookingPage, B!vars, B!server, B!page
  <2>2. checkout' = checkout => UNCHANGED C!vars
    BY DEF checkout, C!vars
  <2> QED
    BY <2>1, <2>2
<1>2. CASE UNCHANGED pagesVars
  BY <1>1, <1>2, Zenon DEF pagesVars
<1>3. CASE InBooking(B!Next)
  BY <1>1, <1>3, Zenon DEF InBooking
<1>4. CASE InMarket(Next)
  BY <1>1, <1>4, Zenon DEF InMarket
<1>5. CASE InCheckout(C!Next)
  BY <1>1, <1>5, Zenon DEF InCheckout
<1> QED
  BY <1>2, <1>3, <1>4, <1>5 DEF PagesNext

\* What the pages do is, seen from any of the three, that machine running by itself.
THEOREM ThePages == PagesSpec => B!Spec /\ C!Spec /\ Spec
<1>1. PagesInit => B!Init /\ C!Init /\ Init
  BY EachBegins
<1>2. [PagesNext]_pagesVars => [B!Next]_(B!vars) /\ [C!Next]_(C!vars) /\ [Next]_vars
  BY EachMoves
<1> QED
  BY <1>1, <1>2, PTL DEF PagesSpec, B!Spec, C!Spec, Spec

\* The inductive invariants of the page and of the choice.
LEMMA PageHolds == PagesSpec => []BookingPageInv
<1>1. B!Init => BookingPageInv
  BY BookingPageBegins
<1>2. BookingPageInv /\ [B!Next]_(B!vars) => BookingPageInv'
  BY BookingPageNext
<1> QED
  BY <1>1, <1>2, ThePages, PTL DEF B!Spec

\* Always.
LEMMA ChoiceHolds == PagesSpec => []CheckoutInv
<1>1. C!Init => CheckoutInv
  BY CheckoutBegins
<1>2. CheckoutInv /\ [C!Next]_(C!vars) => CheckoutInv'
  BY CheckoutNext
<1> QED
  BY <1>1, <1>2, ThePages, PTL DEF C!Spec

\* Whichever moves is in its types, and the others too.
THEOREM PagesAreTyped == PagesSpec => []PagesTyped
<1>1. BookingPageInv /\ CheckoutInv /\ TypeOK => (focus \in {"booking", "market", "edits", "checkout"} => PagesTyped)
  BY DEF BookingPageInv, CheckoutInv, PagesTyped
<1>2. PagesInit => focus \in {"booking", "market", "edits", "checkout"}
  BY DEF PagesInit
<1>3. focus \in {"booking", "market", "edits", "checkout"} /\ [PagesNext]_pagesVars => (focus \in {"booking", "market", "edits", "checkout"})'
  BY DEF PagesNext, InBooking, InMarket, InCheckout, pagesVars
<1> QED
  BY <1>1, <1>2, <1>3, PageHolds, ChoiceHolds, ThePages, MarketTyped, PTL DEF PagesSpec

\* The page of a booking and the server have one table of who may do what and when, and a command
\* called done was done, by whichever side and however late its answer.
THEOREM PageIsTold == PagesSpec => []PageTellsTheTruth
<1>1. BookingPageInv => PageTellsTheTruth
  BY PageIsTrue DEF PageTellsTheTruth
<1> QED
  BY <1>1, PageHolds, PTL

\* What is held is as long as the price on the button was for, whatever was tapped and loaded
\* meanwhile.
THEOREM HeldIsShown == PagesSpec => []HeldAsShown
<1>1. CheckoutInv => HeldAsShown
  BY DEF CheckoutInv, HeldAsShown
<1> QED
  BY <1>1, ChoiceHolds, PTL

\* Of the pages' listing: off the market it stays, by one decision of staff.
THEOREM PagesStayDown == PagesSpec => DownForGood
BY ThePages, OffTheMarket
=============================================================================
