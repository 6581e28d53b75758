-------------------------------- MODULE Market --------------------------------
(***************************************************************************)
(* One listing on the market: its owner on Earn                            *)
(* (web/src/app/screens/Earn.tsx), staff in the console (Admin.tsx), and   *)
(* the catalog between them (routes.py, moderation.py, jobs.py).  Both     *)
(* pages show what they last read; an edit reads the row before it writes  *)
(* it, without a lock; booking hears of a removal some time later.         *)
(***************************************************************************)
EXTENDS Naturals, FiniteSets

CONSTANT MaxPut \* bound: different readings of the row that edits under way hold

VARIABLES
    \* the catalog
    active, moderated, deleted, \* the row
    held,       \* held_at and hold_reason: "no", "check" (a new owner's dear listing), "place"
    dear,       \* its price is above held_listing_above; the owner has no job done
    abroad,     \* its place is in no open market
    report,     \* a report of the listing: "none" yet, or its status
    decisions,  \* decisions recorded on it
    looked,     \* staff approved the listing once
    editing,    \* what the PUTs under way read of the row, any number of them the same
    clash,      \* two of them crossed (Crossed)
    sweeping,   \* the job found the listing abroad and has yet to hold it: active as it read it; at most one
    \* booking
    request,    \* a request for a window of the listing
    removals,   \* listing.changed "removed" on its way
    \* Earn
    earn,       \* the listing as last read, if it was there: whether it was active; at most one
    asked,      \* the request is among those that wait, as last read
    sheet,      \* the open sheet
    \* the console
    queue,      \* the report is in the queue, as last read
    waiting,    \* the listing is among those held, as last read
    decision    \* the decision chosen in the open sheet, or "none"

row == <<active, moderated, deleted, held, dear, abroad>>
staff == <<report, decisions, looked>>
booking == <<request, removals>>
owner == <<earn, asked, sheet>>
console == <<queue, waiting, decision>>
edits == <<editing, clash>>
vars == <<row, staff, edits, sweeping, booking, owner, console>>

Held == {"no", "check", "place"}
\* off: it was paused with its hold.
Reading == [held : Held, dear : BOOLEAN, off : BOOLEAN]
Request == {"none", "requested", "accepted", "declined", "gone"}
Decision == {"dismiss", "take_down", "suspend"}

TypeOK ==
    /\ active \in BOOLEAN /\ moderated \in BOOLEAN /\ deleted \in BOOLEAN /\ dear \in BOOLEAN
    /\ abroad \in BOOLEAN /\ looked \in BOOLEAN /\ removals \in BOOLEAN /\ asked \in BOOLEAN
    /\ queue \in BOOLEAN /\ waiting \in BOOLEAN
    /\ held \in Held /\ report \in {"none", "open", "dismissed", "actioned"} /\ decisions \in 0 .. 2
    /\ editing \subseteq Reading /\ clash \in BOOLEAN /\ sweeping \subseteq BOOLEAN /\ request \in Request
    /\ earn \subseteq BOOLEAN /\ sheet \in {"none", "remove", "decline"}
    /\ decision \in {"none"} \cup Decision

\* Just listed by a new owner: a dear one waits for a check (create_listing).
Init ==
    /\ active = TRUE /\ moderated = FALSE /\ deleted = FALSE
    /\ dear \in BOOLEAN /\ held = (IF dear THEN "check" ELSE "no") /\ abroad \in BOOLEAN
    /\ report = "none" /\ decisions = 0 /\ looked = FALSE
    /\ editing = {} /\ clash = FALSE /\ sweeping = {}
    /\ request = "none" /\ removals = FALSE
    /\ earn = {active} /\ asked = FALSE /\ sheet = "none"
    /\ queue = FALSE /\ waiting = FALSE /\ decision = "none"

\* _live, and not paused: what matching and the public pages let anybody book.
Mine == ~moderated /\ ~deleted
Bookable == active /\ Mine /\ held = "no"

-----------------------------------------------------------------------------
(* The owner.                                                              *)

\* Read when the page opens and after every command of it; requests also every 4 s while some wait.
ReadEarn ==
    /\ earn' = (IF Mine THEN {active} ELSE {}) /\ asked' = (request = "requested")
    /\ UNCHANGED <<row, staff, edits, sweeping, booking, sheet, console>>

Open(s) ==
    /\ sheet = "none" /\ sheet' = s
    /\ s = "remove" => earn # {}
    /\ s = "decline" => asked
    /\ UNCHANGED <<row, staff, edits, sweeping, booking, earn, asked, console>>
Keep ==
    /\ sheet # "none" /\ sheet' = "none"
    /\ UNCHANGED <<row, staff, edits, sweeping, booking, earn, asked, console>>

\* Pause or Resume, by the copy; a listing taken down or removed meanwhile is not found.
Flip ==
    /\ earn # {} /\ sheet = "none"
    /\ UNCHANGED <<moderated, deleted, held, dear, abroad, staff, edits, sweeping, booking, owner, console>>
    /\ active' \in (IF Mine THEN {~l : l \in earn} ELSE {active})

Remove ==
    /\ sheet = "remove" /\ sheet' = "none"
    /\ IF Mine THEN deleted' = TRUE /\ active' = FALSE /\ removals' = TRUE
       ELSE UNCHANGED <<deleted, active, removals>>
    /\ UNCHANGED <<moderated, held, dear, abroad, staff, edits, sweeping, request, earn, asked, console>>

\* Accept at once, Decline from its sheet: booking takes the answer while the request waits.
Answer(to) ==
    /\ \/ to = "accepted" /\ asked /\ sheet = "none" /\ UNCHANGED sheet
       \/ to = "declined" /\ sheet = "decline" /\ sheet' = "none"
    /\ request' = (IF request = "requested" THEN to ELSE request)
    /\ UNCHANGED <<row, staff, edits, sweeping, removals, earn, asked, console>>

\* update_listing reads the row, which nothing keeps from others ...
EditReads ==
    /\ Mine
    /\ editing' = editing \cup {[held |-> held, dear |-> dear, off |-> held = "place" /\ ~active]}
    /\ Cardinality(editing') <= MaxPut
    /\ UNCHANGED <<row, staff, clash, sweeping, booking, owner, console>>

\* It ends; another may have read the same.
EditEnds(e) == editing' \in {editing, editing \ {e}}

\* An edit that read a hold writes onto what another edit left: another price, or its check gone.
Crossed(e) == (e.held = "place" /\ dear # e.dear) \/ (e.held = "check" /\ held = "no")

\* Wrong on purpose: the edit writes the whole row, as it was when nobody had taken it down.
EditWritesWhole(e, d) ==
    /\ EditEnds(e) /\ clash' = (clash \/ Crossed(e))
    /\ dear' = d /\ abroad' = FALSE /\ active' = TRUE /\ moderated' = FALSE
    /\ held' = (IF d THEN "check" ELSE held)
    /\ UNCHANGED <<deleted, staff, sweeping, booking, owner, console>>

\* ... and writes, by what it read, the columns it changed of that: a listing with a place in an open
\* market leaves that hold, whatever it is held for by now; a dear one that was not held is held, for
\* its place if the job came first; the price stays if it is the one that was read and nothing else moved.
EditWrites(e, d) ==
    /\ EditEnds(e) /\ clash' = (clash \/ Crossed(e))
    /\ dear' \in {d} \cup (IF d = e.dear THEN {dear} ELSE {}) /\ abroad' = FALSE
    /\ active' = (active \/ e.off)
    /\ held' = CASE e.held = "place" -> IF d THEN "check" ELSE "no"
                 [] e.held = "no" /\ d -> IF held = "place" THEN "place" ELSE "check"
                 [] OTHER -> held
    /\ UNCHANGED <<moderated, deleted, staff, sweeping, booking, owner, console>>
\* Refused: the place is in no open market.
EditRefused(e) == EditEnds(e) /\ UNCHANGED <<row, staff, clash, sweeping, booking, owner, console>>

-----------------------------------------------------------------------------
(* Staff, one at this console and the others.                              *)

\* The queue and the list of the held, each read again after a command of it.
ReadConsole ==
    /\ queue' = (report = "open") /\ waiting' = (held = "check" /\ ~deleted)
    /\ UNCHANGED <<row, staff, edits, sweeping, booking, owner, decision>>

\* The sheet of a report opens at Dismiss; another decision is chosen in it.
Choose(d) ==
    /\ IF decision = "none" THEN queue /\ d = "dismiss" ELSE d # decision
    /\ decision' = d
    /\ UNCHANGED <<row, staff, edits, sweeping, booking, owner, queue, waiting>>
CloseDecision ==
    /\ decision # "none" /\ decision' = "none"
    /\ UNCHANGED <<row, staff, edits, sweeping, booking, owner, queue, waiting>>

NothingMoves == UNCHANGED <<row, booking>>
TakeDown ==
    /\ ~deleted /\ moderated' = TRUE /\ active' = FALSE /\ removals' = TRUE
    /\ UNCHANGED <<deleted, held, dear, abroad, request>>
\* Every listing that is not down yet goes with its owner.
Suspend ==
    IF Mine THEN TakeDown ELSE NothingMoves
\* Wrong on purpose: a report that was decided is decided again.
MayDecideAgain(d) == d = "take_down" => ~deleted

\* decide holds the report: it is decided once, with what the decision does in the same transaction.
MayDecide(d) == report = "open" /\ (d = "take_down" => ~deleted)
Decided(d) ==
    /\ MayDecide(d) /\ report' = (IF d = "dismiss" THEN "dismissed" ELSE "actioned") /\ decisions' = decisions + 1
    /\ CASE d = "dismiss" -> NothingMoves [] d = "take_down" -> TakeDown [] d = "suspend" -> Suspend
    /\ UNCHANGED looked
Decide ==
    /\ decision # "none"
    /\ \/ Decided(decision) /\ decision' = "none"
       \/ ~MayDecide(decision) /\ NothingMoves /\ UNCHANGED <<staff, decision>>
    /\ UNCHANGED <<edits, sweeping, owner, queue, waiting>>
OthersDecide(d) == Decided(d) /\ UNCHANGED <<edits, sweeping, owner, console>>

\* Act directly, by id.
Direct(d) ==
    /\ IF d = "take_down" THEN TakeDown ELSE Suspend
    /\ UNCHANGED <<staff, edits, sweeping, owner, console>>
\* approve: a listing that is still held, and not for its place.
Approve ==
    /\ waiting
    /\ UNCHANGED <<moderated, deleted, dear, abroad, report, decisions, edits, sweeping, booking, owner, console>>
    /\ IF held = "check"
       THEN held' = "no" /\ active' = TRUE /\ looked' = TRUE
       ELSE UNCHANGED <<held, active, looked>>

-----------------------------------------------------------------------------
(* Everybody else.                                                         *)

Report ==
    /\ report = "none" /\ ~deleted /\ report' = "open"
    /\ UNCHANGED <<row, decisions, looked, edits, sweeping, booking, owner, console>>
Ask ==
    /\ request = "none" /\ Bookable /\ request' = "requested"
    /\ UNCHANGED <<row, staff, edits, sweeping, removals, owner, console>>
\* Withdrawn by the renter, or lapsed.
Ends ==
    /\ request = "requested" /\ request' = "gone"
    /\ UNCHANGED <<row, staff, edits, sweeping, removals, owner, console>>
\* booking, on_listing_changed.
HearRemoval ==
    /\ removals /\ removals' = FALSE
    /\ request' = (IF request = "requested" THEN "declined" ELSE request)
    /\ UNCHANGED <<row, staff, edits, sweeping, owner, console>>
\* hold_out_of_market_once: the listings found in one statement, each held in a later one.
SweepFinds ==
    /\ sweeping = {} /\ abroad /\ ~deleted /\ held = "no" /\ sweeping' = {active}
    /\ UNCHANGED <<row, staff, edits, booking, owner, console>>
SweepHolds ==
    /\ sweeping # {} /\ sweeping' = {} /\ held' = "place" /\ active' = (active /\ TRUE \notin sweeping)
    /\ UNCHANGED <<moderated, deleted, dear, abroad, staff, edits, booking, owner, console>>

-----------------------------------------------------------------------------
Owner ==
    \/ ReadEarn \/ (\E s \in {"remove", "decline"} : Open(s)) \/ Keep \/ Flip \/ Remove
    \/ (\E to \in {"accepted", "declined"} : Answer(to)) \/ EditReads
    \/ \E e \in editing : EditRefused(e) \/ \E d \in BOOLEAN : EditWrites(e, d)
StaffActs ==
    \/ ReadConsole \/ (\E d \in Decision : Choose(d) \/ OthersDecide(d)) \/ CloseDecision \/ Decide \/ Approve
    \/ \E d \in {"take_down", "suspend"} : Direct(d)
Next == Owner \/ StaffActs \/ Report \/ Ask \/ Ends \/ HearRemoval \/ SweepFinds \/ SweepHolds

Spec == Init /\ [][Next]_vars

-----------------------------------------------------------------------------
\* What staff took down or the owner removed stays off the market whatever comes later: an approval,
\* an edit that began before, a resume from an old page.
StaysDown == [][~Mine => ~Bookable']_vars

\* Two of the staff with the same report open: one decision, and a report that says nothing was done
\* is not one whose decision took something down.
DecidedOnce == decisions = (IF report \in {"dismissed", "actioned"} THEN 1 ELSE 0)

\* A new owner's dear listing is on no market that none of the staff has looked at, whichever way it
\* became dear or left another hold and whatever the job or staff did between an edit's read and its
\* write; unless two edits crossed, the later write by one that had read a hold.
NoneUnlooked == Bookable /\ dear => looked \/ clash

\* "it waits for a staff check like one" (routes.py, update_listing), with no such exception.
DearWaits == Bookable /\ dear => looked

\* What is off the market stays off it, by one decision of staff, and what comes onto it was looked at
\* but for edits that crossed.
DownForGood == [](NoneUnlooked /\ DecidedOnce) /\ StaysDown

\* "Approving puts them live" (Admin.tsx).
ApprovedIsLive == [][Approve /\ held' # held => Bookable']_vars

\* "{title} is live again" (Earn.tsx), said when Resume was taken.
ResumedIsLive == [][Flip /\ FALSE \in earn /\ Mine => Bookable']_vars

\* "nobody can accept a request on a listing that was taken down" (moderation.py `_removed`).
NoneAcceptedDown == [][moderated /\ request = "requested" => request' # "accepted"]_vars

\* "you can resume any time" (Earn.tsx): a listing its owner paused is theirs to bring back.
PausedIsTheirs == [][~active /\ active' => Flip]_vars
=============================================================================
