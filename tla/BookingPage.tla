---------------------------- MODULE BookingPage ----------------------------
(***************************************************************************)
(* The page of one booking (web/src/app/screens/BookingDetail.tsx), as one *)
(* of its two sides sees it.  The page shows a copy of the booking read    *)
(* some time ago and a clock of its last render; its buttons open sheets   *)
(* or send commands, one at a time; the other side, the system and the     *)
(* clock go on meanwhile.  The server's rules are Lifecycle's and those of *)
(* `_transition` in booking/routes.py.                                     *)
(***************************************************************************)
EXTENDS Lifecycle, Naturals

CONSTANTS Total,      \* the price, in units of which a policy gives back half or all
          Phases      \* the parts of the booking's time that are told apart in this instance

\* A day and more ahead, the last day (1), the half hour of the hand-over, the first half hour of the
\* booked time, until two hours in, until its end (5), the day after, two weeks, and later.
Ahead == 0
HandOver == 2
Begun == 3
Late == 4
After == 6
Past == 7
Closed == 8


VARIABLES
    \* the server
    status, phase, lapsed, \* the row, the time, and expires_at has passed
    moderate,   \* the cancellation policy: half back on the last day
    card,       \* the card was confirmed with Stripe
    rated,      \* sides that rated the other
    claim,      \* a late return was reported
    back,       \* refund_amount
    \* the page
    role,       \* the side that looks at it
    seen,       \* the booking as the page last read it, and the time it was last rendered at
    sheet,      \* the sheet that is open, by the action it is for
    photos,     \* the stage of the photo sheet, "none" when closed
    toFinish,   \* backToFinish
    cmd,        \* the command under way: a set of at most one
    confirming, \* the card form said yes a moment ago
    quote,      \* what the cancel sheet last read: a set of at most one
    said,       \* the action the page last called done
    deal        \* what the cancel sheet said and what the server gave: a set of at most one

server == <<status, phase, lapsed, moderate, card, rated, claim, back>>
page == <<seen, sheet, photos, toFinish, cmd, confirming, quote, said, deal>>
vars == <<server, role, page>>

\* What goes through actOnBooking, the other transitions, and what is not a transition.
Plain == {"accept", "start", "complete", "cancel"}
Moves == Plain \cup {"decline", "dispute", "no_show"}
Notes == {"rate", "rate_renter", "late", "extend", "check_in", "check_out"}
Act == Moves \cup Notes
View == [status: Status, phase: Phases, rated: SUBSET Role, claim: BOOLEAN]
Quote == [refund: 0 .. Total, charged: BOOLEAN]
Command == [act: Act, st: {"sent", "ok", "no"}, shown: 0 .. Total]

TypeOK ==
    /\ status \in Status /\ phase \in Phases /\ lapsed \in BOOLEAN /\ moderate \in BOOLEAN /\ card \in BOOLEAN
    /\ rated \subseteq Role /\ claim \in BOOLEAN /\ back \in 0 .. Total
    /\ role \in Role /\ seen \in View /\ sheet \in {"none"} \cup Act
    /\ photos \in {"none", "check_in", "check_out"} /\ toFinish \in BOOLEAN
    /\ cmd \subseteq Command /\ confirming \in BOOLEAN /\ quote \subseteq Quote
    /\ said \in {"none"} \cup Act /\ deal \subseteq [shown: 0 .. Total, got: 0 .. Total]

Now == [status |-> status, phase |-> phase, rated |-> rated, claim |-> claim]
First == CHOOSE p \in Phases : \A q \in Phases : p <= q

Init ==
    /\ status = "awaiting_payment" /\ phase = First /\ lapsed = FALSE /\ moderate \in BOOLEAN /\ card = FALSE
    /\ rated = {} /\ claim = FALSE /\ back = 0
    /\ role \in Role /\ seen = Now /\ sheet = "none" /\ photos = "none" /\ toFinish = FALSE
    /\ cmd = {} /\ confirming = FALSE /\ quote = {} /\ said = "none" /\ deal = {}

-----------------------------------------------------------------------------
(* The server.                                                             *)

asOwner == role = "owner"
Live == {"awaiting_payment", "requested"}
Charged == status \in {"accepted", "active"}

\* refund_amount in cancellation.py: the owner gives back everything, the policy the rest.
Refund(r) == IF ~Charged THEN 0 ELSE IF r = "owner" \/ ~moderate \/ phase = Ahead THEN Total ELSE Total \div 2

TimeAllows(a, r) ==
    /\ a = "cancel" => phase < Begun
    /\ a = "dispute" => phase >= Begun \/ status = "active"
    /\ a = "start" => phase >= HandOver
    /\ a = "no_show" => phase \in (IF r = "requester" THEN {Begun, Late} ELSE {Late})

\* Everything the page can send, as _transition, rate, rate_renter, report_late_return, extend and
\* add_evidence take it.
Takes(a, r) ==
    \/ a \in Moves /\ ~lapsed /\ CanAct(a, status, r) /\ TimeAllows(a, r)
    \/ a = "rate" /\ r = "requester" /\ status = "completed" /\ r \notin rated /\ phase < Closed
    \/ a = "rate_renter" /\ r = "owner" /\ status = "completed" /\ r \notin rated /\ phase < Closed
    \/ a = "late" /\ r = "owner" /\ status \in {"active", "completed", "disputed"} /\ phase = After /\ ~claim
    \/ a = "extend" /\ r = "requester" /\ status \in {"accepted", "active"} /\ phase < After
    \/ a = "check_in" /\ status \in {"accepted", "active"}
    \/ a = "check_out" /\ status \in {"active", "completed", "disputed"}

\* What taking it changes.
Effect(a, r) ==
    /\ IF a \in Moves THEN status' = TRANSITIONS[a].to /\ lapsed' = FALSE ELSE UNCHANGED <<status, lapsed>>
    /\ back' = (CASE a = "cancel" -> Refund(r) [] a = "no_show" /\ r = "requester" -> Total [] OTHER -> back)
    /\ rated' = (IF a \in {"rate", "rate_renter"} THEN rated \cup {r} ELSE rated)
    /\ claim' = (claim \/ a = "late")
    /\ UNCHANGED <<phase, moderate, card, role>>

Other == CHOOSE r \in Role : r # role
OtherActs(a) == Takes(a, Other) /\ Effect(a, Other) /\ UNCHANGED page

SystemMove(a) ==
    /\ a = "authorised" => card
    /\ a = "authorised_instant" => card
    /\ a = "expire" => lapsed
    /\ a = "auto_complete" => phase >= Past
    /\ Applies(a, status) /\ status' = SYSTEM[a].to
    /\ lapsed' = (a = "authorised" /\ phase >= Begun)
    /\ UNCHANGED <<phase, moderate, card, rated, claim, back, role, page>>

OtherPays ==
    /\ asOwner /\ status = "awaiting_payment" /\ ~card /\ card' = TRUE
    /\ UNCHANGED <<status, phase, lapsed, moderate, rated, claim, back, role, page>>

\* A hold or an answer runs out, at the booked time at the latest.
RunsOut ==
    /\ status \in Live /\ ~lapsed /\ lapsed' = TRUE
    /\ UNCHANGED <<status, phase, moderate, card, rated, claim, back, role, page>>
Tick ==
    /\ \E p \in Phases : p > phase /\ (\A q \in Phases : q > phase => p <= q) /\ phase' = p
    /\ lapsed' = (lapsed \/ (status \in Live /\ phase' >= Begun))
    /\ UNCHANGED <<status, moderate, card, rated, claim, back, role, page>>

-----------------------------------------------------------------------------
(* The page.                                                               *)

\* The booking is read again: every 2.5 s while it waits for somebody, after a command, on focus.
\* By then the toast is gone.
Read ==
    /\ seen' = Now
    /\ confirming' = (confirming /\ status = "awaiting_payment")
    /\ said' = "none"
    /\ UNCHANGED <<server, role, sheet, photos, toFinish, cmd, quote, deal>>

\* What the footer and the cards offer, from the copy and the time of the render.
s == seen.status
t == seen.phase
OffersAnswer(a) == a \in {"accept", "decline"} /\ asOwner /\ s = "requested"
OffersStart(a) == a = "start" /\ s = "accepted" /\ t >= HandOver
OffersCancel(a) == a = "cancel" /\ ((s = "accepted" /\ t < Begun) \/ (~asOwner /\ s \in Live))
OffersNoShow(a) == a = "no_show" /\ s = "accepted" /\ t \in (IF asOwner THEN {Late} ELSE {Begun, Late})
OffersHandBack(a) == a = "complete" /\ ~asOwner /\ s = "active"
OffersDispute(a) == a = "dispute" /\ ~asOwner /\ (s = "active" \/ (s = "accepted" /\ t >= Begun))
OffersRating(a) == a = (IF asOwner THEN "rate_renter" ELSE "rate") /\ s = "completed" /\ role \notin seen.rated
OffersLateReturn(a) ==
    a = "late" /\ asOwner /\ s \in {"active", "completed", "disputed"} /\ t = After /\ ~seen.claim
OffersExtension(a) == a = "extend" /\ ~asOwner /\ s \in {"accepted", "active"} /\ t < After
OffersPhotos(a) ==
    \/ a = "check_in" /\ s \in {"accepted", "active"}
    \/ a = "check_out" /\ s \in {"active", "disputed"}
Offered(a) ==
    \/ OffersAnswer(a) \/ OffersStart(a) \/ OffersCancel(a) \/ OffersNoShow(a) \/ OffersHandBack(a)
    \/ OffersDispute(a) \/ OffersRating(a) \/ OffersLateReturn(a) \/ OffersExtension(a) \/ OffersPhotos(a)

\* These act at once, the others ask first; the photo sheet is one of its own.
AtOnce == {"accept", "start"}
Stage == {"check_in", "check_out"}

Open(a) ==
    /\ a \notin AtOnce \cup Stage /\ Offered(a) /\ sheet = "none" /\ photos = "none"
    /\ cmd # {} => a \in {"rate", "rate_renter", "late", "extend"}
    /\ sheet' = a
    /\ UNCHANGED <<server, role, seen, photos, toFinish, cmd, confirming, quote, said, deal>>

OpenPhotos(p) ==
    /\ p \in Stage /\ Offered(p) /\ sheet = "none" /\ photos = "none" /\ photos' = p
    /\ UNCHANGED <<server, role, seen, sheet, toFinish, cmd, confirming, quote, said, deal>>

CloseSheet ==
    /\ sheet # "none" /\ sheet' = "none"
    /\ UNCHANGED <<server, role, seen, photos, toFinish, cmd, confirming, quote, said, deal>>

\* What cancelling now would refund: read when its sheet opens, and on focus; kept until then.
ReadQuote ==
    /\ sheet = "cancel"
    /\ quote' = {[refund |-> Refund(role), charged |-> Charged]}
    /\ UNCHANGED <<server, role, seen, sheet, photos, toFinish, cmd, confirming, said, deal>>

\* The cancel sheet's words: no charge, so much back, or everything while it does not know.
SaysCharged == IF quote = {} THEN seen.status = "accepted" ELSE \E q \in quote : q.charged
Shown == IF ~SaysCharged THEN 0 ELSE IF quote = {} THEN Total ELSE CHOOSE r \in 0 .. Total : \E q \in quote : q.refund = r
Sends(a) == cmd' = {[act |-> a, st |-> "sent", shown |-> IF a = "cancel" THEN Shown ELSE 0]}

Tap(a) ==
    /\ a \in AtOnce /\ Offered(a) /\ sheet = "none" /\ photos = "none" /\ cmd = {}
    /\ Sends(a)
    /\ UNCHANGED <<server, role, seen, sheet, photos, toFinish, confirming, quote, said, deal>>

\* A sheet whose words a refusal would lose stays open; the hand-back asks for the rating next.
StaysOpen == {"dispute", "late", "extend"}
Confirm ==
    /\ sheet # "none" /\ cmd = {}
    /\ Sends(sheet)
    /\ sheet' = (IF sheet \in StaysOpen THEN sheet ELSE IF sheet = "complete" THEN "rate" ELSE "none")
    /\ UNCHANGED <<server, role, seen, photos, toFinish, confirming, quote, said, deal>>

\* "Add check-out photos first".
PhotosFirst ==
    /\ sheet = "complete" /\ sheet' = "none" /\ photos' = "check_out" /\ toFinish' = TRUE
    /\ UNCHANGED <<server, role, seen, cmd, confirming, quote, said, deal>>

SavePhotos ==
    /\ photos # "none" /\ cmd = {}
    /\ Sends(photos)
    /\ UNCHANGED <<server, role, seen, sheet, photos, toFinish, confirming, quote, said, deal>>

\* Closed by hand, or with the photos saved: then the question they came from comes back.
PhotosClosed(saved) ==
    /\ photos' = "none" /\ toFinish' = FALSE
    /\ sheet' = (IF saved /\ toFinish THEN "complete" ELSE sheet)
NotNow ==
    /\ photos # "none" /\ PhotosClosed(FALSE)
    /\ UNCHANGED <<server, role, seen, cmd, confirming, quote, said, deal>>

\* The server handles it.
Handle(c) ==
    /\ c.st = "sent"
    /\ IF Takes(c.act, role)
       THEN /\ Effect(c.act, role) /\ cmd' = {[c EXCEPT !.st = "ok"]}
            /\ deal' = (IF c.act = "cancel" THEN {[shown |-> c.shown, got |-> Refund(role)]} ELSE deal)
       ELSE cmd' = {[c EXCEPT !.st = "no"]} /\ UNCHANGED <<server, role, deal>>
    /\ UNCHANGED <<seen, sheet, photos, toFinish, confirming, quote, said>>

\* The answer to a button, a sheet or the photos, said in a toast; the booking is read again after.
Done(a) ==
    /\ cmd' = {} /\ said' = a
    /\ IF a \in Stage THEN PhotosClosed(TRUE)
       ELSE /\ sheet' = (IF a \in StaysOpen /\ sheet = a THEN "none" ELSE sheet)
            /\ photos' = (IF a = "start" THEN "check_in" ELSE photos)
            /\ UNCHANGED toFinish
    /\ UNCHANGED <<server, role, seen, confirming, quote, deal>>
Sorry ==
    /\ cmd' = {} /\ said' = "none"
    /\ UNCHANGED <<server, role, seen, sheet, photos, toFinish, confirming, quote, deal>>

\* Wrong on purpose: a 409 is read as done already, wherever the booking is.
ThereAnyway(c) == c.act \in Plain

\* actOnBooking: refused with 409, the booking is read, and is where the command would take it.
There(c) == c.act \in Plain /\ status = TRANSITIONS[c.act].to
Answered(c) ==
    \/ c.st = "ok" /\ Done(c.act)
    \/ c.st = "no" /\ IF There(c) THEN Done(c.act) ELSE Sorry

\* The request or its answer is lost.
Lost(c) == Sorry

-----------------------------------------------------------------------------
(* The card step of a booking that is still to be paid.                    *)

PayNow == ~asOwner /\ seen.status = "awaiting_payment" /\ ~confirming
\* Stripe's form takes a card once.
Pay ==
    /\ PayNow /\ ~card /\ status = "awaiting_payment"
    /\ card' = TRUE /\ confirming' = TRUE
    /\ UNCHANGED <<status, phase, lapsed, moderate, rated, claim, back, role,
                   seen, sheet, photos, toFinish, cmd, quote, said, deal>>

\* A minute without news: the form is back.
StopConfirming ==
    /\ confirming /\ confirming' = FALSE
    /\ UNCHANGED <<server, role, seen, sheet, photos, toFinish, cmd, quote, said, deal>>

-----------------------------------------------------------------------------
Person ==
    \/ \E a \in Act : Open(a) \/ OpenPhotos(a) \/ Tap(a)
    \/ CloseSheet \/ Confirm \/ PhotosFirst \/ SavePhotos \/ NotNow \/ Pay
Elsewhere ==
    (\E a \in Act : OtherActs(a)) \/ (\E a \in SystemAction : SystemMove(a)) \/ OtherPays \/ RunsOut \/ Tick
Next ==
    \/ Person \/ Elsewhere \/ Read \/ ReadQuote \/ StopConfirming
    \/ \E c \in cmd : Handle(c) \/ Answered(c) \/ Lost(c)

Spec == Init /\ [][Next]_vars

\* A copy that waits for somebody is read again and again; a command is answered or fails.
Polls == seen.status \in Live /\ Read
Commands == \E c \in cmd : Handle(c) \/ Answered(c)
FairSpec == Spec /\ WF_vars(Polls) /\ WF_vars(Commands)

-----------------------------------------------------------------------------
\* The page and the server have one table between them: on an up-to-date page every button that is
\* offered is taken, at every time.  The two exceptions are a request that lapsed and was not swept
\* yet, and ratings after their two weeks, which the page does not watch for.
OfferedIsTaken ==
    seen = Now /\ ~lapsed /\ phase < Closed => \A a \in Act : Offered(a) => Takes(a, role)

\* What the page calls done stays done: a 409 that actOnBooking reads as success is one only when
\* the booking is where the command would have taken it, by whomever.
SaidIsTrue ==
    said \in Moves =>
        \/ status = TRANSITIONS[said].to
        \/ TRANSITIONS[said].to \notin FINAL /\ status \notin Live

\* "What cancelling now would refund, straight from the server's rule" (repo.ts).
CancelAsShown == \A d \in deal : d.got = d.shown

\* A page that waits for the other side or the card does not wait for something that happened.
PageCatchesUp == [](seen.status \in Live /\ status # seen.status => <>(seen.status = status \/ seen.status \notin Live))
=============================================================================
