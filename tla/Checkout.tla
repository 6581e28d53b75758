------------------------------ MODULE Checkout ------------------------------
(***************************************************************************)
(* Booking from a listing's page (web/src/app/screens/Listing.tsx): the    *)
(* duration and the start are picked while the quote and the free starts   *)
(* load behind them, the confirm sheet sends the booking under an          *)
(* Idempotency-Key, an ID check may come in between, and the card step     *)
(* follows.  Meanwhile the owner may change the rate, other people take    *)
(* windows, answers get lost and arrive late, and the sheet can be closed. *)
(* The server is as booking/routes.py `create` and matching's offer check. *)
(***************************************************************************)
EXTENDS Naturals, FiniteSets, FiniteSetsExt

CONSTANTS Hours,      \* durations the listing takes
          LastHour,   \* the hours of the calendar are 0 .. LastHour
          MaxRate,    \* the rate starts at 1 and the owner may raise it to this
          MaxCall,    \* bookings ever sent
          MaxOther,   \* windows other people take
          MaxPick     \* times another start is picked


VARIABLES
    rate,      \* the listing's rate at the server
    others,    \* windows other people booked: [start, len]
    mine,      \* bookings the server has for this person
    checked,   \* "needed", "done" or "free": the one-time ID check
    hours,     \* the duration picked
    quotes,    \* per duration: the rate its cached quote was made at, 0 when there is none
    lastQuote, \* the duration of the quote shown while another loads, 0 for none
    free,      \* per duration: the cached starts, and whether there are any cached
    lastFree,  \* the duration of the starts shown while others load, 0 for none
    picked,    \* the offer tapped, as it was then: [start, len], a set of at most one
    picks,
    sheet,     \* the confirm sheet is open
    calls,     \* POST /bookings under way or answered
    asked,     \* how many were sent
    last, keys,\* the attempt's key (0: none) and body; keys made
    paying,    \* keys of the booking whose card form is shown: a set of at most one
    idSheet,   \* "closed", "ask", "busy"
    checking,  \* bodies an ID check will book when it passes: a set of at most one
    open       \* the page is still mounted

vars == <<rate, others, mine, checked, hours, quotes, lastQuote, free, lastFree, picked, picks,
          sheet, calls, asked, last, keys, paying, idSheet, checking, open>>
server == <<rate, others, mine, checked>>
queries == <<quotes, lastQuote, free, lastFree>>
choice == <<hours, picked, picks>>
attempt == <<last, keys>>

Start == 0 .. LastHour
Span(w) == w.start .. (w.start + w.len - 1)
Overlap(v, w) == Span(v) \cap Span(w) # {}
Window == [start: Start, len: Hours]
\* What is sent, and what the price on the button was for: a duration at a rate.
Body == [hours: Hours, start: Start, len: Hours]
Seen == [hours: Hours, rate: 1 .. MaxRate]
Key == 1 .. MaxCall
Booking == [key: Key, body: Body, rate: 1 .. MaxRate, saw: Seen, st: {"unpaid", "held", "gone"}]
Call == [n: Key, key: Key, body: Body, saw: Seen,
         st: {"sent", "made"}]

TypeOK ==
    /\ rate \in 1 .. MaxRate /\ others \subseteq Window /\ mine \subseteq Booking
    /\ checked \in {"needed", "done", "free"}
    /\ hours \in Hours /\ quotes \in [Hours -> 0 .. MaxRate] /\ lastQuote \in {0} \cup Hours
    /\ free \in [Hours -> [there: BOOLEAN, starts: SUBSET Start]] /\ lastFree \in {0} \cup Hours
    /\ picked \subseteq Window /\ picks \in 0 .. MaxPick /\ sheet \in BOOLEAN
    /\ calls \subseteq Call /\ asked \in 0 .. MaxCall
    /\ last \in [key: {0} \cup Key, body: Body] /\ keys \in 0 .. MaxCall
    /\ paying \subseteq Key /\ idSheet \in {"closed", "ask", "busy"}
    /\ checking \subseteq Body \X Seen /\ open \in BOOLEAN

Init ==
    /\ rate = 1 /\ others = {} /\ mine = {} /\ checked \in {"needed", "free"}
    /\ hours \in Hours /\ quotes = [h \in Hours |-> 0] /\ lastQuote = 0
    /\ free = [h \in Hours |-> [there |-> FALSE, starts |-> {}]] /\ lastFree = 0
    /\ picked = {} /\ picks = 0 /\ sheet = FALSE
    /\ calls = {} /\ asked = 0
    /\ last = [key |-> 0, body |-> [hours |-> hours, start |-> 0, len |-> hours]] /\ keys = 0
    /\ paying = {} /\ idSheet = "closed" /\ checking = {} /\ open = TRUE

-----------------------------------------------------------------------------
(* What the page shows.                                                    *)

\* keepPreviousData: the quote of the duration picked, or the one before it until that is there.
ShownQuote == IF quotes[hours] # 0 THEN hours ELSE lastQuote
\* The starts are asked for the quote's hours, with the same placeholder.
ShownFree == IF ShownQuote # 0 /\ free[ShownQuote].there THEN ShownQuote ELSE lastFree
Starts == IF ShownQuote = 0 \/ ShownFree = 0 THEN {} ELSE free[ShownFree].starts
\* The offer tapped, with the end it had, while its start is offered, else the soonest: at most one.
Soonest == IF Starts = {} THEN {} ELSE {[start |-> Min(Starts), len |-> ShownFree]}
Selected == IF \E w \in picked : w.start \in Starts THEN picked ELSE Soonest
SelectedStart == {w.start : w \in Selected}

\* A new window is a new attempt: the effect of a render whose selected start moved.
StartOver == paying' = {} /\ last' = [last EXCEPT !.key = 0]
Follows ==
    /\ IF SelectedStart' # SelectedStart THEN StartOver ELSE UNCHANGED <<paying, last>>
    /\ UNCHANGED keys

Taken(w) == \E v \in others : Overlap(v, w)
Holding == {b \in mine : b.st # "gone"}
Fits(w) == /\ w.start + w.len <= LastHour + 1
           /\ ~Taken(w)
           /\ \A b \in Holding : ~Overlap([start |-> b.body.start, len |-> b.body.len], w)

-----------------------------------------------------------------------------
(* Choosing, on the page behind the sheets.                                *)

ChooseHours(h) ==
    /\ open /\ ~sheet /\ idSheet = "closed" /\ h # hours /\ picks < MaxPick
    /\ hours' = h /\ picked' = {} /\ picks' = picks + 1
    /\ lastQuote' = ShownQuote /\ lastFree' = ShownFree
    /\ UNCHANGED <<server, quotes, free, sheet, calls, asked, idSheet, checking, open>>
    /\ Follows

PickStart(s) ==
    /\ open /\ ~sheet /\ idSheet = "closed" /\ s \in Starts /\ picks < MaxPick
    /\ picked' = {[start |-> s, len |-> ShownFree]} /\ picked' # picked /\ picks' = picks + 1
    /\ UNCHANGED <<server, hours, queries, sheet, calls, asked, idSheet, checking, open>>
    /\ Follows

\* "Try {min}", where nothing is free that long: the offer tapped before stays.
TryShortest ==
    /\ open /\ ~sheet /\ idSheet = "closed" /\ Starts = {} /\ hours # Min(Hours)
    /\ hours' = Min(Hours) /\ lastQuote' = ShownQuote /\ lastFree' = ShownFree
    /\ UNCHANGED <<server, picked, picks, quotes, free, sheet, calls, asked, idSheet, checking, open>>
    /\ Follows

\* The queries answer, at once or after a refetch.
QuoteLoads ==
    /\ open /\ quotes[hours] # rate
    /\ quotes' = [quotes EXCEPT ![hours] = rate]
    /\ lastQuote' = hours /\ lastFree' = ShownFree
    /\ UNCHANGED <<server, choice, free, sheet, calls, asked, idSheet, checking, open>>
    /\ Follows

StartsLoad ==
    LET h == ShownQuote
        now == [there |-> TRUE, starts |-> {s \in Start : Fits([start |-> s, len |-> h])}]
    IN
    /\ open /\ h # 0 /\ free[h] # now
    /\ free' = [free EXCEPT ![h] = now]
    /\ lastFree' = h
    /\ UNCHANGED <<server, choice, quotes, lastQuote, sheet, calls, asked, idSheet, checking, open>>
    /\ Follows

-----------------------------------------------------------------------------
(* The confirm sheet.                                                      *)

Request ==
    /\ open /\ ~sheet /\ Selected # {} /\ ShownQuote # 0
    /\ sheet' = TRUE
    /\ UNCHANGED <<server, choice, queries, calls, asked, attempt, paying, idSheet, checking, open>>

\* Closed by its handle or its backdrop; "Not yet" keeps the attempt.
CloseSheet ==
    /\ open /\ sheet /\ sheet' = FALSE
    /\ StartOver
    /\ UNCHANGED <<server, choice, queries, calls, asked, keys, idSheet, checking, open>>

NotYet ==
    /\ open /\ sheet /\ paying = {} /\ sheet' = FALSE
    /\ UNCHANGED <<server, choice, queries, calls, asked, attempt, paying, idSheet, checking, open>>

Waiting == {c \in calls : c.st = "sent"}

\* book(): the body of the render it was called in, under the key kept for it or a new one.
Kept(body) == last.key # 0 /\ last.body = body
Book(body, saw) ==
    LET k == IF Kept(body) THEN last.key ELSE keys + 1 IN
    /\ asked < MaxCall
    /\ last' = [key |-> k, body |-> body]
    /\ keys' = (IF Kept(body) THEN keys ELSE keys + 1)
    /\ asked' = asked + 1
    /\ calls' = calls \cup {[n |-> asked + 1, key |-> k, body |-> body, saw |-> saw, st |-> "sent"]}

Confirm ==
    /\ open /\ sheet /\ paying = {} /\ calls = {} /\ idSheet = "closed"
    /\ \E w \in Selected :
         Book([hours |-> hours, start |-> w.start, len |-> w.len], [hours |-> ShownQuote, rate |-> quotes[ShownQuote]])
    /\ UNCHANGED <<server, choice, queries, sheet, paying, idSheet, checking, open>>

-----------------------------------------------------------------------------
(* The server: create in booking/routes.py, and matching's check.          *)

MadeNow(c) == calls' = (calls \ {c}) \cup {[c EXCEPT !.st = "made"]}

\* The booking this key made before: its payment is started again.
Replay(c) ==
    /\ c \in Waiting
    /\ \E b \in mine : b.key = c.key
    /\ MadeNow(c)
    /\ UNCHANGED <<server, choice, queries, sheet, asked, attempt, paying, idSheet, checking, open>>

Fresh(c) == c \in Waiting /\ \A b \in mine : b.key # c.key
Wants(c) == [start |-> c.body.start, len |-> c.body.len]
\* Wrong on purpose: the window is not compared with the hours the price was for.
PricedAnyway(c) == TRUE

Priced(c) == c.body.hours = c.body.len

\* Made at today's rate.
Create(c) ==
    /\ Fresh(c) /\ Priced(c) /\ Fits(Wants(c)) /\ checked # "needed"
    /\ mine' = mine \cup {[key |-> c.key, body |-> c.body, rate |-> rate, saw |-> c.saw, st |-> "unpaid"]}
    /\ MadeNow(c)
    /\ UNCHANGED <<rate, others, checked, choice, queries, sheet, asked, attempt, paying, idSheet, checking, open>>

-----------------------------------------------------------------------------
(* What comes back to book().                                              *)

\* The card form, in the sheet if it is open.
Made(c) ==
    /\ c \in calls /\ c.st = "made" /\ calls' = calls \ {c}
    /\ last' = [last EXCEPT !.key = 0] /\ paying' = {c.key}
    /\ UNCHANGED <<server, choice, queries, sheet, asked, keys, idSheet, checking, open>>

\* A definite no, taken or not the length it was priced at, drops the key.
Refused(c) ==
    /\ Fresh(c) /\ (~Priced(c) \/ ~Fits(Wants(c))) /\ calls' = calls \ {c}
    /\ last' = [last EXCEPT !.key = 0]
    /\ UNCHANGED <<server, choice, queries, sheet, asked, keys, paying, idSheet, checking, open>>

\* 403 verification_required: the same attempt is kept for after the check.
MustVerify(c) ==
    /\ Fresh(c) /\ Priced(c) /\ Fits(Wants(c)) /\ checked = "needed" /\ calls' = calls \ {c}
    /\ idSheet' = "ask"
    /\ UNCHANGED <<server, choice, queries, sheet, asked, attempt, paying, checking, open>>

\* The request or its answer is lost, or the payment could not start (5xx): the key is kept.
Unknown(c) ==
    /\ c \in calls /\ calls' = calls \ {c}
    /\ UNCHANGED <<server, choice, queries, sheet, asked, attempt, paying, idSheet, checking, open>>

-----------------------------------------------------------------------------
(* The ID check, which goes on whatever is closed meanwhile.               *)

StartCheck ==
    /\ open /\ idSheet = "ask" /\ checking = {} /\ ShownQuote # 0
    /\ idSheet' = "busy"
    /\ \E w \in Selected :
         checking' = {<<[hours |-> hours, start |-> w.start, len |-> w.len],
                        [hours |-> ShownQuote, rate |-> quotes[ShownQuote]]>>}
    /\ UNCHANGED <<server, choice, queries, sheet, calls, asked, attempt, paying, open>>

CloseCheck ==
    /\ open /\ idSheet # "closed" /\ idSheet' = "closed"
    /\ UNCHANGED <<server, choice, queries, sheet, calls, asked, attempt, paying, checking, open>>

\* Passed: the booking it was for is sent.
CheckPasses ==
    /\ checked' = "done" /\ idSheet' = "closed" /\ checking' = {}
    /\ \E x \in checking : Book(x[1], x[2])
    /\ UNCHANGED <<rate, others, mine, choice, queries, sheet, paying, open>>

\* Failed, or not decided in time.
CheckFails ==
    /\ checking # {} /\ checking' = {} /\ idSheet' = "ask"
    /\ UNCHANGED <<server, choice, queries, sheet, calls, asked, attempt, paying, open>>

-----------------------------------------------------------------------------
\* The card form says yes: the booking's own page opens.
Pay ==
    /\ open /\ sheet
    /\ \E b \in mine :
         /\ b.key \in paying /\ b.st = "unpaid"
         /\ mine' = (mine \ {b}) \cup {[b EXCEPT !.st = "held"]}
    /\ sheet' = FALSE /\ open' = FALSE /\ StartOver
    /\ UNCHANGED <<rate, others, checked, choice, queries, calls, asked, keys, idSheet, checking>>

(* What others do. *)
Reprice ==
    /\ rate < MaxRate /\ rate' = rate + 1
    /\ UNCHANGED <<others, mine, checked, choice, queries, sheet, calls, asked, attempt, paying, idSheet, checking, open>>

SomeoneBooks(w) ==
    /\ Cardinality(others) < MaxOther /\ Fits(w)
    /\ others' = others \cup {w}
    /\ UNCHANGED <<rate, mine, checked, choice, queries, sheet, calls, asked, attempt, paying, idSheet, checking, open>>

Lapse(b) ==
    /\ b \in mine /\ b.st = "unpaid"
    /\ mine' = (mine \ {b}) \cup {[b EXCEPT !.st = "gone"]}
    /\ UNCHANGED <<rate, others, checked, choice, queries, sheet, calls, asked, attempt, paying, idSheet, checking, open>>

-----------------------------------------------------------------------------
Answers(c) == Replay(c) \/ Create(c) \/ Made(c) \/ Refused(c) \/ MustVerify(c) \/ Unknown(c)
Choose == TryShortest \/ (\E h \in Hours : ChooseHours(h)) \/ \E s \in Start : PickStart(s)
Sheets == Request \/ CloseSheet \/ NotYet \/ Confirm \/ StartCheck \/ CloseCheck \/ Pay

Next ==
    \/ Choose \/ Sheets \/ QuoteLoads \/ StartsLoad \/ CheckPasses \/ CheckFails
    \/ \E c \in calls : Answers(c)
    \/ Reprice \/ (\E w \in Window : SomeoneBooks(w)) \/ \E b \in mine : Lapse(b)

Spec == Init /\ [][Next]_vars

\* Queries are answered and refetched, a POST is answered or fails.
FairSpec == Spec /\ WF_vars(QuoteLoads) /\ WF_vars(StartsLoad) /\ WF_vars(\E c \in calls : Answers(c))

-----------------------------------------------------------------------------
\* What is held is as long as the button's price was for, whatever was picked and loaded meanwhile: no
\* quote shown in place of one still loading (keepPreviousData), and no offer tapped for another
\* duration and kept since, becomes somebody's booking.
HeldAsShown == \A b \in mine : {b.body.hours, b.body.len} = {b.saw.hours}

\* Whoever pays pays for the window on the page: "a new window is a new attempt: never carry the
\* last one's payment or key over" (Listing.tsx startOver).
PaysForSelected ==
    sheet /\ open => \A b \in mine : b.key \in paying => b.body.start \in SelectedStart

\* The person who stops choosing sees the price and the starts of what they chose: what stands in
\* while others load does not stay, whatever was cached.
ShowsWhatIsChosen == <>[](open => ShownQuote = hours /\ ShownFree = hours)
=============================================================================
