---------------------------- MODULE Conversation ----------------------------
(***************************************************************************)
(* The conversation of one booking, seen by one of its two sides           *)
(* (web/src/app/components/Conversation.tsx, app/screens/Inbox.tsx).  The  *)
(* thread and the booking are polled apart, the server masks contact       *)
(* details by the status the booking has now, closes the conversation and  *)
(* refuses blocked people (booking/messages.py), and keeps what was read   *)
(* (booking/inbox.py).                                                     *)
(***************************************************************************)
EXTENDS Naturals, Sequences, SequencesExt

CONSTANTS Text,      \* what is written: "plain" words, "contact" details, or both kinds
          PageSize,  \* messages one GET returns: 100
          MaxMsg     \* messages ever written

VARIABLES
    status,   \* of the booking, at the server: "over" is completed and past its review window
    msgs,     \* its messages, oldest first: [mine, kind]
    readTo,   \* how many were there when this side last read it
    blocked,  \* who blocks whom: "me", "them"
    open,     \* the thread is on the screen
    seen,     \* the status in the booking query
    thread,   \* per status in the key: how many were last read, and whether as agreed
    known,    \* this side's list of blocks names the other
    closedHere, refusedHere, \* what the server said to a message, kept until the thread is left
    draft,    \* what is typed
    sending,  \* the text on its way, if any
    kept,     \* the text under the attempt's key, if any
    made,     \* that key made its message
    left      \* texts on their way, not made yet, from a page that was left

booking == <<status, blocked>>
page == <<open, seen, thread, known>>
composer == <<closedHere, refusedHere, draft, sending, kept, made>>
vars == <<booking, msgs, readTo, page, composer, left>>

Status == {"requested", "accepted", "completed", "over", "cancelled"}
None == "none"
\* "masked" keeps the contact details it was sent with; "bare" was sent once they were agreed.
Kind == {"plain", "masked", "bare"}
View == [n: 0 .. MaxMsg, agreed: BOOLEAN]
Unasked == [n |-> 0, agreed |-> FALSE]

TypeOK ==
    /\ status \in Status /\ blocked \subseteq {"me", "them"}
    /\ msgs \in BoundedSeq([mine: BOOLEAN, kind: Kind], MaxMsg) /\ readTo \in 0 .. MaxMsg
    /\ open \in BOOLEAN /\ seen \in Status \ {"over"} /\ known \in BOOLEAN
    /\ thread \in [Status \ {"over"} -> View]
    /\ closedHere \in BOOLEAN /\ refusedHere \in BOOLEAN
    /\ draft \in Text \cup {None} /\ sending \in Text \cup {None} /\ kept \in Text \cup {None} /\ made \in BOOLEAN
    /\ left \subseteq Text

Init ==
    /\ status = "requested" /\ blocked = {} /\ msgs = <<>> /\ readTo = 0
    /\ open = FALSE /\ seen = "requested" /\ known = FALSE
    /\ thread = [s \in Status \ {"over"} |-> Unasked]
    /\ closedHere = FALSE /\ refusedHere = FALSE
    /\ draft = None /\ sending = None /\ kept = None /\ made = FALSE /\ left = {}

-----------------------------------------------------------------------------
(* The server.                                                             *)

Named == IF status = "over" THEN "completed" ELSE status
Agreed == Named \in {"accepted", "completed"}
OpenForMessages == status \notin {"cancelled", "over"}
Room == Len(msgs) < MaxMsg

\* What was sent before the booking was agreed is masked and kept beside its mask.
Stored(text) == IF text = "plain" THEN "plain" ELSE IF Agreed THEN "bare" ELSE "masked"
Add(mine, text) == msgs' = Append(msgs, [mine |-> mine, kind |-> Stored(text)])

\* GET messages: oldest first, one page.
Oldest == IF Len(msgs) > PageSize THEN PageSize ELSE Len(msgs)
Answer == [n |-> Oldest, agreed |-> Agreed]
Unread == {i \in 1 .. Len(msgs) : ~msgs[i].mine /\ i > readTo}

Moves == {<<"requested", "accepted">>, <<"requested", "cancelled">>, <<"accepted", "cancelled">>,
          <<"accepted", "completed">>, <<"completed", "over">>}
Move(to) ==
    /\ <<status, to>> \in Moves /\ status' = to
    /\ UNCHANGED <<blocked, msgs, readTo, page, composer, left>>

TheyWrite(text) ==
    /\ OpenForMessages /\ blocked = {} /\ Room /\ Add(FALSE, text)
    /\ UNCHANGED <<booking, readTo, page, composer, left>>
TheyBlock ==
    /\ blocked' = (IF "them" \in blocked THEN blocked \ {"them"} ELSE blocked \cup {"them"})
    /\ UNCHANGED <<status, msgs, readTo, page, composer, left>>

-----------------------------------------------------------------------------
(* The thread on the screen.                                               *)

\* The thread under a key of the booking and the status its query has.
KeyOf(s) == s
Shown == thread[KeyOf(seen)]
\* The clock closes a completed booking on the page too.
Closed == seen = "cancelled" \/ (seen = "completed" /\ status = "over") \/ closedHere
Blocked == known \/ refusedHere

\* The effect on the number of messages shown: when the last is theirs, everything is read.
Reads ==
    /\ \/ /\ open' /\ Shown'.n # 0 /\ ~msgs[Shown'.n].mine
          /\ open => Shown'.n # Shown.n
          /\ readTo' = Len(msgs)
       \/ UNCHANGED readTo

OpenThread ==
    /\ ~open /\ open' = TRUE /\ closedHere' = FALSE /\ refusedHere' = FALSE
    /\ UNCHANGED <<booking, msgs, seen, thread, known, draft, sending, kept, made, left>>
    /\ Reads
\* A message under way goes on, and the next page of the thread knows nothing of it; of one that is
\* made the answer is still to come, which clears the stored draft.
Leave ==
    /\ open /\ open' = FALSE /\ sending' = None /\ kept' = None /\ made' = FALSE
    /\ left' = (IF made THEN left ELSE left \cup ({sending} \ {None}))
    /\ draft' \in (IF made THEN {draft, None} ELSE {draft})
    /\ UNCHANGED <<booking, msgs, readTo, seen, thread, known, closedHere, refusedHere>>

\* Polled every 5 s, and again after a message of one's own.
PollThread ==
    /\ open /\ thread' = [thread EXCEPT ![KeyOf(seen)] = Answer]
    /\ UNCHANGED <<booking, msgs, open, seen, known, composer, left>>
    /\ Reads
\* A status that is left does not come back: what is kept under its key is of no use any more.
PollBooking ==
    /\ open /\ seen' = Named
    /\ thread' = (IF seen' = seen THEN thread ELSE [thread EXCEPT ![KeyOf(seen)] = Unasked])
    /\ UNCHANGED <<booking, msgs, open, known, composer, left>>
    /\ Reads

\* From the report sheet; the list is read again.
Block ==
    /\ open /\ ~known /\ (\E i \in 1 .. Shown.n : ~msgs[i].mine)
    /\ blocked' = blocked \cup {"me"} /\ known' = TRUE
    /\ UNCHANGED <<status, msgs, readTo, open, seen, thread, composer, left>>
Unblock ==
    /\ open /\ ~Closed /\ known
    /\ blocked' = blocked \ {"me"} /\ known' = FALSE
    /\ UNCHANGED <<status, msgs, readTo, open, seen, thread, composer, left>>

-----------------------------------------------------------------------------
(* Writing one.                                                            *)

CanWrite == open /\ ~Closed /\ ~Blocked
Type(text) ==
    /\ CanWrite /\ draft # text /\ draft' = text
    /\ UNCHANGED <<booking, msgs, readTo, page, closedHere, refusedHere, sending, kept, made, left>>

\* The text typed, under the key it had or a new one.
Send ==
    /\ CanWrite /\ sending = None /\ draft # None /\ sending' = draft
    /\ kept' = draft /\ made' = (made /\ kept = draft)
    /\ UNCHANGED <<booking, msgs, readTo, page, closedHere, refusedHere, draft, left>>

\* What the key made is answered again; a block and a closed booking are refused, in that order.
Posted == ~made /\ blocked = {} /\ OpenForMessages
Idle == sending' = None
Sent ==
    /\ sending # None /\ Idle /\ kept' = None /\ made' = FALSE /\ draft' = None
    /\ \/ made /\ UNCHANGED msgs
       \/ Posted /\ Room /\ Add(TRUE, sending)
    /\ UNCHANGED <<booking, readTo, page, closedHere, refusedHere, left>>
\* Wrong on purpose: a block closes the conversation like an ended booking does.
RefusedForGood ==
    /\ sending # None /\ ~made /\ blocked # {} /\ Idle /\ kept' = None /\ closedHere' = TRUE
    /\ UNCHANGED <<booking, msgs, readTo, page, refusedHere, draft, made, left>>

RefusedAsBlocked ==
    /\ sending # None /\ ~made /\ blocked # {} /\ Idle /\ kept' = None /\ refusedHere' = TRUE
    /\ UNCHANGED <<booking, msgs, readTo, page, closedHere, draft, made, left>>
RefusedAsClosed ==
    /\ sending # None /\ ~made /\ blocked = {} /\ ~OpenForMessages /\ Idle /\ kept' = None /\ closedHere' = TRUE
    /\ UNCHANGED <<booking, msgs, readTo, page, refusedHere, draft, made, left>>
\* No answer, before or after it was made: the key is kept.
Sorry ==
    /\ sending # None /\ Idle
    /\ \/ UNCHANGED <<msgs, made>>
       \/ Posted /\ Room /\ Add(TRUE, sending) /\ made' = TRUE
    /\ UNCHANGED <<booking, readTo, page, closedHere, refusedHere, draft, kept, left>>

\* The message of a page that was left: made and answered, or made only, or refused or lost, which
\* nobody is told.
LeftSettles(x) ==
    /\ x \in left /\ left' = left \ {x}
    /\ \/ blocked = {} /\ OpenForMessages /\ Room /\ Add(TRUE, x) /\ draft' \in {draft, None}
       \/ UNCHANGED <<msgs, draft>>
    /\ UNCHANGED <<booking, readTo, page, closedHere, refusedHere, sending, kept, made>>

-----------------------------------------------------------------------------
Server == (\E s \in Status : Move(s)) \/ TheyBlock \/ \E x \in Text : TheyWrite(x)
Polls == PollThread \/ PollBooking
Writes ==
    \/ (\E x \in Text : Type(x)) \/ Send \/ Sent \/ RefusedAsBlocked \/ RefusedAsClosed \/ Sorry
    \/ \E x \in left : LeftSettles(x)
Next == Server \/ OpenThread \/ Leave \/ Polls \/ Block \/ Unblock \/ Writes

Spec == Init /\ [][Next]_vars
\* The thread is polled while it is open, the booking only while it waits for an answer.
FairSpec == Spec /\ WF_vars(PollThread) /\ WF_vars(seen = "requested" /\ PollBooking)

-----------------------------------------------------------------------------
\* Contact details sent before a booking was agreed are not on a page that knows it was cancelled,
\* though they were while it was agreed: "cancelling masks them again" (useMessages).
HiddenWhenShut == seen = "cancelled" /\ Shown.agreed => \A i \in 1 .. Shown.n : msgs[i].kind # "masked"

\* A composer that is closed for good is one the server would refuse for good: neither the page's
\* clock nor a refusal that can be lifted closes the conversation.
ClosedForGood == open /\ Closed => ~OpenForMessages

\* Every message that fits the page comes up on a thread left open, in the form the booking's
\* status now gives it, whatever the page knows of that status.
Behind == open /\ Shown # Answer
ThreadCatchesUp == Behind ~> ~Behind

\* "the newest 100 only" (useMessages): a thread up to date with the server ends with its newest.
ThreadNewest == Shown = Answer => Shown.n = Len(msgs)

\* "Read here: the server's receipt drops the Inbox's dot" (Conversation): a thread that is open and
\* up to date leaves nothing unread.
ReadDropsDot == open /\ Shown = Answer => Unread = {}
=============================================================================
