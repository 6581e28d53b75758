-------------------------------- MODULE Bell --------------------------------
(***************************************************************************)
(* The bell and its page (web app/screens/Notifications.tsx; useNotices    *)
(* in data/repo.ts; routes.py of notifications): the count is asked for    *)
(* again and again, and the page, once open for a moment, marks everything *)
(* as read.                                                                *)
(***************************************************************************)
EXTENDS Naturals

CONSTANTS MaxNote, \* notices that ever come
          MaxMark, \* requests that mark, at a time
          MaxPress \* times the button is pressed

VARIABLES
    come, unread, \* at the server: notices so far, and those without read_at
    count,        \* the unread of the app's last answer
    fetch,        \* that answer under way: "none", "asked", or the count read, "fresh" if `marked` then
    open,         \* the page is
    timer,        \* runs
    marks,        \* requests under way: [by, at], "free" when there is none
    failed,       \* one of them did
    marked,       \* one has marked, and no count read since has arrived
    slipped,      \* a notice came just then
    pressed       \* how often the button was

vars == <<come, unread, count, fetch, open, timer, marks, failed, marked, slipped, pressed>>
server == <<come, unread>>
ghosts == <<failed, marked, slipped>>

Free == [by |-> "nobody", at |-> "free"]
Note == 0 .. MaxNote

TypeOK ==
    /\ come \in Note /\ unread \in 0 .. come /\ count \in 0 .. come
    /\ fetch \in [at : {"none", "asked"}, n : {0}] \cup [at : {"read", "fresh"}, n : Note]
    /\ open \in BOOLEAN /\ (timer => open /\ count > 0)
    /\ marks \in [1 .. MaxMark -> {Free} \cup [by : {"timer", "button"}, at : {"sent", "done", "failed"}]]
    /\ failed \in BOOLEAN /\ marked \in BOOLEAN /\ slipped \in BOOLEAN /\ pressed \in 0 .. MaxPress

NoFetch == [at |-> "none", n |-> 0]
Asked == [at |-> "asked", n |-> 0]

Init ==
    /\ come = 0 /\ unread = 0 /\ count = 0 /\ fetch = NoFetch /\ open = FALSE /\ timer = FALSE
    /\ marks = [i \in 1 .. MaxMark |-> Free] /\ failed = FALSE
    /\ marked = FALSE /\ slipped = FALSE /\ pressed = 0

Notify ==
    /\ come < MaxNote /\ come' = come + 1 /\ unread' = unread + 1
    /\ slipped' = (slipped \/ marked)
    /\ UNCHANGED <<count, fetch, open, timer, marks, failed, marked, pressed>>

\* Every minute, and when the window is looked at; one at a time.
Poll ==
    /\ fetch = NoFetch /\ fetch' = Asked
    /\ UNCHANGED <<server, count, open, timer, marks, ghosts, pressed>>

Read ==
    /\ fetch = Asked /\ fetch' = [at |-> IF marked THEN "fresh" ELSE "read", n |-> unread]
    /\ UNCHANGED <<server, count, open, timer, marks, ghosts, pressed>>

\* Wrong on purpose: the timer is set when the page opens and at no other time.
ArrivesUnheard ==
    /\ fetch.at \in {"read", "fresh"} /\ fetch' = NoFetch /\ count' = fetch.n
    /\ marked' = (marked /\ fetch.at = "read")
    /\ timer' = (timer /\ fetch.n > 0)
    /\ UNCHANGED <<server, open, marks, failed, slipped, pressed>>

\* The effect of the page runs again for another count, and for no other reason.
Arrives ==
    /\ fetch.at \in {"read", "fresh"} /\ fetch' = NoFetch /\ count' = fetch.n
    /\ marked' = (marked /\ fetch.at = "read")
    /\ timer' = IF fetch.n = count THEN timer ELSE open /\ fetch.n > 0
    /\ UNCHANGED <<server, open, marks, failed, slipped, pressed>>

Open ==
    /\ ~open /\ open' = TRUE /\ timer' = (count > 0)
    /\ UNCHANGED <<server, count, fetch, marks, ghosts, pressed>>

Leave ==
    /\ open /\ open' = FALSE /\ timer' = FALSE
    /\ UNCHANGED <<server, count, fetch, marks, ghosts, pressed>>

Send(by) ==
    \E i \in 1 .. MaxMark :
      /\ marks[i] = Free /\ \A j \in 1 .. i - 1 : marks[j] # Free
      /\ marks' = [marks EXCEPT ![i] = [by |-> by, at |-> "sent"]]

Fire == timer /\ timer' = FALSE /\ Send("timer") /\ UNCHANGED <<server, count, fetch, open, ghosts, pressed>>

\* "Mark all as read".
Press ==
    /\ open /\ count > 0 /\ pressed < MaxPress /\ pressed' = pressed + 1 /\ Send("button")
    /\ UNCHANGED <<server, count, fetch, open, timer, ghosts>>

\* Wrong on purpose: takes off as many as the page shows, not what is there.
MarkReadShown(i) ==
    /\ marks[i].at = "sent"
    /\ unread' = unread - count /\ marked' = TRUE
    /\ marks' = [marks EXCEPT ![i].at = "done"]
    /\ UNCHANGED <<come, count, fetch, open, timer, failed, slipped, pressed>>

\* mark_read, without ids: everything of theirs.
MarkRead(i) ==
    /\ marks[i].at = "sent"
    /\ unread' = 0 /\ marked' = TRUE
    /\ marks' = [marks EXCEPT ![i].at = "done"]
    /\ UNCHANGED <<come, count, fetch, open, timer, failed, slipped, pressed>>

\* It fails, done or not.
Fails(i) ==
    /\ marks[i].at \in {"sent", "done"}
    /\ marks' = [marks EXCEPT ![i].at = "failed"] /\ failed' = TRUE
    /\ UNCHANGED <<server, count, fetch, open, timer, marked, slipped, pressed>>

\* The count is asked for again, an answer under way given up for it; not after the button's failure.
Settles(i) ==
    /\ marks[i].at \in {"done", "failed"}
    /\ marks' = [marks EXCEPT ![i] = Free]
    /\ fetch' = IF marks[i] = [by |-> "button", at |-> "failed"] THEN fetch ELSE Asked
    /\ UNCHANGED <<server, count, open, timer, ghosts, pressed>>

Next ==
    \/ Notify \/ Poll \/ Read \/ Arrives \/ Open \/ Leave \/ Fire \/ Press
    \/ \E i \in 1 .. MaxMark : MarkRead(i) \/ Fails(i) \/ Settles(i)

Spec == Init /\ [][Next]_vars

\* Timers fire and requests end.
FairSpec ==
    /\ Spec /\ WF_vars(Poll) /\ WF_vars(Read) /\ WF_vars(Arrives) /\ WF_vars(Fire)
    /\ \A i \in 1 .. MaxMark : WF_vars(MarkRead(i) \/ Fails(i)) /\ WF_vars(Settles(i))

---------------------------------------------------------------------------
(* What is claimed of it. *)

\* Whoever stays on the page sees the bell go empty, whatever comes meanwhile, but for two cases: a
\* request failed, or a notice came just after one (the count may then be the same as before, and the
\* page does not notice).
Lit == open /\ count > 0
Emptied == count = 0 \/ ~open \/ failed \/ slipped
BellEmpties == Lit ~> Emptied

\* "opening the list marks what is on it as read" (Notifications.tsx): without the second case.
OpeningMarks == (open /\ count > 0) ~> (count = 0 \/ ~open \/ failed)
=============================================================================
