------------------------------- MODULE Claims -------------------------------
(***************************************************************************)
(* The claim of a late return: the owner's card on the page of the booking *)
(* (BookingExtras.tsx, LateReturn), staff's in the case (AdminCases.tsx,   *)
(* Claims), and booking's two handlers (support.py).  Answers get lost and *)
(* nothing here has an Idempotency-Key; two of staff have the case open.   *)
(***************************************************************************)
EXTENDS Naturals, Sequences, FiniteSets

CONSTANTS Staff, MaxSend, \* requests ever sent by the owner
          MaxDecide       \* and by staff

VARIABLES
    clock,   \* "before" the end, within a "day" of it, or "after"
    claims,  \* the rows: the status of each, by order
    notices, \* to the parties, in the order of the outbox: "filed", "confirmed", "rejected"
    page,    \* the owner's: the claims last read, the sheet, and whether a report is under way
    reports, \* reports on their way to booking: their numbers
    sent,
    desk,    \* of each of staff: the claims last read, and the decision under way
    toasts,  \* what each has been told of the outcome
    decisions, decided

vars == <<clock, claims, notices, page, reports, sent, desk, toasts, decisions, decided>>
Final == {"confirmed", "rejected"}
Status == {"open"} \cup Final

TypeOK ==
    /\ clock \in {"before", "day", "after"}
    /\ \A i \in DOMAIN claims : claims[i] \in Status
    /\ \A i \in DOMAIN notices : notices[i] \in {"filed"} \cup Final
    /\ page.sheet \in BOOLEAN /\ page.busy \in 0 .. MaxSend /\ Len(page.seen) <= Len(claims)
    /\ reports \subseteq 1 .. MaxSend /\ sent \in 0 .. MaxSend
    /\ \A s \in Staff : Len(desk[s].seen) <= Len(claims) /\ desk[s].busy \in {"no"} \cup Final
    /\ toasts \in [Staff -> SUBSET Final] /\ decided \in 0 .. MaxDecide
    /\ decisions \subseteq [who : Staff, is : Final]

Init ==
    /\ clock = "before" /\ claims = <<>> /\ notices = <<>> /\ reports = {} /\ sent = 0
    /\ page = [seen |-> <<>>, sheet |-> FALSE, busy |-> 0]
    /\ desk = [s \in Staff |-> [seen |-> <<>>, busy |-> "no"]] /\ toasts = [s \in Staff |-> {}]
    /\ decisions = {} /\ decided = 0

owner == <<page, reports, sent>>
staff == <<desk, toasts, decisions, decided>>
store == <<claims, notices>>

Tick ==
    /\ clock # "after" /\ clock' = (IF clock = "before" THEN "day" ELSE "after")
    /\ UNCHANGED <<store, owner, staff>>

---------------------------------------------------------------------------
(* The owner. *)

\* useClaims: read when the page is opened, looked at again, or a report has ended.
ReadClaims == page' = [page EXCEPT !.seen = claims] /\ UNCHANGED <<clock, store, reports, sent, staff>>

OpenSheet ==
    /\ clock = "day" /\ page.seen = <<>> /\ ~page.sheet /\ page' = [page EXCEPT !.sheet = TRUE]
    /\ UNCHANGED <<clock, store, reports, sent, staff>>

CloseSheet ==
    /\ page.sheet /\ page' = [page EXCEPT !.sheet = FALSE]
    /\ UNCHANGED <<clock, store, reports, sent, staff>>

SendReport ==
    /\ page.sheet /\ page.busy = 0 /\ sent < MaxSend
    /\ sent' = sent + 1 /\ reports' = reports \cup {sent + 1} /\ page' = [page EXCEPT !.busy = sent + 1]
    /\ UNCHANGED <<clock, store, staff>>

\* The answer, heard or lost: the sheet stays open but for a success; what was read before still stands.
Over(n, done) ==
  \E heard \in BOOLEAN :
    page' = IF page.busy # n THEN page ELSE [page EXCEPT !.busy = 0, !.sheet = @ /\ ~(heard /\ done)]

\* Wrong on purpose: another claim may be filed once the first is decided.
ReportLateReturnAgain(n) ==
    /\ n \in reports /\ reports' = reports \ {n}
    /\ IF clock = "day" /\ \A i \in DOMAIN claims : claims[i] # "open"
       THEN claims' = Append(claims, "open") /\ notices' = Append(notices, "filed")
       ELSE UNCHANGED store
    /\ Over(n, claims' # claims)
    /\ UNCHANGED <<clock, sent, staff>>

\* report_late_return, under the booking's lock.
ReportLateReturn(n) ==
    /\ n \in reports /\ reports' = reports \ {n}
    /\ IF clock = "day" /\ claims = <<>>
       THEN claims' = <<"open">> /\ notices' = Append(notices, "filed")
       ELSE UNCHANGED store
    /\ Over(n, claims' # claims)
    /\ UNCHANGED <<clock, sent, staff>>

\* No answer in time; the report may still be on its way.
GiveUp ==
    /\ page.busy # 0 /\ page' = [page EXCEPT !.busy = 0]
    /\ UNCHANGED <<clock, store, reports, sent, staff>>

---------------------------------------------------------------------------
(* Staff. *)

ReadCase(s) ==
    /\ desk' = [desk EXCEPT ![s].seen = claims]
    /\ UNCHANGED <<clock, store, owner, toasts, decisions, decided>>

Decide(s, d) ==
    /\ desk[s].busy = "no" /\ \E i \in DOMAIN desk[s].seen : desk[s].seen[i] = "open"
    /\ decided < MaxDecide /\ decided' = decided + 1
    /\ desk' = [desk EXCEPT ![s].busy = d] /\ decisions' = decisions \cup {[who |-> s, is |-> d]}
    /\ UNCHANGED <<clock, store, owner, toasts>>

MayBeDecided == claims # <<>> /\ claims[1] = "open"

\* decide_claim, under the claim's lock; then the answer, heard or lost; the case is read again after it.
DecideClaim(c) ==
    /\ c \in decisions /\ decisions' = decisions \ {c}
    /\ IF MayBeDecided
       THEN /\ claims' = [claims EXCEPT ![1] = c.is] /\ notices' = Append(notices, c.is)
            /\ \E heard \in {{c.is}, {}} : toasts' = [toasts EXCEPT ![c.who] = @ \cup heard]
       ELSE UNCHANGED <<store, toasts>>
    /\ desk' = [desk EXCEPT ![c.who].busy = "no"]
    /\ UNCHANGED <<clock, owner, decided>>

Next ==
    \/ Tick \/ ReadClaims \/ OpenSheet \/ CloseSheet \/ SendReport \/ GiveUp
    \/ (\E n \in reports : ReportLateReturn(n)) \/ (\E c \in decisions : DecideClaim(c))
    \/ \E s \in Staff : ReadCase(s) \/ \E d \in Final : Decide(s, d)

Spec == Init /\ [][Next]_vars

---------------------------------------------------------------------------
(* What is claimed of it. *)

\* However often the owner sends it, after lost answers and after staff have decided, one late return
\* is claimed of a booking.
OneClaim == Len(claims) <= 1

\* Nobody of staff hears that their decision counts while another's does, and the renter and the owner
\* are told one outcome, the one that is recorded.
OutcomeIsOne ==
    /\ \A s \in Staff : \A d \in toasts[s] : claims = <<d>>
    /\ Cardinality({i \in DOMAIN notices : notices[i] \in Final}) <= 1
    /\ \A i \in DOMAIN notices : notices[i] \in Final => claims = <<notices[i]>>
=============================================================================
