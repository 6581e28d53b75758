------------------------------- MODULE Reviews -------------------------------
(***************************************************************************)
(* The two reviews of a booking, blind until both are in or the 14 days    *)
(* are over (booking: routes.py, repository.py, jobs.py), the page that    *)
(* offers to write them, and the reviews on the page of the listing        *)
(* (catalog: handlers.py; Reviews.tsx).                                    *)
(***************************************************************************)
EXTENDS Naturals, FiniteSets

CONSTANT MaxPost \* bound: ratings each side sends

Side == {"renter", "owner"}
Other(s) == IF s = "renter" THEN "owner" ELSE "renter"

VARIABLES
    completed, closed, \* the booking is; the 14 days after its window are over
    written,           \* who has: outcome, renter_rating
    published,         \* reviews_published_at
    events,            \* rated events in the outbox and beyond, a counter for each side
    catalog,           \* whose came to catalog
    page,              \* of each side: what its page of the booking last showed of either's
    posts,             \* ratings on their way: [by, n]
    posted,
    knows              \* who has seen the other's

vars == <<completed, closed, written, published, events, catalog, page, posts, posted, knows>>
booking == <<completed, closed, written, published, events>>
pages == <<page, posts, posted, knows>>

TypeOK ==
    /\ completed \in BOOLEAN /\ closed \in BOOLEAN /\ published \in BOOLEAN
    /\ written \subseteq Side /\ events \in [Side -> 0 .. 1] /\ catalog \subseteq {s \in Side : events[s] > 0}
    /\ page \in [Side -> SUBSET Side] /\ posts \subseteq [by : Side, n : 1 .. MaxPost] /\ posted \in [Side -> 0 .. MaxPost]
    /\ knows \subseteq Side /\ (published => written # {})

Init ==
    /\ completed = FALSE /\ closed = FALSE /\ written = {} /\ published = FALSE /\ events = [s \in Side |-> 0]
    /\ catalog = {} /\ page = [s \in Side |-> {}] /\ posts = {} /\ posted = [s \in Side |-> 0]
    /\ knows = {}

\* Handed back, or a dispute settled: early, late, or after the 14 days.
Complete == ~completed /\ completed' = TRUE /\ UNCHANGED <<closed, written, published, events, pages, catalog>>
Close == ~closed /\ closed' = TRUE /\ UNCHANGED <<completed, written, published, events, pages, catalog>>

---------------------------------------------------------------------------
(* Booking. *)

\* publish_reviews: nothing the second time.
Publish(ws) ==
    IF published THEN UNCHANGED <<published, events>>
    ELSE published' = TRUE /\ events' = [s \in Side |-> IF s \in ws THEN events[s] + 1 ELSE events[s]]

\* check_can_rate and rate_renter: once each, of a completed booking, within the 14 days.
Takes(s) == completed /\ s \notin written /\ ~closed

\* rate, rate_renter, under the row's lock; a repeat under the same key is answered and changes nothing.
Rate(p) ==
    /\ p \in posts /\ posts' = posts \ {p}
    /\ IF Takes(p.by)
       THEN /\ written' = written \cup {p.by}
            /\ IF Other(p.by) \in written THEN Publish(written \cup {p.by}) ELSE UNCHANGED <<published, events>>
       ELSE UNCHANGED <<written, published, events>>
    /\ UNCHANGED <<completed, closed, page, posted, knows, catalog>>

\* reviews_due
Due == completed /\ ~published /\ written # {} /\ closed

\* The sweep: picks and publishes in one transaction, the row locked.
Sweep == Due /\ Publish(written) /\ UNCHANGED <<completed, closed, written, pages, catalog>>

\* Wrong on purpose: the owner is not kept blind.
ShowsOwner(s) == {w \in written : w = s \/ published \/ s = "owner"}

\* to_booking: one's own, and the other's once they are published.
Shows(s) == {w \in written : w = s \/ published}

---------------------------------------------------------------------------
(* The page of the booking. *)

ReadBooking(s) ==
    /\ page' = [page EXCEPT ![s] = Shows(s)] /\ knows' = (IF Other(s) \in Shows(s) THEN knows \cup {s} ELSE knows)
    /\ UNCHANGED <<booking, posts, posted, catalog>>

\* "Rate it" is offered until one's own is there; an answer may have been lost.
Post(s) ==
    /\ completed /\ s \notin page[s] /\ posted[s] < MaxPost
    /\ posted' = [posted EXCEPT ![s] = @ + 1] /\ posts' = posts \cup {[by |-> s, n |-> posted[s] + 1]}
    /\ UNCHANGED <<booking, page, knows, catalog>>

---------------------------------------------------------------------------
(* Catalog, and the page of the listing. *)

\* on_booking_rated, on_renter_rated: once each, in any order.
HearRated(s) ==
    /\ events[s] > 0 /\ s \notin catalog /\ catalog' = catalog \cup {s}
    /\ UNCHANGED <<booking, pages>>

\* The owner looks at the listing's page, which has the renter's.
ReadReviews ==
    /\ knows' = (IF "renter" \in catalog THEN knows \cup {"owner"} ELSE knows)
    /\ UNCHANGED <<booking, page, posts, posted, catalog>>

Next ==
    \/ Complete \/ Close \/ Sweep \/ ReadReviews
    \/ (\E s \in Side : ReadBooking(s) \/ Post(s) \/ HearRated(s)) \/ \E p \in posts : Rate(p)

Spec == Init /\ [][Next]_vars
\* The days pass, the sweep runs, and what is in the outbox comes to catalog (OutboxDelivers).
FairSpec == Spec /\ WF_vars(Sweep) /\ WF_vars(Close) /\ \A s \in Side : WF_vars(HearRated(s))

---------------------------------------------------------------------------
(* What is claimed of it. *)

\* "Neither side sees the other's review before writing their own" (publish_reviews): not by the page,
\* not by the listing's, and not because the end of the 14 days is read at two places.
BlindWhenWritten == [][\A s \in written' \ written : s \notin knows]_vars

\* Two ratings at the same moment, repeats, and a sweep at the end of the days: each review that is in
\* goes out once, and none goes out that is not.
OutOnce == \A s \in Side : events[s] <= 1 /\ (events[s] > 0 <=> published /\ s \in written)

\* Each review is written blind and goes out once.
WrittenBlind == []OutOnce /\ BlindWhenWritten

\* A review that was written comes to the listing and the profile, whatever the other side does.
Unheard == written \ catalog # {}
ComesOut == Unheard ~> ~Unheard
=============================================================================
