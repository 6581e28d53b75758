------------------------------ MODULE Booking ------------------------------
(***************************************************************************)
(* The booking service: its rows, the requests that create them, and       *)
(* everything that moves a row along its lifecycle.                        *)
(*                                                                         *)
(* Creating a booking is not one step.  POST /bookings reads the           *)
(* idempotency key, the caller's limits, the match, and the caller's       *)
(* standing each in a session of its own, inserts in a transaction, and    *)
(* asks payments for an intent after the commit.  Each of those is an      *)
(* action here, so whatever another request, a person, a sweep or an       *)
(* event does in between is a behaviour of the model.                      *)
(*                                                                         *)
(* A booking is named by the request that inserted it (new_id is fresh),   *)
(* and the fields fixed at creation are read from that request's Body.     *)
(* Time is an integer clock; the settings are lengths in its unit.         *)
(***************************************************************************)
EXTENDS Integers, FiniteSets, Lifecycle

CONSTANTS
  People, Listings,
  Requests,          \* calls of POST /bookings and POST /bookings/{id}/extend
  Body,              \* what each request asks for
  Owner,             \* the owner of each listing
  Instant,           \* listings booked without asking the owner
  Policy,            \* cancellation policy of each listing
  Amount,            \* price of a booking, in minor units
  PaymentTimeout, AnswerWithin, AutoCompleteAfter, StartEarly,  \* settings
  MaxUnpaid, MaxRequestsPerDay, MinLead,
  NoShowGrace, NoShowReportable, Day, Week,
  MayModerate, MayRemove, MayBlock, \* who may be suspended, taken down, blocked
  MaxTime,           \* bound: the clock stops here
  None               \* no key, no parent booking, no answer

Null == -1           \* a NULL time or amount

Windowed(q) == q.start \in Nat /\ q.end \in Nat /\ q.start < q.end

ASSUME PeopleAssumption ==
  /\ Owner \in [Listings -> People]
  /\ Instant \subseteq Listings
  /\ Policy \in [Listings -> {"flexible", "moderate", "strict"}]
  /\ MayModerate \subseteq People /\ MayRemove \subseteq Listings
  /\ MayBlock \subseteq People \X People

\* An extension asks, as the same renter, for the time straight after the
\* booking it extends (support.extend builds the body).
ASSUME BodyAssumption ==
  /\ None \notin Requests
  /\ \A r \in Requests :
       /\ Body[r].by \in People /\ Body[r].listing \in Listings
       /\ Windowed(Body[r])
       /\ Body[r].by # Owner[Body[r].listing]
       /\ Body[r].extends \in Requests =>
            LET p == Body[Body[r].extends] IN
              /\ Body[r].by = p.by /\ Body[r].listing = p.listing
              /\ Body[r].start = p.end

ASSUME LengthsAssumption ==
  /\ {Amount, PaymentTimeout, AnswerWithin, AutoCompleteAfter, StartEarly,
      MaxUnpaid, MaxRequestsPerDay, MinLead, NoShowGrace, NoShowReportable,
      Day, Week, MaxTime} \subseteq Nat
  /\ Amount > 0

VARIABLES
  now,
  row,        \* the bookings table
  pc,         \* how far each request's handler has got
  got,        \* the booking a request's handler holds in memory
  pay,        \* what payments has for a booking (external)
  inbox,      \* events on booking's queue, handled in any order
  seen,       \* the status a running on_authorised read before it locked the row
  suspended,  \* booking's own table of suspended people
  blocks,     \* pairs <<blocker, blocked>>
  banned,     \* people the catalog has suspended (external)
  live        \* listings the catalog offers (external)

vars == <<now, row, pc, got, pay, inbox, seen, suspended, blocks, banned, live>>

request  == <<pc, got>>
external == <<pay, inbox, seen, suspended, blocks, banned, live>>

RowStatus == Status \cup {"absent"}

NoRow == [status |-> "absent", created |-> Null, expires |-> Null,
          refund |-> Null, noShow |-> "nobody"]

Pending == {"awaiting_payment", "requested"}

Exists(b) == row[b].status # "absent"

Overlap(p, q) == /\ p.listing = q.listing
                 /\ p.start < q.end /\ q.start < p.end

\* The exclusion constraint's predicate, which window_taken asks for first.
WindowTaken(r) ==
  \E b \in Requests \ {r} : row[b].status \in HOLDING /\ Overlap(Body[b], Body[r])

SameKey(b, r) == /\ Body[r].key # None
                 /\ Body[b].key = Body[r].key /\ Body[b].by = Body[r].by

ByKey(r) == {b \in Requests : Exists(b) /\ SameKey(b, r)}

\* The fingerprint covers what was asked for, not which booking it extends.
SameRequest(b, r) == /\ Body[b].listing = Body[r].listing
                     /\ Body[b].start = Body[r].start /\ Body[b].end = Body[r].end

Event(kind, of) == [kind |-> kind, of |-> of]

---------------------------------------------------------------------------
Init ==
  /\ now = 0
  /\ row = [r \in Requests |-> NoRow]
  /\ pc = [r \in Requests |-> IF Body[r].extends = None THEN "key" ELSE "extend"]
  /\ got = [r \in Requests |-> None]
  /\ pay = [r \in Requests |-> "none"]
  /\ seen = [r \in Requests |-> "unread"]
  /\ inbox = {} /\ suspended = {} /\ blocks = {} /\ banned = {}
  /\ live = Listings

Goto(r, where) == pc' = [pc EXCEPT ![r] = where]

---------------------------------------------------------------------------
(* Creating a booking. *)

\* extend reads the parent without locking it, then creates like any request.
Extend(r) ==
  LET p == Body[r].extends IN
  /\ pc[r] = "extend"
  /\ p \in Requests /\ Exists(p)
  /\ Goto(r, IF row[p].status \in {"accepted", "active"} /\ now < Body[p].end
               THEN "key" ELSE "refused")
  /\ UNCHANGED <<now, row, got, external>>

\* The answer for a booking the same key made before: a different body is
\* refused, and the card step is offered again while it still waits for it.
Replay(r, b) ==
  /\ got' = [got EXCEPT ![r] = b]
  /\ Goto(r, IF ~SameRequest(b, r) THEN "refused"
             ELSE IF row[b].status = "awaiting_payment" THEN "pay" ELSE "done")

LookUpKey(r) ==
  /\ pc[r] = "key"
  /\ \/ \E b \in ByKey(r) : Replay(r, b)
     \/ ByKey(r) = {} /\ Goto(r, "limits") /\ UNCHANGED got
  /\ UNCHANGED <<now, row, external>>

Unpaid(p) == {b \in Requests : row[b].status = "awaiting_payment" /\ Body[b].by = p}

AskedToday(p) ==
  {b \in Requests : Exists(b) /\ Body[b].by = p /\ row[b].created >= now - Day}

CheckLimits(r) ==
  /\ pc[r] = "limits"
  /\ Goto(r, IF /\ Cardinality(Unpaid(Body[r].by)) < MaxUnpaid
                /\ Cardinality(AskedToday(Body[r].by)) < MaxRequestsPerDay
               THEN "match" ELSE "refused")
  /\ UNCHANGED <<now, row, got, external>>

\* match_for_offer: the listing is offered and the start leaves the owner time
\* to answer.  It also refuses a window it sees taken, from a reader that may
\* be behind: so a taken window may or may not be noticed here.
MatchOffer(r) ==
  /\ pc[r] = "match"
  /\ LET q == Body[r]
         lead == IF q.extends = None THEN MinLead ELSE 0
         offered == q.listing \in live /\ q.start >= now + lead
     IN \/ offered /\ Goto(r, "standing")
        \/ (~offered \/ WindowTaken(r)) /\ Goto(r, "refused")
  /\ UNCHANGED <<now, row, got, external>>

\* Blocked either way, suspended, or an identity check still owed (which
\* bookings need one is left open): read in one session, before the insert's.
CheckStanding(r) ==
  /\ pc[r] = "standing"
  /\ LET q == Body[r]
         o == Owner[q.listing]
         clear == /\ <<q.by, o>> \notin blocks /\ <<o, q.by>> \notin blocks
                  /\ q.by \notin suspended
     IN \/ clear /\ Goto(r, "insert")
        \/ Goto(r, "refused")
  /\ UNCHANGED <<now, row, got, external>>

\* Wrong on purpose: asks the owner before the card is held.
NewRowAsked == [NoRow EXCEPT !.status = "requested", !.created = now,
                             !.expires = now + PaymentTimeout]

NewRow == [NoRow EXCEPT !.status = "awaiting_payment", !.created = now,
                        !.expires = now + PaymentTimeout]

\* Wrong on purpose: the key is looked up before the insert and not again.
InsertKeyUnchecked(r) ==
  /\ pc[r] = "insert"
  /\ \/ WindowTaken(r) /\ Goto(r, "taken") /\ UNCHANGED <<row, got>>
     \/ /\ ~WindowTaken(r)
        /\ row' = [row EXCEPT ![r] = NewRow]
        /\ got' = [got EXCEPT ![r] = r]
        /\ Goto(r, "pay")
  /\ UNCHANGED <<now, external>>

\* One transaction: the listing's lock, the friendly check, the insert under
\* the exclusion and the key constraints.  "taken" is the answer of the check,
\* given before the key constraint is ever asked; only when the window is free
\* does a key already used lead to a replay.
Insert(r) ==
  /\ pc[r] = "insert"
  /\ \/ /\ WindowTaken(r)
        /\ Goto(r, "taken")
        /\ UNCHANGED <<row, got>>
     \/ /\ ~WindowTaken(r)
        /\ \E b \in ByKey(r) : Replay(r, b)
        /\ UNCHANGED row
     \/ /\ ~WindowTaken(r) /\ ByKey(r) = {}
        /\ row' = [row EXCEPT ![r] = NewRow]
        /\ got' = [got EXCEPT ![r] = r]
        /\ Goto(r, "pay")
  /\ UNCHANGED <<now, external>>

WithIntent(b) == IF pay[b] = "none" THEN [pay EXCEPT ![b] = "created"] ELSE pay

\* _with_payment, for the row this handler read or wrote some time ago.
StartPayment(r) ==
  LET b == got[r] IN
  /\ pc[r] = "pay"
  /\ \/ pay' = WithIntent(b) /\ Goto(r, "done")
     \/ pay' \in {pay, WithIntent(b)} /\ Goto(r, "refused")   \* a 5xx
     \/ pay[b] = "none" /\ UNCHANGED pay /\ Goto(r, "release")    \* a refusal
  /\ UNCHANGED <<now, row, got, inbox, seen, suspended, blocks, banned, live>>

\* Wrong on purpose: trusts the status read before payments answered.
ReleaseUnpayableStale(r) ==
  /\ pc[r] = "release"
  /\ row' = [row EXCEPT ![got[r]].status = "payment_failed", ![got[r]].expires = Null]
  /\ Goto(r, "refused")
  /\ UNCHANGED <<now, got, external>>

\* A definite refusal releases the window, unless the row moved meanwhile.
ReleaseUnpayable(r) ==
  LET b == got[r] IN
  /\ pc[r] = "release"
  /\ row' = IF row[b].status = "awaiting_payment"
              THEN [row EXCEPT ![b] = [@ EXCEPT !.status = "payment_failed", !.expires = Null]]
              ELSE row
  /\ Goto(r, "refused")
  /\ UNCHANGED <<now, got, external>>

\* GET /bookings/{id}/payment: the card step again.
PayAgain(b) ==
  /\ row[b].status = "awaiting_payment"
  /\ pay' = WithIntent(b)
  /\ UNCHANGED <<now, row, request, inbox, seen, suspended, blocks, banned, live>>

Create(r) ==
  \/ Extend(r) \/ LookUpKey(r) \/ CheckLimits(r) \/ MatchOffer(r)
  \/ CheckStanding(r) \/ Insert(r) \/ StartPayment(r) \/ ReleaseUnpayable(r)

---------------------------------------------------------------------------
(* People moving a booking along. *)

\* Owners do not see a booking until the card is held.
Sees(role, b) == /\ Exists(b)
                 /\ role = "owner" =>
                      row[b].status \notin {"awaiting_payment", "payment_failed"}

\* Wrong on purpose: leaves lapsing to the sweep.
LapsedOnceSwept(b) == row[b].status = "expired"

Lapsed(b) == row[b].expires # Null /\ row[b].expires <= now

NoShowOpens(role, b) ==
  Body[b].start + (IF role = "owner" THEN NoShowGrace ELSE 0)

TimeAllows(action, role, b) ==
  /\ action = "cancel" => now < Body[b].start
  /\ action = "dispute" => now >= Body[b].start \/ row[b].status = "active"
  /\ action = "start" => now >= Body[b].start - StartEarly
  /\ action = "no_show" => /\ NoShowOpens(role, b) <= now
                           /\ now <= Body[b].start + NoShowReportable

Charged(b) == row[b].status \in {"accepted", "active"}

\* Python's round(): a half goes to the even neighbour.
HalfOf(a) == LET h == a \div 2 IN IF a % 2 = 1 /\ h % 2 = 1 THEN h + 1 ELSE h

PolicyRefund(role, b) ==
  LET policy == Policy[Body[b].listing]
      ahead  == Body[b].start - now
  IN IF role = "owner" \/ policy = "flexible" THEN Amount
     ELSE IF ahead >= (IF policy = "moderate" THEN Day ELSE Week) THEN Amount
     ELSE IF policy = "moderate" \/ ahead >= Day THEN HalfOf(Amount)
     ELSE 0

\* Wrong on purpose: the no-show refund goes by who reported it.
RefundOfReporter(action, role, b) ==
  IF action = "no_show" THEN (IF role = "owner" THEN Amount ELSE 0)
  ELSE IF action = "cancel" /\ Charged(b) THEN PolicyRefund(role, b)
  ELSE row[b].refund

\* A no-show refunds everything or nothing; any other cancellation what the
\* policy says, and nothing is recorded when nothing was charged.
RefundOf(action, role, b) ==
  IF action = "no_show" THEN (IF role = "requester" THEN Amount ELSE 0)
  ELSE IF action = "cancel" /\ Charged(b) THEN PolicyRefund(role, b)
  ELSE row[b].refund

Missing(role) == IF role = "requester" THEN "owner" ELSE "renter"

Extensions(b) ==
  {e \in Requests : /\ Body[e].extends = b
                    /\ row[e].status \in {"awaiting_payment", "requested", "accepted"}}

\* Wrong on purpose: a confirmed extension ends like a waiting one.
EndedExtensionNoRefund(e) ==
  [row[e] EXCEPT !.status = IF @ = "accepted" THEN "cancelled" ELSE "declined",
                 !.expires = Null]

EndedExtension(e) ==
  IF row[e].status = "accepted"
    THEN [row[e] EXCEPT !.status = "cancelled", !.refund = Amount, !.expires = Null]
    ELSE [row[e] EXCEPT !.status = "declined", !.expires = Null]

\* _transition, under the row's lock, with _end_extensions when it cancels.
Transition(action, role, b) ==
  LET to == TRANSITIONS[action].to
      moved == [row[b] EXCEPT
                  !.status = to, !.expires = Null,
                  !.refund = RefundOf(action, role, b),
                  !.noShow = IF action = "no_show" THEN Missing(role) ELSE row[b].noShow]
      ended == IF to = "cancelled" THEN Extensions(b) ELSE {}
  IN /\ Sees(role, b)
     /\ ~Lapsed(b)
     /\ CanAct(action, row[b].status, role)
     /\ TimeAllows(action, role, b)
     /\ row' = [e \in Requests |-> IF e = b THEN moved
                                   ELSE IF e \in ended THEN EndedExtension(e)
                                   ELSE row[e]]
     /\ UNCHANGED <<now, request, external>>

\* support.settle, reached by an accepted offer or a staff resolution.
Settle(b, refund) ==
  /\ row[b].status = "disputed"
  /\ row' = [row EXCEPT ![b] = [@ EXCEPT
       !.status = IF refund = Amount THEN "cancelled" ELSE "completed",
       !.refund = IF refund # 0 THEN refund ELSE row[b].refund]]
  /\ UNCHANGED <<now, request, external>>

---------------------------------------------------------------------------
(* The sweeps: a batch of due rows each, whichever are not locked. *)

Due(b) == row[b].status \in Pending /\ row[b].expires # Null /\ row[b].expires <= now

\* Wrong on purpose: a booking nobody handed over is left alone.
FinishedActive(b) == /\ row[b].status = "active"
                     /\ Body[b].end <= now - AutoCompleteAfter

Finished(b) == /\ row[b].status \in {"accepted", "active"}
               /\ Body[b].end <= now - AutoCompleteAfter

Sweep(batch, to) ==
  /\ row' = [b \in Requests |->
       IF b \in batch THEN [row[b] EXCEPT !.status = to, !.expires = Null]
                      ELSE row[b]]
  /\ UNCHANGED <<now, request, external>>

Expire(batch) == batch # {} /\ (\A b \in batch : Due(b)) /\ Sweep(batch, "expired")

AutoComplete(batch) ==
  batch # {} /\ (\A b \in batch : Finished(b)) /\ Sweep(batch, "completed")

---------------------------------------------------------------------------
(* Events: each is applied once (Outbox shows why), in any order. *)

Receive(e) == e \in inbox /\ inbox' = inbox \ {e}

\* Wrong on purpose: a full day to answer, whenever the window starts.
AnswerDeadlineFull(b) == now + AnswerWithin

AnswerDeadline(b) ==
  IF now + AnswerWithin < Body[b].start THEN now + AnswerWithin ELSE Body[b].start

WithResult(b, to) ==
  [row[b] EXCEPT !.status = to,
                 !.expires = IF to = "requested" THEN AnswerDeadline(b) ELSE Null]

\* apply(): a result for a booking that moved on is dropped.
Apply(b, action, status) ==
  row' = IF Applies(action, status)
           THEN [row EXCEPT ![b] = WithResult(b, SYSTEM[action].to)]
           ELSE row

HeldAction(b) ==
  IF Body[b].listing \in Instant THEN "authorised_instant" ELSE "authorised"

\* on_authorised loads the row first, to see whether it books instantly.
ReadAuthorised(b) ==
  /\ Event("authorised", b) \in inbox
  /\ seen[b] = "unread"
  /\ seen' = [seen EXCEPT ![b] = row[b].status]
  /\ UNCHANGED <<now, row, request, pay, inbox, suspended, blocks, banned, live>>

\* Wrong on purpose: a held card brings a booking back without the constraint.
OnAuthorisedUnconstrained(b) ==
  /\ seen[b] # "unread"
  /\ seen' = [seen EXCEPT ![b] = "unread"]
  /\ Apply(b, HeldAction(b), seen[b])
  /\ Receive(Event("authorised", b))
  /\ UNCHANGED <<now, request, pay, suspended, blocks, banned, live>>

\* Then apply() locks the row.  The session has it already, and get with FOR
\* UPDATE does not refresh it (no populate_existing), so what is tested is the
\* status read before the lock.  The exclusion constraint guards the update:
\* when the window is gone the transaction rolls back, and the event comes again.
OnAuthorised(b) ==
  /\ seen[b] # "unread"
  /\ seen' = [seen EXCEPT ![b] = "unread"]
  /\ IF Applies(HeldAction(b), seen[b]) /\ WindowTaken(b)
       THEN UNCHANGED <<row, inbox>>
       ELSE Apply(b, HeldAction(b), seen[b]) /\ Receive(Event("authorised", b))
  /\ UNCHANGED <<now, request, pay, suspended, blocks, banned, live>>

OnFailed(b) ==
  /\ Receive(Event("failed", b))
  /\ Apply(b, "payment_failed", row[b].status)
  /\ UNCHANGED <<now, request, pay, seen, suspended, blocks, banned, live>>

\* Wrong on purpose: ends the confirmed bookings of a listing with the requests.
DeclineAll(S) ==
  row' = [b \in Requests |->
    IF b \in S /\ row[b].status \in Pending \cup {"accepted", "active"}
      THEN [row[b] EXCEPT !.status = SYSTEM["listing_removed"].to, !.expires = Null]
      ELSE row[b]]

DeclinePending(S) ==
  row' = [b \in Requests |->
    IF b \in S /\ Applies("listing_removed", row[b].status)
      THEN [row[b] EXCEPT !.status = SYSTEM["listing_removed"].to, !.expires = Null]
      ELSE row[b]]

OnListingRemoved(l) ==
  /\ Receive(Event("removed", l))
  /\ DeclinePending({b \in Requests : Body[b].listing = l})
  /\ UNCHANGED <<now, request, pay, seen, suspended, blocks, banned, live>>

OnSuspended(p) ==
  /\ Receive(Event("suspended", p))
  /\ suspended' = suspended \cup {p}
  /\ DeclinePending({b \in Requests : Body[b].by = p})
  /\ UNCHANGED <<now, request, pay, seen, blocks, banned, live>>

OnReinstated(p) ==
  /\ Receive(Event("reinstated", p))
  /\ suspended' = suspended \ {p}
  /\ UNCHANGED <<now, row, request, pay, seen, blocks, banned, live>>

Block(pair) ==
  /\ blocks' \in {blocks \cup {pair}, blocks \ {pair}} /\ blocks' # blocks
  /\ UNCHANGED <<now, row, request, pay, inbox, seen, suspended, banned, live>>

---------------------------------------------------------------------------
(* The services around it, as far as booking can tell. *)

\* Payments announces a held card once per intent, and a declined capture
\* only of a booking that was accepted (of one cancelled since, booking would
\* drop it).
CardHeld(b) ==
  /\ pay[b] = "created"
  /\ pay' = [pay EXCEPT ![b] = "authorised"]
  /\ inbox' = inbox \cup {Event("authorised", b)}
  /\ UNCHANGED <<now, row, request, seen, suspended, blocks, banned, live>>

CaptureDeclined(b) ==
  /\ pay[b] = "authorised"
  /\ row[b].status \in {"accepted", "active", "completed", "disputed"}
  /\ pay' = [pay EXCEPT ![b] = "declined"]
  /\ inbox' = inbox \cup {Event("failed", b)}
  /\ UNCHANGED <<now, row, request, seen, suspended, blocks, banned, live>>

Remove(l) ==
  /\ l \in live
  /\ live' = live \ {l}
  /\ inbox' = inbox \cup {Event("removed", l)}
  /\ UNCHANGED <<now, row, request, pay, seen, suspended, blocks, banned>>

\* A suspension takes down what the person lists, and tells booking.
Suspend(p) ==
  LET theirs == {l \in live : Owner[l] = p} IN
  /\ p \notin banned
  /\ banned' = banned \cup {p}
  /\ live' = live \ theirs
  /\ inbox' = inbox \cup {Event("removed", l) : l \in theirs}
                    \cup {Event("suspended", p)}
  /\ UNCHANGED <<now, row, request, pay, seen, suspended, blocks>>

Reinstate(p) ==
  /\ p \in banned
  /\ banned' = banned \ {p}
  /\ inbox' = inbox \cup {Event("reinstated", p)}
  /\ UNCHANGED <<now, row, request, pay, seen, suspended, blocks, live>>

Tick ==
  /\ now < MaxTime
  /\ now' = now + 1
  /\ UNCHANGED <<row, request, external>>

---------------------------------------------------------------------------
Moves ==
  \/ \E b \in Requests, action \in Action, role \in Role : Transition(action, role, b)
  \/ \E b \in Requests, refund \in 0..Amount : Settle(b, refund)
  \/ \E batch \in SUBSET Requests : Expire(batch) \/ AutoComplete(batch)

Events ==
  \/ \E b \in Requests : ReadAuthorised(b) \/ OnAuthorised(b) \/ OnFailed(b)
  \/ \E l \in Listings : OnListingRemoved(l)
  \/ \E p \in People : OnSuspended(p) \/ OnReinstated(p)

World ==
  \/ \E b \in Requests : PayAgain(b) \/ CardHeld(b) \/ CaptureDeclined(b)
  \/ \E pair \in MayBlock : Block(pair)
  \/ \E l \in MayRemove : Remove(l)
  \/ \E p \in MayModerate : Suspend(p) \/ Reinstate(p)
  \/ Tick

Next == (\E r \in Requests : Create(r)) \/ Moves \/ Events \/ World

Spec == Init /\ [][Next]_vars

\* The clock runs and every replica's sweep comes round (jittered sleep, then
\* sweep_once); SKIP LOCKED may pass over a row but not for ever.
Fairness ==
  /\ WF_vars(Tick)
  /\ \A b \in Requests :
       /\ WF_vars(\E batch \in SUBSET Requests : b \in batch /\ Expire(batch))
       /\ WF_vars(\E batch \in SUBSET Requests : b \in batch /\ AutoComplete(batch))

FairSpec == Spec /\ Fairness

---------------------------------------------------------------------------
(* What is claimed of it. *)

Row == [status : RowStatus, created : Nat \cup {Null}, expires : Nat \cup {Null},
        refund : (0..Amount) \cup {Null}, noShow : {"nobody", "owner", "renter"}]

PC == {"extend", "key", "limits", "match", "standing", "insert", "pay", "release",
       "done", "refused", "taken"}

EventsOf == [kind : {"authorised", "failed"}, of : Requests]
           \cup [kind : {"removed"}, of : Listings]
           \cup [kind : {"suspended", "reinstated"}, of : People]

\* Every variable keeps its type.
TypeOK ==
  /\ now \in Nat
  /\ row \in [Requests -> Row]
  /\ pc \in [Requests -> PC]
  /\ got \in [Requests -> Requests \cup {None}]
  /\ pay \in [Requests -> {"none", "created", "authorised", "declined"}]
  /\ inbox \subseteq EventsOf
  /\ seen \in [Requests -> RowStatus \cup {"unread"}]
  /\ suspended \subseteq People /\ banned \subseteq People
  /\ blocks \subseteq People \X People
  /\ live \subseteq Listings

Unsold == {"absent", "declined", "cancelled", "expired", "payment_failed"}

\* No hour of a listing is sold twice: two bookings that overlap are never
\* both alive or used, whatever creations, sweeps, late payment results and
\* listing removals interleave (ADR 0004, repository.window_taken).
NoDoubleBooking ==
  \A a, b \in Requests :
    a # b /\ Overlap(Body[a], Body[b]) =>
      row[a].status \in Unsold \/ row[b].status \in Unsold

\* One Idempotency-Key makes at most one booking, however its retries race
\* (uq_bookings_requester_idempotency, routes.create).
OneBookingPerKey ==
  \A a, b \in Requests : a # b /\ SameKey(a, b) => ~(Exists(a) /\ Exists(b))

\* A booking carries a deadline exactly while it waits for the card or for the
\* owner: the sweep can always end a wait, and no deadline left behind blocks
\* a later step (expires_at is tested before every action in _transition).
DeadlineWhilePending ==
  \A b \in Requests : row[b].status \in Pending <=> row[b].expires # Null

\* A request the owner has to answer lapses before its window starts, however
\* late the card was held (handlers.answer_deadline).
AnsweredBeforeStart ==
  \A b \in Requests :
    row[b].status = "requested" => row[b].expires <= Body[b].start

\* Together: every wait has an end, and the owner's comes before the rental.
DeadlinesHold == DeadlineWhilePending /\ AnsweredBeforeStart

Worked == {"requested", "accepted", "active", "completed", "disputed"}

\* A booking reaches its owner, and everything after, only once the card was
\* held and booking heard so, exactly once (FL-15).
CardHeldFirst ==
  \A b \in Requests : row[b].status \in Worked =>
    pay[b] \in {"authorised", "declined"} /\ Event("authorised", b) \notin inbox

\* The refund on a row is what payments acts on (on_status_changed), so a
\* booking that has not ended, or was declined, expired or never paid, carries
\* none; and a no-show gives everything back when the owner was missing and
\* nothing when the renter was, whoever reported it and whatever came after
\* (routes._refund).
RefundSaysCharged ==
  \A b \in Requests :
    /\ row[b].status \in (Status \ {"cancelled", "completed"}) => row[b].refund = Null
    /\ row[b].noShow # "nobody" =>
         /\ row[b].status = "cancelled"
         /\ row[b].refund = IF row[b].noShow = "owner" THEN Amount ELSE 0

\* A step that ends a booking after its card was charged writes down what goes
\* back to the renter; one that ends it before writes nothing: every path out
\* (policy, no-show, ended with its parent, dispute settled).
ChargedCancelsRefund ==
  [][\A b \in Requests :
       row'[b].status = "cancelled" /\ row[b].status # "cancelled" =>
         (row[b].status \in {"accepted", "active", "disputed"} <=> row'[b].refund # Null)]_vars

\* What has ended stays as it ended, with one exception: a held card whose
\* handler read the booking while it still waited.  No other late result, sweep,
\* listing event or replayed request rewrites it, and nothing rewrites a
\* completed one.
OnlyLateHoldRevives ==
  [][\A b \in Requests :
       row[b].status \in FINAL /\ row'[b] # row[b] =>
         /\ row[b].status # "completed"
         /\ seen[b] = "awaiting_payment"
         /\ row'[b].status \in {"requested", "accepted"}]_vars

\* A request past its answer-by is never answered: from then on it can only
\* lapse or be declined by the system, even before the sweep gets to it.
LapsedIsNotAnswered ==
  [][\A b \in Requests : Due(b) /\ row[b].status = "requested" =>
       row'[b] = row[b] \/ row'[b].status \in {"expired", "declined"}]_vars

\* A booking whose card was charged is never merely declined or expired, which
\* payments would answer by releasing a hold: a listing taken down, a renter
\* suspended or a parent cancelled leaves it standing or refunds it
\* (state.py, "Accepted bookings stand").
ChargedIsNotJustReleased ==
  [][\A b \in Requests :
       row[b].status \in {"accepted", "active", "disputed"} =>
         row'[b].status \notin {"declined", "expired"}]_vars

Cancels(b) ==
  /\ row[b].status \in {"awaiting_payment", "requested", "accepted"}
  /\ row'[b].status = "cancelled"

\* A cancellation or a no-show leaves no extension of that booking waiting or
\* confirmed: it ends in the same transaction (_end_extensions).  One level
\* deep, as the code has it: a booking that is ended as an extension itself
\* leaves its own extensions as they are.
CancelEndsExtensions ==
  [][\A b \in Requests :
       Cancels(b) /\ ~(\E p \in Requests : Body[b].extends = p /\ Cancels(p))
       => \A e \in Requests : Body[e].extends = b =>
            row'[e].status \notin {"awaiting_payment", "requested", "accepted"}]_vars

\* Together: whatever ends a booking ends what hangs on it, and gives back what
\* is due for each.
EndingSettlesAll == CancelEndsExtensions /\ ChargedCancelsRefund

\* Nobody waits for ever: a booking leaves the card step and the owner's inbox
\* (sweep: lapsed), whether or not anybody does anything, as long as the clock
\* reaches its deadline.
WaitsEnd ==
  \A b \in Requests :
    row[b].status \in Pending /\ row[b].expires <= MaxTime
      ~> row[b].status \notin Pending

\* A confirmed booking is closed in the end, and the owner paid, even if
\* neither side ever comes back to it (sweep: finished); only a dispute waits
\* for people.
ConfirmedCloses ==
  \A b \in Requests :
    row[b].status \in {"accepted", "active"} /\ Body[b].end + AutoCompleteAfter <= MaxTime
      ~> row[b].status \notin {"accepted", "active"}

\* Together: the sweeps leave no booking open behind the people who forget it.
NothingIsLeftOpen == WaitsEnd /\ ConfirmedCloses

SoldAs(status) ==
  IF status = "absent" THEN "free"
  ELSE IF status = "completed" THEN "used"
  ELSE IF status \in OPEN THEN "held"
  ELSE "released"

Cal == INSTANCE Calendar WITH
         Bookings <- Requests, Slot <- Body,
         sold <- [b \in Requests |-> SoldAs(row[b].status)]

\* The service keeps the calendar's promise: every behaviour of the rows is one
\* of taking a free slot, using it, or releasing it.
CalendarKept == Cal!Spec

---------------------------------------------------------------------------
(* What the repository's documents say, and the code does not quite do. *)

\* FLOWS.md, and test_a_late_authorisation_does_not_revive_a_cancelled_booking:
\* a payment result for a booking that already moved on changes nothing.
EndedStaysEnded ==
  [][\A b \in Requests : row[b].status \in FINAL => row'[b] = row[b]]_vars

=============================================================================
