----------------------------- MODULE MCBooking -----------------------------
(***************************************************************************)
(* Small instances of Booking.  Times are in half hours or so: a start two *)
(* or three ticks away, a hold of one tick, a day to answer of two.        *)
(***************************************************************************)
EXTENDS Booking, TLC

CONSTANTS ann, bob, hugo, saw, r1, r2, r3, k1

Ask(who, listing, from, to, key, parent) ==
  [by |-> who, listing |-> listing, start |-> from, end |-> to,
   key |-> key, extends |-> parent]

MCOwner == [l \in Listings |-> hugo]

\* One renter asks twice with one key (a double tap), another for an
\* overlapping window of the same listing.
RacingBody == (r1 :> Ask(ann, saw, 2, 4, k1, None))
           @@ (r2 :> Ask(ann, saw, 2, 4, k1, None))
           @@ (r3 :> Ask(bob, saw, 3, 5, None, None))

\* A booking, and the time straight after it.
ExtendedBody == (r1 :> Ask(ann, saw, 2, 3, None, None))
             @@ (r2 :> Ask(ann, saw, 3, 5, None, r1))

AllModerate == [l \in Listings |-> "moderate"]
AllStrict == [l \in Listings |-> "strict"]
AnnBlocksHugo == {<<ann, hugo>>}
=============================================================================
