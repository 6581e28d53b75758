------------------------------ MODULE Calendar ------------------------------
(***************************************************************************)
(* What the booking service promises about time: a booking takes its slot  *)
(* when no slot it overlaps is held or used, and a slot that was held ends *)
(* either used (it stays sold for ever) or released.  A released slot may  *)
(* be taken by another booking, or again by the same one, while it is      *)
(* still free.  No statuses, deadlines, people or money.                   *)
(***************************************************************************)
EXTENDS Integers

CONSTANTS Bookings, Slot

VARIABLE sold

Clash(a, b) == /\ a # b
               /\ Slot[a].listing = Slot[b].listing
               /\ Slot[a].start < Slot[b].end /\ Slot[b].start < Slot[a].end

Init == sold = [b \in Bookings |-> "free"]

Take(b) ==
  /\ sold[b] \in {"free", "released"}
  /\ \A c \in Bookings : Clash(b, c) => sold[c] \in {"free", "released"}
  /\ sold' = [sold EXCEPT ![b] = "held"]

\* One transaction may end several bookings.
End(used, released) ==
  /\ \A b \in used \cup released : sold[b] = "held"
  /\ sold' = [b \in Bookings |-> IF b \in used THEN "used"
                                 ELSE IF b \in released THEN "released"
                                 ELSE sold[b]]

Next == \/ \E b \in Bookings : Take(b)
        \/ \E used, released \in SUBSET Bookings : End(used, released)

Spec == Init /\ [][Next]_sold

\* No hour of a listing is held or used by two bookings.
NoClash ==
  \A a, b \in Bookings : Clash(a, b) =>
    sold[a] \in {"free", "released"} \/ sold[b] \in {"free", "released"}
=============================================================================
