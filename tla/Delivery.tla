------------------------------ MODULE Delivery ------------------------------
(***************************************************************************)
(* What the event bus promises a handler: it runs for an event only after  *)
(* the change the event describes has committed, and its writes take       *)
(* effect once.  No tables, queues, attempts or crashes, and no order.     *)
(***************************************************************************)
EXTENDS Naturals

CONSTANT Events

VARIABLES committed, applied

Init == committed = {} /\ applied = [e \in Events |-> 0]

Commit(e) ==
  /\ e \notin committed
  /\ committed' = committed \cup {e}
  /\ UNCHANGED applied

Apply(e) ==
  /\ e \in committed /\ applied[e] = 0
  /\ applied' = [applied EXCEPT ![e] = 1]
  /\ UNCHANGED committed

Next == \E e \in Events : Commit(e) \/ Apply(e)

Spec == Init /\ [][Next]_<<committed, applied>>
=============================================================================
