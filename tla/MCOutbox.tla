------------------------------ MODULE MCOutbox ------------------------------
(***************************************************************************)
(* Small instances of Outbox: two replicas relay, two workers consume.     *)
(***************************************************************************)
EXTENDS Outbox, TLC

CONSTANTS relay1, relay2, worker1, worker2

Replicas == Permutations({relay1, relay2}) \cup Permutations({worker1, worker2})
=============================================================================
