---------------------------- MODULE MCSettlement ----------------------------
(***************************************************************************)
(* Small instances of Settlement: a price of three units of which the      *)
(* owner gets two, so that shares round and part refunds exist.            *)
(***************************************************************************)
EXTENDS Statement, TLC
=============================================================================
