----------------------------- MODULE MCSession -----------------------------
(* Two tabs of one browser and two accounts, for TLC. *)
EXTENDS Session, TLC
Interchangeable == Permutations(Tab) \cup Permutations(Acct)
=============================================================================
