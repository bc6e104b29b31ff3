------------------------------ MODULE MCHistory ------------------------------
(***************************************************************************)
(* Three ledger rows of two users, one client that walks, and a service    *)
(* that starts on any earlier file and fails on the way.                   *)
(***************************************************************************)
EXTENDS History, TLC

MCSymmetry == Permutations(Rows) \cup Permutations(Users)
==============================================================================
