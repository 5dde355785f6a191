---------------------------- MODULE MCOrderbook ----------------------------
(***************************************************************************)
(* Orderbook with two interchangeable users, for TLC.                      *)
(***************************************************************************)
EXTENDS Orderbook

UserSymmetry == Permutations(Users)
=============================================================================
