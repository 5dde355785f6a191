------------------------------ MODULE MCWsHub -------------------------------
(***************************************************************************)
(* WsHub for TLC: clients are interchangeable, and so are users.           *)
(***************************************************************************)
EXTENDS WsHub, TLC

HubSymmetry == Permutations(Clients) \cup Permutations(Users)
=============================================================================
