------------------------------ MODULE MCEngine ------------------------------
(***************************************************************************)
(* Engine for TLC.  Fees are large so that they matter at small prices.    *)
(***************************************************************************)
EXTENDS Engine

TakerPaysMore == {[maker_fee_bps |-> 4000, taker_fee_bps |-> 6000]}
=============================================================================
