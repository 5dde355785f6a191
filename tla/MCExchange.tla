----------------------------- MODULE MCExchange -----------------------------
(***************************************************************************)
(* Exchange for TLC.  Fees are large so that they matter at small prices:  *)
(* each of the maker's and the taker's fee is the higher one in a schedule.*)
(***************************************************************************)
EXTENDS Exchange

UserSymmetry == Permutations(Users)

BothFees == {[maker_fee_bps |-> 6000, taker_fee_bps |-> 4000],
             [maker_fee_bps |-> 4000, taker_fee_bps |-> 6000]}

NoFees == {[maker_fee_bps |-> 0, taker_fee_bps |-> 0]}
=============================================================================
