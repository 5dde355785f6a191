----------------------------- MODULE MCOperator -----------------------------
(***************************************************************************)
(* Operator for TLC, with every call that may fail.                        *)
(***************************************************************************)
EXTENDS Operator

AllFaults == {"load", "xrange", "emit", "save", "prune", "truncate", "del"}
=============================================================================
