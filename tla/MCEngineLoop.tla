---------------------------- MODULE MCEngineLoop ----------------------------
(***************************************************************************)
(* EngineLoop for TLC, with the calls that may fail in its runs.           *)
(***************************************************************************)
EXTENDS EngineLoop

NoFaults == {}

\* The faults that recovery tolerates.
ToleratedFaults == {"load", "emit", "save", "prune"}

=============================================================================
