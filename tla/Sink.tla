-------------------------------- MODULE Sink --------------------------------
(***************************************************************************)
(* What the cold path promises: an asynchronous copy of the execution      *)
(* events in PostgreSQL.  At all times every table has a prefix of what    *)
(* the engine published since the last reset, each event once; a step      *)
(* stores the next few events in all tables; and what was published is     *)
(* stored in the end, unless the copying is stalled.  Certain failures     *)
(* break the promise until the next reset is done, and so does a reset     *)
(* while it is under way.                                                  *)
(***************************************************************************)
EXTENDS Naturals

CONSTANTS Tables,
          MaxEvents,  \* bound on the events
          BatchSize   \* events stored at a time, at most

VARIABLES published,  \* how many events were published
          table,      \* table -> event -> how often it is stored
          base,       \* how many of the events came before the last reset
          broken,     \* the promise does not hold
          stalled     \* nothing is read

Stored(n) ==
  [t \in Tables |-> [e \in 1..MaxEvents |-> IF base < e /\ e <= n THEN 1 ELSE 0]]

Init ==
  /\ published = 0 /\ base = 0
  /\ table = Stored(0)
  /\ broken = FALSE /\ stalled = FALSE

Publish ==
  /\ published < MaxEvents
  /\ published' = published + 1
  /\ UNCHANGED <<table, base, broken, stalled>>

Store ==
  \E n \in base..published, k \in 1..BatchSize :
    /\ ~broken /\ ~stalled
    /\ table = Stored(n)
    /\ n + k <= published
    /\ table' = Stored(n + k)
    /\ UNCHANGED <<published, base, broken, stalled>>

\* It breaks, or is broken: anything may be stored.
Break ==
  /\ broken' = TRUE
  /\ table' \in [Tables -> [1..MaxEvents -> 0..2]]
  /\ UNCHANGED <<published, base, stalled>>

\* A reset is done.
Clear ==
  /\ broken /\ broken' = FALSE
  /\ base' = published
  /\ table' = [t \in Tables |-> [e \in 1..MaxEvents |-> 0]]
  /\ UNCHANGED <<published, stalled>>

Stall == stalled' \in BOOLEAN /\ UNCHANGED <<published, table, base, broken>>

Next == Publish \/ Store \/ Break \/ Clear \/ Stall

sinkVars == <<published, table, base, broken, stalled>>

Spec == Init /\ [][Next]_sinkVars /\ WF_sinkVars(Store)
=============================================================================
