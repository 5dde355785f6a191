----------------------------- MODULE WsListener -----------------------------
(***************************************************************************)
(* The reading loop of the WebSocket stream listener (ws/listener.rs): it  *)
(* reads engine-executions from "$" on and forwards every record to the    *)
(* hub.  XREAD turns "$" into the last id of the stream when it is called, *)
(* and the loop calls it again, after every BLOCK of a second, until a     *)
(* record came.                                                            *)
(***************************************************************************)
EXTENDS ExecutionStream, SequencesExt

CONSTANT XreadCount  \* COUNT of the XREAD; 100 in the code

ASSUME ListenerAssumption == XreadCount \in Nat \ {0}

VARIABLES position,   \* last_id of the listener; 0 stands for "$"
          blocked,    \* an XREAD is under way
          from,       \* the position it reads from, until a record is forwarded
          records,    \* the records returned and not yet forwarded
          forwarded   \* the events forwarded to the hub, in order

listenerVars == <<position, blocked, from, records, forwarded>>

ListenerInit ==
  /\ position = 0 /\ blocked = FALSE /\ from = 0 /\ records = {}
  /\ forwarded = <<>>

\* Mutant of From: the record after the last one is left out.
FromNext(id) == IF id = 0 THEN published ELSE id + 1

\* The position an XREAD reads from.
From(id) == IF id = 0 THEN published ELSE id

Call ==
  /\ ~blocked /\ records = {}
  /\ blocked' = TRUE
  /\ from' = From(position)
  /\ UNCHANGED <<streamVars, position, records, forwarded, failures>>

\* Mutant of Return: it waits for XreadCount records.
ReturnFull ==
  /\ blocked
  /\ \E e \in After(from) :
       LET upto == {d \in After(from) : d <= e}
       IN  Cardinality(upto) = XreadCount /\ records' = upto
  /\ blocked' = FALSE
  /\ UNCHANGED <<streamVars, position, from, forwarded, failures>>

\* The first records, or as many of them as there were when it returned.
Return ==
  /\ blocked
  /\ \E e \in After(from) :
       LET upto == {d \in After(from) : d <= e}
       IN  Cardinality(upto) <= XreadCount /\ records' = upto
  /\ blocked' = FALSE
  /\ UNCHANGED <<streamVars, position, from, forwarded, failures>>

\* BLOCK has run out, or the call failed: the loop goes round.
Timeout ==
  /\ blocked /\ After(from) = {}
  /\ blocked' = FALSE /\ from' = 0
  /\ UNCHANGED <<streamVars, position, records, forwarded, failures>>

ReadError ==
  /\ blocked
  /\ Failure("listen")
  /\ blocked' = FALSE /\ from' = 0
  /\ UNCHANGED <<streamVars, position, records, forwarded>>

\* A record is translated (WsFeed) and broadcast (WsHub).
Forward(e) ==
  /\ e \in records /\ \A d \in records : e <= d
  /\ records' = records \ {e}
  /\ position' = e
  /\ forwarded' = Append(forwarded, e)
  /\ from' = 0
  /\ UNCHANGED <<streamVars, blocked, failures>>

ListenerNext == Call \/ Return \/ Timeout \/ ReadError \/ \E e \in records : Forward(e)

-----------------------------------------------------------------------------
\* Properties.

Deleted == Published \ stream

\* From the first record it got, the listener forwards everything in order,
\* each once, but for what a reset deleted, over timeouts and errors.  (Before
\* the first record it may miss events: each XREAD resolves "$" anew, so what
\* comes between the end of one call and the next is after neither.)
InOrderNoGaps ==
  forwarded # <<>> =>
    /\ \A i, j \in DOMAIN forwarded : i < j => forwarded[i] < forwarded[j]
    /\ \A e \in Head(forwarded)..Last(forwarded) : e \in Deleted \cup ToSet(forwarded)

\* Once a record came, every later event is forwarded or deleted, over calls
\* that time out or fail now and then.  A connection to Redis that is lost is
\* left out, as errors are bounded: the listener ends when it cannot connect and
\* reads on for ever from a connection that does not come back.
EventuallyForwarded ==
  \A e \in Events :
    (e \in stream /\ position # 0 /\ e > Head(forwarded))
      ~> e \in Deleted \cup ToSet(forwarded)
=============================================================================
