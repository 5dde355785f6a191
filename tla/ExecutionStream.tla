-------------------------- MODULE ExecutionStream ---------------------------
(***************************************************************************)
(* The stream engine-executions, which the engine writes and a reset       *)
(* deletes, for the modules of its two readers: LedgerWorker, WsListener.  *)
(*                                                                         *)
(* An event is known by its position in all that was ever published; ids   *)
(* of the stream increase, over its deletion too, so positions stand for   *)
(* them and 0 for "0-0".                                                   *)
(***************************************************************************)
EXTENDS Integers, Sequences, FiniteSets

CONSTANTS Faults,  \* the calls that may fail, see below and in the readers
          MaxEvents, MaxResets, MaxFailures  \* bounds

ASSUME StreamAssumption == MaxEvents \in Nat /\ MaxResets \in Nat /\ MaxFailures \in Nat
ASSUME FaultsAssumption ==
  Faults \subseteq {"connect", "checkpoint", "read", "begin", "statement", "commit",
                    "acknowledgement", "delete", "update", "reset", "del", "listen"}

VARIABLES published,  \* how many events were published
          stream,     \* the events engine-executions still holds
          reset,      \* what a reset does next; "none": no reset is under way
          resets,     \* the resets that were begun
          failures    \* how many calls have failed

streamVars == <<published, stream, reset, resets>>

Events == 1..MaxEvents
Published == 1..published

StreamInit == published = 0 /\ stream = {} /\ reset = "none" /\ resets = 0 /\ failures = 0

\* A call to Redis or PostgreSQL fails.
Failure(call) == call \in Faults /\ failures < MaxFailures /\ failures' = failures + 1

\* The engine sends an execution event.
Publish ==
  /\ published < MaxEvents
  /\ published' = published + 1
  /\ stream' = stream \cup {published + 1}
  /\ UNCHANGED <<reset, resets, failures>>

\* The end of a reset: the engine executes it, replies and deletes the stream.
DelStream ==
  /\ reset = "send" /\ reset' = "none"
  /\ stream' = {}
  /\ UNCHANGED <<published, resets, failures>>

\* Sending the reset fails; or the engine ends between reply and DEL, and its
\* replay of the reset deletes no stream; or DEL fails and its error is dropped.
KeepStream ==
  /\ reset = "send" /\ reset' = "none"
  /\ Failure("del")
  /\ UNCHANGED <<published, stream, resets>>

\* The events after a position: XREAD.
After(id) == {e \in stream : e > id}
=============================================================================
