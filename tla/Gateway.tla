------------------------------ MODULE Gateway -------------------------------
(***************************************************************************)
(* Requests and replies of the gateway processes (redis/listener.rs and    *)
(* the routes that call send_and_wait): a request is entered in the map    *)
(* pending, appended to engine-events, and waits for the reply that the    *)
(* listener task takes from the gateway's own reply queue.  Clients may    *)
(* go away, XADD may fail, a gateway may end and come back with a new      *)
(* queue, and the engine (EngineLoop) answers in the order of the log, or  *)
(* not at all when it executed the request in a replay.                    *)
(*                                                                         *)
(* A request stands for its identifier, a fresh UUID; a reply carries the  *)
(* identifier of its request.                                              *)
(***************************************************************************)
EXTENDS Naturals, Sequences, FiniteSets, SequencesExt

CONSTANTS Gateways, Requests,
          None,        \* no reply yet
          Faults,      \* the calls that may fail, see below
          MaxCrashes   \* bound on the ends of gateways

ASSUME NoneAssumption == None \notin Requests
ASSUME FaultsAssumption == Faults \subseteq {"xadd", "brpop", "replay"} /\ MaxCrashes \in Nat

VARIABLES pc,           \* request -> where its send_and_wait is
          served_by,    \* request -> its gateway
          queue_id,     \* request -> the reply queue named in its message
          oneshot,      \* request -> what its channel holds
          pending,      \* gateway -> the keys of its map
          log,          \* the requests appended to engine-events
          replied,      \* how many of them the engine has executed
          silent,       \* those it executed in a replay
          queues,       \* reply queue -> the replies in it, oldest first
          incarnation,  \* gateway -> how often it was started
          listening,    \* gateway -> does BRPOP still work
          crashes

gatewayVars == <<pc, served_by, queue_id, oneshot, pending, log, replied, silent, queues,
          incarnation, listening, crashes>>

QueueIds == Gateways \X (1..(MaxCrashes + 1))

\* Mutant of QueueOf: one queue for all gateways.
QueueOfAll(g) == <<CHOOSE h \in Gateways : TRUE, 1>>

\* A UUID drawn when the process starts.
QueueOf(g) == <<g, incarnation[g]>>

InFlight(r) == pc[r] \in {"inserted", "sent", "waiting"}

GatewayInit ==
  /\ pc = [r \in Requests |-> "new"]
  /\ served_by \in [Requests -> Gateways]
  /\ queue_id = [r \in Requests |-> <<served_by[r], 1>>]
  /\ oneshot = [r \in Requests |-> None]
  /\ pending = [g \in Gateways |-> {}]
  /\ log = <<>>
  /\ replied = 0
  /\ silent = {}
  /\ queues = [q \in QueueIds |-> <<>>]
  /\ incarnation = [g \in Gateways |-> 1]
  /\ listening = [g \in Gateways |-> TRUE]
  /\ crashes = 0

-----------------------------------------------------------------------------
\* send_and_wait.

Insert(r) ==
  /\ pc[r] = "new"
  /\ pc' = [pc EXCEPT ![r] = "inserted"]
  /\ queue_id' = [queue_id EXCEPT ![r] = QueueOf(served_by[r])]
  /\ pending' = [pending EXCEPT ![served_by[r]] = @ \cup {r}]
  /\ UNCHANGED <<served_by, oneshot, log, replied, silent, queues, incarnation,
                 listening, crashes>>

\* XADD takes effect in Redis; its answer is still to come.
XaddSent(r) ==
  /\ pc[r] = "inserted"
  /\ pc' = [pc EXCEPT ![r] = "sent"]
  /\ log' = Append(log, r)
  /\ UNCHANGED <<served_by, queue_id, oneshot, pending, replied, silent, queues,
                 incarnation, listening, crashes>>

XaddReturns(r) ==
  /\ pc[r] = "sent"
  /\ pc' = [pc EXCEPT ![r] = "waiting"]
  /\ UNCHANGED <<served_by, queue_id, oneshot, pending, log, replied, silent, queues,
                 incarnation, listening, crashes>>

\* XADD reports an error, before or after it took effect: the client is told
\* of an internal error, and the entry stays in the map.
XaddFails(r) ==
  /\ "xadd" \in Faults
  /\ pc[r] \in {"inserted", "sent"}
  /\ pc' = [pc EXCEPT ![r] = "failed"]
  /\ UNCHANGED <<served_by, queue_id, oneshot, pending, log, replied, silent, queues,
                 incarnation, listening, crashes>>

\* rx.await yields what the listener has sent.
Receive(r) ==
  /\ pc[r] = "waiting" /\ oneshot[r] # None
  /\ pc' = [pc EXCEPT ![r] = "answered"]
  /\ UNCHANGED <<served_by, queue_id, oneshot, pending, log, replied, silent, queues,
                 incarnation, listening, crashes>>

\* The client closes its connection and the handler is dropped where it is.
Disconnect(r) ==
  /\ InFlight(r)
  /\ pc' = [pc EXCEPT ![r] = "gone"]
  /\ UNCHANGED <<served_by, queue_id, oneshot, pending, log, replied, silent, queues,
                 incarnation, listening, crashes>>

-----------------------------------------------------------------------------
\* The engine executes the log in its order.  The reply goes to the queue the
\* message names; none is sent when the engine came down before its reply
\* and executes the request again, or for the first time, in a replay.
Engine ==
  LET r == log[replied + 1]
  IN  /\ replied < Len(log)
      /\ replied' = replied + 1
      /\ \/ queues' = [queues EXCEPT ![queue_id[r]] = Append(@, r)] /\ UNCHANGED silent
         \/ "replay" \in Faults /\ silent' = silent \cup {r} /\ UNCHANGED queues
      /\ UNCHANGED <<pc, served_by, queue_id, oneshot, pending, log, incarnation,
                     listening, crashes>>

\* Mutant of Listen: the reply goes to some request that waits.
ListenAny(g) ==
  LET id == Head(queues[QueueOf(g)])
  IN  /\ listening[g] /\ queues[QueueOf(g)] # <<>>
      /\ queues' = [queues EXCEPT ![QueueOf(g)] = Tail(@)]
      /\ \E r \in pending[g] \cup {id} :
           /\ pending' = [pending EXCEPT ![g] = @ \ {r}]
           /\ oneshot' = IF r \in pending[g] THEN [oneshot EXCEPT ![r] = id] ELSE oneshot
      /\ UNCHANGED <<pc, served_by, queue_id, log, replied, silent, incarnation,
                     listening, crashes>>

\* Mutant of Listen: the entry stays in the map.
ListenKeeps(g) ==
  LET id == Head(queues[QueueOf(g)])
  IN  /\ listening[g] /\ queues[QueueOf(g)] # <<>>
      /\ queues' = [queues EXCEPT ![QueueOf(g)] = Tail(@)]
      /\ oneshot' = IF id \in pending[g] THEN [oneshot EXCEPT ![id] = id] ELSE oneshot
      /\ UNCHANGED <<pc, served_by, queue_id, pending, log, replied, silent, incarnation,
                     listening, crashes>>

\* BRPOP takes the oldest reply; the entry of its identifier leaves the map,
\* and its sender gets the reply, whether or not anyone still waits.
Listen(g) ==
  LET id == Head(queues[QueueOf(g)])
  IN  /\ listening[g] /\ queues[QueueOf(g)] # <<>>
      /\ queues' = [queues EXCEPT ![QueueOf(g)] = Tail(@)]
      /\ pending' = [pending EXCEPT ![g] = @ \ {id}]
      /\ oneshot' = IF id \in pending[g] THEN [oneshot EXCEPT ![id] = id] ELSE oneshot
      /\ UNCHANGED <<pc, served_by, queue_id, log, replied, silent, incarnation,
                     listening, crashes>>

\* BRPOP fails: the loop goes on with the same, broken connection.
ListenFails(g) ==
  /\ "brpop" \in Faults
  /\ listening[g]
  /\ listening' = [listening EXCEPT ![g] = FALSE]
  /\ UNCHANGED <<pc, served_by, queue_id, oneshot, pending, log, replied, silent,
                 queues, incarnation, crashes>>

\* A gateway ends, by a crash or when its shutdown does not wait any longer,
\* and is started again.
Restart(g) ==
  /\ crashes < MaxCrashes
  /\ crashes' = crashes + 1
  /\ incarnation' = [incarnation EXCEPT ![g] = @ + 1]
  /\ pending' = [pending EXCEPT ![g] = {}]
  /\ pc' = [r \in Requests |-> IF InFlight(r) /\ served_by[r] = g THEN "gone" ELSE pc[r]]
  /\ listening' = [listening EXCEPT ![g] = TRUE]
  /\ UNCHANGED <<served_by, queue_id, oneshot, log, replied, silent, queues>>

GatewayNext ==
  \/ \E r \in Requests : \/ Insert(r) \/ XaddSent(r) \/ XaddReturns(r) \/ XaddFails(r)
                         \/ Receive(r) \/ Disconnect(r)
  \/ Engine
  \/ \E g \in Gateways : Listen(g) \/ ListenFails(g) \/ Restart(g)

-----------------------------------------------------------------------------
\* Properties.

\* A client is only ever given the answer to its own request, which has been
\* executed, over restarts, lost replies and clients that go away.
OwnAnswer ==
  \A r \in Requests : oneshot[r] # None =>
    /\ oneshot[r] = r
    /\ \E i \in 1..replied : log[i] = r

\* Once every reply has been taken from the queues the map has shrunk to the
\* requests never executed or executed in silence: a client that goes away
\* after its XADD leaves nothing behind.
NothingElseLeaks ==
  replied = Len(log) /\ (\A q \in QueueIds : queues[q] = <<>>) =>
    \A g \in Gateways : \A r \in pending[g] : r \notin ToSet(log) \/ r \in silent

\* A request that was sent is answered, unless its client goes away, XADD
\* reports an error, the reply is never sent or the listener is lost.
SentIsAnswered ==
  \A r \in Requests :
    pc[r] = "sent" ~> \/ pc[r] \in {"answered", "gone", "failed"}
                      \/ r \in silent \/ ~listening[served_by[r]]
=============================================================================
