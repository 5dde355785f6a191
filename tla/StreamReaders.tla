--------------------------- MODULE StreamReaders ----------------------------
(***************************************************************************)
(* The stream of execution events with its two readers, the ledger worker  *)
(* and the WebSocket listener, and a reset, which deletes the stream under *)
(* both of them.                                                           *)
(***************************************************************************)
EXTENDS LedgerWorker, WsListener

vars == <<streamVars, failures, workerVars, listenerVars>>

Init == StreamInit /\ WorkerInit /\ ListenerInit

Next ==
  \/ Publish /\ UNCHANGED <<workerVars, listenerVars>>
  \/ WorkerNext /\ UNCHANGED listenerVars
  \/ ListenerNext /\ UNCHANGED workerVars

\* The gateways are started again when they end, their tasks run on, Redis
\* answers, and a reset that was begun goes on.  Nobody need begin one, and no
\* gateway need end, so a worker that is stuck may stay so.
Fairness ==
  /\ \A w \in Workers :
       WF_vars((Start(w) \/ Read(w) \/ Commit(w)) /\ UNCHANGED listenerVars)
  /\ WF_vars(reset # "none" /\ (DeleteRows \/ ResetCheckpoint \/ EndReset)
             /\ UNCHANGED listenerVars)
  /\ WF_vars(Call /\ UNCHANGED workerVars)
  /\ WF_vars(Return /\ UNCHANGED workerVars)
  /\ WF_vars((\E e \in records : Forward(e)) /\ UNCHANGED workerVars)

Spec == Init /\ [][Next]_vars /\ Fairness
=============================================================================
