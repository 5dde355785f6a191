----------------------------- MODULE MCGateway ------------------------------
(***************************************************************************)
(* The parts of the gateway for TLC.  They share no state, so a behaviour  *)
(* is one of one part, with the others at rest.                            *)
(***************************************************************************)
EXTENDS Gateway, RateLimiter, OrderForm, Accounts, OrderStatus

VARIABLE part

Parts == {"requests", "limiter", "form", "accounts", "status"}

all == <<part, gatewayVars, limiterVars, formVars, accountVars, statusVars>>

Init ==
  /\ part \in Parts
  /\ GatewayInit /\ LimiterInit /\ AccountsInit /\ StatusInit
  /\ part # "requests" => served_by = [r \in Requests |-> CHOOSE g \in Gateways : TRUE]
  /\ IF part = "form" THEN FormInit ELSE body = Absent /\ stage = "none" /\ msg = Absent

\* A step of the requests alone.
Alone(A) ==
  part = "requests" /\ A /\ UNCHANGED <<part, limiterVars, formVars, accountVars, statusVars>>

Next ==
  \/ Alone(GatewayNext)
  \/ /\ part = "limiter" /\ LimiterNext
     /\ UNCHANGED <<part, gatewayVars, formVars, accountVars, statusVars>>
  \/ /\ part = "form" /\ FormNext
     /\ UNCHANGED <<part, gatewayVars, limiterVars, accountVars, statusVars>>
  \/ /\ part = "accounts" /\ AccountsNext
     /\ UNCHANGED <<part, gatewayVars, limiterVars, formVars, statusVars>>
  \/ /\ part = "status" /\ StatusNext
     /\ UNCHANGED <<part, gatewayVars, limiterVars, formVars, accountVars>>

\* Handlers, the listener tasks and the engine run on.
Fairness ==
  /\ \A r \in Requests : WF_all(Alone(XaddReturns(r) \/ XaddFails(r))) /\ WF_all(Alone(Receive(r)))
  /\ WF_all(Alone(Engine))
  /\ \A g \in Gateways : WF_all(Alone(Listen(g)))

Spec == Init /\ [][Next]_all /\ Fairness

\* A token is refilled in less than a second by one limiter and in more than
\* a second by another.
SmallCapacity == [l \in Limiters |-> 2]
MixedUnits == [l \in Limiters |-> IF l = "auth" THEN 5 ELSE 2]
=============================================================================
