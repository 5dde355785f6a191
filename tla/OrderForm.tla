----------------------------- MODULE OrderForm ------------------------------
(***************************************************************************)
(* The form of an order on its way to the log: OrderBody::validate         *)
(* (dto/mod.rs), the conversion to an OrderMsg in place_order              *)
(* (routes/orders.rs) and the checks at the head of handle_order           *)
(* (handlers/order.rs), which looks at the same fields a second time and   *)
(* with its own rules on upper and lower case.                             *)
(*                                                                         *)
(* A word of a request is known by what it is in lower case and whether it *)
(* was written so; numbers stand for their range.                          *)
(***************************************************************************)
EXTENDS Integers

CONSTANT Absent  \* the value of an Option that is not there

Word(lower, as_is) == [lower |-> lower, as_is |-> as_is]
Words(set) == {Word(s, b) : s \in set, b \in BOOLEAN}

\* The bodies of POST /order.  An absent order_type reads as "limit", an
\* absent price as 0.
Bodies ==
  [asset : Words({"sol", "btc", "eth", "doge"}), side : Words({"bid", "ask", "hold"}),
   order_type : Words({"limit", "market", "stop"}), price : {-1, 0, 100}, qty : {-1, 0, 10},
   slippage_pct : {Absent, 0, 1, 50, 51},
   time_in_force : Words({"gtc", "ioc", "fok", "day"}) \cup {Absent}]

VARIABLES body,   \* the request
          stage,  \* "received", "refused", "logged", "rejected", "executed"
          msg     \* the OrderMsg in the log

formVars == <<body, stage, msg>>

FormInit == body \in Bodies /\ stage = "received" /\ msg = Absent

-----------------------------------------------------------------------------
\* OrderBody::validate.  The side must be in lower case.
Valid(b) ==
  /\ b.asset.lower \in {"sol", "btc", "eth"}
  /\ b.side \in {Word("bid", TRUE), Word("ask", TRUE)}
  /\ b.order_type.lower \in {"limit", "market"}
  /\ b.order_type.lower = "limit" => b.price > 0
  /\ b.qty > 0
  /\ b.slippage_pct # Absent => b.slippage_pct > 0 /\ b.slippage_pct <= 50
  /\ b.time_in_force # Absent => b.time_in_force.lower \in {"gtc", "fok", "ioc"}

\* What place_order takes for the type and the time in force.
OrderType(b) == IF b.order_type.lower = "market" THEN "market" ELSE "limit"

\* Mutant of TimeInForce: only lower case is recognised.
TimeInForceAsIs(b) ==
  IF b.time_in_force = Word("ioc", TRUE) THEN "ioc"
  ELSE IF b.time_in_force = Word("fok", TRUE) THEN "fok" ELSE "gtc"

TimeInForce(b) ==
  IF b.time_in_force # Absent /\ b.time_in_force.lower \in {"ioc", "fok"}
  THEN b.time_in_force.lower ELSE "gtc"

\* place_order: asset and side are passed on as they came.
PlaceOrder ==
  /\ stage = "received"
  /\ IF Valid(body)
     THEN /\ stage' = "logged"
          /\ msg' = [asset |-> body.asset, side |-> body.side, order_type |-> OrderType(body),
                     price |-> body.price, qty |-> body.qty,
                     slippage_pct |-> body.slippage_pct, time_in_force |-> TimeInForce(body)]
     ELSE stage' = "refused" /\ UNCHANGED msg
  /\ UNCHANGED body

\* The checks of handle_order.
FormAccepted(m) ==
  /\ m.asset.lower \in {"sol", "btc", "eth"}
  /\ m.side \in {Word("bid", TRUE), Word("ask", TRUE)}
  /\ m.qty > 0
  /\ m.order_type = "limit" => m.price > 0

HandleOrder ==
  /\ stage = "logged"
  /\ stage' = IF FormAccepted(msg) THEN "executed" ELSE "rejected"
  /\ UNCHANGED <<body, msg>>

FormNext == PlaceOrder \/ HandleOrder

-----------------------------------------------------------------------------
\* Properties.

\* "Mandatory validation before messages touch Redis" (ARCHITECTURE.md 384):
\* no order that reaches the log is turned down by the engine for its form,
\* and it is the order that was asked for, however its words were written: a
\* market order is not placed as a limit order, nor an immediate one left in
\* the book.
OrderSurvives ==
  /\ stage # "rejected"
  /\ stage = "logged" =>
       /\ msg.order_type = body.order_type.lower
       /\ msg.time_in_force = IF body.time_in_force = Absent THEN "gtc"
                              ELSE body.time_in_force.lower
=============================================================================
