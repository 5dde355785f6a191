------------------------- MODULE PriceTimePriority -------------------------
(***************************************************************************)
(* What an order book promises, without levels or queues: the resting      *)
(* orders are a set, and an incoming order always trades with the resting  *)
(* order that has the best price and, among equals, the lowest id (ids     *)
(* grow with arrival).  It keeps trading as long as such an order is       *)
(* within its limit, and only then rests (gtc) or is dropped.              *)
(*                                                                         *)
(* An order without price or quantity is returned on arrival, and a        *)
(* fill-or-kill order may be; when it must be is left to Orderbook, which  *)
(* states it as FokAllOrNothing.                                           *)
(***************************************************************************)
EXTENDS Integers

CONSTANT Takers      \* the orders that may arrive: records, see Orderbook

VARIABLES open,      \* order id -> resting order
          phase,     \* "idle", "matching" or "returned"
          taker      \* the order of the current or last call

vars == <<open, phase, taker>>

Before(m, n) ==
  LET p == open[m].price
      q == open[n].price
  IN  \/ IF open[m].side = "bid" THEN p > q ELSE p < q
      \/ p = q /\ m < n

WithinLimit(p) ==
  \/ taker.limit = -1
  \/ taker.side = "bid" /\ p <= taker.limit
  \/ taker.side = "ask" /\ p >= taker.limit

Candidates ==
  {m \in DOMAIN open : open[m].side # taker.side /\ WithinLimit(open[m].price)}

Best(m) == m \in Candidates /\ \A n \in Candidates \ {m} : Before(m, n)

-----------------------------------------------------------------------------
Init == open = [x \in {} |-> x] /\ phase = "idle" /\ taker.remaining_qty = 0

Arrive ==
  /\ phase = "idle"
  /\ taker' \in Takers
  /\ \A m \in DOMAIN open : m < taker'.order_id
  /\ \/ phase' = "matching"
     \/ phase' = "returned" /\ (taker'.tif = "fok" \/ 0 \in {taker'.limit, taker'.qty})
  /\ UNCHANGED open

Fill ==
  /\ phase = "matching"
  /\ taker.remaining_qty > 0
  /\ \E m \in DOMAIN open :
       /\ Best(m)
       /\ IF open[m].remaining_qty <= taker.remaining_qty
          THEN /\ open' = [n \in DOMAIN open \ {m} |-> open[n]]
               /\ taker' = [taker EXCEPT !.remaining_qty = @ - open[m].remaining_qty]
          ELSE /\ open' = [open EXCEPT ![m].remaining_qty = @ - taker.remaining_qty]
               /\ taker' = [taker EXCEPT !.remaining_qty = 0]
  /\ UNCHANGED phase

Rests ==
  open' = [n \in DOMAIN open \cup {taker.order_id} |->
             IF n = taker.order_id
             THEN [user_id |-> taker.user_id, side |-> taker.side,
                   price |-> taker.limit, remaining_qty |-> taker.remaining_qty]
             ELSE open[n]]

Complete ==
  /\ phase = "matching"
  /\ taker.remaining_qty = 0 \/ Candidates = {}
  /\ IF taker.remaining_qty > 0 /\ taker.tif = "gtc" THEN Rests ELSE UNCHANGED open
  /\ phase' = "returned"
  /\ UNCHANGED taker

Withdraw ==
  /\ phase = "idle"
  /\ \E m \in DOMAIN open : open' = [n \in DOMAIN open \ {m} |-> open[n]]
  /\ UNCHANGED <<phase, taker>>

Clear == phase = "idle" /\ open' = [x \in {} |-> x] /\ UNCHANGED <<phase, taker>>

Refuse == phase = "idle" /\ phase' = "returned" /\ UNCHANGED <<open, taker>>

Return == phase = "returned" /\ phase' = "idle" /\ UNCHANGED open /\ taker'.remaining_qty = 0

Next == Arrive \/ Fill \/ Complete \/ Withdraw \/ Clear \/ Refuse \/ Return

Spec == Init /\ [][Next]_vars
=============================================================================
