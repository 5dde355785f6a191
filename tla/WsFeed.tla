------------------------------- MODULE WsFeed -------------------------------
(***************************************************************************)
(* The private order updates that the WebSocket listener (ws/listener.rs)  *)
(* makes of the engine's execution events, and what a user who got all of  *)
(* them believes of his open orders.  Exchange joins them with the steps   *)
(* of Engine that publish the event.  (Public trades and depth are passed  *)
(* on as published.)                                                       *)
(***************************************************************************)
EXTENDS Engine

VARIABLE views  \* user -> order id -> remaining_qty, of the orders told open

NoViews == [u \in Users |-> EmptyMap]

\* An OrderUpdate.
Update(id, remaining, status) == [order_id |-> id, remaining_qty |-> remaining, status |-> status]

\* A user's view after an update.  What an update says of an order that is
\* not the user's is ignored.
Seen(user, view, m) ==
  IF m.status \in {"filled", "cancelled"} THEN Without(view, m.order_id)
  ELSE IF \E a \in Listed : Owns(user, a, m.order_id)
       THEN With(view, m.order_id, m.remaining_qty)
       ELSE view

StatusOf(remaining) == IF remaining = 0 THEN "filled" ELSE "partially_filled"

\* taker_remaining_qty is published as 0; the buyer is told of the taker.
BuyerUpdate(trade) == Update(trade.taker_order_id, 0, StatusOf(0))

\* Mutant of SellerUpdate: the quantity of the taker.
SellerUpdateOfTaker(b, trade) == Update(trade.maker_order_id, 0, StatusOf(0))

\* The seller is told of the maker.
SellerUpdate(b, trade) ==
  LET remaining == MakerRemaining(b, trade)
  IN  Update(trade.maker_order_id, remaining, StatusOf(remaining))

Tell(user, m) == views' = [views EXCEPT ![user] = Seen(user, @, m)]

\* TradeExecuted: first the buyer is told, then the seller.
TellTrade(asset, trade) ==
  LET told == [views EXCEPT ![trade.buyer] = Seen(trade.buyer, @, BuyerUpdate(trade))]
  IN  views' = [told EXCEPT ![trade.seller] =
                  Seen(trade.seller, @, SellerUpdate(books[asset], trade))]

\* OrderCreated.
TellCreated(o) == Tell(o.user_id, Update(o.order_id, o.remaining_qty, "open"))

\* OrderCancelled.
TellCancelled(user, id, remaining) == Tell(user, Update(id, remaining, "cancelled"))

-----------------------------------------------------------------------------
\* Properties.

\* Between handlers a user's view of an open order of the user is right.
ToldRight(user, a, side) ==
  \A id \in OpenOrders(user, a, side) :
    id \in DOMAIN views[user] /\ views[user][id] = books[a].orders[id].remaining_qty

\* What the updates tell a user of an open ask is what is left of it, however
\* often it was filled, also when the user trades with himself.
AsksToldRight == phase = "idle" => \A u \in Users, a \in Listed : ToldRight(u, a, "ask")

\* The same of bids: an OrderUpdate says that "An authenticated user's order
\* changed status" (ws.rs 49).  Does not hold: the owner of a resting bid is
\* told of the taker's order instead.
BidsToldRight == phase = "idle" => \A u \in Users, a \in Listed : ToldRight(u, a, "bid")
=============================================================================
