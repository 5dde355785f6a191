----------------------------- MODULE Orderbook -----------------------------
(***************************************************************************)
(* One order book and the calls the engine makes on it, one at a time      *)
(* (orderbook/book.rs).  A call that matches is a start action, one        *)
(* MatchStep per iteration of the matching loop, Complete, and Return,     *)
(* which hands the result to the caller.  In the code an iteration keeps   *)
(* the level it consumes until it is empty; taking the best level afresh   *)
(* is the same, as a call never adds to the side it consumes.              *)
(***************************************************************************)
EXTENDS Book

CONSTANTS Users,        \* the owners of orders
          NoUser,       \* the owner of no order
          Prices,       \* the prices callers pass
          Quantities,   \* the quantities callers pass
          MaxOrderId    \* bound on the ids callers pass

ASSUME PricesAssumption     == Prices \subseteq Nat
ASSUME QuantitiesAssumption == Quantities \subseteq Nat
ASSUME MaxOrderIdAssumption == MaxOrderId \in Nat

VARIABLES book,      \* the Orderbook value, see Book
          phase,     \* "idle", "matching", "returned"
          taker,     \* the order being executed
          results,   \* the trades of the call so far
          error      \* the Err of the call, or "none"

vars == <<book, phase, taker, results, error>>

NoTaker ==
  [order_id |-> 0, user_id |-> NoUser, side |-> "bid",
   limit |-> 0, qty |-> 0, remaining_qty |-> 0, tif |-> "ioc"]

Taker ==
  [order_id : Nat, user_id : Users \cup {NoUser}, side : Sides, limit : Nat \cup {NoCap},
   qty : Nat, remaining_qty : Nat, tif : TimesInForce]

-----------------------------------------------------------------------------
Init ==
  /\ book = NewBook
  /\ phase = "idle"
  /\ taker = NoTaker
  /\ results = <<>>
  /\ error = "none"

\* A call with the order t: its id is reserved, then it is matched unless it
\* is refused, with an error or, fill-or-kill, without one.
Start(t, refused, err) ==
  /\ phase = "idle"
  /\ t.order_id \in book.next_order_id..MaxOrderId
  /\ book' = Reserve(book, t.order_id)
  /\ taker' = t
  /\ phase' = IF refused THEN "returned" ELSE "matching"
  /\ error' = err
  /\ UNCHANGED results

TakerOf(id, user, side, limit, qty, tif) ==
  [order_id |-> id, user_id |-> user, side |-> side, limit |-> limit,
   qty |-> qty, remaining_qty |-> qty, tif |-> tif]

\* Mutant of AddOrderWithId: no liquidity check for fill-or-kill orders.
AddOrderNoFokCheck(id, user, side, price, qty, tif) ==
  LET err == IF price = 0 THEN "InvalidPrice"
             ELSE IF qty = 0 THEN "InvalidQuantity" ELSE "none"
  IN  Start(TakerOf(id, user, side, price, qty, tif), err # "none", err)

\* add_order passes its own next id, the engine a later one that it shares
\* between its three books.
AddOrderWithId(id, user, side, price, qty, tif) ==
  LET err == IF price = 0 THEN "InvalidPrice"
             ELSE IF qty = 0 THEN "InvalidQuantity" ELSE "none"
      killed == tif = "fok" /\ ~CanFillQuantity(book, side, price, qty)
  IN  Start(TakerOf(id, user, side, price, qty, tif), err # "none" \/ killed, err)

\* A market order is matched like an ioc order whose limit is worst_price.
ExecuteMarketOrderWithId(id, user, side, qty, worst_price) ==
  LET err == IF qty = 0 THEN "InvalidQuantity" ELSE "none"
  IN  Start(TakerOf(id, user, side, worst_price, qty, "ioc"), qty = 0, err)

MatchStep ==
  /\ phase = "matching"
  /\ Matches(book, taker)
  /\ book' = AfterFill(book, taker)
  /\ taker' = [taker EXCEPT !.remaining_qty = @ - FillQty(book, taker)]
  /\ results' = Append(results, TradeOf(book, taker))
  /\ UNCHANGED <<phase, error>>

Complete ==
  /\ phase = "matching"
  /\ ~Matches(book, taker)
  /\ book' = IF taker.remaining_qty > 0 /\ taker.tif = "gtc"
             THEN Rest(book, taker) ELSE book
  /\ phase' = "returned"
  /\ UNCHANGED <<taker, results, error>>

Return ==
  /\ phase = "returned"
  /\ phase' = "idle"
  /\ taker' = NoTaker
  /\ results' = <<>>
  /\ error' = "none"
  /\ UNCHANGED book

CancelOrder(id, user) ==
  /\ phase = "idle"
  /\ id \in DOMAIN book.orders
  /\ book.orders[id].user_id = user
  /\ book' = Cancel(book, id)
  /\ UNCHANGED <<phase, taker, results, error>>

CancelRefused(id, user) ==
  /\ phase = "idle"
  /\ error' = IF id \in DOMAIN book.orders THEN "NotOrderOwner" ELSE "OrderNotFound"
  /\ id \in DOMAIN book.orders => book.orders[id].user_id # user
  /\ phase' = "returned"
  /\ UNCHANGED <<book, taker, results>>

Reset ==
  /\ phase = "idle"
  /\ book' = NewBook
  /\ UNCHANGED <<phase, taker, results, error>>

Next ==
  \/ \E id \in 1..MaxOrderId, user \in Users, side \in Sides, qty \in Quantities :
       \/ \E price \in Prices, tif \in TimesInForce :
            AddOrderWithId(id, user, side, price, qty, tif)
       \/ \E worst_price \in (Prices \ {0}) \cup {NoCap} :
            ExecuteMarketOrderWithId(id, user, side, qty, worst_price)
  \/ \E id \in 1..MaxOrderId, user \in Users :
       CancelOrder(id, user) \/ CancelRefused(id, user)
  \/ MatchStep
  \/ Complete
  \/ Return
  \/ Reset

Spec == Init /\ [][Next]_vars
-----------------------------------------------------------------------------
\* Properties.

\* Every variable has its type; ids are below next_order_id and quantities of
\* resting orders are positive (types.rs, struct Order).
TypeOK ==
  /\ BookType(book, Users)
  /\ phase \in {"idle", "matching", "returned"}
  /\ taker \in Taker
  /\ error \in {"none", "InvalidPrice", "InvalidQuantity", "OrderNotFound", "NotOrderOwner"}

\* The two halves of the book agree between any two steps: a level is never
\* empty and holds only orders of its side and price, and every order in the
\* map is in the queue of its side and price.  The matching loop and
\* cancel_order rely on it in every expect() (book.rs 217, 260, 262, 509, 512).
BookConsistent == LevelsHoldOrders(book) /\ OrdersAreQueued(book)

\* Within a level orders wait in arrival order, which is id order, whatever
\* was filled, cancelled or added in between; in particular no id waits twice.
FifoByArrival == QueuesInIdOrder(book)

\* No bid is at or above an ask, not even in the middle of a call.
Uncrossed == NotCrossed(book)

\* A fill-or-kill order trades all of its quantity or none: the answer of
\* can_fill_quantity agrees with what the matching loop then finds.
FokAllOrNothing ==
  phase = "returned" /\ taker.tif = "fok" =>
    /\ taker.remaining_qty \in {0, taker.qty}
    /\ taker.remaining_qty = taker.qty => results = <<>>

\* The rest of a market, ioc or fok order is dropped: once its call is over
\* its id is in neither half of the book.
OnlyGtcRests ==
  phase = "returned" /\ taker.tif # "gtc" => taker.order_id \notin DOMAIN book.orders

\* The quote and the fill: a step of the matching loop fills and costs
\* exactly the part of the sweep that the next sweep no longer finds, and the
\* loop ends when the sweep finds nothing.
ChargesQuote ==
  phase = "matching" =>
    LET quote  == Sweep(book, Opposite(taker.side), taker.limit, taker.remaining_qty)
        quote2 == Sweep(book', Opposite(taker.side), taker.limit, taker'.remaining_qty)
        trade  == Last(results')
    IN  IF phase' = "matching"
        THEN /\ quote.cost = quote2.cost + trade.price * trade.qty
             /\ quote.filled = quote2.filled + trade.qty
        ELSE quote.filled = 0

\* The quote is what execution charges (book.rs, quote_cost_for_market_buy).
\* handle_order locks the quoted cost of a market buy before it executes it.
QuoteIsExact == [][ChargesQuote]_vars

\* Outside a reset, a resting order never changes hands, side or price, only
\* shrinks, and a new one is the taker, younger than all that rest.
OrdersShrink ==
  book' # NewBook =>
    /\ \A id \in DOMAIN book.orders \cap DOMAIN book'.orders :
         LET old == book.orders[id]
             new == book'.orders[id]
         IN  /\ new.user_id = old.user_id /\ new.side = old.side /\ new.price = old.price
             /\ new.remaining_qty <= old.remaining_qty
    /\ \A id \in DOMAIN book'.orders \ DOMAIN book.orders :
         /\ id = taker.order_id
         /\ \A other \in DOMAIN book.orders : other < id

\* The above, of every step of a book (book.rs, add_order_with_id,
\* execute_market_order_with_id and cancel_order).
RestingOrdersOnlyShrink == [][OrdersShrink]_vars

\* The book with its levels and queues implements price-time priority.
Abstract == INSTANCE PriceTimePriority WITH open <- book.orders, Takers <- Taker

ImplementsPriceTimePriority == Abstract!Spec
=============================================================================
