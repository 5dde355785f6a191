-------------------------------- MODULE Book --------------------------------
(***************************************************************************)
(* The value of one order book of the engine, the Rust struct Orderbook    *)
(* (orderbook/book.rs), and the steps its methods are made of, as          *)
(* operators on that value.  The state machines Orderbook (one book, one   *)
(* call at a time) and Engine (one book per asset) are built from them.    *)
(*                                                                         *)
(* A book is a record                                                      *)
(*   levels : side -> price -> queue of order ids   (the maps bids, asks)  *)
(*   orders : order id -> resting order             (the HashMap)          *)
(*   next_order_id                                                         *)
(* The two maps keep their own domains, so that a level with an empty      *)
(* queue, or an id that is in one map and not in the other, are states     *)
(* the model can reach if the code can.                                    *)
(***************************************************************************)
EXTENDS Integers, Sequences, SequencesExt

Sides == {"bid", "ask"}

Opposite(side) == IF side = "bid" THEN "ask" ELSE "bid"

TimesInForce == {"gtc", "ioc", "fok"}

\* worst_price = None: a market order without a price cap.
NoCap == -1

EmptyMap == [x \in {} |-> x]

\* f without the key x, and f with x set to v.
Without(f, x) == [y \in DOMAIN f \ {x} |-> f[y]]
With(f, x, v) == [y \in DOMAIN f \cup {x} |-> IF y = x THEN v ELSE f[y]]

NewBook ==
  [levels        |-> [s \in Sides |-> EmptyMap],
   orders        |-> EmptyMap,
   next_order_id |-> 1]

Orders(U) == [user_id : U, side : Sides, price : Nat, remaining_qty : Nat \ {0}]

\* The type of a book whose orders belong to users of U.  Its ids are below
\* next_order_id and its resting quantities positive.
BookType(b, U) ==
  /\ DOMAIN b = {"levels", "orders", "next_order_id"}
  /\ DOMAIN b.levels = Sides
  /\ \A s \in Sides : \A p \in DOMAIN b.levels[s] :
       p \in Nat /\ b.levels[s][p] \in Seq(Nat)
  /\ b.next_order_id \in Nat \ {0}
  /\ b.orders \in [DOMAIN b.orders -> Orders(U)]
  /\ DOMAIN b.orders \subseteq 1..(b.next_order_id - 1)

-----------------------------------------------------------------------------
\* What the methods rely on and preserve.

\* A level is not empty and holds only orders of its side and price.
LevelsHoldOrders(b) ==
  \A s \in Sides : \A p \in DOMAIN b.levels[s] :
    /\ b.levels[s][p] # <<>>
    /\ \A i \in 1..Len(b.levels[s][p]) :
         LET id == b.levels[s][p][i]
         IN  /\ id \in DOMAIN b.orders
             /\ b.orders[id].side = s
             /\ b.orders[id].price = p

\* Every order is in the queue of its side and price.
OrdersAreQueued(b) ==
  \A id \in DOMAIN b.orders :
    LET o == b.orders[id]
    IN  /\ o.price \in DOMAIN b.levels[o.side]
        /\ \E i \in 1..Len(b.levels[o.side][o.price]) :
             b.levels[o.side][o.price][i] = id

\* Each queue is in order of increasing id.
QueuesInIdOrder(b) ==
  \A s \in Sides : \A p \in DOMAIN b.levels[s] :
    \A i, j \in 1..Len(b.levels[s][p]) :
      i < j => b.levels[s][p][i] < b.levels[s][p][j]

\* Every bid is below every ask.
NotCrossed(b) ==
  \A p \in DOMAIN b.levels["bid"], q \in DOMAIN b.levels["ask"] : p < q

-----------------------------------------------------------------------------
\* Price order.

\* A resting price p of this side is served before a resting price q.
Better(side, p, q) == IF side = "bid" THEN p > q ELSE p < q

\* Mutant of BestPrice: the wrong end of the map.
FarthestPrice(b, side) ==
  CHOOSE p \in DOMAIN b.levels[side] :
    \A q \in DOMAIN b.levels[side] : ~Better(side, p, q)

\* The best price of a side: the last key of bids, the first key of asks.
BestPrice(b, side) ==
  CHOOSE p \in DOMAIN b.levels[side] :
    \A q \in DOMAIN b.levels[side] : ~Better(side, q, p)

\* A taker with this limit may trade at the resting price p.
Crosses(side, limit, p) ==
  \/ limit = NoCap
  \/ side = "bid" /\ limit >= p
  \/ side = "ask" /\ limit <= p

-----------------------------------------------------------------------------
\* Levels.

\* A price-to-queue map whose queue at p becomes q; an empty level is dropped.
SetQueue(level, p, q) == IF q = <<>> THEN Without(level, p) ELSE With(level, p, q)

PushBack(level, p, id) ==
  With(level, p, Append(IF p \in DOMAIN level THEN level[p] ELSE <<>>, id))

\* The position of id in the queue q.
Position(q, id) == CHOOSE i \in 1..Len(q) : q[i] = id

-----------------------------------------------------------------------------
\* One iteration of the matching loop.

\* The resting order that a taker of this side meets next: the front of the
\* best level of the opposite side.
Maker(b, side) ==
  Head(b.levels[Opposite(side)][BestPrice(b, Opposite(side))])

\* The loop goes on: quantity is left, the other side has a level, and its
\* best price is within the taker's limit.
Matches(b, t) ==
  /\ t.remaining_qty > 0
  /\ DOMAIN b.levels[Opposite(t.side)] # {}
  /\ Crosses(t.side, t.limit, BestPrice(b, Opposite(t.side)))

FillQty(b, t) ==
  LET m == b.orders[Maker(b, t.side)]
  IN  IF t.remaining_qty < m.remaining_qty THEN t.remaining_qty ELSE m.remaining_qty

TradeOf(b, t) ==
  LET m == Maker(b, t.side)
      u == b.orders[m].user_id
  IN  [buyer          |-> IF t.side = "bid" THEN t.user_id ELSE u,
       seller         |-> IF t.side = "bid" THEN u ELSE t.user_id,
       price          |-> BestPrice(b, Opposite(t.side)),
       qty            |-> FillQty(b, t),
       taker_order_id |-> t.order_id,
       maker_order_id |-> m,
       taker_side     |-> t.side]

\* The book after the iteration: the maker shrinks and keeps its place, or,
\* fully filled, leaves the map, its queue and, if it was the last, its level.
AfterFill(b, t) ==
  LET m    == Maker(b, t.side)
      s    == Opposite(t.side)
      p    == BestPrice(b, s)
      fill == FillQty(b, t)
  IN  IF b.orders[m].remaining_qty = fill
      THEN [b EXCEPT !.orders    = Without(@, m),
                     !.levels[s] = SetQueue(@, p, Tail(@[p]))]
      ELSE [b EXCEPT !.orders[m].remaining_qty = @ - fill]

-----------------------------------------------------------------------------
\* Resting and cancelling.

RestingOrder(t) ==
  [user_id |-> t.user_id, side |-> t.side, price |-> t.limit,
   remaining_qty |-> t.remaining_qty]

Rest(b, t) ==
  [b EXCEPT !.levels[t.side] = PushBack(@, t.limit, t.order_id),
            !.orders         = With(@, t.order_id, RestingOrder(t))]

\* Mutant of Cancel: the level keeps its place in the map when it empties.
CancelKeepsLevel(b, id) ==
  LET o == b.orders[id]
  IN  [b EXCEPT !.orders = Without(@, id),
                !.levels[o.side] =
                   With(@, o.price, RemoveAt(@[o.price], Position(@[o.price], id)))]

Cancel(b, id) ==
  LET o == b.orders[id]
  IN  [b EXCEPT !.orders = Without(@, id),
                !.levels[o.side] =
                   SetQueue(@, o.price, RemoveAt(@[o.price], Position(@[o.price], id)))]

\* next_order_id = max(next_order_id, order_id + 1)
Reserve(b, id) ==
  [b EXCEPT !.next_order_id = IF @ > id + 1 THEN @ ELSE id + 1]

-----------------------------------------------------------------------------
\* Liquidity, read without changing the book.

\* The price of a set that is served last.
LastServed(side, prices) == CHOOSE p \in prices : \A q \in prices : ~Better(side, p, q)

\* Mutant of TakeLevel: the whole maker is counted, not the part still wanted.
TakeWholeMakers(b, side, p, taken) ==
  LET take(acc, id) ==
        LET rem == b.orders[id].remaining_qty
            n   == IF acc.left > 0 THEN rem ELSE 0
        IN  [left |-> IF acc.left < n THEN 0 ELSE acc.left - n,
             cost |-> acc.cost + n * p, filled |-> acc.filled + n]
  IN  FoldLeft(take, taken, b.levels[side][p])

\* What is taken up to the end of the level p, when taken is what the levels
\* before it gave.
TakeLevel(b, side, p, taken) ==
  LET take(acc, id) ==
        LET rem == b.orders[id].remaining_qty
            n   == IF acc.left < rem THEN acc.left ELSE rem
        IN  [left |-> acc.left - n,
             cost |-> acc.cost + n * p, filled |-> acc.filled + n]
  IN  FoldLeft(take, taken, b.levels[side][p])

\* The same for a set of levels, the best one first.
TakeLevels(b, side, prices, taken) ==
  MapThenFoldSet(LAMBDA p, before : TakeLevel(b, side, p, before), taken, LAMBDA p : p,
                 LAMBDA rest : LastServed(side, rest), prices)

\* Walk the levels of a side that are within the limit until qty is covered:
\* what would be filled and what it would cost.
Sweep(b, side, limit, qty) ==
  TakeLevels(b, side, {p \in DOMAIN b.levels[side] : Crosses(Opposite(side), limit, p)},
             [left |-> qty, cost |-> 0, filled |-> 0])

CanFillQuantity(b, side, price, qty) ==
  Sweep(b, Opposite(side), price, qty).filled >= qty

\* The resting quantity at each price of a side (get_state).
Depth(b, side) ==
  [p \in DOMAIN b.levels[side] |->
     SumFunction([i \in DOMAIN b.levels[side][p] |->
                    b.orders[b.levels[side][p][i]].remaining_qty])]
=============================================================================
