--------------------------- MODULE OrderbookProofs ---------------------------
(***************************************************************************)
(* Proofs about Orderbook, for any users, prices, quantities and any bound *)
(* on ids: the book is well-formed between any two steps, and it           *)
(* implements price-time priority.                                         *)
(***************************************************************************)
EXTENDS Orderbook, BookProofs

\* The order being matched is younger than every resting one, its id is
\* reserved, and it has a price if it may rest.
TakerPending ==
  /\ taker.order_id \in 1..(book.next_order_id - 1)
  /\ \A id \in DOMAIN book.orders : id < taker.order_id
  /\ taker.user_id \in Users
  /\ taker.tif = "gtc" => taker.limit \in Nat

\* The inductive invariant.
IInv ==
  /\ WellFormed(book, Users)
  /\ phase \in {"idle", "matching", "returned"}
  /\ taker \in Taker
  /\ error \in {"none", "InvalidPrice", "InvalidQuantity", "OrderNotFound", "NotOrderOwner"}
  /\ phase = "idle" => taker = NoTaker
  /\ phase = "matching" => TakerPending
  /\ OnlyGtcRests

LEMMA NoTakerType == NoTaker \in Taker /\ NoTaker.order_id = 0 /\ NoTaker.remaining_qty = 0
  BY DEF NoTaker, Taker, Sides, TimesInForce

LEMMA InitInvariant == Init => IInv
<1> SUFFICES ASSUME Init PROVE IInv
  OBVIOUS
<1>1. WellFormed(book, Users)
  BY NewBookWellFormed DEF Init
<1>2. taker \in Taker
  BY NoTakerType DEF Init
<1>3. OnlyGtcRests
  BY DEF Init, OnlyGtcRests
<1> QED BY <1>1, <1>2, <1>3 DEF Init, IInv

\* A call that starts: its id is new to the book.
LEMMA StartInvariant ==
  ASSUME IInv, NEW t \in Taker, t.user_id \in Users, t.tif = "gtc" => t.limit \in Nat,
         NEW refused \in BOOLEAN,
         NEW err \in {"none", "InvalidPrice", "InvalidQuantity"},
         Start(t, refused, err)
  PROVE  IInv' /\ book'.orders = book.orders
<1>1. PICK n : n = t.order_id
  OBVIOUS
<1>2. /\ n \in Nat /\ n \in book.next_order_id..MaxOrderId
      /\ book.next_order_id \in Nat \ {0}
      /\ DOMAIN book.orders \subseteq 1..(book.next_order_id - 1)
  BY <1>1 DEF Start, Taker, IInv, WellFormed, BookType
<1>3. /\ WellFormed(book', Users) /\ book'.orders = book.orders
      /\ book'.next_order_id > n
  BY <1>1, <1>2, ReserveWellFormed DEF Start, IInv
<1>4. book'.next_order_id \in Nat
  BY <1>3 DEF WellFormed, BookType
<1>5. /\ \A id \in DOMAIN book'.orders : id < n
      /\ n \in 1..(book'.next_order_id - 1)
  BY <1>2, <1>3, <1>4
<1>6. phase' \in {"matching", "returned"} /\ taker' = t /\ error' = err
  BY DEF Start
<1>7. TakerPending'
  BY <1>1, <1>5, <1>6 DEF TakerPending
<1>8. OnlyGtcRests'
  <2>1. n \notin DOMAIN book'.orders
    BY <1>2, <1>5
  <2> QED BY <1>1, <1>6, <2>1 DEF OnlyGtcRests
<1> QED BY <1>3, <1>6, <1>7, <1>8 DEF IInv

\* The order a call is made with has its type.
LEMMA TakerOfType ==
  ASSUME NEW id \in Nat, NEW user \in Users, NEW side \in Sides,
         NEW limit \in Nat \cup {NoCap}, NEW qty \in Nat, NEW tif \in TimesInForce,
         NEW t, t = TakerOf(id, user, side, limit, qty, tif)
  PROVE  /\ t \in Taker /\ t.user_id = user /\ t.tif = tif /\ t.limit = limit
         /\ t.order_id = id /\ t.qty = qty
  BY DEF TakerOf, Taker

LEMMA AddOrderInvariant ==
  ASSUME IInv, NEW id \in 1..MaxOrderId, NEW user \in Users, NEW side \in Sides,
         NEW qty \in Quantities, NEW price \in Prices, NEW tif \in TimesInForce,
         AddOrderWithId(id, user, side, price, qty, tif)
  PROVE  IInv' /\ book'.orders = book.orders
<1>1. PICK t : t = TakerOf(id, user, side, price, qty, tif)
  OBVIOUS
<1>2. PICK err : err = IF price = 0 THEN "InvalidPrice"
                       ELSE IF qty = 0 THEN "InvalidQuantity" ELSE "none"
  OBVIOUS
<1>3. PICK refused \in BOOLEAN :
        refused = (err # "none" \/ (tif = "fok" /\ ~CanFillQuantity(book, side, price, qty)))
  OBVIOUS
<1>4. t \in Taker /\ t.user_id \in Users /\ t.limit \in Nat
  <2>1. price \in Nat /\ qty \in Nat /\ id \in Nat
    BY PricesAssumption, QuantitiesAssumption, MaxOrderIdAssumption
  <2> QED BY <1>1, <2>1, TakerOfType
<1>5. Start(t, refused, err)
  BY <1>1, <1>2, <1>3 DEF AddOrderWithId, Start
<1> QED BY <1>2, <1>4, <1>5, StartInvariant

LEMMA MarketOrderInvariant ==
  ASSUME IInv, NEW id \in 1..MaxOrderId, NEW user \in Users, NEW side \in Sides,
         NEW qty \in Quantities, NEW worst_price \in (Prices \ {0}) \cup {NoCap},
         ExecuteMarketOrderWithId(id, user, side, qty, worst_price)
  PROVE  IInv' /\ book'.orders = book.orders
<1>1. PICK t : t = TakerOf(id, user, side, worst_price, qty, "ioc")
  OBVIOUS
<1>2. PICK err : err = IF qty = 0 THEN "InvalidQuantity" ELSE "none"
  OBVIOUS
<1>3. t \in Taker /\ t.user_id \in Users /\ t.tif # "gtc"
  <2>1. worst_price \in Nat \cup {NoCap} /\ qty \in Nat /\ id \in Nat /\ "ioc" \in TimesInForce
    BY PricesAssumption, QuantitiesAssumption, MaxOrderIdAssumption DEF TimesInForce
  <2> QED BY <1>1, <2>1, TakerOfType
<1>4. Start(t, qty = 0, err)
  BY <1>1, <1>2 DEF ExecuteMarketOrderWithId
<1> QED BY <1>2, <1>3, <1>4, StartInvariant

\* One iteration of the matching loop.
LEMMA MatchStepInvariant ==
  ASSUME IInv, MatchStep
  PROVE  IInv'
<1>1. /\ taker \in Taker /\ taker.side \in Sides /\ taker.remaining_qty \in Nat
      /\ TakerPending /\ Matches(book, taker)
  BY DEF MatchStep, IInv, Taker
<1>2. /\ WellFormed(book', Users)
      /\ FillQty(book, taker) \in 1..taker.remaining_qty
      /\ DOMAIN book'.orders \subseteq DOMAIN book.orders
      /\ book'.next_order_id = book.next_order_id
  BY <1>1, AfterFillWellFormed DEF MatchStep, IInv
<1>3. taker' = [taker EXCEPT !.remaining_qty = taker.remaining_qty - FillQty(book, taker)]
  BY DEF MatchStep
<1>4. taker.remaining_qty - FillQty(book, taker) \in Nat
  BY <1>1, <1>2
<1>5. /\ taker' \in Taker /\ taker'.order_id = taker.order_id /\ taker'.user_id = taker.user_id
      /\ taker'.tif = taker.tif /\ taker'.limit = taker.limit
  BY <1>1, <1>3, <1>4 DEF Taker
<1>6. TakerPending'
  BY <1>1, <1>2, <1>5 DEF TakerPending
<1>7. OnlyGtcRests'
  BY DEF MatchStep, OnlyGtcRests
<1> QED BY <1>2, <1>5, <1>6, <1>7 DEF IInv, MatchStep

\* The end of a call: what is left of a gtc order rests.
LEMMA CompleteInvariant ==
  ASSUME IInv, Complete
  PROVE  IInv'
<1>1. /\ taker \in Taker /\ taker.side \in Sides /\ taker.remaining_qty \in Nat
      /\ TakerPending /\ ~Matches(book, taker)
      /\ WellFormed(book, Users)
  BY DEF Complete, IInv, Taker
<1>2. CASE taker.remaining_qty > 0 /\ taker.tif = "gtc"
  <2>1. book' = Rest(book, taker)
    BY <1>2 DEF Complete
  <2>2. taker.remaining_qty \in Nat \ {0}
    BY <1>1, <1>2
  <2>3. WellFormed(book', Users)
    BY <1>1, <1>2, <2>1, <2>2, RestWellFormed DEF TakerPending
  <2>4. OnlyGtcRests'
    BY <1>2 DEF Complete, OnlyGtcRests
  <2> QED BY <2>3, <2>4 DEF IInv, Complete
<1>3. CASE ~(taker.remaining_qty > 0 /\ taker.tif = "gtc")
  <2>1. book' = book
    BY <1>3 DEF Complete
  <2>2. OnlyGtcRests'
    <3>1. taker.order_id \notin DOMAIN book.orders
      <4>1. taker.order_id \in Nat /\ ~(taker.order_id < taker.order_id)
        BY <1>1 DEF Taker
      <4> QED BY <1>1, <4>1 DEF TakerPending
    <3> QED BY <2>1, <3>1 DEF Complete, OnlyGtcRests
  <2> QED BY <1>1, <2>1, <2>2 DEF IInv, Complete
<1> QED BY <1>2, <1>3

LEMMA CancelInvariant ==
  ASSUME IInv, NEW id, NEW user, CancelOrder(id, user)
  PROVE  IInv'
<1>1. WellFormed(book', Users)
  BY CancelWellFormed DEF CancelOrder, IInv
<1>2. OnlyGtcRests'
  BY DEF CancelOrder, OnlyGtcRests
<1> QED BY <1>1, <1>2 DEF CancelOrder, IInv

LEMMA NextInvariant == IInv /\ [Next]_vars => IInv'
<1> SUFFICES ASSUME IInv, [Next]_vars PROVE IInv'
  OBVIOUS
<1>1. ASSUME NEW id \in 1..MaxOrderId, NEW user \in Users, NEW side \in Sides,
             NEW qty \in Quantities, NEW price \in Prices, NEW tif \in TimesInForce,
             AddOrderWithId(id, user, side, price, qty, tif)
      PROVE  IInv'
  BY <1>1, AddOrderInvariant
<1>2. ASSUME NEW id \in 1..MaxOrderId, NEW user \in Users, NEW side \in Sides,
             NEW qty \in Quantities, NEW worst_price \in (Prices \ {0}) \cup {NoCap},
             ExecuteMarketOrderWithId(id, user, side, qty, worst_price)
      PROVE  IInv'
  BY <1>2, MarketOrderInvariant
<1>3. ASSUME NEW id \in 1..MaxOrderId, NEW user \in Users, CancelOrder(id, user)
      PROVE  IInv'
  BY <1>3, CancelInvariant
<1>4. ASSUME NEW id \in 1..MaxOrderId, NEW user \in Users, CancelRefused(id, user)
      PROVE  IInv'
  <2>1. OnlyGtcRests'
    <3>1. taker'.order_id = 0 /\ 0 \notin DOMAIN book'.orders
      BY <1>4, NoTakerType DEF CancelRefused, IInv, WellFormed, BookType
    <3> QED BY <3>1 DEF OnlyGtcRests
  <2> QED BY <1>4, <2>1 DEF CancelRefused, IInv
<1>5. CASE MatchStep
  BY <1>5, MatchStepInvariant
<1>6. CASE Complete
  BY <1>6, CompleteInvariant
<1>7. CASE Return
  BY <1>7, NoTakerType DEF Return, IInv, OnlyGtcRests
<1>8. CASE Reset
  <2>1. WellFormed(book', Users)
    BY <1>8, NewBookWellFormed DEF Reset
  <2> QED BY <1>8, <2>1 DEF Reset, IInv, OnlyGtcRests
<1>9. CASE UNCHANGED vars
  BY <1>9 DEF vars, IInv, OnlyGtcRests, TakerPending
<1> QED BY <1>1, <1>2, <1>3, <1>4, <1>5, <1>6, <1>7, <1>8, <1>9 DEF Next

LEMMA Invariance == Spec => []IInv
<1> QED BY InitInvariant, NextInvariant, PTL DEF Spec

\* The book and the call in progress always have their types: the ids are
\* below next_order_id and no resting order is empty (book.rs, types.rs).
THEOREM TypeCorrect == Spec => []TypeOK
<1>1. IInv => TypeOK
  BY DEF IInv, WellFormed, TypeOK
<1> QED BY <1>1, Invariance, PTL

\* The levels and the order map agree in every state of every run, so none of
\* the expect() calls of the matching loop and of cancel_order can panic.
THEOREM BookAlwaysConsistent == Spec => []BookConsistent
<1>1. IInv => BookConsistent
  BY DEF IInv, WellFormed, BookConsistent
<1> QED BY <1>1, Invariance, PTL

\* Queues keep arrival order whatever is filled, cancelled or added.
THEOREM QueuesAlwaysFifo == Spec => []FifoByArrival
<1>1. IInv => FifoByArrival
  BY DEF IInv, WellFormed, FifoByArrival
<1> QED BY <1>1, Invariance, PTL

\* The book is never crossed, not even inside a call.
THEOREM NeverCrossed == Spec => []Uncrossed
<1>1. IInv => Uncrossed
  BY DEF IInv, WellFormed, Uncrossed
<1> QED BY <1>1, Invariance, PTL

\* A market, ioc or fok order is not in the book when its call returns.
THEOREM NothingElseRests == Spec => []OnlyGtcRests
<1>1. IInv => OnlyGtcRests
  BY DEF IInv
<1> QED BY <1>1, Invariance, PTL

-----------------------------------------------------------------------------
\* Price-time priority.

\* Every resting order is at one of the levels of its side, so none is better
\* than the best price, and none at the best price is older than its front.
LEMMA MakerIsFirst ==
  ASSUME NEW b, NEW U, WellFormed(b, U), NEW side \in Sides,
         NEW s, s = Opposite(side), DOMAIN b.levels[s] # {},
         NEW m, m = Maker(b, side),
         NEW n \in DOMAIN b.orders, b.orders[n].side = s, n # m
  PROVE  \/ Better(s, b.orders[m].price, b.orders[n].price)
         \/ b.orders[m].price = b.orders[n].price /\ m < n
<1>1. PICK p : p = BestPrice(b, s)
  OBVIOUS
<1>2. PICK y : y = b.orders[n].price
  OBVIOUS
<1>3. /\ s \in Sides /\ p \in Nat /\ b.orders[m].price = p /\ m = b.levels[s][p][1]
      /\ p \in DOMAIN b.levels[s] /\ b.levels[s][p] \in Seq(Nat)
      /\ \A x \in DOMAIN b.levels[s] : ~Better(s, x, p)
  BY <1>1, MakerFacts
<1>4. y \in DOMAIN b.levels[s] /\ y \in Nat /\ ~Better(s, y, p)
  BY <1>2, <1>3 DEF WellFormed, OrdersAreQueued, BookType
<1>5. CASE y = p
  <2>1. PICK i \in 1..Len(b.levels[s][p]) : b.levels[s][p][i] = n
    BY <1>2, <1>5 DEF WellFormed, OrdersAreQueued
  <2>2. i # 1 /\ i \in Nat /\ 1 \in 1..Len(b.levels[s][p]) /\ 1 < i
    BY <1>3, <2>1
  <2>3. b.levels[s][p][1] < b.levels[s][p][i]
    BY <1>3, <2>1, <2>2 DEF WellFormed, QueuesInIdOrder
  <2> QED BY <1>2, <1>3, <1>5, <2>1, <2>3
<1>6. CASE y # p
  BY <1>2, <1>3, <1>4, <1>6 DEF Better
<1> QED BY <1>5, <1>6

LEMMA ArriveRefines ==
  ASSUME IInv, NEW t \in Taker, NEW refused \in BOOLEAN, NEW err, Start(t, refused, err),
         book'.orders = book.orders, refused => t.tif = "fok" \/ 0 \in {t.limit, t.qty}
  PROVE  Abstract!Arrive
<1>1. \A m \in DOMAIN book.orders : m < t.order_id
  <2>1. /\ DOMAIN book.orders \subseteq 1..(book.next_order_id - 1)
        /\ book.next_order_id \in Nat /\ t.order_id \in book.next_order_id..MaxOrderId
    BY DEF IInv, WellFormed, BookType, Start
  <2>2. t.order_id \in Nat /\ t.order_id >= book.next_order_id
    BY <2>1, MaxOrderIdAssumption
  <2> QED BY <2>1, <2>2
<1> QED BY <1>1 DEF Abstract!Arrive, Start

\* An iteration of the matching loop fills the best resting order.
LEMMA FillRefines ==
  ASSUME IInv, MatchStep
  PROVE  Abstract!Fill
<1>1. PICK s : s = Opposite(taker.side)
  OBVIOUS
<1>2. PICK m : m = Maker(book, taker.side)
  OBVIOUS
<1>3. PICK rem : rem = book.orders[m].remaining_qty
  OBVIOUS
<1>4. /\ taker \in Taker /\ taker.side \in Sides /\ taker.remaining_qty \in Nat
      /\ taker.remaining_qty > 0 /\ taker.limit \in Int /\ WellFormed(book, Users)
      /\ DOMAIN book.levels[s] # {} /\ Crosses(taker.side, taker.limit, BestPrice(book, s))
  BY <1>1 DEF IInv, MatchStep, Matches, Taker, NoCap
<1>5. /\ s \in Sides /\ s # taker.side /\ m \in DOMAIN book.orders
      /\ book.orders[m].side = s /\ book.orders[m].price = BestPrice(book, s)
      /\ BestPrice(book, s) \in Nat /\ book.orders[m] \in Orders(Users)
  BY <1>1, <1>2, <1>4, MakerFacts
<1>6. Abstract!Best(m)
  <2>1. m \in Abstract!Candidates
    BY <1>4, <1>5 DEF Abstract!Candidates, Abstract!WithinLimit, Crosses, NoCap
  <2>2. ASSUME NEW n \in Abstract!Candidates, n # m PROVE Abstract!Before(m, n)
    <3>1. n \in DOMAIN book.orders /\ book.orders[n].side # taker.side
      BY <2>2 DEF Abstract!Candidates
    <3>2. book.orders[n].side = s
      <4>1. book.orders[n].side \in Sides
        BY <3>1, <1>4 DEF WellFormed, BookType, Orders
      <4> QED BY <1>4, <1>5, <3>1, <4>1 DEF Sides
    <3>3. \/ Better(s, book.orders[m].price, book.orders[n].price)
          \/ book.orders[m].price = book.orders[n].price /\ m < n
      BY <1>1, <1>2, <1>4, <2>2, <3>1, <3>2, MakerIsFirst
    <3> QED BY <1>5, <3>3 DEF Abstract!Before, Better
  <2> QED BY <2>1, <2>2 DEF Abstract!Best
<1>7. rem \in Nat \ {0}
  BY <1>3, <1>5 DEF Orders
<1>8. FillQty(book, taker) = IF taker.remaining_qty < rem THEN taker.remaining_qty ELSE rem
  BY <1>2, <1>3 DEF FillQty
<1>9. DOMAIN book = {"levels", "orders", "next_order_id"} /\ DOMAIN book.levels = Sides
  BY DEF IInv, WellFormed, BookType
<1>10. CASE rem <= taker.remaining_qty
  <2>1. FillQty(book, taker) = rem
    BY <1>4, <1>7, <1>8, <1>10
  <2>2. book'.orders = Without(book.orders, m)
    BY <1>2, <1>3, <1>9, <2>1 DEF MatchStep, AfterFill
  <2>3. taker' = [taker EXCEPT !.remaining_qty = taker.remaining_qty - book.orders[m].remaining_qty]
    BY <1>3, <2>1 DEF MatchStep
  <2> QED BY <1>3, <1>4, <1>5, <1>6, <1>10, <2>2, <2>3 DEF Abstract!Fill, MatchStep, Without
<1>11. CASE ~(rem <= taker.remaining_qty)
  <2>1. FillQty(book, taker) = taker.remaining_qty /\ taker.remaining_qty # rem
    BY <1>4, <1>7, <1>8, <1>11
  <2>2. book'.orders =
          [book.orders EXCEPT ![m].remaining_qty = book.orders[m].remaining_qty - taker.remaining_qty]
    BY <1>2, <1>3, <1>9, <2>1 DEF MatchStep, AfterFill
  <2>3. taker' = [taker EXCEPT !.remaining_qty = 0]
    <3>1. taker.remaining_qty - taker.remaining_qty = 0
      BY <1>4
    <3> QED BY <2>1, <3>1 DEF MatchStep
  <2> QED BY <1>3, <1>4, <1>5, <1>6, <1>11, <2>2, <2>3 DEF Abstract!Fill, MatchStep
<1> QED BY <1>10, <1>11

\* A call that ends has nothing left to fill or nothing to fill it with.
LEMMA CompleteRefines ==
  ASSUME IInv, Complete
  PROVE  Abstract!Complete
<1>1. /\ taker \in Taker /\ taker.side \in Sides /\ taker.remaining_qty \in Nat
      /\ taker.limit \in Int /\ ~Matches(book, taker)
      /\ WellFormed(book, Users)
  BY DEF Complete, IInv, Taker, NoCap
<1>2. taker.remaining_qty = 0 \/ Abstract!Candidates = {}
  <2>1. SUFFICES ASSUME taker.remaining_qty # 0, NEW n \in Abstract!Candidates PROVE FALSE
    OBVIOUS
  <2>2. PICK s : s = Opposite(taker.side)
    OBVIOUS
  <2>3. PICK y : y = book.orders[n].price
    OBVIOUS
  <2>4. /\ n \in DOMAIN book.orders /\ book.orders[n].side # taker.side
        /\ Abstract!WithinLimit(y)
    BY <2>1, <2>3 DEF Abstract!Candidates
  <2>5. book.orders[n] \in Orders(Users)
    BY <1>1, <2>4 DEF WellFormed, BookType
  <2>6. book.orders[n].side = s /\ y \in Nat
    BY <1>1, <2>2, <2>3, <2>4, <2>5 DEF Orders, Sides, Opposite
  <2>7. y \in DOMAIN book.levels[s]
    BY <1>1, <2>3, <2>4, <2>6 DEF WellFormed, OrdersAreQueued
  <2>8. PICK p : p = BestPrice(book, s)
    OBVIOUS
  <2>9. p \in Nat /\ ~Better(s, y, p)
    BY <1>1, <2>2, <2>7, <2>8, MakerFacts
  <2>10. ~Crosses(taker.side, taker.limit, p)
    BY <1>1, <2>1, <2>2, <2>7, <2>8 DEF Matches
  <2> QED BY <1>1, <2>2, <2>4, <2>6, <2>9, <2>10
          DEF Crosses, Better, Opposite, Sides, NoCap, Abstract!WithinLimit
<1>3. DOMAIN book = {"levels", "orders", "next_order_id"} /\ DOMAIN book.levels = Sides
  BY <1>1 DEF WellFormed, BookType
<1>4. CASE taker.remaining_qty > 0 /\ taker.tif = "gtc"
  <2>1. book'.orders = With(book.orders, taker.order_id, RestingOrder(taker))
    BY <1>3, <1>4 DEF Complete, Rest
  <2>2. Abstract!Rests
    BY <2>1 DEF Abstract!Rests, With, RestingOrder
  <2> QED BY <1>2, <1>4, <2>2 DEF Complete, Abstract!Complete
<1>5. CASE ~(taker.remaining_qty > 0 /\ taker.tif = "gtc")
  BY <1>2, <1>5 DEF Complete, Abstract!Complete
<1> QED BY <1>4, <1>5

LEMMA StepRefines == IInv /\ [Next]_vars => [Abstract!Next]_Abstract!vars
<1> SUFFICES ASSUME IInv, [Next]_vars PROVE [Abstract!Next]_Abstract!vars
  OBVIOUS
<1>1. ASSUME NEW id \in 1..MaxOrderId, NEW user \in Users, NEW side \in Sides,
             NEW qty \in Quantities, NEW price \in Prices, NEW tif \in TimesInForce,
             AddOrderWithId(id, user, side, price, qty, tif)
      PROVE  Abstract!Next
  <2>1. book'.orders = book.orders
    BY <1>1, AddOrderInvariant
  <2>2. PICK t : t = TakerOf(id, user, side, price, qty, tif)
    OBVIOUS
  <2>3. PICK err : err = IF price = 0 THEN "InvalidPrice"
                         ELSE IF qty = 0 THEN "InvalidQuantity" ELSE "none"
    OBVIOUS
  <2>4. PICK refused \in BOOLEAN :
          refused = (err # "none" \/ (tif = "fok" /\ ~CanFillQuantity(book, side, price, qty)))
    OBVIOUS
  <2>5. price \in Nat /\ qty \in Nat /\ id \in Nat
    BY PricesAssumption, QuantitiesAssumption, MaxOrderIdAssumption
  <2>6. t \in Taker /\ t.tif = tif /\ t.limit = price /\ t.qty = qty
    BY <2>2, <2>5, TakerOfType
  <2>7. Start(t, refused, err)
    BY <1>1, <2>2, <2>3, <2>4 DEF AddOrderWithId, Start
  <2>8. refused => t.tif = "fok" \/ 0 \in {t.limit, t.qty}
    BY <2>3, <2>4, <2>6
  <2> QED BY <2>1, <2>6, <2>7, <2>8, ArriveRefines DEF Abstract!Next
<1>2. ASSUME NEW id \in 1..MaxOrderId, NEW user \in Users, NEW side \in Sides,
             NEW qty \in Quantities, NEW worst_price \in (Prices \ {0}) \cup {NoCap},
             ExecuteMarketOrderWithId(id, user, side, qty, worst_price)
      PROVE  Abstract!Next
  <2>1. book'.orders = book.orders
    BY <1>2, MarketOrderInvariant
  <2>2. PICK t : t = TakerOf(id, user, side, worst_price, qty, "ioc")
    OBVIOUS
  <2>3. worst_price \in Nat \cup {NoCap} /\ qty \in Nat /\ id \in Nat /\ "ioc" \in TimesInForce
    BY PricesAssumption, QuantitiesAssumption, MaxOrderIdAssumption DEF TimesInForce
  <2>4. t \in Taker /\ t.qty = qty
    BY <2>2, <2>3, TakerOfType
  <2>5. PICK err : Start(t, qty = 0, err)
    BY <1>2, <2>2 DEF ExecuteMarketOrderWithId
  <2>6. qty = 0 => 0 \in {t.limit, t.qty}
    BY <2>4
  <2> QED BY <2>1, <2>4, <2>5, <2>6, ArriveRefines DEF Abstract!Next
<1>3. ASSUME NEW id \in 1..MaxOrderId, NEW user \in Users, CancelOrder(id, user)
      PROVE  Abstract!Next
  <2>1. id \in DOMAIN book.orders /\ book'.orders = Without(book.orders, id)
    BY <1>3, CancelWellFormed DEF CancelOrder, IInv
  <2> QED BY <1>3, <2>1 DEF CancelOrder, Without, Abstract!Withdraw, Abstract!Next
<1>4. ASSUME NEW id \in 1..MaxOrderId, NEW user \in Users, CancelRefused(id, user)
      PROVE  Abstract!Next
  BY <1>4 DEF CancelRefused, Abstract!Refuse, Abstract!Next
<1>5. CASE MatchStep
  BY <1>5, FillRefines DEF Abstract!Next
<1>6. CASE Complete
  BY <1>6, CompleteRefines DEF Abstract!Next
<1>7. CASE Return
  BY <1>7, NoTakerType DEF Return, Abstract!Return, Abstract!Next
<1>8. CASE Reset
  BY <1>8 DEF Reset, NewBook, EmptyMap, Abstract!Clear, Abstract!Next
<1>9. CASE UNCHANGED vars
  BY <1>9 DEF vars, Abstract!vars
<1> QED BY <1>1, <1>2, <1>3, <1>4, <1>5, <1>6, <1>7, <1>8, <1>9 DEF Next

\* Whatever orders arrive, each fill of the matching loop takes the resting
\* order with the best price and, at that price, the earliest arrival; a call
\* stops only when nothing within its limit is left (book.rs 15-18).
THEOREM RefinesPriceTimePriority == Spec => ImplementsPriceTimePriority
<1>1. Init => Abstract!Init
  BY DEF Init, NewBook, EmptyMap, NoTaker, Abstract!Init
<1> QED BY <1>1, StepRefines, Invariance, PTL DEF Spec, Abstract!Spec, ImplementsPriceTimePriority

LEMMA StepShrinks == IInv /\ [Next]_vars => [OrdersShrink]_vars
<1> SUFFICES ASSUME IInv, Next PROVE OrdersShrink
  BY DEF vars, OrdersShrink
<1>0. \A id \in DOMAIN book.orders : book.orders[id] \in Orders(Users)
  BY DEF IInv, WellFormed, BookType
<1>1. ASSUME book'.orders = book.orders PROVE OrdersShrink
  BY <1>0, <1>1 DEF OrdersShrink, Orders
<1>2. ASSUME NEW m, book'.orders = Without(book.orders, m) PROVE OrdersShrink
  BY <1>0, <1>2 DEF OrdersShrink, Orders, Without
<1>3. CASE MatchStep
  <2>1. Abstract!Fill
    BY <1>3, FillRefines
  <2>2. PICK m \in DOMAIN book.orders :
          \/ book'.orders = Without(book.orders, m)
          \/ /\ ~(book.orders[m].remaining_qty <= taker.remaining_qty)
             /\ book'.orders = [book.orders EXCEPT ![m].remaining_qty =
                                  book.orders[m].remaining_qty - taker.remaining_qty]
    BY <2>1 DEF Abstract!Fill, Without
  <2>3. CASE book'.orders = Without(book.orders, m)
    BY <1>2, <2>3
  <2>4. CASE book'.orders = [book.orders EXCEPT ![m].remaining_qty =
                               book.orders[m].remaining_qty - taker.remaining_qty]
    <3>1. taker.remaining_qty \in Nat
      BY DEF IInv, Taker
    <3> QED BY <1>0, <2>4, <3>1 DEF OrdersShrink, Orders
  <2> QED BY <2>2, <2>3, <2>4
<1>4. CASE Complete
  <2>1. book'.orders = book.orders \/ Abstract!Rests
    BY <1>4, CompleteRefines DEF Abstract!Complete
  <2>2. TakerPending
    BY <1>4 DEF Complete, IInv
  <2>3. taker.order_id \in Nat /\ taker.order_id \notin DOMAIN book.orders
    <3>1. taker.order_id \in Nat /\ ~(taker.order_id < taker.order_id)
      BY DEF IInv, Taker
    <3> QED BY <2>2, <3>1 DEF TakerPending
  <2>4. CASE Abstract!Rests
    BY <1>0, <2>2, <2>3, <2>4 DEF OrdersShrink, Orders, TakerPending, Abstract!Rests
  <2> QED BY <1>1, <2>1, <2>4
<1>5. CASE Return \/ Reset
  BY <1>1, <1>5 DEF Return, Reset, OrdersShrink
<1>6. ASSUME NEW id \in 1..MaxOrderId, NEW user \in Users,
             CancelOrder(id, user) \/ CancelRefused(id, user)
      PROVE  OrdersShrink
  BY <1>1, <1>2, <1>6, CancelWellFormed DEF CancelOrder, CancelRefused, IInv
<1>7. ASSUME NEW id \in 1..MaxOrderId, NEW user \in Users, NEW side \in Sides,
             NEW qty \in Quantities, NEW price \in Prices, NEW tif \in TimesInForce,
             AddOrderWithId(id, user, side, price, qty, tif)
      PROVE  OrdersShrink
  BY <1>1, <1>7, AddOrderInvariant
<1>8. ASSUME NEW id \in 1..MaxOrderId, NEW user \in Users, NEW side \in Sides,
             NEW qty \in Quantities, NEW worst_price \in (Prices \ {0}) \cup {NoCap},
             ExecuteMarketOrderWithId(id, user, side, qty, worst_price)
      PROVE  OrdersShrink
  BY <1>1, <1>8, MarketOrderInvariant
<1> QED BY <1>3, <1>4, <1>5, <1>6, <1>7, <1>8 DEF Next

\* A resting order is never repriced, moved to another owner or side, or
\* enlarged, and a newcomer is younger than all that rest.
THEOREM RestingOrdersShrink == Spec => RestingOrdersOnlyShrink
<1> QED BY StepShrinks, Invariance, PTL DEF Spec, RestingOrdersOnlyShrink

-----------------------------------------------------------------------------
\* Quotes and fill-or-kill.

Trades ==
  [buyer : Users, seller : Users, price : Nat, qty : Nat, taker_order_id : Nat,
   maker_order_id : Nat, taker_side : Sides]

\* A fill-or-kill order is matched only while the book covers what is left of it.
FokCovered ==
  /\ taker.qty # 0
  /\ Sweep(book, Opposite(taker.side), taker.limit, taker.remaining_qty).filled
       >= taker.remaining_qty

\* What the trades of a call and the quote of the book have to do with each
\* other between any two steps.
FillInv ==
  /\ results \in Seq(Trades)
  /\ phase = "idle" => results = <<>>
  /\ phase = "matching" /\ taker.tif = "fok" => FokCovered
  /\ FokAllOrNothing

\* An iteration of the matching loop takes from the book what it took from
\* the quote.
LEMMA MatchStepCharges ==
  ASSUME IInv, results \in Seq(Trades), MatchStep,
         NEW s, s = Opposite(taker.side),
         NEW q, q = Sweep(book, s, taker.limit, taker.remaining_qty),
         NEW r, r = Sweep(book', s, taker.limit, taker'.remaining_qty)
  PROVE  /\ results' \in Seq(Trades)
         /\ Last(results').price \in Nat /\ Last(results').qty \in Nat
         /\ taker'.remaining_qty \in Nat
         /\ taker'.remaining_qty = taker.remaining_qty - Last(results').qty
         /\ taker' = [taker EXCEPT !.remaining_qty = taker'.remaining_qty]
         /\ Ahead(q, r, Last(results').qty, Last(results').price * Last(results').qty)
<1>1. /\ taker \in Taker /\ taker.side \in Sides /\ taker.remaining_qty \in Nat
      /\ taker.order_id \in Nat /\ taker.user_id \in Users
      /\ Matches(book, taker) /\ WellFormed(book, Users)
  BY DEF MatchStep, IInv, Taker, TakerPending
<1>2. PICK p : p = BestPrice(book, s)
  OBVIOUS
<1>3. PICK m : m = Maker(book, taker.side)
  OBVIOUS
<1>4. PICK n : n = FillQty(book, taker)
  OBVIOUS
<1>5. p \in Nat /\ m \in DOMAIN book.orders /\ book.orders[m] \in Orders(Users) /\ m \in Nat
  <2>1. DOMAIN book.levels[s] # {}
    BY <1>1 DEF Matches
  <2>2. p \in Nat /\ m \in DOMAIN book.orders /\ book.orders[m] \in Orders(Users)
    BY <1>1, <1>2, <1>3, <2>1, MakerFacts
  <2> QED BY <1>1, <2>2 DEF WellFormed, BookType
<1>6. PICK c : c = AfterFill(book, taker)
  OBVIOUS
<1>7. /\ n \in Nat /\ taker.remaining_qty - n \in Nat
      /\ Ahead(q, Sweep(c, s, taker.limit, taker.remaining_qty - n), n, n * p)
  BY <1>1, <1>2, <1>4, <1>6, SweepAfterFill
<1>8. PICK trade : trade = TradeOf(book, taker)
  OBVIOUS
<1>9. PICK u : u = book.orders[m].user_id
  OBVIOUS
<1>10. trade = [buyer          |-> IF taker.side = "bid" THEN taker.user_id ELSE u,
                seller         |-> IF taker.side = "bid" THEN u ELSE taker.user_id,
                price          |-> p, qty |-> n, taker_order_id |-> taker.order_id,
                maker_order_id |-> m, taker_side |-> taker.side]
  BY <1>2, <1>3, <1>4, <1>8, <1>9 DEF TradeOf
<1>11. u \in Users
  BY <1>5, <1>9 DEF Orders
<1>12. trade \in Trades /\ trade.price = p /\ trade.qty = n
  BY <1>1, <1>5, <1>7, <1>10, <1>11 DEF Trades
<1>13. results' = Append(results, trade)
  BY <1>8 DEF MatchStep
<1>14. results' \in Seq(Trades) /\ Last(results') = trade
  BY <1>12, <1>13 DEF Last
<1>15. /\ taker' = [taker EXCEPT !.remaining_qty = taker.remaining_qty - n]
       /\ taker'.remaining_qty = taker.remaining_qty - n
  BY <1>1, <1>4 DEF MatchStep, Taker
<1>16. r = Sweep(c, s, taker.limit, taker.remaining_qty - n)
  BY <1>6, <1>15 DEF MatchStep
<1>17. n * p = p * n
  BY <1>5, <1>7
<1> QED BY <1>5, <1>7, <1>12, <1>14, <1>15, <1>16, <1>17

\* The loop ends when the walk finds nothing more.
LEMMA CompleteCharges ==
  ASSUME IInv, Complete, NEW s, s = Opposite(taker.side)
  PROVE  Sweep(book, s, taker.limit, taker.remaining_qty).filled = 0
<1>1. /\ taker.side \in Sides /\ taker.remaining_qty \in Nat /\ taker.limit \in Nat \cup {NoCap}
      /\ ~Matches(book, taker) /\ WellFormed(book, Users)
  BY DEF Complete, IInv, Taker
<1> QED BY <1>1, SweepAtEnd

LEMMA InitFill == Init => FillInv
  BY DEF Init, FillInv, FokAllOrNothing

\* A call that starts has no trades; a fill-or-kill order is covered or killed.
LEMMA StartFill ==
  ASSUME IInv, FillInv, NEW t \in Taker, t.remaining_qty = t.qty, NEW refused \in BOOLEAN,
         NEW err, Start(t, refused, err),
         t.tif = "fok" /\ ~refused =>
           t.qty # 0 /\ CanFillQuantity(book, t.side, t.limit, t.qty)
  PROVE  FillInv'
<1>1. taker' = t /\ results = <<>> /\ results' = results /\ phase' \in {"matching", "returned"}
  BY DEF Start, FillInv
<1>2. phase' = "matching" => ~refused
  BY DEF Start
<1>3. FokAllOrNothing'
  <2>1. t.remaining_qty \in {0, t.qty}
    OBVIOUS
  <2> QED BY <1>1, <2>1 DEF FokAllOrNothing
<1>4. ASSUME phase' = "matching", taker'.tif = "fok" PROVE FokCovered'
  <2>1. PICK s : s = Opposite(t.side)
    OBVIOUS
  <2>2. t.side \in Sides /\ t.qty \in Nat /\ WellFormed(book, Users)
    BY DEF Taker, IInv
  <2>3. s \in Sides
    BY <2>1, <2>2 DEF Opposite, Sides
  <2>4. Walkable(book, s)
    BY <2>2, <2>3, WellFormedWalkable
  <2>5. book'.levels = book.levels /\ book'.orders = book.orders
    <3>1. DOMAIN book = {"levels", "orders", "next_order_id"}
      BY <2>2 DEF WellFormed, BookType
    <3> QED BY <3>1 DEF Start, Reserve
  <2>6. Sweep(book', s, t.limit, t.qty).filled = Sweep(book, s, t.limit, t.qty).filled
    BY <2>2, <2>4, <2>5, SweepSame
  <2>7. t.qty # 0 /\ Sweep(book, s, t.limit, t.qty).filled >= t.qty
    BY <1>1, <1>2, <1>4, <2>1 DEF CanFillQuantity
  <2>8. Sweep(book', s, t.limit, t.qty).filled >= t.qty
    BY <2>6, <2>7
  <2> QED BY <1>1, <2>1, <2>7, <2>8 DEF FokCovered
<1> QED BY <1>1, <1>3, <1>4 DEF FillInv

LEMMA MatchStepFill ==
  ASSUME IInv, FillInv, MatchStep
  PROVE  FillInv'
<1>1. PICK s : s = Opposite(taker.side)
  OBVIOUS
<1>2. PICK q : q = Sweep(book, s, taker.limit, taker.remaining_qty)
  OBVIOUS
<1>3. PICK r : r = Sweep(book', s, taker.limit, taker'.remaining_qty)
  OBVIOUS
<1>4. PICK n, k : n = Last(results').qty /\ k = Last(results').price * Last(results').qty
  OBVIOUS
<1>5. /\ results' \in Seq(Trades) /\ n \in Nat
      /\ taker'.remaining_qty = taker.remaining_qty - n
      /\ taker' = [taker EXCEPT !.remaining_qty = taker'.remaining_qty]
      /\ Ahead(q, r, n, k)
  BY <1>1, <1>2, <1>3, <1>4, MatchStepCharges DEF FillInv
<1>6. taker \in Taker /\ taker.remaining_qty \in Nat
  BY DEF IInv, Taker
<1>7. /\ taker'.side = taker.side /\ taker'.limit = taker.limit /\ taker'.qty = taker.qty
      /\ taker'.tif = taker.tif
  BY <1>5, <1>6 DEF Taker
<1>8. q.filled = r.filled + n /\ r.filled \in Nat
  BY <1>5 DEF Ahead, Taken
<1>9. ASSUME taker'.tif = "fok" PROVE FokCovered'
  <2>1. taker.qty # 0 /\ q.filled >= taker.remaining_qty
    BY <1>1, <1>2, <1>7, <1>9 DEF FillInv, FokCovered, MatchStep
  <2>2. r.filled >= taker'.remaining_qty
    BY <1>5, <1>6, <1>8, <2>1
  <2> QED BY <1>1, <1>3, <1>7, <2>1, <2>2 DEF FokCovered
<1>10. phase' = "matching"
  BY DEF MatchStep
<1> QED BY <1>5, <1>9, <1>10 DEF FillInv, FokAllOrNothing

LEMMA CompleteFill ==
  ASSUME IInv, FillInv, Complete
  PROVE  FillInv'
<1>1. ASSUME taker.tif = "fok" PROVE taker.remaining_qty = 0 /\ taker.qty # 0
  <2>1. PICK s : s = Opposite(taker.side)
    OBVIOUS
  <2>2. Sweep(book, s, taker.limit, taker.remaining_qty).filled = 0
    BY <2>1, CompleteCharges
  <2>3. taker.qty # 0 /\ 0 >= taker.remaining_qty
    BY <1>1, <2>1, <2>2 DEF FillInv, FokCovered, Complete
  <2>4. taker.remaining_qty \in Nat
    BY DEF IInv, Taker
  <2> QED BY <2>3, <2>4
<1>2. FokAllOrNothing'
  BY <1>1 DEF Complete, FokAllOrNothing
<1> QED BY <1>2 DEF FillInv, Complete

LEMMA NextFill == IInv /\ FillInv /\ [Next]_vars => FillInv'
<1> SUFFICES ASSUME IInv, FillInv, [Next]_vars PROVE FillInv'
  OBVIOUS
<1>1. ASSUME NEW id \in 1..MaxOrderId, NEW user \in Users, NEW side \in Sides,
             NEW qty \in Quantities, NEW price \in Prices, NEW tif \in TimesInForce,
             AddOrderWithId(id, user, side, price, qty, tif)
      PROVE  FillInv'
  <2>1. PICK t : t = TakerOf(id, user, side, price, qty, tif)
    OBVIOUS
  <2>2. PICK err : err = IF price = 0 THEN "InvalidPrice"
                         ELSE IF qty = 0 THEN "InvalidQuantity" ELSE "none"
    OBVIOUS
  <2>3. PICK refused \in BOOLEAN :
          refused = (err # "none" \/ (tif = "fok" /\ ~CanFillQuantity(book, side, price, qty)))
    OBVIOUS
  <2>4. price \in Nat /\ qty \in Nat /\ id \in Nat
    BY PricesAssumption, QuantitiesAssumption, MaxOrderIdAssumption
  <2>5. /\ t \in Taker /\ t.tif = tif /\ t.limit = price /\ t.qty = qty
        /\ t.side = side /\ t.remaining_qty = qty
    BY <2>1, <2>4, TakerOfType DEF TakerOf
  <2>6. Start(t, refused, err)
    BY <1>1, <2>1, <2>2, <2>3 DEF AddOrderWithId, Start
  <2>7. t.tif = "fok" /\ ~refused => t.qty # 0 /\ CanFillQuantity(book, t.side, t.limit, t.qty)
    BY <2>2, <2>3, <2>5
  <2> QED BY <2>5, <2>6, <2>7, StartFill
<1>2. ASSUME NEW id \in 1..MaxOrderId, NEW user \in Users, NEW side \in Sides,
             NEW qty \in Quantities, NEW worst_price \in (Prices \ {0}) \cup {NoCap},
             ExecuteMarketOrderWithId(id, user, side, qty, worst_price)
      PROVE  FillInv'
  <2>1. PICK t : t = TakerOf(id, user, side, worst_price, qty, "ioc")
    OBVIOUS
  <2>2. worst_price \in Nat \cup {NoCap} /\ qty \in Nat /\ id \in Nat /\ "ioc" \in TimesInForce
    BY PricesAssumption, QuantitiesAssumption, MaxOrderIdAssumption DEF TimesInForce
  <2>3. t \in Taker /\ t.tif = "ioc" /\ t.remaining_qty = t.qty
    BY <2>1, <2>2, TakerOfType DEF TakerOf
  <2>4. PICK err : Start(t, qty = 0, err)
    BY <1>2, <2>1 DEF ExecuteMarketOrderWithId
  <2>5. PICK refused \in BOOLEAN : refused = (qty = 0)
    OBVIOUS
  <2>6. Start(t, refused, err)
    BY <2>4, <2>5
  <2> QED BY <2>3, <2>6, StartFill
<1>3. ASSUME NEW id \in 1..MaxOrderId, NEW user \in Users,
             CancelOrder(id, user) \/ CancelRefused(id, user)
      PROVE  FillInv'
  <2>1. phase = "idle" /\ taker.tif = "ioc" /\ taker' = taker /\ results' = results
        /\ phase' # "matching"
    BY <1>3 DEF CancelOrder, CancelRefused, IInv, NoTaker
  <2> QED BY <2>1 DEF FillInv, FokAllOrNothing
<1>4. CASE MatchStep
  BY <1>4, MatchStepFill
<1>5. CASE Complete
  BY <1>5, CompleteFill
<1>6. CASE Return \/ Reset
  <2>1. phase' = "idle" /\ results' = <<>>
    BY <1>6 DEF Return, Reset, FillInv
  <2>2. <<>> \in Seq(Trades)
    OBVIOUS
  <2> QED BY <2>1, <2>2 DEF FillInv, FokAllOrNothing
<1>7. CASE UNCHANGED vars
  BY <1>7 DEF vars, FillInv, FokCovered, FokAllOrNothing
<1> QED BY <1>1, <1>2, <1>3, <1>4, <1>5, <1>6, <1>7 DEF Next

LEMMA FillInvariance == Spec => [](IInv /\ FillInv)
<1> QED BY InitFill, NextFill, Invariance, PTL DEF Spec

\* The answer of can_fill_quantity holds to the end of the call: a fill-or-kill
\* order is filled completely or has not traded at all (book.rs 107, 176).
THEOREM FokAlwaysAllOrNothing == Spec => []FokAllOrNothing
<1>1. FillInv => FokAllOrNothing
  BY DEF FillInv
<1> QED BY <1>1, FillInvariance, PTL

LEMMA StepCharges == IInv /\ FillInv /\ [Next]_vars => [ChargesQuote]_vars
<1> SUFFICES ASSUME IInv, FillInv, Next, phase = "matching" PROVE ChargesQuote
  BY DEF ChargesQuote
<1>1. PICK s : s = Opposite(taker.side)
  OBVIOUS
<1>2. PICK q : q = Sweep(book, s, taker.limit, taker.remaining_qty)
  OBVIOUS
<1>3. PICK r : r = Sweep(book', s, taker.limit, taker'.remaining_qty)
  OBVIOUS
<1>4. CASE MatchStep
  <2>1. PICK trade : trade = Last(results')
    OBVIOUS
  <2>2. Ahead(q, r, trade.qty, trade.price * trade.qty)
    BY <1>1, <1>2, <1>3, <1>4, <2>1, MatchStepCharges DEF FillInv
  <2>3. /\ q.cost = r.cost + trade.price * trade.qty
        /\ q.filled = r.filled + trade.qty
    BY <2>2 DEF Ahead
  <2>4. phase' = "matching"
    BY <1>4 DEF MatchStep
  <2> QED BY <1>1, <1>2, <1>3, <2>1, <2>3, <2>4 DEF ChargesQuote
<1>5. CASE Complete
  <2>1. q.filled = 0 /\ phase' = "returned"
    BY <1>1, <1>2, <1>5, CompleteCharges DEF Complete
  <2> QED BY <1>1, <1>2, <2>1 DEF ChargesQuote
<1>6. MatchStep \/ Complete
  BY DEF Next, AddOrderWithId, ExecuteMarketOrderWithId, Start, CancelOrder, CancelRefused,
         Return, Reset
<1> QED BY <1>4, <1>5, <1>6

\* A market buy is charged exactly what it was quoted: every fill takes its own
\* cost and quantity out of the quote, and the call ends when the quote is
\* used up (book.rs, quote_cost_for_market_buy and the matching loop).
THEOREM QuotesAreExact == Spec => QuoteIsExact
<1> QED BY StepCharges, FillInvariance, PTL DEF Spec, QuoteIsExact
=============================================================================
