--------------------------- MODULE ExchangeProofs ---------------------------
(***************************************************************************)
(* What holds of the engine and of the tables and views that its events    *)
(* make, for any users, markets, prices, quantities, fees and amounts, and *)
(* after any number of steps.                                              *)
(***************************************************************************)
EXTENDS Exchange, BookProofs

-----------------------------------------------------------------------------
\* The engine: its books, ids and locals.

Phases == {"idle", "matching", "settling", "replied"}

\* Balances as integers: nothing is said here of their sign.
Balance == [available : Int, locked : Int]

\* The order under execution.
Takers ==
  [order_id : Nat \ {0}, user_id : Users, side : Sides, limit : Nat \cup {NoCap},
   qty : Nat \ {0}, remaining_qty : Nat, tif : TimesInForce]

Calls ==
  [asset : Listed \cup {"none"}, lock : Int, spent : Int, filled : Int, settled : Nat,
   status : Statuses]

Trades ==
  [buyer : Users, seller : Users, price : Nat, qty : Nat \ {0},
   taker_order_id : Nat, maker_order_id : Nat, taker_side : Sides]

InCall == phase \in {"matching", "settling"}

\* Every resting order has an id below n.
IdsBelow(n) == \A a \in Listed : \A id \in DOMAIN books[a].orders : id < n

\* No order rests in two books.
IdsApart ==
  \A a, c \in Listed : \A id \in DOMAIN books[a].orders :
    id \in DOMAIN books[c].orders => a = c

BooksInv ==
  /\ books = [a \in Listed |-> books[a]]
  /\ \A a \in Listed : WellFormed(books[a], Users)
  /\ next_order_id \in Nat \ {0}
  /\ IdsBelow(next_order_id)
  /\ IdsApart

\* The locals of handle_order.  While the book is matched, the taker is younger
\* than all that rests and its id is reserved.
CallInv ==
  /\ phase \in Phases
  /\ fee_schedule \in FeeSchedules
  /\ call \in Calls
  /\ results \in Seq(Trades)
  /\ ~InCall /\ phase # "replied" => taker = NoTaker /\ results = <<>> /\ call = NoCall
  /\ InCall =>
       /\ call.asset \in Listed
       /\ taker \in Takers
       /\ taker.order_id < next_order_id
       /\ taker.tif = "gtc" => taker.limit \in Nat
       /\ call.settled \in 0..Len(results)
  /\ phase = "matching" =>
       /\ IdsBelow(taker.order_id)
       /\ taker.order_id < books[call.asset].next_order_id
       /\ call.settled = 0

EngineInv == BooksInv /\ CallInv

BalancesType ==
  /\ usd \in [Accounts -> Balance]
  /\ stock \in [Listed -> [Accounts -> Balance]]

-----------------------------------------------------------------------------
\* The parts of a step.

LEMMA NoCallType == NoCall \in Calls /\ NoCall.asset = "none" /\ NoCall.settled = 0
BY DEF NoCall, Calls, Statuses

\* A fee is a natural number.
LEMMA WrapType ==
  ASSUME NEW n \in Nat
  PROVE  Wrap(n) \in Nat /\ Wrap(n) <= n
BY BoundsAssumption DEF Wrap

LEMMA FeeType ==
  ASSUME NEW amount \in Nat, NEW bps \in Nat
  PROVE  Fee(amount, bps) \in Nat
<1>1. amount * bps \in Nat
  OBVIOUS
<1>2. Wrap(amount * bps) \in Nat
  BY <1>1, WrapType
<1> QED BY <1>2 DEF Fee

LEMMA FeesType ==
  ASSUME fee_schedule \in FeeSchedules, NEW amount \in Nat
  PROVE  MakerFee(amount) \in Nat /\ TakerFee(amount) \in Nat
BY FeeType, FeesAssumption DEF MakerFee, TakerFee

LEMMA BidNeedsType ==
  ASSUME fee_schedule \in FeeSchedules, NEW price \in Nat, NEW qty \in Nat
  PROVE  BidNeeds(price, qty) \in Nat
<1>1. PICK cost \in Nat : cost = Wrap(price * qty)
  <2>1. price * qty \in Nat
    OBVIOUS
  <2> QED BY <2>1, WrapType
<1>2. cost + MakerFee(cost) \in Nat
  BY FeesType
<1>3. Wrap(cost + MakerFee(cost)) \in Nat
  BY <1>2, WrapType
<1> QED BY <1>1, <1>3 DEF BidNeeds

\* The limit that the book is given is a price or no cap.
LEMMA LimitOfType ==
  ASSUME BooksInv, NEW r \in Requests, r.asset \in Listed, r.side \in Sides
  PROVE  /\ LimitOf(r) \in Nat \cup {NoCap}
         /\ r.type = "limit" => LimitOf(r) \in Nat
<1>1. r.price \in Nat /\ r.slippage \in 0..100 /\ r.qty \in Nat
  BY AmountsAssumption DEF Requests
<1>2. CASE r.type = "limit"
  BY <1>1, <1>2 DEF LimitOf
<1>3. CASE r.type # "limit" /\ r.price > 0
  BY <1>1, <1>3 DEF LimitOf, WorstPrice
<1>4. CASE r.type # "limit" /\ ~(r.price > 0)
  <2> DEFINE b == books[r.asset]
             o == Opposite(r.side)
  <2>1. CASE DOMAIN b.levels[o] = {}
    BY <1>4, <2>1 DEF LimitOf, WorstPrice
  <2>2. CASE DOMAIN b.levels[o] # {}
    <3>1. o \in Sides
      BY DEF Opposite, Sides
    <3>2. PICK p \in Nat : p = BestPrice(b, o)
      BY <2>2, <3>1, BestPriceIsBest DEF BooksInv, WellFormed
    <3>3. p * (100 - r.slippage) \in Nat /\ p * (100 + r.slippage) + 99 \in Nat
      <4>1. 100 - r.slippage \in Nat /\ 100 + r.slippage \in Nat
        BY <1>1
      <4>2. \A x, y \in Nat : x * y \in Nat
        OBVIOUS
      <4> QED BY <4>1, <4>2
    <3>4. SlippageCap(r.side, p, r.slippage) \in Nat
      <4>1. PICK x \in Nat : x = p * (100 - r.slippage)
        BY <3>3
      <4>2. PICK y \in Nat : y = p * (100 + r.slippage) + 99
        BY <3>3
      <4>3. x \div 100 \in Nat /\ y \div 100 \in Nat
        OBVIOUS
      <4> QED BY <4>1, <4>2, <4>3 DEF SlippageCap
    <3>5. LimitOf(r) = SlippageCap(r.side, p, r.slippage)
      BY <1>4, <2>2, <3>2 DEF LimitOf, WorstPrice
    <3> QED BY <1>4, <3>4, <3>5
  <2> QED BY <2>1, <2>2
<1> QED BY <1>2, <1>3, <1>4

\* What an order locks is a natural number.
LEMMA LockOfType ==
  ASSUME BooksInv, fee_schedule \in FeeSchedules,
         NEW r \in Requests, r.asset \in Listed, r.side \in Sides
  PROVE  LockOf(r) \in Nat
<1>1. r.price \in Nat /\ r.qty \in Nat
  BY AmountsAssumption DEF Requests
<1>2. LimitLock(r.side, r.price, r.qty) \in Nat
  <2>1. PICK cost \in Nat : cost = Wrap(r.price * r.qty)
    <3>1. r.price * r.qty \in Nat
      BY <1>1
    <3> QED BY <3>1, WrapType
  <2>2. PICK rate \in Nat : rate = IF fee_schedule.taker_fee_bps > fee_schedule.maker_fee_bps
              THEN fee_schedule.taker_fee_bps ELSE fee_schedule.maker_fee_bps
    BY FeesAssumption
  <2>3. cost + Fee(cost, rate) \in Nat
    BY FeeType
  <2>4. Wrap(cost + Fee(cost, rate)) \in Nat
    BY <2>3, WrapType
  <2> QED BY <1>1, <2>1, <2>2, <2>4 DEF LimitLock
<1>3. Wrap(QuoteOf(r).cost) \in Nat
  <2>1. Opposite(r.side) \in Sides
    BY DEF Opposite, Sides
  <2>2. Walkable(books[r.asset], Opposite(r.side))
    BY <2>1, WellFormedWalkable DEF BooksInv
  <2>3. QuoteOf(r) \in Taken
    BY <1>1, <2>2, SweepType DEF QuoteOf
  <2>4. QuoteOf(r).cost \in Nat
    BY <2>3 DEF Taken
  <2> QED BY <2>4, WrapType
<1>4. Wrap(Wrap(QuoteOf(r).cost) + TakerFee(Wrap(QuoteOf(r).cost))) \in Nat
  <2>1. Wrap(QuoteOf(r).cost) + TakerFee(Wrap(QuoteOf(r).cost)) \in Nat
    BY <1>3, FeesType
  <2> QED BY <2>1, WrapType
<1> QED BY <1>2, <1>4 DEF LockOf

\* What the books are made of: no book but that of asset changes, and its new
\* value is well-formed.
LEMMA BooksExcept ==
  ASSUME BooksInv, NEW asset \in Listed, NEW b, WellFormed(b, Users),
         NEW n \in Nat \ {0}, next_order_id <= n, next_order_id' = n,
         books' = [books EXCEPT ![asset] = b],
         \A id \in DOMAIN b.orders :
           id \in DOMAIN books[asset].orders
           \/ (id < n /\ \A c \in Listed : id \notin DOMAIN books[c].orders)
  PROVE  /\ BooksInv'
         /\ books'[asset] = b
         /\ \A c \in Listed \ {asset} : books'[c] = books[c]
<1>1. /\ books = [a \in Listed |-> books[a]]
      /\ books' = [a \in Listed |-> books'[a]]
      /\ books'[asset] = b
      /\ \A c \in Listed \ {asset} : books'[c] = books[c]
  BY DEF BooksInv
<1>2. \A a \in Listed : WellFormed(books'[a], Users)
  BY <1>1 DEF BooksInv
<1>3. \A a \in Listed : \A id \in DOMAIN books[a].orders : id \in Nat /\ id < n
  <2> TAKE a \in Listed
  <2> TAKE id \in DOMAIN books[a].orders
  <2>1. id \in Nat /\ id < next_order_id /\ next_order_id \in Nat
    BY DEF BooksInv, IdsBelow, WellFormed, BookType
  <2> QED BY <2>1
<1>4. IdsBelow(n)'
  BY <1>1, <1>3 DEF IdsBelow
<1>5. IdsApart'
  BY <1>1 DEF BooksInv, IdsApart
<1> QED BY <1>1, <1>2, <1>4, <1>5 DEF BooksInv

LEMMA InitEngineInv == Init => EngineInv /\ BalancesType
<1> SUFFICES ASSUME Init PROVE EngineInv /\ BalancesType
  OBVIOUS
<1>1. /\ books = [a \in Listed |-> books[a]]
      /\ \A a \in Listed : WellFormed(books[a], Users)
  BY NewBookWellFormed DEF Init
<1>2. \A a \in Listed : DOMAIN books[a].orders = {}
  BY DEF Init, NewBook, EmptyMap
<1>3. BooksInv
  BY <1>1, <1>2 DEF BooksInv, IdsBelow, IdsApart, Init
<1>4. CallInv
  BY NoCallType DEF Init, CallInv, InCall, Phases
<1>5. BalancesType
  BY DEF Init, BalancesType, Balance, Zero
<1> QED BY <1>3, <1>4, <1>5 DEF EngineInv

\* The steps that leave the books and the order alone.
LEMMA RefusedEngineInv ==
  ASSUME EngineInv,
         \/ \E user \in Users, r \in Requests : OrderRefused(user, r)
         \/ \E user \in Users, id \in 1..MaxOrderId : CancelRefused(user, id)
  PROVE  EngineInv'
<1>1. /\ phase = "idle" /\ phase' = "replied"
      /\ \E status \in Statuses : call' = [NoCall EXCEPT !.status = status]
      /\ UNCHANGED <<books, next_order_id, fee_schedule, taker, results>>
  BY DEF OrderRefused, CancelRefused, Verdict, Statuses
<1>2. call' \in Calls
  BY <1>1 DEF NoCall, Calls, Statuses
<1>3. BooksInv'
  BY <1>1 DEF EngineInv, BooksInv, IdsBelow, IdsApart
<1>4. CallInv'
  BY <1>1, <1>2 DEF EngineInv, CallInv, InCall, Phases
<1> QED BY <1>3, <1>4 DEF EngineInv

\* What is known of an accepted order.
LEMMA AcceptedOrder ==
  ASSUME EngineInv, NEW user \in Users, NEW r \in Requests, HandleOrder(user, r)
  PROVE  /\ phase = "idle" /\ InCall'
         /\ r.asset \in Listed /\ r.side \in Sides
         /\ LockOf(r) \in Nat
         /\ taker' \in Takers
         /\ taker'.order_id = next_order_id /\ taker'.user_id = user
         /\ taker'.side = r.side /\ taker'.remaining_qty = taker'.qty
         /\ taker'.tif = "gtc" => taker'.limit \in Nat
         /\ call' = [NoCall EXCEPT !.asset = r.asset, !.lock = LockOf(r)]
         /\ call' \in Calls /\ call'.asset = r.asset /\ call'.settled = 0
         /\ call'.filled = 0 /\ call'.spent = 0 /\ call'.lock = LockOf(r)
         /\ results' = results /\ results = <<>>
<1>1. /\ phase = "idle" /\ Verdict(user, r) = "accepted"
      /\ call' = [NoCall EXCEPT !.asset = r.asset, !.lock = LockOf(r)]
      /\ phase' \in {"matching", "settling"} /\ results' = results
  BY DEF HandleOrder
<1>2. ~Invalid(r)
  BY <1>1 DEF Verdict
<1>3. /\ r.asset \in Listed /\ r.side \in Sides /\ r.qty \in Nat \ {0}
      /\ r.tif \in TimesInForce
  BY <1>2, AmountsAssumption DEF Invalid, Requests
<1>4. LockOf(r) \in Nat
  BY <1>3, LockOfType DEF EngineInv, CallInv
<1>5. LimitOf(r) \in Nat \cup {NoCap} /\ (r.type = "limit" => LimitOf(r) \in Nat)
  BY <1>3, LimitOfType DEF EngineInv
<1>6. taker' = [order_id |-> next_order_id, user_id |-> user, side |-> r.side,
                limit |-> LimitOf(r), qty |-> r.qty, remaining_qty |-> r.qty,
                tif |-> IF r.type = "limit" THEN r.tif ELSE "ioc"]
  BY DEF HandleOrder
<1>7. taker' \in Takers
  <2>1. next_order_id \in Nat \ {0}
    BY DEF EngineInv, BooksInv
  <2>2. (IF r.type = "limit" THEN r.tif ELSE "ioc") \in TimesInForce
    BY <1>3 DEF TimesInForce
  <2>3. r.qty \in Nat
    BY <1>3
  <2> QED BY <1>3, <1>5, <1>6, <2>1, <2>2, <2>3 DEF Takers
<1>8. /\ call' \in Calls /\ call'.asset = r.asset /\ call'.settled = 0
      /\ call'.filled = 0 /\ call'.spent = 0 /\ call'.lock = LockOf(r)
  <2>1. PICK n \in Nat : n = LockOf(r)
    BY <1>4
  <2>2. call' = [asset |-> r.asset, lock |-> n, spent |-> 0, filled |-> 0, settled |-> 0,
                 status |-> "none"]
    BY <1>1, <2>1 DEF NoCall
  <2>3. n \in Int /\ "none" \in Statuses
    BY DEF Statuses
  <2> QED BY <1>3, <2>1, <2>2, <2>3 DEF Calls
<1>9. results = <<>>
  BY <1>1 DEF EngineInv, CallInv, InCall
<1>10. taker'.tif = "gtc" => taker'.limit \in Nat
  BY <1>5, <1>6
<1> QED BY <1>1, <1>3, <1>4, <1>6, <1>7, <1>8, <1>9, <1>10 DEF InCall

LEMMA HandleOrderEngineInv ==
  ASSUME EngineInv, NEW user \in Users, NEW r \in Requests, HandleOrder(user, r)
  PROVE  /\ EngineInv'
         /\ \A a \in Listed : books'[a].orders = books[a].orders
<1>1. /\ phase = "idle" /\ r.asset \in Listed /\ taker' \in Takers
      /\ taker'.order_id = next_order_id /\ call' \in Calls /\ call'.asset = r.asset
      /\ call'.settled = 0 /\ results' = results /\ results = <<>> /\ InCall'
      /\ taker'.tif = "gtc" => taker'.limit \in Nat
  BY AcceptedOrder
<1>2. /\ next_order_id' = next_order_id + 1
      /\ books' = [books EXCEPT ![r.asset] = Reserve(books[r.asset], next_order_id)]
      /\ phase' \in {"matching", "settling"} /\ fee_schedule' = fee_schedule
  BY DEF HandleOrder
<1>3. PICK b : b = Reserve(books[r.asset], next_order_id)
  OBVIOUS
<1>4. next_order_id \in Nat \ {0} /\ WellFormed(books[r.asset], Users)
  BY <1>1 DEF EngineInv, BooksInv
<1>5. /\ WellFormed(b, Users) /\ b.orders = books[r.asset].orders
      /\ b.next_order_id > next_order_id
  BY <1>3, <1>4, ReserveWellFormed
<1>6. /\ BooksInv' /\ books'[r.asset] = b
      /\ \A c \in Listed \ {r.asset} : books'[c] = books[c]
  <2>1. PICK n : n = next_order_id + 1
    OBVIOUS
  <2>2. n \in Nat \ {0} /\ next_order_id <= n /\ next_order_id' = n
    BY <1>2, <1>4, <2>1
  <2>3. books' = [books EXCEPT ![r.asset] = b]
    BY <1>2, <1>3
  <2>4. \A id \in DOMAIN b.orders :
           id \in DOMAIN books[r.asset].orders
           \/ (id < n /\ \A c \in Listed : id \notin DOMAIN books[c].orders)
    <3>1. DOMAIN b.orders = DOMAIN books[r.asset].orders
      BY <1>5
    <3> QED BY <3>1, Zenon
  <2> QED BY <1>1, <1>5, <2>2, <2>3, <2>4, BooksExcept DEF EngineInv
<1>7. \A a \in Listed : books'[a].orders = books[a].orders
  BY <1>5, <1>6
<1>8. IdsBelow(next_order_id)
  BY DEF EngineInv, BooksInv
<1>9. \A a \in Listed : \A id \in DOMAIN books'[a].orders : id < taker'.order_id
  BY <1>1, <1>7, <1>8 DEF IdsBelow
<1>10. taker'.order_id < books'[call'.asset].next_order_id
  <2>1. books'[call'.asset].next_order_id \in Nat
    BY <1>1, <1>5, <1>6 DEF WellFormed, BookType
  <2> QED BY <1>1, <1>4, <1>5, <1>6, <2>1
<1>11. taker'.order_id < next_order_id'
  BY <1>1, <1>2, <1>4
<1>12. CallInv'
  <2>1. call'.settled \in 0..Len(results')
    BY <1>1
  <2>2. results' \in Seq(Trades) /\ fee_schedule' \in FeeSchedules
    BY <1>1, <1>2 DEF EngineInv, CallInv
  <2>3. IdsBelow(taker.order_id)'
    BY <1>9 DEF IdsBelow
  <2> QED BY <1>1, <1>2, <1>10, <1>11, <2>1, <2>2, <2>3 DEF CallInv, InCall, Phases
<1> QED BY <1>6, <1>7, <1>12 DEF EngineInv

\* The trade of an iteration of the matching loop and the book after it.
LEMMA MatchStepTrade ==
  ASSUME EngineInv, MatchStep
  PROVE  /\ call.asset \in Listed /\ taker \in Takers
         /\ WellFormed(books[call.asset], Users)
         /\ WellFormed(AfterFill(books[call.asset], taker), Users)
         /\ FillQty(books[call.asset], taker) \in 1..taker.remaining_qty
         /\ DOMAIN AfterFill(books[call.asset], taker).orders \subseteq
              DOMAIN books[call.asset].orders
         /\ AfterFill(books[call.asset], taker).next_order_id = books[call.asset].next_order_id
         /\ taker' = [taker EXCEPT !.remaining_qty =
                        taker.remaining_qty - FillQty(books[call.asset], taker)]
         /\ taker' \in Takers
         /\ results' = Append(results, TradeOf(books[call.asset], taker))
         /\ TradeOf(books[call.asset], taker) \in Trades
<1>1. /\ call.asset \in Listed /\ taker \in Takers
      /\ Matches(books[call.asset], taker)
      /\ results' = Append(results, TradeOf(books[call.asset], taker))
      /\ taker' = [taker EXCEPT !.remaining_qty =
                     taker.remaining_qty - FillQty(books[call.asset], taker)]
  BY DEF EngineInv, CallInv, InCall, MatchStep
<1>2. WellFormed(books[call.asset], Users)
  BY <1>1 DEF EngineInv, BooksInv
<1>3. /\ taker.side \in Sides /\ taker.remaining_qty \in Nat /\ taker.user_id \in Users
      /\ taker.order_id \in Nat
  BY <1>1 DEF Takers
<1>4. /\ WellFormed(AfterFill(books[call.asset], taker), Users)
      /\ FillQty(books[call.asset], taker) \in 1..taker.remaining_qty
      /\ DOMAIN AfterFill(books[call.asset], taker).orders \subseteq
              DOMAIN books[call.asset].orders
      /\ AfterFill(books[call.asset], taker).next_order_id = books[call.asset].next_order_id
  BY <1>1, <1>2, <1>3, AfterFillWellFormed
<1>5. taker' \in Takers
  <2>1. taker.remaining_qty - FillQty(books[call.asset], taker) \in Nat
    BY <1>3, <1>4
  <2> QED BY <1>1, <2>1 DEF Takers
<1>6. TradeOf(books[call.asset], taker) \in Trades
  <2> DEFINE b == books[call.asset]
             s == Opposite(taker.side)
             m == Maker(b, taker.side)
             n == FillQty(b, taker)
  <2>1. /\ BestPrice(b, s) \in Nat /\ m \in DOMAIN b.orders /\ b.orders[m] \in Orders(Users)
    BY <1>1, <1>2, <1>3, MakerFacts DEF Matches
  <2>2. b.orders[m].user_id \in Users
    BY <2>1 DEF Orders
  <2>3. m \in Nat
    BY <1>2, <2>1 DEF WellFormed, BookType
  <2>4. n \in Nat \ {0}
    BY <1>3, <1>4
  <2>5. PICK u \in Users : u = b.orders[m].user_id
    BY <2>2
  <2>6. TradeOf(b, taker) =
          [buyer          |-> IF taker.side = "bid" THEN taker.user_id ELSE u,
           seller         |-> IF taker.side = "bid" THEN u ELSE taker.user_id,
           price          |-> BestPrice(b, s), qty |-> n,
           taker_order_id |-> taker.order_id, maker_order_id |-> m,
           taker_side     |-> taker.side]
    BY <2>5 DEF TradeOf
  <2> HIDE DEF b, s, m, n
  <2> QED BY <1>3, <2>1, <2>3, <2>4, <2>6 DEF Trades, b
<1> QED BY <1>1, <1>2, <1>4, <1>5, <1>6

LEMMA MatchStepEngineInv ==
  ASSUME EngineInv, MatchStep
  PROVE  EngineInv'
<1>1. PICK b : b = AfterFill(books[call.asset], taker)
  OBVIOUS
<1>2. /\ call.asset \in Listed /\ taker \in Takers /\ WellFormed(b, Users)
      /\ DOMAIN b.orders \subseteq DOMAIN books[call.asset].orders
      /\ b.next_order_id = books[call.asset].next_order_id
      /\ taker' \in Takers /\ results' = Append(results, TradeOf(books[call.asset], taker))
      /\ TradeOf(books[call.asset], taker) \in Trades
      /\ taker' = [taker EXCEPT !.remaining_qty =
                     taker.remaining_qty - FillQty(books[call.asset], taker)]
  BY <1>1, MatchStepTrade
<1>3. /\ phase = "matching" /\ phase' = "matching" /\ call' = call
      /\ next_order_id' = next_order_id /\ fee_schedule' = fee_schedule
      /\ books' = [books EXCEPT ![call.asset] = b]
  BY <1>1 DEF MatchStep
<1>4. /\ BooksInv' /\ books'[call.asset] = b
      /\ \A c \in Listed \ {call.asset} : books'[c] = books[c]
  <2>1. PICK n : n = next_order_id
    OBVIOUS
  <2>2. n \in Nat \ {0} /\ next_order_id <= n /\ next_order_id' = n /\ BooksInv
    BY <1>3, <2>1 DEF EngineInv, BooksInv
  <2>3. \A id \in DOMAIN b.orders :
          id \in DOMAIN books[call.asset].orders
          \/ (id < n /\ \A c \in Listed : id \notin DOMAIN books[c].orders)
    BY <1>2, Zenon
  <2>4. PICK a \in Listed : a = call.asset
    BY <1>2
  <2>5. books' = [books EXCEPT ![a] = b]
    BY <1>3, <2>4
  <2>6. \A id \in DOMAIN b.orders :
          id \in DOMAIN books[a].orders
          \/ (id < n /\ \A c \in Listed : id \notin DOMAIN books[c].orders)
    BY <2>3, <2>4
  <2>7. /\ BooksInv' /\ books'[a] = b
        /\ \A c \in Listed \ {a} : books'[c] = books[c]
    BY <1>2, <2>2, <2>5, <2>6, BooksExcept
  <2> QED BY <2>4, <2>7
<1>5. /\ taker'.order_id = taker.order_id /\ taker'.tif = taker.tif
      /\ taker'.limit = taker.limit
  BY <1>2 DEF Takers
<1>6. IdsBelow(taker.order_id)'
  <2>1. IdsBelow(taker.order_id)
    BY <1>3 DEF EngineInv, CallInv
  <2>2. \A a \in Listed : DOMAIN books'[a].orders \subseteq DOMAIN books[a].orders
    BY <1>2, <1>4
  <2> QED BY <1>5, <2>1, <2>2 DEF IdsBelow
<1>7. results' \in Seq(Trades) /\ Len(results') \in Nat
  BY <1>2 DEF EngineInv, CallInv
<1>8. CallInv'
  <2>1. call.settled = 0 /\ call \in Calls /\ fee_schedule \in FeeSchedules
        /\ taker.order_id < next_order_id /\ (taker.tif = "gtc" => taker.limit \in Nat)
        /\ taker.order_id < books[call.asset].next_order_id
    BY <1>3 DEF EngineInv, CallInv, InCall
  <2>2. call'.settled \in 0..Len(results')
    BY <1>3, <1>7, <2>1
  <2> QED BY <1>2, <1>3, <1>4, <1>5, <1>6, <1>7, <2>1, <2>2 DEF CallInv, InCall, Phases
<1> QED BY <1>4, <1>8 DEF EngineInv

\* What is left of a gtc order rests: its book gains the order and nothing else.
LEMMA CompleteEngineInv ==
  ASSUME EngineInv, Complete
  PROVE  /\ EngineInv'
         /\ \A c \in Listed \ {call.asset} : books'[c] = books[c]
         /\ \/ books' = books
            \/ /\ taker.remaining_qty > 0 /\ taker.tif = "gtc"
               /\ books'[call.asset].orders =
                    With(books[call.asset].orders, taker.order_id, RestingOrder(taker))
<1>1. /\ call.asset \in Listed /\ taker \in Takers /\ ~Matches(books[call.asset], taker)
      /\ taker.order_id < next_order_id /\ (taker.tif = "gtc" => taker.limit \in Nat)
      /\ IdsBelow(taker.order_id) /\ taker.order_id < books[call.asset].next_order_id
      /\ call \in Calls /\ call.settled \in 0..Len(results) /\ results \in Seq(Trades)
      /\ fee_schedule \in FeeSchedules
      /\ phase = "matching" /\ phase' = "settling"
      /\ UNCHANGED <<next_order_id, fee_schedule, taker, results, call>>
  BY DEF EngineInv, CallInv, InCall, Complete
<1>2. CallInv'
  BY <1>1 DEF CallInv, InCall, Phases
<1>3. CASE ~(taker.remaining_qty > 0 /\ taker.tif = "gtc")
  <2>1. books' = books
    BY <1>3 DEF Complete
  <2>2. BooksInv'
    BY <1>1, <2>1 DEF EngineInv, BooksInv, IdsBelow, IdsApart
  <2> QED BY <1>2, <2>1, <2>2 DEF EngineInv
<1>4. CASE taker.remaining_qty > 0 /\ taker.tif = "gtc"
  <2>1. PICK b : b = Rest(books[call.asset], taker)
    OBVIOUS
  <2>2. books' = [books EXCEPT ![call.asset] = b]
    BY <1>4, <2>1 DEF Complete
  <2>3. /\ taker.side \in Sides /\ taker.limit \in Nat /\ taker.user_id \in Users
        /\ taker.remaining_qty \in Nat \ {0} /\ taker.order_id \in Nat \ {0}
    BY <1>1, <1>4 DEF Takers
  <2>4. WellFormed(books[call.asset], Users) /\ books[call.asset].next_order_id \in Nat
    BY <1>1 DEF EngineInv, BooksInv, WellFormed, BookType
  <2>5. taker.order_id \in 1..(books[call.asset].next_order_id - 1)
    BY <1>1, <2>3, <2>4
  <2>6. \A id \in DOMAIN books[call.asset].orders : id < taker.order_id
    BY <1>1 DEF IdsBelow
  <2>7. /\ WellFormed(b, Users)
        /\ b.orders = With(books[call.asset].orders, taker.order_id, RestingOrder(taker))
    BY <1>1, <2>1, <2>3, <2>4, <2>5, <2>6, RestWellFormed
  <2>8. /\ BooksInv' /\ books'[call.asset] = b
        /\ \A c \in Listed \ {call.asset} : books'[c] = books[c]
    <3>0. PICK n : n = next_order_id
      OBVIOUS
    <3>1. n \in Nat \ {0} /\ next_order_id <= n /\ next_order_id' = n /\ BooksInv
      BY <1>1, <3>0 DEF EngineInv, BooksInv
    <3>2. \A c \in Listed : taker.order_id \notin DOMAIN books[c].orders
      <4>1. ~(taker.order_id < taker.order_id)
        BY <2>3
      <4> QED BY <1>1, <4>1 DEF IdsBelow
    <3>3. DOMAIN b.orders = DOMAIN books[call.asset].orders \cup {taker.order_id}
      BY <2>7 DEF With
    <3>4. \A id \in DOMAIN b.orders :
            id \in DOMAIN books[call.asset].orders
            \/ (id < n /\ \A c \in Listed : id \notin DOMAIN books[c].orders)
      BY <1>1, <3>0, <3>2, <3>3, Zenon
    <3>5. PICK a \in Listed : a = call.asset
      BY <1>1
    <3>6. books' = [books EXCEPT ![a] = b]
      BY <2>2, <3>5
    <3>7. \A id \in DOMAIN b.orders :
            id \in DOMAIN books[a].orders
            \/ (id < n /\ \A c \in Listed : id \notin DOMAIN books[c].orders)
      BY <3>4, <3>5
    <3>8. /\ BooksInv' /\ books'[a] = b
          /\ \A c \in Listed \ {a} : books'[c] = books[c]
      BY <2>7, <3>1, <3>6, <3>7, BooksExcept
    <3> QED BY <3>5, <3>8
  <2> QED BY <1>2, <1>4, <2>7, <2>8 DEF EngineInv
<1> QED BY <1>3, <1>4

\* The numbers of a trade.
LEMMA TradeNumbers ==
  ASSUME fee_schedule \in FeeSchedules, NEW trade \in Trades
  PROVE  /\ QuoteAmount(trade) \in Nat /\ trade.qty \in Nat
         /\ BuyerFee(trade) \in Nat /\ SellerFee(trade) \in Nat
         /\ trade.buyer \in Users /\ trade.seller \in Users
<1>1. /\ trade.price \in Nat /\ trade.qty \in Nat /\ trade.buyer \in Users /\ trade.seller \in Users
  BY DEF Trades
<1>2. trade.price * trade.qty \in Nat
  BY <1>1
<1>3. QuoteAmount(trade) \in Nat
  BY <1>2, WrapType DEF QuoteAmount
<1>4. MakerFee(QuoteAmount(trade)) \in Nat /\ TakerFee(QuoteAmount(trade)) \in Nat
  BY <1>3, FeesType
<1> QED BY <1>1, <1>3, <1>4 DEF BuyerFee, SellerFee

\* The step that settles a trade.
LEMMA SettleFillFacts ==
  ASSUME EngineInv, SettleFill
  PROVE  /\ phase = "settling" /\ call.asset \in Listed /\ taker \in Takers
         /\ call.settled + 1 \in 1..Len(results) /\ call.settled \in Nat /\ Len(results) \in Nat
         /\ results[call.settled + 1] \in Trades
         /\ call' \in Calls /\ call'.asset = call.asset /\ call'.settled = call.settled + 1
         /\ call'.filled = call.filled + results[call.settled + 1].qty
         /\ call'.lock = call.lock
         /\ UNCHANGED <<books, next_order_id, fee_schedule, phase, taker, results, depth, minted>>
<1>1. /\ phase = "settling" /\ call.settled < Len(results)
      /\ UNCHANGED <<books, next_order_id, fee_schedule, phase, taker, results, depth, minted>>
      /\ ApplyFill(call.asset, results[call.settled + 1])
  BY DEF SettleFill
<1>2. /\ call.asset \in Listed /\ taker \in Takers /\ call \in Calls
      /\ results \in Seq(Trades) /\ fee_schedule \in FeeSchedules
  BY <1>1 DEF EngineInv, CallInv, InCall
<1>3. call.settled \in Nat /\ call.filled \in Int /\ call.spent \in Int /\ Len(results) \in Nat
  BY <1>2 DEF Calls
<1>4. call.settled + 1 \in 1..Len(results)
  BY <1>1, <1>3
<1>5. PICK trade \in Trades : trade = results[call.settled + 1]
  BY <1>2, <1>4
<1>6. /\ QuoteAmount(trade) \in Nat /\ trade.qty \in Nat /\ BuyerFee(trade) \in Nat
  BY <1>2, TradeNumbers
<1>7. PICK n \in Int : n = IF taker.side = "bid" THEN call.spent + QuoteAmount(trade) + BuyerFee(trade)
                           ELSE call.spent
  BY <1>3, <1>6
<1>8. call' = [call EXCEPT !.spent = n, !.filled = call.filled + trade.qty,
                           !.settled = call.settled + 1]
  BY <1>1, <1>5, <1>7 DEF ApplyFill
<1>9. /\ call' \in Calls /\ call'.asset = call.asset /\ call'.settled = call.settled + 1
      /\ call'.filled = call.filled + trade.qty /\ call'.lock = call.lock
  <2>1. call.filled + trade.qty \in Int /\ call.settled + 1 \in Nat
    BY <1>3, <1>6
  <2>2. PICK f \in Int : f = call.filled + trade.qty
    BY <2>1
  <2>3. PICK k \in Nat : k = call.settled + 1
    BY <2>1
  <2>4. call' = [call EXCEPT !.spent = n, !.filled = f, !.settled = k]
    BY <1>8, <2>2, <2>3
  <2> QED BY <1>2, <2>2, <2>3, <2>4 DEF Calls
<1> QED BY <1>1, <1>2, <1>3, <1>4, <1>5, <1>9

\* The steps of the engine that change no book.
LEMMA OtherEngineInv ==
  ASSUME EngineInv,
         \/ SettleFill \/ Reconcile \/ Return
         \/ \E user \in Users, amount \in OnrampAmounts : HandleOnramp(user, amount)
         \/ \E user \in Users, asset \in Symbols \cap Listed, amount \in DepositAmounts :
              HandleDeposit(user, asset, amount)
  PROVE  EngineInv' /\ books' = books /\ next_order_id' = next_order_id
<1>1. UNCHANGED <<books, next_order_id, fee_schedule>>
  BY DEF SettleFill, Reconcile, Return, HandleOnramp, HandleDeposit
<1>2. BooksInv'
  BY <1>1 DEF EngineInv, BooksInv, IdsBelow, IdsApart
<1>3. CASE SettleFill
  <2>1. call'.settled \in 0..Len(results')
    BY <1>3, SettleFillFacts
  <2>2. CallInv'
    BY <1>3, <2>1, SettleFillFacts DEF EngineInv, CallInv, InCall, Phases, IdsBelow
  <2> QED BY <1>1, <1>2, <2>2 DEF EngineInv
<1>4. CASE Reconcile
  <2>1. PICK status \in Statuses : call' = [call EXCEPT !.status = status]
    BY <1>4 DEF Reconcile, FinalStatus, Statuses
  <2>2. call' \in Calls /\ call'.asset = call.asset
    BY <2>1 DEF EngineInv, CallInv, Calls
  <2>3. CallInv'
    BY <1>4, <2>2 DEF EngineInv, CallInv, InCall, Phases, Reconcile
  <2> QED BY <1>1, <1>2, <2>3 DEF EngineInv
<1>5. CASE Return
  <2>1. CallInv'
    BY <1>5, NoCallType DEF EngineInv, CallInv, InCall, Phases, Return
  <2> QED BY <1>1, <1>2, <2>1 DEF EngineInv
<1>6. CASE \/ \E user \in Users, amount \in OnrampAmounts : HandleOnramp(user, amount)
           \/ \E user \in Users, asset \in Symbols \cap Listed, amount \in DepositAmounts :
                HandleDeposit(user, asset, amount)
  <2>1. phase = "idle" /\ UNCHANGED <<phase, taker, results, call, fee_schedule>>
    BY <1>6 DEF HandleOnramp, HandleDeposit
  <2>2. CallInv'
    BY <2>1 DEF EngineInv, CallInv, InCall, Phases
  <2> QED BY <1>1, <1>2, <2>2 DEF EngineInv
<1> QED BY <1>3, <1>4, <1>5, <1>6

\* handle_cancel takes the order out of the book it rests in.
LEMMA HandleCancelFacts ==
  ASSUME EngineInv, NEW user \in Users, NEW id, HandleCancel(user, id)
  PROVE  \E a \in Listed :
           /\ EngineInv' /\ phase = "idle" /\ phase' = "replied"
           /\ call' = [NoCall EXCEPT !.asset = a, !.status = "cancelled"] /\ call'.asset = a
           /\ id \in DOMAIN books[a].orders /\ books[a].orders[id].user_id = user
           /\ books[a].orders[id] \in Orders(Users)
           /\ books'[a].orders = Without(books[a].orders, id)
           /\ \A c \in Listed \ {a} : books'[c] = books[c]
           /\ Move(Unlock, user, a, books[a].orders[id].side, CancelRefund(books[a].orders[id]))
           /\ UNCHANGED <<next_order_id, fee_schedule, taker, results, minted>>
<1>1. PICK i \in DOMAIN Markets :
        /\ phase = "idle" /\ phase' = "replied"
        /\ Owns(user, Markets[i], id)
        /\ books' = [books EXCEPT ![Markets[i]] = Cancel(books[Markets[i]], id)]
        /\ Move(Unlock, user, Markets[i], books[Markets[i]].orders[id].side,
                CancelRefund(books[Markets[i]].orders[id]))
        /\ call' = [NoCall EXCEPT !.asset = Markets[i], !.status = "cancelled"]
        /\ UNCHANGED <<next_order_id, fee_schedule, taker, results, minted>>
  BY Zenon DEF HandleCancel
<1>2. PICK a \in Listed : a = Markets[i]
  BY DEF Markets, Listed
<1>3. PICK b : b = Cancel(books[a], id)
  OBVIOUS
<1>4. /\ id \in DOMAIN books[a].orders /\ books[a].orders[id].user_id = user
      /\ books' = [books EXCEPT ![a] = b] /\ WellFormed(books[a], Users) /\ BooksInv
  BY <1>1, <1>2, <1>3 DEF Owns, EngineInv, BooksInv
<1>5. /\ WellFormed(b, Users) /\ b.orders = Without(books[a].orders, id)
  BY <1>3, <1>4, CancelWellFormed
<1>6. books[a].orders[id] \in Orders(Users)
  BY <1>4 DEF WellFormed, BookType
<1>7. /\ BooksInv' /\ books'[a] = b
      /\ \A c \in Listed \ {a} : books'[c] = books[c]
  <2>1. PICK n : n = next_order_id
    OBVIOUS
  <2>2. n \in Nat \ {0} /\ next_order_id <= n /\ next_order_id' = n
    BY <1>1, <1>4, <2>1 DEF BooksInv
  <2>3. DOMAIN b.orders \subseteq DOMAIN books[a].orders
    BY <1>5 DEF Without
  <2>4. \A k \in DOMAIN b.orders :
          k \in DOMAIN books[a].orders
          \/ (k < n /\ \A c \in Listed : k \notin DOMAIN books[c].orders)
    BY <2>3, Zenon
  <2> QED BY <1>4, <1>5, <2>2, <2>4, BooksExcept
<1>8. call' \in Calls /\ call'.asset = a
  <2>1. call' = [asset |-> a, lock |-> 0, spent |-> 0, filled |-> 0, settled |-> 0,
                 status |-> "cancelled"]
    BY <1>1, <1>2 DEF NoCall
  <2>2. "cancelled" \in Statuses
    BY DEF Statuses
  <2> QED BY <2>1, <2>2 DEF Calls
<1>9. CallInv'
  BY <1>1, <1>8 DEF EngineInv, CallInv, InCall, Phases
<1>10. EngineInv'
  BY <1>7, <1>9 DEF EngineInv
<1>11. call' = [NoCall EXCEPT !.asset = a, !.status = "cancelled"]
  BY <1>1, <1>2
<1>12. Move(Unlock, user, a, books[a].orders[id].side, CancelRefund(books[a].orders[id]))
  BY <1>1, <1>2
<1> QED BY <1>1, <1>4, <1>5, <1>6, <1>7, <1>8, <1>10, <1>11, <1>12

LEMMA ResetEngineInv ==
  ASSUME EngineInv, HandleReset
  PROVE  EngineInv' /\ \A a \in Listed : books'[a] = NewBook
<1>1. /\ books' = [a \in Listed |-> NewBook] /\ next_order_id' = 1 /\ phase = "idle"
      /\ UNCHANGED <<fee_schedule, phase, taker, results, call>>
  BY DEF HandleReset, FreshBooks
<1>2. \A a \in Listed : books'[a] = NewBook /\ WellFormed(books'[a], Users)
                        /\ DOMAIN books'[a].orders = {}
  BY <1>1, NewBookWellFormed DEF NewBook, EmptyMap
<1>3. BooksInv'
  BY <1>1, <1>2 DEF BooksInv, IdsBelow, IdsApart
<1>4. CallInv'
  BY <1>1 DEF EngineInv, CallInv, InCall, Phases
<1> QED BY <1>2, <1>3, <1>4 DEF EngineInv

LEMMA NextEngineInv == EngineInv /\ [Next]_vars => EngineInv'
<1> SUFFICES ASSUME EngineInv, [Next]_vars PROVE EngineInv'
  OBVIOUS
<1>1. ASSUME NEW user \in Users, NEW r \in Requests, HandleOrder(user, r) PROVE EngineInv'
  BY <1>1, HandleOrderEngineInv
<1>2. CASE MatchStep
  BY <1>2, MatchStepEngineInv
<1>3. CASE Complete
  BY <1>3, CompleteEngineInv
<1>4. ASSUME NEW user \in Users, NEW id \in 1..MaxOrderId, HandleCancel(user, id) PROVE EngineInv'
  BY <1>4, HandleCancelFacts
<1>5. CASE HandleReset
  BY <1>5, ResetEngineInv
<1>6. CASE UNCHANGED vars
  BY <1>6 DEF vars, EngineInv, BooksInv, CallInv, InCall, IdsBelow, IdsApart
<1> QED
  BY <1>1, <1>2, <1>3, <1>4, <1>5, <1>6, RefusedEngineInv, OtherEngineInv DEF Next

LEMMA EngineInvariance == Spec => []EngineInv
BY InitEngineInv, NextEngineInv, PTL DEF Spec

LEMMA UniqueIds == EngineInv => IdsGloballyUnique
BY DEF EngineInv, BooksInv, IdsBelow, IdsApart, IdsGloballyUnique

\* An id names at most one open order in all markets, after any number of
\* orders, cancellations and resets: handle_cancel, which takes the first book
\* that holds the id, cancels the order that was meant.
THEOREM IdsAlwaysUnique == Spec => []IdsGloballyUnique
BY EngineInvariance, UniqueIds, PTL

-----------------------------------------------------------------------------
\* The ledger entries against the balances.

Total(balance) == balance.available + balance.locked

Entries == [Books -> [Currencies -> Int]]

LedgerType ==
  /\ BalancesType
  /\ entries \in Entries
  /\ minted \in [usd : Int, stock : [Listed -> Int]]

\* No account gains or loses.
SameTotals ==
  /\ \A u \in Accounts : Total(usd'[u]) = Total(usd[u])
  /\ \A a \in Listed, u \in Accounts : Total(stock'[a][u]) = Total(stock[a][u])

LedgerInv == LedgerType /\ LedgerReconciles

LEMMA BooksFinite == IsFiniteSet(Books)
<1>1. IsFiniteSet(Accounts)
  BY UsersAssumption, FS_AddElement DEF Accounts
<1> QED BY <1>1, FS_AddElement DEF Books

\* What the entries in a currency add up to.
Column(t, c) == SumFunctionOnSet([b \in Books |-> t[b][c]], Books)

LEMMA ColumnType ==
  ASSUME NEW t \in Entries, NEW c \in Currencies
  PROVE  Column(t, c) \in Int
<1>1. PICK f : f = [b \in Books |-> t[b][c]]
  OBVIOUS
<1>2. \A b \in Books : f[b] \in Int
  BY <1>1 DEF Entries
<1>3. SumFunctionOnSet(f, Books) \in Int
  BY <1>2, BooksFinite, SumFacts
<1> QED BY <1>1, <1>3 DEF Column

\* e is the table t with n more for one account and currency.
IsCredit(e, t, a, c, n) ==
  /\ e \in Entries
  /\ \A b \in Books, d \in Currencies : e[b][d] = t[b][d] + (IF b = a /\ d = c THEN n ELSE 0)
  /\ \A d \in Currencies : Column(e, d) = Column(t, d) + (IF d = c THEN n ELSE 0)

LEMMA CreditIs ==
  ASSUME NEW t \in Entries, NEW a \in Books, NEW c \in Currencies, NEW n \in Int
  PROVE  IsCredit(Credit(t, a, c, n), t, a, c, n)
<1>1. t[a][c] + n \in Int
  BY DEF Entries
<1>2. \A b \in Books, d \in Currencies : t[b][d] \in Int
  BY DEF Entries
<1>3. Credit(t, a, c, n) = [t EXCEPT ![a][c] = t[a][c] + n]
  BY DEF Credit
<1>4. PICK v \in Int : v = t[a][c] + n
  BY <1>1
<1>5. Credit(t, a, c, n) = [t EXCEPT ![a][c] = v]
  BY <1>3, <1>4
<1>6. Credit(t, a, c, n) \in Entries
  BY <1>5 DEF Entries
<1>7. \A b \in Books, d \in Currencies :
        Credit(t, a, c, n)[b][d] = IF b = a /\ d = c THEN v ELSE t[b][d]
  BY <1>5 DEF Entries
<1>8. \A b \in Books, d \in Currencies :
        Credit(t, a, c, n)[b][d] = t[b][d] + (IF b = a /\ d = c THEN n ELSE 0)
  BY <1>2, <1>4, <1>7
<1>9. ASSUME NEW d \in Currencies
      PROVE  Column(Credit(t, a, c, n), d) = Column(t, d) + (IF d = c THEN n ELSE 0)
  <2>1. PICK f : f = [b \in Books |-> t[b][d]]
    OBVIOUS
  <2>2. PICK g : g = [b \in Books |-> Credit(t, a, c, n)[b][d]]
    OBVIOUS
  <2>3. PICK m \in Int : m = IF d = c THEN n ELSE 0
    OBVIOUS
  <2>4. /\ \A b \in Books : f[b] \in Int
        /\ g[a] = f[a] + m
        /\ \A b \in Books \ {a} : g[b] = f[b]
    BY <1>2, <1>8, <2>1, <2>2, <2>3
  <2>5. SumFunctionOnSet(f, Books) \in Int /\ g[a] \in Int /\ f[a] \in Int
    BY <2>4, BooksFinite, SumFacts
  <2>6. SumFunctionOnSet(g, Books) = SumFunctionOnSet(f, Books) - f[a] + g[a]
    <3>1. \A b \in Books : f[b] \in Int
      BY <2>4
    <3>2. \A b \in Books \ {a} : g[b] = f[b]
      BY <2>4
    <3>3. IsFiniteSet(Books) /\ a \in Books /\ g[a] \in Int
      BY <2>5, BooksFinite
    <3> HIDE DEF Books
    <3> QED BY <3>1, <3>2, <3>3, SumChange
  <2>7. SumFunctionOnSet(g, Books) = SumFunctionOnSet(f, Books) + m
    BY <2>4, <2>5, <2>6
  <2> QED BY <2>1, <2>2, <2>3, <2>7 DEF Column
<1> QED BY <1>6, <1>8, <1>9 DEF IsCredit

\* Locking and unlocking move money within an account.
LEMMA MoveKeepsTotals ==
  ASSUME BalancesType, NEW user \in Accounts, NEW asset \in Listed, NEW side,
         NEW amount \in Int,
         Move(Lock, user, asset, side, amount) \/ Move(Unlock, user, asset, side, amount)
  PROVE  BalancesType' /\ SameTotals
<1>1. \A x \in Balance : /\ x.available \in Int /\ x.locked \in Int
                         /\ Lock(x, amount) \in Balance /\ Total(Lock(x, amount)) = Total(x)
                         /\ Unlock(x, amount) \in Balance /\ Total(Unlock(x, amount)) = Total(x)
  <2> TAKE x \in Balance
  <2>1. PICK v \in Int : v = x.available
    BY DEF Balance
  <2>2. PICK l \in Int : l = x.locked
    BY DEF Balance
  <2>3. Lock(x, amount) = [available |-> v - amount, locked |-> l + amount]
    BY <2>1, <2>2 DEF Lock
  <2>4. Unlock(x, amount) = [available |-> v + amount, locked |-> l - amount]
    BY <2>1, <2>2 DEF Unlock
  <2>5. (v - amount) + (l + amount) = v + l /\ (v + amount) + (l - amount) = v + l
    OBVIOUS
  <2> QED BY <2>1, <2>2, <2>3, <2>4, <2>5 DEF Balance, Total
<1>2. usd[user] \in Balance /\ stock[asset][user] \in Balance
  BY DEF BalancesType
<1>3. PICK x \in Balance :
        /\ Total(x) = Total(usd[user])
        /\ usd' = IF side = "bid" THEN [usd EXCEPT ![user] = x] ELSE usd
  BY <1>1, <1>2 DEF Move
<1>4. PICK y \in Balance :
        /\ Total(y) = Total(stock[asset][user])
        /\ stock' = IF side = "ask" THEN [stock EXCEPT ![asset][user] = y] ELSE stock
  BY <1>1, <1>2 DEF Move
<1>5. usd' \in [Accounts -> Balance] /\ \A u \in Accounts : Total(usd'[u]) = Total(usd[u])
  BY <1>3 DEF BalancesType
<1>6. /\ stock' \in [Listed -> [Accounts -> Balance]]
      /\ \A a \in Listed, u \in Accounts : Total(stock'[a][u]) = Total(stock[a][u])
  BY <1>4 DEF BalancesType
<1> QED BY <1>5, <1>6 DEF BalancesType, SameTotals

\* What apply_fill does to the accounts.
LEMMA ApplyFillTotals ==
  ASSUME BalancesType, fee_schedule \in FeeSchedules, NEW asset \in Listed,
         NEW trade \in Trades, ApplyFill(asset, trade)
  PROVE  /\ BalancesType'
         /\ \A u \in Accounts :
              Total(usd'[u]) = Total(usd[u])
                + (IF u = trade.buyer THEN -(QuoteAmount(trade) + BuyerFee(trade)) ELSE 0)
                + (IF u = trade.seller THEN SatSub(QuoteAmount(trade), SellerFee(trade)) ELSE 0)
                + (IF u = Treasury THEN BuyerFee(trade) + SellerFee(trade) ELSE 0)
         /\ \A a \in Listed, u \in Accounts :
              Total(stock'[a][u]) = Total(stock[a][u])
                + (IF a = asset /\ u = trade.buyer THEN trade.qty ELSE 0)
                + (IF a = asset /\ u = trade.seller THEN -trade.qty ELSE 0)
<1>1. PICK q \in Nat : q = QuoteAmount(trade)
  BY TradeNumbers
<1>2. PICK bf \in Nat : bf = BuyerFee(trade)
  BY TradeNumbers
<1>3. PICK sf \in Nat : sf = SellerFee(trade)
  BY TradeNumbers
<1>4. PICK n \in Nat : n = trade.qty
  BY TradeNumbers
<1>5. PICK buyer \in Accounts : buyer = trade.buyer /\ buyer \in Users
  BY TradeNumbers DEF Accounts
<1>6. PICK seller \in Accounts : seller = trade.seller /\ seller \in Users
  BY TradeNumbers DEF Accounts
<1>7. PICK cr \in Nat : cr = SatSub(q, sf)
  <2>1. q > sf => q - sf \in Nat
    OBVIOUS
  <2>2. SatSub(q, sf) \in Nat
    BY <2>1 DEF SatSub
  <2> QED BY <2>2
<1>8. Treasury \in Accounts
  BY DEF Accounts
<1>9. PICK paid : paid = [usd EXCEPT ![buyer].locked = @ - (q + bf)]
  OBVIOUS
<1>10. PICK sold : sold = [paid EXCEPT ![seller].available = @ + cr]
  OBVIOUS
<1>11. usd' = [sold EXCEPT ![Treasury].available = @ + bf + sf]
  BY <1>1, <1>2, <1>3, <1>5, <1>6, <1>7, <1>9, <1>10 DEF ApplyFill, SellerCredit
<1>12. /\ paid \in [Accounts -> Balance]
       /\ \A u \in Accounts : Total(paid[u]) = Total(usd[u]) + (IF u = buyer THEN -(q + bf) ELSE 0)
  BY <1>9 DEF BalancesType, Balance, Total
<1>13. /\ sold \in [Accounts -> Balance]
       /\ \A u \in Accounts : Total(sold[u]) = Total(paid[u]) + (IF u = seller THEN cr ELSE 0)
  BY <1>10, <1>12 DEF Balance, Total
<1>14. /\ usd' \in [Accounts -> Balance]
       /\ \A u \in Accounts : Total(usd'[u]) = Total(sold[u]) + (IF u = Treasury THEN bf + sf ELSE 0)
  BY <1>8, <1>11, <1>13 DEF Balance, Total
<1>15. \A u \in Accounts : Total(usd[u]) \in Int
  BY DEF BalancesType, Balance, Total
<1>16. \A u \in Accounts :
         Total(usd'[u]) = Total(usd[u]) + (IF u = buyer THEN -(q + bf) ELSE 0)
           + (IF u = seller THEN cr ELSE 0) + (IF u = Treasury THEN bf + sf ELSE 0)
  BY <1>12, <1>13, <1>14, <1>15
<1>17. PICK got : got = [stock EXCEPT ![asset][buyer].available = @ + n]
  OBVIOUS
<1>18. stock' = [got EXCEPT ![asset][seller].locked = @ - n]
  BY <1>4, <1>5, <1>6, <1>17 DEF ApplyFill
<1>19. /\ got \in [Listed -> [Accounts -> Balance]]
       /\ \A a \in Listed, u \in Accounts :
            Total(got[a][u]) = Total(stock[a][u]) + (IF a = asset /\ u = buyer THEN n ELSE 0)
  BY <1>17 DEF BalancesType, Balance, Total
<1>20. /\ stock' \in [Listed -> [Accounts -> Balance]]
       /\ \A a \in Listed, u \in Accounts :
            Total(stock'[a][u]) = Total(got[a][u]) + (IF a = asset /\ u = seller THEN -n ELSE 0)
  BY <1>18, <1>19 DEF Balance, Total
<1>21. \A a \in Listed, u \in Accounts :
         Total(stock'[a][u]) = Total(stock[a][u]) + (IF a = asset /\ u = buyer THEN n ELSE 0)
           + (IF a = asset /\ u = seller THEN -n ELSE 0)
  BY <1>19, <1>20
<1> QED
  BY <1>1, <1>2, <1>3, <1>4, <1>5, <1>6, <1>7, <1>14, <1>16, <1>20, <1>21 DEF BalancesType

\* The entries of a trade.
LEMMA TradeEntriesAre ==
  ASSUME entries \in Entries, fee_schedule \in FeeSchedules, NEW asset \in Listed,
         NEW trade \in Trades
  PROVE  /\ TradeEntries(asset, trade) \in Entries
         /\ \A b \in Books :
              TradeEntries(asset, trade)[b]["usd"] = entries[b]["usd"]
                + (IF b = trade.buyer THEN -(QuoteAmount(trade) + BuyerFee(trade)) ELSE 0)
                + (IF b = trade.seller THEN SatSub(QuoteAmount(trade), SellerFee(trade)) ELSE 0)
                + (IF b = Treasury THEN BuyerFee(trade) + SellerFee(trade) ELSE 0)
         /\ \A b \in Books, a \in Listed :
              TradeEntries(asset, trade)[b][a] = entries[b][a]
                + (IF a = asset /\ b = trade.buyer THEN trade.qty ELSE 0)
                + (IF a = asset /\ b = trade.seller THEN -trade.qty ELSE 0)
         /\ Column(TradeEntries(asset, trade), "usd") = Column(entries, "usd")
              - (QuoteAmount(trade) + BuyerFee(trade))
              + SatSub(QuoteAmount(trade), SellerFee(trade)) + BuyerFee(trade) + SellerFee(trade)
         /\ \A a \in Listed : Column(TradeEntries(asset, trade), a) = Column(entries, a)
<1>1. PICK q \in Nat : q = QuoteAmount(trade)
  BY TradeNumbers
<1>2. PICK bf \in Nat : bf = BuyerFee(trade)
  BY TradeNumbers
<1>3. PICK sf \in Nat : sf = SellerFee(trade)
  BY TradeNumbers
<1>4. PICK n \in Nat : n = trade.qty
  BY TradeNumbers
<1>5. PICK buyer \in Books : buyer = trade.buyer
  BY TradeNumbers DEF Accounts, Books
<1>6. PICK seller \in Books : seller = trade.seller
  BY TradeNumbers DEF Accounts, Books
<1>7. PICK cr \in Nat : cr = SatSub(q, sf)
  <2>1. q > sf => q - sf \in Nat
    OBVIOUS
  <2>2. SatSub(q, sf) \in Nat
    BY <2>1 DEF SatSub
  <2> QED BY <2>2
<1>8. /\ Treasury \in Books /\ "usd" \in Currencies /\ asset \in Currencies
      /\ \A a \in Listed : a \in Currencies /\ a # "usd"
      /\ -(q + bf) \in Int /\ -n \in Int /\ bf + sf \in Int /\ n \in Int /\ cr \in Int
  BY DEF Accounts, Books, Currencies, Listed
<1>9. PICK e1 : e1 = Credit(entries, buyer, "usd", -(q + bf))
  OBVIOUS
<1>10. PICK e2 : e2 = Credit(e1, buyer, asset, n)
  OBVIOUS
<1>11. PICK e3 : e3 = Credit(e2, seller, "usd", cr)
  OBVIOUS
<1>12. PICK e4 : e4 = Credit(e3, seller, asset, -n)
  OBVIOUS
<1>13. PICK e5 : e5 = Credit(e4, Treasury, "usd", bf + sf)
  OBVIOUS
<1>14. TradeEntries(asset, trade) = e5
  BY <1>1, <1>2, <1>3, <1>4, <1>5, <1>6, <1>7, <1>9, <1>10, <1>11, <1>12, <1>13, Zenon
     DEF TradeEntries
<1>15. IsCredit(e1, entries, buyer, "usd", -(q + bf))
  BY <1>8, <1>9, CreditIs
<1>16. IsCredit(e2, e1, buyer, asset, n)
  <2>1. e1 \in Entries
    BY <1>15 DEF IsCredit
  <2> QED BY <1>8, <1>10, <2>1, CreditIs
<1>17. IsCredit(e3, e2, seller, "usd", cr)
  <2>1. e2 \in Entries
    BY <1>16 DEF IsCredit
  <2> QED BY <1>8, <1>11, <2>1, CreditIs
<1>18. IsCredit(e4, e3, seller, asset, -n)
  <2>1. e3 \in Entries
    BY <1>17 DEF IsCredit
  <2> QED BY <1>8, <1>12, <2>1, CreditIs
<1>19. IsCredit(e5, e4, Treasury, "usd", bf + sf)
  <2>1. e4 \in Entries
    BY <1>18 DEF IsCredit
  <2> QED BY <1>8, <1>13, <2>1, CreditIs
<1>20. \A b \in Books, d \in Currencies : entries[b][d] \in Int
  BY DEF Entries
<1>21. \A b \in Books :
         e5[b]["usd"] = entries[b]["usd"] + (IF b = buyer THEN -(q + bf) ELSE 0)
           + (IF b = seller THEN cr ELSE 0) + (IF b = Treasury THEN bf + sf ELSE 0)
  <2> TAKE b \in Books
  <2>1. "usd" # asset /\ entries[b]["usd"] \in Int
    BY <1>8, <1>20
  <2>2. /\ e1[b]["usd"] = entries[b]["usd"] + (IF b = buyer THEN -(q + bf) ELSE 0)
        /\ e2[b]["usd"] = e1[b]["usd"] + 0
        /\ e3[b]["usd"] = e2[b]["usd"] + (IF b = seller THEN cr ELSE 0)
        /\ e4[b]["usd"] = e3[b]["usd"] + 0
        /\ e5[b]["usd"] = e4[b]["usd"] + (IF b = Treasury THEN bf + sf ELSE 0)
    BY <1>8, <1>15, <1>16, <1>17, <1>18, <1>19, <2>1 DEF IsCredit
  <2> QED BY <2>1, <2>2
<1>22. \A b \in Books, a \in Listed :
         e5[b][a] = entries[b][a] + (IF a = asset /\ b = buyer THEN n ELSE 0)
           + (IF a = asset /\ b = seller THEN -n ELSE 0)
  <2> TAKE b \in Books, a \in Listed
  <2>1. a # "usd" /\ a \in Currencies /\ entries[b][a] \in Int
    BY <1>8, <1>20
  <2>2. /\ e1[b][a] = entries[b][a] + 0
        /\ e2[b][a] = e1[b][a] + (IF a = asset /\ b = buyer THEN n ELSE 0)
        /\ e3[b][a] = e2[b][a] + 0
        /\ e4[b][a] = e3[b][a] + (IF a = asset /\ b = seller THEN -n ELSE 0)
        /\ e5[b][a] = e4[b][a] + 0
    BY <1>15, <1>16, <1>17, <1>18, <1>19, <2>1 DEF IsCredit
  <2> QED BY <2>1, <2>2
<1>23. Column(e5, "usd") = Column(entries, "usd") - (q + bf) + cr + bf + sf
  <2>1. "usd" # asset /\ Column(entries, "usd") \in Int
    BY <1>8, ColumnType
  <2>2. /\ Column(e1, "usd") = Column(entries, "usd") + (-(q + bf))
        /\ Column(e2, "usd") = Column(e1, "usd") + 0
        /\ Column(e3, "usd") = Column(e2, "usd") + cr
        /\ Column(e4, "usd") = Column(e3, "usd") + 0
        /\ Column(e5, "usd") = Column(e4, "usd") + (bf + sf)
    BY <1>8, <1>15, <1>16, <1>17, <1>18, <1>19, <2>1 DEF IsCredit
  <2> QED BY <2>1, <2>2
<1>24. \A a \in Listed : Column(e5, a) = Column(entries, a)
  <2> TAKE a \in Listed
  <2>1. a # "usd" /\ a \in Currencies /\ Column(entries, a) \in Int
    BY <1>8, ColumnType
  <2>2. /\ Column(e1, a) = Column(entries, a) + 0
        /\ Column(e2, a) = Column(e1, a) + (IF a = asset THEN n ELSE 0)
        /\ Column(e3, a) = Column(e2, a) + 0
        /\ Column(e4, a) = Column(e3, a) + (IF a = asset THEN -n ELSE 0)
        /\ Column(e5, a) = Column(e4, a) + 0
    BY <1>15, <1>16, <1>17, <1>18, <1>19, <2>1 DEF IsCredit
  <2> QED BY <2>1, <2>2
<1> QED
  BY <1>1, <1>2, <1>3, <1>4, <1>5, <1>6, <1>7, <1>14, <1>19, <1>21, <1>22, <1>23, <1>24
     DEF IsCredit

\* The entries of money brought in.
LEMMA FundingEntriesAre ==
  ASSUME entries \in Entries, NEW user \in Users, NEW currency \in Currencies, NEW amount \in Int,
         StoreFunding(user, currency, amount)
  PROVE  /\ entries' \in Entries
         /\ \A b \in Books, d \in Currencies :
              entries'[b][d] = entries[b][d]
                + (IF b = user /\ d = currency THEN amount ELSE 0)
                + (IF b = Clearing /\ d = currency THEN -amount ELSE 0)
         /\ \A d \in Currencies : Column(entries', d) = Column(entries, d)
<1>1. user \in Books /\ Clearing \in Books /\ -amount \in Int
  BY DEF Books, Accounts
<1>2. PICK e : e = Credit(entries, user, currency, amount)
  OBVIOUS
<1>3. entries' = Credit(e, Clearing, currency, -amount)
  BY <1>2 DEF StoreFunding
<1>4. IsCredit(e, entries, user, currency, amount)
  BY <1>1, <1>2, CreditIs
<1>5. IsCredit(entries', e, Clearing, currency, -amount)
  <2>1. e \in Entries
    BY <1>4 DEF IsCredit
  <2> QED BY <1>1, <1>3, <2>1, CreditIs
<1>6. \A b \in Books, d \in Currencies :
        entries'[b][d] = entries[b][d] + (IF b = user /\ d = currency THEN amount ELSE 0)
          + (IF b = Clearing /\ d = currency THEN -amount ELSE 0)
  BY <1>4, <1>5 DEF IsCredit
<1>7. ASSUME NEW d \in Currencies PROVE Column(entries', d) = Column(entries, d)
  <2>1. Column(entries, d) \in Int
    BY ColumnType
  <2>2. /\ Column(e, d) = Column(entries, d) + (IF d = currency THEN amount ELSE 0)
        /\ Column(entries', d) = Column(e, d) + (IF d = currency THEN -amount ELSE 0)
    BY <1>4, <1>5 DEF IsCredit
  <2> QED BY <2>1, <2>2
<1> QED BY <1>5, <1>6, <1>7 DEF IsCredit

\* The steps that bring in no money and settle no trade leave every account
\* and every entry as it was.
LEMMA QuietKeepsLedger ==
  ASSUME LedgerInv, BalancesType', SameTotals, entries' = entries, minted' = minted
  PROVE  LedgerInv'
<1>1. /\ \A u \in Accounts : usd'[u].available + usd'[u].locked = usd[u].available + usd[u].locked
      /\ \A a \in Listed, u \in Accounts :
           stock'[a][u].available + stock'[a][u].locked = stock[a][u].available + stock[a][u].locked
  BY DEF SameTotals, Total
<1>2. LedgerReconciles'
  BY <1>1 DEF LedgerInv, LedgerReconciles
<1>3. LedgerType'
  BY DEF LedgerInv, LedgerType
<1> QED BY <1>2, <1>3 DEF LedgerInv

LEMMA UnchangedKeepsLedger ==
  ASSUME LedgerInv, UNCHANGED <<usd, stock, entries, minted>>
  PROVE  LedgerInv'
BY DEF LedgerInv, LedgerType, LedgerReconciles, BalancesType

LEMMA OrderKeepsLedger ==
  ASSUME LedgerInv, EngineInv, NEW user \in Users, NEW r \in Requests,
         HandleOrder(user, r), UNCHANGED tables
  PROVE  LedgerInv'
<1>1. r.asset \in Listed /\ LockOf(r) \in Int /\ user \in Accounts
  <2>1. r.asset \in Listed /\ LockOf(r) \in Nat
    BY AcceptedOrder
  <2>2. \A n \in Nat : n \in Int
    OBVIOUS
  <2> QED BY <2>1, <2>2 DEF Accounts
<1>2. Move(Lock, user, r.asset, r.side, LockOf(r)) /\ minted' = minted
  BY DEF HandleOrder
<1>3. BalancesType' /\ SameTotals
  BY <1>1, <1>2, MoveKeepsTotals DEF LedgerInv, LedgerType
<1> QED BY <1>2, <1>3, QuietKeepsLedger DEF tables

\* The refund of an order is a number.
LEMMA RefundType ==
  ASSUME EngineInv, phase = "settling"
  PROVE  Refund \in Int
<1>1. /\ taker \in Takers /\ call \in Calls /\ call.asset \in Listed
      /\ fee_schedule \in FeeSchedules /\ (taker.tif = "gtc" => taker.limit \in Nat)
  BY DEF EngineInv, CallInv, InCall
<1>2. call.lock \in Int /\ call.spent \in Int /\ call.filled \in Int /\ taker.qty \in Int
  BY <1>1 DEF Takers, Calls
<1>3. \A m, n \in Int : SatSub(m, n) \in Int
  BY DEF SatSub
<1>4. NeededLocked \in Int
  <2>1. CASE ~Rested
    BY <2>1 DEF NeededLocked
  <2>2. CASE Rested
    <3>1. taker.limit \in Int /\ taker.remaining_qty \in Nat
      BY <1>1 DEF Takers, NoCap
    <3>2. taker.limit * taker.remaining_qty \in Int
      BY <3>1
    <3>3. \A n \in Int : Wrap(n) \in Nat
      BY BoundsAssumption DEF Wrap
    <3>4. PICK cost \in Nat : cost = Wrap(taker.limit * taker.remaining_qty)
      BY <3>2, <3>3
    <3>5. cost + MakerFee(cost) \in Int
      BY <1>1, FeesType
    <3>6. BidNeeds(taker.limit, taker.remaining_qty) \in Nat
      BY <3>3, <3>4, <3>5 DEF BidNeeds
    <3> QED BY <2>2, <3>6 DEF NeededLocked
  <2> QED BY <2>1, <2>2
<1>5. SatSub(SatSub(call.lock, call.spent), NeededLocked) \in Int
  BY <1>2, <1>3, <1>4
<1> QED BY <1>2, <1>5 DEF Refund

LEMMA FinishKeepsLedger ==
  ASSUME LedgerInv, EngineInv, Finish
  PROVE  LedgerInv'
<1>1. /\ Reconcile /\ phase = "settling" /\ minted' = minted
      /\ Move(Unlock, taker.user_id, call.asset, taker.side, Refund)
  BY DEF Finish, Reconcile
<1>2. entries' = entries
  BY DEF Finish, StoreOrder, readers, tables
<1>3. /\ taker \in Takers /\ call.asset \in Listed
  BY <1>1 DEF EngineInv, CallInv, InCall
<1>4. taker.user_id \in Accounts
  BY <1>3 DEF Takers, Accounts
<1>5. Refund \in Int
  BY <1>1, RefundType
<1>6. PICK user \in Accounts : user = taker.user_id
  BY <1>4
<1>7. PICK asset \in Listed : asset = call.asset
  BY <1>3
<1>8. PICK side : side = taker.side
  OBVIOUS
<1>9. PICK amount \in Int : amount = Refund
  BY <1>5
<1>10. Move(Unlock, user, asset, side, amount)
  BY <1>1, <1>6, <1>7, <1>8, <1>9
<1>11. BalancesType' /\ SameTotals
  BY <1>10, MoveKeepsTotals DEF LedgerInv, LedgerType
<1> QED BY <1>1, <1>2, <1>11, QuietKeepsLedger

LEMMA CancelKeepsLedger ==
  ASSUME LedgerInv, EngineInv, NEW user \in Users, NEW id, CancelOrder(user, id)
  PROVE  LedgerInv'
<1>1. HandleCancel(user, id) /\ entries' = entries
  BY DEF CancelOrder, StoreCancel
<1>2. PICK a \in Listed :
        /\ books[a].orders[id] \in Orders(Users)
        /\ Move(Unlock, user, a, books[a].orders[id].side, CancelRefund(books[a].orders[id]))
        /\ minted' = minted
  BY <1>1, HandleCancelFacts
<1>3. PICK o \in Orders(Users) : o = books[a].orders[id]
  BY <1>2
<1>4. CancelRefund(o) \in Int
  <2>1. o.price \in Nat /\ o.remaining_qty \in Nat
    BY DEF Orders
  <2>2. BidNeeds(o.price, o.remaining_qty) \in Nat
    BY <2>1, BidNeedsType DEF EngineInv, CallInv
  <2> QED BY <2>1, <2>2 DEF CancelRefund
<1>5. PICK amount \in Int : amount = CancelRefund(o)
  BY <1>4
<1>6. Move(Unlock, user, a, o.side, amount) /\ user \in Accounts
  BY <1>2, <1>3, <1>5 DEF Accounts
<1>7. BalancesType' /\ SameTotals
  BY <1>6, MoveKeepsTotals DEF LedgerInv, LedgerType
<1> QED BY <1>1, <1>2, <1>7, QuietKeepsLedger

\* A trade changes the entries as it changes the accounts.
LEMMA TradeKeepsLedger ==
  ASSUME LedgerInv, EngineInv, Trade
  PROVE  LedgerInv'
<1>1. PICK trade \in Trades : trade = results[call.settled + 1]
  BY SettleFillFacts DEF Trade
<1>2. PICK asset \in Listed : asset = call.asset
  BY SettleFillFacts DEF Trade
<1>3. /\ ApplyFill(asset, trade) /\ entries' = TradeEntries(asset, trade) /\ minted' = minted
  BY <1>1, <1>2 DEF Trade, SettleFill, StoreTrade
<1>4. fee_schedule \in FeeSchedules /\ BalancesType /\ entries \in Entries
  BY DEF EngineInv, CallInv, LedgerInv, LedgerType
<1> DEFINE Paid(u) == (IF u = trade.buyer THEN -(QuoteAmount(trade) + BuyerFee(trade)) ELSE 0)
           Got(u) == (IF u = trade.seller THEN SatSub(QuoteAmount(trade), SellerFee(trade)) ELSE 0)
           Fees(u) == (IF u = Treasury THEN BuyerFee(trade) + SellerFee(trade) ELSE 0)
           Bought(a, u) == (IF a = asset /\ u = trade.buyer THEN trade.qty ELSE 0)
           Sold(a, u) == (IF a = asset /\ u = trade.seller THEN -trade.qty ELSE 0)
<1>5. /\ BalancesType'
      /\ \A u \in Accounts : Total(usd'[u]) = Total(usd[u]) + Paid(u) + Got(u) + Fees(u)
      /\ \A a \in Listed, u \in Accounts :
           Total(stock'[a][u]) = Total(stock[a][u]) + Bought(a, u) + Sold(a, u)
  BY <1>3, <1>4, ApplyFillTotals
<1>6. /\ entries' \in Entries
      /\ \A b \in Books : entries'[b]["usd"] = entries[b]["usd"] + Paid(b) + Got(b) + Fees(b)
      /\ \A b \in Books, a \in Listed :
           entries'[b][a] = entries[b][a] + Bought(a, b) + Sold(a, b)
  BY <1>3, <1>4, TradeEntriesAre
<1>7. /\ Clearing # trade.buyer /\ Clearing # trade.seller /\ Clearing # Treasury
      /\ Clearing \in Books /\ \A u \in Accounts : u \in Books
  BY <1>4, ClearingAssumption, TradeNumbers DEF Accounts, Books
<1>8. /\ Paid(Clearing) = 0 /\ Got(Clearing) = 0 /\ Fees(Clearing) = 0
      /\ \A a \in Listed : Bought(a, Clearing) = 0 /\ Sold(a, Clearing) = 0
  BY <1>7
<1> HIDE DEF Paid, Got, Fees, Bought, Sold
<1>9. /\ \A u \in Accounts : entries[u]["usd"] = Total(usd[u])
      /\ \A u \in Accounts, a \in Listed : entries[u][a] = Total(stock[a][u])
      /\ entries[Clearing]["usd"] = -minted.usd
      /\ \A a \in Listed : entries[Clearing][a] = -minted.stock[a]
  BY DEF LedgerInv, LedgerReconciles, Total
<1>10. /\ \A u \in Accounts : entries'[u]["usd"] = Total(usd'[u])
       /\ \A u \in Accounts, a \in Listed : entries'[u][a] = Total(stock'[a][u])
  BY <1>5, <1>6, <1>7, <1>9
<1>11. entries[Clearing]["usd"] \in Int /\ \A a \in Listed : entries[Clearing][a] \in Int
  BY <1>4, <1>7 DEF Entries, Currencies
<1>12. /\ entries'[Clearing]["usd"] = entries[Clearing]["usd"]
       /\ \A a \in Listed : entries'[Clearing][a] = entries[Clearing][a]
  BY <1>6, <1>7, <1>8, <1>11
<1>13. LedgerReconciles'
  BY <1>3, <1>9, <1>10, <1>12 DEF LedgerReconciles, Total
<1>14. LedgerType'
  BY <1>3, <1>5, <1>6 DEF LedgerInv, LedgerType
<1> QED BY <1>13, <1>14 DEF LedgerInv

LEMMA FundingKeepsLedger ==
  ASSUME LedgerInv, EngineInv, NEW user \in Users,
         \/ \E amount \in OnrampAmounts : Onramp(user, amount)
         \/ \E asset \in Symbols \cap Listed, amount \in DepositAmounts : Deposit(user, asset, amount)
  PROVE  LedgerInv'
<1>1. /\ usd \in [Accounts -> Balance] /\ stock \in [Listed -> [Accounts -> Balance]]
      /\ entries \in Entries /\ minted \in [usd : Int, stock : [Listed -> Int]]
  BY DEF LedgerInv, LedgerType, BalancesType
<1>2. /\ user \in Accounts /\ user # Clearing /\ user \in Books /\ Clearing \in Books
      /\ \A u \in Accounts : u \in Books /\ u # Clearing
  BY ClearingAssumption DEF Accounts, Books
<1>3. "usd" \in Currencies /\ \A a \in Listed : a \in Currencies /\ a # "usd"
  BY DEF Currencies, Listed
<1>4. /\ \A u \in Accounts : entries[u]["usd"] = Total(usd[u])
      /\ \A u \in Accounts, a \in Listed : entries[u][a] = Total(stock[a][u])
      /\ entries[Clearing]["usd"] = -minted.usd
      /\ \A a \in Listed : entries[Clearing][a] = -minted.stock[a]
  BY DEF LedgerInv, LedgerReconciles, Total
<1>5. /\ \A u \in Accounts : Total(usd[u]) \in Int
      /\ \A u \in Accounts, a \in Listed : Total(stock[a][u]) \in Int
      /\ minted.usd \in Int /\ \A a \in Listed : minted.stock[a] \in Int
  BY <1>1 DEF Balance, Total
<1>6. ASSUME NEW amount \in OnrampAmounts, Onramp(user, amount) PROVE LedgerInv'
  <2>1. amount \in Int
    BY AmountsAssumption
  <2>2. /\ usd' = [usd EXCEPT ![user].available = @ + amount] /\ stock' = stock
        /\ minted' = [minted EXCEPT !.usd = @ + amount]
    BY <1>6 DEF Onramp, HandleOnramp
  <2>3. /\ entries' \in Entries
        /\ \A b \in Books, d \in Currencies :
             entries'[b][d] = entries[b][d] + (IF b = user /\ d = "usd" THEN amount ELSE 0)
               + (IF b = Clearing /\ d = "usd" THEN -amount ELSE 0)
    BY <1>1, <1>3, <1>6, <2>1, FundingEntriesAre DEF Onramp
  <2>4. /\ usd' \in [Accounts -> Balance]
        /\ \A u \in Accounts : Total(usd'[u]) = Total(usd[u]) + (IF u = user THEN amount ELSE 0)
    BY <1>1, <1>2, <2>1, <2>2 DEF Balance, Total
  <2>5. /\ minted' \in [usd : Int, stock : [Listed -> Int]]
        /\ minted'.usd = minted.usd + amount /\ minted'.stock = minted.stock
    BY <1>1, <2>1, <2>2
  <2>6. \A u \in Accounts : entries'[u]["usd"] = Total(usd'[u])
    BY <1>2, <1>3, <1>4, <1>5, <2>1, <2>3, <2>4
  <2>7. \A u \in Accounts, a \in Listed : entries'[u][a] = Total(stock'[a][u])
    BY <1>2, <1>3, <1>4, <1>5, <2>2, <2>3
  <2>8. entries'[Clearing]["usd"] = -minted'.usd
    BY <1>2, <1>3, <1>4, <1>5, <2>1, <2>3, <2>5
  <2>9. \A a \in Listed : entries'[Clearing][a] = -minted'.stock[a]
    BY <1>2, <1>3, <1>4, <1>5, <2>3, <2>5
  <2>10. LedgerReconciles'
    BY <2>6, <2>7, <2>8, <2>9 DEF LedgerReconciles, Total
  <2>11. LedgerType'
    BY <1>1, <2>2, <2>3, <2>4, <2>5 DEF LedgerType, BalancesType
  <2> QED BY <2>10, <2>11 DEF LedgerInv
<1>7. ASSUME NEW asset \in Symbols \cap Listed, NEW amount \in DepositAmounts,
             Deposit(user, asset, amount)
      PROVE  LedgerInv'
  <2>1. amount \in Int /\ asset \in Listed
    BY AmountsAssumption
  <2>2. /\ stock' = [stock EXCEPT ![asset][user].available = @ + amount] /\ usd' = usd
        /\ minted' = [minted EXCEPT !.stock[asset] = @ + amount]
    BY <1>7 DEF Deposit, HandleDeposit
  <2>3. /\ entries' \in Entries
        /\ \A b \in Books, d \in Currencies :
             entries'[b][d] = entries[b][d] + (IF b = user /\ d = asset THEN amount ELSE 0)
               + (IF b = Clearing /\ d = asset THEN -amount ELSE 0)
    BY <1>1, <1>3, <1>7, <2>1, FundingEntriesAre DEF Deposit
  <2>4. /\ stock' \in [Listed -> [Accounts -> Balance]]
        /\ \A u \in Accounts, a \in Listed :
             Total(stock'[a][u]) = Total(stock[a][u])
               + (IF a = asset /\ u = user THEN amount ELSE 0)
    <3>1. PICK y : y = [stock[asset][user] EXCEPT !.available = @ + amount]
      OBVIOUS
    <3>2. stock[asset][user] \in Balance
      BY <1>1, <1>2, <2>1
    <3>3. y \in Balance /\ Total(y) = Total(stock[asset][user]) + amount
      BY <2>1, <3>1, <3>2 DEF Balance, Total
    <3>4. stock' = [stock EXCEPT ![asset][user] = y]
      BY <2>2, <3>1
    <3>5. stock' \in [Listed -> [Accounts -> Balance]]
      BY <1>1, <1>2, <2>1, <3>3, <3>4
    <3>6. \A u \in Accounts, a \in Listed :
            stock'[a][u] = IF a = asset /\ u = user THEN y ELSE stock[a][u]
      BY <1>1, <1>2, <2>1, <3>4
    <3>7. \A u \in Accounts, a \in Listed :
             Total(stock'[a][u]) = Total(stock[a][u])
               + (IF a = asset /\ u = user THEN amount ELSE 0)
      BY <1>5, <3>3, <3>6
    <3> QED BY <3>5, <3>7
  <2>5. /\ minted' \in [usd : Int, stock : [Listed -> Int]] /\ minted'.usd = minted.usd
        /\ \A a \in Listed :
             minted'.stock[a] = minted.stock[a] + (IF a = asset THEN amount ELSE 0)
    BY <1>1, <2>1, <2>2
  <2>6. \A u \in Accounts : entries'[u]["usd"] = Total(usd'[u])
    BY <1>2, <1>3, <1>4, <1>5, <2>1, <2>2, <2>3
  <2>7. \A u \in Accounts, a \in Listed : entries'[u][a] = Total(stock'[a][u])
    BY <1>2, <1>3, <1>4, <1>5, <2>1, <2>3, <2>4
  <2>8. entries'[Clearing]["usd"] = -minted'.usd
    BY <1>2, <1>3, <1>4, <1>5, <2>1, <2>3, <2>5
  <2>9. \A a \in Listed : entries'[Clearing][a] = -minted'.stock[a]
    BY <1>2, <1>3, <1>4, <1>5, <2>1, <2>3, <2>5
  <2>10. LedgerReconciles'
    BY <2>6, <2>7, <2>8, <2>9 DEF LedgerReconciles, Total
  <2>11. LedgerType'
    BY <1>1, <2>2, <2>3, <2>4, <2>5 DEF LedgerType, BalancesType
  <2> QED BY <2>10, <2>11 DEF LedgerInv
<1> QED BY <1>6, <1>7

\* With nothing brought in the ledger is empty.
LEMMA EmptyLedger ==
  ASSUME usd = [u \in Accounts |-> Zero],
         stock = [a \in Listed |-> [u \in Accounts |-> Zero]],
         entries = NoEntries, minted = [usd |-> 0, stock |-> [a \in Listed |-> 0]]
  PROVE  LedgerInv
<1>1. LedgerType
  BY DEF LedgerType, BalancesType, Balance, Zero, Entries, NoEntries
<1>2. /\ Clearing \in Books /\ \A u \in Accounts : u \in Books
      /\ "usd" \in Currencies /\ \A a \in Listed : a \in Currencies
  BY DEF Books, Currencies
<1>3. \A b \in Books, c \in Currencies : entries[b][c] = 0
  BY DEF NoEntries
<1>4. Zero.available + Zero.locked = 0
  BY DEF Zero
<1>8. minted.usd = 0
  OBVIOUS
<1>9. \A n \in Int : n <= 0 /\ n >= 0 => -n = n
  OBVIOUS
<1>5. \A a \in Listed : minted.stock[a] = 0
  OBVIOUS
<1>6. \A u \in Accounts : usd[u] = Zero /\ \A a \in Listed : stock[a][u] = Zero
  OBVIOUS
<1>7. LedgerReconciles
  BY <1>2, <1>3, <1>4, <1>5, <1>6, <1>8, <1>9 DEF LedgerReconciles
<1> QED BY <1>1, <1>7 DEF LedgerInv

LEMMA EmptyLedgerNext ==
  ASSUME usd' = [u \in Accounts |-> Zero],
         stock' = [a \in Listed |-> [u \in Accounts |-> Zero]],
         entries' = NoEntries, minted' = [usd |-> 0, stock |-> [a \in Listed |-> 0]]
  PROVE  LedgerInv'
<1>1. LedgerType'
  BY DEF LedgerType, BalancesType, Balance, Zero, Entries, NoEntries
<1>2. /\ Clearing \in Books /\ \A u \in Accounts : u \in Books
      /\ "usd" \in Currencies /\ \A a \in Listed : a \in Currencies
  BY DEF Books, Currencies
<1>3. \A b \in Books, c \in Currencies : entries'[b][c] = 0
  BY DEF NoEntries
<1>4. Zero.available + Zero.locked = 0
  BY DEF Zero
<1>8. minted'.usd = 0
  OBVIOUS
<1>9. \A n \in Int : n <= 0 /\ n >= 0 => -n = n
  OBVIOUS
<1>5. \A a \in Listed : minted'.stock[a] = 0
  OBVIOUS
<1>6. \A u \in Accounts : usd'[u] = Zero /\ \A a \in Listed : stock'[a][u] = Zero
  OBVIOUS
<1>7. LedgerReconciles'
  BY <1>2, <1>3, <1>4, <1>5, <1>6, <1>8, <1>9 DEF LedgerReconciles
<1> QED BY <1>1, <1>7 DEF LedgerInv

\* A step of the exchange is one of the engine.
LEMMA ExchangeStep == [ExchangeNext]_<<vars, readers>> => [Next]_vars
<1> SUFFICES ASSUME [ExchangeNext]_<<vars, readers>> PROVE [Next]_vars
  OBVIOUS
<1>1. CASE Silent
  BY <1>1 DEF Silent, Next
<1>2. CASE Trade
  BY <1>2 DEF Trade, Next
<1>3. CASE Finish
  BY <1>3 DEF Finish, Next
<1>4. CASE \E user \in Users, id \in 1..MaxOrderId : CancelOrder(user, id)
  BY <1>4 DEF CancelOrder, Next
<1>5. CASE \E user \in Users, amount \in OnrampAmounts : Onramp(user, amount)
  BY <1>5 DEF Onramp, Next
<1>6. CASE \E user \in Users, asset \in Symbols \cap Listed, amount \in DepositAmounts :
             Deposit(user, asset, amount)
  BY <1>6 DEF Deposit, Next
<1>7. CASE ResetAll
  BY <1>7 DEF ResetAll, Next
<1> QED BY <1>1, <1>2, <1>3, <1>4, <1>5, <1>6, <1>7 DEF ExchangeNext

LEMMA LedgerStep ==
  EngineInv /\ LedgerInv /\ [ExchangeNext]_<<vars, readers>> => LedgerInv'
<1> SUFFICES ASSUME EngineInv, LedgerInv, [ExchangeNext]_<<vars, readers>> PROVE LedgerInv'
  OBVIOUS
<1>1. CASE Silent
  <2>1. entries' = entries /\ UNCHANGED tables
    BY <1>1 DEF Silent, readers, tables
  <2>2. ASSUME NEW user \in Users, NEW r \in Requests, HandleOrder(user, r) PROVE LedgerInv'
    BY <2>1, <2>2, OrderKeepsLedger
  <2>3. CASE \/ MatchStep \/ Complete \/ Return
             \/ \E user \in Users, r \in Requests : OrderRefused(user, r)
             \/ \E user \in Users, id \in 1..MaxOrderId : CancelRefused(user, id)
    <3>1. UNCHANGED <<usd, stock, minted>>
      BY <2>3 DEF MatchStep, Complete, Return, OrderRefused, CancelRefused
    <3> QED BY <2>1, <3>1, UnchangedKeepsLedger
  <2> QED BY <1>1, <2>2, <2>3 DEF Silent
<1>2. CASE Trade
  BY <1>2, TradeKeepsLedger
<1>3. CASE Finish
  BY <1>3, FinishKeepsLedger
<1>4. CASE \E user \in Users, id \in 1..MaxOrderId : CancelOrder(user, id)
  BY <1>4, CancelKeepsLedger
<1>5. CASE \/ \E user \in Users, amount \in OnrampAmounts : Onramp(user, amount)
           \/ \E user \in Users, asset \in Symbols \cap Listed, amount \in DepositAmounts :
                Deposit(user, asset, amount)
  BY <1>5, FundingKeepsLedger
<1>6. CASE ResetAll
  BY <1>6, EmptyLedgerNext DEF ResetAll, HandleReset, DeleteTables
<1>7. CASE UNCHANGED <<vars, readers>>
  BY <1>7, UnchangedKeepsLedger DEF vars, readers, tables
<1> QED BY <1>1, <1>2, <1>3, <1>4, <1>5, <1>6, <1>7 DEF ExchangeNext

LEMMA ExchangeInvariance == ExchangeSpec => [](EngineInv /\ LedgerInv)
<1>1. ExchangeInit => EngineInv /\ LedgerInv
  BY InitEngineInv, EmptyLedger DEF ExchangeInit, Init, LedgerInit
<1>2. EngineInv /\ LedgerInv /\ [ExchangeNext]_<<vars, readers>> => (EngineInv /\ LedgerInv)'
  BY LedgerStep, ExchangeStep, NextEngineInv
<1> QED BY <1>1, <1>2, PTL DEF ExchangeSpec

\* The ledger that the worker keeps from the events alone agrees with the
\* engine's balances at all times, in the middle of a settlement included: for
\* every account and currency the entries add up to what the engine holds for
\* it, and the clearing account is short of exactly what was brought in.  No
\* fill, fee, refund, cancellation or self-trade makes or loses anything
\* without an entry.
THEOREM LedgerAlwaysReconciles == ExchangeSpec => []LedgerReconciles
<1>1. EngineInv /\ LedgerInv => LedgerReconciles
  BY DEF LedgerInv
<1> QED BY <1>1, ExchangeInvariance, PTL

-----------------------------------------------------------------------------
\* The double entry, for fees up to 100%.

FeesUpTo100 == \A f \in FeeSchedules : f.maker_fee_bps <= 10000 /\ f.taker_fee_bps <= 10000

\* A fee of up to 100% is not above what it is taken of.
LEMMA FeeAtMost ==
  ASSUME NEW amount \in Nat, NEW bps \in Nat, bps <= 10000
  PROVE  Fee(amount, bps) <= amount
<1>1. PICK x \in Nat : x = amount * bps
  OBVIOUS
<1>2. x <= amount * 10000
  BY <1>1
<1>3. x % WordSize \in Nat /\ x % WordSize <= x
  <2>1. WordSize \in Nat \ {0}
    BY BoundsAssumption
  <2>2. PICK w \in Nat : w = WordSize /\ w > 0
    BY <2>1
  <2>3. x % w \in Nat /\ x % w <= x
    BY <2>2
  <2> QED BY <2>2, <2>3
<1>4. PICK y \in Nat : y = x % WordSize
  BY <1>3
<1>5. y <= amount * 10000
  BY <1>2, <1>3, <1>4
<1>6. y \div 10000 <= amount
  BY <1>5
<1> QED BY <1>1, <1>4, <1>6 DEF Fee, Wrap

LEMMA TradeIsZeroSum ==
  ASSUME FeesUpTo100, entries \in Entries, fee_schedule \in FeeSchedules,
         NEW asset \in Listed, NEW trade \in Trades, NEW c \in Currencies
  PROVE  Column(TradeEntries(asset, trade), c) = Column(entries, c)
<1>1. PICK q \in Nat : q = QuoteAmount(trade)
  BY TradeNumbers
<1>2. PICK bf \in Nat : bf = BuyerFee(trade)
  BY TradeNumbers
<1>3. PICK sf \in Nat : sf = SellerFee(trade)
  BY TradeNumbers
<1>4. /\ fee_schedule.maker_fee_bps \in Nat /\ fee_schedule.maker_fee_bps <= 10000
      /\ fee_schedule.taker_fee_bps \in Nat /\ fee_schedule.taker_fee_bps <= 10000
  BY FeesAssumption DEF FeesUpTo100
<1>5. MakerFee(q) <= q /\ TakerFee(q) <= q
  BY <1>4, FeeAtMost DEF MakerFee, TakerFee
<1>6. sf <= q
  BY <1>1, <1>3, <1>5 DEF SellerFee
<1>7. SatSub(q, sf) = q - sf
  BY <1>6 DEF SatSub
<1>8. c = "usd" \/ c \in Listed
  BY DEF Currencies
<1>9. Column(entries, c) \in Int
  BY ColumnType
<1>10. /\ Column(TradeEntries(asset, trade), "usd") = Column(entries, "usd")
            - (q + bf) + SatSub(q, sf) + bf + sf
       /\ \A a \in Listed : Column(TradeEntries(asset, trade), a) = Column(entries, a)
  BY <1>1, <1>2, <1>3, TradeEntriesAre
<1> QED BY <1>7, <1>8, <1>9, <1>10

\* The tables' sums are those of ZeroSum.
LEMMA ZeroColumns == ZeroSum <=> \A c \in Currencies : Column(entries, c) = 0
<1>1. ASSUME NEW c \in Currencies
      PROVE  SumFunction([b \in Books |-> entries[b][c]]) = Column(entries, c)
  BY DEF SumFunction, Column
<1> QED BY <1>1 DEF ZeroSum

LEMMA ZeroColumnsNext ==
  ASSUME \A c \in Currencies : Column(entries', c) = 0
  PROVE  ZeroSum'
<1>1. ASSUME NEW c \in Currencies
      PROVE  SumFunction([b \in Books |-> entries'[b][c]]) = Column(entries', c)
  BY DEF SumFunction, Column
<1> QED BY <1>1 DEF ZeroSum

\* Nothing adds up to nothing.
LEMMA NoEntriesColumn ==
  ASSUME NEW c \in Currencies
  PROVE  Column(NoEntries, c) = 0
<1>1. PICK f : f = [b \in Books |-> NoEntries[b][c]]
  OBVIOUS
<1>2. \A b \in Books : f[b] = 0
  BY <1>1 DEF NoEntries
<1>3. SumFunctionOnSet(f, Books) = 0
  BY <1>2, BooksFinite, SumZero
<1> QED BY <1>1, <1>3 DEF Column

LEMMA ZeroSumStep ==
  ASSUME FeesUpTo100, EngineInv, LedgerInv, ZeroSum, [ExchangeNext]_<<vars, readers>>
  PROVE  ZeroSum'
<1>1. entries \in Entries /\ fee_schedule \in FeeSchedules
  BY DEF LedgerInv, LedgerType, EngineInv, CallInv
<1>2. \A c \in Currencies : Column(entries, c) = 0
  BY ZeroColumns
<1>3. CASE entries' = entries
  BY <1>2, <1>3, ZeroColumnsNext
<1>4. CASE Trade
  <2>1. PICK trade \in Trades : trade = results[call.settled + 1]
    BY <1>4, SettleFillFacts DEF Trade
  <2>2. PICK asset \in Listed : asset = call.asset
    BY <1>4, SettleFillFacts DEF Trade
  <2>3. entries' = TradeEntries(asset, trade)
    BY <1>4, <2>1, <2>2 DEF Trade, StoreTrade
  <2>4. \A c \in Currencies : Column(entries', c) = 0
    BY <1>1, <1>2, <2>3, TradeIsZeroSum
  <2> QED BY <2>4, ZeroColumnsNext
<1>5. ASSUME NEW user \in Users, NEW c \in Currencies, NEW amount \in Int,
             StoreFunding(user, c, amount)
      PROVE  ZeroSum'
  <2>1. \A d \in Currencies : Column(entries', d) = Column(entries, d)
    BY <1>1, <1>5, FundingEntriesAre
  <2> QED BY <1>2, <2>1, ZeroColumnsNext
<1>6. CASE \/ \E user \in Users, amount \in OnrampAmounts : Onramp(user, amount)
           \/ \E user \in Users, asset \in Symbols \cap Listed, amount \in DepositAmounts :
                Deposit(user, asset, amount)
  <2>1. /\ \A n \in OnrampAmounts \cup DepositAmounts : n \in Int
        /\ "usd" \in Currencies /\ \A a \in Listed : a \in Currencies
    BY AmountsAssumption DEF Currencies
  <2> QED BY <1>5, <1>6, <2>1 DEF Onramp, Deposit
<1>7. CASE ResetAll
  <2>1. \A c \in Currencies : Column(entries', c) = 0
    BY <1>7, NoEntriesColumn DEF ResetAll, DeleteTables
  <2> QED BY <2>1, ZeroColumnsNext
<1>8. CASE Silent
  BY <1>3, <1>8 DEF Silent, readers, tables
<1>9. CASE Finish
  BY <1>3, <1>9 DEF Finish, StoreOrder, readers, tables
<1>10. CASE \E user \in Users, id \in 1..MaxOrderId : CancelOrder(user, id)
  BY <1>3, <1>10 DEF CancelOrder, StoreCancel
<1>11. CASE UNCHANGED <<vars, readers>>
  BY <1>3, <1>11 DEF vars, readers, tables
<1> QED BY <1>4, <1>6, <1>7, <1>8, <1>9, <1>10, <1>11 DEF ExchangeNext

\* The entries of every currency add up to zero after every event: the double
\* entry that ARCHITECTURE.md asks of ledger_entries.  The entries of a trade
\* cancel out because neither fee is above the value of the trade, so that the
\* seller's credit never saturates: with fees up to 100%.
THEOREM EntriesSumToZero == FeesUpTo100 => (ExchangeSpec => []ZeroSum)
<1> SUFFICES ASSUME FeesUpTo100 PROVE ExchangeSpec => []ZeroSum
  OBVIOUS
<1>1. ExchangeInit => ZeroSum
  <2> SUFFICES ASSUME ExchangeInit PROVE ZeroSum
    OBVIOUS
  <2>1. entries = NoEntries
    BY DEF ExchangeInit, LedgerInit
  <2>2. \A c \in Currencies : Column(entries, c) = 0
    BY <2>1, NoEntriesColumn
  <2> QED BY <2>2, ZeroColumns
<1>2. EngineInv /\ LedgerInv /\ ZeroSum /\ [ExchangeNext]_<<vars, readers>> => ZeroSum'
  BY ZeroSumStep
<1> QED BY <1>1, <1>2, ExchangeInvariance, PTL DEF ExchangeSpec

-----------------------------------------------------------------------------
\* The trades of the call under way, and what the readers have of them.  The
\* parts of the invariant are stated of values, so that the facts about a step
\* are facts about values.

\* The open orders of every book.
OpenIn == [a \in Listed |-> books[a].orders]

\* The order under execution: it has no row and no view yet.
Current == IF InCall THEN taker.order_id ELSE 0

\* The trades of the call that are not settled, so not published yet.
Pending == IF InCall THEN {results[k] : k \in (call.settled + 1)..Len(results)} ELSE {}

\* What the first n trades of a call come to.
PartSum(trades, n) == SumFunctionOnSet([k \in DOMAIN trades |-> trades[k].qty], 1..n)

\* The maker's user in a trade.
MakerUser(trade) == IF trade.taker_side = "bid" THEN trade.seller ELSE trade.buyer

\* A maker that is still in the book was filled in part, so by all that was
\* left of the taker.
MakerTold(trade, t, open) ==
  /\ trade.taker_order_id = t.order_id /\ trade.taker_side = t.side
  /\ trade.maker_order_id < t.order_id
  /\ trade.maker_order_id \in DOMAIN open =>
       /\ t.remaining_qty = 0
       /\ open[trade.maker_order_id].side = Opposite(t.side)
       /\ open[trade.maker_order_id].user_id = MakerUser(trade)

\* The call on the book of a: its trades have different makers and add up to
\* what is filled, and what rests of the taker is the taker.
CallRight(trades, t, a, open) ==
  /\ \A k \in 1..Len(trades) : MakerTold(trades[k], t, open[a])
  /\ \A j, k \in 1..Len(trades) :
       trades[j].maker_order_id = trades[k].maker_order_id => j = k
  /\ t.qty - t.remaining_qty = PartSum(trades, Len(trades))
  /\ \A c \in Listed : t.order_id \in DOMAIN open[c] =>
       c = a /\ open[c][t.order_id] = RestingOrder(t)

TradesInv ==
  InCall => /\ CallRight(results, taker, call.asset, OpenIn)
            /\ call.filled = PartSum(results, call.settled)

Awaited(pending, id) == \E trade \in pending : trade.maker_order_id = id

LeftOf(open, id) == IF id \in DOMAIN open THEN open[id].remaining_qty ELSE 0

Rows ==
  [user_id : Users, market : Listed, side : Sides, price : Nat, original_qty : Nat,
   remaining_qty : Nat, status : {"open", "partially_filled", "filled", "cancelled"}]

IsOpen(row) == row.status \in {"open", "partially_filled"}

SumOf(sums, id) == IF id \in DOMAIN sums THEN sums[id] ELSE 0

\* Rows and sums are of orders that were accepted.
RowsType(rows, sums, next) ==
  /\ \A id \in DOMAIN rows : id \in Nat \ {0} /\ id < next /\ rows[id] \in Rows
  /\ \A id \in DOMAIN sums : id \in Nat \ {0} /\ id < next /\ sums[id] \in Int

\* What a row says, whether or not its order is open.
RowRight(rows, sums, open, pending, id) ==
  /\ (rows[id].status = "filled") = (rows[id].remaining_qty = 0)
  /\ rows[id].original_qty - rows[id].remaining_qty = SumOf(sums, id)
  /\ IsOpen(rows[id]) => id \in DOMAIN open[rows[id].market] \/ Awaited(pending, id)

\* What the row of the open order id of a says.
RowOfOrder(rows, o, a, pending, id) ==
  /\ id \in DOMAIN rows
  /\ IsOpen(rows[id]) /\ rows[id].market = a /\ rows[id].user_id = o.user_id
  /\ ~Awaited(pending, id) => rows[id].remaining_qty = o.remaining_qty

\* The row of the maker of a trade to come is as it was before the trade.
RowAwaits(rows, open, a, trade) ==
  LET id == trade.maker_order_id
  IN  /\ id \in DOMAIN rows
      /\ IsOpen(rows[id]) /\ rows[id].market = a
      /\ rows[id].remaining_qty = trade.qty + LeftOf(open, id)

RowsRight(rows, sums, open, pending, current, a) ==
  /\ \A id \in DOMAIN rows : id # current /\ RowRight(rows, sums, open, pending, id)
  /\ \A c \in Listed : \A id \in DOMAIN open[c] :
       id # current => RowOfOrder(rows, open[c][id], c, pending, id)
  /\ \A trade \in pending : RowAwaits(rows, open[a], a, trade)

RowsInv ==
  /\ RowsType(orders, traded, next_order_id)
  /\ RowsRight(orders, traded, OpenIn, Pending, Current, call.asset)
  /\ InCall => SumOf(traded, taker.order_id) = call.filled

\* What the owner of the open ask o was told.
AskTold(view, o, pending, id) ==
  id \in DOMAIN view /\ (~Awaited(pending, id) => view[id] = o.remaining_qty)

ViewsRight(told, open, pending, current) ==
  \A c \in Listed : \A id \in DOMAIN open[c] :
    open[c][id].side = "ask" /\ id # current =>
      AskTold(told[open[c][id].user_id], open[c][id], pending, id)

ViewsInv ==
  /\ views = [u \in Users |-> views[u]]
  /\ ViewsRight(views, OpenIn, Pending, Current)

LEMMA PartSumFacts ==
  ASSUME NEW trades \in Seq(Trades), NEW n \in 0..Len(trades)
  PROVE  /\ PartSum(trades, n) \in Int
         /\ n = 0 => PartSum(trades, n) = 0
         /\ n > 0 => PartSum(trades, n) = PartSum(trades, n - 1) + trades[n].qty
<1>1. PICK f : f = [k \in DOMAIN trades |-> trades[k].qty]
  OBVIOUS
<1>2. \A k \in 1..Len(trades) : f[k] = trades[k].qty /\ trades[k].qty \in Int
  <2> TAKE k \in 1..Len(trades)
  <2>1. trades[k] \in Trades /\ k \in DOMAIN trades
    OBVIOUS
  <2> QED BY <1>1, <2>1 DEF Trades
<1>3. n \in Nat /\ IsFiniteSet(1..n) /\ \A k \in 1..n : f[k] \in Int
  <2>1. n \in Nat /\ n <= Len(trades)
    OBVIOUS
  <2>2. \A k \in 1..n : k \in 1..Len(trades)
    BY <2>1
  <2>3. IsFiniteSet(1..n)
    BY <2>1, FS_Interval
  <2> QED BY <1>2, <2>1, <2>2, <2>3
<1>4. PICK S : S = 1..n
  OBVIOUS
<1>5. /\ SumFunctionOnSet(f, S) \in Int
      /\ S = {} => SumFunctionOnSet(f, S) = 0
      /\ \A x \in S : SumFunctionOnSet(f, S) = f[x] + SumFunctionOnSet(f, S \ {x})
  <2>1. IsFiniteSet(S) /\ \A x \in S : f[x] \in Int
    BY <1>3, <1>4
  <2> QED BY <2>1, SumFacts
<1>6. n = 0 => S = {}
  BY <1>4
<1>7. n > 0 => n \in S /\ S \ {n} = 1..(n - 1) /\ n - 1 \in 0..Len(trades)
  BY <1>3, <1>4
<1>8. n > 0 => IsFiniteSet(1..(n - 1)) /\ SumFunctionOnSet(f, 1..(n - 1)) \in Int
  <2>1. IsFiniteSet(1..(n - 1)) /\ \A k \in 1..(n - 1) : f[k] \in Int
    BY <1>2, <1>3, FS_Interval
  <2> QED BY <2>1, SumFacts
<1>9. \A k : PartSum(trades, k) = SumFunctionOnSet(f, 1..k)
  BY <1>1 DEF PartSum
<1>10. n > 0 => PartSum(trades, n) = PartSum(trades, n - 1) + trades[n].qty
  <2> SUFFICES ASSUME n > 0 PROVE PartSum(trades, n) = PartSum(trades, n - 1) + trades[n].qty
    OBVIOUS
  <2>1. SumFunctionOnSet(f, S) = f[n] + SumFunctionOnSet(f, 1..(n - 1))
    BY <1>5, <1>7
  <2>2. f[n] = trades[n].qty /\ trades[n].qty \in Int
    BY <1>2, <1>3
  <2> QED BY <1>4, <1>8, <1>9, <2>1, <2>2
<1> QED BY <1>4, <1>5, <1>6, <1>9, <1>10

LEMMA PartSumAppend ==
  ASSUME NEW trades \in Seq(Trades), NEW trade \in Trades
  PROVE  /\ PartSum(Append(trades, trade), Len(trades) + 1) =
              PartSum(trades, Len(trades)) + trade.qty
         /\ PartSum(Append(trades, trade), 0) = 0
<1>1. PICK more : more = Append(trades, trade)
  OBVIOUS
<1>2. /\ more \in Seq(Trades) /\ Len(more) = Len(trades) + 1 /\ more[Len(trades) + 1] = trade
      /\ \A k \in 1..Len(trades) : more[k] = trades[k]
  BY <1>1
<1>3. PICK n \in Nat : n = Len(trades)
  OBVIOUS
<1>4. /\ PartSum(more, n + 1) = PartSum(more, n) + more[n + 1].qty
      /\ PartSum(more, 0) = 0
  <2>1. n + 1 \in 0..Len(more) /\ 0 \in 0..Len(more) /\ n + 1 > 0 /\ (n + 1) - 1 = n
    BY <1>2, <1>3
  <2> QED BY <1>2, <2>1, PartSumFacts
<1>5. PartSum(more, n) = PartSum(trades, n)
  <2>1. PICK f : f = [k \in DOMAIN trades |-> trades[k].qty]
    OBVIOUS
  <2>2. PICK g : g = [k \in DOMAIN more |-> more[k].qty]
    OBVIOUS
  <2>3. /\ \A k \in 1..n : f[k] \in Int
        /\ \A k \in 1..n : g[k] = f[k]
    <3>1. ASSUME NEW k \in 1..n PROVE f[k] \in Int /\ g[k] = f[k]
      <4>1. k \in DOMAIN trades /\ k \in DOMAIN more /\ trades[k] \in Trades /\ more[k] = trades[k]
        BY <1>2, <1>3
      <4> QED BY <2>1, <2>2, <4>1 DEF Trades
    <3> QED BY <3>1
  <2>4. IsFiniteSet(1..n)
    BY FS_Interval
  <2>5. SumFunctionOnSet(g, 1..n) = SumFunctionOnSet(f, 1..n)
    BY <2>3, <2>4, SumSame
  <2> QED BY <2>1, <2>2, <2>5 DEF PartSum
<1> QED BY <1>1, <1>2, <1>3, <1>4, <1>5

\* A fill keeps what is said of the call.
LEMMA FillCallRight ==
  ASSUME NEW trades \in Seq(Trades), NEW t \in Takers, NEW a \in Listed, NEW open,
         DOMAIN open = Listed, CallRight(trades, t, a, open), t.remaining_qty > 0,
         \A c \in Listed : \A id \in DOMAIN open[c] : id \in Nat /\ id < t.order_id,
         NEW after, NEW trade \in Trades, NEW m, NEW n \in 1..t.remaining_qty,
         IsFill(open[a], after, m, n),
         m \in DOMAIN after => n = t.remaining_qty,
         open[a][m].side = Opposite(t.side),
         open[a][m].user_id = MakerUser(trade),
         trade.taker_order_id = t.order_id, trade.taker_side = t.side,
         trade.maker_order_id = m, trade.qty = n
  PROVE  CallRight(Append(trades, trade), [t EXCEPT !.remaining_qty = t.remaining_qty - n], a,
                   [open EXCEPT ![a] = after])
<1>1. PICK more : more = Append(trades, trade)
  OBVIOUS
<1>2. /\ more \in Seq(Trades) /\ Len(more) = Len(trades) + 1 /\ more[Len(trades) + 1] = trade
      /\ \A k \in 1..Len(trades) : more[k] = trades[k]
  BY <1>1
<1>3. PICK left : left = t.remaining_qty - n
  OBVIOUS
<1>4. PICK u : u = [t EXCEPT !.remaining_qty = left]
  OBVIOUS
<1>5. /\ u.order_id = t.order_id /\ u.side = t.side /\ u.qty = t.qty /\ u.remaining_qty = left
      /\ t.order_id \in Nat /\ t.qty \in Nat /\ t.remaining_qty \in Nat
  BY <1>4 DEF Takers
<1>6. PICK now : now = [open EXCEPT ![a] = after]
  OBVIOUS
<1>7. now[a] = after /\ \A c \in Listed \ {a} : now[c] = open[c]
  BY <1>6
<1>8. /\ m \in DOMAIN open[a] /\ DOMAIN after \subseteq DOMAIN open[a]
  BY DEF IsFill
<1>9. ASSUME NEW k \in 1..Len(trades)
      PROVE  MakerTold(more[k], u, after) /\ trades[k].maker_order_id # m
  <2>1. MakerTold(trades[k], t, open[a])
    BY DEF CallRight
  <2>2. trades[k].maker_order_id \notin DOMAIN open[a]
    BY <1>5, <2>1 DEF MakerTold
  <2> QED BY <1>2, <1>5, <1>8, <2>1, <2>2 DEF MakerTold
<1>10. MakerTold(trade, u, after)
  <2>1. m < t.order_id
    BY <1>8
  <2>2. m \in DOMAIN after => /\ left = 0 /\ after[m].side = open[a][m].side
                              /\ after[m].user_id = open[a][m].user_id
    BY <1>3, <1>5 DEF IsFill
  <2> QED BY <1>5, <2>1, <2>2 DEF MakerTold
<1>11. \A k \in 1..Len(more) : MakerTold(more[k], u, now[a])
  <2>1. \A k \in 1..Len(more) : k \in 1..Len(trades) \/ k = Len(trades) + 1
    BY <1>2
  <2> QED BY <1>2, <1>7, <1>9, <1>10, <2>1
<1>12. \A j, k \in 1..Len(more) : more[j].maker_order_id = more[k].maker_order_id => j = k
  <2>1. \A j \in 1..Len(more) : j \in 1..Len(trades) \/ j = Len(trades) + 1
    BY <1>2
  <2>2. \A j, k \in 1..Len(trades) : trades[j].maker_order_id = trades[k].maker_order_id => j = k
    BY DEF CallRight
  <2> QED BY <1>2, <1>9, <2>1, <2>2
<1>13. u.qty - u.remaining_qty = PartSum(more, Len(more))
  <2>1. t.qty - t.remaining_qty = PartSum(trades, Len(trades))
    BY DEF CallRight
  <2>2. PartSum(more, Len(more)) = PartSum(trades, Len(trades)) + n
    BY <1>1, <1>2, PartSumAppend
  <2> QED BY <1>3, <1>5, <2>1, <2>2
<1>14. \A c \in Listed : u.order_id \notin DOMAIN now[c]
  <2>1. \A c \in Listed : DOMAIN now[c] \subseteq DOMAIN open[c]
    BY <1>7, <1>8
  <2>2. ~(t.order_id < t.order_id)
    BY <1>5
  <2> QED BY <1>5, <2>1, <2>2
<1>15. CallRight(more, u, a, now)
  BY <1>11, <1>12, <1>13, <1>14 DEF CallRight
<1> QED BY <1>1, <1>3, <1>4, <1>6, <1>15

LEMMA OpenInIs == DOMAIN OpenIn = Listed /\ \A a \in Listed : OpenIn[a] = books[a].orders
BY DEF OpenIn

LEMMA OpenInNext == DOMAIN OpenIn' = Listed /\ \A a \in Listed : OpenIn'[a] = books'[a].orders
BY DEF OpenIn

\* The open orders after one book changed.
LEMMA OpenInExcept ==
  ASSUME NEW a \in Listed, NEW after, books'[a].orders = after,
         \A c \in Listed \ {a} : books'[c] = books[c]
  PROVE  OpenIn' = [OpenIn EXCEPT ![a] = after]
<1>1. \A c \in Listed : OpenIn'[c] = IF c = a THEN after ELSE OpenIn[c]
  BY OpenInIs, OpenInNext
<1>2. /\ OpenIn' = [c \in Listed |-> OpenIn'[c]]
      /\ [OpenIn EXCEPT ![a] = after] = [c \in Listed |-> IF c = a THEN after ELSE OpenIn[c]]
  BY DEF OpenIn
<1> QED BY <1>1, <1>2

LEMMA OpenInSame ==
  ASSUME \A a \in Listed : books'[a].orders = books[a].orders
  PROVE  OpenIn' = OpenIn
BY DEF OpenIn

\* The iteration of the matching loop, as a fill of the open orders.
LEMMA MatchStepFill ==
  ASSUME EngineInv, MatchStep
  PROVE  \E a, t, trade, after :
           /\ a \in Listed /\ t \in Takers /\ trade \in Trades
           /\ a = call.asset /\ t = taker /\ t.remaining_qty > 0
           /\ trade.qty \in 1..t.remaining_qty
           /\ results' = Append(results, trade)
           /\ taker' = [t EXCEPT !.remaining_qty = t.remaining_qty - trade.qty]
           /\ IsFill(OpenIn[a], after, trade.maker_order_id, trade.qty)
           /\ trade.maker_order_id \in DOMAIN after => trade.qty = t.remaining_qty
           /\ OpenIn[a][trade.maker_order_id].side = Opposite(t.side)
           /\ OpenIn[a][trade.maker_order_id].user_id = MakerUser(trade)
           /\ trade.taker_order_id = t.order_id /\ trade.taker_side = t.side
           /\ OpenIn' = [OpenIn EXCEPT ![a] = after]
<1>1. PICK a \in Listed : a = call.asset
  BY MatchStepTrade
<1>2. PICK t \in Takers : t = taker
  BY MatchStepTrade
<1>3. PICK b : b = books[a]
  OBVIOUS
<1>4. PICK m : m = Maker(b, t.side)
  OBVIOUS
<1>5. PICK n : n = FillQty(b, t)
  OBVIOUS
<1>6. PICK c : c = AfterFill(b, t)
  OBVIOUS
<1>7. PICK trade \in Trades : trade = TradeOf(b, t)
  BY <1>1, <1>2, <1>3, MatchStepTrade
<1>8. /\ WellFormed(b, Users) /\ n \in 1..t.remaining_qty /\ results' = Append(results, trade)
      /\ taker' = [t EXCEPT !.remaining_qty = t.remaining_qty - n]
  BY <1>1, <1>2, <1>3, <1>5, <1>7, MatchStepTrade
<1>9. Matches(b, t) /\ books' = [books EXCEPT ![a] = c]
  BY <1>1, <1>2, <1>3, <1>6 DEF MatchStep
<1>10. t.side \in Sides /\ t.remaining_qty \in Nat
  BY DEF Takers
<1>11. /\ IsFill(b.orders, c.orders, m, n) /\ b.orders[m].side = Opposite(t.side)
       /\ m \in DOMAIN c.orders => n = t.remaining_qty
  BY <1>4, <1>5, <1>6, <1>8, <1>9, <1>10, AfterFillOrders
<1>12. /\ trade.maker_order_id = m /\ trade.qty = n /\ trade.taker_order_id = t.order_id
       /\ trade.taker_side = t.side /\ MakerUser(trade) = b.orders[m].user_id
  <2>1. PICK u : u = b.orders[m].user_id
    OBVIOUS
  <2>2. trade = [buyer          |-> IF t.side = "bid" THEN t.user_id ELSE u,
                 seller         |-> IF t.side = "bid" THEN u ELSE t.user_id,
                 price          |-> BestPrice(b, Opposite(t.side)),
                 qty            |-> n,
                 taker_order_id |-> t.order_id,
                 maker_order_id |-> m,
                 taker_side     |-> t.side]
    BY <1>4, <1>5, <1>7, <2>1 DEF TradeOf
  <2> QED BY <2>1, <2>2 DEF MakerUser
<1>13. /\ books'[a].orders = c.orders /\ \A d \in Listed \ {a} : books'[d] = books[d]
  BY <1>9 DEF EngineInv, BooksInv
<1>14. OpenIn' = [OpenIn EXCEPT ![a] = c.orders] /\ OpenIn[a] = b.orders
  BY <1>3, <1>13, OpenInExcept, OpenInIs
<1>15. t.remaining_qty > 0
  BY <1>9 DEF Matches
<1> QED BY <1>1, <1>2, <1>8, <1>11, <1>12, <1>14, <1>15

LEMMA MatchStepTrades ==
  ASSUME EngineInv, TradesInv, MatchStep
  PROVE  TradesInv'
<1>1. PICK a, t, trade, after :
           /\ a \in Listed /\ t \in Takers /\ trade \in Trades
           /\ a = call.asset /\ t = taker /\ t.remaining_qty > 0
           /\ trade.qty \in 1..t.remaining_qty
           /\ results' = Append(results, trade)
           /\ taker' = [t EXCEPT !.remaining_qty = t.remaining_qty - trade.qty]
           /\ IsFill(OpenIn[a], after, trade.maker_order_id, trade.qty)
           /\ trade.maker_order_id \in DOMAIN after => trade.qty = t.remaining_qty
           /\ OpenIn[a][trade.maker_order_id].side = Opposite(t.side)
           /\ OpenIn[a][trade.maker_order_id].user_id = MakerUser(trade)
           /\ trade.taker_order_id = t.order_id /\ trade.taker_side = t.side
           /\ OpenIn' = [OpenIn EXCEPT ![a] = after]
  BY MatchStepFill
<1>0. a \in Listed /\ t \in Takers /\ trade \in Trades
  BY <1>1
<1>2. /\ phase = "matching" /\ phase' = "matching" /\ call' = call
      /\ results \in Seq(Trades) /\ call.settled = 0 /\ IdsBelow(t.order_id)
  BY <1>1 DEF MatchStep, EngineInv, CallInv
<1>3. PICK open : open = OpenIn
  OBVIOUS
<1>4. /\ CallRight(results, t, a, open) /\ call.filled = PartSum(results, 0)
  BY <1>1, <1>2, <1>3 DEF TradesInv, InCall
<1>5. PICK trades \in Seq(Trades) : trades = results
  BY <1>2
<1>6. DOMAIN open = Listed
      /\ \A c \in Listed : \A id \in DOMAIN open[c] : id \in Nat /\ id < t.order_id
  BY <1>2, <1>3, OpenInIs DEF IdsBelow, EngineInv, BooksInv, WellFormed, BookType
<1>7. PICK m : m = trade.maker_order_id
  OBVIOUS
<1>8. PICK n \in 1..t.remaining_qty : n = trade.qty
  BY <1>1
<1>9. CallRight(Append(trades, trade), [t EXCEPT !.remaining_qty = t.remaining_qty - n], a,
                [open EXCEPT ![a] = after])
  <2>1. CallRight(trades, t, a, open) /\ t.remaining_qty > 0
    BY <1>1, <1>4, <1>5
  <2>2. IsFill(open[a], after, m, n) /\ (m \in DOMAIN after => n = t.remaining_qty)
    BY <1>1, <1>3, <1>7, <1>8
  <2>3. open[a][m].side = Opposite(t.side) /\ open[a][m].user_id = MakerUser(trade)
    BY <1>1, <1>3, <1>7
  <2>4. /\ trade.taker_order_id = t.order_id /\ trade.taker_side = t.side
        /\ trade.maker_order_id = m /\ trade.qty = n
    BY <1>1, <1>7, <1>8
  <2> QED BY <1>0, <1>6, <2>1, <2>2, <2>3, <2>4, FillCallRight
<1>10. CallRight(results', taker', call'.asset, OpenIn')
  BY <1>1, <1>2, <1>3, <1>5, <1>8, <1>9
<1>11. call'.filled = PartSum(results', call'.settled)
  <2>1. PartSum(Append(trades, trade), 0) = 0
    BY <1>0, PartSumAppend
  <2>2. PartSum(trades, 0) = 0
    BY PartSumFacts
  <2> QED BY <1>1, <1>2, <1>4, <1>5, <2>1, <2>2
<1> QED BY <1>10, <1>11 DEF TradesInv

\* What rests of the taker is younger than every maker.
LEMMA RestCallRight ==
  ASSUME NEW trades, NEW t \in Takers, NEW a \in Listed, NEW open, DOMAIN open = Listed,
         CallRight(trades, t, a, open),
         \A k \in 1..Len(trades) : trades[k].maker_order_id \in Nat
  PROVE  CallRight(trades, t, a, [open EXCEPT ![a] = With(open[a], t.order_id, RestingOrder(t))])
<1>1. PICK after : after = With(open[a], t.order_id, RestingOrder(t))
  OBVIOUS
<1>2. /\ DOMAIN after = DOMAIN open[a] \cup {t.order_id} /\ after[t.order_id] = RestingOrder(t)
      /\ \A id \in DOMAIN open[a] : id # t.order_id => after[id] = open[a][id]
  BY <1>1 DEF With
<1>3. t.order_id \in Nat
  BY DEF Takers
<1>4. ASSUME NEW k \in 1..Len(trades) PROVE MakerTold(trades[k], t, after)
  <2>1. MakerTold(trades[k], t, open[a])
    BY DEF CallRight
  <2>2. trades[k].maker_order_id # t.order_id
    BY <1>3, <2>1 DEF MakerTold
  <2> QED BY <1>2, <2>1, <2>2 DEF MakerTold
<1>5. PICK now : now = [open EXCEPT ![a] = after]
  OBVIOUS
<1>6. now[a] = after /\ \A c \in Listed \ {a} : now[c] = open[c]
  BY <1>5
<1>7. CallRight(trades, t, a, now)
  BY <1>2, <1>4, <1>6 DEF CallRight
<1> QED BY <1>1, <1>5, <1>7

\* Complete, as a change of the open orders.
LEMMA CompleteOpens ==
  ASSUME EngineInv, Complete
  PROVE  \/ OpenIn' = OpenIn
         \/ /\ taker.remaining_qty > 0 /\ taker.tif = "gtc"
            /\ OpenIn' = [OpenIn EXCEPT ![call.asset] =
                             With(OpenIn[call.asset], taker.order_id, RestingOrder(taker))]
<1>1. PICK a \in Listed : a = call.asset
  BY DEF Complete, EngineInv, CallInv, InCall
<1>2. \A c \in Listed \ {a} : books'[c] = books[c]
  BY <1>1, CompleteEngineInv
<1>3. CASE books' = books
  BY <1>3, OpenInSame
<1>4. CASE /\ taker.remaining_qty > 0 /\ taker.tif = "gtc"
           /\ books'[call.asset].orders =
                With(books[call.asset].orders, taker.order_id, RestingOrder(taker))
  <2>1. PICK after : after = With(OpenIn[a], taker.order_id, RestingOrder(taker))
    OBVIOUS
  <2>2. books'[a].orders = after
    BY <1>1, <1>4, <2>1, OpenInIs
  <2>3. OpenIn' = [OpenIn EXCEPT ![a] = after]
    BY <1>2, <2>2, OpenInExcept
  <2> QED BY <1>1, <1>4, <2>1, <2>3
<1> QED BY <1>3, <1>4, CompleteEngineInv

LEMMA HandleOrderTrades ==
  ASSUME EngineInv, NEW user \in Users, NEW r \in Requests, HandleOrder(user, r)
  PROVE  /\ TradesInv'
         /\ OpenIn' = OpenIn /\ taker'.order_id = next_order_id /\ InCall' /\ ~InCall
         /\ results' = <<>> /\ call'.filled = 0 /\ call'.settled = 0
         /\ next_order_id' = next_order_id + 1
         /\ \A a \in Listed : next_order_id \notin DOMAIN OpenIn[a]
<1>1. /\ phase = "idle" /\ InCall' /\ taker' \in Takers /\ taker'.order_id = next_order_id
      /\ taker'.remaining_qty = taker'.qty /\ call'.settled = 0 /\ call'.filled = 0
      /\ results' = <<>> /\ call'.asset \in Listed
  BY AcceptedOrder
<1>2. OpenIn' = OpenIn
  BY HandleOrderEngineInv, OpenInSame
<1>3. \A a \in Listed : next_order_id \notin DOMAIN OpenIn[a]
  <2>1. next_order_id \in Nat /\ ~(next_order_id < next_order_id)
    BY DEF EngineInv, BooksInv
  <2> QED BY <2>1, OpenInIs DEF EngineInv, BooksInv, IdsBelow
<1>4. taker'.qty - taker'.remaining_qty = PartSum(results', Len(results'))
      /\ call'.filled = PartSum(results', call'.settled)
  <2>1. <<>> \in Seq(Trades) /\ 0 \in 0..Len(<<>>) /\ Len(<<>>) = 0
    OBVIOUS
  <2>2. PartSum(<<>>, 0) = 0
    BY <2>1, PartSumFacts
  <2>3. taker'.qty - taker'.remaining_qty = 0
    BY <1>1 DEF Takers
  <2> QED BY <1>1, <2>1, <2>2, <2>3
<1>5. CallRight(results', taker', call'.asset, OpenIn')
  BY <1>1, <1>2, <1>3, <1>4 DEF CallRight
<1> QED BY <1>1, <1>2, <1>3, <1>4, <1>5 DEF TradesInv, InCall, HandleOrder

LEMMA CompleteTrades ==
  ASSUME EngineInv, TradesInv, Complete
  PROVE  TradesInv'
<1>1. /\ phase = "matching" /\ phase' = "settling" /\ UNCHANGED <<taker, results, call>>
      /\ call.asset \in Listed /\ taker \in Takers /\ results \in Seq(Trades)
  BY DEF Complete, EngineInv, CallInv, InCall
<1>0. PICK open : open = OpenIn
  OBVIOUS
<1>2. PICK a \in Listed, t \in Takers, trades \in Seq(Trades) :
        a = call.asset /\ t = taker /\ trades = results
  BY <1>1
<1>3. CallRight(trades, t, a, open) /\ call.filled = PartSum(results, call.settled)
  BY <1>0, <1>1, <1>2 DEF TradesInv, InCall
<1>4. \A k \in 1..Len(trades) : trades[k].maker_order_id \in Nat
  <2> TAKE k \in 1..Len(trades)
  <2>1. trades[k] \in Trades
    OBVIOUS
  <2> QED BY <2>1 DEF Trades
<1>5. CallRight(trades, t, a, [open EXCEPT ![a] = With(open[a], t.order_id, RestingOrder(t))])
  BY <1>0, <1>2, <1>3, <1>4, RestCallRight, OpenInIs
<1>6. CallRight(trades, t, a, OpenIn')
  BY <1>0, <1>2, <1>3, <1>5, CompleteOpens
<1> QED BY <1>1, <1>2, <1>3, <1>6 DEF TradesInv

LEMMA SettleFillTrades ==
  ASSUME EngineInv, TradesInv, SettleFill
  PROVE  TradesInv' /\ OpenIn' = OpenIn
<1>1. /\ call.settled + 1 \in 1..Len(results) /\ call.settled \in Nat /\ Len(results) \in Nat
      /\ results[call.settled + 1] \in Trades /\ phase = "settling"
      /\ call'.settled = call.settled + 1 /\ call'.asset = call.asset
      /\ call'.filled = call.filled + results[call.settled + 1].qty
      /\ UNCHANGED <<books, taker, results, phase>>
  BY SettleFillFacts
<1>2. OpenIn' = OpenIn
  BY <1>1 DEF OpenIn
<1>3. /\ CallRight(results, taker, call.asset, OpenIn)
      /\ call.filled = PartSum(results, call.settled)
  BY <1>1 DEF TradesInv, InCall
<1>4. PICK trades \in Seq(Trades) : trades = results
  BY DEF EngineInv, CallInv
<1>5. PICK n : n = call.settled + 1
  OBVIOUS
<1>6. PartSum(trades, n) = PartSum(trades, n - 1) + trades[n].qty /\ n - 1 = call.settled
  <2>1. n \in 0..Len(trades) /\ n > 0 /\ n - 1 = call.settled
    BY <1>1, <1>4, <1>5
  <2> QED BY <2>1, PartSumFacts
<1>7. call'.filled = PartSum(results', call'.settled)
  BY <1>1, <1>3, <1>4, <1>5, <1>6
<1> QED BY <1>1, <1>2, <1>3, <1>7 DEF TradesInv

LEMMA NextTradesInv ==
  ASSUME EngineInv, TradesInv, [Next]_vars
  PROVE  TradesInv'
<1>1. ASSUME NEW user \in Users, NEW r \in Requests, HandleOrder(user, r) PROVE TradesInv'
  BY <1>1, HandleOrderTrades
<1>2. CASE MatchStep
  BY <1>2, MatchStepTrades
<1>3. CASE Complete
  BY <1>3, CompleteTrades
<1>4. CASE SettleFill
  BY <1>4, SettleFillTrades
<1>5. CASE UNCHANGED vars
  BY <1>5 DEF vars, TradesInv, InCall, OpenIn
<1>6. CASE ~InCall'
  BY <1>6 DEF TradesInv
<1>7. ASSUME NEW user \in Users, NEW r \in Requests, OrderRefused(user, r) PROVE ~InCall'
  BY <1>7 DEF OrderRefused, InCall
<1>8. CASE Reconcile \/ Return
  BY <1>6, <1>8 DEF Reconcile, Return, InCall
<1>9. ASSUME NEW user \in Users, NEW id \in 1..MaxOrderId,
             HandleCancel(user, id) \/ CancelRefused(user, id)
      PROVE  ~InCall'
  BY <1>9 DEF HandleCancel, CancelRefused, InCall
<1>10. ASSUME NEW user \in Users, NEW amount \in OnrampAmounts, HandleOnramp(user, amount)
       PROVE  ~InCall'
  BY <1>10 DEF HandleOnramp, InCall
<1>11. ASSUME NEW user \in Users, NEW asset \in Symbols \cap Listed, NEW amount \in DepositAmounts,
              HandleDeposit(user, asset, amount)
       PROVE  ~InCall'
  BY <1>11 DEF HandleDeposit, InCall
<1>12. CASE HandleReset
  BY <1>6, <1>12 DEF HandleReset, InCall
<1> QED
  BY <1>1, <1>2, <1>3, <1>4, <1>5, <1>6, <1>7, <1>8, <1>9, <1>10, <1>11, <1>12 DEF Next

-----------------------------------------------------------------------------
\* What each kind of step does to the rows.

\* The rows after UPDATE orders SET remaining_qty, status WHERE id.
IsUpdate(after, rows, id, left, status) ==
  /\ DOMAIN after = DOMAIN rows /\ id \in DOMAIN rows
  /\ \A x \in DOMAIN rows \ {id} : after[x] = rows[x]
  /\ after[id] \in Rows
  /\ after[id].market = rows[id].market /\ after[id].user_id = rows[id].user_id
  /\ after[id].original_qty = rows[id].original_qty
  /\ after[id].remaining_qty = left /\ after[id].status = status

LEMMA UpdateRowIs ==
  ASSUME NEW id \in DOMAIN orders, orders[id] \in Rows, NEW left \in Nat,
         NEW status \in {"open", "partially_filled", "filled", "cancelled"}
  PROVE  IsUpdate(UpdateRow(id, left, status), orders, id, left, status)
<1>1. PICK row : row = [orders[id] EXCEPT !.remaining_qty = left, !.status = status]
  OBVIOUS
<1>2. UpdateRow(id, left, status) = [orders EXCEPT ![id] = row]
  BY <1>1 DEF UpdateRow
<1>3. /\ row \in Rows /\ row.market = orders[id].market /\ row.user_id = orders[id].user_id
      /\ row.original_qty = orders[id].original_qty
      /\ row.remaining_qty = left /\ row.status = status
  BY <1>1 DEF Rows
<1> QED BY <1>2, <1>3 DEF IsUpdate

\* Open orders have something left.
Quantified(open) ==
  /\ DOMAIN open = Listed
  /\ \A c \in Listed : \A id \in DOMAIN open[c] : open[c][id].remaining_qty \in Nat \ {0}

\* A fill is published only when it is settled: until then the row of the maker
\* is behind the book by it.
LEMMA FillRows ==
  ASSUME NEW rows, NEW sums, NEW open, NEW pending, NEW current, NEW a \in Listed,
         RowsRight(rows, sums, open, pending, current, a), Quantified(open),
         \A id \in DOMAIN rows : rows[id] \in Rows,
         NEW after, NEW trade \in Trades,
         IsFill(open[a], after, trade.maker_order_id, trade.qty),
         trade.maker_order_id # current, ~Awaited(pending, trade.maker_order_id)
  PROVE  RowsRight(rows, sums, [open EXCEPT ![a] = after], pending \cup {trade}, current, a)
<1>1. PICK m, n : m = trade.maker_order_id /\ n = trade.qty
  OBVIOUS
<1>2. PICK now : now = [open EXCEPT ![a] = after]
  OBVIOUS
<1>3. now[a] = after /\ \A c \in Listed \ {a} : now[c] = open[c]
  BY <1>2 DEF Quantified
<1>4. PICK more : more = pending \cup {trade}
  OBVIOUS
<1>5. Awaited(more, m) /\ \A id : id # m => (Awaited(more, id) <=> Awaited(pending, id))
  BY <1>1, <1>4 DEF Awaited
<1>6. /\ m \in DOMAIN open[a] /\ \A id \in DOMAIN after \ {m} : after[id] = open[a][id]
      /\ \A id : id # m => (id \in DOMAIN after <=> id \in DOMAIN open[a])
      /\ DOMAIN after \subseteq DOMAIN open[a]
  BY <1>1 DEF IsFill
<1>7. open[a][m].remaining_qty = n + LeftOf(after, m) /\ m # current
      /\ (m \in DOMAIN after => after[m].user_id = open[a][m].user_id)
  <2>1. n \in Nat
    BY <1>1 DEF Trades
  <2> QED BY <1>1, <2>1 DEF IsFill, LeftOf
<1>8. RowOfOrder(rows, open[a][m], a, pending, m)
  BY <1>6, <1>7 DEF RowsRight
<1>9. ASSUME NEW id \in DOMAIN rows
      PROVE  id # current /\ RowRight(rows, sums, now, more, id)
  <2>1. id # current /\ RowRight(rows, sums, open, pending, id) /\ rows[id].market \in Listed
    BY DEF RowsRight, Rows
  <2>2. IsOpen(rows[id]) => id \in DOMAIN now[rows[id].market] \/ Awaited(more, id)
    BY <1>3, <1>5, <1>6, <2>1 DEF RowRight
  <2> QED BY <2>1, <2>2 DEF RowRight
<1>10. ASSUME NEW c \in Listed, NEW id \in DOMAIN now[c], id # current
       PROVE  RowOfOrder(rows, now[c][id], c, more, id)
  <2>1. CASE c = a /\ id = m
    BY <1>1, <1>3, <1>5, <1>7, <1>8, <2>1 DEF RowOfOrder
  <2>2. CASE c = a /\ id # m
    <3>1. id \in DOMAIN open[a] /\ now[c][id] = open[a][id]
      BY <1>3, <1>6, <1>10, <2>2
    <3>2. RowOfOrder(rows, open[a][id], a, pending, id)
      BY <1>10, <3>1 DEF RowsRight
    <3> QED BY <1>5, <2>2, <3>1, <3>2 DEF RowOfOrder
  <2>3. CASE c # a
    <3>1. id \in DOMAIN open[c] /\ now[c][id] = open[c][id]
      BY <1>3, <1>10, <2>3
    <3>2. RowOfOrder(rows, open[c][id], c, pending, id)
      BY <1>10, <3>1 DEF RowsRight
    <3>3. id # m
      BY <1>8, <2>3, <3>2 DEF RowOfOrder
    <3> QED BY <1>5, <3>1, <3>2, <3>3 DEF RowOfOrder
  <2> QED BY <2>1, <2>2, <2>3
<1>11. ASSUME NEW t \in more PROVE RowAwaits(rows, now[a], a, t)
  <2>1. CASE t = trade
    <3>1. rows[m].remaining_qty = open[a][m].remaining_qty
      BY <1>1, <1>8 DEF RowOfOrder
    <3> QED BY <1>1, <1>3, <1>7, <1>8, <2>1, <3>1 DEF RowOfOrder, RowAwaits
  <2>2. CASE t # trade
    <3>1. t \in pending /\ t.maker_order_id # m
      BY <1>1, <1>4, <1>11, <2>2 DEF Awaited
    <3>2. RowAwaits(rows, open[a], a, t)
      BY <3>1 DEF RowsRight
    <3>3. LeftOf(after, t.maker_order_id) = LeftOf(open[a], t.maker_order_id)
      BY <1>6, <3>1 DEF LeftOf
    <3> QED BY <1>3, <3>2, <3>3 DEF RowAwaits
  <2> QED BY <2>1, <2>2
<1>12. RowsRight(rows, sums, now, more, current, a)
  BY <1>9, <1>10, <1>11 DEF RowsRight
<1> QED BY <1>2, <1>4, <1>12

\* TradeExecuted brings the maker's row up to date.
LEMMA SettleRows ==
  ASSUME NEW rows, NEW sums, NEW open, NEW pending, NEW current, NEW a \in Listed,
         RowsRight(rows, sums, open, pending, current, a), Quantified(open),
         \A id \in DOMAIN rows : rows[id] \in Rows,
         NEW trade \in pending, NEW m, m = trade.maker_order_id, trade \in Trades,
         \A t \in pending : t.maker_order_id = m => t = trade,
         NEW after, NEW left, left = LeftOf(open[a], m),
         IsUpdate(after, rows, m, left, MakerStatus(left)),
         NEW total, SumOf(sums, m) \in Int, SumOf(total, m) = SumOf(sums, m) + trade.qty,
         \A id : id # m /\ id # current => SumOf(total, id) = SumOf(sums, id)
  PROVE  RowsRight(after, total, open, pending \ {trade}, current, a)
<1>1. PICK less : less = pending \ {trade}
  OBVIOUS
<1>2. ~Awaited(less, m) /\ \A id : id # m => (Awaited(less, id) <=> Awaited(pending, id))
  BY <1>1 DEF Awaited
<1>3. RowAwaits(rows, open[a], a, trade)
  BY DEF RowsRight
<1>4. /\ m \in DOMAIN rows /\ IsOpen(rows[m]) /\ rows[m].market = a
      /\ rows[m].remaining_qty = trade.qty + left
  BY <1>3 DEF RowAwaits
<1>5. /\ left \in Nat /\ (left # 0 <=> m \in DOMAIN open[a])
      /\ (m \in DOMAIN open[a] => open[a][m].remaining_qty = left)
  BY DEF LeftOf, Quantified
<1>6. trade.qty \in Nat /\ rows[m].original_qty \in Nat /\ rows[m].remaining_qty \in Nat
  BY <1>4 DEF Trades, Rows
<1>7. /\ after[m].market = a /\ after[m].user_id = rows[m].user_id
      /\ after[m].original_qty = rows[m].original_qty /\ after[m].remaining_qty = left
      /\ after[m].status = (IF left = 0 THEN "filled" ELSE "partially_filled")
      /\ DOMAIN after = DOMAIN rows /\ \A x \in DOMAIN rows \ {m} : after[x] = rows[x]
  BY <1>4 DEF IsUpdate, MakerStatus
<1>8. ASSUME NEW id \in DOMAIN after
      PROVE  id # current /\ RowRight(after, total, open, less, id)
  <2>1. id # current /\ RowRight(rows, sums, open, pending, id)
    BY <1>7 DEF RowsRight
  <2>2. CASE id = m
    <3>1. rows[m].original_qty - rows[m].remaining_qty = SumOf(sums, m)
      BY <2>1, <2>2 DEF RowRight
    <3>2. rows[m].original_qty - left = SumOf(total, m)
      BY <1>4, <1>5, <1>6, <3>1
    <3>3. (after[m].status = "filled") = (after[m].remaining_qty = 0)
      BY <1>7
    <3>4. IsOpen(after[m]) => m \in DOMAIN open[after[m].market]
      BY <1>5, <1>7 DEF IsOpen
    <3> QED BY <1>7, <2>1, <2>2, <3>2, <3>3, <3>4 DEF RowRight
  <2>3. CASE id # m
    <3>1. after[id] = rows[id] /\ SumOf(total, id) = SumOf(sums, id)
      BY <1>7, <2>1, <2>3
    <3> QED BY <1>2, <2>1, <2>3, <3>1 DEF RowRight
  <2> QED BY <2>2, <2>3
<1>9. ASSUME NEW c \in Listed, NEW id \in DOMAIN open[c], id # current
      PROVE  RowOfOrder(after, open[c][id], c, less, id)
  <2>1. RowOfOrder(rows, open[c][id], c, pending, id)
    BY <1>9 DEF RowsRight
  <2>2. CASE id = m
    <3>1. c = a
      BY <1>4, <2>1, <2>2 DEF RowOfOrder
    <3> QED BY <1>4, <1>5, <1>7, <2>1, <2>2, <3>1 DEF RowOfOrder, IsOpen
  <2>3. CASE id # m
    <3>1. id \in DOMAIN rows
      BY <2>1 DEF RowOfOrder
    <3>2. after[id] = rows[id]
      BY <1>7, <2>3, <3>1
    <3> QED BY <1>2, <1>7, <2>1, <2>3, <3>2 DEF RowOfOrder
  <2> QED BY <2>2, <2>3
<1>10. ASSUME NEW t \in less PROVE RowAwaits(after, open[a], a, t)
  <2>1. t \in pending /\ t.maker_order_id # m
    BY <1>1
  <2>2. RowAwaits(rows, open[a], a, t)
    BY <2>1 DEF RowsRight
  <2> QED BY <1>7, <2>1, <2>2 DEF RowAwaits
<1>11. RowsRight(after, total, open, less, current, a)
  BY <1>8, <1>9, <1>10 DEF RowsRight
<1> QED BY <1>1, <1>11

\* What rests of the taker has no row until OrderCreated.
LEMMA RestRows ==
  ASSUME NEW rows, NEW sums, NEW open, NEW pending, NEW current, NEW a \in Listed,
         RowsRight(rows, sums, open, pending, current, a), Quantified(open),
         \A id \in DOMAIN rows : rows[id] \in Rows, NEW o
  PROVE  RowsRight(rows, sums, [open EXCEPT ![a] = With(open[a], current, o)], pending, current, a)
<1>1. PICK now : now = [open EXCEPT ![a] = With(open[a], current, o)]
  OBVIOUS
<1>2. /\ \A c \in Listed \ {a} : now[c] = open[c]
      /\ DOMAIN now[a] = DOMAIN open[a] \cup {current}
      /\ \A id \in DOMAIN open[a] : id # current => now[a][id] = open[a][id]
  BY <1>1 DEF Quantified, With
<1>3. ASSUME NEW id \in DOMAIN rows
      PROVE  id # current /\ RowRight(rows, sums, now, pending, id)
  <2>1. id # current /\ RowRight(rows, sums, open, pending, id) /\ rows[id].market \in Listed
    BY DEF RowsRight, Rows
  <2>2. DOMAIN open[rows[id].market] \subseteq DOMAIN now[rows[id].market]
    BY <1>2, <2>1
  <2> QED BY <2>1, <2>2 DEF RowRight
<1>4. ASSUME NEW c \in Listed, NEW id \in DOMAIN now[c], id # current
      PROVE  RowOfOrder(rows, now[c][id], c, pending, id)
  <2>1. id \in DOMAIN open[c] /\ now[c][id] = open[c][id]
    BY <1>2, <1>4
  <2> QED BY <1>4, <2>1 DEF RowsRight
<1>5. ASSUME NEW t \in pending PROVE RowAwaits(rows, now[a], a, t)
  <2>1. RowAwaits(rows, open[a], a, t)
    BY DEF RowsRight
  <2>2. t.maker_order_id # current
    BY <2>1 DEF RowAwaits, RowsRight
  <2>3. LeftOf(now[a], t.maker_order_id) = LeftOf(open[a], t.maker_order_id)
    BY <1>2, <2>2 DEF LeftOf
  <2> QED BY <2>1, <2>3 DEF RowAwaits
<1>6. RowsRight(rows, sums, now, pending, current, a)
  BY <1>3, <1>4, <1>5 DEF RowsRight
<1> QED BY <1>1, <1>6

\* OrderCreated gives what rests its row.
LEMMA FinishRows ==
  ASSUME NEW rows, NEW sums, NEW open, NEW current, NEW a \in Listed, NEW b, NEW c,
         RowsRight(rows, sums, open, {}, current, b), Quantified(open), current # 0,
         0 \notin DOMAIN rows, NEW row, row \in Rows,
         \A d \in Listed : current \in DOMAIN open[d] => d = a,
         current \in DOMAIN open[a], row.market = a, row.status = "open",
         row.user_id = open[a][current].user_id,
         row.remaining_qty = open[a][current].remaining_qty,
         row.original_qty - row.remaining_qty = SumOf(sums, current)
  PROVE  RowsRight(With(rows, current, row), sums, open, {}, 0, c)
<1>1. PICK after : after = With(rows, current, row)
  OBVIOUS
<1>2. /\ DOMAIN after = DOMAIN rows \cup {current} /\ after[current] = row
      /\ \A id \in DOMAIN rows : id # current => after[id] = rows[id]
  BY <1>1 DEF With
<1>3. \A id \in DOMAIN rows : id # current /\ id # 0 /\ RowRight(rows, sums, open, {}, id)
  BY DEF RowsRight
<1>4. RowRight(after, sums, open, {}, current)
  <2>1. row.remaining_qty # 0
    BY DEF Quantified
  <2>2. (after[current].status = "filled") = (after[current].remaining_qty = 0)
    BY <1>2, <2>1
  <2> QED BY <1>2, <2>2 DEF RowRight
<1>5. ASSUME NEW id \in DOMAIN after PROVE id # 0 /\ RowRight(after, sums, open, {}, id)
  <2>1. CASE id = current
    BY <1>4, <2>1
  <2>2. CASE id # current
    BY <1>2, <1>3, <2>2 DEF RowRight
  <2> QED BY <2>1, <2>2
<1>6. ASSUME NEW d \in Listed, NEW id \in DOMAIN open[d], id # 0
      PROVE  RowOfOrder(after, open[d][id], d, {}, id)
  <2>1. CASE id = current
    <3>1. d = a
      BY <2>1
    <3> QED BY <1>2, <2>1, <3>1 DEF RowOfOrder, IsOpen
  <2>2. CASE id # current
    <3>1. RowOfOrder(rows, open[d][id], d, {}, id)
      BY <2>2 DEF RowsRight
    <3>2. id \in DOMAIN rows /\ after[id] = rows[id] /\ id \in DOMAIN after
      BY <1>2, <2>2, <3>1 DEF RowOfOrder
    <3> QED BY <3>1, <3>2 DEF RowOfOrder
  <2> QED BY <2>1, <2>2
<1>7. RowsRight(after, sums, open, {}, 0, c)
  BY <1>5, <1>6 DEF RowsRight
<1> QED BY <1>1, <1>7

\* An order begins to be executed, or ends without resting.
LEMMA OtherTakerRows ==
  ASSUME NEW rows, NEW sums, NEW open, NEW current, NEW new, NEW a, NEW b,
         RowsRight(rows, sums, open, {}, current, a), new \notin DOMAIN rows,
         \A c \in Listed : current \notin DOMAIN open[c]
  PROVE  RowsRight(rows, sums, open, {}, new, b)
BY DEF RowsRight

\* OrderCancelled closes the row of the order.
LEMMA CancelRows ==
  ASSUME NEW rows, NEW sums, NEW open, NEW c \in Listed, NEW a, NEW b,
         RowsRight(rows, sums, open, {}, 0, a), Quantified(open),
         \A id \in DOMAIN rows : rows[id] \in Rows,
         NEW m \in DOMAIN open[c], m # 0, NEW after,
         IsUpdate(after, rows, m, open[c][m].remaining_qty, "cancelled")
  PROVE  RowsRight(after, sums, [open EXCEPT ![c] = Without(open[c], m)], {}, 0, b)
<1>1. PICK now : now = [open EXCEPT ![c] = Without(open[c], m)]
  OBVIOUS
<1>2. /\ \A d \in Listed \ {c} : now[d] = open[d]
      /\ DOMAIN now[c] = DOMAIN open[c] \ {m}
      /\ \A id \in DOMAIN now[c] : now[c][id] = open[c][id]
  BY <1>1 DEF Quantified, Without
<1>3. /\ DOMAIN after = DOMAIN rows /\ \A x \in DOMAIN rows \ {m} : after[x] = rows[x]
      /\ after[m].original_qty = rows[m].original_qty
      /\ after[m].remaining_qty = open[c][m].remaining_qty
      /\ after[m].status = "cancelled"
  BY DEF IsUpdate
<1>4. \A id : ~Awaited({}, id)
  BY DEF Awaited
<1>5. RowOfOrder(rows, open[c][m], c, {}, m)
  BY DEF RowsRight
<1>6. m \in DOMAIN rows /\ rows[m].market = c /\ rows[m].remaining_qty = open[c][m].remaining_qty
  BY <1>4, <1>5 DEF RowOfOrder
<1>7. RowRight(after, sums, now, {}, m)
  <2>1. rows[m].original_qty - rows[m].remaining_qty = SumOf(sums, m)
    BY <1>6 DEF RowsRight, RowRight
  <2>2. ~IsOpen(after[m]) /\ after[m].remaining_qty # 0 /\ after[m].status # "filled"
    BY <1>3 DEF IsOpen, Quantified
  <2>3. (after[m].status = "filled") = (after[m].remaining_qty = 0)
    BY <2>2
  <2> QED BY <1>3, <1>6, <2>1, <2>2, <2>3 DEF RowRight
<1>8. ASSUME NEW id \in DOMAIN after PROVE id # 0 /\ RowRight(after, sums, now, {}, id)
  <2>1. CASE id = m
    BY <1>7, <2>1
  <2>2. CASE id # m
    <3>1. /\ id # 0 /\ RowRight(rows, sums, open, {}, id) /\ rows[id].market \in Listed
          /\ after[id] = rows[id]
      BY <1>3, <2>2 DEF RowsRight, Rows
    <3>2. id \in DOMAIN open[rows[id].market] => id \in DOMAIN now[rows[id].market]
      BY <1>2, <2>2, <3>1
    <3> QED BY <3>1, <3>2 DEF RowRight
  <2> QED BY <2>1, <2>2
<1>9. ASSUME NEW d \in Listed, NEW id \in DOMAIN now[d], id # 0
      PROVE  RowOfOrder(after, now[d][id], d, {}, id)
  <2>1. id \in DOMAIN open[d] /\ now[d][id] = open[d][id] /\ (d = c => id # m)
    BY <1>2
  <2>2. RowOfOrder(rows, open[d][id], d, {}, id)
    BY <1>9, <2>1 DEF RowsRight
  <2>3. id # m /\ id \in DOMAIN rows
    BY <1>6, <2>1, <2>2 DEF RowOfOrder
  <2> QED BY <1>3, <2>1, <2>2, <2>3 DEF RowOfOrder
<1>10. RowsRight(after, sums, now, {}, 0, b)
  BY <1>8, <1>9 DEF RowsRight
<1> QED BY <1>1, <1>10

-----------------------------------------------------------------------------
\* The steps of the exchange.

\* The open orders of well-formed books.
LEMMA OpenQuantified == EngineInv => Quantified(OpenIn)
<1> SUFFICES ASSUME EngineInv PROVE Quantified(OpenIn)
  OBVIOUS
<1>1. ASSUME NEW c \in Listed, NEW id \in DOMAIN OpenIn[c]
      PROVE  OpenIn[c][id].remaining_qty \in Nat \ {0}
  <2>1. OpenIn[c] = books[c].orders /\ books[c].orders[id] \in Orders(Users)
    BY OpenInIs DEF EngineInv, BooksInv, WellFormed, BookType
  <2> QED BY <2>1 DEF Orders
<1> QED BY <1>1, OpenInIs DEF Quantified

\* Outside of a call nothing is pending.
LEMMA NothingPending == ~InCall => Pending = {} /\ Current = 0
BY DEF Pending, Current

LEMMA SumOfType ==
  ASSUME NEW rows, NEW sums, NEW n, RowsType(rows, sums, n), NEW id
  PROVE  SumOf(sums, id) \in Int
BY DEF RowsType, SumOf

\* Pending trades have different makers, below the taker.
LEMMA PendingFacts ==
  ASSUME EngineInv, TradesInv, InCall
  PROVE  /\ Pending \subseteq Trades
         /\ \A t \in Pending : MakerTold(t, taker, OpenIn[call.asset])
         /\ \A s, t \in Pending : s.maker_order_id = t.maker_order_id => s = t
         /\ taker.order_id \in Nat \ {0}
<1>1. /\ results \in Seq(Trades) /\ taker \in Takers /\ call.settled \in 0..Len(results)
      /\ CallRight(results, taker, call.asset, OpenIn)
  BY DEF EngineInv, CallInv, TradesInv
<1>2. \A k \in (call.settled + 1)..Len(results) : k \in 1..Len(results)
  BY <1>1
<1>3. Pending = {results[k] : k \in (call.settled + 1)..Len(results)}
  BY DEF Pending
<1>4. \A t \in Pending : \E k \in 1..Len(results) : t = results[k]
  BY <1>2, <1>3
<1>5. Pending \subseteq Trades
  BY <1>1, <1>4
<1>6. taker.order_id \in Nat \ {0}
  BY <1>1 DEF Takers
<1>7. /\ \A k \in 1..Len(results) : MakerTold(results[k], taker, OpenIn[call.asset])
      /\ \A j, k \in 1..Len(results) :
           results[j].maker_order_id = results[k].maker_order_id => j = k
  BY <1>1 DEF CallRight
<1>8. \A t \in Pending : MakerTold(t, taker, OpenIn[call.asset])
  BY <1>4, <1>7
<1>9. \A s, t \in Pending : s.maker_order_id = t.maker_order_id => s = t
  BY <1>4, <1>7
<1> QED BY <1>5, <1>6, <1>8, <1>9

\* A fill adds a pending trade.
LEMMA MatchStepPending ==
  ASSUME EngineInv, MatchStep, NEW trade, results' = Append(results, trade)
  PROVE  /\ Pending' = Pending \cup {trade} /\ InCall /\ InCall' /\ call' = call
         /\ Current' = Current /\ Current = taker.order_id /\ taker'.order_id = taker.order_id
         /\ next_order_id' = next_order_id
<1>1. /\ phase = "matching" /\ phase' = "matching" /\ call' = call /\ call.settled = 0
      /\ results \in Seq(Trades) /\ next_order_id' = next_order_id
  BY DEF MatchStep, EngineInv, CallInv
<1>2. taker'.order_id = taker.order_id
  BY MatchStepTrade DEF Takers
<1>3. PICK n \in Nat : n = Len(results)
  BY <1>1
<1>4. /\ Len(results') = n + 1 /\ results'[n + 1] = trade
      /\ \A k \in 1..n : results'[k] = results[k]
  BY <1>1, <1>3
<1>5. Pending = {results[k] : k \in 1..n} /\ Pending' = {results'[k] : k \in 1..(n + 1)}
  BY <1>1, <1>3, <1>4 DEF Pending, InCall
<1>6. \A k \in 1..(n + 1) : k \in 1..n \/ k = n + 1
  OBVIOUS
<1>7. n + 1 \in 1..(n + 1) /\ \A k \in 1..n : k \in 1..(n + 1)
  OBVIOUS
<1>8. Pending' = Pending \cup {trade}
  BY <1>4, <1>5, <1>6, <1>7
<1> QED BY <1>1, <1>2, <1>8 DEF Current, InCall

\* Settling a trade takes it out of the pending ones.
LEMMA TradePending ==
  ASSUME EngineInv, TradesInv, SettleFill, NEW trade, trade = results[call.settled + 1]
  PROVE  /\ trade \in Pending /\ Pending' = Pending \ {trade} /\ InCall /\ InCall'
         /\ Current' = Current /\ Current = taker.order_id
<1>1. /\ call.settled + 1 \in 1..Len(results) /\ call.settled \in Nat /\ Len(results) \in Nat
      /\ phase = "settling" /\ call'.settled = call.settled + 1
      /\ UNCHANGED <<taker, results, phase>>
  BY SettleFillFacts
<1>2. PICK n \in Nat : n = call.settled
  BY <1>1
<1>3. PICK len \in Nat : len = Len(results) /\ n + 1 \in 1..len
  BY <1>1, <1>2
<1>4. /\ Pending = {results[k] : k \in (n + 1)..len}
      /\ Pending' = {results[k] : k \in (n + 2)..len}
  <2>1. (n + 1) + 1 = n + 2
    OBVIOUS
  <2> QED BY <1>1, <1>2, <1>3, <2>1 DEF Pending, InCall
<1>5. \A j, k \in 1..len : results[j].maker_order_id = results[k].maker_order_id => j = k
  BY <1>1, <1>3 DEF TradesInv, InCall, CallRight
<1>6. \A k \in (n + 2)..len : results[k] # trade
  <2> TAKE k \in (n + 2)..len
  <2>1. k \in 1..len /\ n + 1 \in 1..len /\ k # n + 1
    BY <1>3
  <2> QED BY <1>2, <1>5, <2>1
<1>7. \A k \in (n + 1)..len : k = n + 1 \/ k \in (n + 2)..len
  OBVIOUS
<1>8. n + 1 \in (n + 1)..len /\ \A k \in (n + 2)..len : k \in (n + 1)..len
  BY <1>3
<1>9. trade \in Pending /\ Pending' = Pending \ {trade}
  BY <1>2, <1>4, <1>6, <1>7, <1>8
<1> QED BY <1>1, <1>9 DEF Current, InCall

LEMMA MatchStepRows ==
  ASSUME EngineInv, TradesInv, RowsInv, MatchStep, UNCHANGED tables
  PROVE  RowsInv'
<1>1. PICK a, t, trade, after :
           /\ a \in Listed /\ t \in Takers /\ trade \in Trades
           /\ a = call.asset /\ t = taker /\ t.remaining_qty > 0
           /\ trade.qty \in 1..t.remaining_qty
           /\ results' = Append(results, trade)
           /\ taker' = [t EXCEPT !.remaining_qty = t.remaining_qty - trade.qty]
           /\ IsFill(OpenIn[a], after, trade.maker_order_id, trade.qty)
           /\ trade.maker_order_id \in DOMAIN after => trade.qty = t.remaining_qty
           /\ OpenIn[a][trade.maker_order_id].side = Opposite(t.side)
           /\ OpenIn[a][trade.maker_order_id].user_id = MakerUser(trade)
           /\ trade.taker_order_id = t.order_id /\ trade.taker_side = t.side
           /\ OpenIn' = [OpenIn EXCEPT ![a] = after]
  BY MatchStepFill
<1>2. /\ Pending' = Pending \cup {trade} /\ InCall /\ InCall' /\ call' = call
      /\ Current' = Current /\ Current = taker.order_id /\ taker'.order_id = taker.order_id
      /\ next_order_id' = next_order_id
  BY <1>1, MatchStepPending
<1>3. PICK rows, sums, open, pending, current :
        /\ rows = orders /\ sums = traded /\ open = OpenIn /\ pending = Pending
        /\ current = Current
  OBVIOUS
<1>4. /\ RowsRight(rows, sums, open, pending, current, a) /\ Quantified(open)
      /\ \A id \in DOMAIN rows : rows[id] \in Rows
  BY <1>1, <1>3, OpenQuantified DEF RowsInv, RowsType
<1>5. PICK m : m = trade.maker_order_id
  OBVIOUS
<1>6. m \in DOMAIN open[a]
  BY <1>1, <1>3, <1>5 DEF IsFill
<1>7. m # current
  <2>1. phase = "matching" /\ IdsBelow(taker.order_id) /\ taker.order_id \in Nat
    BY <1>1 DEF MatchStep, EngineInv, CallInv, Takers
  <2>2. m < taker.order_id
    <3>1. a \in Listed
      BY <1>1
    <3> QED BY <1>3, <1>6, <2>1, <3>1, OpenInIs DEF IdsBelow
  <2> QED BY <1>2, <1>3, <2>1, <2>2
<1>8. ~Awaited(pending, m)
  <2>1. ASSUME NEW x \in pending PROVE x.maker_order_id \notin DOMAIN open[a]
    <3>1. MakerTold(x, t, open[a])
      BY <1>1, <1>2, <1>3, PendingFacts
    <3>2. t.remaining_qty # 0
      BY <1>1 DEF Takers
    <3> QED BY <3>1, <3>2 DEF MakerTold
  <2> QED BY <1>6, <2>1 DEF Awaited
<1>9. RowsRight(rows, sums, [open EXCEPT ![a] = after], pending \cup {trade}, current, a)
  BY <1>1, <1>3, <1>4, <1>5, <1>7, <1>8, FillRows
<1>10. RowsRight(orders', traded', OpenIn', Pending', Current', call'.asset)
  BY <1>1, <1>2, <1>3, <1>9 DEF tables
<1> QED BY <1>2, <1>10 DEF RowsInv, tables

LEMMA CompleteRows ==
  ASSUME EngineInv, TradesInv, RowsInv, Complete, UNCHANGED tables
  PROVE  RowsInv'
<1>1. /\ phase = "matching" /\ phase' = "settling" /\ call.asset \in Listed
      /\ UNCHANGED <<taker, results, call, next_order_id>>
  BY DEF Complete, EngineInv, CallInv, InCall
<1>2. Pending' = Pending /\ Current' = Current /\ Current = taker.order_id /\ InCall
  BY <1>1 DEF Pending, Current, InCall
<1>9. PICK a \in Listed : a = call.asset
  BY <1>1
<1>3. PICK rows, sums, open, pending, current :
        /\ rows = orders /\ sums = traded /\ open = OpenIn /\ pending = Pending
        /\ current = Current
  OBVIOUS
<1>4. /\ RowsRight(rows, sums, open, pending, current, a) /\ Quantified(open)
      /\ \A id \in DOMAIN rows : rows[id] \in Rows
  BY <1>3, <1>9, OpenQuantified DEF RowsInv, RowsType
<1>5. PICK o : o = RestingOrder(taker)
  OBVIOUS
<1>6. RowsRight(rows, sums, [open EXCEPT ![a] = With(open[a], current, o)], pending, current, a)
  BY <1>4, RestRows
<1>7. RowsRight(rows, sums, OpenIn', pending, current, a)
  BY <1>2, <1>3, <1>4, <1>5, <1>6, <1>9, CompleteOpens
<1>8. RowsRight(orders', traded', OpenIn', Pending', Current', call'.asset)
  BY <1>1, <1>2, <1>3, <1>7, <1>9 DEF tables
<1> QED BY <1>1, <1>2, <1>8 DEF RowsInv, tables

\* The sums of the trades after a trade of qty between the orders m and u.
IsTraded(total, sums, m, u, qty) ==
  /\ DOMAIN total = DOMAIN sums \cup {m, u}
  /\ SumOf(total, m) = SumOf(sums, m) + qty
  /\ SumOf(total, u) = SumOf(sums, u) + qty
  /\ \A id : id # m /\ id # u => SumOf(total, id) = SumOf(sums, id)

LEMMA TradedIs ==
  ASSUME NEW sums, NEW m, NEW u, m # u, NEW qty \in Int, NEW total,
         total = Traded(Traded(sums, m, qty), u, qty),
         SumOf(sums, m) \in Int, SumOf(sums, u) \in Int
  PROVE  IsTraded(total, sums, m, u, qty)
<1>1. PICK half : half = Traded(sums, m, qty)
  OBVIOUS
<1>2. /\ DOMAIN half = DOMAIN sums \cup {m} /\ half[m] = qty + SumOf(sums, m)
      /\ \A id \in DOMAIN sums : id # m => half[id] = sums[id]
  BY <1>1 DEF Traded, With, SumOf
<1>3. SumOf(half, u) = SumOf(sums, u)
  BY <1>2 DEF SumOf
<1>4. /\ DOMAIN total = DOMAIN half \cup {u} /\ total[u] = qty + SumOf(half, u)
      /\ \A id \in DOMAIN half : id # u => total[id] = half[id]
  BY <1>1 DEF Traded, With, SumOf
<1>5. DOMAIN total = DOMAIN sums \cup {m, u}
  BY <1>2, <1>4
<1>6. /\ SumOf(total, m) = qty + SumOf(sums, m) /\ SumOf(total, u) = qty + SumOf(sums, u)
  BY <1>2, <1>3, <1>4 DEF SumOf
<1>7. \A id : id # m /\ id # u => SumOf(total, id) = SumOf(sums, id)
  BY <1>2, <1>4 DEF SumOf
<1> QED BY <1>5, <1>6, <1>7 DEF IsTraded

LEMMA TradeRows ==
  ASSUME EngineInv, TradesInv, RowsInv, Trade
  PROVE  RowsInv'
<1>1. SettleFill
  BY DEF Trade
<1>2. PICK trade \in Trades : trade = results[call.settled + 1]
  BY <1>1, SettleFillFacts
<1>3. PICK a \in Listed : a = call.asset
  BY <1>1, SettleFillFacts
<1>4. /\ trade \in Pending /\ Pending' = Pending \ {trade} /\ InCall /\ InCall'
      /\ Current' = Current /\ Current = taker.order_id
  BY <1>1, <1>2, TradePending
<1>5. /\ call'.filled = call.filled + trade.qty /\ call'.asset = call.asset
      /\ UNCHANGED <<books, next_order_id, taker>> /\ OpenIn' = OpenIn
  BY <1>1, <1>2, SettleFillFacts, SettleFillTrades
<1>6. PICK rows, sums, open, pending, current :
        /\ rows = orders /\ sums = traded /\ open = OpenIn /\ pending = Pending
        /\ current = Current
  OBVIOUS
<1>7. PICK m : m = trade.maker_order_id
  OBVIOUS
<1>8. PICK left : left = LeftOf(open[a], m)
  OBVIOUS
<1>9. /\ RowsRight(rows, sums, open, pending, current, a) /\ Quantified(open)
      /\ \A id \in DOMAIN rows : rows[id] \in Rows
      /\ RowsType(rows, sums, next_order_id) /\ SumOf(sums, current) = call.filled
  BY <1>3, <1>4, <1>6, OpenQuantified DEF RowsInv, RowsType
<1>10. /\ \A t \in pending : t.maker_order_id = m => t = trade
       /\ MakerTold(trade, taker, open[a]) /\ taker.order_id \in Nat \ {0}
       /\ trade \in pending
  BY <1>3, <1>4, <1>6, <1>7, PendingFacts
<1>11. /\ current = trade.taker_order_id /\ m \in Nat /\ current \in Nat \ {0} /\ m # current
       /\ trade.qty \in Nat
  BY <1>4, <1>6, <1>7, <1>10 DEF MakerTold, Trades
<1>12. /\ traded' = Traded(Traded(sums, m, trade.qty), current, trade.qty)
       /\ orders' = UpdateRow(m, left, MakerStatus(left))
  <2>1. MakerRemaining(books[a], trade) = left
    BY <1>6, <1>7, <1>8, OpenInIs DEF MakerRemaining, LeftOf
  <2>2. StoreTrade(a, trade)
    BY <1>2, <1>3 DEF Trade
  <2> QED BY <1>6, <1>7, <1>11, <2>1, <2>2 DEF StoreTrade
<1>13. RowAwaits(rows, open[a], a, trade)
  BY <1>9, <1>10 DEF RowsRight
<1>14. m \in DOMAIN rows /\ left \in Nat
  BY <1>7, <1>8, <1>9, <1>13 DEF RowAwaits, LeftOf, Quantified
<1>15. PICK after : after = orders'
  OBVIOUS
<1>16. IsUpdate(after, rows, m, left, MakerStatus(left))
  <2>1. MakerStatus(left) \in {"open", "partially_filled", "filled", "cancelled"}
    BY DEF MakerStatus
  <2> QED BY <1>6, <1>9, <1>12, <1>14, <1>15, <2>1, UpdateRowIs
<1>17. PICK total : total = traded'
  OBVIOUS
<1>18. SumOf(sums, m) \in Int /\ SumOf(sums, current) \in Int
  BY <1>9, SumOfType
<1>19. /\ DOMAIN total = DOMAIN sums \cup {m, current}
       /\ SumOf(total, m) = SumOf(sums, m) + trade.qty
       /\ SumOf(total, current) = SumOf(sums, current) + trade.qty
       /\ \A id : id # m /\ id # current => SumOf(total, id) = SumOf(sums, id)
  <2>1. PICK qty \in Int : qty = trade.qty
    BY <1>11
  <2>2. total = Traded(Traded(sums, m, qty), current, qty)
    BY <1>12, <1>17, <2>1
  <2>3. IsTraded(total, sums, m, current, qty)
    BY <1>11, <1>18, <2>2, TradedIs
  <2> QED BY <2>1, <2>3 DEF IsTraded
<1>20. RowsRight(after, total, open, pending \ {trade}, current, a)
  BY <1>7, <1>8, <1>9, <1>10, <1>16, <1>18, <1>19, SettleRows
<1>21. RowsRight(orders', traded', OpenIn', Pending', Current', call'.asset)
  BY <1>3, <1>4, <1>5, <1>6, <1>15, <1>17, <1>20
<1>22. RowsType(after, total, next_order_id)
  <2>1. /\ m \in Nat \ {0} /\ m < next_order_id
    BY <1>9, <1>14 DEF RowsType
  <2>2. current < next_order_id
    BY <1>4, <1>6 DEF EngineInv, CallInv
  <2>3. \A id \in DOMAIN after : id \in Nat \ {0} /\ id < next_order_id /\ after[id] \in Rows
    BY <1>9, <1>16 DEF RowsType, IsUpdate
  <2>4. ASSUME NEW id \in DOMAIN total
        PROVE  id \in Nat \ {0} /\ id < next_order_id /\ total[id] \in Int
    <3>1. SumOf(total, id) = total[id]
      BY DEF SumOf
    <3>2. CASE id = m
      BY <1>11, <1>18, <1>19, <2>1, <3>1, <3>2
    <3>3. CASE id = current
      BY <1>11, <1>18, <1>19, <2>2, <3>1, <3>3
    <3>4. CASE id # m /\ id # current
      <4>1. id \in DOMAIN sums
        BY <1>19, <3>4
      <4>2. total[id] = sums[id]
        BY <1>19, <3>1, <3>4, <4>1 DEF SumOf
      <4> QED BY <1>9, <4>1, <4>2 DEF RowsType
    <3> QED BY <3>2, <3>3, <3>4
  <2> QED BY <2>3, <2>4 DEF RowsType
<1>23. SumOf(traded', taker'.order_id) = call'.filled
  BY <1>4, <1>5, <1>6, <1>9, <1>17, <1>19
<1> QED BY <1>5, <1>15, <1>17, <1>21, <1>22, <1>23 DEF RowsInv

LEMMA HandleOrderRows ==
  ASSUME EngineInv, RowsInv, NEW user \in Users, NEW r \in Requests, HandleOrder(user, r),
         UNCHANGED tables
  PROVE  RowsInv'
<1>1. /\ OpenIn' = OpenIn /\ taker'.order_id = next_order_id /\ InCall' /\ ~InCall
      /\ results' = <<>> /\ call'.filled = 0 /\ call'.settled = 0
      /\ next_order_id' = next_order_id + 1
      /\ \A a \in Listed : next_order_id \notin DOMAIN OpenIn[a]
  BY HandleOrderTrades
<1>2. PICK n \in Nat \ {0} : n = next_order_id
  BY DEF EngineInv, BooksInv
<1>3. RowsType(orders, traded, n) /\ RowsRight(orders, traded, OpenIn, {}, 0, call.asset)
  BY <1>1, <1>2, NothingPending DEF RowsInv
<1>4. n \notin DOMAIN orders /\ n \notin DOMAIN traded
  <2>1. ~(n < n)
    OBVIOUS
  <2> QED BY <1>3, <2>1 DEF RowsType
<1>5. \A a \in Listed : 0 \notin DOMAIN OpenIn[a]
  BY OpenInIs DEF EngineInv, BooksInv, WellFormed, BookType
<1>6. PICK rows, sums, open, a, b :
        rows = orders /\ sums = traded /\ open = OpenIn /\ a = call.asset /\ b = call'.asset
  OBVIOUS
<1>7. RowsRight(rows, sums, open, {}, n, b)
  BY <1>3, <1>4, <1>5, <1>6, OtherTakerRows
<1>8. Pending' = {} /\ Current' = n
  <2>1. (0 + 1)..Len(<<>>) = {}
    OBVIOUS
  <2> QED BY <1>1, <1>2, <2>1 DEF Pending, Current
<1>9. RowsType(orders', traded', next_order_id')
  <2>1. \A id \in Nat : id < n => id < n + 1
    OBVIOUS
  <2> QED BY <1>1, <1>2, <1>3, <2>1 DEF RowsType, tables
<1>10. SumOf(traded', taker'.order_id) = call'.filled
  BY <1>1, <1>2, <1>4 DEF SumOf, tables
<1> QED BY <1>1, <1>6, <1>7, <1>8, <1>9, <1>10 DEF RowsInv, tables

\* The steps between orders that the tables do not notice.
LEMMA QuietRows ==
  ASSUME EngineInv, RowsInv, ~InCall, ~InCall', UNCHANGED <<orders, traded, books, next_order_id>>
  PROVE  RowsInv'
<1>1. Pending = {} /\ Current = 0 /\ Pending' = {} /\ Current' = 0 /\ OpenIn' = OpenIn
  BY DEF Pending, Current, OpenIn
<1>2. PICK rows, sums, open, a, b :
        rows = orders /\ sums = traded /\ open = OpenIn /\ a = call.asset /\ b = call'.asset
  OBVIOUS
<1>3. RowsType(rows, sums, next_order_id) /\ RowsRight(rows, sums, open, {}, 0, a)
  BY <1>1, <1>2 DEF RowsInv
<1>4. \A c \in Listed : 0 \notin DOMAIN open[c]
  BY <1>2, OpenInIs DEF EngineInv, BooksInv, WellFormed, BookType
<1>5. 0 \notin DOMAIN rows
  BY <1>3 DEF RowsType
<1>6. RowsRight(rows, sums, open, {}, 0, b)
  BY <1>3, <1>4, <1>5, OtherTakerRows
<1> QED BY <1>1, <1>2, <1>3, <1>6 DEF RowsInv

LEMMA FinishRowsInv ==
  ASSUME EngineInv, TradesInv, RowsInv, Finish
  PROVE  RowsInv'
<1>1. /\ phase = "settling" /\ phase' = "replied" /\ call.settled = Len(results)
      /\ UNCHANGED <<books, next_order_id, taker, results>>
  BY DEF Finish, Reconcile
<1>2. /\ InCall /\ ~InCall' /\ OpenIn' = OpenIn /\ Pending' = {} /\ Current' = 0
      /\ Current = taker.order_id
  BY <1>1 DEF InCall, OpenIn, Pending, Current
<1>3. PICK a \in Listed : a = call.asset
  BY <1>2 DEF EngineInv, CallInv
<1>4. PICK t \in Takers : t = taker
  BY <1>2 DEF EngineInv, CallInv
<1>5. Pending = {}
  <2>1. PICK n \in Nat : n = Len(results)
    BY DEF EngineInv, CallInv
  <2>2. (n + 1)..n = {}
    OBVIOUS
  <2> QED BY <1>1, <2>1, <2>2 DEF Pending
<1>6. PICK rows, sums, open, current :
        rows = orders /\ sums = traded /\ open = OpenIn /\ current = Current
  OBVIOUS
<1>7. /\ RowsType(rows, sums, next_order_id) /\ RowsRight(rows, sums, open, {}, current, a)
      /\ SumOf(sums, current) = call.filled /\ Quantified(open)
  BY <1>2, <1>3, <1>5, <1>6, OpenQuantified DEF RowsInv
<1>8. /\ CallRight(results, t, a, open) /\ call.filled = PartSum(results, Len(results))
      /\ current = t.order_id
  BY <1>1, <1>2, <1>3, <1>4, <1>6 DEF TradesInv
<1>9. /\ current \in Nat \ {0} /\ current < next_order_id
  BY <1>2, <1>4, <1>6 DEF EngineInv, CallInv, Takers
<1>10. 0 \notin DOMAIN rows /\ current \notin DOMAIN rows
  BY <1>7 DEF RowsType, RowsRight
<1>11. PICK b : b = call'.asset
  OBVIOUS
<1>12. \A c \in Listed : current \in DOMAIN open[c] => c = a /\ open[c][current] = RestingOrder(t)
  BY <1>8 DEF CallRight
<1>13. Rested <=> current \in DOMAIN open[a]
  BY <1>2, <1>3, <1>6, OpenInIs DEF Rested
<1>14. CASE ~Rested
  <2>1. UNCHANGED tables
    BY <1>14 DEF Finish, readers
  <2>2. \A c \in Listed : current \notin DOMAIN open[c]
    BY <1>12, <1>13, <1>14
  <2>3. RowsRight(rows, sums, open, {}, 0, b)
    BY <1>7, <1>10, <2>2, OtherTakerRows
  <2> QED BY <1>1, <1>2, <1>6, <1>7, <1>11, <2>1, <2>3 DEF RowsInv, tables
<1>15. CASE Rested
  <2>1. PICK row : row = NewRow(a, t)
    OBVIOUS
  <2>2. orders' = With(rows, current, row) /\ traded' = traded
    <3>1. StoreOrder(a, t)
      BY <1>3, <1>4, <1>15 DEF Finish
    <3> QED BY <1>6, <1>8, <1>10, <2>1, <3>1 DEF StoreOrder
  <2>3. current \in DOMAIN open[a] /\ open[a][current] = RestingOrder(t)
    BY <1>12, <1>13, <1>15
  <2>4. open[a][current] \in Orders(Users)
    BY <1>6, <2>3, OpenInIs DEF EngineInv, BooksInv, WellFormed, BookType
  <2>5. /\ t.user_id \in Users /\ t.side \in Sides /\ t.limit \in Nat
        /\ t.remaining_qty \in Nat /\ t.qty \in Nat
    BY <2>3, <2>4 DEF RestingOrder, Orders, Takers
  <2>6. row = [user_id |-> t.user_id, market |-> a, side |-> t.side, price |-> t.limit,
               original_qty |-> t.qty, remaining_qty |-> t.remaining_qty, status |-> "open"]
    BY <2>1 DEF NewRow
  <2>7. row \in Rows
    BY <2>5, <2>6 DEF Rows
  <2>8. /\ row.market = a /\ row.status = "open" /\ row.user_id = open[a][current].user_id
        /\ row.remaining_qty = open[a][current].remaining_qty
    BY <2>3, <2>6 DEF RestingOrder
  <2>9. row.original_qty - row.remaining_qty = SumOf(sums, current)
    BY <1>7, <1>8, <2>6 DEF CallRight
  <2>10. RowsRight(With(rows, current, row), sums, open, {}, 0, b)
    BY <1>7, <1>9, <1>10, <1>12, <2>3, <2>7, <2>8, <2>9, FinishRows
  <2>11. RowsType(With(rows, current, row), sums, next_order_id)
    BY <1>7, <1>9, <2>7 DEF RowsType, With
  <2> QED BY <1>1, <1>2, <1>6, <1>11, <2>2, <2>10, <2>11 DEF RowsInv
<1> QED BY <1>14, <1>15

LEMMA CancelRowsInv ==
  ASSUME EngineInv, RowsInv, NEW user \in Users, NEW id, CancelOrder(user, id)
  PROVE  RowsInv'
<1>1. HandleCancel(user, id)
  BY DEF CancelOrder
<1>2. PICK c \in Listed :
        /\ EngineInv' /\ phase = "idle" /\ phase' = "replied"
        /\ call' = [NoCall EXCEPT !.asset = c, !.status = "cancelled"] /\ call'.asset = c
        /\ id \in DOMAIN books[c].orders /\ books[c].orders[id].user_id = user
        /\ books[c].orders[id] \in Orders(Users)
        /\ books'[c].orders = Without(books[c].orders, id)
        /\ \A d \in Listed \ {c} : books'[d] = books[d]
        /\ Move(Unlock, user, c, books[c].orders[id].side, CancelRefund(books[c].orders[id]))
        /\ UNCHANGED <<next_order_id, fee_schedule, taker, results, minted>>
  BY <1>1, HandleCancelFacts
<1>3. /\ ~InCall /\ ~InCall' /\ Pending = {} /\ Current = 0 /\ Pending' = {} /\ Current' = 0
  BY <1>2 DEF InCall, Pending, Current
<1>4. PICK rows, sums, open, a :
        rows = orders /\ sums = traded /\ open = OpenIn /\ a = call.asset
  OBVIOUS
<1>5. /\ RowsType(rows, sums, next_order_id) /\ RowsRight(rows, sums, open, {}, 0, a)
      /\ Quantified(open) /\ \A x \in DOMAIN rows : rows[x] \in Rows
  BY <1>3, <1>4, OpenQuantified DEF RowsInv, RowsType
<1>6. id \in DOMAIN open[c] /\ open[c] = books[c].orders /\ id \in Nat \ {0}
  BY <1>2, <1>4, OpenInIs DEF EngineInv, BooksInv, WellFormed, BookType
<1>7. OpenIn' = [open EXCEPT ![c] = Without(open[c], id)]
  BY <1>2, <1>4, <1>6, OpenInExcept
<1>8. PICK left : left = open[c][id].remaining_qty
  OBVIOUS
<1>9. orders' = UpdateRow(id, left, "cancelled") /\ traded' = traded
  BY <1>2, <1>6, <1>8 DEF CancelOrder, StoreCancel
<1>10. id \in DOMAIN rows /\ left \in Nat
  BY <1>5, <1>6, <1>8 DEF RowsRight, RowOfOrder, Quantified
<1>11. PICK after : after = orders'
  OBVIOUS
<1>12. IsUpdate(after, rows, id, open[c][id].remaining_qty, "cancelled")
  BY <1>4, <1>5, <1>8, <1>9, <1>10, <1>11, UpdateRowIs
<1>13. RowsRight(after, sums, [open EXCEPT ![c] = Without(open[c], id)], {}, 0, c)
  BY <1>5, <1>6, <1>12, CancelRows
<1>14. RowsType(after, sums, next_order_id)
  BY <1>5, <1>12 DEF RowsType, IsUpdate
<1> QED BY <1>2, <1>3, <1>4, <1>7, <1>9, <1>11, <1>13, <1>14 DEF RowsInv

\* With no order there is no row.
LEMMA NoRows ==
  ASSUME NEW open, \A c \in Listed : DOMAIN open[c] = {}, NEW a, NEW n
  PROVE  RowsType(EmptyMap, EmptyMap, n) /\ RowsRight(EmptyMap, EmptyMap, open, {}, 0, a)
BY DEF RowsType, RowsRight, EmptyMap

LEMMA InitRows == ExchangeInit => TradesInv /\ RowsInv
<1> SUFFICES ASSUME ExchangeInit PROVE TradesInv /\ RowsInv
  OBVIOUS
<1>1. /\ ~InCall /\ \A c \in Listed : DOMAIN OpenIn[c] = {}
  BY DEF ExchangeInit, Init, InCall, OpenIn, NewBook, EmptyMap
<1>2. orders = EmptyMap /\ traded = EmptyMap
  BY DEF ExchangeInit, LedgerInit
<1> QED BY <1>1, <1>2, NothingPending, NoRows DEF TradesInv, RowsInv

LEMMA ResetRows ==
  ASSUME EngineInv, ResetAll
  PROVE  RowsInv'
<1>1. /\ ~InCall' /\ orders' = EmptyMap /\ traded' = EmptyMap
  BY DEF ResetAll, HandleReset, DeleteTables, InCall
<1>2. \A c \in Listed : DOMAIN OpenIn'[c] = {}
  BY ResetEngineInv, OpenInNext DEF ResetAll, NewBook, EmptyMap
<1>3. Pending' = {} /\ Current' = 0
  BY <1>1 DEF Pending, Current
<1> QED BY <1>1, <1>2, <1>3, NoRows DEF RowsInv

LEMMA RowsStep ==
  ASSUME EngineInv, TradesInv, RowsInv, [ExchangeNext]_<<vars, readers>>
  PROVE  RowsInv'
<1>1. CASE Silent
  <2>1. UNCHANGED tables /\ UNCHANGED <<orders, traded>>
    BY <1>1 DEF Silent, readers, tables
  <2>2. ASSUME NEW user \in Users, NEW r \in Requests, HandleOrder(user, r) PROVE RowsInv'
    BY <2>1, <2>2, HandleOrderRows
  <2>3. CASE MatchStep
    BY <2>1, <2>3, MatchStepRows
  <2>4. CASE Complete
    BY <2>1, <2>4, CompleteRows
  <2>5. CASE \/ Return
             \/ \E user \in Users, r \in Requests : OrderRefused(user, r)
             \/ \E user \in Users, id \in 1..MaxOrderId : CancelRefused(user, id)
    <3>1. ~InCall /\ ~InCall' /\ UNCHANGED <<books, next_order_id>>
      BY <2>5 DEF Return, OrderRefused, CancelRefused, InCall
    <3> QED BY <2>1, <3>1, QuietRows
  <2> QED BY <1>1, <2>2, <2>3, <2>4, <2>5 DEF Silent
<1>2. CASE Trade
  BY <1>2, TradeRows
<1>3. CASE Finish
  BY <1>3, FinishRowsInv
<1>4. CASE \E user \in Users, id \in 1..MaxOrderId : CancelOrder(user, id)
  BY <1>4, CancelRowsInv
<1>5. CASE \/ \E user \in Users, amount \in OnrampAmounts : Onramp(user, amount)
           \/ \E user \in Users, asset \in Symbols \cap Listed, amount \in DepositAmounts :
                Deposit(user, asset, amount)
  <2>1. ~InCall /\ ~InCall' /\ UNCHANGED <<orders, traded, books, next_order_id>>
    BY <1>5 DEF Onramp, Deposit, HandleOnramp, HandleDeposit, StoreFunding, InCall
  <2> QED BY <2>1, QuietRows
<1>6. CASE ResetAll
  BY <1>6, ResetRows
<1>7. CASE UNCHANGED <<vars, readers>>
  BY <1>7 DEF vars, readers, tables, RowsInv, OpenIn, Pending, Current, InCall
<1> QED BY <1>1, <1>2, <1>3, <1>4, <1>5, <1>6, <1>7 DEF ExchangeNext

LEMMA RowsInvariance == ExchangeSpec => [](EngineInv /\ TradesInv /\ RowsInv)
<1>1. ExchangeInit => EngineInv /\ TradesInv /\ RowsInv
  BY InitEngineInv, InitRows DEF ExchangeInit
<1>2. EngineInv /\ TradesInv /\ RowsInv /\ [ExchangeNext]_<<vars, readers>>
        => (EngineInv /\ TradesInv /\ RowsInv)'
  BY ExchangeStep, NextEngineInv, NextTradesInv, RowsStep
<1> QED BY <1>1, <1>2, PTL DEF ExchangeSpec

LEMMA RowsOfIdle == EngineInv /\ RowsInv => RowsTrackBooks
<1> SUFFICES ASSUME EngineInv, RowsInv, phase = "idle"
             PROVE  LET open(a) == {id \in DOMAIN orders :
                                      /\ orders[id].status \in {"open", "partially_filled"}
                                      /\ orders[id].market = a}
                    IN  /\ \A a \in Listed :
                             /\ open(a) = DOMAIN books[a].orders
                             /\ \A id \in open(a) :
                                  /\ orders[id].user_id = books[a].orders[id].user_id
                                  /\ orders[id].remaining_qty = books[a].orders[id].remaining_qty
                        /\ \A id \in DOMAIN orders :
                             /\ (orders[id].status = "filled") = (orders[id].remaining_qty = 0)
                             /\ orders[id].original_qty - orders[id].remaining_qty =
                                  IF id \in DOMAIN traded THEN traded[id] ELSE 0
  BY DEF RowsTrackBooks
<1>1. ~InCall
  BY DEF InCall
<1>2. RowsRight(orders, traded, OpenIn, {}, 0, call.asset)
  BY <1>1, NothingPending DEF RowsInv
<1>3. \A id : ~Awaited({}, id)
  BY DEF Awaited
<1>4. \A a \in Listed : OpenIn[a] = books[a].orders
  BY OpenInIs
<1>5. ASSUME NEW id \in DOMAIN orders
      PROVE  /\ (orders[id].status = "filled") = (orders[id].remaining_qty = 0)
             /\ orders[id].original_qty - orders[id].remaining_qty =
                  IF id \in DOMAIN traded THEN traded[id] ELSE 0
             /\ IsOpen(orders[id]) => id \in DOMAIN OpenIn[orders[id].market]
  BY <1>2, <1>3 DEF RowsRight, RowRight, SumOf
<1>6. ASSUME NEW a \in Listed, NEW id \in DOMAIN books[a].orders
      PROVE  /\ id \in DOMAIN orders /\ IsOpen(orders[id]) /\ orders[id].market = a
             /\ orders[id].user_id = books[a].orders[id].user_id
             /\ orders[id].remaining_qty = books[a].orders[id].remaining_qty
  <2>1. id # 0
    BY DEF EngineInv, BooksInv, WellFormed, BookType
  <2> QED BY <1>2, <1>3, <1>4, <2>1 DEF RowsRight, RowOfOrder
<1>7. \A a \in Listed : {id \in DOMAIN orders : /\ orders[id].status \in {"open", "partially_filled"}
                                                /\ orders[id].market = a} = DOMAIN books[a].orders
  BY <1>4, <1>5, <1>6 DEF IsOpen
<1> QED BY <1>5, <1>6, <1>7

\* Between handlers the orders table is right, whatever was traded and
\* cancelled: its open rows are the open orders of the books, with owner,
\* market and what is left, every other row is closed, and the trades of an
\* order add up to what its row says was filled.
THEOREM RowsAlwaysTrack == ExchangeSpec => []RowsTrackBooks
BY RowsInvariance, RowsOfIdle, PTL

-----------------------------------------------------------------------------
\* What the sellers are told.

\* Every open order is a user's.
Owned(open) ==
  /\ DOMAIN open = Listed
  /\ \A c \in Listed : \A id \in DOMAIN open[c] : open[c][id].user_id \in Users

LEMMA OpenOwned == EngineInv => Owned(OpenIn)
<1> SUFFICES ASSUME EngineInv PROVE Owned(OpenIn)
  OBVIOUS
<1>1. ASSUME NEW c \in Listed, NEW id \in DOMAIN OpenIn[c]
      PROVE  OpenIn[c][id].user_id \in Users
  <2>1. OpenIn[c] = books[c].orders /\ books[c].orders[id] \in Orders(Users)
    BY OpenInIs DEF EngineInv, BooksInv, WellFormed, BookType
  <2> QED BY <2>1 DEF Orders
<1> QED BY <1>1, OpenInIs DEF Owned

\* The views say the same of every order but m and n.
SameBut(after, told, m, n) ==
  \A u \in Users : \A id : id # m /\ id # n =>
    /\ id \in DOMAIN after[u] <=> id \in DOMAIN told[u]
    /\ id \in DOMAIN told[u] => after[u][id] = told[u][id]

LEMMA FillViews ==
  ASSUME NEW told, NEW open, NEW pending, NEW current, NEW a \in Listed, Owned(open),
         ViewsRight(told, open, pending, current), NEW after, NEW trade \in Trades,
         IsFill(open[a], after, trade.maker_order_id, trade.qty)
  PROVE  ViewsRight(told, [open EXCEPT ![a] = after], pending \cup {trade}, current)
<1>1. PICK m : m = trade.maker_order_id
  OBVIOUS
<1>2. PICK now : now = [open EXCEPT ![a] = after]
  OBVIOUS
<1>3. now[a] = after /\ \A c \in Listed \ {a} : now[c] = open[c]
  BY <1>2 DEF Owned
<1>4. PICK more : more = pending \cup {trade}
  OBVIOUS
<1>5. Awaited(more, m) /\ \A id : id # m => (Awaited(more, id) <=> Awaited(pending, id))
  BY <1>1, <1>4 DEF Awaited
<1>6. /\ \A id \in DOMAIN after \ {m} : after[id] = open[a][id]
      /\ DOMAIN after \subseteq DOMAIN open[a]
      /\ m \in DOMAIN after =>
           after[m].user_id = open[a][m].user_id /\ after[m].side = open[a][m].side
  BY <1>1 DEF IsFill
<1>7. ASSUME NEW c \in Listed, NEW id \in DOMAIN now[c], now[c][id].side = "ask", id # current
      PROVE  AskTold(told[now[c][id].user_id], now[c][id], more, id)
  <2>1. /\ id \in DOMAIN open[c] /\ open[c][id].user_id = now[c][id].user_id
        /\ open[c][id].side = now[c][id].side
        /\ id # m => open[c][id] = now[c][id]
    BY <1>3, <1>6
  <2>2. AskTold(told[open[c][id].user_id], open[c][id], pending, id)
    BY <1>7, <2>1 DEF ViewsRight
  <2> QED BY <1>5, <2>1, <2>2 DEF AskTold
<1>8. ViewsRight(told, now, more, current)
  BY <1>7 DEF ViewsRight
<1> QED BY <1>2, <1>4, <1>8

\* The update of a trade tells the owner of an ask what is left of it.
LEMMA SettleViews ==
  ASSUME NEW told, NEW open, NEW pending, NEW current, NEW a \in Listed, Owned(open),
         ViewsRight(told, open, pending, current),
         NEW trade \in pending, NEW m, m = trade.maker_order_id,
         \A t \in pending : t.maker_order_id = m => t = trade,
         \A c \in Listed : m \in DOMAIN open[c] => c = a,
         NEW after, SameBut(after, told, m, current),
         m \in DOMAIN open[a] /\ open[a][m].side = "ask" =>
           /\ m \in DOMAIN after[open[a][m].user_id]
           /\ after[open[a][m].user_id][m] = open[a][m].remaining_qty
  PROVE  ViewsRight(after, open, pending \ {trade}, current)
<1>1. PICK less : less = pending \ {trade}
  OBVIOUS
<1>2. \A id : id # m => (Awaited(less, id) <=> Awaited(pending, id))
  BY <1>1 DEF Awaited
<1>3. ASSUME NEW c \in Listed, NEW id \in DOMAIN open[c], open[c][id].side = "ask", id # current
      PROVE  AskTold(after[open[c][id].user_id], open[c][id], less, id)
  <2>1. CASE id = m
    BY <1>3, <2>1 DEF AskTold
  <2>2. CASE id # m
    <3>1. AskTold(told[open[c][id].user_id], open[c][id], pending, id)
      BY <1>3 DEF ViewsRight
    <3>2. open[c][id].user_id \in Users
      BY DEF Owned
    <3> QED BY <1>2, <1>3, <2>2, <3>1, <3>2 DEF AskTold, SameBut
  <2> QED BY <2>1, <2>2
<1>4. ViewsRight(after, open, less, current)
  BY <1>3 DEF ViewsRight
<1> QED BY <1>1, <1>4

LEMMA RestViews ==
  ASSUME NEW told, NEW open, NEW pending, NEW current, NEW a \in Listed, Owned(open),
         ViewsRight(told, open, pending, current), NEW o
  PROVE  ViewsRight(told, [open EXCEPT ![a] = With(open[a], current, o)], pending, current)
<1>1. PICK now : now = [open EXCEPT ![a] = With(open[a], current, o)]
  OBVIOUS
<1>2. /\ \A c \in Listed \ {a} : now[c] = open[c]
      /\ DOMAIN now[a] = DOMAIN open[a] \cup {current}
      /\ \A id \in DOMAIN open[a] : id # current => now[a][id] = open[a][id]
  BY <1>1 DEF Owned, With
<1>3. \A c \in Listed : \A id \in DOMAIN now[c] :
        id # current => id \in DOMAIN open[c] /\ now[c][id] = open[c][id]
  BY <1>2
<1>4. ViewsRight(told, now, pending, current)
  BY <1>3 DEF ViewsRight
<1> QED BY <1>1, <1>4

\* An ask that rests is told to its owner.
LEMMA FinishViews ==
  ASSUME NEW told, NEW open, NEW current, NEW a \in Listed, Owned(open),
         ViewsRight(told, open, {}, current),
         \A c \in Listed : current \in DOMAIN open[c] => c = a,
         NEW after, SameBut(after, told, current, current),
         current \in DOMAIN open[a] =>
           /\ current \in DOMAIN after[open[a][current].user_id]
           /\ after[open[a][current].user_id][current] = open[a][current].remaining_qty
  PROVE  ViewsRight(after, open, {}, 0)
<1>1. \A id : ~Awaited({}, id)
  BY DEF Awaited
<1>2. ASSUME NEW c \in Listed, NEW id \in DOMAIN open[c], open[c][id].side = "ask"
      PROVE  AskTold(after[open[c][id].user_id], open[c][id], {}, id)
  <2>1. CASE id = current
    BY <2>1 DEF AskTold
  <2>2. CASE id # current
    <3>1. AskTold(told[open[c][id].user_id], open[c][id], {}, id)
      BY <1>2, <2>2 DEF ViewsRight
    <3>2. open[c][id].user_id \in Users
      BY DEF Owned
    <3> QED BY <1>1, <2>2, <3>1, <3>2 DEF AskTold, SameBut
  <2> QED BY <2>1, <2>2
<1> QED BY <1>2 DEF ViewsRight

LEMMA CancelViews ==
  ASSUME NEW told, NEW open, NEW c \in Listed, Owned(open), ViewsRight(told, open, {}, 0),
         NEW m \in DOMAIN open[c], NEW after, SameBut(after, told, m, m),
         \A d \in Listed : m \in DOMAIN open[d] => d = c
  PROVE  ViewsRight(after, [open EXCEPT ![c] = Without(open[c], m)], {}, 0)
<1>1. PICK now : now = [open EXCEPT ![c] = Without(open[c], m)]
  OBVIOUS
<1>2. /\ \A d \in Listed \ {c} : now[d] = open[d]
      /\ DOMAIN now[c] = DOMAIN open[c] \ {m}
      /\ \A id \in DOMAIN now[c] : now[c][id] = open[c][id]
  BY <1>1 DEF Owned, Without
<1>3. ASSUME NEW d \in Listed, NEW id \in DOMAIN now[d], now[d][id].side = "ask", id # 0
      PROVE  AskTold(after[now[d][id].user_id], now[d][id], {}, id)
  <2>1. id \in DOMAIN open[d] /\ now[d][id] = open[d][id] /\ id # m
    BY <1>2
  <2>2. AskTold(told[open[d][id].user_id], open[d][id], {}, id) /\ open[d][id].user_id \in Users
    BY <1>3, <2>1 DEF ViewsRight, Owned
  <2> QED BY <2>1, <2>2 DEF AskTold, SameBut
<1>4. ViewsRight(after, now, {}, 0)
  BY <1>3 DEF ViewsRight
<1> QED BY <1>1, <1>4

\* A view after an update of the order id.
SameView(after, view, id) ==
  \A x : x # id => /\ x \in DOMAIN after <=> x \in DOMAIN view
                   /\ x \in DOMAIN view => after[x] = view[x]

LEMMA SeenIs ==
  ASSUME NEW user, NEW view, NEW id, NEW left, NEW status, NEW after,
         after = Seen(user, view, Update(id, left, status))
  PROVE  /\ SameView(after, view, id)
         /\ \A a \in Listed : Owns(user, a, id) /\ status \notin {"filled", "cancelled"} =>
              id \in DOMAIN after /\ after[id] = left
<1>1. \/ after = Without(view, id) /\ status \in {"filled", "cancelled"}
      \/ after = With(view, id, left)
      \/ after = view /\ ~\E a \in Listed : Owns(user, a, id)
  BY DEF Seen, Update
<1>2. SameView(after, view, id)
  BY <1>1 DEF With, Without, SameView
<1>3. after = With(view, id, left) => id \in DOMAIN after /\ after[id] = left
  BY DEF With
<1> QED BY <1>1, <1>2, <1>3

\* One view changed.
LEMMA SameViewBut ==
  ASSUME NEW told, told = [u \in Users |-> told[u]], NEW user \in Users, NEW view, NEW id,
         SameView(view, told[user], id), NEW after, after = [told EXCEPT ![user] = view]
  PROVE  /\ after = [u \in Users |-> after[u]] /\ after[user] = view
         /\ SameBut(after, told, id, id)
<1>1. /\ after = [u \in Users |-> after[u]] /\ after[user] = view
      /\ \A u \in Users : u # user => after[u] = told[u]
  OBVIOUS
<1>2. \A u \in Users : SameView(after[u], told[u], id)
  BY <1>1 DEF SameView
<1> QED BY <1>1, <1>2 DEF SameBut, SameView

LEMMA SameButTwice ==
  ASSUME NEW told, NEW half, NEW after, NEW m, NEW n,
         SameBut(half, told, n, n), SameBut(after, half, m, m)
  PROVE  SameBut(after, told, m, n)
BY DEF SameBut

LEMMA MatchStepViews ==
  ASSUME EngineInv, ViewsInv, MatchStep, UNCHANGED views
  PROVE  ViewsInv'
<1>1. PICK a, t, trade, after :
           /\ a \in Listed /\ t \in Takers /\ trade \in Trades
           /\ a = call.asset /\ t = taker /\ t.remaining_qty > 0
           /\ trade.qty \in 1..t.remaining_qty
           /\ results' = Append(results, trade)
           /\ taker' = [t EXCEPT !.remaining_qty = t.remaining_qty - trade.qty]
           /\ IsFill(OpenIn[a], after, trade.maker_order_id, trade.qty)
           /\ trade.maker_order_id \in DOMAIN after => trade.qty = t.remaining_qty
           /\ OpenIn[a][trade.maker_order_id].side = Opposite(t.side)
           /\ OpenIn[a][trade.maker_order_id].user_id = MakerUser(trade)
           /\ trade.taker_order_id = t.order_id /\ trade.taker_side = t.side
           /\ OpenIn' = [OpenIn EXCEPT ![a] = after]
  BY MatchStepFill
<1>2. Pending' = Pending \cup {trade} /\ Current' = Current
  BY <1>1, MatchStepPending
<1>3. PICK told, open, pending, current :
        told = views /\ open = OpenIn /\ pending = Pending /\ current = Current
  OBVIOUS
<1>4. ViewsRight(told, open, pending, current) /\ Owned(open)
  BY <1>3, OpenOwned DEF ViewsInv
<1>5. ViewsRight(told, [open EXCEPT ![a] = after], pending \cup {trade}, current)
  BY <1>1, <1>3, <1>4, FillViews
<1> QED BY <1>1, <1>2, <1>3, <1>5 DEF ViewsInv

LEMMA CompleteViews ==
  ASSUME EngineInv, ViewsInv, Complete, UNCHANGED views
  PROVE  ViewsInv'
<1>1. /\ phase = "matching" /\ phase' = "settling" /\ call.asset \in Listed
      /\ UNCHANGED <<taker, results, call>>
  BY DEF Complete, EngineInv, CallInv, InCall
<1>2. Pending' = Pending /\ Current' = Current /\ Current = taker.order_id
  BY <1>1 DEF Pending, Current, InCall
<1>3. PICK a \in Listed : a = call.asset
  BY <1>1
<1>4. PICK told, open, pending, current :
        told = views /\ open = OpenIn /\ pending = Pending /\ current = Current
  OBVIOUS
<1>5. ViewsRight(told, open, pending, current) /\ Owned(open)
  BY <1>4, OpenOwned DEF ViewsInv
<1>6. PICK o : o = RestingOrder(taker)
  OBVIOUS
<1>7. ViewsRight(told, [open EXCEPT ![a] = With(open[a], current, o)], pending, current)
  BY <1>5, RestViews
<1>8. ViewsRight(told, OpenIn', pending, current)
  BY <1>2, <1>3, <1>4, <1>5, <1>6, <1>7, CompleteOpens
<1> QED BY <1>2, <1>4, <1>8 DEF ViewsInv

LEMMA HandleOrderViews ==
  ASSUME EngineInv, ViewsInv, NEW user \in Users, NEW r \in Requests, HandleOrder(user, r),
         UNCHANGED views
  PROVE  ViewsInv'
<1>1. /\ OpenIn' = OpenIn /\ InCall' /\ ~InCall /\ results' = <<>> /\ call'.settled = 0
  BY HandleOrderTrades
<1>2. Pending' = {} /\ Pending = {} /\ Current = 0
  <2>1. (0 + 1)..Len(<<>>) = {}
    OBVIOUS
  <2> QED BY <1>1, <2>1, NothingPending DEF Pending
<1>3. \A c \in Listed : 0 \notin DOMAIN OpenIn[c]
  BY OpenInIs DEF EngineInv, BooksInv, WellFormed, BookType
<1>4. PICK told, open, current : told = views /\ open = OpenIn /\ current = Current'
  OBVIOUS
<1>5. ViewsRight(told, open, {}, 0)
  BY <1>2, <1>4 DEF ViewsInv
<1>6. ViewsRight(told, open, {}, current)
  BY <1>3, <1>4, <1>5 DEF ViewsRight
<1> QED BY <1>1, <1>2, <1>4, <1>6 DEF ViewsInv

LEMMA TradeViews ==
  ASSUME EngineInv, TradesInv, RowsInv, ViewsInv, Trade
  PROVE  ViewsInv'
<1>1. SettleFill
  BY DEF Trade
<1>2. PICK trade \in Trades : trade = results[call.settled + 1]
  BY <1>1, SettleFillFacts
<1>3. PICK a \in Listed : a = call.asset
  BY <1>1, SettleFillFacts
<1>4. /\ trade \in Pending /\ Pending' = Pending \ {trade} /\ InCall
      /\ Current' = Current /\ Current = taker.order_id
  BY <1>1, <1>2, TradePending
<1>5. OpenIn' = OpenIn
  BY <1>1, SettleFillTrades
<1>6. PICK told, open, pending, current :
        told = views /\ open = OpenIn /\ pending = Pending /\ current = Current
  OBVIOUS
<1>7. PICK m : m = trade.maker_order_id
  OBVIOUS
<1>8. /\ ViewsRight(told, open, pending, current) /\ Owned(open) /\ Quantified(open)
      /\ told = [u \in Users |-> told[u]]
  BY <1>6, OpenOwned, OpenQuantified DEF ViewsInv
<1>9. /\ \A t \in pending : t.maker_order_id = m => t = trade
      /\ MakerTold(trade, taker, open[a]) /\ trade \in pending
  BY <1>3, <1>4, <1>6, <1>7, PendingFacts
<1>10. trade.buyer \in Users /\ trade.seller \in Users /\ trade.taker_order_id = current
  BY <1>4, <1>6, <1>9 DEF MakerTold, Trades
<1>11. PICK left : left = MakerRemaining(books[a], trade)
  OBVIOUS
<1>12. PICK bought : bought = Seen(trade.buyer, told[trade.buyer], Update(current, 0, StatusOf(0)))
  OBVIOUS
<1>13. PICK half : half = [told EXCEPT ![trade.buyer] = bought]
  OBVIOUS
<1>14. PICK sold : sold = Seen(trade.seller, half[trade.seller], Update(m, left, StatusOf(left)))
  OBVIOUS
<1>15. PICK after : after = [half EXCEPT ![trade.seller] = sold]
  OBVIOUS
<1>16. views' = after
  <2>1. TellTrade(a, trade)
    BY <1>2, <1>3 DEF Trade
  <2>2. /\ BuyerUpdate(trade) = Update(current, 0, StatusOf(0))
        /\ SellerUpdate(books[a], trade) = Update(m, left, StatusOf(left))
    BY <1>7, <1>10, <1>11 DEF BuyerUpdate, SellerUpdate
  <2>3. [views EXCEPT ![trade.buyer] = Seen(trade.buyer, @, BuyerUpdate(trade))] = half
    BY <1>6, <1>8, <1>10, <1>12, <1>13, <2>2
  <2>4. half = [u \in Users |-> half[u]]
    BY <1>8, <1>13
  <2> QED BY <1>10, <1>14, <1>15, <2>1, <2>2, <2>3, <2>4 DEF TellTrade
<1>17. SameView(bought, told[trade.buyer], current)
  BY <1>12, SeenIs
<1>18. half = [u \in Users |-> half[u]] /\ SameBut(half, told, current, current)
  BY <1>8, <1>10, <1>13, <1>17, SameViewBut
<1>19. /\ SameView(sold, half[trade.seller], m)
       /\ \A c \in Listed : Owns(trade.seller, c, m) /\ StatusOf(left) \notin {"filled", "cancelled"} =>
            m \in DOMAIN sold /\ sold[m] = left
  BY <1>14, SeenIs
<1>20. /\ after = [u \in Users |-> after[u]] /\ after[trade.seller] = sold
       /\ SameBut(after, half, m, m)
  BY <1>10, <1>15, <1>18, <1>19, SameViewBut
<1>21. SameBut(after, told, m, current)
  BY <1>18, <1>20, SameButTwice
<1>22. ASSUME m \in DOMAIN open[a], open[a][m].side = "ask"
       PROVE  /\ m \in DOMAIN after[open[a][m].user_id]
              /\ after[open[a][m].user_id][m] = open[a][m].remaining_qty
  <2>1. trade.taker_side = "bid" /\ open[a][m].user_id = trade.seller
    BY <1>7, <1>9, <1>22 DEF MakerTold, MakerUser, Opposite
  <2>2. open[a] = books[a].orders
    BY <1>6, OpenInIs
  <2>3. left = open[a][m].remaining_qty /\ left # 0
    BY <1>7, <1>8, <1>11, <1>22, <2>2 DEF MakerRemaining, Quantified
  <2>4. Owns(trade.seller, a, m) /\ StatusOf(left) = "partially_filled"
    BY <1>22, <2>1, <2>2, <2>3 DEF Owns, StatusOf
  <2> QED BY <1>19, <1>20, <2>1, <2>3, <2>4
<1>23. \A c \in Listed : m \in DOMAIN open[c] => c = a
  <2>1. RowsRight(orders, traded, open, pending, current, a)
    BY <1>3, <1>6 DEF RowsInv
  <2>2. m \in DOMAIN orders /\ orders[m].market = a /\ m # current
    BY <1>7, <1>9, <2>1 DEF RowsRight, RowAwaits
  <2> QED BY <2>1, <2>2 DEF RowsRight, RowOfOrder
<1>24. ViewsRight(after, open, pending \ {trade}, current)
  BY <1>7, <1>8, <1>9, <1>21, <1>22, <1>23, SettleViews
<1> QED BY <1>4, <1>5, <1>6, <1>16, <1>20, <1>24 DEF ViewsInv

LEMMA FinishViewsInv ==
  ASSUME EngineInv, TradesInv, ViewsInv, Finish
  PROVE  ViewsInv'
<1>1. /\ phase = "settling" /\ phase' = "replied" /\ call.settled = Len(results)
      /\ UNCHANGED books
  BY DEF Finish, Reconcile
<1>2. /\ InCall /\ ~InCall' /\ OpenIn' = OpenIn /\ Pending' = {} /\ Current' = 0
      /\ Current = taker.order_id
  BY <1>1 DEF InCall, OpenIn, Pending, Current
<1>3. PICK a \in Listed : a = call.asset
  BY <1>2 DEF EngineInv, CallInv
<1>4. PICK t \in Takers : t = taker
  BY <1>2 DEF EngineInv, CallInv
<1>5. Pending = {}
  <2>1. PICK n \in Nat : n = Len(results)
    BY DEF EngineInv, CallInv
  <2>2. (n + 1)..n = {}
    OBVIOUS
  <2> QED BY <1>1, <2>1, <2>2 DEF Pending
<1>6. PICK told, open, current : told = views /\ open = OpenIn /\ current = Current
  OBVIOUS
<1>7. /\ ViewsRight(told, open, {}, current) /\ Owned(open) /\ told = [u \in Users |-> told[u]]
  BY <1>5, <1>6, OpenOwned DEF ViewsInv
<1>8. \A c \in Listed : current \in DOMAIN open[c] => c = a /\ open[c][current] = RestingOrder(t)
  BY <1>2, <1>3, <1>4, <1>6 DEF TradesInv, CallRight
<1>9. Rested <=> current \in DOMAIN open[a]
  BY <1>2, <1>3, <1>6, OpenInIs DEF Rested
<1>10. CASE ~Rested
  <2>1. views' = told
    BY <1>6, <1>10 DEF Finish, readers
  <2>2. SameBut(told, told, current, current)
    BY DEF SameBut
  <2>3. ViewsRight(told, open, {}, 0)
    BY <1>7, <1>8, <1>9, <1>10, <2>2, FinishViews
  <2> QED BY <1>2, <1>6, <1>7, <2>1, <2>3 DEF ViewsInv
<1>11. CASE Rested
  <2>1. PICK user, left : user = t.user_id /\ left = t.remaining_qty
    OBVIOUS
  <2>2. /\ current \in DOMAIN open[a] /\ open[a][current].user_id = user
        /\ open[a][current].remaining_qty = left /\ user \in Users
    BY <1>7, <1>8, <1>9, <1>11, <2>1 DEF RestingOrder, Owned
  <2>3. PICK view : view = Seen(user, told[user], Update(current, left, "open"))
    OBVIOUS
  <2>4. PICK after : after = [told EXCEPT ![user] = view]
    OBVIOUS
  <2>5. views' = after
    <3>1. TellCreated(t)
      BY <1>4, <1>11 DEF Finish
    <3> QED BY <1>2, <1>4, <1>6, <1>7, <2>1, <2>2, <2>3, <2>4, <3>1 DEF TellCreated, Tell
  <2>6. /\ SameView(view, told[user], current)
        /\ \A c \in Listed : Owns(user, c, current) => current \in DOMAIN view /\ view[current] = left
    BY <2>3, SeenIs
  <2>7. Owns(user, a, current)
    BY <1>6, <2>2, OpenInIs DEF Owns
  <2>8. /\ after = [u \in Users |-> after[u]] /\ after[user] = view
        /\ SameBut(after, told, current, current)
    BY <1>7, <2>2, <2>4, <2>6, SameViewBut
  <2>9. ViewsRight(after, open, {}, 0)
    BY <1>7, <1>8, <2>2, <2>6, <2>7, <2>8, FinishViews
  <2> QED BY <1>2, <1>6, <2>5, <2>8, <2>9 DEF ViewsInv
<1> QED BY <1>10, <1>11

LEMMA CancelViewsInv ==
  ASSUME EngineInv, ViewsInv, NEW user \in Users, NEW id, CancelOrder(user, id)
  PROVE  ViewsInv'
<1>1. HandleCancel(user, id)
  BY DEF CancelOrder
<1>2. PICK c \in Listed :
        /\ EngineInv' /\ phase = "idle" /\ phase' = "replied"
        /\ call' = [NoCall EXCEPT !.asset = c, !.status = "cancelled"] /\ call'.asset = c
        /\ id \in DOMAIN books[c].orders /\ books[c].orders[id].user_id = user
        /\ books[c].orders[id] \in Orders(Users)
        /\ books'[c].orders = Without(books[c].orders, id)
        /\ \A d \in Listed \ {c} : books'[d] = books[d]
        /\ Move(Unlock, user, c, books[c].orders[id].side, CancelRefund(books[c].orders[id]))
        /\ UNCHANGED <<next_order_id, fee_schedule, taker, results, minted>>
  BY <1>1, HandleCancelFacts
<1>3. /\ ~InCall /\ ~InCall' /\ Pending = {} /\ Current = 0 /\ Pending' = {} /\ Current' = 0
  BY <1>2 DEF InCall, Pending, Current
<1>4. PICK told, open : told = views /\ open = OpenIn
  OBVIOUS
<1>5. /\ ViewsRight(told, open, {}, 0) /\ Owned(open) /\ told = [u \in Users |-> told[u]]
  BY <1>3, <1>4, OpenOwned DEF ViewsInv
<1>6. id \in DOMAIN open[c] /\ open[c] = books[c].orders
  BY <1>2, <1>4, OpenInIs
<1>7. OpenIn' = [open EXCEPT ![c] = Without(open[c], id)]
  BY <1>2, <1>4, <1>6, OpenInExcept
<1>8. \A d \in Listed : id \in DOMAIN open[d] => d = c
  BY <1>4, <1>6, OpenInIs DEF EngineInv, BooksInv, IdsApart
<1>9. PICK left : left = books[c].orders[id].remaining_qty
  OBVIOUS
<1>10. PICK view : view = Seen(user, told[user], Update(id, left, "cancelled"))
  OBVIOUS
<1>11. PICK after : after = [told EXCEPT ![user] = view]
  OBVIOUS
<1>12. views' = after
  <2>1. TellCancelled(user, id, left)
    BY <1>2, <1>9 DEF CancelOrder
  <2> QED BY <1>4, <1>5, <1>10, <1>11, <2>1 DEF TellCancelled, Tell
<1>13. SameView(view, told[user], id)
  BY <1>10, SeenIs
<1>14. after = [u \in Users |-> after[u]] /\ SameBut(after, told, id, id)
  BY <1>5, <1>11, <1>13, SameViewBut
<1>15. ViewsRight(after, [open EXCEPT ![c] = Without(open[c], id)], {}, 0)
  BY <1>5, <1>6, <1>8, <1>14, CancelViews
<1> QED BY <1>3, <1>7, <1>12, <1>14, <1>15 DEF ViewsInv

\* The steps between orders of which nobody is told.
LEMMA QuietViews ==
  ASSUME ViewsInv, ~InCall, ~InCall', UNCHANGED <<views, books>>
  PROVE  ViewsInv'
<1>1. Pending = {} /\ Current = 0 /\ Pending' = {} /\ Current' = 0 /\ OpenIn' = OpenIn
  BY DEF Pending, Current, OpenIn
<1> QED BY <1>1 DEF ViewsInv

LEMMA NoOrderNoView ==
  ASSUME NEW open, \A c \in Listed : DOMAIN open[c] = {}
  PROVE  ViewsRight(NoViews, open, {}, 0) /\ NoViews = [u \in Users |-> NoViews[u]]
BY DEF ViewsRight, NoViews

LEMMA InitViews == ExchangeInit => ViewsInv
<1> SUFFICES ASSUME ExchangeInit PROVE ViewsInv
  OBVIOUS
<1>1. /\ ~InCall /\ \A c \in Listed : DOMAIN OpenIn[c] = {}
  BY DEF ExchangeInit, Init, InCall, OpenIn, NewBook, EmptyMap
<1>2. views = NoViews
  BY DEF ExchangeInit
<1> QED BY <1>1, <1>2, NothingPending, NoOrderNoView DEF ViewsInv

LEMMA ResetViews ==
  ASSUME EngineInv, ResetAll
  PROVE  ViewsInv'
<1>1. /\ ~InCall' /\ views' = NoViews
  BY DEF ResetAll, HandleReset, InCall
<1>2. \A c \in Listed : DOMAIN OpenIn'[c] = {}
  BY ResetEngineInv, OpenInNext DEF ResetAll, NewBook, EmptyMap
<1>3. Pending' = {} /\ Current' = 0
  BY <1>1 DEF Pending, Current
<1> QED BY <1>1, <1>2, <1>3, NoOrderNoView DEF ViewsInv

LEMMA ViewsStep ==
  ASSUME EngineInv, TradesInv, RowsInv, ViewsInv, [ExchangeNext]_<<vars, readers>>
  PROVE  ViewsInv'
<1>1. CASE Silent
  <2>1. UNCHANGED views
    BY <1>1 DEF Silent, readers
  <2>2. ASSUME NEW user \in Users, NEW r \in Requests, HandleOrder(user, r) PROVE ViewsInv'
    BY <2>1, <2>2, HandleOrderViews
  <2>3. CASE MatchStep
    BY <2>1, <2>3, MatchStepViews
  <2>4. CASE Complete
    BY <2>1, <2>4, CompleteViews
  <2>5. CASE \/ Return
             \/ \E user \in Users, r \in Requests : OrderRefused(user, r)
             \/ \E user \in Users, id \in 1..MaxOrderId : CancelRefused(user, id)
    <3>1. ~InCall /\ ~InCall' /\ UNCHANGED books
      BY <2>5 DEF Return, OrderRefused, CancelRefused, InCall
    <3> QED BY <2>1, <3>1, QuietViews
  <2> QED BY <1>1, <2>2, <2>3, <2>4, <2>5 DEF Silent
<1>2. CASE Trade
  BY <1>2, TradeViews
<1>3. CASE Finish
  BY <1>3, FinishViewsInv
<1>4. CASE \E user \in Users, id \in 1..MaxOrderId : CancelOrder(user, id)
  BY <1>4, CancelViewsInv
<1>5. CASE \/ \E user \in Users, amount \in OnrampAmounts : Onramp(user, amount)
           \/ \E user \in Users, asset \in Symbols \cap Listed, amount \in DepositAmounts :
                Deposit(user, asset, amount)
  <2>1. ~InCall /\ ~InCall' /\ UNCHANGED <<views, books>>
    BY <1>5 DEF Onramp, Deposit, HandleOnramp, HandleDeposit, InCall
  <2> QED BY <2>1, QuietViews
<1>6. CASE ResetAll
  BY <1>6, ResetViews
<1>7. CASE UNCHANGED <<vars, readers>>
  BY <1>7 DEF vars, readers, ViewsInv, OpenIn, Pending, Current, InCall
<1> QED BY <1>1, <1>2, <1>3, <1>4, <1>5, <1>6, <1>7 DEF ExchangeNext

LEMMA ToldOfIdle == EngineInv /\ ViewsInv => AsksToldRight
<1> SUFFICES ASSUME EngineInv, ViewsInv, phase = "idle", NEW u \in Users, NEW a \in Listed,
                    NEW id \in OpenOrders(u, a, "ask")
             PROVE  id \in DOMAIN views[u] /\ views[u][id] = books[a].orders[id].remaining_qty
  BY DEF AsksToldRight, ToldRight
<1>1. Pending = {} /\ Current = 0
  BY NothingPending DEF InCall
<1>2. /\ id \in DOMAIN OpenIn[a] /\ OpenIn[a][id] = books[a].orders[id]
      /\ OpenIn[a][id].user_id = u /\ OpenIn[a][id].side = "ask" /\ id # 0
  BY OpenInIs DEF OpenOrders, Owns, EngineInv, BooksInv, WellFormed, BookType
<1>3. AskTold(views[u], OpenIn[a][id], {}, id)
  BY <1>1, <1>2 DEF ViewsInv, ViewsRight
<1>4. ~Awaited({}, id)
  BY DEF Awaited
<1> QED BY <1>2, <1>3, <1>4 DEF AskTold

\* Between handlers the updates have told every user exactly what is left of
\* each open ask of the user, also of one that was filled by the user's own
\* bid, or by several fills of one call.
THEOREM AsksAlwaysToldRight == ExchangeSpec => []AsksToldRight
<1>1. ExchangeInit => ViewsInv
  BY InitViews
<1>2. EngineInv /\ TradesInv /\ RowsInv /\ ViewsInv /\ [ExchangeNext]_<<vars, readers>> => ViewsInv'
  BY ViewsStep
<1> QED BY <1>1, <1>2, RowsInvariance, ToldOfIdle, PTL DEF ExchangeSpec

-----------------------------------------------------------------------------
\* Each book is an Orderbook.

\* Orders rest at prices that were asked for, and no book is ahead of the
\* engine in giving out ids.
PricesInv ==
  /\ \A a \in Listed : books[a].next_order_id <= next_order_id
  /\ \A a \in Listed : \A id \in DOMAIN books[a].orders :
       books[a].orders[id].price \in Prices \ {0}
  /\ InCall /\ taker.tif = "gtc" => taker.limit \in Prices \ {0}

\* What a step may do to the book of a market: nothing, or one step of its own.
Untouched(a) ==
  /\ books'[a] = books[a]
  /\ PhaseOf(a)' = PhaseOf(a)
  /\ TakerAt(a)' = TakerAt(a)
  /\ ResultsOf(a)' = ResultsOf(a)

\* A call with a limit order or, capped by the limit, with a market order.
Starts(a) ==
  \E id \in 1..MaxOrderId, user \in Users, side \in Sides, qty \in Quantities \ {0},
     limit \in (LimitPrices \ {0}) \cup {NoCap}, tif \in TimesInForce, killed \in BOOLEAN :
    /\ PhaseOf(a) = "idle"
    /\ id \in books[a].next_order_id..MaxOrderId
    /\ books'[a] = Reserve(books[a], id)
    /\ TakerAt(a)' = [order_id |-> id, user_id |-> user, side |-> side, limit |-> limit,
                      qty |-> qty, remaining_qty |-> qty, tif |-> tif]
    /\ PhaseOf(a)' = IF killed THEN "returned" ELSE "matching"
    /\ ResultsOf(a)' = ResultsOf(a)
    /\ tif # "ioc" => limit # NoCap
    /\ killed = (tif = "fok" /\ ~CanFillQuantity(books[a], side, limit, qty))

Fills(a) ==
  /\ PhaseOf(a) = "matching" /\ PhaseOf(a)' = "matching"
  /\ Matches(books[a], TakerAt(a))
  /\ books'[a] = AfterFill(books[a], TakerAt(a))
  /\ TakerAt(a)' = [TakerAt(a) EXCEPT !.remaining_qty = @ - FillQty(books[a], TakerAt(a))]
  /\ ResultsOf(a)' = Append(ResultsOf(a), TradeOf(books[a], TakerAt(a)))

Ends(a) ==
  /\ PhaseOf(a) = "matching" /\ PhaseOf(a)' = "returned"
  /\ ~Matches(books[a], TakerAt(a))
  /\ books'[a] = IF TakerAt(a).remaining_qty > 0 /\ TakerAt(a).tif = "gtc"
                 THEN Rest(books[a], TakerAt(a)) ELSE books[a]
  /\ TakerAt(a)' = TakerAt(a)
  /\ ResultsOf(a)' = ResultsOf(a)

Returns(a) ==
  /\ PhaseOf(a) = "returned" /\ PhaseOf(a)' = "idle"
  /\ TakerAt(a)' = NoTaker
  /\ ResultsOf(a)' = <<>>
  /\ books'[a] = books[a]

Cancels(a) ==
  \E id \in 1..MaxOrderId, user \in Users :
    /\ PhaseOf(a) = "idle" /\ PhaseOf(a)' = PhaseOf(a)
    /\ id \in DOMAIN books[a].orders
    /\ books[a].orders[id].user_id = user
    /\ books'[a] = Cancel(books[a], id)
    /\ TakerAt(a)' = TakerAt(a)
    /\ ResultsOf(a)' = ResultsOf(a)

Resets(a) ==
  /\ PhaseOf(a) = "idle" /\ PhaseOf(a)' = PhaseOf(a)
  /\ books'[a] = NewBook
  /\ TakerAt(a)' = TakerAt(a)
  /\ ResultsOf(a)' = ResultsOf(a)

OnBook(a) ==
  Untouched(a) \/ Starts(a) \/ Fills(a) \/ Ends(a) \/ Returns(a) \/ Cancels(a) \/ Resets(a)

LEMMA InitPrices == Init => PricesInv
BY DEF Init, PricesInv, NewBook, EmptyMap, InCall

\* A fill changes no price.
LEMMA FillKeepsPrices ==
  ASSUME NEW b, NEW U, WellFormed(b, U), NEW t, t.side \in Sides,
         t.remaining_qty \in Nat, Matches(b, t), NEW c, c = AfterFill(b, t)
  PROVE  \A id \in DOMAIN c.orders :
           id \in DOMAIN b.orders /\ c.orders[id].price = b.orders[id].price
<1>1. PICK m : m = Maker(b, t.side)
  OBVIOUS
<1>2. PICK n : n = FillQty(b, t)
  OBVIOUS
<1>3. /\ DOMAIN b = {"levels", "orders", "next_order_id"} /\ m \in DOMAIN b.orders
      /\ b.orders[m] \in Orders(U)
  BY <1>1, MakerFacts DEF WellFormed, BookType, Matches
<1>4. CASE b.orders[m].remaining_qty = n
  <2>1. c.orders = Without(b.orders, m)
    BY <1>1, <1>2, <1>3, <1>4 DEF AfterFill
  <2> QED BY <2>1 DEF Without
<1>5. CASE b.orders[m].remaining_qty # n
  <2>1. c.orders = [b.orders EXCEPT ![m].remaining_qty = b.orders[m].remaining_qty - n]
    BY <1>1, <1>2, <1>3, <1>5 DEF AfterFill
  <2> QED BY <1>3, <2>1 DEF Orders
<1> QED BY <1>4, <1>5

\* The limit of an accepted order is one of LimitPrices, and not zero.
LEMMA LimitOfKnown ==
  ASSUME BooksInv, PricesInv, NEW r \in Requests, ~Invalid(r)
  PROVE  /\ LimitOf(r) \in (LimitPrices \ {0}) \cup {NoCap}
         /\ r.type = "limit" => LimitOf(r) \in Prices \ {0} /\ LimitOf(r) = r.price
<1>1. /\ r.asset \in Listed /\ r.side \in Sides /\ r.price \in Prices /\ r.price \in Nat
      /\ r.slippage \in Slippages /\ r.slippage \in 0..100
      /\ r.type = "limit" => r.price # 0
  BY AmountsAssumption DEF Invalid, Requests
<1>2. CASE r.type = "limit"
  BY <1>1, <1>2 DEF LimitOf, LimitPrices
<1>3. CASE r.type # "limit" /\ r.price > 0
  BY <1>1, <1>3 DEF LimitOf, WorstPrice, LimitPrices
<1>4. CASE r.type # "limit" /\ ~(r.price > 0)
  <2>1. PICK b : b = books[r.asset]
    OBVIOUS
  <2>2. PICK o \in Sides : o = Opposite(r.side)
    BY DEF Opposite, Sides
  <2>3. CASE DOMAIN b.levels[o] = {}
    BY <1>4, <2>1, <2>2, <2>3 DEF LimitOf, WorstPrice
  <2>4. CASE DOMAIN b.levels[o] # {}
    <3>1. PICK p : p = BestPrice(b, o)
      OBVIOUS
    <3>2. WellFormed(b, Users)
      BY <1>1, <2>1 DEF BooksInv
    <3>3. PICK m : m = Maker(b, r.side)
      OBVIOUS
    <3>4. m \in DOMAIN b.orders /\ b.orders[m].price = p /\ p \in Nat
      BY <1>1, <2>2, <2>4, <3>1, <3>2, <3>3, MakerFacts
    <3>5. p \in Prices \ {0}
      BY <1>1, <2>1, <3>4 DEF PricesInv
    <3>6. PICK cap : cap = SlippageCap(r.side, p, r.slippage)
      OBVIOUS
    <3>7. cap \in LimitPrices
      BY <1>1, <3>5, <3>6 DEF LimitPrices
    <3>8. cap # 0
      <4>1. CASE r.side = "bid"
        <5>1. PICK x : x = p * (100 + r.slippage)
          OBVIOUS
        <5>2. x \in Nat /\ x >= 1
          <6>1. 100 + r.slippage \in Nat \ {0} /\ p \in Nat \ {0}
            BY <1>1, <3>4, <3>5
          <6>2. \A i, j \in Nat \ {0} : i * j \in Nat /\ i * j >= 1
            OBVIOUS
          <6> QED BY <5>1, <6>1, <6>2
        <5>3. cap = (x + 99) \div 100
          BY <3>6, <4>1, <5>1 DEF SlippageCap
        <5> QED BY <5>2, <5>3
      <4>2. CASE r.side # "bid"
        BY <3>6, <4>2 DEF SlippageCap
      <4> QED BY <4>1, <4>2
    <3>9. LimitOf(r) = cap
      BY <1>4, <2>1, <2>2, <2>4, <3>1, <3>6 DEF LimitOf, WorstPrice
    <3> QED BY <1>4, <3>7, <3>8, <3>9
  <2> QED BY <2>3, <2>4
<1> QED BY <1>2, <1>3, <1>4

\* Outside a handler no book is called.
LEMMA NotCalled ==
  ASSUME EngineInv, phase \notin {"matching", "settling", "replied"}, NEW a \in Listed
  PROVE  /\ taker = NoTaker /\ results = <<>> /\ call = NoCall
         /\ PhaseOf(a) = "idle" /\ TakerAt(a) = NoTaker /\ ResultsOf(a) = <<>>
BY DEF EngineInv, CallInv, InCall, PhaseOf, TakerAt, ResultsOf, Called

\* In handle_order the book of the order's market is called, and no other.
LEMMA CalledIs ==
  ASSUME NEW a \in Listed, NEW t \in Takers, taker = t, NEW x, call.asset = x
  PROVE  /\ a = x => /\ PhaseOf(a) = IF phase = "matching" THEN "matching" ELSE "returned"
                     /\ TakerAt(a) = t /\ ResultsOf(a) = results
         /\ a # x => PhaseOf(a) = "idle" /\ TakerAt(a) = NoTaker /\ ResultsOf(a) = <<>>
<1>1. t # NoTaker
  BY DEF Takers, NoTaker
<1> QED BY <1>1 DEF PhaseOf, TakerAt, ResultsOf, Called

\* The same in the next state.
LEMMA CalledNext ==
  ASSUME NEW a \in Listed, NEW t \in Takers, taker' = t, NEW x, call'.asset = x
  PROVE  /\ a = x => /\ PhaseOf(a)' = IF phase' = "matching" THEN "matching" ELSE "returned"
                     /\ TakerAt(a)' = t /\ ResultsOf(a)' = results'
         /\ a # x => PhaseOf(a)' = "idle" /\ TakerAt(a)' = NoTaker /\ ResultsOf(a)' = <<>>
<1>1. t # NoTaker
  BY DEF Takers, NoTaker
<1> QED BY <1>1 DEF PhaseOf, TakerAt, ResultsOf, Called

LEMMA NoTakerNext ==
  ASSUME NEW a \in Listed, taker' = NoTaker
  PROVE  PhaseOf(a)' = "idle" /\ TakerAt(a)' = NoTaker /\ ResultsOf(a)' = <<>>
BY DEF PhaseOf, TakerAt, ResultsOf, Called

\* handle_order calls the book with an id that is new to it.
LEMMA HandleOrderOnBook ==
  ASSUME EngineInv, PricesInv, NEW user \in Users, NEW r \in Requests, HandleOrder(user, r),
         NEW a \in Listed
  PROVE  OnBook(a) /\ PricesInv'
<1>1. /\ r.asset \in Listed /\ r.side \in Sides /\ taker' \in Takers /\ call'.asset = r.asset
      /\ results' = results /\ results = <<>> /\ phase = "idle" /\ InCall'
  BY AcceptedOrder
<1>2. ~Invalid(r) /\ phase' \in {"matching", "settling"} /\ next_order_id <= MaxOrderId
  BY DEF HandleOrder, Verdict
<1>3. PICK limit : limit = LimitOf(r)
  OBVIOUS
<1>4. /\ limit \in (LimitPrices \ {0}) \cup {NoCap}
      /\ r.type = "limit" => limit \in Prices \ {0} /\ limit = r.price
  BY <1>2, <1>3, LimitOfKnown DEF EngineInv
<1>5. PICK tif \in TimesInForce : tif = IF r.type = "limit" THEN r.tif ELSE "ioc"
  BY DEF Requests, TimesInForce
<1>6. PICK id : id = next_order_id
  OBVIOUS
<1>7. PICK qty : qty = r.qty
  OBVIOUS
<1>8. /\ taker' = [order_id |-> id, user_id |-> user, side |-> r.side, limit |-> limit,
                   qty |-> qty, remaining_qty |-> qty, tif |-> tif]
      /\ books' = [books EXCEPT ![r.asset] = Reserve(books[r.asset], id)]
      /\ next_order_id' = id + 1
  BY <1>3, <1>5, <1>6, <1>7 DEF HandleOrder
<1>9. PICK killed \in BOOLEAN :
        killed = (tif = "fok" /\ ~CanFillQuantity(books[r.asset], r.side, r.price, qty))
  OBVIOUS
<1>10. phase' = IF killed THEN "settling" ELSE "matching"
  BY <1>5, <1>7, <1>9 DEF HandleOrder
<1>11. /\ id \in Nat \ {0} /\ books = [c \in Listed |-> books[c]]
       /\ \A c \in Listed : books[c].next_order_id \in Nat \ {0} /\ books[c].next_order_id <= id
       /\ \A c \in Listed : WellFormed(books[c], Users)
  BY <1>6 DEF EngineInv, BooksInv, PricesInv, WellFormed, BookType
<1>12. /\ books'[r.asset] = Reserve(books[r.asset], id)
       /\ \A c \in Listed \ {r.asset} : books'[c] = books[c]
  BY <1>1, <1>8, <1>11
<1>13. qty \in Quantities \ {0}
  BY <1>2, <1>7 DEF Invalid, Requests
<1>14. MaxOrderId \in Nat
  BY BoundsAssumption
<1>15. PhaseOf(a) = "idle" /\ TakerAt(a) = NoTaker /\ ResultsOf(a) = <<>>
  BY <1>1, NotCalled
<1>16. ASSUME a # r.asset PROVE OnBook(a)
  <2>1. PhaseOf(a)' = "idle" /\ TakerAt(a)' = NoTaker /\ ResultsOf(a)' = <<>>
    BY <1>1, <1>16, CalledNext
  <2>2. Untouched(a)
    BY <1>12, <1>15, <1>16, <2>1 DEF Untouched
  <2> QED BY <2>2 DEF OnBook
<1>17. ASSUME a = r.asset PROVE OnBook(a)
  <2>1. /\ PhaseOf(a)' = IF phase' = "matching" THEN "matching" ELSE "returned"
        /\ TakerAt(a)' = taker' /\ ResultsOf(a)' = <<>>
    BY <1>1, <1>17, CalledNext
  <2>2. PhaseOf(a)' = IF killed THEN "returned" ELSE "matching"
    BY <1>10, <2>1
  <2>3. id \in 1..MaxOrderId /\ id \in books[a].next_order_id..MaxOrderId
    BY <1>2, <1>6, <1>11, <1>14
  <2>4. tif # "ioc" => limit # NoCap /\ limit = r.price
    <3>1. tif # "ioc" => limit \in Prices /\ limit = r.price
      BY <1>4, <1>5
    <3> QED BY <3>1, AmountsAssumption DEF NoCap
  <2>5. killed = (tif = "fok" /\ ~CanFillQuantity(books[a], r.side, limit, qty))
    BY <1>9, <1>17, <2>4
  <2>6. books'[a] = Reserve(books[a], id)
    BY <1>12, <1>17
  <2>7. PICK side \in Sides : side = r.side
    BY <1>1
  <2>8. /\ TakerAt(a)' = [order_id |-> id, user_id |-> user, side |-> side, limit |-> limit,
                          qty |-> qty, remaining_qty |-> qty, tif |-> tif]
        /\ killed = (tif = "fok" /\ ~CanFillQuantity(books[a], side, limit, qty))
        /\ ResultsOf(a)' = ResultsOf(a)
    BY <1>8, <1>15, <2>1, <2>5, <2>7
  <2>9. Starts(a)
    BY <1>4, <1>13, <1>15, <2>2, <2>3, <2>4, <2>6, <2>8 DEF Starts
  <2> QED BY <2>9 DEF OnBook
<1>18. PricesInv'
  <2>1. \A c \in Listed : books'[c].orders = books[c].orders
    BY HandleOrderEngineInv
  <2>2. \A c \in Listed : books'[c].next_order_id <= next_order_id'
    <3> TAKE c \in Listed
    <3>1. CASE c = r.asset
      <4>1. DOMAIN books[c] = {"levels", "orders", "next_order_id"}
        BY <1>11 DEF WellFormed, BookType
      <4>2. books'[c].next_order_id =
              IF books[c].next_order_id > id + 1 THEN books[c].next_order_id ELSE id + 1
        BY <1>12, <3>1, <4>1 DEF Reserve
      <4> QED BY <1>8, <1>11, <4>2
    <3>2. CASE c # r.asset
      BY <1>8, <1>11, <1>12, <3>2
    <3> QED BY <3>1, <3>2
  <2>3. taker'.tif = "gtc" => taker'.limit \in Prices \ {0}
    BY <1>4, <1>5, <1>8
  <2> QED BY <2>1, <2>2, <2>3 DEF PricesInv
<1> QED BY <1>16, <1>17, <1>18

LEMMA MatchStepOnBook ==
  ASSUME EngineInv, PricesInv, MatchStep, NEW a \in Listed
  PROVE  OnBook(a) /\ PricesInv'
<1>1. PICK x \in Listed : x = call.asset
  BY MatchStepTrade
<1>2. PICK t \in Takers : t = taker
  BY MatchStepTrade
<1>3. /\ WellFormed(books[x], Users) /\ taker' \in Takers /\ Matches(books[x], t)
      /\ phase = "matching" /\ phase' = "matching" /\ call' = call
      /\ next_order_id' = next_order_id
      /\ books' = [books EXCEPT ![x] = AfterFill(books[x], t)]
      /\ taker' = [t EXCEPT !.remaining_qty = t.remaining_qty - FillQty(books[x], t)]
      /\ results' = Append(results, TradeOf(books[x], t))
  BY <1>1, <1>2, MatchStepTrade DEF MatchStep
<1>4. books = [c \in Listed |-> books[c]]
  BY DEF EngineInv, BooksInv
<1>5. /\ books'[x] = AfterFill(books[x], t)
      /\ \A c \in Listed \ {x} : books'[c] = books[c]
  BY <1>3, <1>4
<1>6. ASSUME a # x PROVE OnBook(a)
  <2>1. PhaseOf(a) = "idle" /\ TakerAt(a) = NoTaker /\ ResultsOf(a) = <<>>
    BY <1>1, <1>2, <1>6, CalledIs
  <2>2. PhaseOf(a)' = "idle" /\ TakerAt(a)' = NoTaker /\ ResultsOf(a)' = <<>>
    BY <1>1, <1>3, <1>6, CalledNext
  <2>3. Untouched(a)
    BY <1>5, <1>6, <2>1, <2>2 DEF Untouched
  <2> QED BY <2>3 DEF OnBook
<1>7. ASSUME a = x PROVE OnBook(a)
  <2>1. PhaseOf(a) = "matching" /\ TakerAt(a) = t /\ ResultsOf(a) = results
    BY <1>1, <1>2, <1>3, <1>7, CalledIs
  <2>2. PhaseOf(a)' = "matching" /\ TakerAt(a)' = taker' /\ ResultsOf(a)' = results'
    BY <1>1, <1>3, <1>7, CalledNext
  <2>3. Fills(a)
    BY <1>3, <1>5, <1>7, <2>1, <2>2 DEF Fills
  <2> QED BY <2>3 DEF OnBook
<1>8. PricesInv'
  <2>1. t.side \in Sides /\ t.remaining_qty \in Nat
    BY DEF Takers
  <2>2. PICK b : b = books'[x]
    OBVIOUS
  <2>3. b.next_order_id = books[x].next_order_id
    BY <1>3, <1>5, <2>1, <2>2, AfterFillWellFormed
  <2>4. \A id \in DOMAIN b.orders :
          id \in DOMAIN books[x].orders /\ b.orders[id].price = books[x].orders[id].price
    BY <1>3, <1>5, <2>1, <2>2, FillKeepsPrices
  <2>5. taker'.tif = taker.tif /\ taker'.limit = taker.limit
    BY <1>2, <1>3 DEF Takers
  <2> QED BY <1>3, <1>5, <2>2, <2>3, <2>4, <2>5 DEF PricesInv, InCall
<1> QED BY <1>6, <1>7, <1>8

LEMMA CompleteOnBook ==
  ASSUME EngineInv, PricesInv, Complete, NEW a \in Listed
  PROVE  OnBook(a) /\ PricesInv'
<1>1. PICK x \in Listed : x = call.asset
  BY DEF Complete, EngineInv, CallInv, InCall
<1>2. PICK t \in Takers : t = taker
  BY DEF Complete, EngineInv, CallInv, InCall
<1>3. /\ ~Matches(books[x], t) /\ phase = "matching" /\ phase' = "settling"
      /\ call' = call /\ taker' = t /\ results' = results /\ next_order_id' = next_order_id
      /\ books' = IF t.remaining_qty > 0 /\ t.tif = "gtc"
                  THEN [books EXCEPT ![x] = Rest(books[x], t)] ELSE books
  BY <1>1, <1>2 DEF Complete
<1>4. books = [c \in Listed |-> books[c]] /\ WellFormed(books[x], Users)
  BY DEF EngineInv, BooksInv
<1>5. /\ books'[x] = IF t.remaining_qty > 0 /\ t.tif = "gtc" THEN Rest(books[x], t) ELSE books[x]
      /\ \A c \in Listed \ {x} : books'[c] = books[c]
  BY <1>3, <1>4
<1>6. ASSUME a # x PROVE OnBook(a)
  <2>1. PhaseOf(a) = "idle" /\ TakerAt(a) = NoTaker /\ ResultsOf(a) = <<>>
    BY <1>1, <1>2, <1>6, CalledIs
  <2>2. PhaseOf(a)' = "idle" /\ TakerAt(a)' = NoTaker /\ ResultsOf(a)' = <<>>
    BY <1>1, <1>3, <1>6, CalledNext
  <2>3. Untouched(a)
    BY <1>5, <1>6, <2>1, <2>2 DEF Untouched
  <2> QED BY <2>3 DEF OnBook
<1>7. ASSUME a = x PROVE OnBook(a)
  <2>1. PhaseOf(a) = "matching" /\ TakerAt(a) = t /\ ResultsOf(a) = results
    BY <1>1, <1>2, <1>3, <1>7, CalledIs
  <2>2. PhaseOf(a)' = "returned" /\ TakerAt(a)' = t /\ ResultsOf(a)' = results'
    BY <1>1, <1>3, <1>7, CalledNext
  <2>3. Ends(a)
    BY <1>3, <1>5, <1>7, <2>1, <2>2 DEF Ends
  <2> QED BY <2>3 DEF OnBook
<1>8. PricesInv'
  <2>1. PICK b : b = books'[x]
    OBVIOUS
  <2>2. DOMAIN books[x] = {"levels", "orders", "next_order_id"}
    BY <1>4 DEF WellFormed, BookType
  <2>3. b.next_order_id = books[x].next_order_id
    BY <1>5, <2>1, <2>2 DEF Rest
  <2>4. t.tif = "gtc" => t.limit \in Prices \ {0}
    BY <1>2, <1>3 DEF PricesInv, InCall
  <2>5. \A id \in DOMAIN b.orders : b.orders[id].price \in Prices \ {0}
    <3>1. CASE t.remaining_qty > 0 /\ t.tif = "gtc"
      <4>1. b.orders = With(books[x].orders, t.order_id, RestingOrder(t))
        BY <1>5, <2>1, <2>2, <3>1 DEF Rest
      <4>2. RestingOrder(t).price \in Prices \ {0}
        BY <2>4, <3>1 DEF RestingOrder
      <4> QED BY <4>1, <4>2 DEF With, PricesInv
    <3>2. CASE ~(t.remaining_qty > 0 /\ t.tif = "gtc")
      BY <1>5, <2>1, <3>2 DEF PricesInv
    <3> QED BY <3>1, <3>2
  <2> QED BY <1>2, <1>3, <1>5, <2>1, <2>3, <2>4, <2>5 DEF PricesInv
<1> QED BY <1>6, <1>7, <1>8

\* Settling, reconciling and the calls that no book sees.
LEMMA OtherOnBook ==
  ASSUME EngineInv, PricesInv, NEW a \in Listed,
         \/ SettleFill \/ Reconcile
         \/ \E user \in Users, r \in Requests : OrderRefused(user, r)
         \/ \E user \in Users, id \in 1..MaxOrderId : CancelRefused(user, id)
         \/ \E user \in Users, amount \in OnrampAmounts : HandleOnramp(user, amount)
         \/ \E user \in Users, asset \in Symbols \cap Listed, amount \in DepositAmounts :
              HandleDeposit(user, asset, amount)
         \/ UNCHANGED vars
  PROVE  Untouched(a) /\ PricesInv'
<1>1. UNCHANGED <<books, next_order_id, taker, results>>
  BY DEF SettleFill, Reconcile, OrderRefused, CancelRefused, HandleOnramp, HandleDeposit, vars
<1>2. CASE SettleFill \/ Reconcile
  <2>1. PICK t \in Takers : t = taker
    BY <1>2 DEF SettleFill, Reconcile, EngineInv, CallInv, InCall
  <2>2. phase = "settling" /\ phase' # "matching" /\ call'.asset = call.asset
    BY <1>2, OtherEngineInv DEF SettleFill, Reconcile, ApplyFill, EngineInv, CallInv, Calls
  <2>3. /\ PhaseOf(a)' = PhaseOf(a) /\ TakerAt(a)' = TakerAt(a) /\ ResultsOf(a)' = ResultsOf(a)
    BY <1>1, <2>2 DEF PhaseOf, TakerAt, ResultsOf, Called
  <2> QED BY <1>1, <1>2, <2>2, <2>3 DEF Untouched, PricesInv, InCall
<1>3. CASE UNCHANGED vars
  BY <1>3 DEF Untouched, vars, PricesInv, InCall, PhaseOf, TakerAt, ResultsOf, Called
<1>4. CASE /\ ~(SettleFill \/ Reconcile) /\ ~UNCHANGED vars
  <2>1. phase = "idle" /\ phase' \notin {"matching", "settling"}
    BY <1>4 DEF OrderRefused, CancelRefused, HandleOnramp, HandleDeposit
  <2>2. taker = NoTaker /\ PhaseOf(a) = "idle" /\ TakerAt(a) = NoTaker /\ ResultsOf(a) = <<>>
    BY <2>1, NotCalled
  <2>3. PhaseOf(a)' = "idle" /\ TakerAt(a)' = NoTaker /\ ResultsOf(a)' = <<>>
    BY <1>1, <2>2, NoTakerNext
  <2> QED BY <1>1, <2>1, <2>2, <2>3 DEF Untouched, PricesInv, InCall
<1> QED BY <1>2, <1>3, <1>4

LEMMA ReturnOnBook ==
  ASSUME EngineInv, PricesInv, Return, NEW a \in Listed
  PROVE  OnBook(a) /\ PricesInv'
<1>1. /\ phase = "replied" /\ phase' = "idle" /\ taker' = NoTaker
      /\ books' = books /\ next_order_id' = next_order_id
  BY DEF Return
<1>2. PhaseOf(a)' = "idle" /\ TakerAt(a)' = NoTaker /\ ResultsOf(a)' = <<>>
  BY <1>1, NoTakerNext
<1>3. OnBook(a)
  <2>1. CASE Called(a)
    <3>1. PhaseOf(a) = "returned"
      BY <1>1, <2>1 DEF PhaseOf
    <3>2. Returns(a)
      BY <1>1, <1>2, <3>1 DEF Returns
    <3> QED BY <3>2 DEF OnBook
  <2>2. CASE ~Called(a)
    <3>1. PhaseOf(a) = "idle" /\ TakerAt(a) = NoTaker /\ ResultsOf(a) = <<>>
      BY <2>2 DEF PhaseOf, TakerAt, ResultsOf
    <3>2. Untouched(a)
      BY <1>1, <1>2, <3>1 DEF Untouched
    <3> QED BY <3>2 DEF OnBook
  <2> QED BY <2>1, <2>2
<1>4. PricesInv'
  BY <1>1 DEF PricesInv, InCall
<1> QED BY <1>3, <1>4

LEMMA CancelOnBook ==
  ASSUME EngineInv, PricesInv, NEW user \in Users, NEW id \in 1..MaxOrderId,
         HandleCancel(user, id), NEW a \in Listed
  PROVE  OnBook(a) /\ PricesInv'
<1>1. PICK i \in DOMAIN Markets :
        /\ phase = "idle" /\ phase' = "replied"
        /\ Owns(user, Markets[i], id)
        /\ books' = [books EXCEPT ![Markets[i]] = Cancel(books[Markets[i]], id)]
        /\ UNCHANGED <<next_order_id, taker, results>>
  BY Zenon DEF HandleCancel
<1>2. PICK x \in Listed : x = Markets[i]
  BY DEF Markets, Listed
<1>3. books = [c \in Listed |-> books[c]] /\ WellFormed(books[x], Users)
  BY DEF EngineInv, BooksInv
<1>4. /\ id \in DOMAIN books[x].orders /\ books[x].orders[id].user_id = user
      /\ books'[x] = Cancel(books[x], id)
      /\ \A c \in Listed \ {x} : books'[c] = books[c]
  BY <1>1, <1>2, <1>3 DEF Owns
<1>5. taker = NoTaker /\ PhaseOf(a) = "idle" /\ TakerAt(a) = NoTaker /\ ResultsOf(a) = <<>>
  BY <1>1, NotCalled
<1>6. PhaseOf(a)' = "idle" /\ TakerAt(a)' = NoTaker /\ ResultsOf(a)' = <<>>
  BY <1>1, <1>5, NoTakerNext
<1>7. ASSUME a # x PROVE OnBook(a)
  <2>1. Untouched(a)
    BY <1>4, <1>5, <1>6, <1>7 DEF Untouched
  <2> QED BY <2>1 DEF OnBook
<1>8. ASSUME a = x PROVE OnBook(a)
  <2>1. Cancels(a)
    BY <1>4, <1>5, <1>6, <1>8 DEF Cancels
  <2> QED BY <2>1 DEF OnBook
<1>9. PricesInv'
  <2>1. PICK b : b = books'[x]
    OBVIOUS
  <2>2. b.orders = Without(books[x].orders, id) /\ b.next_order_id = books[x].next_order_id
    BY <1>3, <1>4, <2>1, CancelWellFormed
  <2>3. \A k \in DOMAIN b.orders : b.orders[k].price \in Prices \ {0}
    BY <2>2 DEF Without, PricesInv
  <2> QED BY <1>1, <1>4, <2>1, <2>2, <2>3 DEF PricesInv, InCall
<1> QED BY <1>7, <1>8, <1>9

LEMMA ResetOnBook ==
  ASSUME EngineInv, PricesInv, HandleReset, NEW a \in Listed
  PROVE  OnBook(a) /\ PricesInv'
<1>1. /\ phase = "idle" /\ phase' = phase /\ taker' = taker
      /\ next_order_id' = 1 /\ \A c \in Listed : books'[c] = NewBook
  BY DEF HandleReset, FreshBooks
<1>2. taker = NoTaker /\ PhaseOf(a) = "idle" /\ TakerAt(a) = NoTaker /\ ResultsOf(a) = <<>>
  BY <1>1, NotCalled
<1>3. PhaseOf(a)' = "idle" /\ TakerAt(a)' = NoTaker /\ ResultsOf(a)' = <<>>
  BY <1>1, <1>2, NoTakerNext
<1>4. Resets(a)
  BY <1>1, <1>2, <1>3 DEF Resets
<1>5. PricesInv'
  BY <1>1 DEF PricesInv, InCall, NewBook, EmptyMap
<1> QED BY <1>4, <1>5 DEF OnBook

LEMMA StepOnBook ==
  ASSUME EngineInv, PricesInv, [Next]_vars, NEW a \in Listed
  PROVE  OnBook(a) /\ PricesInv'
<1>1. ASSUME NEW user \in Users, NEW r \in Requests, HandleOrder(user, r)
      PROVE  OnBook(a) /\ PricesInv'
  BY <1>1, HandleOrderOnBook
<1>2. ASSUME NEW user \in Users, NEW id \in 1..MaxOrderId, HandleCancel(user, id)
      PROVE  OnBook(a) /\ PricesInv'
  BY <1>2, CancelOnBook
<1>3. ASSUME \/ SettleFill \/ Reconcile
             \/ \E user \in Users, r \in Requests : OrderRefused(user, r)
             \/ \E user \in Users, id \in 1..MaxOrderId : CancelRefused(user, id)
             \/ \E user \in Users, amount \in OnrampAmounts : HandleOnramp(user, amount)
             \/ \E user \in Users, asset \in Symbols \cap Listed, amount \in DepositAmounts :
                  HandleDeposit(user, asset, amount)
             \/ UNCHANGED vars
      PROVE  OnBook(a) /\ PricesInv'
  BY <1>3, OtherOnBook DEF OnBook
<1>4. CASE MatchStep
  BY <1>4, MatchStepOnBook
<1>5. CASE Complete
  BY <1>5, CompleteOnBook
<1>6. CASE Return
  BY <1>6, ReturnOnBook
<1>7. CASE HandleReset
  BY <1>7, ResetOnBook
<1> QED BY <1>1, <1>2, <1>3, <1>4, <1>5, <1>6, <1>7 DEF Next

\* What a step does to a book is a step of its Orderbook.  An instance has its
\* own copy of every operator of Book, and a proof is about a named instance:
\* for each of the three, that the copies are equal, and that its steps are
\* those of OnBook.
LEMMA SolOrderbookOperators ==
  /\ SolOrderbook!NewBook = NewBook
  /\ SolOrderbook!NoCap = NoCap
  /\ SolOrderbook!Sides = Sides
  /\ SolOrderbook!TimesInForce = TimesInForce
  /\ \A b, id : SolOrderbook!Reserve(b, id) = Reserve(b, id)
  /\ \A b, id : SolOrderbook!Cancel(b, id) = Cancel(b, id)
  /\ \A b, t : SolOrderbook!Matches(b, t) <=> Matches(b, t)
  /\ \A b, t : SolOrderbook!FillQty(b, t) = FillQty(b, t)
  /\ \A b, t : SolOrderbook!TradeOf(b, t) = TradeOf(b, t)
  /\ \A b, t : SolOrderbook!AfterFill(b, t) = AfterFill(b, t)
  /\ \A b, t : SolOrderbook!Rest(b, t) = Rest(b, t)
  /\ \A b, side, price, qty :
       SolOrderbook!CanFillQuantity(b, side, price, qty) <=> CanFillQuantity(b, side, price, qty)
<1>1. SolOrderbook!NewBook = NewBook
  BY DEF NewBook, EmptyMap, Sides, SolOrderbook!NewBook, SolOrderbook!EmptyMap,
        SolOrderbook!Sides
<1>2. SolOrderbook!NoCap = NoCap
  BY DEF NoCap, SolOrderbook!NoCap
<1>3. SolOrderbook!Sides = Sides
  BY DEF Sides, SolOrderbook!Sides
<1>4. SolOrderbook!TimesInForce = TimesInForce
  BY DEF TimesInForce, SolOrderbook!TimesInForce
<1>5. ASSUME NEW b, NEW id
      PROVE  SolOrderbook!Reserve(b, id) = Reserve(b, id)
  BY DEF Reserve, SolOrderbook!Reserve
<1>6. ASSUME NEW b, NEW id
      PROVE  SolOrderbook!Cancel(b, id) = Cancel(b, id)
  BY DEF Cancel, Without, SetQueue, With, RemoveAt, Position, SolOrderbook!Cancel,
        SolOrderbook!Without, SolOrderbook!SetQueue, SolOrderbook!With,
        SolOrderbook!RemoveAt, SolOrderbook!Position
<1>7. ASSUME NEW b, NEW t
      PROVE  SolOrderbook!Matches(b, t) <=> Matches(b, t)
  BY DEF Matches, Opposite, BestPrice, Better, Crosses, NoCap, SolOrderbook!Matches,
        SolOrderbook!Opposite, SolOrderbook!BestPrice, SolOrderbook!Better,
        SolOrderbook!Crosses, SolOrderbook!NoCap
<1>8. ASSUME NEW b, NEW t
      PROVE  SolOrderbook!FillQty(b, t) = FillQty(b, t)
  BY DEF FillQty, Maker, Opposite, BestPrice, Better, SolOrderbook!FillQty,
        SolOrderbook!Maker, SolOrderbook!Opposite, SolOrderbook!BestPrice,
        SolOrderbook!Better
<1>9. ASSUME NEW b, NEW t
      PROVE  SolOrderbook!TradeOf(b, t) = TradeOf(b, t)
  BY DEF TradeOf, FillQty, Maker, Opposite, BestPrice, Better, SolOrderbook!TradeOf,
        SolOrderbook!FillQty, SolOrderbook!Maker, SolOrderbook!Opposite,
        SolOrderbook!BestPrice, SolOrderbook!Better
<1>10. ASSUME NEW b, NEW t
      PROVE  SolOrderbook!AfterFill(b, t) = AfterFill(b, t)
  BY DEF AfterFill, FillQty, Maker, Opposite, BestPrice, Better, Without, SetQueue, With,
        SolOrderbook!AfterFill, SolOrderbook!FillQty, SolOrderbook!Maker,
        SolOrderbook!Opposite, SolOrderbook!BestPrice, SolOrderbook!Better,
        SolOrderbook!Without, SolOrderbook!SetQueue, SolOrderbook!With
<1>11. ASSUME NEW b, NEW t
      PROVE  SolOrderbook!Rest(b, t) = Rest(b, t)
  BY DEF Rest, PushBack, With, RestingOrder, SolOrderbook!Rest, SolOrderbook!PushBack,
        SolOrderbook!With, SolOrderbook!RestingOrder
<1>12. ASSUME NEW b, NEW side, NEW price, NEW qty
      PROVE  SolOrderbook!CanFillQuantity(b, side, price, qty)
               <=> CanFillQuantity(b, side, price, qty)
  BY DEF CanFillQuantity, Sweep, TakeLevels, TakeLevel, Opposite, Better, Crosses, NoCap,
        LastServed, FoldLeft, MapThenFoldSet, Max, SolOrderbook!CanFillQuantity,
        SolOrderbook!Sweep, SolOrderbook!TakeLevels, SolOrderbook!TakeLevel,
        SolOrderbook!Opposite, SolOrderbook!Better, SolOrderbook!Crosses,
        SolOrderbook!NoCap, SolOrderbook!LastServed, SolOrderbook!FoldLeft,
        SolOrderbook!MapThenFoldSet, SolOrderbook!Max
<1> QED BY <1>1, <1>2, <1>3, <1>4, <1>5, <1>6, <1>7, <1>8, <1>9, <1>10, <1>11, <1>12

LEMMA SolSteps ==
  ASSUME OnBook("sol")
  PROVE  UNCHANGED SolOrderbook!vars \/ SolOrderbook!Next
<1>1. CASE Untouched("sol")
  BY <1>1 DEF Untouched, SolOrderbook!vars
<1>2. CASE Starts("sol")
  <2>1. PICK id \in 1..MaxOrderId, user \in Users, side \in Sides, qty \in Quantities \ {0},
             limit \in (LimitPrices \ {0}) \cup {NoCap}, tif \in TimesInForce, killed \in BOOLEAN :
          /\ PhaseOf("sol") = "idle"
          /\ id \in books["sol"].next_order_id..MaxOrderId
          /\ books'["sol"] = Reserve(books["sol"], id)
          /\ TakerAt("sol")' = SolOrderbook!TakerOf(id, user, side, limit, qty, tif)
          /\ PhaseOf("sol")' = IF killed THEN "returned" ELSE "matching"
          /\ ResultsOf("sol")' = ResultsOf("sol")
          /\ tif # "ioc" => limit # NoCap
          /\ killed = (tif = "fok" /\ ~CanFillQuantity(books["sol"], side, limit, qty))
    BY <1>2 DEF Starts, SolOrderbook!TakerOf
  <2>2. PICK t : t = SolOrderbook!TakerOf(id, user, side, limit, qty, tif)
    OBVIOUS
  <2>3. t.order_id = id
    BY <2>2 DEF SolOrderbook!TakerOf
  <2>4. SolOrderbook!Start(t, killed, "none")
    BY <2>1, <2>2, <2>3, SolOrderbookOperators DEF SolOrderbook!Start
  <2>5. CASE tif = "ioc"
    <3>1. SolOrderbook!Start(t, qty = 0, "none")
      BY <2>1, <2>4, <2>5
    <3>2. SolOrderbook!ExecuteMarketOrderWithId(id, user, side, qty, limit)
      BY <2>2, <2>5, <3>1 DEF SolOrderbook!ExecuteMarketOrderWithId
    <3> QED BY <3>2, SolOrderbookOperators DEF SolOrderbook!Next
  <2>6. CASE tif # "ioc"
    <3>1. limit \in LimitPrices /\ limit # 0 /\ qty # 0
      BY <2>1, <2>6
    <3>2. SolOrderbook!AddOrderWithId(id, user, side, limit, qty, tif)
      BY <2>1, <2>2, <2>4, <3>1, SolOrderbookOperators
        DEF SolOrderbook!AddOrderWithId
    <3> QED BY <3>1, <3>2, SolOrderbookOperators DEF SolOrderbook!Next
  <2> QED BY <2>5, <2>6
<1>3. CASE Fills("sol")
  BY <1>3, SolOrderbookOperators DEF Fills, SolOrderbook!MatchStep, SolOrderbook!Next
<1>4. CASE Ends("sol")
  BY <1>4, SolOrderbookOperators DEF Ends, SolOrderbook!Complete, SolOrderbook!Next
<1>5. CASE Returns("sol")
  BY <1>5 DEF Returns, SolOrderbook!Return, SolOrderbook!Next, NoTaker, SolOrderbook!NoTaker
<1>6. CASE Cancels("sol")
  BY <1>6, SolOrderbookOperators DEF Cancels, SolOrderbook!CancelOrder, SolOrderbook!Next
<1>7. CASE Resets("sol")
  BY <1>7, SolOrderbookOperators DEF Resets, SolOrderbook!Reset, SolOrderbook!Next
<1> QED BY <1>1, <1>2, <1>3, <1>4, <1>5, <1>6, <1>7 DEF OnBook

LEMMA BtcOrderbookOperators ==
  /\ BtcOrderbook!NewBook = NewBook
  /\ BtcOrderbook!NoCap = NoCap
  /\ BtcOrderbook!Sides = Sides
  /\ BtcOrderbook!TimesInForce = TimesInForce
  /\ \A b, id : BtcOrderbook!Reserve(b, id) = Reserve(b, id)
  /\ \A b, id : BtcOrderbook!Cancel(b, id) = Cancel(b, id)
  /\ \A b, t : BtcOrderbook!Matches(b, t) <=> Matches(b, t)
  /\ \A b, t : BtcOrderbook!FillQty(b, t) = FillQty(b, t)
  /\ \A b, t : BtcOrderbook!TradeOf(b, t) = TradeOf(b, t)
  /\ \A b, t : BtcOrderbook!AfterFill(b, t) = AfterFill(b, t)
  /\ \A b, t : BtcOrderbook!Rest(b, t) = Rest(b, t)
  /\ \A b, side, price, qty :
       BtcOrderbook!CanFillQuantity(b, side, price, qty) <=> CanFillQuantity(b, side, price, qty)
<1>1. BtcOrderbook!NewBook = NewBook
  BY DEF NewBook, EmptyMap, Sides, BtcOrderbook!NewBook, BtcOrderbook!EmptyMap,
        BtcOrderbook!Sides
<1>2. BtcOrderbook!NoCap = NoCap
  BY DEF NoCap, BtcOrderbook!NoCap
<1>3. BtcOrderbook!Sides = Sides
  BY DEF Sides, BtcOrderbook!Sides
<1>4. BtcOrderbook!TimesInForce = TimesInForce
  BY DEF TimesInForce, BtcOrderbook!TimesInForce
<1>5. ASSUME NEW b, NEW id
      PROVE  BtcOrderbook!Reserve(b, id) = Reserve(b, id)
  BY DEF Reserve, BtcOrderbook!Reserve
<1>6. ASSUME NEW b, NEW id
      PROVE  BtcOrderbook!Cancel(b, id) = Cancel(b, id)
  BY DEF Cancel, Without, SetQueue, With, RemoveAt, Position, BtcOrderbook!Cancel,
        BtcOrderbook!Without, BtcOrderbook!SetQueue, BtcOrderbook!With,
        BtcOrderbook!RemoveAt, BtcOrderbook!Position
<1>7. ASSUME NEW b, NEW t
      PROVE  BtcOrderbook!Matches(b, t) <=> Matches(b, t)
  BY DEF Matches, Opposite, BestPrice, Better, Crosses, NoCap, BtcOrderbook!Matches,
        BtcOrderbook!Opposite, BtcOrderbook!BestPrice, BtcOrderbook!Better,
        BtcOrderbook!Crosses, BtcOrderbook!NoCap
<1>8. ASSUME NEW b, NEW t
      PROVE  BtcOrderbook!FillQty(b, t) = FillQty(b, t)
  BY DEF FillQty, Maker, Opposite, BestPrice, Better, BtcOrderbook!FillQty,
        BtcOrderbook!Maker, BtcOrderbook!Opposite, BtcOrderbook!BestPrice,
        BtcOrderbook!Better
<1>9. ASSUME NEW b, NEW t
      PROVE  BtcOrderbook!TradeOf(b, t) = TradeOf(b, t)
  BY DEF TradeOf, FillQty, Maker, Opposite, BestPrice, Better, BtcOrderbook!TradeOf,
        BtcOrderbook!FillQty, BtcOrderbook!Maker, BtcOrderbook!Opposite,
        BtcOrderbook!BestPrice, BtcOrderbook!Better
<1>10. ASSUME NEW b, NEW t
      PROVE  BtcOrderbook!AfterFill(b, t) = AfterFill(b, t)
  BY DEF AfterFill, FillQty, Maker, Opposite, BestPrice, Better, Without, SetQueue, With,
        BtcOrderbook!AfterFill, BtcOrderbook!FillQty, BtcOrderbook!Maker,
        BtcOrderbook!Opposite, BtcOrderbook!BestPrice, BtcOrderbook!Better,
        BtcOrderbook!Without, BtcOrderbook!SetQueue, BtcOrderbook!With
<1>11. ASSUME NEW b, NEW t
      PROVE  BtcOrderbook!Rest(b, t) = Rest(b, t)
  BY DEF Rest, PushBack, With, RestingOrder, BtcOrderbook!Rest, BtcOrderbook!PushBack,
        BtcOrderbook!With, BtcOrderbook!RestingOrder
<1>12. ASSUME NEW b, NEW side, NEW price, NEW qty
      PROVE  BtcOrderbook!CanFillQuantity(b, side, price, qty)
               <=> CanFillQuantity(b, side, price, qty)
  BY DEF CanFillQuantity, Sweep, TakeLevels, TakeLevel, Opposite, Better, Crosses, NoCap,
        LastServed, FoldLeft, MapThenFoldSet, Max, BtcOrderbook!CanFillQuantity,
        BtcOrderbook!Sweep, BtcOrderbook!TakeLevels, BtcOrderbook!TakeLevel,
        BtcOrderbook!Opposite, BtcOrderbook!Better, BtcOrderbook!Crosses,
        BtcOrderbook!NoCap, BtcOrderbook!LastServed, BtcOrderbook!FoldLeft,
        BtcOrderbook!MapThenFoldSet, BtcOrderbook!Max
<1> QED BY <1>1, <1>2, <1>3, <1>4, <1>5, <1>6, <1>7, <1>8, <1>9, <1>10, <1>11, <1>12

LEMMA BtcSteps ==
  ASSUME OnBook("btc")
  PROVE  UNCHANGED BtcOrderbook!vars \/ BtcOrderbook!Next
<1>1. CASE Untouched("btc")
  BY <1>1 DEF Untouched, BtcOrderbook!vars
<1>2. CASE Starts("btc")
  <2>1. PICK id \in 1..MaxOrderId, user \in Users, side \in Sides, qty \in Quantities \ {0},
             limit \in (LimitPrices \ {0}) \cup {NoCap}, tif \in TimesInForce, killed \in BOOLEAN :
          /\ PhaseOf("btc") = "idle"
          /\ id \in books["btc"].next_order_id..MaxOrderId
          /\ books'["btc"] = Reserve(books["btc"], id)
          /\ TakerAt("btc")' = BtcOrderbook!TakerOf(id, user, side, limit, qty, tif)
          /\ PhaseOf("btc")' = IF killed THEN "returned" ELSE "matching"
          /\ ResultsOf("btc")' = ResultsOf("btc")
          /\ tif # "ioc" => limit # NoCap
          /\ killed = (tif = "fok" /\ ~CanFillQuantity(books["btc"], side, limit, qty))
    BY <1>2 DEF Starts, BtcOrderbook!TakerOf
  <2>2. PICK t : t = BtcOrderbook!TakerOf(id, user, side, limit, qty, tif)
    OBVIOUS
  <2>3. t.order_id = id
    BY <2>2 DEF BtcOrderbook!TakerOf
  <2>4. BtcOrderbook!Start(t, killed, "none")
    BY <2>1, <2>2, <2>3, BtcOrderbookOperators DEF BtcOrderbook!Start
  <2>5. CASE tif = "ioc"
    <3>1. BtcOrderbook!Start(t, qty = 0, "none")
      BY <2>1, <2>4, <2>5
    <3>2. BtcOrderbook!ExecuteMarketOrderWithId(id, user, side, qty, limit)
      BY <2>2, <2>5, <3>1 DEF BtcOrderbook!ExecuteMarketOrderWithId
    <3> QED BY <3>2, BtcOrderbookOperators DEF BtcOrderbook!Next
  <2>6. CASE tif # "ioc"
    <3>1. limit \in LimitPrices /\ limit # 0 /\ qty # 0
      BY <2>1, <2>6
    <3>2. BtcOrderbook!AddOrderWithId(id, user, side, limit, qty, tif)
      BY <2>1, <2>2, <2>4, <3>1, BtcOrderbookOperators
        DEF BtcOrderbook!AddOrderWithId
    <3> QED BY <3>1, <3>2, BtcOrderbookOperators DEF BtcOrderbook!Next
  <2> QED BY <2>5, <2>6
<1>3. CASE Fills("btc")
  BY <1>3, BtcOrderbookOperators DEF Fills, BtcOrderbook!MatchStep, BtcOrderbook!Next
<1>4. CASE Ends("btc")
  BY <1>4, BtcOrderbookOperators DEF Ends, BtcOrderbook!Complete, BtcOrderbook!Next
<1>5. CASE Returns("btc")
  BY <1>5 DEF Returns, BtcOrderbook!Return, BtcOrderbook!Next, NoTaker, BtcOrderbook!NoTaker
<1>6. CASE Cancels("btc")
  BY <1>6, BtcOrderbookOperators DEF Cancels, BtcOrderbook!CancelOrder, BtcOrderbook!Next
<1>7. CASE Resets("btc")
  BY <1>7, BtcOrderbookOperators DEF Resets, BtcOrderbook!Reset, BtcOrderbook!Next
<1> QED BY <1>1, <1>2, <1>3, <1>4, <1>5, <1>6, <1>7 DEF OnBook

LEMMA EthOrderbookOperators ==
  /\ EthOrderbook!NewBook = NewBook
  /\ EthOrderbook!NoCap = NoCap
  /\ EthOrderbook!Sides = Sides
  /\ EthOrderbook!TimesInForce = TimesInForce
  /\ \A b, id : EthOrderbook!Reserve(b, id) = Reserve(b, id)
  /\ \A b, id : EthOrderbook!Cancel(b, id) = Cancel(b, id)
  /\ \A b, t : EthOrderbook!Matches(b, t) <=> Matches(b, t)
  /\ \A b, t : EthOrderbook!FillQty(b, t) = FillQty(b, t)
  /\ \A b, t : EthOrderbook!TradeOf(b, t) = TradeOf(b, t)
  /\ \A b, t : EthOrderbook!AfterFill(b, t) = AfterFill(b, t)
  /\ \A b, t : EthOrderbook!Rest(b, t) = Rest(b, t)
  /\ \A b, side, price, qty :
       EthOrderbook!CanFillQuantity(b, side, price, qty) <=> CanFillQuantity(b, side, price, qty)
<1>1. EthOrderbook!NewBook = NewBook
  BY DEF NewBook, EmptyMap, Sides, EthOrderbook!NewBook, EthOrderbook!EmptyMap,
        EthOrderbook!Sides
<1>2. EthOrderbook!NoCap = NoCap
  BY DEF NoCap, EthOrderbook!NoCap
<1>3. EthOrderbook!Sides = Sides
  BY DEF Sides, EthOrderbook!Sides
<1>4. EthOrderbook!TimesInForce = TimesInForce
  BY DEF TimesInForce, EthOrderbook!TimesInForce
<1>5. ASSUME NEW b, NEW id
      PROVE  EthOrderbook!Reserve(b, id) = Reserve(b, id)
  BY DEF Reserve, EthOrderbook!Reserve
<1>6. ASSUME NEW b, NEW id
      PROVE  EthOrderbook!Cancel(b, id) = Cancel(b, id)
  BY DEF Cancel, Without, SetQueue, With, RemoveAt, Position, EthOrderbook!Cancel,
        EthOrderbook!Without, EthOrderbook!SetQueue, EthOrderbook!With,
        EthOrderbook!RemoveAt, EthOrderbook!Position
<1>7. ASSUME NEW b, NEW t
      PROVE  EthOrderbook!Matches(b, t) <=> Matches(b, t)
  BY DEF Matches, Opposite, BestPrice, Better, Crosses, NoCap, EthOrderbook!Matches,
        EthOrderbook!Opposite, EthOrderbook!BestPrice, EthOrderbook!Better,
        EthOrderbook!Crosses, EthOrderbook!NoCap
<1>8. ASSUME NEW b, NEW t
      PROVE  EthOrderbook!FillQty(b, t) = FillQty(b, t)
  BY DEF FillQty, Maker, Opposite, BestPrice, Better, EthOrderbook!FillQty,
        EthOrderbook!Maker, EthOrderbook!Opposite, EthOrderbook!BestPrice,
        EthOrderbook!Better
<1>9. ASSUME NEW b, NEW t
      PROVE  EthOrderbook!TradeOf(b, t) = TradeOf(b, t)
  BY DEF TradeOf, FillQty, Maker, Opposite, BestPrice, Better, EthOrderbook!TradeOf,
        EthOrderbook!FillQty, EthOrderbook!Maker, EthOrderbook!Opposite,
        EthOrderbook!BestPrice, EthOrderbook!Better
<1>10. ASSUME NEW b, NEW t
      PROVE  EthOrderbook!AfterFill(b, t) = AfterFill(b, t)
  BY DEF AfterFill, FillQty, Maker, Opposite, BestPrice, Better, Without, SetQueue, With,
        EthOrderbook!AfterFill, EthOrderbook!FillQty, EthOrderbook!Maker,
        EthOrderbook!Opposite, EthOrderbook!BestPrice, EthOrderbook!Better,
        EthOrderbook!Without, EthOrderbook!SetQueue, EthOrderbook!With
<1>11. ASSUME NEW b, NEW t
      PROVE  EthOrderbook!Rest(b, t) = Rest(b, t)
  BY DEF Rest, PushBack, With, RestingOrder, EthOrderbook!Rest, EthOrderbook!PushBack,
        EthOrderbook!With, EthOrderbook!RestingOrder
<1>12. ASSUME NEW b, NEW side, NEW price, NEW qty
      PROVE  EthOrderbook!CanFillQuantity(b, side, price, qty)
               <=> CanFillQuantity(b, side, price, qty)
  BY DEF CanFillQuantity, Sweep, TakeLevels, TakeLevel, Opposite, Better, Crosses, NoCap,
        LastServed, FoldLeft, MapThenFoldSet, Max, EthOrderbook!CanFillQuantity,
        EthOrderbook!Sweep, EthOrderbook!TakeLevels, EthOrderbook!TakeLevel,
        EthOrderbook!Opposite, EthOrderbook!Better, EthOrderbook!Crosses,
        EthOrderbook!NoCap, EthOrderbook!LastServed, EthOrderbook!FoldLeft,
        EthOrderbook!MapThenFoldSet, EthOrderbook!Max
<1> QED BY <1>1, <1>2, <1>3, <1>4, <1>5, <1>6, <1>7, <1>8, <1>9, <1>10, <1>11, <1>12

LEMMA EthSteps ==
  ASSUME OnBook("eth")
  PROVE  UNCHANGED EthOrderbook!vars \/ EthOrderbook!Next
<1>1. CASE Untouched("eth")
  BY <1>1 DEF Untouched, EthOrderbook!vars
<1>2. CASE Starts("eth")
  <2>1. PICK id \in 1..MaxOrderId, user \in Users, side \in Sides, qty \in Quantities \ {0},
             limit \in (LimitPrices \ {0}) \cup {NoCap}, tif \in TimesInForce, killed \in BOOLEAN :
          /\ PhaseOf("eth") = "idle"
          /\ id \in books["eth"].next_order_id..MaxOrderId
          /\ books'["eth"] = Reserve(books["eth"], id)
          /\ TakerAt("eth")' = EthOrderbook!TakerOf(id, user, side, limit, qty, tif)
          /\ PhaseOf("eth")' = IF killed THEN "returned" ELSE "matching"
          /\ ResultsOf("eth")' = ResultsOf("eth")
          /\ tif # "ioc" => limit # NoCap
          /\ killed = (tif = "fok" /\ ~CanFillQuantity(books["eth"], side, limit, qty))
    BY <1>2 DEF Starts, EthOrderbook!TakerOf
  <2>2. PICK t : t = EthOrderbook!TakerOf(id, user, side, limit, qty, tif)
    OBVIOUS
  <2>3. t.order_id = id
    BY <2>2 DEF EthOrderbook!TakerOf
  <2>4. EthOrderbook!Start(t, killed, "none")
    BY <2>1, <2>2, <2>3, EthOrderbookOperators DEF EthOrderbook!Start
  <2>5. CASE tif = "ioc"
    <3>1. EthOrderbook!Start(t, qty = 0, "none")
      BY <2>1, <2>4, <2>5
    <3>2. EthOrderbook!ExecuteMarketOrderWithId(id, user, side, qty, limit)
      BY <2>2, <2>5, <3>1 DEF EthOrderbook!ExecuteMarketOrderWithId
    <3> QED BY <3>2, EthOrderbookOperators DEF EthOrderbook!Next
  <2>6. CASE tif # "ioc"
    <3>1. limit \in LimitPrices /\ limit # 0 /\ qty # 0
      BY <2>1, <2>6
    <3>2. EthOrderbook!AddOrderWithId(id, user, side, limit, qty, tif)
      BY <2>1, <2>2, <2>4, <3>1, EthOrderbookOperators
        DEF EthOrderbook!AddOrderWithId
    <3> QED BY <3>1, <3>2, EthOrderbookOperators DEF EthOrderbook!Next
  <2> QED BY <2>5, <2>6
<1>3. CASE Fills("eth")
  BY <1>3, EthOrderbookOperators DEF Fills, EthOrderbook!MatchStep, EthOrderbook!Next
<1>4. CASE Ends("eth")
  BY <1>4, EthOrderbookOperators DEF Ends, EthOrderbook!Complete, EthOrderbook!Next
<1>5. CASE Returns("eth")
  BY <1>5 DEF Returns, EthOrderbook!Return, EthOrderbook!Next, NoTaker, EthOrderbook!NoTaker
<1>6. CASE Cancels("eth")
  BY <1>6, EthOrderbookOperators DEF Cancels, EthOrderbook!CancelOrder, EthOrderbook!Next
<1>7. CASE Resets("eth")
  BY <1>7, EthOrderbookOperators DEF Resets, EthOrderbook!Reset, EthOrderbook!Next
<1> QED BY <1>1, <1>2, <1>3, <1>4, <1>5, <1>6, <1>7 DEF OnBook

LEMMA InitBooks == Init => SolOrderbook!Init /\ BtcOrderbook!Init /\ EthOrderbook!Init
<1> SUFFICES ASSUME Init PROVE SolOrderbook!Init /\ BtcOrderbook!Init /\ EthOrderbook!Init
  OBVIOUS
<1>1. \A a \in Listed : /\ books[a] = NewBook /\ PhaseOf(a) = "idle"
                        /\ TakerAt(a) = NoTaker /\ ResultsOf(a) = <<>>
  BY DEF Init, PhaseOf, TakerAt, ResultsOf, Called
<1>2. "sol" \in Listed /\ "btc" \in Listed /\ "eth" \in Listed
  BY DEF Listed
<1> QED BY <1>1, <1>2, SolOrderbookOperators, BtcOrderbookOperators, EthOrderbookOperators
         DEF SolOrderbook!Init, BtcOrderbook!Init, EthOrderbook!Init, NoTaker,
              SolOrderbook!NoTaker, BtcOrderbook!NoTaker, EthOrderbook!NoTaker

\* The engine uses each of its books as Orderbook allows: every call starts
\* with a fresh id and a validated price and quantity and is run to its end, so
\* the expect() of handle_order never fail (order.rs 78-80, 226-228, 327-329),
\* and all that is proved of Orderbook holds of the three books.
THEOREM BooksKeepTheirContract == Spec => BooksAreOrderbooks
<1>1. EngineInv /\ PricesInv /\ [Next]_vars => PricesInv'
  <2>1. "sol" \in Listed
    BY DEF Listed
  <2> QED BY <2>1, StepOnBook
<1>2. Spec => [](EngineInv /\ PricesInv)
  BY <1>1, InitPrices, EngineInvariance, PTL DEF Spec
<1>3. EngineInv /\ PricesInv /\ [Next]_vars =>
        [/\ UNCHANGED SolOrderbook!vars \/ SolOrderbook!Next
         /\ UNCHANGED BtcOrderbook!vars \/ BtcOrderbook!Next
         /\ UNCHANGED EthOrderbook!vars \/ EthOrderbook!Next]_vars
  <2> SUFFICES ASSUME EngineInv, PricesInv, [Next]_vars
               PROVE  /\ UNCHANGED SolOrderbook!vars \/ SolOrderbook!Next
                      /\ UNCHANGED BtcOrderbook!vars \/ BtcOrderbook!Next
                      /\ UNCHANGED EthOrderbook!vars \/ EthOrderbook!Next
    OBVIOUS
  <2>1. "sol" \in Listed /\ "btc" \in Listed /\ "eth" \in Listed
    BY DEF Listed
  <2>2. OnBook("sol") /\ OnBook("btc") /\ OnBook("eth")
    BY <2>1, StepOnBook
  <2> QED BY <2>2, SolSteps, BtcSteps, EthSteps
<1> QED BY <1>2, <1>3, InitBooks, PTL DEF Spec, BooksAreOrderbooks

-----------------------------------------------------------------------------
\* The depth that is published.

\* The prices of P that are served before p.
Before(side, P, p) == {q \in P : Better(side, q, p)}

\* The prices of P with fewer than k before them.
Foremost(side, P, k) == {p \in P : Cardinality(Before(side, P, p)) < k}

\* The prices with fewer than k before them are the best k, or all if there are
\* no more than k.
LEMMA BestOnes ==
  ASSUME NEW P \in SUBSET Nat, IsFiniteSet(P), NEW side \in Sides, NEW k \in Nat,
         NEW T, T = Foremost(side, P, k)
  PROVE  /\ Cardinality(T) <= k
         /\ \A p \in P \ T : Cardinality(T) = k /\ \A q \in T : Better(side, q, p)
<1>1. ASSUME NEW p \in P
      PROVE  /\ IsFiniteSet(Before(side, P, p)) /\ Cardinality(Before(side, P, p)) \in Nat
             /\ Before(side, P, p) \in SUBSET P
  <2>1. Before(side, P, p) \in SUBSET P
    BY DEF Before
  <2> QED BY <2>1, FS_Subset, FS_CardinalityType
<1>2. T \in SUBSET P /\ IsFiniteSet(T) /\ Cardinality(T) \in Nat
  <2>1. T \in SUBSET P
    BY DEF Foremost
  <2> QED BY <2>1, FS_Subset, FS_CardinalityType
<1>3. Cardinality(T) <= k
  <2>1. CASE T = {}
    BY <2>1, FS_EmptySet
  <2>2. CASE T # {}
    <3>1. PICK l : l = LastServed(side, T)
      OBVIOUS
    <3>2. T \in SUBSET Nat
      BY <1>2
    <3>3. l \in T /\ \A q \in T : ~Better(side, l, q)
      BY <1>2, <2>2, <3>1, <3>2, LastServedIsLast
    <3>4. PICK B : B = Before(side, P, l)
      OBVIOUS
    <3>5. IsFiniteSet(B) /\ Cardinality(B) \in Nat /\ Cardinality(B) < k
      BY <1>1, <1>2, <3>3, <3>4 DEF Foremost
    <3>6. T \in SUBSET (B \cup {l})
      <4> SUFFICES ASSUME NEW q \in T, q # l PROVE q \in B
        OBVIOUS
      <4>1. q \in Nat /\ l \in Nat /\ q \in P
        BY <1>2, <3>3
      <4>2. Better(side, q, l)
        BY <3>3, <4>1 DEF Better
      <4> QED BY <3>4, <4>1, <4>2 DEF Before
    <3>7. IsFiniteSet(B \cup {l}) /\ Cardinality(B \cup {l}) <= Cardinality(B) + 1
      <4>1. /\ IsFiniteSet(B \cup {l})
            /\ \/ Cardinality(B \cup {l}) = Cardinality(B)
               \/ Cardinality(B \cup {l}) = Cardinality(B) + 1
        BY <3>5, FS_AddElement, Zenon
      <4>2. PICK m : m = Cardinality(B \cup {l})
        OBVIOUS
      <4>3. PICK n : n = Cardinality(B)
        OBVIOUS
      <4>4. n \in Nat /\ (m = n \/ m = n + 1)
        BY <3>5, <4>1, <4>2, <4>3
      <4>5. m <= n + 1
        BY <4>4
      <4> QED BY <4>1, <4>2, <4>3, <4>5
    <3>8. Cardinality(B \cup {l}) \in Nat
      BY <3>7, FS_CardinalityType
    <3>9. Cardinality(T) <= Cardinality(B \cup {l})
      BY <3>6, <3>7, FS_Subset
    <3> QED BY <1>2, <3>5, <3>7, <3>8, <3>9
  <2> QED BY <2>1, <2>2
<1>4. ASSUME NEW p \in P \ T, NEW q \in T PROVE Better(side, q, p)
  <2> SUFFICES ASSUME ~Better(side, q, p) PROVE FALSE
    OBVIOUS
  <2>1. p \in Nat /\ q \in Nat /\ p # q /\ p \in P /\ q \in P
    BY <1>2
  <2>2. Better(side, p, q)
    BY <2>1 DEF Better
  <2>3. Before(side, P, p) \in SUBSET Before(side, P, q)
    <3> SUFFICES ASSUME NEW x \in P, Better(side, x, p) PROVE Better(side, x, q)
      BY DEF Before
    <3>1. x \in Nat
      OBVIOUS
    <3> QED BY <2>1, <2>2, <3>1 DEF Better
  <2>4. Cardinality(Before(side, P, p)) <= Cardinality(Before(side, P, q))
    BY <1>1, <2>1, <2>3, FS_Subset
  <2>5. Cardinality(Before(side, P, q)) < k /\ ~(Cardinality(Before(side, P, p)) < k)
    BY <2>1 DEF Foremost
  <2>6. Cardinality(Before(side, P, p)) \in Nat /\ Cardinality(Before(side, P, q)) \in Nat
    BY <1>1, <2>1
  <2> QED BY <2>4, <2>5, <2>6
<1>5. ASSUME P \ T # {} PROVE Cardinality(T) = k
  <2>1. PICK l : l = LastServed(Opposite(side), P \ T)
    OBVIOUS
  <2>2. Opposite(side) \in Sides /\ P \ T \in SUBSET Nat /\ IsFiniteSet(P \ T)
    <3>1. P \ T \in SUBSET P
      OBVIOUS
    <3> QED BY <3>1, FS_Subset DEF Opposite, Sides
  <2>3. l \in P \ T /\ \A q \in P \ T : ~Better(Opposite(side), l, q)
    BY <1>5, <2>1, <2>2, LastServedIsLast
  <2>4. Before(side, P, l) \in SUBSET T
    <3> SUFFICES ASSUME NEW q \in P, Better(side, q, l), q \notin T PROVE FALSE
      BY DEF Before
    <3>1. q \in Nat /\ l \in Nat /\ ~Better(Opposite(side), l, q)
      BY <2>3
    <3> QED BY <3>1 DEF Better, Opposite, Sides
  <2>5. Cardinality(Before(side, P, l)) <= Cardinality(T)
    BY <1>2, <2>4, FS_Subset
  <2>6. Cardinality(Before(side, P, l)) \in Nat /\ ~(Cardinality(Before(side, P, l)) < k)
    BY <1>1, <2>3 DEF Foremost
  <2> QED BY <1>2, <1>3, <2>5, <2>6
<1> QED BY <1>3, <1>4, <1>5

\* d tells the best levels of a side of b, each with the total of its orders.
DepthRight(b, s, d) ==
  LET prices == {p \in {b.orders[id].price : id \in DOMAIN b.orders} : OrdersAt(b, s, p) # {}}
  IN  /\ DOMAIN d \subseteq prices
      /\ Cardinality(DOMAIN d) <= DepthLevels
      /\ \A p \in prices \ DOMAIN d :
           /\ Cardinality(DOMAIN d) = DepthLevels
           /\ \A q \in DOMAIN d : Better(s, q, p)
      /\ \A p \in DOMAIN d :
           d[p] = SumFunction([id \in OrdersAt(b, s, p) |-> b.orders[id].remaining_qty])

\* What DepthUpdated carries of a well-formed book.
LEMMA TopLevelsRight ==
  ASSUME NEW b, NEW U, WellFormed(b, U), NEW s \in Sides, NEW d, d = TopLevels(b, s)
  PROVE  DepthRight(b, s, d)
<1>1. PICK P : P = DOMAIN b.levels[s]
  OBVIOUS
<1>2. P \in SUBSET Nat /\ IsFiniteSet(P) /\ DepthLevels \in Nat
  <2>1. IsFiniteSet(P)
    BY <1>1, LevelsFinite DEF WellFormed
  <2> QED BY <1>1, <2>1, BoundsAssumption DEF WellFormed, BookType
<1>3. DOMAIN Depth(b, s) = P
  BY <1>1 DEF Depth
<1>4. PICK T : T = Foremost(s, P, DepthLevels)
  OBVIOUS
<1>5. d = [p \in T |-> Depth(b, s)[p]]
  BY <1>3, <1>4 DEF TopLevels, Before, Foremost
<1>6. /\ Cardinality(T) <= DepthLevels
      /\ \A p \in P \ T : Cardinality(T) = DepthLevels /\ \A q \in T : Better(s, q, p)
  BY <1>2, <1>4, BestOnes
<1>7. T \in SUBSET P /\ DOMAIN d = T
  BY <1>4, <1>5 DEF Foremost
<1>8. P = {p \in {b.orders[id].price : id \in DOMAIN b.orders} : OrdersAt(b, s, p) # {}}
  BY <1>1, LevelsArePrices
<1>9. \A p \in P :
        Depth(b, s)[p] = SumFunction([id \in OrdersAt(b, s, p) |-> b.orders[id].remaining_qty])
  BY <1>1, DepthAddsUp
<1>10. \A p \in T : d[p] = Depth(b, s)[p]
  BY <1>5
<1>11. \A p \in DOMAIN d :
        d[p] = SumFunction([id \in OrdersAt(b, s, p) |-> b.orders[id].remaining_qty])
  BY <1>7, <1>9, <1>10, Zenon
<1>12. /\ DOMAIN d \subseteq P /\ Cardinality(DOMAIN d) <= DepthLevels
       /\ \A p \in P \ DOMAIN d :
            /\ Cardinality(DOMAIN d) = DepthLevels
            /\ \A q \in DOMAIN d : Better(s, q, p)
  BY <1>6, <1>7, Zenon
<1> QED BY <1>8, <1>11, <1>12, Zenon DEF DepthRight

\* What was last published of the market of a call is its book's depth.
DepthCurrent ==
  /\ depth = [a \in Listed |-> depth[a]]
  /\ phase = "replied" /\ call.asset # "none" =>
       call.asset \in Listed /\ depth[call.asset] = DepthOf(books[call.asset])

LEMMA DepthCurrentStep ==
  ASSUME EngineInv, DepthCurrent, [Next]_vars
  PROVE  DepthCurrent'
<1>1. CASE UNCHANGED vars
  BY <1>1 DEF DepthCurrent, vars, DepthOf, TopLevels
<1>2. ASSUME NEW user \in Users, NEW r \in Requests, OrderRefused(user, r) PROVE DepthCurrent'
  BY <1>2 DEF OrderRefused, NoCall, DepthCurrent
<1>3. ASSUME NEW user \in Users, NEW r \in Requests, HandleOrder(user, r) PROVE DepthCurrent'
  BY <1>3 DEF HandleOrder, DepthCurrent
<1>4. CASE MatchStep \/ Complete \/ SettleFill \/ Return
  BY <1>4 DEF MatchStep, Complete, SettleFill, Return, DepthCurrent
<1>5. CASE Reconcile
  <2>1. call.asset \in Listed /\ call \in Calls
    BY <1>5 DEF Reconcile, EngineInv, CallInv, InCall
  <2>2. /\ books' = books /\ call'.asset = call.asset
        /\ depth' = [depth EXCEPT ![call.asset] = DepthOf(books[call.asset])]
    BY <1>5, <2>1 DEF Reconcile, Calls
  <2>3. DepthOf(books'[call'.asset]) = DepthOf(books[call.asset])
    BY <2>2
  <2>4. depth' = [a \in Listed |-> depth'[a]] /\ depth'[call'.asset] = DepthOf(books[call.asset])
    BY <2>1, <2>2 DEF DepthCurrent
  <2> QED BY <2>1, <2>2, <2>3, <2>4 DEF DepthCurrent, DepthOf, TopLevels
<1>6. ASSUME NEW user \in Users, NEW id \in 1..MaxOrderId, HandleCancel(user, id)
      PROVE  DepthCurrent'
  <2>1. PICK i \in DOMAIN Markets :
          /\ depth' = [depth EXCEPT ![Markets[i]] = DepthOf(books'[Markets[i]])]
          /\ call' = [NoCall EXCEPT !.asset = Markets[i], !.status = "cancelled"]
    BY <1>6 DEF HandleCancel
  <2>2. PICK a \in Listed : a = Markets[i]
    BY DEF Markets, Listed
  <2>3. call'.asset = a
    BY <2>1, <2>2 DEF NoCall
  <2>4. depth' = [c \in Listed |-> depth'[c]] /\ depth'[a] = DepthOf(books'[a])
    BY <2>1, <2>2 DEF DepthCurrent
  <2> QED BY <2>3, <2>4 DEF DepthCurrent, DepthOf, TopLevels
<1>7. ASSUME NEW user \in Users, NEW id \in 1..MaxOrderId, CancelRefused(user, id)
      PROVE  DepthCurrent'
  BY <1>7 DEF CancelRefused, NoCall, DepthCurrent
<1>8. ASSUME NEW user \in Users, NEW amount \in OnrampAmounts, HandleOnramp(user, amount)
      PROVE  DepthCurrent'
  BY <1>8 DEF HandleOnramp, DepthCurrent
<1>9. ASSUME NEW user \in Users, NEW asset \in Symbols \cap Listed, NEW amount \in DepositAmounts,
             HandleDeposit(user, asset, amount)
      PROVE  DepthCurrent'
  BY <1>9 DEF HandleDeposit, DepthCurrent
<1>10. CASE HandleReset
  BY <1>10 DEF HandleReset, DepthCurrent
<1> QED BY <1>1, <1>2, <1>3, <1>4, <1>5, <1>6, <1>7, <1>8, <1>9, <1>10 DEF Next

\* When the handler of an order or a cancellation is done (order.rs, which
\* replies before it), the last DepthUpdated of its market carries the best
\* levels, as many as there may be, and each with the total of its open orders,
\* for any book and any number of levels.
THEOREM DepthAlwaysRight == Spec => []DepthPublished
<1>1. Init => DepthCurrent
  BY DEF Init, DepthCurrent
<1>2. EngineInv /\ DepthCurrent => DepthPublished
  <2> SUFFICES ASSUME EngineInv, DepthCurrent, phase = "replied", call.asset # "none"
               PROVE  DepthPublished
    BY DEF DepthPublished
  <2>1. WellFormed(books[call.asset], Users) /\ depth[call.asset] = DepthOf(books[call.asset])
    BY DEF EngineInv, BooksInv, DepthCurrent
  <2>2. ASSUME NEW s \in Sides
        PROVE  DepthRight(books[call.asset], s, depth[call.asset][s])
    <3>1. PICK b : b = books[call.asset]
      OBVIOUS
    <3>2. PICK d : d = depth[call.asset][s]
      OBVIOUS
    <3>3. WellFormed(b, Users) /\ d = TopLevels(b, s)
      BY <2>1, <3>1, <3>2 DEF DepthOf
    <3>4. DepthRight(b, s, d)
      BY <3>3, TopLevelsRight
    <3> QED BY <3>1, <3>2, <3>4
  <2> QED BY <2>2, Zenon DEF DepthPublished, DepthRight, OrdersAt
<1> QED BY <1>1, <1>2, DepthCurrentStep, EngineInvariance, PTL DEF Spec

-----------------------------------------------------------------------------
\* What is locked.  The lock of a bid is computed once, from the limit (or the
\* quote) and the higher fee; the trades take from it one by one, each with its own
\* fee rounded down, a cancellation takes back what rests, and a fill of a resting
\* bid may leave a unit behind.  The invariant accounts for every unit between any
\* two trades: locked is what the open orders need, what the call under way has
\* still to pay or deliver, and the dust of the fills so far.

\* The fee of bps on an amount, when no product wraps.
Share(amount, bps) == (amount * bps) \div 10000

LEMMA ProductFacts ==
  ASSUME NEW a \in Nat, NEW b \in Nat, NEW c \in Nat
  PROVE  /\ a * b \in Nat
         /\ a * (b + c) = a * b + a * c
         /\ (b + c) * a = b * a + c * a
         /\ b <= c => a * b <= a * c /\ b * a <= c * a
<1>1. a * b \in Nat /\ a * (b + c) = a * b + a * c /\ (b + c) * a = b * a + c * a
  OBVIOUS
<1>2. ASSUME b <= c PROVE a * b <= a * c /\ b * a <= c * a
  <2>1. PICK d \in Nat : c = b + d
    <3>1. c - b \in Nat /\ c = b + (c - b)
      BY <1>2
    <3> QED BY <3>1
  <2>2. a * c = a * b + a * d /\ a * d \in Nat /\ a * b \in Nat
    BY <2>1
  <2>3. c * a = b * a + d * a /\ d * a \in Nat /\ b * a \in Nat
    BY <2>1
  <2> QED BY <2>2, <2>3
<1> QED BY <1>1, <1>2

LEMMA TenthsFacts ==
  ASSUME NEW x \in Nat, NEW y \in Nat
  PROVE  /\ x \div 10000 \in Nat
         /\ x \div 10000 + y \div 10000 <= (x + y) \div 10000
         /\ (x + y) \div 10000 <= x \div 10000 + y \div 10000 + 1
         /\ x <= y => x \div 10000 <= y \div 10000
         /\ 0 \div 10000 = 0
OBVIOUS

\* Fees on parts add up to no more than the fee on the whole, and to one less
\* at most.
LEMMA ShareFacts ==
  ASSUME NEW x \in Nat, NEW y \in Nat, NEW bps \in Nat
  PROVE  /\ Share(x, bps) \in Nat
         /\ Share(0, bps) = 0 /\ Share(x, 0) = 0
         /\ Share(x, bps) + Share(y, bps) <= Share(x + y, bps)
         /\ Share(x + y, bps) <= Share(x, bps) + Share(y, bps) + 1
         /\ x <= y => Share(x, bps) <= Share(y, bps)
<1>1. x * bps \in Nat /\ y * bps \in Nat /\ (x + y) * bps = x * bps + y * bps
      /\ (x <= y => x * bps <= y * bps)
  BY ProductFacts
<1>2. 0 * bps = 0 /\ x * 0 = 0
  OBVIOUS
<1>3. PICK v \in Nat : v = x * bps
  BY <1>1
<1>4. PICK w \in Nat : w = y * bps
  BY <1>1
<1>5. Share(x, bps) = v \div 10000 /\ Share(y, bps) = w \div 10000
      /\ Share(x + y, bps) = (v + w) \div 10000
  BY <1>1, <1>3, <1>4 DEF Share
<1>6. Share(0, bps) = 0 /\ Share(x, 0) = 0
  BY <1>2, TenthsFacts DEF Share
<1> QED BY <1>1, <1>3, <1>4, <1>5, <1>6, TenthsFacts

LEMMA ShareOfRates ==
  ASSUME NEW x \in Nat, NEW bps \in Nat, NEW rate \in Nat, bps <= rate
  PROVE  Share(x, bps) <= Share(x, rate)
<1>1. x * bps \in Nat /\ x * rate \in Nat /\ x * bps <= x * rate
  BY ProductFacts
<1> QED BY <1>1, TenthsFacts DEF Share

\* An amount that a word holds, also times a rate and with the fee on it.
FitsWord(amount, fees) ==
  \A bps \in {fees.maker_fee_bps, fees.taker_fee_bps} :
    amount * bps < WordSize /\ amount + Share(amount, bps) < WordSize

\* No price times a quantity that is asked for wraps.
ProductsFit == \A p \in Prices, q \in Quantities, f \in FeeSchedules : FitsWord(p * q, f)

\* What the order o of u needs in locked, if it is of this side.
NeedOf(o, u, s, bps) ==
  IF o.user_id = u /\ o.side = s
  THEN IF s = "bid" THEN o.price * o.remaining_qty + Share(o.price * o.remaining_qty, bps)
       ELSE o.remaining_qty
  ELSE 0

\* What the open orders of u need.
NeedsOf(open, u, s, bps) ==
  SumFunctionOnSet([id \in DOMAIN open |-> NeedOf(open[id], u, s, bps)], DOMAIN open)

UsdNeeds(open, u, bps) ==
  SumFunctionOnSet([a \in Listed |-> NeedsOf(open[a], u, "bid", bps)], Listed)

\* What the trades from the n-th on add up to.
After(f, n) == SumFunctionOnSet(f, {k \in DOMAIN f : k > n})

\* The value of a trade, and what the buyer pays.
Value(trade) == trade.price * trade.qty
Price(trade, fees) ==
  Value(trade) + Share(Value(trade), IF trade.taker_side = "bid" THEN fees.taker_fee_bps
                                     ELSE fees.maker_fee_bps)

\* For each trade: what u pays, what u delivers, and whether a bid of u was filled.
PaidBy(trades, u, fees) ==
  [k \in 1..Len(trades) |-> IF trades[k].buyer = u THEN Price(trades[k], fees) ELSE 0]
SoldBy(trades, u) ==
  [k \in 1..Len(trades) |-> IF trades[k].seller = u THEN trades[k].qty ELSE 0]
FillsOf(trades, u) ==
  [k \in 1..Len(trades) |-> IF trades[k].buyer = u THEN 1 ELSE 0]

\* What the call under way has in the locked USD and in the locked units of u.
Escrow(u) ==
  IF ~InCall THEN 0
  ELSE IF taker.side = "ask" THEN After(PaidBy(results, u, fee_schedule), call.settled)
  ELSE IF taker.user_id = u THEN call.lock - call.spent - NeededLocked ELSE 0

Undelivered(u, a) ==
  IF ~InCall \/ a # call.asset THEN 0
  ELSE After(SoldBy(results, u), call.settled)
       + (IF taker.side = "ask" /\ taker.user_id = u /\ ~Rested THEN taker.remaining_qty ELSE 0)

\* The fills of resting bids of u that are not settled.
OpenFills(u) ==
  IF InCall /\ taker.side = "ask" THEN After(FillsOf(results, u), call.settled) ELSE 0

Dust(u) == usd[u].locked - UsdNeeds(OpenIn, u, fee_schedule.maker_fee_bps) - Escrow(u)

\* Nothing that rests, or is to be paid, wraps.
AmountsInv ==
  /\ \A a \in Listed : \A id \in DOMAIN books[a].orders :
       FitsWord(books[a].orders[id].price * books[a].orders[id].remaining_qty, fee_schedule)
  /\ InCall =>
       /\ taker.tif = "gtc" => FitsWord(taker.limit * taker.remaining_qty, fee_schedule)
       /\ \A k \in 1..Len(results) :
            /\ FitsWord(Value(results[k]), fee_schedule)
            /\ taker.side = "bid" => results[k].buyer = taker.user_id
            /\ taker.side = "ask" => results[k].seller = taker.user_id
  /\ phase = "settling" => (Rested <=> taker.tif = "gtc" /\ taker.remaining_qty > 0)

\* What a bid locked is enough: it is the cost of all that it may be filled with
\* and the higher fee on it, or, of a market order, of all that it will be filled
\* with.
BudgetInv ==
  InCall /\ taker.side = "bid" =>
    \E value, cost, rate \in Nat :
      /\ call.lock = cost + Share(cost, rate)
      /\ fee_schedule.taker_fee_bps <= rate
      /\ call.spent + After(PaidBy(results, taker.user_id, fee_schedule), call.settled)
           <= value + Share(value, fee_schedule.taker_fee_bps)
      /\ \/ /\ taker.limit \in Nat
            /\ fee_schedule.maker_fee_bps <= rate
            /\ value + taker.limit * taker.remaining_qty <= cost
         \/ /\ taker.tif = "ioc"
            /\ value + (IF phase = "matching"
                        THEN Sweep(books[call.asset], "ask", taker.limit, taker.remaining_qty).cost
                        ELSE 0) <= cost

\* What is locked is what the open orders and the call under way need.
LocksRight ==
  /\ \A u \in Users :
       /\ Dust(u) >= 0
       /\ Dust(u) <= IF fee_schedule.maker_fee_bps = 0 THEN 0 ELSE maker_fills[u] + OpenFills(u)
       /\ \A a \in Listed :
            stock[a][u].locked = NeedsOf(OpenIn[a], u, "ask", 0) + Undelivered(u, a)

\* Nothing available is ever negative, and the treasury locks nothing.
AvailableInv ==
  /\ BalancesType
  /\ maker_fills \in [Users -> Nat]
  /\ \A u \in Accounts :
       usd[u].available >= 0 /\ \A a \in Listed : stock[a][u].available >= 0
  /\ usd[Treasury].locked >= 0
  /\ \A a \in Listed : stock[a][Treasury].locked >= 0

LocksInv == AmountsInv /\ BudgetInv /\ LocksRight /\ AvailableInv

-----------------------------------------------------------------------------
\* The sums in it.

\* Zeros can be left out of a sum.
LEMMA SumOfPart ==
  ASSUME NEW T, IsFiniteSet(T), NEW S \in SUBSET T, NEW f,
         \A x \in T : f[x] \in Int, \A x \in T \ S : f[x] = 0
  PROVE  SumFunctionOnSet(f, T) = SumFunctionOnSet(f, S)
<1> DEFINE P == {v \in SUBSET T : SumFunctionOnSet(f, v) = SumFunctionOnSet(f, v \cap S)}
<1>1. ASSUME NEW v \in SUBSET T, \A x \in v : v \ {x} \in P PROVE v \in P
  <2>1. IsFiniteSet(v) /\ \A x \in v : f[x] \in Int
    BY FS_Subset
  <2>2. \A x \in v : SumFunctionOnSet(f, v) = f[x] + SumFunctionOnSet(f, v \ {x})
    BY <2>1, SumFacts
  <2>3. CASE v \subseteq S
    <3>1. v \cap S = v
      BY <2>3
    <3> QED BY <3>1
  <2>4. CASE ~(v \subseteq S)
    <3>1. PICK x \in v : x \notin S
      BY <2>4
    <3>2. f[x] = 0 /\ (v \ {x}) \cap S = v \cap S
      BY <3>1
    <3>3. SumFunctionOnSet(f, v \ {x}) = SumFunctionOnSet(f, v \cap S)
      BY <1>1, <3>1, <3>2
    <3>4. IsFiniteSet(v \ {x}) /\ \A y \in v \ {x} : f[y] \in Int
      BY <2>1, FS_Subset
    <3>5. SumFunctionOnSet(f, v \ {x}) \in Int
      BY <3>4, SumFacts
    <3>6. SumFunctionOnSet(f, v) = f[x] + SumFunctionOnSet(f, v \ {x})
      BY <2>2, <3>1
    <3>7. SumFunctionOnSet(f, v) = SumFunctionOnSet(f, v \cap S)
      BY <3>2, <3>3, <3>5, <3>6
    <3> QED BY <3>7
  <2> QED BY <2>3, <2>4
<1>2. \A v \in SUBSET T : v \in P
  <2> HIDE DEF P
  <2> QED BY <1>1, SubsetInduction
<1>3. T \cap S = S /\ T \in P
  BY <1>2
<1> QED BY <1>3

\* The trades that are left, when one is settled and when one is added.
LEMMA AfterFacts ==
  ASSUME NEW f \in Seq(Nat), NEW n \in 0..Len(f)
  PROVE  /\ After(f, n) \in Nat
         /\ n = Len(f) => After(f, n) = 0
         /\ n < Len(f) => f[n + 1] \in Nat /\ After(f, n) = f[n + 1] + After(f, n + 1)
<1>1. PICK S : S = {k \in DOMAIN f : k > n}
  OBVIOUS
<1>2. DOMAIN f = 1..Len(f) /\ Len(f) \in Nat /\ n \in Nat
  OBVIOUS
<1>3. IsFiniteSet(S) /\ \A k \in S : f[k] \in Nat /\ f[k] \in Int
  <2>1. IsFiniteSet(1..Len(f))
    BY <1>2, FS_Interval
  <2>2. S \in SUBSET (1..Len(f))
    BY <1>1, <1>2
  <2>3. IsFiniteSet(S)
    BY <2>1, <2>2, FS_Subset
  <2>4. \A k \in 1..Len(f) : f[k] \in Nat
    OBVIOUS
  <2> QED BY <2>2, <2>3, <2>4
<1>4. After(f, n) = SumFunctionOnSet(f, S)
  BY <1>1 DEF After
<1>5. SumFunctionOnSet(f, S) \in Nat
  BY <1>3, SumNat
<1>6. /\ S = {} => SumFunctionOnSet(f, S) = 0
      /\ \A x \in S : SumFunctionOnSet(f, S) = f[x] + SumFunctionOnSet(f, S \ {x})
  BY <1>3, SumFacts
<1>7. ASSUME n = Len(f) PROVE After(f, n) = 0
  <2>1. S = {}
    BY <1>1, <1>2, <1>7
  <2> QED BY <1>4, <1>6, <2>1
<1>8. ASSUME n < Len(f) PROVE f[n + 1] \in Nat /\ After(f, n) = f[n + 1] + After(f, n + 1)
  <2>1. n + 1 \in S
    BY <1>1, <1>2, <1>8
  <2>2. S \ {n + 1} = {k \in DOMAIN f : k > n + 1}
    BY <1>1, <1>2
  <2>3. After(f, n + 1) = SumFunctionOnSet(f, S \ {n + 1})
    BY <2>2 DEF After
  <2> QED BY <1>3, <1>4, <1>6, <2>1, <2>3
<1> QED BY <1>4, <1>5, <1>7, <1>8

LEMMA AfterAppend ==
  ASSUME NEW f \in Seq(Nat), NEW x \in Nat, NEW n \in 0..Len(f)
  PROVE  After(Append(f, x), n) = After(f, n) + x
<1>1. PICK g : g = Append(f, x)
  OBVIOUS
<1>2. /\ g \in Seq(Nat) /\ DOMAIN g = 1..(Len(f) + 1) /\ g[Len(f) + 1] = x
      /\ DOMAIN f = 1..Len(f) /\ \A k \in 1..Len(f) : g[k] = f[k]
      /\ Len(f) \in Nat /\ n \in Nat /\ n <= Len(f)
  BY <1>1
<1>3. PICK m : m = Len(f) + 1
  OBVIOUS
<1>4. PICK S : S = {k \in DOMAIN f : k > n}
  OBVIOUS
<1>5. PICK T : T = {k \in DOMAIN g : k > n}
  OBVIOUS
<1>6. m \in T /\ T \ {m} = S
  BY <1>2, <1>3, <1>4, <1>5
<1>7. IsFiniteSet(T) /\ IsFiniteSet(S)
  <2>1. IsFiniteSet(1..m)
    BY <1>2, <1>3, FS_Interval
  <2>2. T \in SUBSET (1..m) /\ S \in SUBSET (1..m)
    BY <1>2, <1>3, <1>5, <1>6
  <2> QED BY <2>1, <2>2, FS_Subset
<1>8. \A k \in T : g[k] \in Int
  BY <1>2, <1>5
<1>9. \A k \in S : f[k] \in Int /\ g[k] = f[k]
  BY <1>2, <1>4
<1>10. SumFunctionOnSet(g, T) = g[m] + SumFunctionOnSet(g, T \ {m})
  BY <1>6, <1>7, <1>8, SumFacts
<1>11. SumFunctionOnSet(g, S) = SumFunctionOnSet(f, S) /\ SumFunctionOnSet(f, S) \in Int
  BY <1>7, <1>9, SumSame, SumFacts
<1>12. After(g, n) = SumFunctionOnSet(g, T) /\ After(f, n) = SumFunctionOnSet(f, S)
  BY <1>4, <1>5 DEF After
<1>13. g[m] = x /\ SumFunctionOnSet(g, T \ {m}) = SumFunctionOnSet(f, S)
  BY <1>2, <1>3, <1>6, <1>11
<1>14. After(g, n) = x + After(f, n) /\ After(f, n) \in Int
  BY <1>10, <1>11, <1>12, <1>13
<1>15. After(g, n) = After(f, n) + x
  BY <1>14
<1> QED BY <1>1, <1>15

\* What an order needs is a number.
LEMMA NeedOfType ==
  ASSUME NEW o \in Orders(Users), NEW u, NEW s, NEW bps \in Nat
  PROVE  NeedOf(o, u, s, bps) \in Nat
<1>1. o.price \in Nat /\ o.remaining_qty \in Nat
  BY DEF Orders
<1>2. PICK c \in Nat : c = o.price * o.remaining_qty
  BY <1>1, ProductFacts
<1>3. Share(c, bps) \in Nat
  BY ShareFacts
<1> QED BY <1>1, <1>2, <1>3 DEF NeedOf

\* A finite map of orders.
OpenType(open) == IsFiniteSet(DOMAIN open) /\ \A id \in DOMAIN open : open[id] \in Orders(Users)

NeedAt(open, id, u, s, bps) == IF id \in DOMAIN open THEN NeedOf(open[id], u, s, bps) ELSE 0

LEMMA NeedsType ==
  ASSUME NEW open, OpenType(open), NEW u, NEW s, NEW bps \in Nat
  PROVE  NeedsOf(open, u, s, bps) \in Nat
<1>1. PICK f : f = [id \in DOMAIN open |-> NeedOf(open[id], u, s, bps)]
  OBVIOUS
<1>2. \A id \in DOMAIN open : f[id] \in Nat
  BY <1>1, NeedOfType DEF OpenType
<1>3. SumFunctionOnSet(f, DOMAIN open) \in Nat
  BY <1>2, SumNat DEF OpenType
<1> QED BY <1>1, <1>3 DEF NeedsOf

\* One order changed, came or went.
OneChanged(before, after, m) ==
  /\ DOMAIN after \ {m} = DOMAIN before \ {m}
  /\ \A id \in DOMAIN before \ {m} : after[id] = before[id]

LEMMA NeedsChange ==
  ASSUME NEW before, NEW after, OpenType(before), OpenType(after), NEW m,
         OneChanged(before, after, m), NEW u, NEW s, NEW bps \in Nat
  PROVE  NeedsOf(after, u, s, bps) =
           NeedsOf(before, u, s, bps) - NeedAt(before, m, u, s, bps) + NeedAt(after, m, u, s, bps)
<1>1. PICK f : f = [id \in DOMAIN before |-> NeedOf(before[id], u, s, bps)]
  OBVIOUS
<1>2. PICK g : g = [id \in DOMAIN after |-> NeedOf(after[id], u, s, bps)]
  OBVIOUS
<1>3. PICK S : S = DOMAIN before
  OBVIOUS
<1>4. PICK T : T = DOMAIN after
  OBVIOUS
<1>5. PICK R : R = S \ {m}
  OBVIOUS
<1>6. IsFiniteSet(S) /\ IsFiniteSet(T) /\ IsFiniteSet(R) /\ T \ {m} = R
  BY <1>3, <1>4, <1>5, FS_Subset DEF OpenType, OneChanged
<1>7. (\A x \in S : f[x] \in Int) /\ (\A x \in T : g[x] \in Int)
  BY <1>1, <1>2, <1>3, <1>4, NeedOfType DEF OpenType
<1>8. \A x \in R : f[x] \in Int /\ g[x] = f[x]
  BY <1>1, <1>2, <1>3, <1>4, <1>5, <1>6, <1>7 DEF OneChanged
<1>9. SumFunctionOnSet(g, R) = SumFunctionOnSet(f, R) /\ SumFunctionOnSet(f, R) \in Int
  BY <1>6, <1>8, SumSame, SumFacts
<1>10. SumFunctionOnSet(f, S) = SumFunctionOnSet(f, R) + NeedAt(before, m, u, s, bps)
  <2>1. CASE m \in S
    <3>1. SumFunctionOnSet(f, S) = f[m] + SumFunctionOnSet(f, S \ {m})
      BY <1>6, <1>7, <2>1, SumFacts
    <3>2. f[m] \in Int /\ f[m] = NeedAt(before, m, u, s, bps)
      BY <1>1, <1>3, <1>7, <2>1 DEF NeedAt
    <3> QED BY <1>5, <1>9, <3>1, <3>2
  <2>2. CASE m \notin S
    <3>1. R = S /\ NeedAt(before, m, u, s, bps) = 0
      BY <1>3, <1>5, <2>2 DEF NeedAt
    <3> QED BY <1>9, <3>1
  <2> QED BY <2>1, <2>2
<1>11. SumFunctionOnSet(g, T) = SumFunctionOnSet(g, R) + NeedAt(after, m, u, s, bps)
  <2>1. CASE m \in T
    <3>1. SumFunctionOnSet(g, T) = g[m] + SumFunctionOnSet(g, T \ {m})
      BY <1>6, <1>7, <2>1, SumFacts
    <3>2. g[m] \in Int /\ g[m] = NeedAt(after, m, u, s, bps)
      BY <1>2, <1>4, <1>7, <2>1 DEF NeedAt
    <3>3. SumFunctionOnSet(g, T \ {m}) = SumFunctionOnSet(g, R)
      BY <1>6
    <3>4. SumFunctionOnSet(g, R) \in Int
      BY <1>9
    <3> QED BY <3>1, <3>2, <3>3, <3>4
  <2>2. CASE m \notin T
    <3>1. R = T /\ NeedAt(after, m, u, s, bps) = 0
      BY <1>4, <1>6, <2>2 DEF NeedAt
    <3> QED BY <1>9, <3>1
  <2> QED BY <2>1, <2>2
<1>12. NeedAt(before, m, u, s, bps) \in Int /\ NeedAt(after, m, u, s, bps) \in Int
  BY NeedOfType DEF NeedAt, OpenType
<1>13. NeedsOf(before, u, s, bps) = SumFunctionOnSet(f, S)
       /\ NeedsOf(after, u, s, bps) = SumFunctionOnSet(g, T)
  BY <1>1, <1>2, <1>3, <1>4 DEF NeedsOf
<1> QED BY <1>9, <1>10, <1>11, <1>12, <1>13

\* The open orders of all books.
OpensType(open) == DOMAIN open = Listed /\ \A a \in Listed : OpenType(open[a])

LEMMA OpenInType == EngineInv => OpensType(OpenIn)
<1>1. SUFFICES ASSUME EngineInv, NEW a \in Listed PROVE OpenType(OpenIn[a])
  BY OpenInIs DEF OpensType
<1>2. BookType(books[a], Users)
  BY <1>1 DEF EngineInv, BooksInv, WellFormed
<1>3. OpenIn[a] = books[a].orders
  BY OpenInIs
<1>4. IsFiniteSet(1..(books[a].next_order_id - 1))
  BY <1>2, FS_Interval DEF BookType
<1>5. IsFiniteSet(DOMAIN books[a].orders)
  BY <1>2, <1>4, FS_Subset DEF BookType
<1>6. \A id \in DOMAIN books[a].orders : books[a].orders[id] \in Orders(Users)
  BY <1>2 DEF BookType
<1> QED BY <1>3, <1>5, <1>6 DEF OpenType

LEMMA ListedFinite == IsFiniteSet(Listed)
<1>1. IsFiniteSet({"sol"})
  BY FS_Singleton
<1>2. IsFiniteSet({"sol"} \cup {"btc"})
  BY <1>1, FS_AddElement
<1>3. IsFiniteSet(({"sol"} \cup {"btc"}) \cup {"eth"})
  BY <1>2, FS_AddElement
<1>4. Listed = ({"sol"} \cup {"btc"}) \cup {"eth"}
  BY DEF Listed
<1> QED BY <1>3, <1>4

LEMMA UsdNeedsType ==
  ASSUME NEW open, OpensType(open), NEW u, NEW bps \in Nat
  PROVE  UsdNeeds(open, u, bps) \in Nat
<1>1. PICK f : f = [a \in Listed |-> NeedsOf(open[a], u, "bid", bps)]
  OBVIOUS
<1>2. \A a \in Listed : f[a] \in Nat
  BY <1>1, NeedsType DEF OpensType
<1>3. SumFunctionOnSet(f, Listed) \in Nat
  BY <1>2, ListedFinite, SumNat
<1> QED BY <1>1, <1>3 DEF UsdNeeds

\* One order of the book of a changed, came or went.
BookChanged(open, next, a, after, m) ==
  /\ OpensType(open) /\ a \in Listed
  /\ OpenType(after) /\ OneChanged(open[a], after, m)
  /\ next = [open EXCEPT ![a] = after]

LEMMA AllNeedsChange ==
  ASSUME NEW open, NEW next, NEW a, NEW after, NEW m, BookChanged(open, next, a, after, m),
         NEW u, NEW bps \in Nat
  PROVE  /\ UsdNeeds(next, u, bps) = UsdNeeds(open, u, bps)
              - NeedAt(open[a], m, u, "bid", bps) + NeedAt(after, m, u, "bid", bps)
         /\ \A c \in Listed : NeedsOf(next[c], u, "ask", 0) = NeedsOf(open[c], u, "ask", 0)
              - (IF c = a THEN NeedAt(open[a], m, u, "ask", 0) ELSE 0)
              + (IF c = a THEN NeedAt(after, m, u, "ask", 0) ELSE 0)
         /\ OpensType(next)
<1> USE DEF BookChanged
<1>1. OpenType(open[a]) /\ DOMAIN open = Listed
  BY DEF OpensType
<1>2. next[a] = after /\ \A c \in Listed \ {a} : next[c] = open[c]
  BY <1>1
<1>3. PICK f : f = [c \in Listed |-> NeedsOf(open[c], u, "bid", bps)]
  OBVIOUS
<1>4. PICK g : g = [c \in Listed |-> NeedsOf(next[c], u, "bid", bps)]
  OBVIOUS
<1>5. OpensType(next)
  BY <1>1, <1>2 DEF OpensType
<1>6. /\ \A c \in Listed : f[c] \in Int
      /\ \A c \in Listed : g[c] \in Int
  BY <1>3, <1>4, <1>5, NeedsType DEF OpensType
<1>7. \A c \in Listed \ {a} : g[c] = f[c]
  BY <1>2, <1>3, <1>4
<1>8. /\ SumFunctionOnSet(g, Listed) = SumFunctionOnSet(f, Listed) - f[a] + g[a]
      /\ SumFunctionOnSet(f, Listed) \in Int
  <2>1. g[a] \in Int
    BY <1>6
  <2>2. SumFunctionOnSet(g, Listed) = SumFunctionOnSet(f, Listed) - f[a] + g[a]
    BY <1>6, <1>7, <2>1, ListedFinite, SumChange
  <2>3. SumFunctionOnSet(f, Listed) \in Int
    BY <1>6, ListedFinite, SumFacts
  <2> QED BY <2>2, <2>3
<1>9. g[a] = f[a] - NeedAt(open[a], m, u, "bid", bps) + NeedAt(after, m, u, "bid", bps)
  <2>1. NeedsOf(after, u, "bid", bps) = NeedsOf(open[a], u, "bid", bps)
          - NeedAt(open[a], m, u, "bid", bps) + NeedAt(after, m, u, "bid", bps)
    BY <1>1, NeedsChange
  <2> QED BY <1>2, <1>3, <1>4, <2>1
<1>10. \A s \in Sides, b \in {0, bps} :
         NeedAt(open[a], m, u, s, b) \in Nat /\ NeedAt(after, m, u, s, b) \in Nat
  BY <1>1, NeedOfType DEF NeedAt, OpenType
<1>11. UsdNeeds(open, u, bps) = SumFunctionOnSet(f, Listed)
       /\ UsdNeeds(next, u, bps) = SumFunctionOnSet(g, Listed)
  BY <1>3, <1>4 DEF UsdNeeds
<1>12. UsdNeeds(next, u, bps) = UsdNeeds(open, u, bps)
         - NeedAt(open[a], m, u, "bid", bps) + NeedAt(after, m, u, "bid", bps)
  BY <1>6, <1>8, <1>9, <1>10, <1>11 DEF Sides
<1>13. ASSUME NEW c \in Listed
       PROVE  NeedsOf(next[c], u, "ask", 0) = NeedsOf(open[c], u, "ask", 0)
                - (IF c = a THEN NeedAt(open[a], m, u, "ask", 0) ELSE 0)
                + (IF c = a THEN NeedAt(after, m, u, "ask", 0) ELSE 0)
  <2>1. NeedsOf(open[c], u, "ask", 0) \in Nat
    BY NeedsType DEF OpensType
  <2>2. CASE c = a
    <3>1. NeedsOf(after, u, "ask", 0) = NeedsOf(open[a], u, "ask", 0)
            - NeedAt(open[a], m, u, "ask", 0) + NeedAt(after, m, u, "ask", 0)
      BY <1>1, NeedsChange
    <3> QED BY <1>2, <2>2, <3>1
  <2>3. CASE c # a
    BY <1>2, <2>1, <2>3
  <2> QED BY <2>2, <2>3
<1> QED BY <1>5, <1>12, <1>13

\* Numbers that a word holds.
LEMMA WrapSmall ==
  ASSUME NEW n \in Nat, n < WordSize
  PROVE  Wrap(n) = n
BY BoundsAssumption DEF Wrap

LEMMA FitsFacts ==
  ASSUME NEW f \in FeeSchedules, NEW c \in Nat, FitsWord(c, f)
  PROVE  /\ c < WordSize /\ Wrap(c) = c
         /\ \A bps \in {f.maker_fee_bps, f.taker_fee_bps} :
              /\ bps \in Nat /\ Share(c, bps) \in Nat
              /\ Fee(c, bps) = Share(c, bps)
              /\ Wrap(c + Share(c, bps)) = c + Share(c, bps)
<1>1. ASSUME NEW bps \in {f.maker_fee_bps, f.taker_fee_bps}
      PROVE  /\ bps \in Nat /\ Share(c, bps) \in Nat
             /\ Fee(c, bps) = Share(c, bps)
             /\ c < WordSize
             /\ Wrap(c + Share(c, bps)) = c + Share(c, bps)
  <2>1. bps \in Nat
    BY FeesAssumption
  <2>2. Share(c, bps) \in Nat /\ c * bps \in Nat
    BY <2>1, ShareFacts, ProductFacts
  <2>3. c * bps < WordSize /\ c + Share(c, bps) < WordSize
    BY DEF FitsWord
  <2>4. Fee(c, bps) = Share(c, bps)
    BY <2>2, <2>3, WrapSmall DEF Fee, Share
  <2>5. c + Share(c, bps) \in Nat /\ WordSize \in Nat
    BY <2>2, BoundsAssumption
  <2>6. Wrap(c + Share(c, bps)) = c + Share(c, bps)
    BY <2>3, <2>5, WrapSmall
  <2>7. c < WordSize
    BY <2>2, <2>3, <2>5
  <2> QED BY <2>1, <2>2, <2>4, <2>6, <2>7
<1>2. c < WordSize /\ Wrap(c) = c
  <2>1. c < WordSize
    BY <1>1
  <2> QED BY <2>1, WrapSmall
<1> QED BY <1>1, <1>2

LEMMA FitsLess ==
  ASSUME NEW f \in FeeSchedules, NEW c \in Nat, FitsWord(c, f), NEW d \in Nat, d <= c
  PROVE  FitsWord(d, f)
<1>1. SUFFICES ASSUME NEW bps \in {f.maker_fee_bps, f.taker_fee_bps}
               PROVE  d * bps < WordSize /\ d + Share(d, bps) < WordSize
  BY DEF FitsWord
<1>2. bps \in Nat /\ WordSize \in Nat
  BY FeesAssumption, BoundsAssumption
<1>3. c * bps < WordSize /\ c + Share(c, bps) < WordSize
  BY DEF FitsWord
<1>4. d * bps \in Nat /\ c * bps \in Nat /\ d * bps <= c * bps
  BY <1>2, ProductFacts
<1>5. Share(d, bps) \in Nat /\ Share(c, bps) \in Nat /\ Share(d, bps) <= Share(c, bps)
  BY <1>2, ShareFacts
<1> QED BY <1>2, <1>3, <1>4, <1>5

\* What a resting bid keeps locked, when nothing wraps.
LEMMA BidNeedsIs ==
  ASSUME fee_schedule \in FeeSchedules, NEW p \in Nat, NEW q \in Nat,
         FitsWord(p * q, fee_schedule)
  PROVE  BidNeeds(p, q) = p * q + Share(p * q, fee_schedule.maker_fee_bps)
<1>1. PICK c \in Nat : c = p * q
  BY ProductFacts
<1>2. /\ Wrap(c) = c
      /\ Fee(c, fee_schedule.maker_fee_bps) = Share(c, fee_schedule.maker_fee_bps)
      /\ Wrap(c + Share(c, fee_schedule.maker_fee_bps)) = c + Share(c, fee_schedule.maker_fee_bps)
  BY <1>1, FitsFacts
<1> QED BY <1>1, <1>2 DEF BidNeeds, MakerFee

-----------------------------------------------------------------------------
\* What a walk costs.

\* A level costs at most its price for each unit.
LEMMA LevelCosts ==
  ASSUME NEW b, NEW s, Walkable(b, s), NEW p \in DOMAIN b.levels[s], NEW taken \in Taken,
         NEW top \in Nat, p <= top, taken.cost <= top * taken.filled
  PROVE  TakeLevel(b, s, p, taken).cost <= top * TakeLevel(b, s, p, taken).filled
<1>1. PICK q : q = b.levels[s][p]
  OBVIOUS
<1>2. p \in Nat /\ Countable(b, q) /\ Len(q) \in Nat
  BY <1>1, LevelWalked
<1>3. PICK w : LevelWalk(w, b, p, q, taken) /\ TakeLevel(b, s, p, taken) = w[Len(q)]
  BY <1>1, LevelWalked
<1> DEFINE B == {i \in 0..Len(q) : ~(w[i].cost <= top * w[i].filled)}
<1>4. ASSUME B # {} PROVE FALSE
  <2>1. B \in SUBSET Nat
    BY <1>2
  <2>2. PICK m \in B : \A i \in B : m <= i
    BY <1>4, <2>1, SetHasMin
  <2>3. m # 0
    BY <1>3, <2>2 DEF LevelWalk
  <2>4. m \in 1..Len(q) /\ m - 1 \in 0..Len(q) /\ ~(m <= m - 1)
    BY <1>2, <2>2, <2>3
  <2>5. w[m - 1].cost <= top * w[m - 1].filled
    BY <2>2, <2>4
  <2>6. PICK acc, id : acc = w[m - 1] /\ id = q[m]
    OBVIOUS
  <2>7. acc \in Taken /\ b.orders[id].remaining_qty \in Nat /\ w[m] = Take(b, p, acc, id)
    BY <1>2, <1>3, <2>4, <2>6 DEF LevelWalk, Countable
  <2>8. w[m].cost <= top * w[m].filled
    <3>1. PICK rem \in Nat : rem = b.orders[id].remaining_qty
      BY <2>7
    <3>2. PICK n \in Nat : n = IF acc.left < rem THEN acc.left ELSE rem
      BY <2>7 DEF Taken
    <3>3. PICK k \in Nat : k = n * p
      BY <1>2, ProductFacts
    <3>4. w[m] = [left |-> acc.left - n, cost |-> acc.cost + k, filled |-> acc.filled + n]
      BY <2>7, <3>1, <3>2, <3>3 DEF Take
    <3>5. acc.cost \in Nat /\ acc.filled \in Nat
      BY <2>7 DEF Taken
    <3>6. w[m].cost = acc.cost + k /\ w[m].filled = acc.filled + n
      BY <3>4
    <3>7. /\ top * (acc.filled + n) = top * acc.filled + top * n
          /\ top * acc.filled \in Nat /\ top * n \in Nat
      BY <3>5, ProductFacts
    <3>8. n * p <= n * top /\ n * top = top * n
      BY <1>2, ProductFacts
    <3>9. acc.cost <= top * acc.filled
      BY <2>5, <2>6
    <3>10. k <= top * n
      BY <3>3, <3>8
    <3> QED BY <3>5, <3>6, <3>7, <3>9, <3>10
  <2> QED BY <2>2, <2>8
<1>5. Len(q) \in 0..Len(q) /\ B = {}
  BY <1>2, <1>4
<1>6. w[Len(q)].cost <= top * w[Len(q)].filled
  BY <1>5
<1> QED BY <1>3, <1>6

\* A walk costs at most the highest price for all that is wanted.
LEMMA SweepCosts ==
  ASSUME NEW b, NEW s, Walkable(b, s), NEW limit, NEW qty \in Nat, NEW top \in Nat,
         \A p \in DOMAIN b.levels[s] : p <= top
  PROVE  Sweep(b, s, limit, qty).cost \in Nat /\ Sweep(b, s, limit, qty).cost <= top * qty
<1>1. PICK L : L = {p \in DOMAIN b.levels[s] : Crosses(Opposite(s), limit, p)}
  OBVIOUS
<1>2. L \in SUBSET DOMAIN b.levels[s]
  BY <1>1
<1>3. PICK all \in Taken : all = Wanted(qty)
  BY WantedType
<1>4. PICK g : LevelsWalk(g, b, s, L, all) /\ TakeLevels(b, s, L, all) = g[L]
  BY <1>2, TakeLevelsWalks
<1>5. Sweep(b, s, limit, qty) = g[L]
  BY <1>1, <1>3, <1>4 DEF Sweep, Wanted
<1>6. IsFiniteSet(L) /\ L \in SUBSET Nat /\ s \in Sides
  BY <1>2, FS_Subset DEF Walkable
<1> DEFINE P == {v \in SUBSET L : g[v].cost <= top * g[v].filled}
<1>7. ASSUME NEW v \in SUBSET L, \A x \in v : v \ {x} \in P PROVE v \in P
  <2>1. CASE v = {}
    <3>1. g[v] = Wanted(qty)
      BY <1>3, <1>4, <2>1 DEF LevelsWalk
    <3>2. g[v].cost <= top * g[v].filled
      BY <3>1 DEF Wanted
    <3> QED BY <3>2
  <2>2. CASE v # {}
    <3>1. PICK p : p = LastServed(s, v)
      OBVIOUS
    <3>2. p \in v
      <4>1. IsFiniteSet(v) /\ v \in SUBSET Nat
        BY <1>6, FS_Subset
      <4> QED BY <1>6, <2>2, <3>1, <4>1, LastServedIsLast
    <3>3. PICK acc : acc = g[v \ {p}]
      OBVIOUS
    <3>4. acc \in Taken /\ acc.cost <= top * acc.filled
      BY <1>4, <1>7, <3>2, <3>3 DEF LevelsWalk
    <3>5. g[v] = TakeLevel(b, s, p, acc)
      BY <1>4, <2>2, <3>1, <3>3 DEF LevelsWalk
    <3>6. p \in DOMAIN b.levels[s] /\ p <= top
      BY <1>2, <3>2
    <3>7. g[v].cost <= top * g[v].filled
      BY <3>4, <3>5, <3>6, LevelCosts
    <3> QED BY <3>7
  <2> QED BY <2>1, <2>2
<1>8. \A v \in SUBSET L : v \in P
  <2> HIDE DEF P
  <2> QED BY <1>6, <1>7, SubsetInduction
<1>9. g[L].cost <= top * g[L].filled
  <2>1. L \in SUBSET L
    OBVIOUS
  <2> QED BY <1>8, <2>1
<1>10. PICK e : e = Sweep(b, s, limit, qty)
  OBVIOUS
<1>11. e \in Taken /\ e.left + e.filled = qty
  BY <1>10, SweepConserves
<1>12. e.cost \in Nat /\ e.filled \in Nat /\ e.filled <= qty
  BY <1>11 DEF Taken
<1>13. top * e.filled <= top * qty /\ top * e.filled \in Nat /\ top * qty \in Nat
  BY <1>12, ProductFacts
<1>14. e.cost <= top * e.filled
  BY <1>5, <1>9, <1>10
<1>15. e.cost <= top * qty
  BY <1>12, <1>13, <1>14
<1> QED BY <1>10, <1>12, <1>15

-----------------------------------------------------------------------------
\* The trades of a call.

LEMMA PriceType ==
  ASSUME NEW trade \in Trades, NEW f \in FeeSchedules
  PROVE  Value(trade) \in Nat /\ Price(trade, f) \in Nat
<1>1. Value(trade) \in Nat
  BY ProductFacts DEF Value, Trades
<1>2. f.maker_fee_bps \in Nat /\ f.taker_fee_bps \in Nat
  BY FeesAssumption
<1>3. Share(Value(trade), f.maker_fee_bps) \in Nat /\ Share(Value(trade), f.taker_fee_bps) \in Nat
  BY <1>1, <1>2, ShareFacts
<1> QED BY <1>1, <1>3 DEF Price

\* What apply_fill takes from the buyer.
LEMMA PriceIs ==
  ASSUME fee_schedule \in FeeSchedules, NEW trade \in Trades,
         FitsWord(Value(trade), fee_schedule)
  PROVE  QuoteAmount(trade) + BuyerFee(trade) = Price(trade, fee_schedule)
<1>1. PICK c \in Nat : c = Value(trade)
  BY PriceType
<1>2. /\ Wrap(c) = c
      /\ \A bps \in {fee_schedule.maker_fee_bps, fee_schedule.taker_fee_bps} :
           Fee(c, bps) = Share(c, bps)
  BY <1>1, FitsFacts
<1>3. QuoteAmount(trade) = c
  BY <1>1, <1>2 DEF QuoteAmount, Value
<1>4. CASE trade.taker_side = "bid"
  BY <1>1, <1>2, <1>3, <1>4 DEF BuyerFee, TakerFee, Price
<1>5. CASE trade.taker_side # "bid"
  BY <1>1, <1>2, <1>3, <1>5 DEF BuyerFee, MakerFee, Price
<1> QED BY <1>4, <1>5

\* What is still to be paid, delivered and counted: a number, nothing without
\* trades, one trade less when one is settled, one more when one is added.
LEMMA TradeSums ==
  ASSUME NEW trades \in Seq(Trades), NEW u, NEW f \in FeeSchedules, NEW n \in 0..Len(trades)
  PROVE  /\ After(PaidBy(trades, u, f), n) \in Nat
         /\ After(SoldBy(trades, u), n) \in Nat
         /\ After(FillsOf(trades, u), n) \in Nat
         /\ n = Len(trades) => /\ After(PaidBy(trades, u, f), n) = 0
                               /\ After(SoldBy(trades, u), n) = 0
                               /\ After(FillsOf(trades, u), n) = 0
         /\ n < Len(trades) =>
              /\ After(PaidBy(trades, u, f), n) = After(PaidBy(trades, u, f), n + 1)
                   + (IF trades[n + 1].buyer = u THEN Price(trades[n + 1], f) ELSE 0)
              /\ After(SoldBy(trades, u), n) = After(SoldBy(trades, u), n + 1)
                   + (IF trades[n + 1].seller = u THEN trades[n + 1].qty ELSE 0)
              /\ After(FillsOf(trades, u), n) = After(FillsOf(trades, u), n + 1)
                   + (IF trades[n + 1].buyer = u THEN 1 ELSE 0)
<1>1. PICK P, S, F : P = PaidBy(trades, u, f) /\ S = SoldBy(trades, u) /\ F = FillsOf(trades, u)
  OBVIOUS
<1>2. \A k \in 1..Len(trades) : trades[k] \in Trades /\ trades[k].qty \in Nat
  <2>1. \A k \in 1..Len(trades) : trades[k] \in Trades
    OBVIOUS
  <2>2. \A x \in Trades : x.qty \in Nat
    BY DEF Trades
  <2> QED BY <2>1, <2>2
<1>3. \A k \in 1..Len(trades) : Price(trades[k], f) \in Nat
  BY <1>2, PriceType
<1>4. Len(trades) \in Nat
  OBVIOUS
<1>5. P \in Seq(Nat) /\ Len(P) = Len(trades)
      /\ \A k \in 1..Len(trades) : P[k] = IF trades[k].buyer = u THEN Price(trades[k], f) ELSE 0
  BY <1>1, <1>3, <1>4 DEF PaidBy
<1>6. S \in Seq(Nat) /\ Len(S) = Len(trades)
      /\ \A k \in 1..Len(trades) : S[k] = IF trades[k].seller = u THEN trades[k].qty ELSE 0
  BY <1>1, <1>2, <1>4 DEF SoldBy
<1>7. F \in Seq(Nat) /\ Len(F) = Len(trades)
      /\ \A k \in 1..Len(trades) : F[k] = IF trades[k].buyer = u THEN 1 ELSE 0
  BY <1>1, <1>4 DEF FillsOf
<1>8. /\ After(P, n) \in Nat /\ After(S, n) \in Nat /\ After(F, n) \in Nat
      /\ n = Len(trades) => After(P, n) = 0 /\ After(S, n) = 0 /\ After(F, n) = 0
  BY <1>5, <1>6, <1>7, AfterFacts
<1>9. ASSUME n < Len(trades)
      PROVE  /\ After(P, n) = After(P, n + 1) + P[n + 1]
             /\ After(S, n) = After(S, n + 1) + S[n + 1]
             /\ After(F, n) = After(F, n + 1) + F[n + 1]
  <2>1. n + 1 \in 0..Len(trades)
    BY <1>4, <1>9
  <2>2. After(P, n + 1) \in Nat /\ After(S, n + 1) \in Nat /\ After(F, n + 1) \in Nat
    BY <1>5, <1>6, <1>7, <2>1, AfterFacts
  <2>3. P[n + 1] \in Nat /\ After(P, n) = P[n + 1] + After(P, n + 1)
    BY <1>5, <1>9, AfterFacts
  <2>4. S[n + 1] \in Nat /\ After(S, n) = S[n + 1] + After(S, n + 1)
    BY <1>6, <1>9, AfterFacts
  <2>5. F[n + 1] \in Nat /\ After(F, n) = F[n + 1] + After(F, n + 1)
    BY <1>7, <1>9, AfterFacts
  <2> QED BY <2>2, <2>3, <2>4, <2>5
<1>10. n < Len(trades) => n + 1 \in 1..Len(trades)
  BY <1>4
<1> QED BY <1>1, <1>5, <1>6, <1>7, <1>8, <1>9, <1>10

LEMMA TradeAdded ==
  ASSUME NEW trades \in Seq(Trades), NEW u, NEW f \in FeeSchedules, NEW n \in 0..Len(trades),
         NEW trade \in Trades
  PROVE  /\ After(PaidBy(Append(trades, trade), u, f), n) = After(PaidBy(trades, u, f), n)
              + (IF trade.buyer = u THEN Price(trade, f) ELSE 0)
         /\ After(SoldBy(Append(trades, trade), u), n) = After(SoldBy(trades, u), n)
              + (IF trade.seller = u THEN trade.qty ELSE 0)
         /\ After(FillsOf(Append(trades, trade), u), n) = After(FillsOf(trades, u), n)
              + (IF trade.buyer = u THEN 1 ELSE 0)
<1>1. PICK P, S, F : P = PaidBy(trades, u, f) /\ S = SoldBy(trades, u) /\ F = FillsOf(trades, u)
  OBVIOUS
<1>2. \A k \in 1..Len(trades) : trades[k] \in Trades /\ trades[k].qty \in Nat
  <2>1. \A k \in 1..Len(trades) : trades[k] \in Trades
    OBVIOUS
  <2>2. \A x \in Trades : x.qty \in Nat
    BY DEF Trades
  <2> QED BY <2>1, <2>2
<1>3. trade.qty \in Nat /\ Price(trade, f) \in Nat
      /\ \A k \in 1..Len(trades) : Price(trades[k], f) \in Nat
  BY <1>2, PriceType DEF Trades
<1>4. PICK more : more = Append(trades, trade)
  OBVIOUS
<1>5. /\ Len(trades) \in Nat /\ Len(more) = Len(trades) + 1 /\ more[Len(trades) + 1] = trade
      /\ \A k \in 1..Len(trades) : more[k] = trades[k]
  BY <1>4
<1>6. P \in Seq(Nat) /\ Len(P) = Len(trades)
      /\ PaidBy(more, u, f) = Append(P, IF trade.buyer = u THEN Price(trade, f) ELSE 0)
  <2>1. P \in Seq(Nat) /\ Len(P) = Len(trades)
        /\ \A k \in 1..Len(trades) : P[k] = IF trades[k].buyer = u THEN Price(trades[k], f) ELSE 0
    BY <1>1, <1>3, <1>5 DEF PaidBy
  <2> QED BY <1>5, <2>1 DEF PaidBy
<1>7. S \in Seq(Nat) /\ Len(S) = Len(trades)
      /\ SoldBy(more, u) = Append(S, IF trade.seller = u THEN trade.qty ELSE 0)
  <2>1. S \in Seq(Nat) /\ Len(S) = Len(trades)
        /\ \A k \in 1..Len(trades) : S[k] = IF trades[k].seller = u THEN trades[k].qty ELSE 0
    BY <1>1, <1>2, <1>5 DEF SoldBy
  <2> QED BY <1>5, <2>1 DEF SoldBy
<1>8. F \in Seq(Nat) /\ Len(F) = Len(trades)
      /\ FillsOf(more, u) = Append(F, IF trade.buyer = u THEN 1 ELSE 0)
  <2>1. F \in Seq(Nat) /\ Len(F) = Len(trades)
        /\ \A k \in 1..Len(trades) : F[k] = IF trades[k].buyer = u THEN 1 ELSE 0
    BY <1>1, <1>5 DEF FillsOf
  <2> QED BY <1>5, <2>1 DEF FillsOf
<1>9. After(PaidBy(more, u, f), n) = After(P, n) + (IF trade.buyer = u THEN Price(trade, f) ELSE 0)
  BY <1>3, <1>6, AfterAppend
<1>10. After(SoldBy(more, u), n) = After(S, n) + (IF trade.seller = u THEN trade.qty ELSE 0)
  BY <1>3, <1>7, AfterAppend
<1>11. After(FillsOf(more, u), n) = After(F, n) + (IF trade.buyer = u THEN 1 ELSE 0)
  BY <1>8, AfterAppend
<1> QED BY <1>1, <1>4, <1>9, <1>10, <1>11

-----------------------------------------------------------------------------
\* What each step does to the locks.

\* The parts of LocksInv as they are between orders.
IdleLocks ==
  /\ \A a \in Listed : \A id \in DOMAIN books[a].orders :
       FitsWord(books[a].orders[id].price * books[a].orders[id].remaining_qty, fee_schedule)
  /\ \A u \in Users :
       /\ UsdNeeds(OpenIn, u, fee_schedule.maker_fee_bps) <= usd[u].locked
       /\ usd[u].locked - UsdNeeds(OpenIn, u, fee_schedule.maker_fee_bps)
            <= IF fee_schedule.maker_fee_bps = 0 THEN 0 ELSE maker_fills[u]
       /\ \A a \in Listed : stock[a][u].locked = NeedsOf(OpenIn[a], u, "ask", 0)
  /\ AvailableInv

LEMMA FeeRates ==
  ASSUME EngineInv
  PROVE  /\ fee_schedule \in FeeSchedules
         /\ fee_schedule.maker_fee_bps \in Nat /\ fee_schedule.taker_fee_bps \in Nat
BY FeesAssumption DEF EngineInv, CallInv

LEMMA BalanceNumbers ==
  ASSUME BalancesType
  PROVE  /\ \A u \in Accounts : usd[u].available \in Int /\ usd[u].locked \in Int
         /\ \A a \in Listed, u \in Accounts :
              stock[a][u].available \in Int /\ stock[a][u].locked \in Int
         /\ Users \subseteq Accounts /\ Treasury \in Accounts /\ Treasury \notin Users
<1>1. \A u \in Accounts : usd[u] \in Balance
  BY DEF BalancesType
<1>2. \A a \in Listed, u \in Accounts : stock[a][u] \in Balance
  BY DEF BalancesType
<1>3. \A x \in Balance : x.available \in Int /\ x.locked \in Int
  BY DEF Balance
<1> QED BY <1>1, <1>2, <1>3, TreasuryAssumption DEF Accounts

LEMMA LocksWhenIdle ==
  ASSUME EngineInv, ~InCall
  PROVE  LocksInv <=> IdleLocks
<1>1. ~(phase = "matching") /\ ~(phase = "settling")
  BY DEF InCall
<1>2. BudgetInv
  BY DEF BudgetInv
<1>3. AmountsInv <=> \A a \in Listed : \A id \in DOMAIN books[a].orders :
        FitsWord(books[a].orders[id].price * books[a].orders[id].remaining_qty, fee_schedule)
  BY <1>1 DEF AmountsInv
<1>4. \A u \in Users : UsdNeeds(OpenIn, u, fee_schedule.maker_fee_bps) \in Nat
  BY FeeRates, OpenInType, UsdNeedsType
<1>5. \A u \in Users, a \in Listed : NeedsOf(OpenIn[a], u, "ask", 0) \in Nat
  BY OpenInType, NeedsType DEF OpensType
<1>6. ASSUME AvailableInv PROVE \A u \in Users : usd[u].locked \in Int /\ maker_fills[u] \in Nat
  BY <1>6, BalanceNumbers DEF AvailableInv
<1>7. \A u \in Users : /\ Escrow(u) = 0 /\ OpenFills(u) = 0
                       /\ \A a \in Listed : Undelivered(u, a) = 0
  BY DEF Escrow, OpenFills, Undelivered
<1>8. ASSUME AvailableInv
      PROVE  LocksRight <=>
               \A u \in Users :
                 /\ UsdNeeds(OpenIn, u, fee_schedule.maker_fee_bps) <= usd[u].locked
                 /\ usd[u].locked - UsdNeeds(OpenIn, u, fee_schedule.maker_fee_bps)
                      <= IF fee_schedule.maker_fee_bps = 0 THEN 0 ELSE maker_fills[u]
                 /\ \A a \in Listed : stock[a][u].locked = NeedsOf(OpenIn[a], u, "ask", 0)
  <2>1. \A u \in Users :
          /\ Dust(u) = usd[u].locked - UsdNeeds(OpenIn, u, fee_schedule.maker_fee_bps)
          /\ Dust(u) \in Int
          /\ Dust(u) >= 0 <=> UsdNeeds(OpenIn, u, fee_schedule.maker_fee_bps) <= usd[u].locked
    BY <1>4, <1>6, <1>7, <1>8 DEF Dust
  <2>2. \A u \in Users : maker_fills[u] + OpenFills(u) = maker_fills[u]
    BY <1>6, <1>7, <1>8
  <2>3. \A u \in Users, a \in Listed :
          NeedsOf(OpenIn[a], u, "ask", 0) + Undelivered(u, a) = NeedsOf(OpenIn[a], u, "ask", 0)
    BY <1>5, <1>7
  <2> QED BY <2>1, <2>2, <2>3 DEF LocksRight
<1> QED BY <1>2, <1>3, <1>8 DEF LocksInv, IdleLocks

\* The same in the next state.
LEMMA IdleLocksEnough == EngineInv /\ ~InCall /\ IdleLocks => LocksInv
BY LocksWhenIdle

LEMMA IdleLocksEnoughNext == EngineInv' /\ ~InCall' /\ IdleLocks' => LocksInv'
BY IdleLocksEnough, PTL

\* Locking n more, or less, of what is available.
LEMMA MoveIs ==
  ASSUME BalancesType, NEW user \in Users, NEW asset \in Listed, NEW side \in Sides,
         NEW amount \in Int, NEW n \in Int,
         \/ Move(Lock, user, asset, side, amount) /\ n = amount
         \/ Move(Unlock, user, asset, side, amount) /\ n = -amount
  PROVE  /\ BalancesType'
         /\ \A u \in Accounts :
              /\ usd'[u].locked = usd[u].locked + (IF u = user /\ side = "bid" THEN n ELSE 0)
              /\ usd'[u].available = usd[u].available - (IF u = user /\ side = "bid" THEN n ELSE 0)
         /\ \A a \in Listed, u \in Accounts :
              /\ stock'[a][u].locked = stock[a][u].locked
                   + (IF a = asset /\ u = user /\ side = "ask" THEN n ELSE 0)
              /\ stock'[a][u].available = stock[a][u].available
                   - (IF a = asset /\ u = user /\ side = "ask" THEN n ELSE 0)
<1>1. user \in Accounts
  BY DEF Accounts
<1>2. BalancesType'
  BY <1>1, MoveKeepsTotals
<1>3. \A x \in Balance :
        /\ n = amount => /\ Lock(x, amount).locked = x.locked + n
                         /\ Lock(x, amount).available = x.available - n
        /\ n = -amount => /\ Unlock(x, amount).locked = x.locked + n
                          /\ Unlock(x, amount).available = x.available - n
  <2> TAKE x \in Balance
  <2>1. x.available \in Int /\ x.locked \in Int
    BY DEF Balance
  <2>2. /\ Lock(x, amount).locked = x.locked + amount
        /\ Lock(x, amount).available = x.available - amount
        /\ Unlock(x, amount).locked = x.locked - amount
        /\ Unlock(x, amount).available = x.available + amount
    BY DEF Lock, Unlock
  <2> QED BY <2>1, <2>2
<1>4. PICK x : /\ x.locked = usd[user].locked + n /\ x.available = usd[user].available - n
               /\ usd' = IF side = "bid" THEN [usd EXCEPT ![user] = x] ELSE usd
  <2>1. usd[user] \in Balance
    BY <1>1 DEF BalancesType
  <2> QED BY <1>3, <2>1 DEF Move
<1>5. PICK y : /\ y.locked = stock[asset][user].locked + n
               /\ y.available = stock[asset][user].available - n
               /\ stock' = IF side = "ask" THEN [stock EXCEPT ![asset][user] = y] ELSE stock
  <2>1. stock[asset][user] \in Balance
    BY <1>1 DEF BalancesType
  <2> QED BY <1>3, <2>1 DEF Move
<1>6. /\ \A u \in Accounts : usd[u].available \in Int /\ usd[u].locked \in Int
      /\ \A a \in Listed, u \in Accounts :
           stock[a][u].available \in Int /\ stock[a][u].locked \in Int
  BY BalanceNumbers
<1>7. ASSUME NEW u \in Accounts
      PROVE  /\ usd'[u].locked = usd[u].locked + (IF u = user /\ side = "bid" THEN n ELSE 0)
             /\ usd'[u].available = usd[u].available - (IF u = user /\ side = "bid" THEN n ELSE 0)
  <2>1. usd'[u] = IF u = user /\ side = "bid" THEN x ELSE usd[u]
    BY <1>1, <1>4 DEF BalancesType
  <2>2. CASE u = user /\ side = "bid"
    BY <1>4, <2>1, <2>2
  <2>3. CASE ~(u = user /\ side = "bid")
    BY <1>6, <2>1, <2>3
  <2> QED BY <2>2, <2>3
<1>8. ASSUME NEW a \in Listed, NEW u \in Accounts
      PROVE  /\ stock'[a][u].locked = stock[a][u].locked
                  + (IF a = asset /\ u = user /\ side = "ask" THEN n ELSE 0)
             /\ stock'[a][u].available = stock[a][u].available
                  - (IF a = asset /\ u = user /\ side = "ask" THEN n ELSE 0)
  <2>1. stock'[a][u] = IF a = asset /\ u = user /\ side = "ask" THEN y ELSE stock[a][u]
    BY <1>1, <1>5 DEF BalancesType
  <2>2. CASE a = asset /\ u = user /\ side = "ask"
    BY <1>5, <2>1, <2>2
  <2>3. CASE ~(a = asset /\ u = user /\ side = "ask")
    BY <1>6, <2>1, <2>3
  <2> QED BY <2>2, <2>3
<1> QED BY <1>2, <1>7, <1>8

\* What a user has can be locked, and anything unlocked.
LEMMA MoveAvailable ==
  ASSUME AvailableInv, NEW user \in Users, NEW asset \in Listed, NEW side \in Sides,
         NEW amount \in Int, NEW n \in Int,
         \/ Move(Lock, user, asset, side, amount) /\ n = amount
         \/ Move(Unlock, user, asset, side, amount) /\ n = -amount,
         side = "bid" => n <= usd[user].available,
         side = "ask" => n <= stock[asset][user].available,
         maker_fills' = maker_fills
  PROVE  AvailableInv'
<1>1. BalancesType
  BY DEF AvailableInv
<1>2. /\ \A u \in Accounts : usd[u].available \in Int /\ usd[u].locked \in Int
      /\ \A a \in Listed, u \in Accounts :
           stock[a][u].available \in Int /\ stock[a][u].locked \in Int
      /\ Users \subseteq Accounts /\ Treasury \in Accounts /\ user # Treasury
  BY <1>1, BalanceNumbers
<1>3. /\ BalancesType'
      /\ \A u \in Accounts :
           /\ usd'[u].locked = usd[u].locked + (IF u = user /\ side = "bid" THEN n ELSE 0)
           /\ usd'[u].available = usd[u].available - (IF u = user /\ side = "bid" THEN n ELSE 0)
      /\ \A a \in Listed, u \in Accounts :
           /\ stock'[a][u].locked = stock[a][u].locked
                + (IF a = asset /\ u = user /\ side = "ask" THEN n ELSE 0)
           /\ stock'[a][u].available = stock[a][u].available
                - (IF a = asset /\ u = user /\ side = "ask" THEN n ELSE 0)
  BY <1>1, MoveIs
<1>4. usd'[Treasury].locked >= 0 /\ \A a \in Listed : stock'[a][Treasury].locked >= 0
  BY <1>2, <1>3 DEF AvailableInv
<1>5. ASSUME NEW u \in Accounts PROVE usd'[u].available >= 0
  BY <1>2, <1>3 DEF AvailableInv
<1>6. ASSUME NEW u \in Accounts, NEW a \in Listed PROVE stock'[a][u].available >= 0
  BY <1>2, <1>3 DEF AvailableInv
<1>7. (maker_fills \in [Users -> Nat])'
  BY DEF AvailableInv
<1> QED BY <1>3, <1>4, <1>5, <1>6, <1>7 DEF AvailableInv

\* The steps between orders that change nothing that is locked.
LEMMA QuietLocks ==
  ASSUME EngineInv, LocksInv, ~InCall, EngineInv', ~InCall', BalancesType',
         books' = books, fee_schedule' = fee_schedule, maker_fills' = maker_fills,
         \A u \in Accounts :
           usd'[u].locked = usd[u].locked /\ usd'[u].available >= usd[u].available,
         \A a \in Listed, u \in Accounts :
           /\ stock'[a][u].locked = stock[a][u].locked
           /\ stock'[a][u].available >= stock[a][u].available
  PROVE  LocksInv'
<1>1. IdleLocks
  BY LocksWhenIdle
<1>2. OpenIn' = OpenIn
  BY OpenInSame
<1>3. /\ \A u \in Accounts : usd[u].available \in Int /\ usd'[u].available \in Int
      /\ \A a \in Listed, u \in Accounts :
           stock[a][u].available \in Int /\ stock'[a][u].available \in Int
      /\ Users \subseteq Accounts /\ Treasury \in Accounts
  <2>1. \A x \in Balance : x.available \in Int
    BY DEF Balance
  <2> QED BY <1>1, <2>1 DEF IdleLocks, AvailableInv, BalancesType, Accounts
<1>4. AvailableInv'
  <2>1. \A u \in Accounts : usd'[u].available >= 0
    BY <1>1, <1>3 DEF IdleLocks, AvailableInv
  <2>2. \A u \in Accounts, a \in Listed : stock'[a][u].available >= 0
    BY <1>1, <1>3 DEF IdleLocks, AvailableInv
  <2>3. usd'[Treasury].locked >= 0 /\ \A a \in Listed : stock'[a][Treasury].locked >= 0
    BY <1>1, <1>3 DEF IdleLocks, AvailableInv
  <2> QED BY <1>1, <2>1, <2>2, <2>3 DEF IdleLocks, AvailableInv
<1>5. IdleLocks'
  BY <1>1, <1>2, <1>3, <1>4 DEF IdleLocks
<1> QED BY <1>5, IdleLocksEnoughNext

\* Refusals, replies and money brought in.
LEMMA OtherLocks ==
  ASSUME EngineInv, LocksInv,
         \/ \E user \in Users, r \in Requests : OrderRefused(user, r)
         \/ \E user \in Users, id \in 1..MaxOrderId : CancelRefused(user, id)
         \/ Return
         \/ \E user \in Users, amount \in OnrampAmounts : HandleOnramp(user, amount)
         \/ \E user \in Users, asset \in Symbols \cap Listed, amount \in DepositAmounts :
              HandleDeposit(user, asset, amount)
  PROVE  LocksInv'
<1>1. EngineInv'
  BY RefusedEngineInv, OtherEngineInv
<1>2. /\ ~InCall /\ ~InCall'
      /\ books' = books /\ fee_schedule' = fee_schedule /\ maker_fills' = maker_fills
  BY DEF OrderRefused, CancelRefused, Return, HandleOnramp, HandleDeposit, InCall
<1>3. BalancesType
  BY DEF LocksInv, AvailableInv
<1>4. /\ \A u \in Accounts : usd[u].available \in Int
      /\ \A a \in Listed, u \in Accounts : stock[a][u].available \in Int
      /\ Users \subseteq Accounts
  BY <1>3, BalanceNumbers
<1>5. CASE UNCHANGED <<usd, stock>>
  <2>1. BalancesType'
    BY <1>3, <1>5 DEF BalancesType
  <2>2. /\ \A u \in Accounts :
             usd'[u].locked = usd[u].locked /\ usd'[u].available >= usd[u].available
        /\ \A a \in Listed, u \in Accounts :
             /\ stock'[a][u].locked = stock[a][u].locked
             /\ stock'[a][u].available >= stock[a][u].available
    BY <1>4, <1>5
  <2> QED BY <1>1, <1>2, <2>1, <2>2, QuietLocks
<1>6. ASSUME NEW user \in Users, NEW amount \in OnrampAmounts, HandleOnramp(user, amount)
      PROVE  LocksInv'
  <2>1. usd' = [usd EXCEPT ![user].available = usd[user].available + amount] /\ stock' = stock
    BY <1>6 DEF HandleOnramp
  <2>2. amount \in Nat
    BY AmountsAssumption
  <2>3. usd[user] \in Balance /\ user \in Accounts
    BY <1>3 DEF BalancesType, Accounts
  <2>4. PICK x \in Balance : /\ x.available = usd[user].available + amount
                             /\ x.locked = usd[user].locked
                             /\ usd' = [usd EXCEPT ![user] = x]
    <3>1. [usd[user] EXCEPT !.available = usd[user].available + amount] \in Balance
      BY <2>2, <2>3 DEF Balance
    <3>2. /\ [usd[user] EXCEPT !.available = usd[user].available + amount].available
               = usd[user].available + amount
          /\ [usd[user] EXCEPT !.available = usd[user].available + amount].locked
               = usd[user].locked
      BY <2>3 DEF Balance
    <3>3. usd' = [usd EXCEPT ![user] =
                    [usd[user] EXCEPT !.available = usd[user].available + amount]]
      BY <2>1
    <3> QED BY <3>1, <3>2, <3>3
  <2>5. BalancesType'
    BY <1>3, <2>1, <2>4 DEF BalancesType
  <2>6. \A u \in Accounts : usd'[u] = IF u = user THEN x ELSE usd[u]
    BY <1>3, <2>3, <2>4 DEF BalancesType
  <2>7. /\ \A u \in Accounts :
             usd'[u].locked = usd[u].locked /\ usd'[u].available >= usd[u].available
        /\ \A a \in Listed, u \in Accounts :
             /\ stock'[a][u].locked = stock[a][u].locked
             /\ stock'[a][u].available >= stock[a][u].available
    BY <1>4, <2>1, <2>2, <2>4, <2>6
  <2> QED BY <1>1, <1>2, <2>5, <2>7, QuietLocks
<1>7. ASSUME NEW user \in Users, NEW asset \in Listed, NEW amount \in DepositAmounts,
             HandleDeposit(user, asset, amount)
      PROVE  LocksInv'
  <2>1. /\ stock' = [stock EXCEPT ![asset][user].available = stock[asset][user].available + amount]
        /\ usd' = usd
    BY <1>7 DEF HandleDeposit
  <2>2. amount \in Nat
    BY AmountsAssumption
  <2>3. stock[asset][user] \in Balance /\ user \in Accounts
    BY <1>3 DEF BalancesType, Accounts
  <2>4. PICK x \in Balance : /\ x.available = stock[asset][user].available + amount
                             /\ x.locked = stock[asset][user].locked
                             /\ stock' = [stock EXCEPT ![asset][user] = x]
    <3>1. [stock[asset][user] EXCEPT !.available = stock[asset][user].available + amount] \in Balance
      BY <2>2, <2>3 DEF Balance
    <3>2. /\ [stock[asset][user] EXCEPT !.available = stock[asset][user].available + amount].available
               = stock[asset][user].available + amount
          /\ [stock[asset][user] EXCEPT !.available = stock[asset][user].available + amount].locked
               = stock[asset][user].locked
      BY <2>3 DEF Balance
    <3>3. stock' = [stock EXCEPT ![asset][user] =
                    [stock[asset][user] EXCEPT !.available = stock[asset][user].available + amount]]
      BY <2>1
    <3> QED BY <3>1, <3>2, <3>3
  <2>5. BalancesType'
    <3>1. stock' \in [Listed -> [Accounts -> Balance]]
      BY <1>3, <2>3, <2>4 DEF BalancesType
    <3> QED BY <1>3, <2>1, <3>1 DEF BalancesType
  <2>6. \A a \in Listed, u \in Accounts :
          stock'[a][u] = IF a = asset /\ u = user THEN x ELSE stock[a][u]
    BY <1>3, <2>3, <2>4 DEF BalancesType
  <2>7. /\ \A u \in Accounts :
             usd'[u].locked = usd[u].locked /\ usd'[u].available >= usd[u].available
        /\ \A a \in Listed, u \in Accounts :
             /\ stock'[a][u].locked = stock[a][u].locked
             /\ stock'[a][u].available >= stock[a][u].available
    BY <1>4, <2>1, <2>2, <2>4, <2>6
  <2> QED BY <1>1, <1>2, <2>5, <2>7, QuietLocks
<1>8. \/ UNCHANGED <<usd, stock>>
      \/ \E user \in Users, amount \in OnrampAmounts : HandleOnramp(user, amount)
      \/ \E user \in Users, asset \in Symbols \cap Listed, amount \in DepositAmounts :
           HandleDeposit(user, asset, amount)
  BY DEF OrderRefused, CancelRefused, Return
<1> QED BY <1>5, <1>6, <1>7, <1>8

\* Without orders nothing is needed.
LEMMA NothingNeeded ==
  ASSUME NEW open, \A a \in Listed : DOMAIN open[a] = {}, NEW u, NEW bps
  PROVE  /\ UsdNeeds(open, u, bps) = 0
         /\ \A a \in Listed : NeedsOf(open[a], u, "ask", 0) = 0
<1>1. ASSUME NEW a \in Listed, NEW s, NEW b PROVE NeedsOf(open[a], u, s, b) = 0
  <2>1. DOMAIN open[a] = {} /\ IsFiniteSet({})
    BY FS_EmptySet
  <2>2. PICK f : f = [id \in DOMAIN open[a] |-> NeedOf(open[a][id], u, s, b)]
    OBVIOUS
  <2>3. SumFunctionOnSet(f, DOMAIN open[a]) = 0
    BY <2>1, SumZero
  <2> QED BY <2>2, <2>3 DEF NeedsOf
<1>2. PICK g : g = [a \in Listed |-> NeedsOf(open[a], u, "bid", bps)]
  OBVIOUS
<1>3. \A a \in Listed : g[a] = 0
  BY <1>1, <1>2
<1>4. SumFunctionOnSet(g, Listed) = 0
  BY <1>3, ListedFinite, SumZero
<1> QED BY <1>1, <1>2, <1>4 DEF UsdNeeds

LEMMA InitLocks == Init => LocksInv
<1> SUFFICES ASSUME Init PROVE LocksInv
  OBVIOUS
<1>1. EngineInv /\ BalancesType /\ ~InCall
  BY InitEngineInv DEF Init, InCall
<1>2. \A a \in Listed : DOMAIN OpenIn[a] = {} /\ DOMAIN books[a].orders = {}
  BY OpenInIs DEF Init, NewBook, EmptyMap
<1>3. \A u \in Users : /\ UsdNeeds(OpenIn, u, fee_schedule.maker_fee_bps) = 0
                       /\ \A a \in Listed : NeedsOf(OpenIn[a], u, "ask", 0) = 0
  BY <1>2, NothingNeeded
<1>4. /\ \A u \in Accounts : usd[u].available = 0 /\ usd[u].locked = 0
      /\ \A a \in Listed, u \in Accounts : stock[a][u].available = 0 /\ stock[a][u].locked = 0
      /\ maker_fills \in [Users -> Nat] /\ \A u \in Users : maker_fills[u] = 0
      /\ Users \subseteq Accounts /\ Treasury \in Accounts
  BY DEF Init, Zero, Accounts
<1>5. AvailableInv
  BY <1>1, <1>4 DEF AvailableInv
<1>6. IdleLocks
  BY <1>2, <1>3, <1>4, <1>5 DEF IdleLocks
<1> QED BY <1>1, <1>6, IdleLocksEnough

LEMMA ResetLocks ==
  ASSUME EngineInv, HandleReset
  PROVE  LocksInv'
<1>1. EngineInv' /\ \A a \in Listed : books'[a] = NewBook
  BY ResetEngineInv
<1>2. \A a \in Listed : DOMAIN OpenIn'[a] = {} /\ DOMAIN books'[a].orders = {}
  BY <1>1, OpenInNext DEF NewBook, EmptyMap
<1>3. \A u \in Users : /\ UsdNeeds(OpenIn', u, fee_schedule'.maker_fee_bps) = 0
                       /\ \A a \in Listed : NeedsOf(OpenIn'[a], u, "ask", 0) = 0
  BY <1>2, NothingNeeded
<1>4. /\ \A u \in Accounts : usd'[u].available = 0 /\ usd'[u].locked = 0
      /\ \A a \in Listed, u \in Accounts : stock'[a][u].available = 0 /\ stock'[a][u].locked = 0
      /\ maker_fills' \in [Users -> Nat] /\ \A u \in Users : maker_fills'[u] = 0
      /\ Users \subseteq Accounts /\ Treasury \in Accounts
      /\ ~InCall'
  BY DEF HandleReset, Zero, Accounts, InCall
<1>5. BalancesType'
  BY DEF HandleReset, BalancesType, Balance, Zero
<1>6. AvailableInv'
  BY <1>4, <1>5 DEF AvailableInv
<1>7. IdleLocks'
  BY <1>2, <1>3, <1>4, <1>6 DEF IdleLocks
<1> QED BY <1>1, <1>4, <1>7, IdleLocksEnoughNext

\* What is given back for a cancelled order is what it needed.
LEMMA CancelRefundIs ==
  ASSUME fee_schedule \in FeeSchedules, NEW o \in Orders(Users),
         FitsWord(o.price * o.remaining_qty, fee_schedule)
  PROVE  /\ CancelRefund(o) \in Nat
         /\ \A u : NeedOf(o, u, "bid", fee_schedule.maker_fee_bps) =
                     IF o.user_id = u /\ o.side = "bid" THEN CancelRefund(o) ELSE 0
         /\ \A u : NeedOf(o, u, "ask", 0) =
                     IF o.user_id = u /\ o.side = "ask" THEN CancelRefund(o) ELSE 0
<1>1. o.price \in Nat /\ o.remaining_qty \in Nat /\ o.side \in Sides
  BY DEF Orders
<1>2. BidNeeds(o.price, o.remaining_qty) =
        o.price * o.remaining_qty + Share(o.price * o.remaining_qty, fee_schedule.maker_fee_bps)
  BY <1>1, BidNeedsIs
<1>3. BidNeeds(o.price, o.remaining_qty) \in Nat
  BY <1>1, BidNeedsType
<1> QED BY <1>1, <1>2, <1>3 DEF NeedOf, CancelRefund, Sides

LEMMA CancelLocks ==
  ASSUME EngineInv, LocksInv, NEW user \in Users, NEW id, HandleCancel(user, id)
  PROVE  LocksInv'
<1>1. PICK a \in Listed :
        /\ EngineInv' /\ phase = "idle" /\ phase' = "replied"
        /\ call' = [NoCall EXCEPT !.asset = a, !.status = "cancelled"] /\ call'.asset = a
        /\ id \in DOMAIN books[a].orders /\ books[a].orders[id].user_id = user
        /\ books[a].orders[id] \in Orders(Users)
        /\ books'[a].orders = Without(books[a].orders, id)
        /\ \A c \in Listed \ {a} : books'[c] = books[c]
        /\ Move(Unlock, user, a, books[a].orders[id].side, CancelRefund(books[a].orders[id]))
        /\ UNCHANGED <<next_order_id, fee_schedule, taker, results, minted>>
  BY HandleCancelFacts
<1>2. maker_fills' = maker_fills
  BY DEF HandleCancel
<1>3. ~InCall /\ ~InCall'
  BY <1>1 DEF InCall
<1>4. IdleLocks /\ AvailableInv /\ BalancesType
  BY <1>3, LocksWhenIdle DEF LocksInv, AvailableInv
<1>5. PICK o \in Orders(Users) : o = books[a].orders[id]
  BY <1>1
<1>6. PICK n \in Nat : n = CancelRefund(o)
  BY <1>1, <1>4, <1>5, FeeRates, CancelRefundIs DEF IdleLocks
<1>7. /\ \A u : NeedOf(o, u, "bid", fee_schedule.maker_fee_bps) =
                  IF o.user_id = u /\ o.side = "bid" THEN n ELSE 0
      /\ \A u : NeedOf(o, u, "ask", 0) = IF o.user_id = u /\ o.side = "ask" THEN n ELSE 0
  BY <1>1, <1>4, <1>5, <1>6, FeeRates, CancelRefundIs DEF IdleLocks
<1>8. o.side \in Sides /\ o.user_id = user
  BY <1>1, <1>5 DEF Orders
<1>9. Move(Unlock, user, a, o.side, n) /\ -n \in Int /\ n \in Int
  BY <1>1, <1>5, <1>6
<1>10. /\ \A u \in Accounts :
            usd'[u].locked = usd[u].locked + (IF u = user /\ o.side = "bid" THEN -n ELSE 0)
       /\ \A c \in Listed, u \in Accounts :
            stock'[c][u].locked = stock[c][u].locked
              + (IF c = a /\ u = user /\ o.side = "ask" THEN -n ELSE 0)
  BY <1>4, <1>8, <1>9, MoveIs
<1>11. AvailableInv'
  <2>1. user \in Accounts /\ usd[user].available \in Int /\ stock[a][user].available \in Int
    BY <1>4, BalanceNumbers
  <2>2. -n <= usd[user].available /\ -n <= stock[a][user].available
    BY <1>4, <2>1 DEF AvailableInv
  <2> QED BY <1>2, <1>4, <1>8, <1>9, <2>2, MoveAvailable
<1>12. PICK open, after : open = OpenIn /\ after = Without(books[a].orders, id)
  OBVIOUS
<1>13. /\ OpensType(open) /\ open[a] = books[a].orders /\ OpenIn' = [open EXCEPT ![a] = after]
       /\ id \in DOMAIN open[a] /\ open[a][id] = o
  BY <1>1, <1>5, <1>12, OpenInType, OpenInIs, OpenInExcept
<1>14. OpenType(after) /\ OneChanged(open[a], after, id) /\ id \notin DOMAIN after
  <2>1. DOMAIN after = DOMAIN open[a] \ {id}
        /\ \A x \in DOMAIN open[a] \ {id} : after[x] = open[a][x]
    BY <1>12, <1>13 DEF Without
  <2>2. IsFiniteSet(DOMAIN after)
    BY <1>13, <2>1, FS_Subset DEF OpensType, OpenType
  <2> QED BY <1>13, <2>1, <2>2 DEF OpensType, OpenType, OneChanged
<1>15. PICK next : next = [open EXCEPT ![a] = after]
  OBVIOUS
<1>16. ASSUME NEW u \in Users
       PROVE  /\ UsdNeeds(next, u, fee_schedule.maker_fee_bps) =
                   UsdNeeds(open, u, fee_schedule.maker_fee_bps)
                   - (IF u = user /\ o.side = "bid" THEN n ELSE 0)
              /\ \A c \in Listed : NeedsOf(next[c], u, "ask", 0) = NeedsOf(open[c], u, "ask", 0)
                   - (IF c = a /\ u = user /\ o.side = "ask" THEN n ELSE 0)
  <2>1. fee_schedule.maker_fee_bps \in Nat
    BY FeeRates
  <2>2. NeedAt(after, id, u, "bid", fee_schedule.maker_fee_bps) = 0 /\ NeedAt(after, id, u, "ask", 0) = 0
    BY <1>14 DEF NeedAt
  <2>3. /\ NeedAt(open[a], id, u, "bid", fee_schedule.maker_fee_bps) =
             IF u = user /\ o.side = "bid" THEN n ELSE 0
        /\ NeedAt(open[a], id, u, "ask", 0) = IF u = user /\ o.side = "ask" THEN n ELSE 0
    BY <1>7, <1>8, <1>13 DEF NeedAt
  <2>4. /\ UsdNeeds(next, u, fee_schedule.maker_fee_bps) =
             UsdNeeds(open, u, fee_schedule.maker_fee_bps)
             - NeedAt(open[a], id, u, "bid", fee_schedule.maker_fee_bps)
             + NeedAt(after, id, u, "bid", fee_schedule.maker_fee_bps)
        /\ \A c \in Listed : NeedsOf(next[c], u, "ask", 0) = NeedsOf(open[c], u, "ask", 0)
             - (IF c = a THEN NeedAt(open[a], id, u, "ask", 0) ELSE 0)
             + (IF c = a THEN NeedAt(after, id, u, "ask", 0) ELSE 0)
    <3>1. BookChanged(open, next, a, after, id)
      BY <1>13, <1>14, <1>15 DEF BookChanged
    <3> QED BY <2>1, <3>1, AllNeedsChange
  <2>5. UsdNeeds(open, u, fee_schedule.maker_fee_bps) \in Nat
        /\ \A c \in Listed : NeedsOf(open[c], u, "ask", 0) \in Nat
    BY <1>13, <2>1, UsdNeedsType, NeedsType DEF OpensType
  <2> QED BY <2>2, <2>3, <2>4, <2>5
<1>17. \A c \in Listed : \A x \in DOMAIN books'[c].orders :
         x \in DOMAIN books[c].orders /\ books'[c].orders[x] = books[c].orders[x]
  BY <1>1 DEF Without
<1>18. ASSUME NEW u \in Users
       PROVE  /\ UsdNeeds(next, u, fee_schedule.maker_fee_bps) <= usd'[u].locked
              /\ usd'[u].locked - UsdNeeds(next, u, fee_schedule.maker_fee_bps)
                   <= IF fee_schedule.maker_fee_bps = 0 THEN 0 ELSE maker_fills[u]
              /\ \A c \in Listed : stock'[c][u].locked = NeedsOf(next[c], u, "ask", 0)
  <2>1. u \in Accounts /\ usd[u].locked \in Int /\ \A c \in Listed : stock[c][u].locked \in Int
    BY <1>4, BalanceNumbers
  <2>2. /\ UsdNeeds(open, u, fee_schedule.maker_fee_bps) \in Nat
        /\ \A c \in Listed : NeedsOf(open[c], u, "ask", 0) \in Nat
    BY <1>13, FeeRates, UsdNeedsType, NeedsType DEF OpensType
  <2>3. /\ UsdNeeds(open, u, fee_schedule.maker_fee_bps) <= usd[u].locked
        /\ usd[u].locked - UsdNeeds(open, u, fee_schedule.maker_fee_bps)
             <= IF fee_schedule.maker_fee_bps = 0 THEN 0 ELSE maker_fills[u]
        /\ \A c \in Listed : stock[c][u].locked = NeedsOf(open[c], u, "ask", 0)
    BY <1>4, <1>12 DEF IdleLocks
  <2>4. usd'[u].locked = usd[u].locked - (IF u = user /\ o.side = "bid" THEN n ELSE 0)
        /\ \A c \in Listed : stock'[c][u].locked = stock[c][u].locked
             - (IF c = a /\ u = user /\ o.side = "ask" THEN n ELSE 0)
    BY <1>10, <2>1
  <2>5. usd'[u].locked - UsdNeeds(next, u, fee_schedule.maker_fee_bps) =
          usd[u].locked - UsdNeeds(open, u, fee_schedule.maker_fee_bps)
        /\ usd'[u].locked \in Int /\ UsdNeeds(next, u, fee_schedule.maker_fee_bps) \in Int
    BY <1>16, <2>1, <2>2, <2>4
  <2>6. \A c \in Listed : stock'[c][u].locked = NeedsOf(next[c], u, "ask", 0)
    BY <1>16, <2>3, <2>4
  <2>7. UsdNeeds(next, u, fee_schedule.maker_fee_bps) <= usd'[u].locked
    BY <2>1, <2>2, <2>3, <2>5
  <2>8. usd'[u].locked - UsdNeeds(next, u, fee_schedule.maker_fee_bps)
          <= IF fee_schedule.maker_fee_bps = 0 THEN 0 ELSE maker_fills[u]
    BY <2>3, <2>5
  <2> QED BY <2>6, <2>7, <2>8
<1>19. \A c \in Listed : \A x \in DOMAIN books'[c].orders :
         FitsWord(books'[c].orders[x].price * books'[c].orders[x].remaining_qty, fee_schedule)
  BY <1>4, <1>17 DEF IdleLocks
<1>20. OpenIn' = next
  BY <1>13, <1>15
<1>21. IdleLocks'
  BY <1>1, <1>2, <1>11, <1>18, <1>19, <1>20 DEF IdleLocks
<1> QED BY <1>1, <1>3, <1>21, IdleLocksEnoughNext

-----------------------------------------------------------------------------
\* An order begins.

\* What an accepted order is, for its locks.
LEMMA AcceptedLocks ==
  ASSUME EngineInv, PricesInv, NEW user \in Users, NEW r \in Requests, HandleOrder(user, r)
  PROVE  /\ phase = "idle" /\ ~InCall /\ InCall' /\ EngineInv'
         /\ r.asset \in Listed /\ r.side \in Sides /\ LockOf(r) \in Nat
         /\ r.price \in Prices /\ r.qty \in Quantities /\ r.type \in {"limit", "market"}
         /\ r.price \in Nat /\ r.qty \in Nat
         /\ Move(Lock, user, r.asset, r.side, LockOf(r))
         /\ taker'.user_id = user /\ taker'.side = r.side /\ taker'.remaining_qty = r.qty
         /\ taker'.limit = LimitOf(r)
         /\ taker'.tif = IF r.type = "limit" THEN r.tif ELSE "ioc"
         /\ r.type = "limit" => LimitOf(r) = r.price
         /\ call'.asset = r.asset /\ call'.lock = LockOf(r) /\ call'.spent = 0 /\ call'.settled = 0
         /\ results' = <<>> /\ OpenIn' = OpenIn
         /\ \A a \in Listed : books'[a].orders = books[a].orders
         /\ (phase' = "matching" \/ (phase' = "settling" /\ taker'.tif = "fok"))
         /\ ~Rested'
         /\ UNCHANGED <<fee_schedule, maker_fills>>
<1>1. /\ phase = "idle" /\ InCall' /\ r.asset \in Listed /\ r.side \in Sides /\ LockOf(r) \in Nat
      /\ taker'.user_id = user /\ taker'.side = r.side
      /\ call'.asset = r.asset /\ call'.lock = LockOf(r) /\ call'.spent = 0 /\ call'.settled = 0
      /\ results' = <<>>
  BY AcceptedOrder
<1>2. EngineInv' /\ \A a \in Listed : books'[a].orders = books[a].orders
  BY HandleOrderEngineInv
<1>3. /\ OpenIn' = OpenIn /\ taker'.order_id = next_order_id
      /\ \A a \in Listed : next_order_id \notin DOMAIN OpenIn[a]
  BY HandleOrderTrades
<1>4. /\ r.price \in Prices /\ r.qty \in Quantities /\ r.type \in {"limit", "market"}
      /\ r.price \in Nat /\ r.qty \in Nat
  BY AmountsAssumption DEF Requests
<1>5. /\ taker'.remaining_qty = r.qty /\ taker'.limit = LimitOf(r)
      /\ taker'.tif = IF r.type = "limit" THEN r.tif ELSE "ioc"
      /\ (phase' = "matching" \/ (phase' = "settling" /\ taker'.tif = "fok"))
      /\ UNCHANGED <<fee_schedule, maker_fills>>
  <2>1. PICK tif : tif = IF r.type = "limit" THEN r.tif ELSE "ioc"
    OBVIOUS
  <2>2. taker' = [order_id |-> next_order_id, user_id |-> user, side |-> r.side,
                  limit |-> LimitOf(r), qty |-> r.qty, remaining_qty |-> r.qty, tif |-> tif]
    BY <2>1, Zenon DEF HandleOrder
  <2>3. UNCHANGED <<fee_schedule, maker_fills>>
    BY DEF HandleOrder
  <2>4. phase' = "matching" \/ (phase' = "settling" /\ tif = "fok")
    <3>1. PICK killed \in BOOLEAN :
            killed = (tif = "fok" /\ ~CanFillQuantity(books[r.asset], r.side, r.price, r.qty))
      OBVIOUS
    <3>2. phase' = IF killed THEN "settling" ELSE "matching"
      BY <2>1, <3>1 DEF HandleOrder
    <3> QED BY <3>1, <3>2
  <2> QED BY <2>1, <2>2, <2>3, <2>4
<1>6. Move(Lock, user, r.asset, r.side, LockOf(r))
  BY DEF HandleOrder
<1>7. r.type = "limit" => LimitOf(r) = r.price
  BY DEF LimitOf
<1>8. ~Rested'
  <2>1. taker'.order_id \notin DOMAIN books'[r.asset].orders
    BY <1>1, <1>2, <1>3, OpenInIs
  <2> QED BY <1>1, <2>1 DEF Rested
<1>9. ~InCall
  BY <1>1 DEF InCall
<1> QED BY <1>1, <1>2, <1>3, <1>4, <1>5, <1>6, <1>7, <1>8, <1>9

\* What a market order is quoted does not wrap: it costs no more than all of it
\* at the highest price that rests.
LEMMA QuoteFits ==
  ASSUME ProductsFit, EngineInv, PricesInv, NEW r \in Requests, r.asset \in Listed,
         NEW s \in Sides, NEW limit
  PROVE  /\ Sweep(books[r.asset], s, limit, r.qty).cost \in Nat
         /\ FitsWord(Sweep(books[r.asset], s, limit, r.qty).cost, fee_schedule)
<1>1. /\ r.price \in Prices /\ r.qty \in Quantities /\ r.price \in Nat /\ r.qty \in Nat
      /\ Prices \subseteq Nat
  BY AmountsAssumption DEF Requests
<1>2. PICK b : b = books[r.asset]
  OBVIOUS
<1>3. WellFormed(b, Users) /\ \A id \in DOMAIN b.orders : b.orders[id].price \in Prices
  BY <1>2 DEF EngineInv, BooksInv, PricesInv
<1>4. Walkable(b, s)
  BY <1>3, WellFormedWalkable
<1>5. \A p \in DOMAIN b.levels[s] : p \in Prices
  <2> TAKE p \in DOMAIN b.levels[s]
  <2>1. b.levels[s][p] \in Seq(Nat) /\ b.levels[s][p] # <<>>
    BY <1>3 DEF WellFormed, BookType, LevelsHoldOrders
  <2>2. 1 \in 1..Len(b.levels[s][p])
    BY <2>1
  <2>3. b.levels[s][p][1] \in DOMAIN b.orders /\ b.orders[b.levels[s][p][1]].price = p
    BY <1>3, <2>2 DEF WellFormed, LevelsHoldOrders
  <2> QED BY <1>3, <2>3
<1>6. PICK top \in Prices : \A p \in DOMAIN b.levels[s] : p <= top
  <2>1. CASE DOMAIN b.levels[s] = {}
    BY <1>1, <2>1
  <2>2. CASE DOMAIN b.levels[s] # {}
    <3>1. DOMAIN b.levels[s] \in SUBSET Int /\ IsFiniteSet(DOMAIN b.levels[s])
      BY <1>4 DEF Walkable
    <3>2. PICK m \in DOMAIN b.levels[s] : \A x \in DOMAIN b.levels[s] : x <= m
      BY <2>2, <3>1, FiniteSetHasMax
    <3> QED BY <1>5, <3>2
  <2> QED BY <2>1, <2>2
<1>7. PICK cost : cost = Sweep(b, s, limit, r.qty).cost
  OBVIOUS
<1>8. cost \in Nat /\ cost <= top * r.qty
  BY <1>1, <1>4, <1>6, <1>7, SweepCosts
<1>9. FitsWord(top * r.qty, fee_schedule) /\ top * r.qty \in Nat
  BY <1>1, <1>6, FeeRates, ProductFacts DEF ProductsFit
<1>10. FitsWord(cost, fee_schedule)
  BY <1>8, <1>9, FeeRates, FitsLess
<1> QED BY <1>2, <1>7, <1>8, <1>10

\* A bid locks a cost and a fee on it, one that is enough.
LEMMA LockOfIs ==
  ASSUME ProductsFit, EngineInv, PricesInv, NEW r \in Requests, r.asset \in Listed,
         r.side = "bid"
  PROVE  \E cost, rate \in Nat :
           /\ LockOf(r) = cost + Share(cost, rate)
           /\ fee_schedule.taker_fee_bps <= rate
           /\ r.type = "limit" => fee_schedule.maker_fee_bps <= rate /\ cost = r.price * r.qty
           /\ r.type # "limit" =>
                cost = Sweep(books[r.asset], "ask", LimitOf(r), r.qty).cost
<1>1. /\ r.price \in Prices /\ r.qty \in Quantities /\ r.price \in Nat /\ r.qty \in Nat
  BY AmountsAssumption DEF Requests
<1>2. /\ fee_schedule \in FeeSchedules
      /\ fee_schedule.maker_fee_bps \in Nat /\ fee_schedule.taker_fee_bps \in Nat
  BY FeeRates
<1>3. CASE r.type = "limit"
  <2>1. PICK cost \in Nat : cost = r.price * r.qty
    BY <1>1, ProductFacts
  <2>2. FitsWord(cost, fee_schedule)
    BY <1>1, <1>2, <2>1 DEF ProductsFit
  <2>3. PICK rate \in {fee_schedule.maker_fee_bps, fee_schedule.taker_fee_bps} :
          rate = IF fee_schedule.taker_fee_bps > fee_schedule.maker_fee_bps
                 THEN fee_schedule.taker_fee_bps ELSE fee_schedule.maker_fee_bps
    OBVIOUS
  <2>4. /\ rate \in Nat /\ fee_schedule.taker_fee_bps <= rate
        /\ fee_schedule.maker_fee_bps <= rate
    BY <1>2, <2>3
  <2>5. LockOf(r) = Wrap(Wrap(cost) + Fee(Wrap(cost), rate))
    BY <1>3, <2>1, <2>3 DEF LockOf, LimitLock
  <2>6. Wrap(cost) = cost /\ Fee(cost, rate) = Share(cost, rate)
        /\ Wrap(cost + Share(cost, rate)) = cost + Share(cost, rate)
    BY <1>2, <2>2, <2>3, FitsFacts
  <2> QED BY <1>3, <2>1, <2>4, <2>5, <2>6
<1>4. CASE r.type # "limit"
  <2>1. PICK cost : cost = Sweep(books[r.asset], "ask", LimitOf(r), r.qty).cost
    OBVIOUS
  <2>2. cost \in Nat /\ FitsWord(cost, fee_schedule)
    BY <2>1, QuoteFits DEF Sides
  <2>3. PICK rate : rate = fee_schedule.taker_fee_bps
    OBVIOUS
  <2>4. rate \in Nat /\ fee_schedule.taker_fee_bps <= rate
    BY <1>2, <2>3
  <2>5. LockOf(r) = Wrap(Wrap(cost) + Fee(Wrap(cost), rate))
    BY <1>4, <2>1, <2>3 DEF LockOf, QuoteOf, Opposite, TakerFee
  <2>6. Wrap(cost) = cost /\ Fee(cost, rate) = Share(cost, rate)
        /\ Wrap(cost + Share(cost, rate)) = cost + Share(cost, rate)
    BY <1>2, <2>2, <2>3, FitsFacts
  <2> QED BY <1>4, <2>1, <2>2, <2>4, <2>5, <2>6
<1> QED BY <1>3, <1>4

LEMMA HandleOrderAmounts ==
  ASSUME ProductsFit, EngineInv, PricesInv, LocksInv,
         NEW user \in Users, NEW r \in Requests, HandleOrder(user, r)
  PROVE  AmountsInv'
<1>1. /\ EngineInv' /\ r.price \in Prices /\ r.qty \in Quantities
      /\ taker'.remaining_qty = r.qty /\ taker'.limit = LimitOf(r)
      /\ taker'.tif = IF r.type = "limit" THEN r.tif ELSE "ioc"
      /\ r.type = "limit" => LimitOf(r) = r.price
      /\ results' = <<>>
      /\ \A a \in Listed : books'[a].orders = books[a].orders
      /\ (phase' = "matching" \/ (phase' = "settling" /\ taker'.tif = "fok"))
      /\ ~Rested'
      /\ fee_schedule' = fee_schedule
  BY AcceptedLocks
<1>2. \A a \in Listed : \A id \in DOMAIN books'[a].orders :
        FitsWord(books'[a].orders[id].price * books'[a].orders[id].remaining_qty, fee_schedule')
  BY <1>1 DEF LocksInv, AmountsInv
<1>3. taker'.tif = "gtc" => FitsWord(taker'.limit * taker'.remaining_qty, fee_schedule')
  BY <1>1, FeeRates DEF ProductsFit
<1>4. Len(results') = 0
  BY <1>1
<1>5. phase' = "settling" => (Rested' <=> taker'.tif = "gtc" /\ taker'.remaining_qty > 0)
  BY <1>1
<1> QED BY <1>2, <1>3, <1>4, <1>5 DEF AmountsInv

LEMMA HandleOrderBudget ==
  ASSUME ProductsFit, EngineInv, PricesInv,
         NEW user \in Users, NEW r \in Requests, HandleOrder(user, r)
  PROVE  BudgetInv'
<1>1. /\ r.asset \in Listed /\ r.price \in Nat /\ r.qty \in Nat /\ r.type \in {"limit", "market"}
      /\ taker'.user_id = user /\ taker'.side = r.side /\ taker'.remaining_qty = r.qty
      /\ taker'.limit = LimitOf(r)
      /\ taker'.tif = IF r.type = "limit" THEN r.tif ELSE "ioc"
      /\ r.type = "limit" => LimitOf(r) = r.price
      /\ call'.asset = r.asset /\ call'.lock = LockOf(r) /\ call'.spent = 0 /\ call'.settled = 0
      /\ results' = <<>>
      /\ (phase' = "matching" \/ (phase' = "settling" /\ taker'.tif = "fok"))
      /\ fee_schedule' = fee_schedule
  BY AcceptedLocks
<1>2. SUFFICES ASSUME r.side = "bid"
      PROVE \E value, cost, rate \in Nat :
              /\ call'.lock = cost + Share(cost, rate)
              /\ fee_schedule'.taker_fee_bps <= rate
              /\ call'.spent + After(PaidBy(results', taker'.user_id, fee_schedule'), call'.settled)
                   <= value + Share(value, fee_schedule'.taker_fee_bps)
              /\ \/ /\ taker'.limit \in Nat
                    /\ fee_schedule'.maker_fee_bps <= rate
                    /\ value + taker'.limit * taker'.remaining_qty <= cost
                 \/ /\ taker'.tif = "ioc"
                    /\ value + (IF phase' = "matching"
                                THEN Sweep(books'[call'.asset], "ask", taker'.limit,
                                           taker'.remaining_qty).cost
                                ELSE 0) <= cost
  BY <1>1 DEF BudgetInv
<1>3. PICK cost, rate \in Nat :
        /\ LockOf(r) = cost + Share(cost, rate)
        /\ fee_schedule.taker_fee_bps <= rate
        /\ r.type = "limit" => fee_schedule.maker_fee_bps <= rate /\ cost = r.price * r.qty
        /\ r.type # "limit" => cost = Sweep(books[r.asset], "ask", LimitOf(r), r.qty).cost
  BY <1>1, <1>2, LockOfIs
<1>4. fee_schedule \in FeeSchedules /\ fee_schedule.taker_fee_bps \in Nat
  BY FeeRates
<1>5. call'.spent + After(PaidBy(results', taker'.user_id, fee_schedule'), call'.settled)
        <= 0 + Share(0, fee_schedule'.taker_fee_bps)
  <2>1. <<>> \in Seq(Trades) /\ Len(<<>>) = 0 /\ 0 \in 0..Len(<<>>)
    OBVIOUS
  <2>2. After(PaidBy(<<>>, user, fee_schedule), 0) = 0
    BY <1>4, <2>1, TradeSums
  <2>3. Share(0, fee_schedule.taker_fee_bps) = 0
    BY <1>4, ShareFacts
  <2> QED BY <1>1, <2>2, <2>3
<1>6. CASE r.type = "limit"
  <2>1. 0 + taker'.limit * taker'.remaining_qty <= cost
    BY <1>1, <1>3, <1>6
  <2> QED BY <1>1, <1>3, <1>5, <1>6, <2>1
<1>7. CASE r.type # "limit"
  <2>1. taker'.tif = "ioc" /\ phase' = "matching"
    BY <1>1, <1>7
  <2>2. WellFormed(books[r.asset], Users) /\ next_order_id \in Nat
    BY <1>1 DEF EngineInv, BooksInv
  <2>3. books'[r.asset] = Reserve(books[r.asset], next_order_id)
    <3>1. books' = [books EXCEPT ![r.asset] = Reserve(books[r.asset], next_order_id)]
      BY DEF HandleOrder
    <3>2. r.asset \in DOMAIN books
      BY <1>1 DEF EngineInv, BooksInv
    <3> QED BY <3>1, <3>2
  <2>4. /\ books'[r.asset].levels = books[r.asset].levels
        /\ books'[r.asset].orders = books[r.asset].orders
    BY <2>2, <2>3, ReserveWellFormed
  <2>5. Walkable(books[r.asset], "ask")
    BY <2>2, WellFormedWalkable DEF Sides
  <2>6. Sweep(books'[r.asset], "ask", LimitOf(r), r.qty).cost = cost
    BY <1>1, <1>3, <1>7, <2>4, <2>5, SweepSame
  <2>7. 0 + Sweep(books'[call'.asset], "ask", taker'.limit, taker'.remaining_qty).cost <= cost
    BY <1>1, <2>6
  <2> QED BY <1>1, <1>3, <1>5, <2>1, <2>7
<1> QED BY <1>6, <1>7

LEMMA HandleOrderLocks ==
  ASSUME ProductsFit, EngineInv, PricesInv, LocksInv,
         NEW user \in Users, NEW r \in Requests, HandleOrder(user, r)
  PROVE  LocksInv'
<1>1. /\ ~InCall /\ InCall' /\ r.asset \in Listed /\ r.side \in Sides /\ LockOf(r) \in Nat
      /\ r.qty \in Nat /\ Move(Lock, user, r.asset, r.side, LockOf(r))
      /\ taker'.user_id = user /\ taker'.side = r.side /\ taker'.remaining_qty = r.qty
      /\ call'.asset = r.asset /\ call'.lock = LockOf(r) /\ call'.spent = 0 /\ call'.settled = 0
      /\ results' = <<>> /\ OpenIn' = OpenIn
      /\ ~Rested'
      /\ fee_schedule' = fee_schedule /\ maker_fills' = maker_fills
  BY AcceptedLocks
<1>2. IdleLocks /\ AvailableInv /\ BalancesType
  BY <1>1, LocksWhenIdle DEF LocksInv, AvailableInv
<1>3. PICK n \in Nat : n = LockOf(r)
  BY <1>1
<1>4. Move(Lock, user, r.asset, r.side, n) /\ n \in Int
  BY <1>1, <1>3
<1>5. AvailableInv'
  <2>1. AvailableTo(user, r) >= LockOf(r)
    <3>1. Verdict(user, r) = "accepted"
      BY DEF HandleOrder
    <3>2. ~(AvailableTo(user, r) < LockOf(r))
      BY <3>1 DEF Verdict
    <3>3. AvailableTo(user, r) \in Int
      BY <1>1, <1>2, BalanceNumbers DEF AvailableTo
    <3> QED BY <1>1, <3>2, <3>3
  <2>2. /\ r.side = "bid" => n <= usd[user].available
        /\ r.side = "ask" => n <= stock[r.asset][user].available
    BY <1>2, <1>3, <2>1, BalanceNumbers DEF AvailableTo
  <2> QED BY <1>1, <1>2, <1>4, <2>2, MoveAvailable
<1>6. /\ \A u \in Accounts :
           usd'[u].locked = usd[u].locked + (IF u = user /\ r.side = "bid" THEN n ELSE 0)
      /\ \A c \in Listed, u \in Accounts :
           stock'[c][u].locked = stock[c][u].locked
             + (IF c = r.asset /\ u = user /\ r.side = "ask" THEN n ELSE 0)
  BY <1>1, <1>2, <1>4, MoveIs
<1>7. ASSUME NEW u \in Users
      PROVE  /\ Escrow(u)' = IF u = user /\ r.side = "bid" THEN n ELSE 0
             /\ OpenFills(u)' = 0
             /\ \A c \in Listed :
                  Undelivered(u, c)' = IF c = r.asset /\ u = user /\ r.side = "ask" THEN n ELSE 0
  <2>1. <<>> \in Seq(Trades) /\ Len(<<>>) = 0 /\ 0 \in 0..Len(<<>>)
    OBVIOUS
  <2>2. /\ After(PaidBy(<<>>, u, fee_schedule), 0) = 0
        /\ After(SoldBy(<<>>, u), 0) = 0
        /\ After(FillsOf(<<>>, u), 0) = 0
    BY <2>1, FeeRates, TradeSums
  <2>3. NeededLocked' = 0
    BY <1>1 DEF NeededLocked
  <2>4. Escrow(u)' = IF u = user /\ r.side = "bid" THEN n ELSE 0
    BY <1>1, <1>3, <2>2, <2>3 DEF Escrow, Sides
  <2>5. OpenFills(u)' = 0
    BY <1>1, <2>2 DEF OpenFills
  <2>6. r.side = "ask" => n = r.qty
    BY <1>3 DEF LockOf, LimitLock
  <2>7. ASSUME NEW c \in Listed
        PROVE  Undelivered(u, c)' = IF c = r.asset /\ u = user /\ r.side = "ask" THEN n ELSE 0
    BY <1>1, <2>2, <2>6 DEF Undelivered
  <2> QED BY <2>4, <2>5, <2>7
<1>8. ASSUME NEW u \in Users
      PROVE  /\ (Dust(u) >= 0)'
             /\ (Dust(u) <= IF fee_schedule.maker_fee_bps = 0 THEN 0 ELSE maker_fills[u] + OpenFills(u))'
             /\ (\A a \in Listed :
                   stock[a][u].locked = NeedsOf(OpenIn[a], u, "ask", 0) + Undelivered(u, a))'
  <2>1. u \in Accounts /\ usd[u].locked \in Int /\ maker_fills[u] \in Nat
    BY <1>2, BalanceNumbers DEF AvailableInv
  <2>2. PICK needs \in Nat : needs = UsdNeeds(OpenIn, u, fee_schedule.maker_fee_bps)
    BY FeeRates, OpenInType, UsdNeedsType
  <2>3. /\ needs <= usd[u].locked
        /\ usd[u].locked - needs <= IF fee_schedule.maker_fee_bps = 0 THEN 0 ELSE maker_fills[u]
        /\ \A a \in Listed : stock[a][u].locked = NeedsOf(OpenIn[a], u, "ask", 0)
    BY <1>2, <2>2 DEF IdleLocks
  <2>4. Dust(u)' = usd'[u].locked - needs - Escrow(u)'
    BY <1>1, <2>2 DEF Dust
  <2>5. Dust(u)' = usd[u].locked - needs
    BY <1>6, <1>7, <2>1, <2>4
  <2>6. /\ Dust(u)' >= 0
        /\ Dust(u)' <= IF fee_schedule'.maker_fee_bps = 0 THEN 0 ELSE maker_fills'[u] + OpenFills(u)'
    BY <1>1, <1>7, <2>1, <2>3, <2>5
  <2>7. ASSUME NEW a \in Listed
        PROVE  stock'[a][u].locked = NeedsOf(OpenIn'[a], u, "ask", 0) + Undelivered(u, a)'
    BY <1>1, <1>6, <1>7, <2>1, <2>3
  <2> QED BY <2>6, <2>7
<1>9. LocksRight'
  BY <1>8 DEF LocksRight
<1> QED BY <1>5, <1>9, HandleOrderAmounts, HandleOrderBudget DEF LocksInv

-----------------------------------------------------------------------------
\* A fill.

\* The order o of the map before has n less after, or is gone with nothing left.
ShrunkBy(after, m, o, n) ==
  \/ m \notin DOMAIN after /\ o.remaining_qty = n
  \/ /\ m \in DOMAIN after
     /\ n < o.remaining_qty
     /\ after[m] = [o EXCEPT !.remaining_qty = o.remaining_qty - n]

\* A filled bid needs less by the price of the fill, the fee on it and, as fees
\* round down, at most one more; a filled ask by the fill.
LEMMA FillNeeds ==
  ASSUME NEW before, NEW m \in DOMAIN before, NEW o \in Orders(Users), o = before[m],
         NEW after, NEW n \in Nat, ShrunkBy(after, m, o, n), NEW u, NEW bps \in Nat
  PROVE  \E d \in {0, 1} :
           /\ bps = 0 => d = 0
           /\ NeedAt(before, m, u, "bid", bps) = NeedAt(after, m, u, "bid", bps)
                + (IF o.user_id = u /\ o.side = "bid"
                   THEN o.price * n + Share(o.price * n, bps) + d ELSE 0)
<1>1. PICK p \in Nat : p = o.price
  BY DEF Orders
<1>2. PICK r \in Nat : r = o.remaining_qty
  BY DEF Orders
<1>3. NeedAt(before, m, u, "bid", bps) =
        (IF o.user_id = u /\ o.side = "bid" THEN p * r + Share(p * r, bps) ELSE 0)
  BY <1>1, <1>2 DEF NeedAt, NeedOf
<1>4. PICK x \in Nat : x = p * n
  BY ProductFacts
<1>5. Share(x, bps) \in Nat
  BY ShareFacts
<1>6. CASE m \notin DOMAIN after
  <2>1. r = n
    BY <1>2, <1>6 DEF ShrunkBy
  <2>2. NeedAt(after, m, u, "bid", bps) = 0
    BY <1>6 DEF NeedAt
  <2>3. p * r + Share(p * r, bps) = x + Share(x, bps) + 0
    BY <1>4, <1>5, <2>1
  <2> QED BY <1>1, <1>3, <1>4, <1>5, <2>1, <2>2, <2>3
<1>7. CASE m \in DOMAIN after
  <2>1. n < r /\ after[m] = [o EXCEPT !.remaining_qty = r - n]
    BY <1>2, <1>7 DEF ShrunkBy
  <2>2. PICK k \in Nat : k = r - n
    BY <2>1
  <2>3. /\ after[m].user_id = o.user_id /\ after[m].side = o.side /\ after[m].price = p
        /\ after[m].remaining_qty = k
    BY <1>1, <2>1, <2>2 DEF Orders
  <2>4. PICK y \in Nat : y = p * k
    BY ProductFacts
  <2>5. NeedAt(after, m, u, "bid", bps) =
          (IF o.user_id = u /\ o.side = "bid" THEN y + Share(y, bps) ELSE 0)
    BY <1>7, <2>3, <2>4 DEF NeedAt, NeedOf
  <2>6. p * r = x + y
    <3>1. r = n + k
      BY <2>2
    <3>2. p * (n + k) = p * n + p * k
      BY ProductFacts
    <3> QED BY <1>4, <2>4, <3>1, <3>2
  <2>7. /\ Share(y, bps) \in Nat /\ Share(x + y, bps) \in Nat
        /\ Share(x, bps) + Share(y, bps) <= Share(x + y, bps)
        /\ Share(x + y, bps) <= Share(x, bps) + Share(y, bps) + 1
        /\ bps = 0 => Share(x + y, bps) = 0 /\ Share(x, bps) = 0 /\ Share(y, bps) = 0
    <3>1. x + y \in Nat
      OBVIOUS
    <3>2. Share(x + y, 0) = 0 /\ Share(x, 0) = 0 /\ Share(y, 0) = 0
      BY <3>1, ShareFacts
    <3>3. /\ Share(y, bps) \in Nat /\ Share(x + y, bps) \in Nat
          /\ Share(x, bps) + Share(y, bps) <= Share(x + y, bps)
          /\ Share(x + y, bps) <= Share(x, bps) + Share(y, bps) + 1
      BY <3>1, ShareFacts
    <3> QED BY <3>2, <3>3
  <2>8. PICK d \in {0, 1} : /\ bps = 0 => d = 0
                            /\ Share(x + y, bps) = Share(x, bps) + Share(y, bps) + d
    <3>1. Share(x + y, bps) - Share(x, bps) - Share(y, bps) \in {0, 1}
      BY <1>5, <2>7
    <3>2. Share(x + y, bps) = Share(x, bps) + Share(y, bps)
            + (Share(x + y, bps) - Share(x, bps) - Share(y, bps))
      BY <1>5, <2>7
    <3>3. bps = 0 => Share(x + y, bps) - Share(x, bps) - Share(y, bps) = 0
      BY <2>7
    <3> QED BY <3>1, <3>2, <3>3
  <2>9. p * r + Share(p * r, bps) = y + Share(y, bps) + (x + Share(x, bps) + d)
    BY <1>5, <2>6, <2>7, <2>8
  <2>10. NeedAt(before, m, u, "bid", bps) = NeedAt(after, m, u, "bid", bps)
           + (IF o.user_id = u /\ o.side = "bid" THEN x + Share(x, bps) + d ELSE 0)
    BY <1>3, <2>5, <2>9
  <2> QED BY <1>1, <1>4, <2>8, <2>10
<1> QED BY <1>6, <1>7

LEMMA FillAskNeeds ==
  ASSUME NEW before, NEW m \in DOMAIN before, NEW o \in Orders(Users), o = before[m],
         NEW after, NEW n \in Nat, ShrunkBy(after, m, o, n), NEW u
  PROVE  NeedAt(before, m, u, "ask", 0) = NeedAt(after, m, u, "ask", 0)
           + (IF o.user_id = u /\ o.side = "ask" THEN n ELSE 0)
<1>1. PICK r \in Nat : r = o.remaining_qty
  BY DEF Orders
<1>2. NeedAt(before, m, u, "ask", 0) = (IF o.user_id = u /\ o.side = "ask" THEN r ELSE 0)
  BY <1>1 DEF NeedAt, NeedOf
<1>3. CASE m \notin DOMAIN after
  BY <1>1, <1>2, <1>3 DEF NeedAt, ShrunkBy
<1>4. CASE m \in DOMAIN after
  <2>1. /\ n < r /\ after[m].remaining_qty = r - n
        /\ after[m].user_id = o.user_id /\ after[m].side = o.side
    BY <1>1, <1>4 DEF ShrunkBy, Orders
  <2>2. NeedAt(after, m, u, "ask", 0) = (IF o.user_id = u /\ o.side = "ask" THEN r - n ELSE 0)
    BY <1>4, <2>1 DEF NeedAt, NeedOf
  <2> QED BY <1>2, <2>1, <2>2
<1> QED BY <1>3, <1>4

LEMMA OpenInTypeNext == EngineInv' => OpensType(OpenIn')
<1>1. (EngineInv => OpensType(OpenIn))'
  BY OpenInType, PTL
<1> QED BY <1>1

\* An iteration of the matching loop: the trade with the order o, of id m, of
\* the book of a.
IsMatch(a, t, trade, after, m, o) ==
  /\ a \in Listed /\ t \in Takers /\ trade \in Trades /\ o \in Orders(Users)
  /\ a = call.asset /\ t = taker /\ phase = "matching" /\ call.settled = 0
  /\ taker' = [t EXCEPT !.remaining_qty = t.remaining_qty - trade.qty]
  /\ results' = Append(results, trade)
  /\ UNCHANGED <<usd, stock, fee_schedule, phase, call, maker_fills>>
  /\ BookChanged(OpenIn, OpenIn', a, after, m)
  /\ m \in DOMAIN OpenIn[a] /\ OpenIn[a][m] = o /\ ShrunkBy(after, m, o, trade.qty)
  /\ o.side = Opposite(t.side) /\ trade.taker_side = t.side /\ trade.price = o.price
  /\ trade.qty \in 1..t.remaining_qty
  /\ trade.buyer = (IF t.side = "bid" THEN t.user_id ELSE o.user_id)
  /\ trade.seller = (IF t.side = "bid" THEN o.user_id ELSE t.user_id)
  /\ t.side = "bid" /\ t.limit \in Nat => trade.price <= t.limit
  /\ ~Rested /\ ~Rested'
  /\ \E before, now \in Taken :
       /\ before = Sweep(books[a], Opposite(t.side), t.limit, t.remaining_qty)
       /\ now = Sweep(books'[a], Opposite(t.side), t.limit, t.remaining_qty - trade.qty)
       /\ before.cost = now.cost + Value(trade)

LEMMA MatchStepIs ==
  ASSUME EngineInv, MatchStep
  PROVE  \E a, t, trade, after, m, o : IsMatch(a, t, trade, after, m, o)
<1>1. PICK a \in Listed : a = call.asset
  BY MatchStepTrade
<1>2. PICK t \in Takers : t = taker
  BY MatchStepTrade
<1>3. PICK b : b = books[a]
  OBVIOUS
<1>4. PICK m : m = Maker(b, t.side)
  OBVIOUS
<1>5. PICK n : n = FillQty(b, t)
  OBVIOUS
<1>6. PICK c : c = AfterFill(b, t)
  OBVIOUS
<1>7. PICK trade \in Trades : trade = TradeOf(b, t)
  BY <1>1, <1>2, <1>3, MatchStepTrade
<1>8. /\ WellFormed(b, Users) /\ n \in 1..t.remaining_qty /\ results' = Append(results, trade)
      /\ taker' = [t EXCEPT !.remaining_qty = t.remaining_qty - n]
  BY <1>1, <1>2, <1>3, <1>5, <1>7, MatchStepTrade
<1>9. Matches(b, t) /\ books' = [books EXCEPT ![a] = c]
  BY <1>1, <1>2, <1>3, <1>6 DEF MatchStep
<1>10. t.side \in Sides /\ t.remaining_qty \in Nat /\ t.user_id \in Users
  BY DEF Takers
<1>11. PICK s : s = Opposite(t.side)
  OBVIOUS
<1>12. PICK p : p = BestPrice(b, s)
  OBVIOUS
<1>13. /\ m \in DOMAIN b.orders /\ b.orders[m] \in Orders(Users) /\ b.orders[m].side = s
       /\ b.orders[m].price = p /\ p \in Nat
  BY <1>4, <1>8, <1>9, <1>10, <1>11, <1>12, MakerFacts DEF Matches
<1>14. PICK o \in Orders(Users) : o = b.orders[m]
  BY <1>13
<1>15. trade = [buyer          |-> IF t.side = "bid" THEN t.user_id ELSE o.user_id,
                seller         |-> IF t.side = "bid" THEN o.user_id ELSE t.user_id,
                price          |-> p,
                qty            |-> n,
                taker_order_id |-> t.order_id,
                maker_order_id |-> m,
                taker_side     |-> t.side]
  BY <1>4, <1>5, <1>7, <1>11, <1>12, <1>14 DEF TradeOf
<1>16. /\ trade.buyer = (IF t.side = "bid" THEN t.user_id ELSE o.user_id)
       /\ trade.seller = (IF t.side = "bid" THEN o.user_id ELSE t.user_id)
       /\ trade.price = p /\ trade.qty = n /\ trade.taker_side = t.side
  BY <1>15
<1>17. /\ books'[a] = c /\ \A d \in Listed \ {a} : books'[d] = books[d]
  BY <1>9 DEF EngineInv, BooksInv
<1>18. OpenIn' = [OpenIn EXCEPT ![a] = c.orders] /\ OpenIn[a] = b.orders
  BY <1>3, <1>17, OpenInExcept, OpenInIs
<1>19. EngineInv'
  BY MatchStepEngineInv
<1>20. n = (IF t.remaining_qty < o.remaining_qty THEN t.remaining_qty ELSE o.remaining_qty)
       /\ o.remaining_qty \in Nat /\ n \in Nat
  BY <1>4, <1>5, <1>8, <1>10, <1>14 DEF FillQty, Orders
<1>21. ShrunkBy(c.orders, m, o, n)
       /\ DOMAIN c.orders \ {m} = DOMAIN b.orders \ {m}
       /\ \A id \in DOMAIN b.orders \ {m} : c.orders[id] = b.orders[id]
  <2>1. DOMAIN b = {"levels", "orders", "next_order_id"}
    BY <1>8 DEF WellFormed, BookType
  <2>2. CASE o.remaining_qty = n
    <3>1. c.orders = Without(b.orders, m)
      BY <1>4, <1>5, <1>6, <1>14, <2>1, <2>2 DEF AfterFill
    <3> QED BY <2>2, <3>1 DEF Without, ShrunkBy
  <2>3. CASE o.remaining_qty # n
    <3>1. c.orders = [b.orders EXCEPT ![m].remaining_qty = b.orders[m].remaining_qty - n]
      BY <1>4, <1>5, <1>6, <1>14, <2>1, <2>3 DEF AfterFill
    <3>2. c.orders = [b.orders EXCEPT ![m] = [o EXCEPT !.remaining_qty = o.remaining_qty - n]]
      BY <1>14, <3>1
    <3>3. n < o.remaining_qty
      BY <1>10, <1>20, <2>3
    <3> QED BY <1>13, <3>2, <3>3 DEF ShrunkBy
  <2> QED BY <2>2, <2>3
<1>22. BookChanged(OpenIn, OpenIn', a, c.orders, m)
  <2>1. OpensType(OpenIn) /\ OpensType(OpenIn')
    BY <1>19, OpenInType, OpenInTypeNext
  <2>2. OpenIn'[a] = c.orders
    BY <1>17, OpenInNext
  <2>3. OpenType(c.orders)
    BY <2>1, <2>2 DEF OpensType
  <2>4. OneChanged(OpenIn[a], c.orders, m)
    BY <1>18, <1>21 DEF OneChanged
  <2> QED BY <1>18, <2>1, <2>3, <2>4 DEF BookChanged
<1>23. t.side = "bid" /\ t.limit \in Nat => p <= t.limit
  BY <1>9, <1>11, <1>12, <1>13 DEF Matches, Crosses, NoCap
<1>24. ~Rested /\ ~Rested'
  <2>1. \A id \in DOMAIN b.orders : id < t.order_id
    BY <1>1, <1>2, <1>3 DEF EngineInv, CallInv, IdsBelow, MatchStep
  <2>2. t.order_id \notin DOMAIN b.orders
    <3>1. t.order_id \in Nat
      BY DEF Takers
    <3> QED BY <2>1, <3>1
  <2>3. m # t.order_id /\ t.order_id \notin DOMAIN c.orders
    BY <1>13, <1>21, <2>2
  <2>4. taker'.order_id = t.order_id /\ call' = call
    BY <1>8 DEF Takers, MatchStep
  <2>5. books'[call'.asset].orders = c.orders
    BY <1>1, <1>17, <2>4
  <2> QED BY <1>1, <1>2, <1>3, <2>2, <2>3, <2>4, <2>5 DEF Rested
<1>25. \E before, now \in Taken :
         /\ before = Sweep(books[a], Opposite(t.side), t.limit, t.remaining_qty)
         /\ now = Sweep(books'[a], Opposite(t.side), t.limit, t.remaining_qty - n)
         /\ before.cost = now.cost + Value(trade)
  <2>1. Ahead(Sweep(b, s, t.limit, t.remaining_qty), Sweep(c, s, t.limit, t.remaining_qty - n),
              n, n * p)
    BY <1>5, <1>6, <1>8, <1>9, <1>10, <1>11, <1>12, SweepAfterFill
  <2>2. n * p = Value(trade)
    BY <1>13, <1>16, <1>20 DEF Value
  <2> QED BY <1>3, <1>11, <1>17, <2>1, <2>2 DEF Ahead
<1>26. /\ phase = "matching" /\ call.settled = 0
       /\ UNCHANGED <<usd, stock, fee_schedule, phase, call, maker_fills>>
  BY DEF MatchStep, EngineInv, CallInv
<1>27. IsMatch(a, t, trade, c.orders, m, o)
  BY <1>1, <1>2, <1>8, <1>11, <1>13, <1>14, <1>16, <1>18, <1>21, <1>22, <1>23, <1>24, <1>25, <1>26
     DEF IsMatch
<1> QED BY <1>27

\* The numbers in it.
LEMMA MatchNumbers ==
  ASSUME EngineInv, NEW a, NEW t, NEW trade, NEW after, NEW m, NEW o,
         IsMatch(a, t, trade, after, m, o)
  PROVE  /\ InCall /\ InCall' /\ a \in Listed /\ a = call.asset
         /\ trade.qty \in Nat /\ trade.qty >= 1 /\ trade.price \in Nat
         /\ o.price = trade.price /\ o.remaining_qty \in Nat /\ trade.qty <= o.remaining_qty
         /\ t.remaining_qty \in Nat /\ trade.qty <= t.remaining_qty
         /\ t.side \in Sides /\ o.side \in Sides /\ t.user_id \in Users /\ o.user_id \in Users
         /\ taker = t /\ taker'.remaining_qty = t.remaining_qty - trade.qty
         /\ taker'.user_id = t.user_id /\ taker'.side = t.side /\ taker'.limit = t.limit
         /\ taker'.tif = t.tif
         /\ results \in Seq(Trades) /\ 0 \in 0..Len(results) /\ Value(trade) \in Nat
<1>1. /\ a \in Listed /\ t \in Takers /\ trade \in Trades /\ o \in Orders(Users)
      /\ a = call.asset /\ t = taker /\ phase = "matching" /\ phase' = phase
      /\ taker' = [t EXCEPT !.remaining_qty = t.remaining_qty - trade.qty]
      /\ ShrunkBy(after, m, o, trade.qty)
      /\ trade.price = o.price /\ trade.qty \in 1..t.remaining_qty
  BY DEF IsMatch
<1>2. /\ t.remaining_qty \in Nat /\ t.side \in Sides /\ t.user_id \in Users
      /\ taker'.remaining_qty = t.remaining_qty - trade.qty
      /\ taker'.user_id = t.user_id /\ taker'.side = t.side /\ taker'.limit = t.limit
      /\ taker'.tif = t.tif
  BY <1>1 DEF Takers
<1>3. /\ o.remaining_qty \in Nat /\ o.side \in Sides /\ o.user_id \in Users
  BY <1>1 DEF Orders
<1>4. trade.qty \in Nat /\ trade.price \in Nat /\ Value(trade) \in Nat
  BY <1>1, ProductFacts DEF Trades, Value
<1>5. trade.qty <= o.remaining_qty
  BY <1>1, <1>3, <1>4 DEF ShrunkBy
<1>6. results \in Seq(Trades) /\ 0 \in 0..Len(results)
  BY DEF EngineInv, CallInv
<1> QED BY <1>1, <1>2, <1>3, <1>4, <1>5, <1>6 DEF InCall

LEMMA MatchAmounts ==
  ASSUME EngineInv, EngineInv', LocksInv, NEW a, NEW t, NEW trade, NEW after, NEW m, NEW o,
         IsMatch(a, t, trade, after, m, o)
  PROVE  AmountsInv'
<1>1. /\ InCall /\ InCall' /\ a \in Listed /\ a = call.asset
      /\ trade.qty \in Nat /\ trade.price \in Nat
      /\ o.price = trade.price /\ o.remaining_qty \in Nat /\ trade.qty <= o.remaining_qty
      /\ t.remaining_qty \in Nat /\ trade.qty <= t.remaining_qty /\ t.side \in Sides
      /\ taker = t /\ taker'.remaining_qty = t.remaining_qty - trade.qty
      /\ taker'.user_id = t.user_id /\ taker'.side = t.side /\ taker'.limit = t.limit
      /\ taker'.tif = t.tif
      /\ results \in Seq(Trades) /\ Value(trade) \in Nat
  BY MatchNumbers
<1>2. /\ o \in Orders(Users) /\ trade \in Trades
      /\ results' = Append(results, trade) /\ fee_schedule' = fee_schedule
      /\ BookChanged(OpenIn, OpenIn', a, after, m)
      /\ m \in DOMAIN OpenIn[a] /\ OpenIn[a][m] = o /\ ShrunkBy(after, m, o, trade.qty)
      /\ trade.buyer = (IF t.side = "bid" THEN t.user_id ELSE o.user_id)
      /\ trade.seller = (IF t.side = "bid" THEN o.user_id ELSE t.user_id)
      /\ phase = "matching" /\ phase' = phase
  BY DEF IsMatch
<1>3. /\ \A c \in Listed : \A id \in DOMAIN OpenIn[c] :
           FitsWord(OpenIn[c][id].price * OpenIn[c][id].remaining_qty, fee_schedule)
      /\ t.tif = "gtc" => FitsWord(t.limit * t.remaining_qty, fee_schedule)
      /\ \A k \in 1..Len(results) :
           /\ FitsWord(Value(results[k]), fee_schedule)
           /\ t.side = "bid" => results[k].buyer = t.user_id
           /\ t.side = "ask" => results[k].seller = t.user_id
  BY <1>1, OpenInIs DEF LocksInv, AmountsInv
<1>4. PICK w \in Nat : w = o.price * o.remaining_qty
  BY <1>1, ProductFacts
<1>5. fee_schedule \in FeeSchedules /\ FitsWord(w, fee_schedule)
  BY <1>1, <1>2, <1>3, <1>4, FeeRates
<1>6. FitsWord(Value(trade), fee_schedule)
  <2>1. Value(trade) <= w
    BY <1>1, <1>4, ProductFacts DEF Value
  <2> QED BY <1>1, <1>5, <2>1, FitsLess
<1>7. ASSUME NEW c \in Listed, NEW id \in DOMAIN OpenIn'[c]
      PROVE  FitsWord(OpenIn'[c][id].price * OpenIn'[c][id].remaining_qty, fee_schedule')
  <2>1. /\ DOMAIN OpenIn = Listed /\ OpenIn' = [OpenIn EXCEPT ![a] = after]
        /\ DOMAIN after \ {m} = DOMAIN OpenIn[a] \ {m}
        /\ \A x \in DOMAIN OpenIn[a] \ {m} : after[x] = OpenIn[a][x]
    BY <1>2 DEF BookChanged, OneChanged, OpensType
  <2>2. CASE c = a /\ id = m
    <3>1. PICK k \in Nat : k = o.remaining_qty - trade.qty
      BY <1>1
    <3>2. OpenIn'[a] = after /\ m \in DOMAIN after
      BY <1>1, <2>1, <2>2
    <3>3. after[m] = [o EXCEPT !.remaining_qty = o.remaining_qty - trade.qty]
      BY <1>2, <3>2 DEF ShrunkBy
    <3>4. after[m].price = o.price /\ after[m].remaining_qty = k
      BY <1>2, <3>1, <3>3 DEF Orders
    <3>5. PICK v \in Nat : v = o.price * k
      BY <1>1, ProductFacts
    <3>6. v <= w
      <4>1. k <= o.remaining_qty
        BY <1>1, <3>1
      <4> QED BY <1>1, <1>4, <3>5, <4>1, ProductFacts
    <3>7. FitsWord(v, fee_schedule)
      BY <1>5, <3>6, FitsLess
    <3> QED BY <1>2, <2>2, <3>2, <3>4, <3>5, <3>7
  <2>3. CASE ~(c = a /\ id = m)
    <3>1. id \in DOMAIN OpenIn[c] /\ OpenIn'[c][id] = OpenIn[c][id]
      BY <1>1, <2>1, <2>3
    <3> QED BY <1>2, <1>3, <3>1
  <2> QED BY <2>2, <2>3
<1>8. taker'.tif = "gtc" => FitsWord(taker'.limit * taker'.remaining_qty, fee_schedule')
  <2> SUFFICES ASSUME t.tif = "gtc" PROVE FitsWord(t.limit * (t.remaining_qty - trade.qty), fee_schedule)
    BY <1>1, <1>2
  <2>1. t.limit \in Nat
    BY <1>1 DEF EngineInv, CallInv
  <2>2. PICK k \in Nat : k = t.remaining_qty - trade.qty
    BY <1>1
  <2>3. k <= t.remaining_qty
    BY <1>1, <2>2
  <2>4. PICK v \in Nat : v = t.limit * k
    BY <2>1, ProductFacts
  <2>5. PICK x \in Nat : x = t.limit * t.remaining_qty
    BY <1>1, <2>1, ProductFacts
  <2>6. v <= x
    BY <1>1, <2>1, <2>3, <2>4, <2>5, ProductFacts
  <2>7. FitsWord(v, fee_schedule)
    BY <1>3, <1>5, <2>5, <2>6, FitsLess
  <2> QED BY <2>2, <2>4, <2>7
<1>9. ASSUME NEW k \in 1..Len(results')
      PROVE  /\ FitsWord(Value(results'[k]), fee_schedule')
             /\ taker'.side = "bid" => results'[k].buyer = taker'.user_id
             /\ taker'.side = "ask" => results'[k].seller = taker'.user_id
  <2>1. Len(results') = Len(results) + 1 /\ Len(results) \in Nat
    BY <1>1, <1>2
  <2>2. CASE k = Len(results) + 1
    <3>1. results'[k] = trade
      BY <1>1, <1>2, <2>2
    <3> QED BY <1>1, <1>2, <1>6, <3>1
  <2>3. CASE k # Len(results) + 1
    <3>1. k \in 1..Len(results)
      BY <2>1, <2>3
    <3>2. results'[k] = results[k]
      BY <1>1, <1>2, <3>1
    <3> QED BY <1>1, <1>2, <1>3, <3>1, <3>2
  <2> QED BY <2>2, <2>3
<1>10. \A c \in Listed : OpenIn'[c] = books'[c].orders
  BY OpenInNext
<1> QED BY <1>2, <1>7, <1>8, <1>9, <1>10 DEF AmountsInv

\* What is spent of a lock grows by the fill and the fee on it.
LEMMA MatchBudget ==
  ASSUME EngineInv, EngineInv', LocksInv, NEW a, NEW t, NEW trade, NEW after, NEW m, NEW o,
         IsMatch(a, t, trade, after, m, o)
  PROVE  BudgetInv'
<1>1. /\ InCall /\ InCall' /\ a \in Listed /\ a = call.asset
      /\ trade.qty \in Nat /\ trade.price \in Nat
      /\ t.remaining_qty \in Nat /\ trade.qty <= t.remaining_qty
      /\ taker = t /\ taker'.remaining_qty = t.remaining_qty - trade.qty
      /\ taker'.user_id = t.user_id /\ taker'.side = t.side /\ taker'.limit = t.limit
      /\ taker'.tif = t.tif
      /\ results \in Seq(Trades) /\ 0 \in 0..Len(results) /\ Value(trade) \in Nat
  BY MatchNumbers
<1>2. /\ trade \in Trades /\ results' = Append(results, trade)
      /\ fee_schedule' = fee_schedule /\ call' = call /\ call.settled = 0
      /\ trade.buyer = (IF t.side = "bid" THEN t.user_id ELSE o.user_id)
      /\ trade.taker_side = t.side
      /\ t.side = "bid" /\ t.limit \in Nat => trade.price <= t.limit
      /\ phase = "matching" /\ phase' = phase
  BY DEF IsMatch
<1>3. SUFFICES ASSUME t.side = "bid"
      PROVE \E value, cost, rate \in Nat :
              /\ call'.lock = cost + Share(cost, rate)
              /\ fee_schedule'.taker_fee_bps <= rate
              /\ call'.spent + After(PaidBy(results', taker'.user_id, fee_schedule'), call'.settled)
                   <= value + Share(value, fee_schedule'.taker_fee_bps)
              /\ \/ /\ taker'.limit \in Nat
                    /\ fee_schedule'.maker_fee_bps <= rate
                    /\ value + taker'.limit * taker'.remaining_qty <= cost
                 \/ /\ taker'.tif = "ioc"
                    /\ value + (IF phase' = "matching"
                                THEN Sweep(books'[call'.asset], "ask", taker'.limit,
                                           taker'.remaining_qty).cost
                                ELSE 0) <= cost
  BY <1>1 DEF BudgetInv
<1>4. PICK value, cost, rate \in Nat :
        /\ call.lock = cost + Share(cost, rate)
        /\ fee_schedule.taker_fee_bps <= rate
        /\ call.spent + After(PaidBy(results, t.user_id, fee_schedule), call.settled)
             <= value + Share(value, fee_schedule.taker_fee_bps)
        /\ \/ /\ t.limit \in Nat
              /\ fee_schedule.maker_fee_bps <= rate
              /\ value + t.limit * t.remaining_qty <= cost
           \/ /\ t.tif = "ioc"
              /\ value + (IF phase = "matching"
                          THEN Sweep(books[call.asset], "ask", t.limit, t.remaining_qty).cost
                          ELSE 0) <= cost
  BY <1>1, <1>3 DEF LocksInv, BudgetInv
<1>5. /\ fee_schedule \in FeeSchedules /\ fee_schedule.taker_fee_bps \in Nat
  BY FeeRates
<1>6. PICK v \in Nat : v = Value(trade)
  BY <1>1
<1>7. PICK more \in Nat : more = value + v
  OBVIOUS
<1>8. call'.spent + After(PaidBy(results', taker'.user_id, fee_schedule'), call'.settled)
        <= more + Share(more, fee_schedule'.taker_fee_bps)
  <2>1. After(PaidBy(results', t.user_id, fee_schedule), 0) =
          After(PaidBy(results, t.user_id, fee_schedule), 0) + Price(trade, fee_schedule)
    BY <1>1, <1>2, <1>3, <1>5, TradeAdded
  <2>2. After(PaidBy(results, t.user_id, fee_schedule), 0) \in Nat
    BY <1>1, <1>5, TradeSums
  <2>3. Price(trade, fee_schedule) = v + Share(v, fee_schedule.taker_fee_bps)
    BY <1>2, <1>3, <1>6 DEF Price
  <2>4. /\ Share(v, fee_schedule.taker_fee_bps) \in Nat
        /\ Share(value, fee_schedule.taker_fee_bps) \in Nat
        /\ Share(more, fee_schedule.taker_fee_bps) \in Nat
        /\ Share(value, fee_schedule.taker_fee_bps) + Share(v, fee_schedule.taker_fee_bps)
             <= Share(more, fee_schedule.taker_fee_bps)
    BY <1>5, <1>7, ShareFacts
  <2>5. call.spent \in Int
    BY DEF EngineInv, CallInv, Calls
  <2>6. PICK paid \in Nat : paid = After(PaidBy(results, t.user_id, fee_schedule), 0)
    BY <2>2
  <2>7. call.spent + paid <= value + Share(value, fee_schedule.taker_fee_bps)
    BY <1>2, <1>4, <2>6
  <2>8. call.spent + (paid + (v + Share(v, fee_schedule.taker_fee_bps)))
          <= more + Share(more, fee_schedule.taker_fee_bps)
    BY <1>7, <2>4, <2>5, <2>7
  <2> QED BY <1>1, <1>2, <2>1, <2>3, <2>6, <2>8
<1>9. CASE t.limit \in Nat /\ fee_schedule.maker_fee_bps <= rate
           /\ value + t.limit * t.remaining_qty <= cost
  <2>1. PICK k \in Nat : k = t.remaining_qty - trade.qty
    BY <1>1
  <2>2. t.limit * (k + trade.qty) = t.limit * k + t.limit * trade.qty
    BY <1>1, <1>9, ProductFacts
  <2>3. k + trade.qty = t.remaining_qty
    BY <1>1, <2>1
  <2>4. PICK x \in Nat : x = t.limit * k
    BY <1>9, ProductFacts
  <2>5. PICK y \in Nat : y = t.limit * trade.qty
    BY <1>1, <1>9, ProductFacts
  <2>6. v <= y
    BY <1>1, <1>2, <1>3, <1>6, <1>9, <2>5, ProductFacts DEF Value
  <2>7. value + (x + y) <= cost
    BY <1>9, <2>2, <2>3, <2>4, <2>5
  <2>8. more + x <= cost
    BY <1>7, <2>6, <2>7
  <2>9. more + taker'.limit * taker'.remaining_qty <= cost
    BY <1>1, <2>1, <2>4, <2>8
  <2> QED BY <1>1, <1>2, <1>4, <1>8, <1>9, <2>9
<1>10. CASE t.tif = "ioc"
            /\ value + (IF phase = "matching"
                        THEN Sweep(books[call.asset], "ask", t.limit, t.remaining_qty).cost
                        ELSE 0) <= cost
  <2>1. PICK before, now \in Taken :
          /\ before = Sweep(books[a], Opposite(t.side), t.limit, t.remaining_qty)
          /\ now = Sweep(books'[a], Opposite(t.side), t.limit, t.remaining_qty - trade.qty)
          /\ before.cost = now.cost + Value(trade)
    BY DEF IsMatch
  <2>2. now.cost \in Nat /\ before.cost \in Nat
    BY <2>1 DEF Taken
  <2>3. value + before.cost <= cost
    BY <1>1, <1>2, <1>3, <1>10, <2>1 DEF Opposite
  <2>4. more + now.cost <= cost
    BY <1>6, <1>7, <2>1, <2>2, <2>3
  <2>5. more + Sweep(books'[call'.asset], "ask", taker'.limit, taker'.remaining_qty).cost <= cost
    BY <1>1, <1>2, <1>3, <2>1, <2>4 DEF Opposite
  <2> QED BY <1>1, <1>2, <1>4, <1>8, <1>10, <2>5
<1> QED BY <1>4, <1>9, <1>10

\* What the maker needed, the fill needs.
LEMMA MatchLocks ==
  ASSUME EngineInv, EngineInv', LocksInv, NEW a, NEW t, NEW trade, NEW after, NEW m, NEW o,
         IsMatch(a, t, trade, after, m, o)
  PROVE  LocksRight'
<1>1. /\ InCall /\ InCall' /\ a \in Listed /\ a = call.asset
      /\ trade.qty \in Nat /\ trade.price \in Nat /\ o.price = trade.price
      /\ t.remaining_qty \in Nat /\ trade.qty <= t.remaining_qty
      /\ t.side \in Sides /\ o.side \in Sides
      /\ taker = t /\ taker'.remaining_qty = t.remaining_qty - trade.qty
      /\ taker'.user_id = t.user_id /\ taker'.side = t.side
      /\ results \in Seq(Trades) /\ 0 \in 0..Len(results) /\ Value(trade) \in Nat
  BY MatchNumbers
<1>2. /\ trade \in Trades /\ o \in Orders(Users) /\ results' = Append(results, trade)
      /\ call' = call /\ call.settled = 0
      /\ usd' = usd /\ stock' = stock /\ fee_schedule' = fee_schedule /\ maker_fills' = maker_fills
      /\ BookChanged(OpenIn, OpenIn', a, after, m)
      /\ m \in DOMAIN OpenIn[a] /\ OpenIn[a][m] = o /\ ShrunkBy(after, m, o, trade.qty)
      /\ o.side = Opposite(t.side) /\ trade.taker_side = t.side
      /\ trade.buyer = (IF t.side = "bid" THEN t.user_id ELSE o.user_id)
      /\ trade.seller = (IF t.side = "bid" THEN o.user_id ELSE t.user_id)
      /\ ~Rested /\ ~Rested'
  BY DEF IsMatch
<1>3. /\ fee_schedule \in FeeSchedules /\ fee_schedule.maker_fee_bps \in Nat
  BY FeeRates
<1>4. PICK bps \in Nat : bps = fee_schedule.maker_fee_bps
  BY <1>3
<1>5. PICK n \in Nat : n = trade.qty
  BY <1>1
<1>6. PICK price \in Nat : price = Price(trade, fee_schedule)
  BY <1>2, <1>3, PriceType
<1>7. t.side = "ask" => o.price * n + Share(o.price * n, bps) = price
  BY <1>1, <1>2, <1>4, <1>5, <1>6 DEF Price, Value
<1>8. /\ t.side = "bid" <=> o.side = "ask"
      /\ t.side = "ask" <=> o.side = "bid"
      /\ t.side = "bid" \/ t.side = "ask"
  BY <1>1, <1>2 DEF Sides, Opposite
<1>9. ASSUME NEW u \in Users
      PROVE  /\ (Dust(u) >= 0)'
             /\ (Dust(u) <= IF fee_schedule.maker_fee_bps = 0 THEN 0 ELSE maker_fills[u] + OpenFills(u))'
             /\ (\A c \in Listed :
                   stock[c][u].locked = NeedsOf(OpenIn[c], u, "ask", 0) + Undelivered(u, c))'
  <2>1. /\ usd[u].locked \in Int /\ maker_fills[u] \in Nat
    BY BalanceNumbers DEF LocksInv, AvailableInv
  <2>2. PICK needs \in Nat : needs = UsdNeeds(OpenIn, u, bps)
    BY OpenInType, UsdNeedsType
  <2>3. PICK d \in {0, 1} :
          /\ bps = 0 => d = 0
          /\ NeedAt(OpenIn[a], m, u, "bid", bps) = NeedAt(after, m, u, "bid", bps)
               + (IF o.user_id = u /\ o.side = "bid"
                  THEN o.price * n + Share(o.price * n, bps) + d ELSE 0)
    BY <1>2, <1>5, FillNeeds
  <2>4. NeedAt(OpenIn[a], m, u, "ask", 0) = NeedAt(after, m, u, "ask", 0)
          + (IF o.user_id = u /\ o.side = "ask" THEN n ELSE 0)
    BY <1>2, <1>5, FillAskNeeds
  <2>5. /\ NeedAt(after, m, u, "bid", bps) \in Nat /\ NeedAt(after, m, u, "ask", 0) \in Nat
    BY <1>2, NeedOfType DEF NeedAt, BookChanged, OpenType
  <2>6. /\ UsdNeeds(OpenIn', u, bps) = UsdNeeds(OpenIn, u, bps)
              - NeedAt(OpenIn[a], m, u, "bid", bps) + NeedAt(after, m, u, "bid", bps)
        /\ \A c \in Listed : NeedsOf(OpenIn'[c], u, "ask", 0) = NeedsOf(OpenIn[c], u, "ask", 0)
              - (IF c = a THEN NeedAt(OpenIn[a], m, u, "ask", 0) ELSE 0)
              + (IF c = a THEN NeedAt(after, m, u, "ask", 0) ELSE 0)
    <3>1. PICK open, next : open = OpenIn /\ next = OpenIn'
      OBVIOUS
    <3>2. BookChanged(open, next, a, after, m)
      BY <1>2, <3>1
    <3>3. /\ UsdNeeds(next, u, bps) = UsdNeeds(open, u, bps)
                - NeedAt(open[a], m, u, "bid", bps) + NeedAt(after, m, u, "bid", bps)
          /\ \A c \in Listed : NeedsOf(next[c], u, "ask", 0) = NeedsOf(open[c], u, "ask", 0)
                - (IF c = a THEN NeedAt(open[a], m, u, "ask", 0) ELSE 0)
                + (IF c = a THEN NeedAt(after, m, u, "ask", 0) ELSE 0)
      BY <3>2, AllNeedsChange
    <3> QED BY <3>1, <3>3
  <2>7. PICK drop \in Nat : drop = IF o.user_id = u /\ t.side = "ask" THEN price + d ELSE 0
    OBVIOUS
  <2>8. NeedAt(OpenIn[a], m, u, "bid", bps) = NeedAt(after, m, u, "bid", bps) + drop
    BY <1>7, <1>8, <2>3, <2>7
  <2>9. UsdNeeds(OpenIn', u, bps) = needs - drop
    BY <2>2, <2>5, <2>6, <2>8
  <2>10. /\ After(PaidBy(results', u, fee_schedule), 0) = After(PaidBy(results, u, fee_schedule), 0)
              + (IF trade.buyer = u THEN price ELSE 0)
         /\ After(SoldBy(results', u), 0) = After(SoldBy(results, u), 0)
              + (IF trade.seller = u THEN n ELSE 0)
         /\ After(FillsOf(results', u), 0) = After(FillsOf(results, u), 0)
              + (IF trade.buyer = u THEN 1 ELSE 0)
    <3>1. /\ After(PaidBy(Append(results, trade), u, fee_schedule), 0) =
               After(PaidBy(results, u, fee_schedule), 0)
                 + (IF trade.buyer = u THEN Price(trade, fee_schedule) ELSE 0)
          /\ After(SoldBy(Append(results, trade), u), 0) = After(SoldBy(results, u), 0)
               + (IF trade.seller = u THEN trade.qty ELSE 0)
          /\ After(FillsOf(Append(results, trade), u), 0) = After(FillsOf(results, u), 0)
               + (IF trade.buyer = u THEN 1 ELSE 0)
      <4>1. results \in Seq(Trades) /\ trade \in Trades /\ 0 \in 0..Len(results) /\ fee_schedule \in FeeSchedules
        BY <1>1, <1>2, <1>3
      <4> QED BY <4>1, TradeAdded
    <3> QED BY <1>2, <1>5, <1>6, <3>1
  <2>11. /\ After(PaidBy(results, u, fee_schedule), 0) \in Nat
         /\ After(SoldBy(results, u), 0) \in Nat /\ After(FillsOf(results, u), 0) \in Nat
    BY <1>1, <1>3, TradeSums
  <2>12. call.lock \in Int /\ call.spent \in Int
    BY DEF EngineInv, CallInv, Calls
  <2>13. NeededLocked = 0 /\ NeededLocked' = 0
    BY <1>2 DEF NeededLocked
  <2>14. Escrow(u) \in Int
         /\ Escrow(u)' = Escrow(u) + (IF o.user_id = u /\ t.side = "ask" THEN price ELSE 0)
    <3>1. CASE t.side = "bid"
      <4>1. Escrow(u) = IF t.user_id = u THEN call.lock - call.spent - 0 ELSE 0
        BY <1>1, <2>13, <3>1 DEF Escrow
      <4>2. Escrow(u)' = IF t.user_id = u THEN call.lock - call.spent - 0 ELSE 0
        BY <1>1, <1>2, <2>13, <3>1 DEF Escrow
      <4> QED BY <2>12, <3>1, <4>1, <4>2
    <3>2. CASE t.side = "ask"
      <4>1. Escrow(u) = After(PaidBy(results, u, fee_schedule), 0)
        BY <1>1, <1>2, <3>2 DEF Escrow
      <4>2. Escrow(u)' = After(PaidBy(results', u, fee_schedule), 0)
        BY <1>1, <1>2, <3>2 DEF Escrow
      <4> QED BY <1>2, <2>10, <2>11, <3>2, <4>1, <4>2
    <3> QED BY <1>8, <3>1, <3>2
  <2>15. OpenFills(u) \in Nat
         /\ OpenFills(u)' = OpenFills(u) + (IF o.user_id = u /\ t.side = "ask" THEN 1 ELSE 0)
    BY <1>1, <1>2, <2>10, <2>11 DEF OpenFills
  <2>16. Dust(u) = usd[u].locked - needs - Escrow(u)
         /\ Dust(u)' = usd[u].locked - (needs - drop) - Escrow(u)'
    BY <1>2, <1>4, <2>2, <2>9 DEF Dust
  <2>17. Dust(u) \in Int
         /\ Dust(u)' = Dust(u) + (IF o.user_id = u /\ t.side = "ask" THEN d ELSE 0)
    BY <2>1, <2>7, <2>14, <2>16
  <2>18. /\ Dust(u) >= 0
         /\ Dust(u) <= (IF bps = 0 THEN 0 ELSE maker_fills[u] + OpenFills(u))
    BY <1>4 DEF LocksInv, LocksRight
  <2>19. /\ Dust(u)' >= 0
         /\ Dust(u)' <= (IF bps = 0 THEN 0 ELSE maker_fills[u] + OpenFills(u)')
    BY <2>1, <2>3, <2>15, <2>17, <2>18
  <2>20. ASSUME NEW c \in Listed
         PROVE  stock'[c][u].locked = NeedsOf(OpenIn'[c], u, "ask", 0) + Undelivered(u, c)'
    <3>1. stock[c][u].locked = NeedsOf(OpenIn[c], u, "ask", 0) + Undelivered(u, c)
      BY DEF LocksInv, LocksRight
    <3>2. NeedsOf(OpenIn[c], u, "ask", 0) \in Nat
      BY OpenInType, NeedsType DEF OpensType
    <3>3. PICK x \in Nat : x = IF c = a /\ o.user_id = u /\ t.side = "bid" THEN n ELSE 0
      OBVIOUS
    <3>4. NeedsOf(OpenIn'[c], u, "ask", 0) = NeedsOf(OpenIn[c], u, "ask", 0) - x
      BY <1>8, <2>4, <2>5, <2>6, <3>2, <3>3
    <3>5. Undelivered(u, c) \in Int /\ Undelivered(u, c)' = Undelivered(u, c) + x
      <4>1. CASE c # a
        BY <1>1, <1>2, <3>3, <4>1 DEF Undelivered
      <4>2. CASE c = a /\ t.side = "bid"
        <5>1. Undelivered(u, c) = After(SoldBy(results, u), 0) + 0
          BY <1>1, <1>2, <4>2 DEF Undelivered
        <5>2. Undelivered(u, c)' = After(SoldBy(results', u), 0) + 0
          BY <1>1, <1>2, <4>2 DEF Undelivered
        <5> QED BY <1>2, <2>10, <2>11, <3>3, <4>2, <5>1, <5>2
      <4>3. CASE c = a /\ t.side = "ask"
        <5>1. Undelivered(u, c) = After(SoldBy(results, u), 0)
                + (IF t.user_id = u THEN t.remaining_qty ELSE 0)
          BY <1>1, <1>2, <4>3 DEF Undelivered
        <5>2. Undelivered(u, c)' = After(SoldBy(results', u), 0)
                + (IF t.user_id = u THEN t.remaining_qty - n ELSE 0)
          BY <1>1, <1>2, <1>5, <4>3 DEF Undelivered
        <5>3. /\ After(SoldBy(results', u), 0) = After(SoldBy(results, u), 0)
                   + (IF t.user_id = u THEN n ELSE 0)
              /\ After(SoldBy(results, u), 0) \in Nat /\ x = 0
          BY <1>2, <2>10, <2>11, <3>3, <4>3
        <5>4. PICK left \in Nat : left = t.remaining_qty
          BY <1>1 DEF Takers
        <5> QED BY <5>1, <5>2, <5>3, <5>4
      <4> QED BY <1>8, <4>1, <4>2, <4>3
    <3> QED BY <1>2, <3>1, <3>2, <3>3, <3>4, <3>5
  <2> QED BY <1>2, <1>4, <2>19, <2>20
<1> QED BY <1>9 DEF LocksRight

LEMMA MatchStepLocks ==
  ASSUME EngineInv, LocksInv, MatchStep
  PROVE  LocksInv'
<1>1. PICK a, t, trade, after, m, o : IsMatch(a, t, trade, after, m, o)
  BY MatchStepIs
<1>2. EngineInv'
  BY MatchStepEngineInv
<1>3. AmountsInv' /\ BudgetInv' /\ LocksRight'
  BY <1>1, <1>2, MatchAmounts, MatchBudget, MatchLocks
<1>4. AvailableInv'
  <2>1. usd' = usd /\ stock' = stock /\ maker_fills' = maker_fills
    BY <1>1 DEF IsMatch
  <2> QED BY <2>1 DEF LocksInv, AvailableInv, BalancesType
<1> QED BY <1>3, <1>4 DEF LocksInv

-----------------------------------------------------------------------------
\* The rest of the order enters the book, or is given up.

\* The taker, of the call on the book of a, rests.
IsRest(a, t, after) ==
  /\ BookChanged(OpenIn, OpenIn', a, after, t.order_id)
  /\ t.order_id \notin DOMAIN OpenIn[a] /\ t.order_id \in DOMAIN after
  /\ after[t.order_id] = RestingOrder(t)
  /\ t.limit \in Nat /\ t.tif = "gtc" /\ t.remaining_qty > 0

LEMMA CompleteIs ==
  ASSUME EngineInv, Complete
  PROVE  /\ EngineInv' /\ InCall /\ InCall' /\ ~Rested /\ taker \in Takers /\ call.asset \in Listed
         /\ phase = "matching" /\ phase' = "settling" /\ call.settled = 0
         /\ UNCHANGED <<usd, stock, fee_schedule, taker, results, call, maker_fills>>
         /\ \/ /\ OpenIn' = OpenIn /\ ~Rested'
               /\ ~(taker.tif = "gtc" /\ taker.remaining_qty > 0)
            \/ Rested' /\ \E after : IsRest(call.asset, taker, after)
<1>1. /\ phase = "matching" /\ phase' = "settling" /\ call.settled = 0
      /\ UNCHANGED <<usd, stock, fee_schedule, taker, results, call, maker_fills>>
      /\ taker \in Takers /\ call.asset \in Listed
      /\ taker.tif = "gtc" => taker.limit \in Nat
  BY DEF Complete, EngineInv, CallInv, InCall
<1>2. InCall /\ InCall'
  BY <1>1 DEF InCall
<1>3. PICK a \in Listed : a = call.asset
  BY <1>1
<1>4. PICK t \in Takers : t = taker
  BY <1>1
<1>5. EngineInv' /\ \A c \in Listed \ {a} : books'[c] = books[c]
  BY <1>3, CompleteEngineInv
<1>6. t.order_id \notin DOMAIN books[a].orders
  <2>1. \A id \in DOMAIN books[a].orders : id < t.order_id
    BY <1>1, <1>3, <1>4 DEF EngineInv, CallInv, IdsBelow
  <2>2. t.order_id \in Nat /\ ~(t.order_id < t.order_id)
    BY DEF Takers
  <2> QED BY <2>1, <2>2
<1>7. ~Rested
  BY <1>3, <1>4, <1>6 DEF Rested
<1>8. CASE ~(t.remaining_qty > 0 /\ t.tif = "gtc")
  <2>1. books' = books
    BY <1>4, <1>8 DEF Complete
  <2>2. OpenIn' = OpenIn
    BY <2>1, OpenInSame
  <2>3. ~Rested'
    BY <1>1, <1>7, <2>1 DEF Rested
  <2> QED BY <1>1, <1>2, <1>4, <1>5, <1>7, <1>8, <2>2, <2>3
<1>9. CASE t.remaining_qty > 0 /\ t.tif = "gtc"
  <2>1. PICK b : b = books[a]
    OBVIOUS
  <2>2. DOMAIN b = {"levels", "orders", "next_order_id"}
    BY <2>1 DEF EngineInv, BooksInv, WellFormed, BookType
  <2>3. books' = [books EXCEPT ![a] = Rest(b, t)]
    BY <1>3, <1>4, <1>9, <2>1 DEF Complete
  <2>4. a \in DOMAIN books
    BY DEF EngineInv, BooksInv
  <2>5. PICK after : after = With(b.orders, t.order_id, RestingOrder(t))
    OBVIOUS
  <2>6. Rest(b, t).orders = after
    BY <2>2, <2>5 DEF Rest
  <2>7. books'[a].orders = after
    BY <2>3, <2>4, <2>6
  <2>8. OpenIn' = [OpenIn EXCEPT ![a] = after] /\ OpenIn[a] = b.orders /\ OpenIn'[a] = after
    BY <1>5, <2>1, <2>7, OpenInExcept, OpenInIs, OpenInNext
  <2>9. OpensType(OpenIn) /\ OpenType(after)
    <3>1. OpensType(OpenIn) /\ OpensType(OpenIn')
      BY <1>5, OpenInType, OpenInTypeNext
    <3> QED BY <2>8, <3>1 DEF OpensType
  <2>10. /\ DOMAIN after = DOMAIN b.orders \cup {t.order_id}
         /\ after[t.order_id] = RestingOrder(t)
         /\ \A id \in DOMAIN b.orders \ {t.order_id} : after[id] = b.orders[id]
    BY <2>5 DEF With
  <2>11. OneChanged(OpenIn[a], after, t.order_id)
    BY <2>8, <2>10 DEF OneChanged
  <2>12. BookChanged(OpenIn, OpenIn', a, after, t.order_id)
    BY <2>8, <2>9, <2>11 DEF BookChanged
  <2>13. IsRest(a, t, after)
    BY <1>1, <1>4, <1>6, <1>9, <2>1, <2>8, <2>10, <2>12 DEF IsRest
  <2>14. Rested'
    BY <1>1, <1>3, <1>4, <2>7, <2>10 DEF Rested
  <2> QED BY <1>1, <1>2, <1>3, <1>4, <1>5, <1>7, <2>13, <2>14
<1> QED BY <1>8, <1>9

LEMMA CompleteAmounts ==
  ASSUME EngineInv, LocksInv, Complete
  PROVE  AmountsInv'
<1>1. /\ EngineInv' /\ InCall /\ InCall' /\ taker \in Takers /\ call.asset \in Listed
      /\ UNCHANGED <<fee_schedule, taker, results>>
      /\ \/ /\ OpenIn' = OpenIn /\ ~Rested'
            /\ ~(taker.tif = "gtc" /\ taker.remaining_qty > 0)
         \/ Rested' /\ \E after : IsRest(call.asset, taker, after)
  BY CompleteIs
<1>2. /\ \A c \in Listed : \A id \in DOMAIN OpenIn[c] :
           FitsWord(OpenIn[c][id].price * OpenIn[c][id].remaining_qty, fee_schedule)
      /\ taker.tif = "gtc" => FitsWord(taker.limit * taker.remaining_qty, fee_schedule)
      /\ \A k \in 1..Len(results) :
           /\ FitsWord(Value(results[k]), fee_schedule)
           /\ taker.side = "bid" => results[k].buyer = taker.user_id
           /\ taker.side = "ask" => results[k].seller = taker.user_id
  BY <1>1, OpenInIs DEF LocksInv, AmountsInv
<1>3. Rested' <=> taker.tif = "gtc" /\ taker.remaining_qty > 0
  BY <1>1 DEF IsRest
<1>4. \A c \in Listed : \A id \in DOMAIN OpenIn'[c] :
        FitsWord(OpenIn'[c][id].price * OpenIn'[c][id].remaining_qty, fee_schedule)
  <2>1. CASE OpenIn' = OpenIn
    BY <1>2, <2>1
  <2>2. ASSUME NEW after, IsRest(call.asset, taker, after), NEW c \in Listed,
               NEW id \in DOMAIN OpenIn'[c]
        PROVE  FitsWord(OpenIn'[c][id].price * OpenIn'[c][id].remaining_qty, fee_schedule)
    <3>1. PICK a \in Listed : a = call.asset
      BY <1>1
    <3>2. PICK m : m = taker.order_id
      OBVIOUS
    <3>3. /\ DOMAIN OpenIn = Listed /\ OpenIn' = [OpenIn EXCEPT ![a] = after]
          /\ DOMAIN after \ {m} = DOMAIN OpenIn[a] \ {m}
          /\ \A x \in DOMAIN OpenIn[a] \ {m} : after[x] = OpenIn[a][x]
          /\ after[m] = RestingOrder(taker) /\ taker.tif = "gtc"
      BY <2>2, <3>1, <3>2 DEF IsRest, BookChanged, OneChanged, OpensType
    <3>4. CASE c = a /\ id = m
      <4>1. OpenIn'[c][id].price = taker.limit /\ OpenIn'[c][id].remaining_qty = taker.remaining_qty
        BY <3>3, <3>4 DEF RestingOrder
      <4> QED BY <1>2, <3>3, <4>1
    <3>5. CASE ~(c = a /\ id = m)
      <4>1. id \in DOMAIN OpenIn[c] /\ OpenIn'[c][id] = OpenIn[c][id]
        BY <3>3, <3>5
      <4> QED BY <1>2, <4>1
    <3> QED BY <3>4, <3>5
  <2> QED BY <1>1, <2>1, <2>2
<1>5. \A c \in Listed : OpenIn'[c] = books'[c].orders
  BY OpenInNext
<1> QED BY <1>1, <1>2, <1>3, <1>4, <1>5 DEF AmountsInv

LEMMA CompleteBudget ==
  ASSUME EngineInv, LocksInv, Complete
  PROVE  BudgetInv'
<1>1. /\ InCall /\ InCall' /\ taker \in Takers /\ call.asset \in Listed
      /\ phase = "matching" /\ phase' = "settling"
      /\ UNCHANGED <<fee_schedule, taker, results, call>>
  BY CompleteIs
<1>2. SUFFICES ASSUME taker.side = "bid" PROVE BudgetInv'
  BY <1>1 DEF BudgetInv
<1>3. PICK value, cost, rate \in Nat :
        /\ call.lock = cost + Share(cost, rate)
        /\ fee_schedule.taker_fee_bps <= rate
        /\ call.spent + After(PaidBy(results, taker.user_id, fee_schedule), call.settled)
             <= value + Share(value, fee_schedule.taker_fee_bps)
        /\ \/ /\ taker.limit \in Nat
              /\ fee_schedule.maker_fee_bps <= rate
              /\ value + taker.limit * taker.remaining_qty <= cost
           \/ /\ taker.tif = "ioc"
              /\ value + (IF phase = "matching"
                          THEN Sweep(books[call.asset], "ask", taker.limit, taker.remaining_qty).cost
                          ELSE 0) <= cost
  BY <1>1, <1>2 DEF LocksInv, BudgetInv
<1>4. Sweep(books[call.asset], "ask", taker.limit, taker.remaining_qty).cost \in Nat
  <2>1. Walkable(books[call.asset], "ask")
    BY <1>1, WellFormedWalkable DEF EngineInv, BooksInv, Sides
  <2>2. taker.remaining_qty \in Nat
    BY <1>1 DEF Takers
  <2> QED BY <2>1, <2>2, SweepType DEF Taken
<1>5. \/ /\ taker.limit \in Nat
         /\ fee_schedule.maker_fee_bps <= rate
         /\ value + taker.limit * taker.remaining_qty <= cost
      \/ /\ taker.tif = "ioc"
         /\ value + 0 <= cost
  BY <1>1, <1>3, <1>4
<1>6. /\ call'.lock = cost + Share(cost, rate)
      /\ fee_schedule'.taker_fee_bps <= rate
      /\ call'.spent + After(PaidBy(results', taker'.user_id, fee_schedule'), call'.settled)
           <= value + Share(value, fee_schedule'.taker_fee_bps)
      /\ \/ /\ taker'.limit \in Nat
            /\ fee_schedule'.maker_fee_bps <= rate
            /\ value + taker'.limit * taker'.remaining_qty <= cost
         \/ /\ taker'.tif = "ioc"
            /\ value + (IF phase' = "matching"
                        THEN Sweep(books'[call'.asset], "ask", taker'.limit, taker'.remaining_qty).cost
                        ELSE 0) <= cost
  BY <1>1, <1>3, <1>5
<1> QED BY <1>6 DEF BudgetInv

LEMMA CompleteLocks ==
  ASSUME EngineInv, LocksInv, Complete
  PROVE  LocksInv'
<1>1. /\ EngineInv' /\ InCall /\ InCall' /\ ~Rested /\ taker \in Takers /\ call.asset \in Listed
      /\ call.settled = 0
      /\ usd' = usd /\ stock' = stock /\ fee_schedule' = fee_schedule /\ taker' = taker
      /\ results' = results /\ call' = call /\ maker_fills' = maker_fills
      /\ \/ /\ OpenIn' = OpenIn /\ ~Rested'
            /\ ~(taker.tif = "gtc" /\ taker.remaining_qty > 0)
         \/ Rested' /\ \E after : IsRest(call.asset, taker, after)
  BY CompleteIs
<1>2. AvailableInv'
  BY <1>1 DEF LocksInv, AvailableInv, BalancesType
<1>3. AmountsInv' /\ BudgetInv'
  BY CompleteAmounts, CompleteBudget
<1>4. NeededLocked = 0
  BY <1>1 DEF NeededLocked
<1>5. CASE OpenIn' = OpenIn /\ ~Rested'
  <2>1. NeededLocked' = 0
    BY <1>5 DEF NeededLocked
  <2>2. ASSUME NEW u \in Users
        PROVE  /\ Escrow(u)' = Escrow(u) /\ OpenFills(u)' = OpenFills(u) /\ Dust(u)' = Dust(u)
               /\ \A c \in Listed : Undelivered(u, c)' = Undelivered(u, c)
    <3>1. Escrow(u)' = Escrow(u)
      BY <1>1, <1>4, <2>1 DEF Escrow
    <3>2. OpenFills(u)' = OpenFills(u)
      BY <1>1 DEF OpenFills
    <3>3. Dust(u)' = Dust(u)
      BY <1>1, <1>5, <3>1 DEF Dust
    <3>4. \A c \in Listed : Undelivered(u, c)' = Undelivered(u, c)
      BY <1>1, <1>5 DEF Undelivered
    <3> QED BY <3>1, <3>2, <3>3, <3>4
  <2>3. LocksRight'
    BY <1>1, <1>5, <2>2 DEF LocksInv, LocksRight
  <2> QED BY <1>2, <1>3, <2>3 DEF LocksInv
<1>6. ASSUME NEW after, IsRest(call.asset, taker, after), Rested' PROVE LocksInv'
  <2>1. PICK a \in Listed : a = call.asset
    BY <1>1
  <2>2. PICK t \in Takers : t = taker
    BY <1>1
  <2>3. PICK m : m = t.order_id
    OBVIOUS
  <2>4. /\ BookChanged(OpenIn, OpenIn', a, after, m)
        /\ m \notin DOMAIN OpenIn[a] /\ m \in DOMAIN after
        /\ after[m] = RestingOrder(t)
        /\ t.limit \in Nat /\ t.tif = "gtc"
    BY <1>6, <2>1, <2>2, <2>3 DEF IsRest
  <2>5. /\ t.remaining_qty \in Nat /\ t.side \in Sides
        /\ after[m].user_id = t.user_id /\ after[m].side = t.side
        /\ after[m].price = t.limit /\ after[m].remaining_qty = t.remaining_qty
    BY <2>4 DEF Takers, RestingOrder
  <2>6. fee_schedule \in FeeSchedules /\ fee_schedule.maker_fee_bps \in Nat
    BY FeeRates
  <2>7. PICK bps \in Nat : bps = fee_schedule.maker_fee_bps
    BY <2>6
  <2>8. FitsWord(t.limit * t.remaining_qty, fee_schedule)
    BY <1>1, <2>2, <2>4 DEF LocksInv, AmountsInv
  <2>9. PICK x \in Nat : x = t.limit * t.remaining_qty + Share(t.limit * t.remaining_qty, bps)
    <3>1. PICK c \in Nat : c = t.limit * t.remaining_qty
      BY <2>4, <2>5, ProductFacts
    <3>2. Share(c, bps) \in Nat
      BY ShareFacts
    <3> QED BY <3>1, <3>2
  <2>10. NeededLocked' = x
    <3>1. BidNeeds(t.limit, t.remaining_qty) = x
      BY <2>4, <2>5, <2>6, <2>7, <2>8, <2>9, BidNeedsIs
    <3>2. BidNeeds(t.limit, t.remaining_qty)' = BidNeeds(t.limit, t.remaining_qty)
      BY <1>1 DEF BidNeeds, MakerFee
    <3> QED BY <1>1, <1>6, <2>2, <3>1, <3>2 DEF NeededLocked, BidNeeds, MakerFee
  <2>11. ASSUME NEW u \in Users
         PROVE  /\ (Dust(u) >= 0)'
                /\ (Dust(u) <= IF fee_schedule.maker_fee_bps = 0 THEN 0 ELSE maker_fills[u] + OpenFills(u))'
                /\ (\A c \in Listed :
                      stock[c][u].locked = NeedsOf(OpenIn[c], u, "ask", 0) + Undelivered(u, c))'
    <3>1. usd[u].locked \in Int /\ call.lock \in Int /\ call.spent \in Int
      BY BalanceNumbers DEF LocksInv, AvailableInv, EngineInv, CallInv, Calls
    <3>2. PICK needs \in Nat : needs = UsdNeeds(OpenIn, u, bps)
      BY OpenInType, UsdNeedsType
    <3>3. NeedAt(OpenIn[a], m, u, "bid", bps) = 0 /\ NeedAt(OpenIn[a], m, u, "ask", 0) = 0
      BY <2>4 DEF NeedAt
    <3>4. NeedAt(after, m, u, "bid", bps) = IF t.user_id = u /\ t.side = "bid" THEN x ELSE 0
      BY <2>4, <2>5, <2>9 DEF NeedAt, NeedOf
    <3>5. NeedAt(after, m, u, "ask", 0) = IF t.user_id = u /\ t.side = "ask" THEN t.remaining_qty ELSE 0
      BY <2>4, <2>5 DEF NeedAt, NeedOf
    <3>6. /\ UsdNeeds(OpenIn', u, bps) = UsdNeeds(OpenIn, u, bps)
               - NeedAt(OpenIn[a], m, u, "bid", bps) + NeedAt(after, m, u, "bid", bps)
          /\ \A c \in Listed : NeedsOf(OpenIn'[c], u, "ask", 0) = NeedsOf(OpenIn[c], u, "ask", 0)
               - (IF c = a THEN NeedAt(OpenIn[a], m, u, "ask", 0) ELSE 0)
               + (IF c = a THEN NeedAt(after, m, u, "ask", 0) ELSE 0)
      <4>1. PICK open, next : open = OpenIn /\ next = OpenIn'
        OBVIOUS
      <4>2. BookChanged(open, next, a, after, m)
        BY <2>4, <4>1
      <4>3. /\ UsdNeeds(next, u, bps) = UsdNeeds(open, u, bps)
                  - NeedAt(open[a], m, u, "bid", bps) + NeedAt(after, m, u, "bid", bps)
            /\ \A c \in Listed : NeedsOf(next[c], u, "ask", 0) = NeedsOf(open[c], u, "ask", 0)
                  - (IF c = a THEN NeedAt(open[a], m, u, "ask", 0) ELSE 0)
                  + (IF c = a THEN NeedAt(after, m, u, "ask", 0) ELSE 0)
        BY <4>2, AllNeedsChange
      <4> QED BY <4>1, <4>3
    <3>7. PICK y \in Nat : y = IF t.user_id = u /\ t.side = "bid" THEN x ELSE 0
      OBVIOUS
    <3>8. UsdNeeds(OpenIn', u, bps) = needs + y
      BY <3>2, <3>3, <3>4, <3>6, <3>7
    <3>9. Escrow(u) \in Int /\ Escrow(u)' = Escrow(u) - y
      <4>1. CASE t.side = "bid"
        <5>1. Escrow(u) = IF t.user_id = u THEN call.lock - call.spent - 0 ELSE 0
          BY <1>1, <1>4, <2>2, <4>1 DEF Escrow
        <5>2. Escrow(u)' = IF t.user_id = u THEN call.lock - call.spent - x ELSE 0
          BY <1>1, <2>2, <2>10, <4>1 DEF Escrow
        <5> QED BY <3>1, <3>7, <4>1, <5>1, <5>2
      <4>2. CASE t.side = "ask"
        <5>1. Escrow(u) = After(PaidBy(results, u, fee_schedule), call.settled)
          BY <1>1, <2>2, <4>2 DEF Escrow
        <5>2. Escrow(u)' = After(PaidBy(results, u, fee_schedule), call.settled)
          BY <1>1, <2>2, <4>2 DEF Escrow
        <5>3. results \in Seq(Trades) /\ call.settled \in 0..Len(results)
          BY <1>1 DEF EngineInv, CallInv
        <5>4. After(PaidBy(results, u, fee_schedule), call.settled) \in Nat
          BY <2>6, <5>3, TradeSums
        <5> QED BY <3>7, <4>2, <5>1, <5>2, <5>4
      <4> QED BY <2>5, <4>1, <4>2 DEF Sides
    <3>10. OpenFills(u)' = OpenFills(u)
      BY <1>1 DEF OpenFills
    <3>11. Dust(u) = usd[u].locked - needs - Escrow(u)
           /\ Dust(u)' = usd[u].locked - (needs + y) - Escrow(u)'
      BY <1>1, <2>7, <3>2, <3>8 DEF Dust
    <3>12. Dust(u)' = Dust(u)
      BY <3>1, <3>9, <3>11
    <3>13. ASSUME NEW c \in Listed
           PROVE  stock'[c][u].locked = NeedsOf(OpenIn'[c], u, "ask", 0) + Undelivered(u, c)'
      <4>1. stock[c][u].locked = NeedsOf(OpenIn[c], u, "ask", 0) + Undelivered(u, c)
        BY DEF LocksInv, LocksRight
      <4>2. NeedsOf(OpenIn[c], u, "ask", 0) \in Nat
        BY OpenInType, NeedsType DEF OpensType
      <4>3. PICK z \in Nat : z = IF c = a /\ t.user_id = u /\ t.side = "ask" THEN t.remaining_qty ELSE 0
        BY <2>5
      <4>4. NeedsOf(OpenIn'[c], u, "ask", 0) = NeedsOf(OpenIn[c], u, "ask", 0) + z
        BY <3>3, <3>5, <3>6, <4>2, <4>3
      <4>5. After(SoldBy(results, u), call.settled) \in Nat
        <5>1. results \in Seq(Trades) /\ call.settled \in 0..Len(results)
          BY <1>1 DEF EngineInv, CallInv
        <5> QED BY <2>6, <5>1, TradeSums
      <4>6. Undelivered(u, c) \in Int /\ Undelivered(u, c)' = Undelivered(u, c) - z
        <5>1. CASE c # a
          BY <1>1, <2>1, <4>3, <5>1 DEF Undelivered
        <5>2. CASE c = a
          <6>1. Undelivered(u, c) = After(SoldBy(results, u), call.settled) + z
            BY <1>1, <2>1, <2>2, <4>3, <5>2 DEF Undelivered
          <6>2. Undelivered(u, c)' = After(SoldBy(results, u), call.settled) + 0
            BY <1>1, <1>6, <2>1, <5>2 DEF Undelivered
          <6> QED BY <4>5, <6>1, <6>2
        <5> QED BY <5>1, <5>2
      <4> QED BY <1>1, <4>1, <4>2, <4>4, <4>6
    <3>14. /\ Dust(u) >= 0
           /\ Dust(u) <= (IF fee_schedule.maker_fee_bps = 0 THEN 0 ELSE maker_fills[u] + OpenFills(u))
      BY DEF LocksInv, LocksRight
    <3> QED BY <1>1, <3>10, <3>12, <3>13, <3>14
  <2>12. LocksRight'
    BY <2>11 DEF LocksRight
  <2> QED BY <1>2, <1>3, <2>12 DEF LocksInv
<1> QED BY <1>1, <1>5, <1>6

-----------------------------------------------------------------------------
\* A trade is settled.

\* What apply_fill does to the two halves of the balances.
LEMMA FillBalances ==
  ASSUME BalancesType, fee_schedule \in FeeSchedules, NEW asset \in Listed,
         NEW trade \in Trades, ApplyFill(asset, trade)
  PROVE  /\ BalancesType'
         /\ \A u \in Accounts :
              /\ usd'[u].locked = usd[u].locked
                   - (IF u = trade.buyer THEN QuoteAmount(trade) + BuyerFee(trade) ELSE 0)
              /\ usd'[u].available >= usd[u].available
         /\ \A a \in Listed, u \in Accounts :
              /\ stock'[a][u].locked = stock[a][u].locked
                   - (IF a = asset /\ u = trade.seller THEN trade.qty ELSE 0)
              /\ stock'[a][u].available >= stock[a][u].available
<1>1. PICK q \in Nat : q = QuoteAmount(trade)
  BY TradeNumbers
<1>2. PICK bf \in Nat : bf = BuyerFee(trade)
  BY TradeNumbers
<1>3. PICK sf \in Nat : sf = SellerFee(trade)
  BY TradeNumbers
<1>4. PICK n \in Nat : n = trade.qty
  BY TradeNumbers
<1>5. PICK buyer \in Accounts : buyer = trade.buyer
  BY TradeNumbers DEF Accounts
<1>6. PICK seller \in Accounts : seller = trade.seller
  BY TradeNumbers DEF Accounts
<1>7. PICK cr \in Nat : cr = SatSub(q, sf)
  <2>1. q > sf => q - sf \in Nat
    OBVIOUS
  <2>2. SatSub(q, sf) \in Nat
    BY <2>1 DEF SatSub
  <2> QED BY <2>2
<1>8. Treasury \in Accounts
  BY DEF Accounts
<1>9. PICK paid : paid = [usd EXCEPT ![buyer].locked = @ - (q + bf)]
  OBVIOUS
<1>10. PICK sold : sold = [paid EXCEPT ![seller].available = @ + cr]
  OBVIOUS
<1>11. usd' = [sold EXCEPT ![Treasury].available = @ + bf + sf]
  BY <1>1, <1>2, <1>3, <1>5, <1>6, <1>7, <1>9, <1>10 DEF ApplyFill, SellerCredit
<1>12. /\ paid \in [Accounts -> Balance]
       /\ \A u \in Accounts :
            /\ paid[u].locked = usd[u].locked - (IF u = buyer THEN q + bf ELSE 0)
            /\ paid[u].available = usd[u].available
  BY <1>9 DEF BalancesType, Balance
<1>13. /\ sold \in [Accounts -> Balance]
       /\ \A u \in Accounts :
            /\ sold[u].locked = paid[u].locked
            /\ sold[u].available = paid[u].available + (IF u = seller THEN cr ELSE 0)
  BY <1>10, <1>12 DEF Balance
<1>14. /\ usd' \in [Accounts -> Balance]
       /\ \A u \in Accounts :
            /\ usd'[u].locked = sold[u].locked
            /\ usd'[u].available = sold[u].available + (IF u = Treasury THEN bf + sf ELSE 0)
  BY <1>8, <1>11, <1>13 DEF Balance
<1>15. \A u \in Accounts : usd[u].available \in Int /\ usd[u].locked \in Int
  BY BalanceNumbers
<1>16. \A u \in Accounts :
         /\ usd'[u].locked = usd[u].locked - (IF u = buyer THEN q + bf ELSE 0)
         /\ usd'[u].available >= usd[u].available
  BY <1>12, <1>13, <1>14, <1>15
<1>17. PICK got : got = [stock EXCEPT ![asset][buyer].available = @ + n]
  OBVIOUS
<1>18. stock' = [got EXCEPT ![asset][seller].locked = @ - n]
  BY <1>4, <1>5, <1>6, <1>17 DEF ApplyFill
<1>19. /\ got \in [Listed -> [Accounts -> Balance]]
       /\ \A a \in Listed, u \in Accounts :
            /\ got[a][u].locked = stock[a][u].locked
            /\ got[a][u].available = stock[a][u].available
                 + (IF a = asset /\ u = buyer THEN n ELSE 0)
  BY <1>17 DEF BalancesType, Balance
<1>20. /\ stock' \in [Listed -> [Accounts -> Balance]]
       /\ \A a \in Listed, u \in Accounts :
            /\ stock'[a][u].locked = got[a][u].locked
                 - (IF a = asset /\ u = seller THEN n ELSE 0)
            /\ stock'[a][u].available = got[a][u].available
  BY <1>18, <1>19 DEF Balance
<1>21. \A a \in Listed, u \in Accounts :
         stock[a][u].available \in Int /\ stock[a][u].locked \in Int
  BY BalanceNumbers
<1>22. \A a \in Listed, u \in Accounts :
         /\ stock'[a][u].locked = stock[a][u].locked - (IF a = asset /\ u = seller THEN n ELSE 0)
         /\ stock'[a][u].available >= stock[a][u].available
  BY <1>19, <1>20, <1>21
<1> QED
  BY <1>1, <1>2, <1>4, <1>5, <1>6, <1>14, <1>16, <1>20, <1>22 DEF BalancesType

\* The trade that is settled, the next one of the call.
IsSettled(a, t, trade, n, price) ==
  /\ a \in Listed /\ a = call.asset /\ t \in Takers /\ t = taker
  /\ trade \in Trades /\ n \in Nat /\ n = call.settled /\ n < Len(results)
  /\ n \in 0..Len(results) /\ n + 1 \in 0..Len(results)
  /\ trade = results[n + 1] /\ trade.taker_side = t.side
  /\ price \in Nat /\ price = Price(trade, fee_schedule)
  /\ price = QuoteAmount(trade) + BuyerFee(trade)
  /\ t.side = "bid" => trade.buyer = t.user_id
  /\ trade.qty \in Nat /\ trade.buyer \in Users /\ trade.seller \in Users
  /\ InCall /\ InCall' /\ ApplyFill(a, trade)
  /\ call'.asset = a /\ call'.settled = n + 1 /\ call'.lock = call.lock
  /\ call'.spent = (IF t.side = "bid" THEN call.spent + price ELSE call.spent)
  /\ call.spent \in Int /\ call.lock \in Int
  /\ maker_fills' = (IF t.side = "ask" THEN [maker_fills EXCEPT ![trade.buyer] = @ + 1]
                     ELSE maker_fills)
  /\ UNCHANGED <<books, fee_schedule, phase, taker, results>>
  /\ OpenIn' = OpenIn /\ EngineInv'

LEMMA SettleFillIs ==
  ASSUME EngineInv, TradesInv, LocksInv, SettleFill
  PROVE  \E a, t, trade, n, price : IsSettled(a, t, trade, n, price)
<1>1. /\ phase = "settling" /\ call.asset \in Listed /\ taker \in Takers
      /\ call.settled + 1 \in 1..Len(results) /\ call.settled \in Nat /\ Len(results) \in Nat
      /\ results[call.settled + 1] \in Trades
      /\ call'.asset = call.asset /\ call'.settled = call.settled + 1 /\ call'.lock = call.lock
      /\ UNCHANGED <<books, fee_schedule, phase, taker, results>>
  BY SettleFillFacts
<1>2. PICK a \in Listed : a = call.asset
  BY <1>1
<1>3. PICK t \in Takers : t = taker
  BY <1>1
<1>4. PICK n \in Nat : n = call.settled
  BY <1>1
<1>5. PICK trade \in Trades : trade = results[n + 1]
  BY <1>1, <1>4
<1>6. InCall /\ InCall'
  BY <1>1 DEF InCall
<1>7. n < Len(results) /\ n \in 0..Len(results) /\ n + 1 \in 0..Len(results)
      /\ n + 1 \in 1..Len(results)
  BY <1>1, <1>4
<1>8. FitsWord(Value(trade), fee_schedule) /\ (t.side = "bid" => trade.buyer = t.user_id)
  BY <1>3, <1>5, <1>6, <1>7 DEF LocksInv, AmountsInv
<1>9. fee_schedule \in FeeSchedules
  BY FeeRates
<1>10. PICK price \in Nat : price = Price(trade, fee_schedule)
  BY <1>9, PriceType
<1>11. price = QuoteAmount(trade) + BuyerFee(trade)
  BY <1>8, <1>9, <1>10, PriceIs
<1>12. trade.taker_side = t.side
  BY <1>3, <1>5, <1>6, <1>7 DEF TradesInv, CallRight, MakerTold
<1>13. /\ trade.qty \in Nat /\ trade.buyer \in Users /\ trade.seller \in Users
       /\ QuoteAmount(trade) \in Nat /\ BuyerFee(trade) \in Nat
  BY <1>9, TradeNumbers
<1>14. ApplyFill(a, trade)
  BY <1>2, <1>4, <1>5 DEF SettleFill
<1>15. call.spent \in Int /\ call.lock \in Int /\ call \in Calls
  BY DEF EngineInv, CallInv, Calls
<1>16. call'.spent = (IF t.side = "bid" THEN call.spent + price ELSE call.spent)
  <2>1. PICK spent : spent = IF t.side = "bid" THEN call.spent + QuoteAmount(trade) + BuyerFee(trade)
                             ELSE call.spent
    OBVIOUS
  <2>2. call' = [call EXCEPT !.spent = spent, !.filled = @ + trade.qty, !.settled = @ + 1]
    BY <1>3, <1>14, <2>1 DEF ApplyFill
  <2>3. call'.spent = spent
    BY <1>15, <2>2 DEF Calls
  <2>4. call.spent + QuoteAmount(trade) + BuyerFee(trade) = call.spent + price
    BY <1>11, <1>13, <1>15
  <2> QED BY <2>1, <2>3, <2>4
<1>17. maker_fills' = (IF t.side = "ask" THEN [maker_fills EXCEPT ![trade.buyer] = @ + 1]
                       ELSE maker_fills)
  BY <1>4, <1>5, <1>12 DEF SettleFill
<1>18. OpenIn' = OpenIn
  BY SettleFillTrades
<1>19. EngineInv'
  <2>1. SettleFill => [Next]_vars
    BY DEF Next
  <2> QED BY <2>1, NextEngineInv
<1>20. IsSettled(a, t, trade, n, price)
  BY <1>1, <1>2, <1>3, <1>4, <1>5, <1>6, <1>7, <1>8, <1>10, <1>11, <1>12, <1>13, <1>14, <1>15,
     <1>16, <1>17, <1>18, <1>19 DEF IsSettled
<1> QED BY <1>20

\* What the resting part of the taker keeps locked.
LEMMA NeededIs ==
  ASSUME EngineInv, AmountsInv, InCall
  PROVE  /\ NeededLocked \in Nat
         /\ ~Rested => NeededLocked = 0
         /\ Rested => /\ taker.tif = "gtc" /\ taker.limit \in Nat
                      /\ NeededLocked = taker.limit * taker.remaining_qty
                           + Share(taker.limit * taker.remaining_qty, fee_schedule.maker_fee_bps)
<1>1. ~Rested => NeededLocked = 0
  BY DEF NeededLocked
<1>2. ASSUME Rested
      PROVE  /\ taker.tif = "gtc" /\ taker.limit \in Nat /\ NeededLocked \in Nat
             /\ NeededLocked = taker.limit * taker.remaining_qty
                  + Share(taker.limit * taker.remaining_qty, fee_schedule.maker_fee_bps)
  <2>1. taker \in Takers /\ call.asset \in Listed
    BY DEF EngineInv, CallInv
  <2>2. phase = "settling"
    <3>1. ASSUME phase = "matching" PROVE FALSE
      <4>1. taker.order_id < taker.order_id
        BY <1>2, <2>1, <3>1 DEF Rested, EngineInv, CallInv, IdsBelow
      <4>2. taker.order_id \in Nat
        BY <2>1 DEF Takers
      <4> QED BY <4>1, <4>2
    <3> QED BY <3>1 DEF InCall
  <2>3. taker.tif = "gtc"
    BY <1>2, <2>2 DEF AmountsInv
  <2>4. /\ taker.limit \in Nat /\ taker.remaining_qty \in Nat
        /\ FitsWord(taker.limit * taker.remaining_qty, fee_schedule)
    BY <2>1, <2>3 DEF EngineInv, CallInv, AmountsInv, Takers
  <2>5. fee_schedule \in FeeSchedules /\ fee_schedule.maker_fee_bps \in Nat
    BY FeeRates
  <2>6. BidNeeds(taker.limit, taker.remaining_qty) = taker.limit * taker.remaining_qty
          + Share(taker.limit * taker.remaining_qty, fee_schedule.maker_fee_bps)
    BY <2>4, <2>5, BidNeedsIs
  <2>7. PICK c \in Nat : c = taker.limit * taker.remaining_qty
    BY <2>4, ProductFacts
  <2>8. Share(c, fee_schedule.maker_fee_bps) \in Nat
    BY <2>5, ShareFacts
  <2> QED BY <1>2, <2>3, <2>4, <2>6, <2>7, <2>8 DEF NeededLocked
<1> QED BY <1>1, <1>2

LEMMA SettleAmounts ==
  ASSUME EngineInv, LocksInv, NEW a, NEW t, NEW trade, NEW n, NEW price,
         IsSettled(a, t, trade, n, price)
  PROVE  AmountsInv' /\ NeededLocked' = NeededLocked /\ (Rested' <=> Rested)
<1>1. /\ InCall /\ InCall' /\ call'.asset = call.asset
      /\ UNCHANGED <<books, fee_schedule, phase, taker, results>>
  BY DEF IsSettled
<1>2. Rested' <=> Rested
  BY <1>1 DEF Rested
<1>3. NeededLocked' = NeededLocked
  BY <1>1, <1>2 DEF NeededLocked, BidNeeds, MakerFee
<1>4. AmountsInv
  BY DEF LocksInv
<1>5. AmountsInv'
  BY <1>1, <1>2, <1>4 DEF AmountsInv
<1> QED BY <1>2, <1>3, <1>5

LEMMA SettleBudget ==
  ASSUME EngineInv, LocksInv, NEW a, NEW t, NEW trade, NEW n, NEW price,
         IsSettled(a, t, trade, n, price)
  PROVE  BudgetInv'
<1>1. /\ InCall /\ InCall' /\ a = call.asset /\ call'.asset = a /\ call'.lock = call.lock
      /\ t = taker /\ n \in Nat /\ n = call.settled /\ n < Len(results) /\ n \in 0..Len(results)
      /\ n + 1 \in 0..Len(results)
      /\ call'.settled = n + 1 /\ trade = results[n + 1] /\ price \in Nat
      /\ price = Price(trade, fee_schedule)
      /\ t.side = "bid" => trade.buyer = t.user_id
      /\ call'.spent = (IF t.side = "bid" THEN call.spent + price ELSE call.spent)
      /\ call.spent \in Int
      /\ UNCHANGED <<books, fee_schedule, phase, taker, results>>
  BY DEF IsSettled
<1>2. SUFFICES ASSUME t.side = "bid" PROVE BudgetInv'
  BY <1>1 DEF BudgetInv
<1>3. PICK value, cost, rate \in Nat :
        /\ call.lock = cost + Share(cost, rate)
        /\ fee_schedule.taker_fee_bps <= rate
        /\ call.spent + After(PaidBy(results, taker.user_id, fee_schedule), call.settled)
             <= value + Share(value, fee_schedule.taker_fee_bps)
        /\ \/ /\ taker.limit \in Nat
              /\ fee_schedule.maker_fee_bps <= rate
              /\ value + taker.limit * taker.remaining_qty <= cost
           \/ /\ taker.tif = "ioc"
              /\ value + (IF phase = "matching"
                          THEN Sweep(books[call.asset], "ask", taker.limit, taker.remaining_qty).cost
                          ELSE 0) <= cost
  BY <1>1, <1>2 DEF LocksInv, BudgetInv
<1>4. results \in Seq(Trades) /\ fee_schedule \in FeeSchedules
  BY DEF EngineInv, CallInv
<1>5. PICK paid : paid = After(PaidBy(results, t.user_id, fee_schedule), n)
  OBVIOUS
<1>6. PICK left \in Nat : left = After(PaidBy(results, t.user_id, fee_schedule), n + 1)
  BY <1>1, <1>4, TradeSums
<1>7. paid = left + price
  BY <1>1, <1>2, <1>4, <1>5, <1>6, TradeSums
<1>8. call.spent + paid = (call.spent + price) + left
  BY <1>1, <1>7
<1>9. call'.spent + After(PaidBy(results', taker'.user_id, fee_schedule'), call'.settled)
        = call.spent + After(PaidBy(results, taker.user_id, fee_schedule), call.settled)
  BY <1>1, <1>2, <1>5, <1>6, <1>8
<1>10. /\ call'.lock = cost + Share(cost, rate)
       /\ fee_schedule'.taker_fee_bps <= rate
       /\ call'.spent + After(PaidBy(results', taker'.user_id, fee_schedule'), call'.settled)
            <= value + Share(value, fee_schedule'.taker_fee_bps)
       /\ \/ /\ taker'.limit \in Nat
             /\ fee_schedule'.maker_fee_bps <= rate
             /\ value + taker'.limit * taker'.remaining_qty <= cost
          \/ /\ taker'.tif = "ioc"
             /\ value + (IF phase' = "matching"
                         THEN Sweep(books'[call'.asset], "ask", taker'.limit, taker'.remaining_qty).cost
                         ELSE 0) <= cost
  BY <1>1, <1>3, <1>9
<1> QED BY <1>10 DEF BudgetInv

LEMMA SettleAvailable ==
  ASSUME EngineInv, LocksInv, NEW a, NEW t, NEW trade, NEW n, NEW price,
         IsSettled(a, t, trade, n, price)
  PROVE  AvailableInv'
<1>1. /\ a \in Listed /\ trade \in Trades /\ ApplyFill(a, trade)
      /\ maker_fills' = (IF t.side = "ask" THEN [maker_fills EXCEPT ![trade.buyer] = @ + 1]
                         ELSE maker_fills)
      /\ trade.buyer \in Users /\ trade.seller \in Users
  BY DEF IsSettled
<1>2. fee_schedule \in FeeSchedules /\ BalancesType /\ AvailableInv
  BY FeeRates DEF LocksInv, AvailableInv
<1>3. /\ BalancesType'
      /\ \A u \in Accounts :
           /\ usd'[u].locked = usd[u].locked
                - (IF u = trade.buyer THEN QuoteAmount(trade) + BuyerFee(trade) ELSE 0)
           /\ usd'[u].available >= usd[u].available
      /\ \A c \in Listed, u \in Accounts :
           /\ stock'[c][u].locked = stock[c][u].locked
                - (IF c = a /\ u = trade.seller THEN trade.qty ELSE 0)
           /\ stock'[c][u].available >= stock[c][u].available
  BY <1>1, <1>2, FillBalances
<1>4. /\ \A u \in Accounts : usd[u].available \in Int /\ usd[u].locked \in Int
      /\ \A c \in Listed, u \in Accounts :
           stock[c][u].available \in Int /\ stock[c][u].locked \in Int
      /\ Treasury \in Accounts /\ Treasury \notin Users
  BY <1>2, BalanceNumbers
<1>5. /\ \A u \in Accounts : usd'[u].available \in Int
      /\ \A c \in Listed, u \in Accounts : stock'[c][u].available \in Int
  <2>1. \A x \in Balance : x.available \in Int
    BY DEF Balance
  <2> QED BY <1>3, <2>1 DEF BalancesType
<1>6. \A u \in Accounts :
        usd'[u].available >= 0 /\ \A c \in Listed : stock'[c][u].available >= 0
  BY <1>2, <1>3, <1>4, <1>5 DEF AvailableInv
<1>7. Treasury # trade.buyer /\ Treasury # trade.seller
  BY <1>1, <1>4
<1>8. usd'[Treasury].locked >= 0 /\ \A c \in Listed : stock'[c][Treasury].locked >= 0
  BY <1>2, <1>3, <1>4, <1>7 DEF AvailableInv
<1>9. maker_fills' \in [Users -> Nat]
  BY <1>1, <1>2 DEF AvailableInv
<1> QED BY <1>3, <1>6, <1>8, <1>9 DEF AvailableInv

LEMMA SettleLocks ==
  ASSUME EngineInv, LocksInv, NEW a, NEW t, NEW trade, NEW n, NEW price,
         IsSettled(a, t, trade, n, price)
  PROVE  LocksRight'
<1>1. /\ InCall /\ InCall' /\ a \in Listed /\ a = call.asset /\ call'.asset = a
      /\ t \in Takers /\ t = taker /\ trade \in Trades
      /\ n \in Nat /\ n = call.settled /\ n < Len(results) /\ n \in 0..Len(results)
      /\ n + 1 \in 0..Len(results) /\ call'.settled = n + 1
      /\ trade = results[n + 1] /\ price \in Nat
      /\ price = Price(trade, fee_schedule) /\ price = QuoteAmount(trade) + BuyerFee(trade)
      /\ t.side = "bid" => trade.buyer = t.user_id
      /\ trade.qty \in Nat /\ trade.buyer \in Users /\ trade.seller \in Users
      /\ ApplyFill(a, trade) /\ call'.lock = call.lock
      /\ call'.spent = (IF t.side = "bid" THEN call.spent + price ELSE call.spent)
      /\ call.spent \in Int /\ call.lock \in Int
      /\ OpenIn' = OpenIn
  BY DEF IsSettled
<1>2. /\ fee_schedule' = fee_schedule /\ taker' = taker /\ results' = results
      /\ maker_fills' = (IF t.side = "ask" THEN [maker_fills EXCEPT ![trade.buyer] = @ + 1]
                         ELSE maker_fills)
  BY DEF IsSettled
<1>3. fee_schedule \in FeeSchedules /\ fee_schedule.maker_fee_bps \in Nat /\ BalancesType
      /\ maker_fills \in [Users -> Nat]
  BY FeeRates DEF LocksInv, AvailableInv
<1>4. results \in Seq(Trades)
  BY DEF EngineInv, CallInv
<1>5. NeededLocked' = NeededLocked /\ NeededLocked \in Nat /\ (Rested' <=> Rested)
  BY <1>1, SettleAmounts, NeededIs DEF LocksInv
<1>6. t.side = "bid" \/ t.side = "ask"
  BY <1>1 DEF Takers, Sides
<1>7. t.remaining_qty \in Nat
  BY <1>1 DEF Takers
<1>8. /\ \A u \in Accounts :
           usd'[u].locked = usd[u].locked - (IF u = trade.buyer THEN price ELSE 0)
      /\ \A c \in Listed, u \in Accounts :
           stock'[c][u].locked = stock[c][u].locked
             - (IF c = a /\ u = trade.seller THEN trade.qty ELSE 0)
  <2>1. a \in Listed /\ trade \in Trades /\ ApplyFill(a, trade)
        /\ price = QuoteAmount(trade) + BuyerFee(trade)
    BY <1>1
  <2> QED BY <1>3, <2>1, FillBalances
<1>9. ASSUME NEW u \in Users
      PROVE  /\ (Dust(u) >= 0)'
             /\ (Dust(u) <= IF fee_schedule.maker_fee_bps = 0 THEN 0 ELSE maker_fills[u] + OpenFills(u))'
             /\ (\A c \in Listed :
                   stock[c][u].locked = NeedsOf(OpenIn[c], u, "ask", 0) + Undelivered(u, c))'
  <2>1. /\ usd[u].locked \in Int /\ \A c \in Listed : stock[c][u].locked \in Int
        /\ maker_fills[u] \in Nat /\ u \in Accounts
    BY <1>3, BalanceNumbers
  <2>2. PICK needs \in Nat : needs = UsdNeeds(OpenIn, u, fee_schedule.maker_fee_bps)
    BY <1>3, OpenInType, UsdNeedsType
  <2>3. PICK y \in Nat : y = IF trade.buyer = u THEN price ELSE 0
    BY <1>1
  <2>4. PICK z \in Nat : z = IF trade.seller = u THEN trade.qty ELSE 0
    BY <1>1
  <2>5. PICK one \in Nat : one = IF trade.buyer = u THEN 1 ELSE 0
    OBVIOUS
  <2>6. /\ After(PaidBy(results, u, fee_schedule), n) =
             After(PaidBy(results, u, fee_schedule), n + 1) + y
        /\ After(SoldBy(results, u), n) = After(SoldBy(results, u), n + 1) + z
        /\ After(FillsOf(results, u), n) = After(FillsOf(results, u), n + 1) + one
    <3>1. results \in Seq(Trades) /\ fee_schedule \in FeeSchedules
          /\ n \in 0..Len(results) /\ n < Len(results)
      BY <1>1, <1>3, <1>4
    <3>2. After(PaidBy(results, u, fee_schedule), n) =
            After(PaidBy(results, u, fee_schedule), n + 1)
              + (IF results[n + 1].buyer = u THEN Price(results[n + 1], fee_schedule) ELSE 0)
      BY <3>1, TradeSums
    <3>3. After(SoldBy(results, u), n) = After(SoldBy(results, u), n + 1)
            + (IF results[n + 1].seller = u THEN results[n + 1].qty ELSE 0)
      BY <3>1, <3>2, TradeSums
    <3>4. After(FillsOf(results, u), n) = After(FillsOf(results, u), n + 1)
            + (IF results[n + 1].buyer = u THEN 1 ELSE 0)
      BY <3>1, <3>2, TradeSums
    <3> QED BY <1>1, <2>3, <2>4, <2>5, <3>2, <3>3, <3>4
  <2>7. /\ After(PaidBy(results, u, fee_schedule), n + 1) \in Nat
        /\ After(SoldBy(results, u), n + 1) \in Nat
        /\ After(FillsOf(results, u), n + 1) \in Nat
    BY <1>1, <1>3, <1>4, TradeSums
  <2>8. Escrow(u) \in Int /\ Escrow(u)' = Escrow(u) - y
    <3>1. CASE t.side = "bid"
      <4>1. Escrow(u) = IF t.user_id = u THEN call.lock - call.spent - NeededLocked ELSE 0
        BY <1>1, <3>1 DEF Escrow
      <4>2. Escrow(u)' = IF t.user_id = u THEN call.lock - (call.spent + price) - NeededLocked ELSE 0
        BY <1>1, <1>2, <1>5, <3>1 DEF Escrow
      <4>3. call.lock - (call.spent + price) - NeededLocked = (call.lock - call.spent - NeededLocked) - price
        BY <1>1, <1>5
      <4>4. PICK e \in Int : e = call.lock - call.spent - NeededLocked
        BY <1>1, <1>5
      <4>5. y = IF t.user_id = u THEN price ELSE 0
        BY <1>1, <2>3, <3>1
      <4>6. Escrow(u) = (IF t.user_id = u THEN e ELSE 0)
            /\ Escrow(u)' = (IF t.user_id = u THEN e - price ELSE 0)
        BY <4>1, <4>2, <4>3, <4>4
      <4> QED BY <1>1, <4>5, <4>6
    <3>2. CASE t.side = "ask"
      <4>1. Escrow(u) = After(PaidBy(results, u, fee_schedule), n)
        BY <1>1, <3>2 DEF Escrow
      <4>2. Escrow(u)' = After(PaidBy(results, u, fee_schedule), n + 1)
        BY <1>1, <1>2, <3>2 DEF Escrow
      <4> QED BY <2>6, <2>7, <4>1, <4>2
    <3> QED BY <1>6, <3>1, <3>2
  <2>9. OpenFills(u) \in Nat /\ OpenFills(u)' \in Nat
        /\ maker_fills'[u] + OpenFills(u)' = maker_fills[u] + OpenFills(u)
    <3>1. CASE t.side = "bid"
      <4>1. OpenFills(u) = 0 /\ OpenFills(u)' = 0
        BY <1>1, <1>2, <3>1 DEF OpenFills
      <4> QED BY <1>2, <3>1, <4>1
    <3>2. CASE t.side = "ask"
      <4>1. OpenFills(u) = After(FillsOf(results, u), n)
            /\ OpenFills(u)' = After(FillsOf(results, u), n + 1)
        BY <1>1, <1>2, <3>2 DEF OpenFills
      <4>2. maker_fills'[u] = maker_fills[u] + one
        BY <1>1, <1>2, <1>3, <2>5, <3>2
      <4> QED BY <2>1, <2>6, <2>7, <4>1, <4>2
    <3> QED BY <1>6, <3>1, <3>2
  <2>10. Dust(u) = usd[u].locked - needs - Escrow(u)
         /\ Dust(u)' = usd'[u].locked - needs - Escrow(u)'
    BY <1>1, <1>2, <2>2 DEF Dust
  <2>11. Dust(u)' = Dust(u)
    <3>1. usd'[u].locked = usd[u].locked - y
      BY <1>8, <2>1, <2>3
    <3> QED BY <2>1, <2>8, <2>10, <3>1
  <2>12. /\ Dust(u) >= 0
         /\ Dust(u) <= (IF fee_schedule.maker_fee_bps = 0 THEN 0 ELSE maker_fills[u] + OpenFills(u))
    BY DEF LocksInv, LocksRight
  <2>13. ASSUME NEW c \in Listed
         PROVE  stock'[c][u].locked = NeedsOf(OpenIn'[c], u, "ask", 0) + Undelivered(u, c)'
    <3>1. stock[c][u].locked = NeedsOf(OpenIn[c], u, "ask", 0) + Undelivered(u, c)
      BY DEF LocksInv, LocksRight
    <3>2. NeedsOf(OpenIn[c], u, "ask", 0) \in Nat
      BY OpenInType, NeedsType DEF OpensType
    <3>3. CASE c # a
      <4>1. Undelivered(u, c) = 0 /\ Undelivered(u, c)' = 0
        BY <1>1, <3>3 DEF Undelivered
      <4>2. stock'[c][u].locked = stock[c][u].locked
        BY <1>8, <2>1, <3>3
      <4> QED BY <1>1, <3>1, <4>1, <4>2
    <3>4. CASE c = a
      <4>1. PICK r \in Nat : r = IF t.side = "ask" /\ t.user_id = u /\ ~Rested THEN t.remaining_qty ELSE 0
        BY <1>7
      <4>2. Undelivered(u, c) = After(SoldBy(results, u), n) + r
        BY <1>1, <3>4, <4>1 DEF Undelivered
      <4>3. Undelivered(u, c)' = After(SoldBy(results, u), n + 1) + r
        BY <1>1, <1>2, <1>5, <3>4, <4>1 DEF Undelivered
      <4>4. stock'[c][u].locked = stock[c][u].locked - z
        BY <1>8, <2>1, <2>4, <3>4
      <4> QED BY <1>1, <2>6, <2>7, <3>1, <3>2, <4>2, <4>3, <4>4
    <3> QED BY <3>3, <3>4
  <2> QED BY <1>2, <2>9, <2>11, <2>12, <2>13
<1> QED BY <1>9 DEF LocksRight

LEMMA SettleFillLocks ==
  ASSUME EngineInv, TradesInv, LocksInv, SettleFill
  PROVE  LocksInv'
<1>1. PICK a, t, trade, n, price : IsSettled(a, t, trade, n, price)
  BY SettleFillIs
<1> QED BY <1>1, SettleAmounts, SettleBudget, SettleAvailable, SettleLocks DEF LocksInv

-----------------------------------------------------------------------------
\* The rest of the lock goes back.

\* A bid's lock pays for all its trades and for what rests of it: the fees on
\* the parts are at most the fee on the whole, and what rests was locked at the
\* higher of the two rates.
LEMMA LockIsEnough ==
  ASSUME EngineInv, AmountsInv, BudgetInv, InCall, taker.side = "bid"
  PROVE  /\ call.spent \in Int /\ call.lock \in Int /\ NeededLocked \in Nat
         /\ After(PaidBy(results, taker.user_id, fee_schedule), call.settled) \in Nat
         /\ call.spent + After(PaidBy(results, taker.user_id, fee_schedule), call.settled)
              + NeededLocked <= call.lock
<1>1. PICK value, cost, rate \in Nat :
        /\ call.lock = cost + Share(cost, rate)
        /\ fee_schedule.taker_fee_bps <= rate
        /\ call.spent + After(PaidBy(results, taker.user_id, fee_schedule), call.settled)
             <= value + Share(value, fee_schedule.taker_fee_bps)
        /\ \/ /\ taker.limit \in Nat
              /\ fee_schedule.maker_fee_bps <= rate
              /\ value + taker.limit * taker.remaining_qty <= cost
           \/ /\ taker.tif = "ioc"
              /\ value + (IF phase = "matching"
                          THEN Sweep(books[call.asset], "ask", taker.limit, taker.remaining_qty).cost
                          ELSE 0) <= cost
  BY DEF BudgetInv
<1>2. /\ fee_schedule \in FeeSchedules /\ fee_schedule.maker_fee_bps \in Nat
      /\ fee_schedule.taker_fee_bps \in Nat
  BY FeeRates
<1>3. /\ results \in Seq(Trades) /\ call.settled \in 0..Len(results)
      /\ taker \in Takers /\ call.asset \in Listed /\ call.spent \in Int /\ call.lock \in Int
  BY DEF EngineInv, CallInv, Calls
<1>4. PICK paid \in Nat : paid = After(PaidBy(results, taker.user_id, fee_schedule), call.settled)
  BY <1>2, <1>3, TradeSums
<1>5. taker.remaining_qty \in Nat
  BY <1>3 DEF Takers
<1>6. /\ Share(value, fee_schedule.taker_fee_bps) \in Nat /\ Share(value, rate) \in Nat
      /\ Share(value, fee_schedule.taker_fee_bps) <= Share(value, rate)
      /\ Share(cost, rate) \in Nat
  BY <1>1, <1>2, ShareFacts, ShareOfRates
<1>7. NeededLocked \in Nat
  BY NeededIs
<1>8. CASE Rested
  <2>1. /\ taker.tif = "gtc" /\ taker.limit \in Nat
        /\ NeededLocked = taker.limit * taker.remaining_qty
             + Share(taker.limit * taker.remaining_qty, fee_schedule.maker_fee_bps)
    BY <1>8, NeededIs
  <2>2. PICK x \in Nat : x = taker.limit * taker.remaining_qty
    BY <1>5, <2>1, ProductFacts
  <2>3. fee_schedule.maker_fee_bps <= rate /\ value + x <= cost
    BY <1>1, <2>1, <2>2
  <2>4. /\ Share(x, fee_schedule.maker_fee_bps) \in Nat /\ Share(x, rate) \in Nat
        /\ Share(x, fee_schedule.maker_fee_bps) <= Share(x, rate)
    BY <1>2, <2>3, ShareFacts, ShareOfRates
  <2>5. PICK v \in Nat : v = value + x
    OBVIOUS
  <2>6. /\ Share(v, rate) \in Nat /\ Share(value, rate) + Share(x, rate) <= Share(v, rate)
        /\ Share(v, rate) <= Share(cost, rate)
    BY <2>3, <2>5, ShareFacts
  <2>7. NeededLocked = x + Share(x, fee_schedule.maker_fee_bps)
    BY <2>1, <2>2
  <2>8. call.spent + paid <= value + Share(value, fee_schedule.taker_fee_bps)
    BY <1>1, <1>4
  <2>9. call.spent + paid + NeededLocked <= cost + Share(cost, rate)
    <3>1. PICK spent \in Int : spent = call.spent
      BY <1>3
    <3>2. PICK f, g \in Nat : f = Share(value, fee_schedule.taker_fee_bps)
                              /\ g = Share(x, fee_schedule.maker_fee_bps)
      BY <1>6, <2>4
    <3>3. PICK all \in Nat : all = Share(cost, rate)
      BY <1>6
    <3>4. f + g <= all
      BY <1>6, <2>4, <2>6, <3>2, <3>3
    <3>5. spent + paid <= value + f /\ value + x <= cost
      BY <2>3, <2>8, <3>1, <3>2
    <3>6. spent + paid + (x + g) <= cost + all
      BY <3>4, <3>5
    <3> QED BY <2>7, <3>1, <3>2, <3>3, <3>6
  <2> QED BY <1>1, <1>3, <1>4, <1>7, <2>9
<1>9. CASE ~Rested
  <2>1. NeededLocked = 0
    BY <1>9, NeededIs
  <2>2. value <= cost
    <3>1. CASE taker.limit \in Nat /\ value + taker.limit * taker.remaining_qty <= cost
      <4>1. taker.limit * taker.remaining_qty \in Nat
        BY <1>5, <3>1, ProductFacts
      <4> QED BY <3>1, <4>1
    <3>2. CASE value + (IF phase = "matching"
                        THEN Sweep(books[call.asset], "ask", taker.limit, taker.remaining_qty).cost
                        ELSE 0) <= cost
      <4>1. Walkable(books[call.asset], "ask")
        BY <1>3, WellFormedWalkable DEF EngineInv, BooksInv, Sides
      <4>2. Sweep(books[call.asset], "ask", taker.limit, taker.remaining_qty).cost \in Nat
        BY <1>5, <4>1, SweepType DEF Taken
      <4> QED BY <3>2, <4>2
    <3> QED BY <1>1, <3>1, <3>2
  <2>3. Share(value, rate) <= Share(cost, rate)
    BY <2>2, ShareFacts
  <2>4. call.spent + paid <= value + Share(value, fee_schedule.taker_fee_bps)
    BY <1>1, <1>4
  <2>5. call.spent + paid + 0 <= cost + Share(cost, rate)
    BY <1>3, <1>6, <2>2, <2>3, <2>4
  <2> QED BY <1>1, <1>3, <1>4, <1>7, <2>1, <2>5
<1> QED BY <1>8, <1>9

\* So what a call has in locked is never negative.
LEMMA EscrowNat ==
  ASSUME EngineInv, AmountsInv, BudgetInv, NEW u
  PROVE  Escrow(u) \in Nat
<1>1. CASE ~InCall
  BY <1>1 DEF Escrow
<1>2. CASE InCall /\ taker.side = "ask"
  <2>1. results \in Seq(Trades) /\ call.settled \in 0..Len(results) /\ fee_schedule \in FeeSchedules
    BY <1>2 DEF EngineInv, CallInv
  <2>2. After(PaidBy(results, u, fee_schedule), call.settled) \in Nat
    BY <2>1, TradeSums
  <2> QED BY <1>2, <2>2 DEF Escrow
<1>3. CASE InCall /\ taker.side # "ask"
  <2>1. taker.side = "bid"
    BY <1>3 DEF EngineInv, CallInv, Takers, Sides
  <2>2. PICK paid : paid = After(PaidBy(results, taker.user_id, fee_schedule), call.settled)
    OBVIOUS
  <2>3. /\ call.spent \in Int /\ call.lock \in Int /\ NeededLocked \in Nat /\ paid \in Nat
        /\ call.spent + paid + NeededLocked <= call.lock
    BY <1>3, <2>1, <2>2, LockIsEnough
  <2>4. call.lock - call.spent - NeededLocked \in Nat
    BY <2>3
  <2>5. Escrow(u) = IF taker.user_id = u THEN call.lock - call.spent - NeededLocked ELSE 0
    BY <1>3, <2>1 DEF Escrow
  <2> QED BY <2>4, <2>5
<1> QED BY <1>1, <1>2, <1>3

\* What an ask has left is what its trades left.
LEMMA FilledIs ==
  ASSUME EngineInv, TradesInv, InCall, call.settled = Len(results)
  PROVE  taker.qty - call.filled = taker.remaining_qty
<1>1. PICK n : n = PartSum(results, Len(results))
  OBVIOUS
<1>2. taker.qty - taker.remaining_qty = n /\ call.filled = n
  BY <1>1 DEF TradesInv, CallRight
<1>3. taker.qty \in Int /\ taker.remaining_qty \in Int
  BY DEF EngineInv, CallInv, Takers
<1> QED BY <1>2, <1>3

\* The refund is what the call has in locked.
LEMMA RefundIs ==
  ASSUME EngineInv, TradesInv, LocksInv, phase = "settling", call.settled = Len(results)
  PROVE  /\ Refund \in Nat
         /\ \A u \in Users :
              /\ Escrow(u) = IF u = taker.user_id /\ taker.side = "bid" THEN Refund ELSE 0
              /\ OpenFills(u) = 0
              /\ \A a \in Listed : Undelivered(u, a) =
                   IF a = call.asset /\ u = taker.user_id /\ taker.side = "ask" THEN Refund ELSE 0
<1>1. InCall
  BY DEF InCall
<1>2. /\ results \in Seq(Trades) /\ Len(results) \in 0..Len(results) /\ taker \in Takers
      /\ fee_schedule \in FeeSchedules /\ taker.remaining_qty \in Nat
      /\ taker.side = "bid" \/ taker.side = "ask"
  BY <1>1 DEF EngineInv, CallInv, Takers, Sides
<1>3. ASSUME NEW u
      PROVE  /\ After(PaidBy(results, u, fee_schedule), call.settled) = 0
             /\ After(SoldBy(results, u), call.settled) = 0
             /\ After(FillsOf(results, u), call.settled) = 0
  BY <1>2, TradeSums
<1>4. \A u \in Users : OpenFills(u) = 0
  BY <1>3 DEF OpenFills
<1>5. CASE taker.side = "bid"
  <2>1. PICK e : e = call.lock - call.spent - NeededLocked
    OBVIOUS
  <2>2. /\ call.spent \in Int /\ call.lock \in Int /\ NeededLocked \in Nat
        /\ call.spent + 0 + NeededLocked <= call.lock
    <3>1. AmountsInv /\ BudgetInv
      BY DEF LocksInv
    <3> QED BY <1>1, <1>3, <1>5, <3>1, LockIsEnough
  <2>3. PICK rest \in Nat : rest = SatSub(call.lock, call.spent) /\ rest = call.lock - call.spent
    <3>1. call.lock - call.spent \in Nat /\ SatSub(call.lock, call.spent) = call.lock - call.spent
      BY <2>2 DEF SatSub
    <3> QED BY <3>1
  <2>4. e \in Nat /\ SatSub(rest, NeededLocked) = e
    BY <2>1, <2>2, <2>3 DEF SatSub
  <2>5. Refund = e
    BY <1>5, <2>3, <2>4 DEF Refund
  <2>6. ASSUME NEW u \in Users
        PROVE  /\ Escrow(u) = (IF u = taker.user_id THEN e ELSE 0)
               /\ \A a \in Listed : Undelivered(u, a) = 0
    <3>1. Escrow(u) = (IF u = taker.user_id THEN e ELSE 0)
      BY <1>1, <1>5, <2>1 DEF Escrow
    <3>2. \A a \in Listed : Undelivered(u, a) = 0
      BY <1>1, <1>3, <1>5 DEF Undelivered
    <3> QED BY <3>1, <3>2
  <2> QED BY <1>4, <1>5, <2>4, <2>5, <2>6
<1>6. CASE taker.side = "ask"
  <2>1. PICK left \in Nat : left = taker.remaining_qty
    BY <1>2
  <2>2. Refund = IF taker.tif # "gtc" THEN left ELSE 0
    BY <1>1, <1>6, <2>1, FilledIs DEF Refund
  <2>3. Rested <=> taker.tif = "gtc" /\ left > 0
    BY <2>1 DEF LocksInv, AmountsInv
  <2>4. Refund = IF Rested THEN 0 ELSE left
    BY <2>2, <2>3
  <2>5. ASSUME NEW u \in Users
        PROVE  /\ Escrow(u) = 0
               /\ \A a \in Listed : Undelivered(u, a) =
                    (IF a = call.asset /\ u = taker.user_id THEN Refund ELSE 0)
    <3>1. Escrow(u) = 0
      BY <1>1, <1>3, <1>6 DEF Escrow
    <3>2. ASSUME NEW a \in Listed
          PROVE  Undelivered(u, a) = (IF a = call.asset /\ u = taker.user_id THEN Refund ELSE 0)
      <4>1. CASE a # call.asset
        BY <4>1 DEF Undelivered
      <4>2. CASE a = call.asset
        <5>1. Undelivered(u, a) = 0 + (IF taker.user_id = u /\ ~Rested THEN left ELSE 0)
          BY <1>1, <1>3, <1>6, <2>1, <4>2 DEF Undelivered
        <5> QED BY <2>4, <4>2, <5>1
      <4> QED BY <4>1, <4>2
    <3> QED BY <3>1, <3>2
  <2> QED BY <1>4, <1>6, <2>2, <2>5
<1> QED BY <1>2, <1>5, <1>6

LEMMA ReconcileLocks ==
  ASSUME EngineInv, TradesInv, LocksInv, Reconcile
  PROVE  LocksInv'
<1>1. /\ phase = "settling" /\ call.settled = Len(results) /\ phase' = "replied"
      /\ Move(Unlock, taker.user_id, call.asset, taker.side, Refund)
      /\ books' = books /\ fee_schedule' = fee_schedule /\ maker_fills' = maker_fills
  BY DEF Reconcile
<1>2. InCall /\ ~InCall'
  BY <1>1 DEF InCall
<1>3. EngineInv'
  <2>1. Reconcile => [Next]_vars
    BY DEF Next
  <2> QED BY <2>1, NextEngineInv
<1>4. PICK user \in Users : user = taker.user_id
  BY <1>2 DEF EngineInv, CallInv, Takers
<1>5. PICK asset \in Listed : asset = call.asset
  BY <1>2 DEF EngineInv, CallInv
<1>6. PICK side \in Sides : side = taker.side
  BY <1>2 DEF EngineInv, CallInv, Takers
<1>7. PICK n \in Nat : n = Refund
  BY <1>1, RefundIs
<1>8. \A u \in Users :
        /\ Escrow(u) = (IF u = user /\ side = "bid" THEN n ELSE 0)
        /\ OpenFills(u) = 0
        /\ \A a \in Listed : Undelivered(u, a) =
             (IF a = asset /\ u = user /\ side = "ask" THEN n ELSE 0)
  BY <1>1, <1>4, <1>5, <1>6, <1>7, RefundIs
<1>9. Move(Unlock, user, asset, side, n) /\ -n \in Int /\ n \in Int
  BY <1>1, <1>4, <1>5, <1>6, <1>7
<1>10. AvailableInv /\ BalancesType
  BY DEF LocksInv, AvailableInv
<1>11. /\ \A u \in Accounts :
            usd'[u].locked = usd[u].locked + (IF u = user /\ side = "bid" THEN -n ELSE 0)
       /\ \A a \in Listed, u \in Accounts :
            stock'[a][u].locked = stock[a][u].locked
              + (IF a = asset /\ u = user /\ side = "ask" THEN -n ELSE 0)
  BY <1>9, <1>10, MoveIs
<1>12. AvailableInv'
  <2>1. user \in Accounts /\ usd[user].available \in Int /\ stock[asset][user].available \in Int
    BY <1>10, BalanceNumbers
  <2>2. -n <= usd[user].available /\ -n <= stock[asset][user].available
    BY <1>10, <2>1 DEF AvailableInv
  <2> QED BY <1>1, <1>9, <1>10, <2>2, MoveAvailable
<1>13. OpenIn' = OpenIn
  BY <1>1, OpenInSame
<1>14. ASSUME NEW u \in Users
       PROVE  /\ UsdNeeds(OpenIn, u, fee_schedule.maker_fee_bps) <= usd'[u].locked
              /\ usd'[u].locked - UsdNeeds(OpenIn, u, fee_schedule.maker_fee_bps)
                   <= IF fee_schedule.maker_fee_bps = 0 THEN 0 ELSE maker_fills[u]
              /\ \A a \in Listed : stock'[a][u].locked = NeedsOf(OpenIn[a], u, "ask", 0)
  <2>1. /\ u \in Accounts /\ usd[u].locked \in Int /\ \A a \in Listed : stock[a][u].locked \in Int
        /\ maker_fills[u] \in Nat
    BY <1>10, BalanceNumbers DEF AvailableInv
  <2>2. PICK needs \in Nat : needs = UsdNeeds(OpenIn, u, fee_schedule.maker_fee_bps)
    BY FeeRates, OpenInType, UsdNeedsType
  <2>3. \A a \in Listed : NeedsOf(OpenIn[a], u, "ask", 0) \in Nat
    BY OpenInType, NeedsType DEF OpensType
  <2>4. PICK e \in Nat : e = IF u = user /\ side = "bid" THEN n ELSE 0
    OBVIOUS
  <2>5. Dust(u) = usd[u].locked - needs - e
    BY <1>8, <2>2, <2>4 DEF Dust
  <2>6. /\ Dust(u) >= 0
        /\ Dust(u) <= (IF fee_schedule.maker_fee_bps = 0 THEN 0 ELSE maker_fills[u] + 0)
        /\ \A a \in Listed : stock[a][u].locked = NeedsOf(OpenIn[a], u, "ask", 0) + Undelivered(u, a)
    BY <1>8 DEF LocksInv, LocksRight
  <2>7. usd'[u].locked = usd[u].locked - e
    BY <1>11, <2>1, <2>4
  <2>8. /\ needs <= usd'[u].locked
        /\ usd'[u].locked - needs = Dust(u)
    BY <2>1, <2>5, <2>6, <2>7
  <2>9. usd'[u].locked - needs <= IF fee_schedule.maker_fee_bps = 0 THEN 0 ELSE maker_fills[u]
    BY <2>1, <2>6, <2>8
  <2>10. ASSUME NEW a \in Listed
         PROVE  stock'[a][u].locked = NeedsOf(OpenIn[a], u, "ask", 0)
    <3>1. PICK z \in Nat : z = IF a = asset /\ u = user /\ side = "ask" THEN n ELSE 0
      OBVIOUS
    <3>2. stock[a][u].locked = NeedsOf(OpenIn[a], u, "ask", 0) + z
      BY <1>8, <2>6, <3>1
    <3>3. stock'[a][u].locked = stock[a][u].locked - z
      BY <1>11, <2>1, <3>1
    <3> QED BY <2>3, <3>2, <3>3
  <2> QED BY <2>2, <2>8, <2>9, <2>10
<1>15. \A a \in Listed : \A id \in DOMAIN books'[a].orders :
         FitsWord(books'[a].orders[id].price * books'[a].orders[id].remaining_qty, fee_schedule')
  BY <1>1 DEF LocksInv, AmountsInv
<1>16. IdleLocks'
  BY <1>1, <1>12, <1>13, <1>14, <1>15 DEF IdleLocks
<1> QED BY <1>2, <1>3, <1>16, IdleLocksEnoughNext

-----------------------------------------------------------------------------
\* All steps, and what follows.

LEMMA LocksStep ==
  ASSUME ProductsFit, EngineInv, TradesInv, PricesInv, LocksInv, [Next]_vars
  PROVE  LocksInv'
<1>1. ASSUME NEW user \in Users, NEW r \in Requests, OrderRefused(user, r) PROVE LocksInv'
  BY <1>1, OtherLocks
<1>2. ASSUME NEW user \in Users, NEW r \in Requests, HandleOrder(user, r) PROVE LocksInv'
  BY <1>2, HandleOrderLocks
<1>3. CASE MatchStep
  BY <1>3, MatchStepLocks
<1>4. CASE Complete
  BY <1>4, CompleteLocks
<1>5. CASE SettleFill
  BY <1>5, SettleFillLocks
<1>6. CASE Reconcile
  BY <1>6, ReconcileLocks
<1>7. CASE Return
  BY <1>7, OtherLocks
<1>8. ASSUME NEW user \in Users, NEW id \in 1..MaxOrderId, HandleCancel(user, id)
      PROVE  LocksInv'
  BY <1>8, CancelLocks
<1>9. ASSUME NEW user \in Users, NEW id \in 1..MaxOrderId, CancelRefused(user, id)
      PROVE  LocksInv'
  BY <1>9, OtherLocks
<1>10. ASSUME NEW user \in Users, NEW amount \in OnrampAmounts, HandleOnramp(user, amount)
       PROVE  LocksInv'
  BY <1>10, OtherLocks
<1>11. ASSUME NEW user \in Users, NEW asset \in Symbols \cap Listed, NEW amount \in DepositAmounts,
              HandleDeposit(user, asset, amount)
       PROVE  LocksInv'
  BY <1>11, OtherLocks
<1>12. CASE HandleReset
  BY <1>12, ResetLocks
<1>13. CASE UNCHANGED vars
  <2>1. /\ UNCHANGED <<usd, stock, books, fee_schedule, phase, taker, results, call, maker_fills>>
        /\ (InCall' <=> InCall) /\ OpenIn' = OpenIn /\ (Rested' <=> Rested)
    BY <1>13 DEF vars, InCall, OpenIn, Rested
  <2>2. NeededLocked' = NeededLocked
    BY <2>1 DEF NeededLocked, BidNeeds, MakerFee
  <2>3. ASSUME NEW u
        PROVE  /\ Dust(u)' = Dust(u) /\ OpenFills(u)' = OpenFills(u)
               /\ \A a : Undelivered(u, a)' = Undelivered(u, a)
    <3>1. Escrow(u)' = Escrow(u)
      BY <2>1, <2>2 DEF Escrow
    <3> QED BY <2>1, <3>1 DEF Dust, OpenFills, Undelivered
  <2>4. AmountsInv'
    BY <2>1 DEF LocksInv, AmountsInv
  <2>5. BudgetInv'
    BY <2>1 DEF LocksInv, BudgetInv
  <2>6. LocksRight'
    BY <2>1, <2>3 DEF LocksInv, LocksRight
  <2>7. AvailableInv'
    BY <2>1 DEF LocksInv, AvailableInv, BalancesType
  <2> QED BY <2>4, <2>5, <2>6, <2>7 DEF LocksInv
<1> QED BY <1>1, <1>2, <1>3, <1>4, <1>5, <1>6, <1>7, <1>8, <1>9, <1>10, <1>11, <1>12, <1>13
        DEF Next

LEMMA LocksInvariance ==
  ASSUME ProductsFit
  PROVE  Spec => [](EngineInv /\ LocksInv)
<1>1. Init => EngineInv /\ TradesInv /\ PricesInv /\ LocksInv
  <2>1. Init => TradesInv
    BY DEF Init, TradesInv, InCall
  <2> QED BY <2>1, InitEngineInv, InitPrices, InitLocks
<1>2. EngineInv /\ TradesInv /\ PricesInv /\ LocksInv /\ [Next]_vars
        => (EngineInv /\ TradesInv /\ PricesInv /\ LocksInv)'
  <2> SUFFICES ASSUME EngineInv, TradesInv, PricesInv, LocksInv, [Next]_vars
               PROVE  (EngineInv /\ TradesInv /\ PricesInv /\ LocksInv)'
    OBVIOUS
  <2>1. "sol" \in Listed
    BY DEF Listed
  <2>2. PricesInv'
    BY <2>1, StepOnBook
  <2>3. EngineInv' /\ TradesInv' /\ LocksInv'
    BY NextEngineInv, NextTradesInv, LocksStep
  <2> QED BY <2>2, <2>3
<1> QED BY <1>1, <1>2, PTL DEF Spec

\* The needs of the orders of u of one side, added up over these orders only.
LEMMA NeedsOfPart ==
  ASSUME NEW open, OpenType(open), NEW u, NEW s, NEW bps \in Nat,
         NEW S, S = {id \in DOMAIN open : open[id].user_id = u /\ open[id].side = s},
         NEW g, \A id \in S : g[id] = NeedOf(open[id], u, s, bps)
  PROVE  SumFunctionOnSet(g, S) = NeedsOf(open, u, s, bps)
<1>1. PICK f : f = [id \in DOMAIN open |-> NeedOf(open[id], u, s, bps)]
  OBVIOUS
<1>2. IsFiniteSet(DOMAIN open) /\ S \in SUBSET DOMAIN open /\ IsFiniteSet(S)
  BY FS_Subset DEF OpenType
<1>3. \A id \in DOMAIN open : f[id] \in Nat /\ f[id] \in Int
  BY <1>1, NeedOfType DEF OpenType
<1>4. \A id \in DOMAIN open \ S : f[id] = 0
  BY <1>1 DEF NeedOf
<1>5. SumFunctionOnSet(f, DOMAIN open) = SumFunctionOnSet(f, S)
  BY <1>2, <1>3, <1>4, SumOfPart
<1>6. \A id \in S : f[id] \in Int /\ g[id] = f[id]
  BY <1>1, <1>2, <1>3
<1>7. SumFunctionOnSet(g, S) = SumFunctionOnSet(f, S)
  BY <1>2, <1>6, SumSame
<1> QED BY <1>1, <1>5, <1>7 DEF NeedsOf

\* The sums of LocksMatchOrders.
LEMMA NeedsAre ==
  ASSUME EngineInv, AmountsInv, NEW u \in Users
  PROVE  /\ AllBidNeeds(u) = UsdNeeds(OpenIn, u, fee_schedule.maker_fee_bps)
         /\ \A a \in Listed : AskNeeds(u, a) = NeedsOf(OpenIn[a], u, "ask", 0)
<1>1. PICK bps \in Nat : bps = fee_schedule.maker_fee_bps /\ fee_schedule \in FeeSchedules
  BY FeeRates
<1>2. ASSUME NEW a \in Listed
      PROVE  /\ BidNeedsIn(u, a) = NeedsOf(OpenIn[a], u, "bid", bps)
             /\ AskNeeds(u, a) = NeedsOf(OpenIn[a], u, "ask", 0)
  <2>1. PICK open : open = books[a].orders
    OBVIOUS
  <2>2. OpenIn[a] = open /\ OpenType(open)
    BY <2>1, OpenInIs, OpenInType DEF OpensType
  <2>3. ASSUME NEW s
        PROVE  OpenOrders(u, a, s) = {id \in DOMAIN open : open[id].user_id = u /\ open[id].side = s}
    BY <2>1 DEF OpenOrders, Owns
  <2>4. PICK B : B = OpenOrders(u, a, "bid")
    OBVIOUS
  <2>5. PICK A : A = OpenOrders(u, a, "ask")
    OBVIOUS
  <2>6. PICK g : g = [id \in B |-> BidNeeds(open[id].price, open[id].remaining_qty)]
    OBVIOUS
  <2>7. PICK h : h = [id \in A |-> open[id].remaining_qty]
    OBVIOUS
  <2>8. ASSUME NEW id \in B PROVE g[id] = NeedOf(open[id], u, "bid", bps)
    <3>1. id \in DOMAIN open /\ open[id].user_id = u /\ open[id].side = "bid"
      BY <2>3, <2>4
    <3>2. open[id].price \in Nat /\ open[id].remaining_qty \in Nat
      BY <2>2, <3>1 DEF OpenType, Orders
    <3>3. FitsWord(open[id].price * open[id].remaining_qty, fee_schedule)
      BY <2>1, <3>1 DEF AmountsInv
    <3>4. BidNeeds(open[id].price, open[id].remaining_qty) = open[id].price * open[id].remaining_qty
            + Share(open[id].price * open[id].remaining_qty, fee_schedule.maker_fee_bps)
      BY <1>1, <3>2, <3>3, BidNeedsIs
    <3> QED BY <1>1, <2>6, <3>1, <3>4 DEF NeedOf
  <2>9. ASSUME NEW id \in A PROVE h[id] = NeedOf(open[id], u, "ask", 0)
    <3>1. open[id].user_id = u /\ open[id].side = "ask"
      BY <2>3, <2>5
    <3> QED BY <2>7, <3>1 DEF NeedOf
  <2>10. SumFunctionOnSet(g, B) = NeedsOf(open, u, "bid", bps)
    BY <2>2, <2>3, <2>4, <2>8, NeedsOfPart
  <2>11. SumFunctionOnSet(h, A) = NeedsOf(open, u, "ask", 0)
    BY <2>2, <2>3, <2>5, <2>9, NeedsOfPart
  <2>12. BidNeedsIn(u, a) = SumFunctionOnSet(g, B) /\ AskNeeds(u, a) = SumFunctionOnSet(h, A)
    <3>1. DOMAIN g = B /\ DOMAIN h = A
      BY <2>6, <2>7
    <3>2. BidNeedsIn(u, a) = SumFunction(g) /\ AskNeeds(u, a) = SumFunction(h)
      BY <2>1, <2>4, <2>5, <2>6, <2>7 DEF BidNeedsIn, AskNeeds
    <3> QED BY <3>1, <3>2 DEF SumFunction
  <2> QED BY <2>2, <2>10, <2>11, <2>12
<1>3. AllBidNeeds(u) = UsdNeeds(OpenIn, u, bps)
  <2>1. PICK f : f = [a \in Listed |-> BidNeedsIn(u, a)]
    OBVIOUS
  <2>2. f = [a \in Listed |-> NeedsOf(OpenIn[a], u, "bid", bps)] /\ DOMAIN f = Listed
    BY <1>2, <2>1
  <2>3. AllBidNeeds(u) = SumFunctionOnSet(f, Listed)
    BY <2>1, <2>2 DEF AllBidNeeds, SumFunction
  <2> QED BY <2>2, <2>3 DEF UsdNeeds
<1> QED BY <1>1, <1>2, <1>3

LEMMA LocksOfIdle == EngineInv /\ LocksInv => LocksMatchOrders
<1> SUFFICES ASSUME EngineInv, LocksInv, phase = "idle", NEW u \in Users
             PROVE  /\ 0 <= usd[u].locked - AllBidNeeds(u)
                    /\ usd[u].locked - AllBidNeeds(u)
                         <= (IF fee_schedule.maker_fee_bps = 0 THEN 0 ELSE maker_fills[u])
                    /\ \A a \in Listed : stock[a][u].locked = AskNeeds(u, a)
  BY DEF LocksMatchOrders
<1>1. ~InCall
  BY DEF InCall
<1>2. IdleLocks
  BY <1>1, LocksWhenIdle
<1>3. PICK needs \in Nat : needs = UsdNeeds(OpenIn, u, fee_schedule.maker_fee_bps)
  BY FeeRates, OpenInType, UsdNeedsType
<1>4. /\ needs <= usd[u].locked
      /\ usd[u].locked - needs <= (IF fee_schedule.maker_fee_bps = 0 THEN 0 ELSE maker_fills[u])
      /\ \A a \in Listed : stock[a][u].locked = NeedsOf(OpenIn[a], u, "ask", 0)
  BY <1>2, <1>3 DEF IdleLocks
<1>5. AllBidNeeds(u) = needs /\ \A a \in Listed : AskNeeds(u, a) = NeedsOf(OpenIn[a], u, "ask", 0)
  BY <1>3, NeedsAre DEF LocksInv
<1>6. usd[u].locked \in Int
  BY BalanceNumbers DEF LocksInv, AvailableInv
<1>7. 0 <= usd[u].locked - needs
  BY <1>4, <1>6
<1> QED BY <1>4, <1>5, <1>7

\* Between handlers what is locked is what the open orders need (order.rs: the
\* lock, apply_fill, the refund; cancel.rs): the units of an asset exactly, the
\* USD with at most one unit more per fill of a resting bid, where a fee was
\* rounded down.  For any users, prices, quantities and fees of which no product
\* wraps: a product that wraps locks too little for the order that rests.
THEOREM LocksAlwaysMatch == ProductsFit => (Spec => []LocksMatchOrders)
<1> SUFFICES ASSUME ProductsFit PROVE Spec => []LocksMatchOrders
  OBVIOUS
<1> QED BY LocksInvariance, LocksOfIdle, PTL

LEMMA LocksTyped == EngineInv /\ LocksInv => TypeOK
<1> SUFFICES ASSUME EngineInv, LocksInv PROVE TypeOK
  OBVIOUS
<1>1. BalancesType /\ AvailableInv
  BY DEF LocksInv, AvailableInv
<1>2. /\ \A u \in Accounts : usd[u].available \in Int /\ usd[u].locked \in Int
      /\ \A a \in Listed, u \in Accounts :
           stock[a][u].available \in Int /\ stock[a][u].locked \in Int
  BY <1>1, BalanceNumbers
<1>3. ASSUME NEW u \in Users
      PROVE  usd[u].locked >= 0 /\ \A a \in Listed : stock[a][u].locked >= 0
  <2>1. PICK needs \in Nat : needs = UsdNeeds(OpenIn, u, fee_schedule.maker_fee_bps)
    BY FeeRates, OpenInType, UsdNeedsType
  <2>2. Escrow(u) \in Nat
    BY EscrowNat DEF LocksInv
  <2>3. usd[u].locked \in Int
    BY <1>2 DEF Accounts
  <2>4. usd[u].locked - needs - Escrow(u) >= 0
    BY <2>1 DEF LocksInv, LocksRight, Dust
  <2>5. usd[u].locked >= 0
    BY <2>2, <2>3, <2>4
  <2>6. ASSUME NEW a \in Listed PROVE stock[a][u].locked >= 0
    <3>1. stock[a][u].locked = NeedsOf(OpenIn[a], u, "ask", 0) + Undelivered(u, a)
      BY DEF LocksInv, LocksRight
    <3>2. NeedsOf(OpenIn[a], u, "ask", 0) \in Nat
      BY OpenInType, NeedsType DEF OpensType
    <3>3. Undelivered(u, a) \in Nat
      <4>1. CASE InCall /\ a = call.asset
        <5>1. /\ results \in Seq(Trades) /\ call.settled \in 0..Len(results)
              /\ fee_schedule \in FeeSchedules /\ taker.remaining_qty \in Nat
          BY <4>1 DEF EngineInv, CallInv, Takers
        <5>2. After(PaidBy(results, u, fee_schedule), call.settled) \in Nat
              /\ After(SoldBy(results, u), call.settled) \in Nat
          BY <5>1, TradeSums
        <5> QED BY <4>1, <5>1, <5>2 DEF Undelivered
      <4>2. CASE ~InCall \/ a # call.asset
        BY <4>2 DEF Undelivered
      <4> QED BY <4>1, <4>2
    <3> QED BY <3>1, <3>2, <3>3
  <2> QED BY <2>5, <2>6
<1>4. \A u \in Accounts :
        /\ usd[u].available >= 0 /\ usd[u].locked >= 0
        /\ \A a \in Listed : stock[a][u].available >= 0 /\ stock[a][u].locked >= 0
  BY <1>1, <1>3 DEF AvailableInv, Accounts
<1>5. \A x \in Balance : x.available >= 0 /\ x.locked >= 0 => x \in [available : Nat, locked : Nat]
  BY DEF Balance
<1>6. usd \in [Accounts -> [available : Nat, locked : Nat]]
  BY <1>1, <1>4, <1>5 DEF BalancesType
<1>7. stock \in [Listed -> [Accounts -> [available : Nat, locked : Nat]]]
  BY <1>1, <1>4, <1>5 DEF BalancesType
<1>8. /\ DOMAIN books = Listed /\ \A a \in Listed : BookType(books[a], Users)
      /\ next_order_id \in Nat
  BY DEF EngineInv, BooksInv, WellFormed
<1>9. fee_schedule \in FeeSchedules /\ phase \in Phases /\ call.status \in Statuses
  BY DEF EngineInv, CallInv, Calls
<1> QED BY <1>6, <1>7, <1>8, <1>9 DEF TypeOK, Phases

\* Every variable of the engine has its type, and no balance is ever negative:
\* none of the unsigned subtractions of order.rs and cancel.rs (the lock, the
\* payment and the delivery of apply_fill, the refund, the cancellation) takes
\* more than there is, between any two trades of a settlement included.  The lock
\* of a bid covers its trades, each with its own rounded fee, and what rests.
THEOREM EngineTypeCorrect == ProductsFit => (Spec => []TypeOK)
<1> SUFFICES ASSUME ProductsFit PROVE Spec => []TypeOK
  OBVIOUS
<1> QED BY LocksInvariance, LocksTyped, PTL
=============================================================================
