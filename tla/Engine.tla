------------------------------- MODULE Engine -------------------------------
(***************************************************************************)
(* The matching engine's state (state.rs, EngineState) and the handlers    *)
(* that change it (handlers/order.rs, account.rs, admin.rs): balances,     *)
(* one book per market, global order ids and the fee schedule, with the    *)
(* execution events and replies the handlers publish.                      *)
(*                                                                         *)
(* Handlers run one at a time.  An order is the steps of handle_order in   *)
(* their order: HandleOrder (checks and lock), one MatchStep per fill and  *)
(* Complete (the call on the book), one SettleFill per trade, Reconcile    *)
(* (refund, events, reply) and Return.  The steps let invariants see the   *)
(* balances after each fill; every other handler is one action.            *)
(*                                                                         *)
(* Balances are total functions: a missing HashMap entry reads as zero     *)
(* (or_default), so handle_signup, which only creates one, is a reply.     *)
(***************************************************************************)
EXTENDS Book

CONSTANTS Users,         \* the traders
          Treasury,      \* user_id 0, which collects the fees
          NoUser,        \* the user of no order
          Symbols,       \* the asset names in requests, listed or not
          Prices,        \* the prices in requests; 0 stands for all <= 0
          Quantities,    \* the quantities in requests; 0 stands for all <= 0
          Slippages,     \* slippage_pct, in whole percent
          FeeSchedules,  \* the fee schedules the engine may be started with
          OnrampAmounts, DepositAmounts,
          DepthLevels,   \* levels per side in DepthUpdated; 25 in the code
          WordSize,      \* 2^64: products of u64 wrap there in a release build
          MaxOrderId,    \* bound on the orders between two resets
          MaxUsd,        \* bound on the USD brought in
          MaxStock       \* bound on the units of each asset brought in

\* The order in which handle_cancel tries the books.
Markets == <<"sol", "btc", "eth">>
Listed  == {"sol", "btc", "eth"}

Accounts == Users \cup {Treasury}

ASSUME UsersAssumption == IsFiniteSet(Users)
ASSUME TreasuryAssumption == Treasury \notin Users
ASSUME AmountsAssumption ==
  /\ Prices \subseteq Nat
  /\ Quantities \subseteq Nat
  /\ OnrampAmounts \subseteq Nat
  /\ DepositAmounts \subseteq Nat
  /\ Slippages \subseteq 0..100
\* FeeSchedule::from_env accepts any u64, also above 100%.
ASSUME FeesAssumption == FeeSchedules \subseteq [maker_fee_bps : Nat, taker_fee_bps : Nat]
ASSUME BoundsAssumption ==
  /\ MaxOrderId \in Nat /\ MaxUsd \in Nat /\ MaxStock \in Nat /\ DepthLevels \in Nat
  /\ WordSize \in Nat \ {0}

VARIABLES usd,            \* usd_balance: account -> [available, locked]
          stock,          \* stock_balance: asset -> account -> [available, locked]
          books,          \* the three order books
          next_order_id,
          fee_schedule,
          phase,          \* where the engine is in a handler
          taker,          \* the order being executed, as in Orderbook
          results,        \* the trades the book returned for it
          call,           \* the other locals of the handler
          depth,          \* the last DepthUpdated of each market
          minted,         \* history: what was brought in since the last reset
          maker_fills     \* history: how often a resting bid of a user was filled

vars == <<usd, stock, books, next_order_id, fee_schedule, phase, taker,
          results, call, depth, minted, maker_fills>>

Zero == [available |-> 0, locked |-> 0]

NoTaker ==
  [order_id |-> 0, user_id |-> NoUser, side |-> "bid",
   limit |-> 0, qty |-> 0, remaining_qty |-> 0, tif |-> "ioc"]

NoCall ==
  [asset |-> "none", lock |-> 0, spent |-> 0, filled |-> 0, settled |-> 0,
   status |-> "none"]

NoLevels == [s \in Sides |-> EmptyMap]

Init ==
  /\ usd = [u \in Accounts |-> Zero]
  /\ stock = [a \in Listed |-> [u \in Accounts |-> Zero]]
  /\ books = [a \in Listed |-> NewBook]
  /\ next_order_id = 1
  /\ fee_schedule \in FeeSchedules
  /\ phase = "idle"
  /\ taker = NoTaker
  /\ results = <<>>
  /\ call = NoCall
  /\ depth = [a \in Listed |-> NoLevels]
  /\ minted = [usd |-> 0, stock |-> [a \in Listed |-> 0]]
  /\ maker_fills = [u \in Users |-> 0]

-----------------------------------------------------------------------------
\* Arithmetic of the handlers.

SatSub(m, n) == IF m > n THEN m - n ELSE 0

\* Arithmetic of u64 products and sums.  (Balances are not wrapped: there an
\* underflow shows as a negative number.)
Wrap(n) == n % WordSize

Fee(amount, bps) == Wrap(amount * bps) \div 10000
MakerFee(amount) == Fee(amount, fee_schedule.maker_fee_bps)
TakerFee(amount) == Fee(amount, fee_schedule.taker_fee_bps)

\* What a resting bid needs in locked: its cost and the maker fee on it.
BidNeeds(price, qty) ==
  LET cost == Wrap(price * qty) IN Wrap(cost + MakerFee(cost))

\* What a limit order locks.  A bid may turn out taker, maker or both, so it
\* reserves the higher of the two fees.
LimitLock(side, price, qty) ==
  LET rate == IF fee_schedule.taker_fee_bps > fee_schedule.maker_fee_bps
              THEN fee_schedule.taker_fee_bps ELSE fee_schedule.maker_fee_bps
      cost == Wrap(price * qty)
  IN  IF side = "ask" THEN qty ELSE Wrap(cost + Fee(cost, rate))

\* The best opposite price moved by the slippage, rounded away from it (in
\* f64 in the code; at the prices of the runs both round alike).
SlippageCap(side, best, slippage) ==
  LET floor == (best * (100 - slippage)) \div 100
  IN  IF side = "bid" THEN (best * (100 + slippage) + 99) \div 100
      ELSE IF floor > 1 THEN floor ELSE 1

\* The price cap of a market order: its own or, without one, the slippage
\* cap, if there is an opposite price.
WorstPrice(b, side, price, slippage) ==
  IF price > 0 THEN price
  ELSE IF DOMAIN b.levels[Opposite(side)] = {} THEN NoCap
  ELSE SlippageCap(side, BestPrice(b, Opposite(side)), slippage)

\* Mutant of TopLevels: one level too many.
TopLevelsAndOne(b, side) ==
  LET d == Depth(b, side)
      better(p) == {q \in DOMAIN d : Better(side, q, p)}
  IN  [p \in {q \in DOMAIN d : Cardinality(better(q)) <= DepthLevels} |-> d[p]]

\* The levels of a side that DepthUpdated carries: the best DepthLevels.
TopLevels(b, side) ==
  LET d == Depth(b, side)
      better(p) == {q \in DOMAIN d : Better(side, q, p)}
  IN  [p \in {q \in DOMAIN d : Cardinality(better(q)) < DepthLevels} |-> d[p]]

DepthOf(b) == [s \in Sides |-> TopLevels(b, s)]

\* amount moves from available to locked, and back.
Lock(balance, amount) ==
  [available |-> balance.available - amount, locked |-> balance.locked + amount]
Unlock(balance, amount) ==
  [available |-> balance.available + amount, locked |-> balance.locked - amount]

\* usd and stock after a user's lock (or unlock, by op) for an order of this
\* side: USD for a bid, the asset for an ask.
Move(op(_, _), user, asset, side, amount) ==
  /\ usd' = IF side = "bid" THEN [usd EXCEPT ![user] = op(@, amount)] ELSE usd
  /\ stock' = IF side = "ask" THEN [stock EXCEPT ![asset][user] = op(@, amount)]
              ELSE stock

-----------------------------------------------------------------------------
\* handle_order: checks, lock, and the call on the book.

\* An order: its type, asset, side, price, quantity, time in force, slippage.
Requests ==
  [type : {"limit", "market"}, asset : Symbols, side : Sides \cup {"other"}, price : Prices,
   qty : Quantities, tif : TimesInForce, slippage : Slippages]

\* The limit the book is given, the liquidity a market order finds within
\* it, and the funds the order must lock first.
LimitOf(r) ==
  IF r.type = "limit" THEN r.price
  ELSE WorstPrice(books[r.asset], r.side, r.price, r.slippage)

QuoteOf(r) == Sweep(books[r.asset], Opposite(r.side), LimitOf(r), r.qty)

LockOf(r) ==
  LET required == Wrap(QuoteOf(r).cost)
  IN  IF r.type = "limit" \/ r.side = "ask" THEN LimitLock(r.side, r.price, r.qty)
      ELSE Wrap(required + TakerFee(required))

AvailableTo(user, r) ==
  IF r.side = "bid" THEN usd[user].available ELSE stock[r.asset][user].available

Invalid(r) ==
  \/ r.asset \notin Listed
  \/ r.side \notin Sides
  \/ r.qty = 0
  \/ r.type = "limit" /\ r.price = 0

\* The early returns, in the order of the code.
Verdict(user, r) ==
  IF Invalid(r) THEN "error"
  ELSE IF r.type = "market" /\ r.tif = "fok" /\ QuoteOf(r).filled < r.qty THEN "unfilled"
  ELSE IF r.type = "market" /\ r.side = "bid" /\ QuoteOf(r).filled = 0 THEN "error"
  ELSE IF AvailableTo(user, r) < LockOf(r) THEN "error"
  ELSE "accepted"

OrderRefused(user, r) ==
  /\ phase = "idle"
  /\ Verdict(user, r) # "accepted"
  /\ phase' = "replied"
  /\ call' = [NoCall EXCEPT !.status = Verdict(user, r)]
  /\ UNCHANGED <<usd, stock, books, next_order_id, fee_schedule, taker, results,
                 depth, minted, maker_fills>>

\* A fill-or-kill limit order that the book cannot fill goes straight to
\* its settlement, with no trades; a market order is executed as ioc.
HandleOrder(user, r) ==
  LET t == [order_id |-> next_order_id, user_id |-> user, side |-> r.side,
            limit |-> LimitOf(r), qty |-> r.qty, remaining_qty |-> r.qty,
            tif |-> IF r.type = "limit" THEN r.tif ELSE "ioc"]
      killed == t.tif = "fok" /\ ~CanFillQuantity(books[r.asset], r.side, r.price, r.qty)
  IN  /\ phase = "idle"
      /\ next_order_id <= MaxOrderId
      /\ Verdict(user, r) = "accepted"
      /\ Move(Lock, user, r.asset, r.side, LockOf(r))
      /\ next_order_id' = next_order_id + 1
      /\ books' = [books EXCEPT ![r.asset] = Reserve(@, next_order_id)]
      /\ taker' = t
      /\ call' = [NoCall EXCEPT !.asset = r.asset, !.lock = LockOf(r)]
      /\ phase' = IF killed THEN "settling" ELSE "matching"
      /\ UNCHANGED <<fee_schedule, results, depth, minted, maker_fills>>

MatchStep ==
  LET b == books[call.asset]
  IN  /\ phase = "matching"
      /\ Matches(b, taker)
      /\ books' = [books EXCEPT ![call.asset] = AfterFill(@, taker)]
      /\ taker' = [taker EXCEPT !.remaining_qty = @ - FillQty(b, taker)]
      /\ results' = Append(results, TradeOf(b, taker))
      /\ UNCHANGED <<usd, stock, next_order_id, fee_schedule, phase, call,
                     depth, minted, maker_fills>>

\* Mutant of Complete: an ioc order rests too.
CompleteRestsIoc ==
  /\ phase = "matching"
  /\ ~Matches(books[call.asset], taker)
  /\ books' = IF taker.remaining_qty > 0 /\ taker.tif # "fok" /\ taker.limit # NoCap
              THEN [books EXCEPT ![call.asset] = Rest(@, taker)] ELSE books
  /\ phase' = "settling"
  /\ UNCHANGED <<usd, stock, next_order_id, fee_schedule, taker, results, call,
                 depth, minted, maker_fills>>

\* Mutant of Complete: the loop does not stop for an ioc order that nothing
\* crosses.
CompleteSpins ==
  /\ phase = "matching"
  /\ ~Matches(books[call.asset], taker)
  /\ books' = IF taker.remaining_qty > 0 /\ taker.tif = "gtc"
              THEN [books EXCEPT ![call.asset] = Rest(@, taker)] ELSE books
  /\ phase' = IF taker.remaining_qty > 0 /\ taker.tif = "ioc" THEN phase ELSE "settling"
  /\ UNCHANGED <<usd, stock, next_order_id, fee_schedule, taker, results, call,
                 depth, minted, maker_fills>>

Complete ==
  /\ phase = "matching"
  /\ ~Matches(books[call.asset], taker)
  /\ books' = IF taker.remaining_qty > 0 /\ taker.tif = "gtc"
              THEN [books EXCEPT ![call.asset] = Rest(@, taker)] ELSE books
  /\ phase' = "settling"
  /\ UNCHANGED <<usd, stock, next_order_id, fee_schedule, taker, results, call,
                 depth, minted, maker_fills>>
-----------------------------------------------------------------------------
\* handle_order: settlement, refund, events and reply.

\* What the seller gets of a trade: its value less the fee.
SellerCredit(value, fee) == SatSub(value, fee)

\* The value of a trade and the fees of its two sides, as apply_fill computes
\* them and TradeExecuted publishes them.
QuoteAmount(trade) == Wrap(trade.price * trade.qty)
BuyerFee(trade) ==
  IF trade.taker_side = "bid" THEN TakerFee(QuoteAmount(trade)) ELSE MakerFee(QuoteAmount(trade))
SellerFee(trade) ==
  IF trade.taker_side = "bid" THEN MakerFee(QuoteAmount(trade)) ELSE TakerFee(QuoteAmount(trade))

\* apply_fill: the buyer pays from locked and the seller delivers from
\* locked; what each receives is available; the fees go to the treasury.
\* Buyer and seller may be the same user.
ApplyFill(asset, trade) ==
  LET value      == QuoteAmount(trade)
      buyer_fee  == BuyerFee(trade)
      seller_fee == SellerFee(trade)
      paid == [usd EXCEPT ![trade.buyer].locked = @ - (value + buyer_fee)]
      sold == [paid EXCEPT ![trade.seller].available =
                              @ + SellerCredit(value, seller_fee)]
  IN  /\ usd' = [sold EXCEPT ![Treasury].available = @ + buyer_fee + seller_fee]
      /\ stock' = [stock EXCEPT ![asset][trade.buyer].available = @ + trade.qty,
                                ![asset][trade.seller].locked = @ - trade.qty]
      /\ call' = [call EXCEPT
           !.spent   = IF taker.side = "bid" THEN @ + value + buyer_fee ELSE @,
           !.filled  = @ + trade.qty,
           !.settled = @ + 1]

\* Mutant of MakerRemaining: what is left is computed from the fill.
MakerRemainingOfFill(b, trade) ==
  IF trade.maker_order_id \in DOMAIN b.orders THEN trade.qty ELSE 0

\* maker_remaining_qty, read from the book as it is after the whole call.
MakerRemaining(b, trade) ==
  IF trade.maker_order_id \in DOMAIN b.orders
  THEN b.orders[trade.maker_order_id].remaining_qty ELSE 0

SettleFill ==
  /\ phase = "settling"
  /\ call.settled < Len(results)
  /\ LET trade == results[call.settled + 1]
     IN  /\ ApplyFill(call.asset, trade)
         /\ maker_fills' = IF trade.taker_side = "ask"
                           THEN [maker_fills EXCEPT ![trade.buyer] = @ + 1]
                           ELSE maker_fills
  /\ UNCHANGED <<books, next_order_id, fee_schedule, phase, taker, results,
                 depth, minted>>

Rested == taker.order_id \in DOMAIN books[call.asset].orders

\* needed_locked: what the resting part of a bid keeps locked.
NeededLocked ==
  IF Rested THEN BidNeeds(taker.limit, taker.remaining_qty) ELSE 0

\* Mutant of Refund: what rests is not kept locked.
RefundForgetsResting ==
  IF taker.side = "bid" THEN SatSub(call.lock, call.spent)
  ELSE IF taker.tif # "gtc" THEN taker.qty - call.filled ELSE 0

\* The excess that goes back to available.
Refund ==
  IF taker.side = "bid" THEN SatSub(SatSub(call.lock, call.spent), NeededLocked)
  ELSE IF taker.tif # "gtc" THEN taker.qty - call.filled ELSE 0

FinalStatus ==
  IF Rested THEN "open"
  ELSE IF call.filled = taker.qty THEN "filled"
  ELSE IF call.filled > 0 THEN "partially_filled" ELSE "unfilled"

\* Refund, OrderCreated, the reply and DepthUpdated.
Reconcile ==
  /\ phase = "settling"
  /\ call.settled = Len(results)
  /\ Move(Unlock, taker.user_id, call.asset, taker.side, Refund)
  /\ call' = [call EXCEPT !.status = FinalStatus]
  /\ depth' = [depth EXCEPT ![call.asset] = DepthOf(books[call.asset])]
  /\ phase' = "replied"
  /\ UNCHANGED <<books, next_order_id, fee_schedule, taker, results, minted, maker_fills>>

Return ==
  /\ phase = "replied"
  /\ phase' = "idle"
  /\ taker' = NoTaker
  /\ results' = <<>>
  /\ call' = NoCall
  /\ UNCHANGED <<usd, stock, books, next_order_id, fee_schedule, depth, minted, maker_fills>>

-----------------------------------------------------------------------------
\* handle_cancel.

Owns(user, a, id) == id \in DOMAIN books[a].orders /\ books[a].orders[id].user_id = user

\* Mutant of CancelRefund: a bid gets back what its price would lock anew.
CancelRefundAsLocked(o) == LimitLock(o.side, o.price, o.remaining_qty)

\* What a cancelled order gets back.
CancelRefund(o) ==
  IF o.side = "bid" THEN BidNeeds(o.price, o.remaining_qty) ELSE o.remaining_qty

\* The first market whose book holds the order for this user.
HandleCancel(user, id) ==
  \E i \in DOMAIN Markets :
    LET a == Markets[i]
        o == books[a].orders[id]
    IN  /\ phase = "idle"
        /\ Owns(user, a, id)
        /\ \A j \in 1..(i - 1) : ~Owns(user, Markets[j], id)
        /\ books' = [books EXCEPT ![a] = Cancel(@, id)]
        /\ Move(Unlock, user, a, o.side, CancelRefund(o))
        /\ depth' = [depth EXCEPT ![a] = DepthOf(books'[a])]
        /\ call' = [NoCall EXCEPT !.asset = a, !.status = "cancelled"]
        /\ phase' = "replied"
        /\ UNCHANGED <<next_order_id, fee_schedule, taker, results, minted, maker_fills>>

CancelRefused(user, id) ==
  /\ phase = "idle"
  /\ \A a \in Listed : ~Owns(user, a, id)
  /\ call' = [NoCall EXCEPT !.status = "error"]
  /\ phase' = "replied"
  /\ UNCHANGED <<usd, stock, books, next_order_id, fee_schedule, taker, results,
                 depth, minted, maker_fills>>

-----------------------------------------------------------------------------
\* Accounts and reset.

HandleOnramp(user, amount) ==
  /\ phase = "idle"
  /\ minted.usd + amount <= MaxUsd
  /\ usd' = [usd EXCEPT ![user].available = @ + amount]
  /\ minted' = [minted EXCEPT !.usd = @ + amount]
  /\ UNCHANGED <<stock, books, next_order_id, fee_schedule, phase, taker, results,
                 call, depth, maker_fills>>

HandleDeposit(user, asset, amount) ==
  /\ phase = "idle"
  /\ minted.stock[asset] + amount <= MaxStock
  /\ stock' = [stock EXCEPT ![asset][user].available = @ + amount]
  /\ minted' = [minted EXCEPT !.stock[asset] = @ + amount]
  /\ UNCHANGED <<usd, books, next_order_id, fee_schedule, phase, taker, results,
                 call, depth, maker_fills>>

\* Mutant of FreshBooks: the books added after SOL are not reset.
FreshSolBook == [books EXCEPT !["sol"] = NewBook]

FreshBooks == [a \in Listed |-> NewBook]

\* No event is published.
HandleReset ==
  /\ phase = "idle"
  /\ usd' = [u \in Accounts |-> Zero]
  /\ stock' = [a \in Listed |-> [u \in Accounts |-> Zero]]
  /\ books' = FreshBooks
  /\ next_order_id' = 1
  /\ minted' = [usd |-> 0, stock |-> [a \in Listed |-> 0]]
  /\ maker_fills' = [u \in Users |-> 0]
  /\ UNCHANGED <<fee_schedule, phase, taker, results, call, depth>>

Next ==
  \/ \E user \in Users, r \in Requests : OrderRefused(user, r) \/ HandleOrder(user, r)
  \/ MatchStep
  \/ Complete
  \/ SettleFill
  \/ Reconcile
  \/ Return
  \/ \E user \in Users, id \in 1..MaxOrderId : HandleCancel(user, id) \/ CancelRefused(user, id)
  \/ \E user \in Users, amount \in OnrampAmounts : HandleOnramp(user, amount)
  \/ \E user \in Users, asset \in Symbols \cap Listed, amount \in DepositAmounts :
       HandleDeposit(user, asset, amount)
  \/ HandleReset

Spec == Init /\ [][Next]_vars

\* The engine runs a handler to its end before it takes the next event.
FairSpec ==
  /\ Spec
  /\ WF_vars(MatchStep) /\ WF_vars(Complete)
  /\ WF_vars(SettleFill) /\ WF_vars(Reconcile) /\ WF_vars(Return)
-----------------------------------------------------------------------------
\* Properties.

Statuses == {"none", "error", "unfilled", "partially_filled", "filled", "open", "cancelled"}

\* Every variable has its type.  Balances are natural numbers: none of the
\* unsigned subtractions of order.rs (lock, apply_fill, refund, cancel) ever
\* takes more than there is, in the middle of a settlement included.
TypeOK ==
  /\ usd \in [Accounts -> [available : Nat, locked : Nat]]
  /\ stock \in [Listed -> [Accounts -> [available : Nat, locked : Nat]]]
  /\ DOMAIN books = Listed
  /\ \A a \in Listed : BookType(books[a], Users)
  /\ next_order_id \in Nat
  /\ fee_schedule \in FeeSchedules
  /\ phase \in {"idle", "matching", "settling", "replied"}
  /\ call.status \in Statuses

\* The open orders of a user on one side of a market, and what they need.
OpenOrders(user, a, side) ==
  {id \in DOMAIN books[a].orders : Owns(user, a, id) /\ books[a].orders[id].side = side}

AskNeeds(user, a) ==
  SumFunction([id \in OpenOrders(user, a, "ask") |-> books[a].orders[id].remaining_qty])

BidNeedsIn(user, a) ==
  SumFunction([id \in OpenOrders(user, a, "bid") |->
                 BidNeeds(books[a].orders[id].price, books[a].orders[id].remaining_qty)])

AllBidNeeds(user) == SumFunction([a \in Listed |-> BidNeedsIn(user, a)])

\* Between handlers what is locked is what the open orders need.  The locked
\* units of an asset are exactly the remaining quantities of the user's open
\* asks.  The locked USD covers every open bid of the user in all markets
\* together, with its maker fee: any of them can be filled or cancelled in any
\* order without locked running dry.  And it is hardly more: rounding leaves at
\* most one unit per fill, and none without a maker fee.
LocksMatchOrders ==
  phase = "idle" =>
    \A u \in Users :
      LET dust == usd[u].locked - AllBidNeeds(u)
      IN  /\ 0 <= dust /\ dust <= IF fee_schedule.maker_fee_bps = 0 THEN 0 ELSE maker_fills[u]
          /\ \A a \in Listed : stock[a][u].locked = AskNeeds(u, a)

\* When the handler of an order or a cancellation that reached a book is done,
\* the last DepthUpdated of its market is right: the best levels, no more than
\* DepthLevels of them, each with the total of its open orders.
DepthPublished ==
  phase = "replied" /\ call.asset # "none" =>
    LET b == books[call.asset]
        at(s, p) == {id \in DOMAIN b.orders : b.orders[id].side = s /\ b.orders[id].price = p}
        prices(s) == {p \in {b.orders[id].price : id \in DOMAIN b.orders} : at(s, p) # {}}
        told(s) == depth[call.asset][s]
    IN  \A s \in Sides :
          /\ DOMAIN told(s) \subseteq prices(s)
          /\ Cardinality(DOMAIN told(s)) <= DepthLevels
          /\ \A p \in prices(s) \ DOMAIN told(s) :
               /\ Cardinality(DOMAIN told(s)) = DepthLevels
               /\ \A q \in DOMAIN told(s) : Better(s, q, p)
          /\ \A p \in DOMAIN told(s) :
               told(s)[p] = SumFunction([id \in at(s, p) |-> b.orders[id].remaining_qty])

\* An id names at most one open order in all markets together, and no id that
\* is still to be given out: a cancellation finds the order it means.
IdsGloballyUnique ==
  \A a \in Listed : \A id \in DOMAIN books[a].orders :
    /\ id < next_order_id
    /\ \A c \in Listed \ {a} : id \notin DOMAIN books[c].orders

\* Every order the engine takes is answered.
OrdersAnswered == phase \in {"matching", "settling"} ~> phase = "replied"

\* The book of a market, seen alone, is an Orderbook on which every call is
\* run to its end before the next one, and whose add_order_with_id and
\* execute_market_order_with_id never fail: the two expect() of the handler
\* ("price/qty already validated above", "qty validated") hold.
Called(a) == call.asset = a /\ taker # NoTaker

PhaseOf(a) ==
  IF ~Called(a) THEN "idle" ELSE IF phase = "matching" THEN "matching" ELSE "returned"

TakerAt(a) == IF Called(a) THEN taker ELSE NoTaker

ResultsOf(a) == IF Called(a) THEN results ELSE <<>>

\* The limits the handler passes to a book.
LimitPrices ==
  Prices \cup {SlippageCap(side, p, s) : side \in Sides, p \in Prices, s \in Slippages}

SolOrderbook ==
  INSTANCE Orderbook WITH
    book <- books["sol"], phase <- PhaseOf("sol"), taker <- TakerAt("sol"),
    results <- ResultsOf("sol"), error <- "none", Prices <- LimitPrices
BtcOrderbook ==
  INSTANCE Orderbook WITH
    book <- books["btc"], phase <- PhaseOf("btc"), taker <- TakerAt("btc"),
    results <- ResultsOf("btc"), error <- "none", Prices <- LimitPrices
EthOrderbook ==
  INSTANCE Orderbook WITH
    book <- books["eth"], phase <- PhaseOf("eth"), taker <- TakerAt("eth"),
    results <- ResultsOf("eth"), error <- "none", Prices <- LimitPrices

\* The above, of each of the three books: their Init, and each step of the
\* engine one of theirs or no step of theirs.
BooksAreOrderbooks ==
  /\ SolOrderbook!Init /\ BtcOrderbook!Init /\ EthOrderbook!Init
  /\ [][/\ UNCHANGED SolOrderbook!vars \/ SolOrderbook!Next
        /\ UNCHANGED BtcOrderbook!vars \/ BtcOrderbook!Next
        /\ UNCHANGED EthOrderbook!vars \/ EthOrderbook!Next]_vars
=============================================================================
