------------------------------- MODULE Ledger -------------------------------
(***************************************************************************)
(* The tables that the ledger worker (ledger/worker.rs) makes of the       *)
(* engine's execution events: orders, trades and ledger_entries, as the    *)
(* statements the worker runs for each event.  Exchange joins them with    *)
(* the steps of Engine that publish the event, so the tables are those     *)
(* after every prefix of the events; that the worker stores a prefix is    *)
(* the matter of LedgerWorker.                                             *)
(*                                                                         *)
(* Of ledger_entries only sums are told apart: what the rows of an account *)
(* in a currency add up to.  Of trades, the quantity traded by an order.   *)
(***************************************************************************)
EXTENDS Engine

CONSTANT Clearing  \* user_id 0 with balance_type 'clearing'

ASSUME ClearingAssumption == Clearing \notin Accounts

Books == Accounts \cup {Clearing}
Currencies == {"usd"} \cup Listed

VARIABLES orders,   \* table orders: id -> row
          entries,  \* SUM(amount) of ledger_entries: account -> currency -> sum
          traded    \* SUM(qty) over trades by order: id -> sum

tables == <<orders, entries, traded>>

NoEntries == [b \in Books |-> [c \in Currencies |-> 0]]

LedgerInit == orders = EmptyMap /\ entries = NoEntries /\ traded = EmptyMap

-----------------------------------------------------------------------------
\* The statements of run_worker, by event.

Credit(table, account, currency, amount) ==
  [table EXCEPT ![account][currency] = @ + amount]

\* The traded quantity of an order after a trade.
Traded(sums, id, qty) ==
  With(sums, id, qty + IF id \in DOMAIN sums THEN sums[id] ELSE 0)

MakerStatus(remaining) == IF remaining = 0 THEN "filled" ELSE "partially_filled"

\* UPDATE orders SET remaining_qty, status WHERE id: no row, no change.
UpdateRow(id, remaining, status) ==
  IF id \in DOMAIN orders
  THEN [orders EXCEPT ![id].remaining_qty = remaining, ![id].status = status]
  ELSE orders

\* Mutant of TradeEntries: the seller's fee is not collected.
TradeEntriesOneFee(asset, trade) ==
  LET quote  == QuoteAmount(trade)
      buyer  == Credit(Credit(entries, trade.buyer, "usd", -(quote + BuyerFee(trade))),
                       trade.buyer, asset, trade.qty)
      seller == Credit(Credit(buyer, trade.seller, "usd", SatSub(quote, SellerFee(trade))),
                       trade.seller, asset, -trade.qty)
  IN  Credit(seller, Treasury, "usd", BuyerFee(trade))

\* Mutant of TradeEntries: the two fees are taken for each other.
TradeEntriesSwapped(asset, trade) ==
  LET quote  == QuoteAmount(trade)
      buyer  == Credit(Credit(entries, trade.buyer, "usd", -(quote + SellerFee(trade))),
                       trade.buyer, asset, trade.qty)
      seller == Credit(Credit(buyer, trade.seller, "usd", SatSub(quote, BuyerFee(trade))),
                       trade.seller, asset, -trade.qty)
  IN  Credit(seller, Treasury, "usd", BuyerFee(trade) + SellerFee(trade))

\* The five ledger entries of a trade: buyer, seller and treasury.
TradeEntries(asset, trade) ==
  LET quote  == QuoteAmount(trade)
      buyer  == Credit(Credit(entries, trade.buyer, "usd", -(quote + BuyerFee(trade))),
                       trade.buyer, asset, trade.qty)
      seller == Credit(Credit(buyer, trade.seller, "usd", SatSub(quote, SellerFee(trade))),
                       trade.seller, asset, -trade.qty)
  IN  Credit(seller, Treasury, "usd", BuyerFee(trade) + SellerFee(trade))

\* TradeExecuted: the trade, the maker's row and the entries.  The taker has
\* no row to update: its own, if it rests, comes with OrderCreated.
StoreTrade(asset, trade) ==
  LET remaining == MakerRemaining(books[asset], trade)
  IN  /\ traded' = Traded(Traded(traded, trade.maker_order_id, trade.qty),
                          trade.taker_order_id, trade.qty)
      /\ orders' = UpdateRow(trade.maker_order_id, remaining, MakerStatus(remaining))
      /\ entries' = TradeEntries(asset, trade)

\* The row of OrderCreated.
NewRow(asset, o) ==
  [user_id |-> o.user_id, market |-> asset, side |-> o.side, price |-> o.limit,
   original_qty |-> o.qty, remaining_qty |-> o.remaining_qty, status |-> "open"]

\* OrderCreated: INSERT ... ON CONFLICT (id) DO UPDATE SET remaining_qty, status.
StoreOrder(asset, o) ==
  /\ orders' = IF o.order_id \in DOMAIN orders
               THEN UpdateRow(o.order_id, o.remaining_qty, "open")
               ELSE With(orders, o.order_id, NewRow(asset, o))
  /\ UNCHANGED <<entries, traded>>

\* OrderCancelled.
StoreCancel(id, remaining) ==
  /\ orders' = UpdateRow(id, remaining, "cancelled")
  /\ UNCHANGED <<entries, traded>>

\* FundingExecuted: the user against the clearing account.
StoreFunding(user, currency, amount) ==
  /\ entries' = Credit(Credit(entries, user, currency, amount), Clearing, currency, -amount)
  /\ UNCHANGED <<orders, traded>>

\* The gateway's reset deletes the three tables.
DeleteTables == orders' = EmptyMap /\ entries' = NoEntries /\ traded' = EmptyMap
-----------------------------------------------------------------------------
\* Properties.

\* The double-entry invariant: "SELECT COALESCE(SUM(amount), 0) FROM
\* ledger_entries WHERE currency = 'USD'; -- Must equal 0" (ARCHITECTURE.md
\* 259), for every currency and after every event.  With LedgerReconciles it
\* says that no fill, fee, refund or self-trade of the engine makes or destroys
\* money: all it holds is what was brought in.  Holds for fees up to
\* 100%; with a higher one the seller's credit saturates at zero
\* (worker.rs 182, order.rs 428) while the treasury is credited the fee.
ZeroSum ==
  \A c \in Currencies : SumFunction([b \in Books |-> entries[b][c]]) = 0

\* The ledger, kept from events alone, and the engine's balances agree at all
\* times: what an account's entries in a currency add up to is what the engine
\* holds for it, available and locked together, and the clearing account is
\* short of exactly what was brought in.
LedgerReconciles ==
  /\ \A u \in Accounts :
       /\ entries[u]["usd"] = usd[u].available + usd[u].locked
       /\ \A a \in Listed :
            entries[u][a] = stock[a][u].available + stock[a][u].locked
  /\ entries[Clearing]["usd"] = -minted.usd
  /\ \A a \in Listed : entries[Clearing][a] = -minted.stock[a]

\* Between handlers the orders table tells the open orders of the books: the
\* rows that are open or partially filled are those orders, with owner, market
\* and what is left, and every other row is closed for good.  And the trades of
\* an order, which GET /order/{id} shows beside its row, add up to what the row
\* says was filled, for an order filled in parts as taker, then as maker, then
\* cancelled.
RowsTrackBooks ==
  phase = "idle" =>
    LET open(a) == {id \in DOMAIN orders : /\ orders[id].status \in {"open", "partially_filled"}
                                           /\ orders[id].market = a}
    IN  /\ \A a \in Listed :
             /\ open(a) = DOMAIN books[a].orders
             /\ \A id \in open(a) :
                  /\ orders[id].user_id = books[a].orders[id].user_id
                  /\ orders[id].remaining_qty = books[a].orders[id].remaining_qty
        /\ \A id \in DOMAIN orders :
             /\ (orders[id].status = "filled") = (orders[id].remaining_qty = 0)
             /\ orders[id].original_qty - orders[id].remaining_qty =
                  IF id \in DOMAIN traded THEN traded[id] ELSE 0
=============================================================================
