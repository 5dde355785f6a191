---------------------------- MODULE OrderStatus -----------------------------
(***************************************************************************)
(* GET /order/{id} (get_order of routes/orders.rs): it asks the tables     *)
(* that the ledger worker fills, some time behind the engine, and when     *)
(* they have no row yet, the engine itself (handle_get_order_status).  The *)
(* query is three reads, at three moments of an order that is traded and   *)
(* cancelled meanwhile.                                                    *)
(*                                                                         *)
(* One order, as every read is by its id; the trades of its life are as    *)
(* taker, when it is placed, and as maker, while it rests.                 *)
(***************************************************************************)
EXTENDS Integers, Sequences, SequencesExt

CONSTANTS Users, Markets,
          NoRow,  \* no order, no row, no answer
          Qty     \* the quantity of the order

ASSUME QtyAssumption == Qty \in Nat \ {0} /\ "SOL_USD" \in Markets
ASSUME NoRowAssumption == NoRow \notin [user_id : Users, market : Markets]

VARIABLES order,  \* who placed it where: [user_id, market], or NoRow
          left,   \* what the book has of it; 0 when it is not in the book
          events, \* the execution events that are not stored yet
          row,    \* its row in orders, or NoRow
          trades, \* its rows in trades: [maker, taker], the quantities
          query   \* user -> the query it has under way

statusVars == <<order, left, events, row, trades, query>>

NoQuery == [pc |-> "idle", open |-> FALSE, row |-> NoRow, trades |-> 0]

StatusInit ==
  /\ order = NoRow
  /\ left = 0
  /\ events = <<>>
  /\ row = NoRow
  /\ trades = [maker |-> 0, taker |-> 0]
  /\ query = [u \in Users |-> NoQuery]

-----------------------------------------------------------------------------
\* The engine: each operation with its execution events.

Event(kind, qty, remaining) == [kind |-> kind, qty |-> qty, remaining |-> remaining]

\* handle_order: filled of it trades at once, the rest goes to the book.
Place(user, market, filled) ==
  /\ order = NoRow
  /\ order' = [user_id |-> user, market |-> market]
  /\ left' = Qty - filled
  /\ events' = events \o (IF filled > 0 THEN <<Event("as_taker", filled, 0)>> ELSE <<>>)
                \o <<Event("created", 0, Qty - filled)>>
  /\ UNCHANGED <<row, trades, query>>

\* Another order trades with it.
Fill(qty) ==
  /\ left >= qty
  /\ left' = left - qty
  /\ events' = Append(events, Event("as_maker", qty, left - qty))
  /\ UNCHANGED <<order, row, trades, query>>

\* handle_cancel.
Cancel ==
  /\ left > 0
  /\ left' = 0
  /\ events' = Append(events, Event("cancelled", 0, left))
  /\ UNCHANGED <<order, row, trades, query>>

-----------------------------------------------------------------------------
\* The ledger worker.

Tables == [row |-> row, trades |-> trades]

\* What the statements of an event make of the tables (see Ledger).
Stored(e, t) ==
  CASE e.kind = "created"   -> [t EXCEPT !.row = [original_qty |-> Qty, remaining_qty |-> e.remaining]]
    [] e.kind = "as_taker"  -> [t EXCEPT !.trades.taker = @ + e.qty]
    [] e.kind = "as_maker"  -> [t EXCEPT !.trades.maker = @ + e.qty, !.row.remaining_qty = e.remaining]
    [] e.kind = "cancelled" -> [t EXCEPT !.row.remaining_qty = e.remaining]

\* What the events of a batch make of the tables, one after the other.
StoredAll(batch, t) == FoldLeft(LAMBDA acc, e : Stored(e, acc), t, batch)

\* A batch of n events is committed.
Commit(n) ==
  /\ n <= Len(events)
  /\ LET t == StoredAll(SubSeq(events, 1, n), Tables)
     IN  row' = t.row /\ trades' = t.trades
  /\ events' = SubSeq(events, n + 1, Len(events))
  /\ UNCHANGED <<order, left, query>>

-----------------------------------------------------------------------------
\* get_order.

\* SELECT from orders: no row, another's, or its own.
SelectRow(u) ==
  /\ query[u].pc \in {"idle", "found", "not_found"}
  /\ query' = [query EXCEPT ![u] =
       [pc     |-> IF row = NoRow THEN "engine"
                   ELSE IF order.user_id # u THEN "not_found" ELSE "trades",
        open   |-> left > 0, row |-> row, trades |-> 0]]
  /\ UNCHANGED <<order, left, events, row, trades>>

\* Mutant of TradesOf: WHERE maker_order_id = $1.
TradesOfMaker == trades.maker

\* SELECT from trades WHERE maker_order_id = $1 OR taker_order_id = $1.
TradesOf == trades.maker + trades.taker

SelectTrades(u) ==
  /\ query[u].pc = "trades"
  /\ query' = [query EXCEPT ![u].pc = "found", ![u].trades = TradesOf]
  /\ UNCHANGED <<order, left, events, row, trades>>

\* Mutant of InBook: only the first book is looked at.
InBookSol(u) == left > 0 /\ order.user_id = u /\ order.market = "SOL_USD"

\* handle_get_order_status: one of the three books has the order, and it is u's.
InBook(u) == left > 0 /\ order.user_id = u

\* The row that get_order makes up of the engine's answer.
Fallback == [market |-> "SOL_USD", original_qty |-> left, remaining_qty |-> left]

AskEngine(u) ==
  /\ query[u].pc = "engine"
  /\ query' = [query EXCEPT ![u].pc = IF InBook(u) THEN "found" ELSE "not_found",
                            ![u].row = IF InBook(u) THEN Fallback ELSE NoRow]
  /\ UNCHANGED <<order, left, events, row, trades>>

StatusNext ==
  \/ \E u \in Users, m \in Markets, filled \in 0..(Qty - 1) : Place(u, m, filled)
  \/ \E qty \in 1..Qty : Fill(qty)
  \/ Cancel
  \/ \E n \in 1..(Qty + 2) : Commit(n)
  \/ \E u \in Users : SelectRow(u) \/ SelectTrades(u) \/ AskEngine(u)

-----------------------------------------------------------------------------
\* Properties.

\* An order that is open from the first read of its owner's query to its last
\* is found, however far the tables are behind and in whichever market it is.
FoundWhileOpen ==
  \A u \in Users :
    query[u].pc = "not_found" /\ query[u].open /\ order.user_id = u => left = 0

\* The trades in an answer cover what its row says was filled, in whichever
\* role, though row and trades are read apart and the worker commits between
\* the two.
TradesCoverRow ==
  \A u \in Users :
    query[u].pc = "found" /\ "market" \notin DOMAIN query[u].row =>
      query[u].trades >= query[u].row.original_qty - query[u].row.remaining_qty
=============================================================================
