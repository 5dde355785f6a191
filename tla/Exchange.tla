------------------------------ MODULE Exchange ------------------------------
(***************************************************************************)
(* The engine with the two readers of its execution events: the ledger     *)
(* worker's tables (Ledger) and the private updates of the WebSocket       *)
(* listener (WsFeed).  A step of Engine that publishes an event is joined  *)
(* with what each reader makes of that event.                              *)
(***************************************************************************)
EXTENDS Ledger, WsFeed

readers == <<tables, views>>

ExchangeInit == Init /\ LedgerInit /\ views = NoViews

\* The steps that publish nothing the readers take.
Silent ==
  /\ \/ \E user \in Users, r \in Requests : OrderRefused(user, r) \/ HandleOrder(user, r)
     \/ MatchStep \/ Complete \/ Return
     \/ \E user \in Users, id \in 1..MaxOrderId : CancelRefused(user, id)
  /\ UNCHANGED readers

Trade ==
  LET trade == results[call.settled + 1]
  IN  SettleFill /\ StoreTrade(call.asset, trade) /\ TellTrade(call.asset, trade)

Finish ==
  /\ Reconcile
  /\ IF Rested THEN StoreOrder(call.asset, taker) /\ TellCreated(taker)
     ELSE UNCHANGED readers

CancelOrder(user, id) ==
  LET remaining == books[call'.asset].orders[id].remaining_qty
  IN  HandleCancel(user, id) /\ StoreCancel(id, remaining) /\ TellCancelled(user, id, remaining)

Onramp(user, amount) ==
  HandleOnramp(user, amount) /\ StoreFunding(user, "usd", amount) /\ UNCHANGED views

Deposit(user, asset, amount) ==
  HandleDeposit(user, asset, amount) /\ StoreFunding(user, asset, amount) /\ UNCHANGED views

\* Nothing is told of a reset; the views are those of users who sign in anew.
ResetAll == HandleReset /\ DeleteTables /\ views' = NoViews

ExchangeNext ==
  \/ Silent
  \/ Trade
  \/ Finish
  \/ \E user \in Users, id \in 1..MaxOrderId : CancelOrder(user, id)
  \/ \E user \in Users, amount \in OnrampAmounts : Onramp(user, amount)
  \/ \E user \in Users, asset \in Symbols \cap Listed, amount \in DepositAmounts :
       Deposit(user, asset, amount)
  \/ ResetAll

ExchangeSpec == ExchangeInit /\ [][ExchangeNext]_<<vars, readers>>
=============================================================================
