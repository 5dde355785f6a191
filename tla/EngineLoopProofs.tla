-------------------------- MODULE EngineLoopProofs --------------------------
(***************************************************************************)
(* Proofs about EngineLoop, for every interval and every number of entries *)
(* and crashes: first what holds under all faults, then what recovery      *)
(* guarantees.                                                             *)
(***************************************************************************)
EXTENDS EngineLoop, SequenceTheorems, TLAPS

Row == [last_id : Nat, applied : Seq(Nat)]

\* A state in order, with no command after the position id.
OrderedUpTo(state, id) ==
  /\ InOrder(state)
  /\ \A i \in 1..Len(state) : state[i] <= id

\* The inductive invariant: besides types, the state has no command after
\* last_id, the batch only entries after it, and so on for the snapshots; a
\* reset leaves the state empty until last_id is back at "0-0".
IInv ==
  /\ TypeOK
  /\ published \in [1..MaxEntries -> 0..2]
  /\ Len(history) <= MaxEntries
  /\ OrderedUpTo(applied, last_id)
  /\ \A q \in batch : last_id < q
  /\ \A k \in 1..Len(snapshots) : OrderedUpTo(snapshots[k].applied, snapshots[k].last_id)
  /\ pc # "next" => up = "live" /\ last_id \in Positions
  /\ pc = "reply" => last_id \in executed
  /\ pc \in {"truncate", "del"} => applied = <<>>
  /\ pc = "reply" /\ history[last_id] = "reset" => applied = <<>>
  /\ up = "down" => applied = <<>> /\ last_id = 0 /\ batch = {}

-----------------------------------------------------------------------------
\* Appending a later position keeps a state in order.
LEMMA AppendInOrder ==
  ASSUME NEW state \in Seq(Nat), NEW id \in Nat, NEW p \in Nat,
         OrderedUpTo(state, id), id < p
  PROVE  /\ Append(state, p) \in Seq(Nat)
         /\ OrderedUpTo(Append(state, p), p)
<1>1. /\ Len(Append(state, p)) = Len(state) + 1
      /\ \A i \in 1..Len(state) : Append(state, p)[i] = state[i]
      /\ Append(state, p)[Len(state) + 1] = p
      /\ Append(state, p) \in Seq(Nat)
  OBVIOUS
<1>2. \A i \in 1..Len(state) : state[i] \in Nat
  OBVIOUS
<1> QED
  BY <1>1, <1>2 DEF OrderedUpTo, InOrder

\* The empty state is in order up to any position.
LEMMA EmptyInOrder ==
  ASSUME NEW id \in Nat
  PROVE  <<>> \in Seq(Nat) /\ OrderedUpTo(<<>>, id)
BY DEF OrderedUpTo, InOrder

\* A state in order up to a position is in order up to a later one.
LEMMA LaterInOrder ==
  ASSUME NEW state \in Seq(Nat), NEW id \in Nat, NEW p \in Nat,
         OrderedUpTo(state, id), id <= p
  PROVE  OrderedUpTo(state, p)
<1>1. \A i \in 1..Len(state) : state[i] \in Nat
  OBVIOUS
<1> QED
  BY <1>1 DEF OrderedUpTo

\* Saving keeps the rows typed, and its rows are old ones or the new one.
LEMMA SaveFacts ==
  ASSUME NEW rows \in Seq(Row), NEW row \in Row
  PROVE  /\ Append(rows, row) \in Seq(Row)
         /\ Pruned(Append(rows, row)) \in Seq(Row)
         /\ \A k \in 1..Len(Append(rows, row)) :
              \/ Append(rows, row)[k] = row
              \/ \E j \in 1..Len(rows) : Append(rows, row)[k] = rows[j]
         /\ \A k \in 1..Len(Pruned(Append(rows, row))) :
              \/ Pruned(Append(rows, row))[k] = row
              \/ \E j \in 1..Len(rows) : Pruned(Append(rows, row))[k] = rows[j]
<1>1. PICK long : long = Append(rows, row)
  OBVIOUS
<1>2. /\ long \in Seq(Row)
      /\ Len(long) = Len(rows) + 1
      /\ \A k \in 1..Len(rows) : long[k] = rows[k]
      /\ long[Len(rows) + 1] = row
  BY <1>1
<1>3. \A k \in 1..Len(long) : long[k] = row \/ \E j \in 1..Len(rows) : long[k] = rows[j]
  <2> TAKE k \in 1..Len(long)
  <2>1. k \in 1..Len(rows) \/ k = Len(rows) + 1
    BY <1>2
  <2> QED
    BY <2>1, <1>2
<1>4. /\ Pruned(long) \in Seq(Row)
      /\ \A k \in 1..Len(Pruned(long)) : \E j \in 1..Len(long) : Pruned(long)[k] = long[j]
  <2>1. CASE Len(long) <= KeptSnapshots
    BY <2>1, <1>2 DEF Pruned
  <2>2. CASE ~(Len(long) <= KeptSnapshots)
    <3>0. Len(long) \in Nat /\ KeptSnapshots \in Nat /\ KeptSnapshots > 0
      BY <1>2, LenProperties, SnapshotsAssumption
    <3> DEFINE first == Len(long) - KeptSnapshots + 1
    <3>a. first \in Nat /\ first \in 1..Len(long)
      BY <2>2, <3>0
    <3>1. PICK m \in Nat : m = Len(long) - KeptSnapshots + 1 /\ m \in 1..Len(long)
      BY <3>a
    <3>b. \A i \in m..Len(long) : long[i] \in Row
      BY <3>0, <3>1, <1>2, ElementOfSeq
    <3>2. /\ SubSeq(long, m, Len(long)) \in Seq(Row)
          /\ Len(SubSeq(long, m, Len(long))) = Len(long) - m + 1
          /\ \A k \in 1..(Len(long) - m + 1) :
               SubSeq(long, m, Len(long))[k] = long[m + k - 1]
      BY <3>0, <3>1, <3>b, SubSeqProperties
    <3>3. Pruned(long) = SubSeq(long, m, Len(long))
      BY <2>2, <3>1 DEF Pruned
    <3>4. \A k \in 1..(Len(long) - m + 1) : m + k - 1 \in 1..Len(long)
      BY <3>1, <1>2
    <3> QED
      BY <3>2, <3>3, <3>4
  <2> QED
    BY <2>1, <2>2
<1> QED
  BY <1>1, <1>2, <1>3, <1>4

-----------------------------------------------------------------------------
LEMMA InitInvariant == Init => IInv
BY EmptyInOrder, EntriesAssumption, SnapshotsAssumption
   DEF Init, IInv, TypeOK, Positions, OrderedUpTo, InOrder

\* An entry of the batch is dispatched, in replay or live.
LEMMA NextEntry ==
  ASSUME IInv, NEW p \in batch, IsNext(p)
  PROVE  /\ p \in Positions /\ p \in Nat
         /\ StateAfter(p) \in Seq(Nat)
         /\ OrderedUpTo(StateAfter(p), p)
         /\ \A q \in batch \ {p} : p < q
         /\ history[p] = "reset" => StateAfter(p) = <<>>
<1>1. p \in Positions /\ p \in Nat /\ last_id \in Nat /\ last_id < p
      /\ history[p] \in Kinds
      /\ applied \in Seq(Nat) /\ OrderedUpTo(applied, last_id)
      /\ batch \subseteq Nat
  BY DEF IInv, TypeOK, Positions
<1>2. \A q \in batch \ {p} : p < q
  BY <1>1 DEF IsNext
<1>3. CASE history[p] = "command"
  <2>1. StateAfter(p) = Append(applied, p)
    BY <1>3 DEF StateAfter, Inert
  <2> QED
    BY <2>1, <1>1, <1>2, <1>3, AppendInOrder
<1>4. CASE history[p] = "reset"
  <2>1. StateAfter(p) = <<>>
    BY <1>4 DEF StateAfter, Inert
  <2> QED
    BY <2>1, <1>1, <1>2, EmptyInOrder
<1>5. CASE Inert(p)
  <2>1. StateAfter(p) = applied
    BY <1>5 DEF StateAfter, Inert
  <2> QED
    BY <2>1, <1>1, <1>2, <1>5, LaterInOrder DEF Inert
<1> QED
  BY <1>1, <1>3, <1>4, <1>5 DEF Kinds, Inert

\* The log only grows at its end.
LEMMA AppendEntry ==
  ASSUME IInv, NEW kind \in Kinds, Append1(kind)
  PROVE  /\ history' \in Seq(Kinds)
         /\ Len(history') = Len(history) + 1 /\ Len(history') <= MaxEntries
         /\ Positions \subseteq Positions'
         /\ stream' \subseteq Positions'
         /\ \A p \in Positions : history'[p] = history[p]
<1>1. /\ history \in Seq(Kinds)
      /\ stream \subseteq 1..Len(history)
      /\ Len(history) < MaxEntries /\ MaxEntries \in Nat
      /\ history' = Append(history, kind)
      /\ stream' = stream \cup {Len(history) + 1}
  BY EntriesAssumption DEF IInv, TypeOK, Append1, Positions
<1>2. /\ history' \in Seq(Kinds)
      /\ Len(history') = Len(history) + 1
      /\ \A p \in 1..Len(history) : history'[p] = history[p]
  BY <1>1, AppendProperties
<1>3. Len(history) \in Nat
  BY <1>1, LenProperties
<1>4. Positions = 1..Len(history) /\ Positions' = 1..(Len(history) + 1)
  BY <1>2 DEF Positions
<1>5. Len(history') <= MaxEntries
  BY <1>1, <1>2, <1>3
<1>6. Positions \subseteq Positions'
  BY <1>3, <1>4
<1>7. stream' \subseteq Positions'
  <2> SUFFICES ASSUME NEW q \in stream' PROVE q \in 1..(Len(history) + 1)
    BY <1>4
  <2>1. q \in 1..Len(history) \/ q = Len(history) + 1
    BY <1>1
  <2> QED
    BY <2>1, <1>3
<1> QED
  BY <1>2, <1>4, <1>5, <1>6, <1>7

\* The parts of IInv that only look at the log hold on when it grows.
LEMMA GatewayInvariant ==
  ASSUME IInv, NEW kind \in Kinds, Append1(kind),
         gateway' \in {"idle", "resetting"},
         UNCHANGED <<snapshots, up, applied, last_id, batch, pc,
                     events_since_snapshot, published, replied, executed, crashes>>
  PROVE  IInv'
<1>1. /\ history' \in Seq(Kinds)
      /\ Len(history') <= MaxEntries
      /\ Positions \subseteq Positions'
      /\ stream' \subseteq Positions'
      /\ \A p \in Positions : history'[p] = history[p]
  BY AppendEntry
<1>2. TypeOK'
  BY <1>1 DEF IInv, TypeOK
<1>3. pc' # "next" => up' = "live" /\ last_id' \in Positions'
  BY <1>1 DEF IInv
<1>4. pc' = "reply" /\ history'[last_id'] = "reset" => applied' = <<>>
  BY <1>1 DEF IInv
<1> QED
  BY <1>1, <1>2, <1>3, <1>4 DEF IInv, OrderedUpTo, InOrder

LEMMA SendInvariant ==
  ASSUME IInv, \E kind \in Kinds \ {"reset"} : Send(kind)
  PROVE  IInv'
<1>1. PICK kind \in Kinds \ {"reset"} : Send(kind)
  OBVIOUS
<1>2. gateway \in {"idle", "resetting"}
  BY DEF IInv, TypeOK
<1> QED
  BY <1>1, <1>2, GatewayInvariant DEF Send, Kinds

LEMMA ResetInvariant ==
  ASSUME IInv, ResetDeletesRows \/ ResetSends
  PROVE  IInv'
<1>1. CASE ResetSends
  BY <1>1, GatewayInvariant DEF ResetSends, Kinds
<1>2. CASE ResetDeletesRows
  <2>0. snapshots' \in Seq(Row)
    BY <1>2, EmptySeq DEF IInv, TypeOK, ResetDeletesRows, Row
  <2>1. TypeOK'
    BY <1>2, <2>0 DEF IInv, TypeOK, ResetDeletesRows, Row, Positions
  <2>2. \A k \in 1..Len(snapshots') :
          OrderedUpTo(snapshots'[k].applied, snapshots'[k].last_id)
    BY <1>2 DEF IInv, ResetDeletesRows, OrderedUpTo, InOrder
  <2> QED
    BY <1>2, <2>1, <2>2 DEF IInv, ResetDeletesRows, OrderedUpTo, InOrder, Positions
<1> QED
  BY <1>1, <1>2

LEMMA LoadInvariant ==
  ASSUME IInv, Load
  PROVE  IInv'
<1>1. /\ applied' \in Seq(Nat) /\ last_id' \in Nat
      /\ OrderedUpTo(applied', last_id')
  <2>1. CASE snapshots # <<>> /\ applied' = snapshots[Len(snapshots)].applied
                             /\ last_id' = snapshots[Len(snapshots)].last_id
    <3>1. snapshots \in Seq(Row) /\ Len(snapshots) \in 1..Len(snapshots)
      BY <2>1, LenProperties, EmptySeq DEF IInv, TypeOK, Row
    <3>2. snapshots[Len(snapshots)] \in Row
      BY <3>1, ElementOfSeq
    <3> QED
      BY <2>1, <3>1, <3>2 DEF IInv, Row
  <2>2. CASE UNCHANGED <<applied, last_id>>
    BY <2>2 DEF IInv, TypeOK
  <2> QED
    BY <2>1, <2>2 DEF Load, Latest
<1>2. batch = {} /\ pc = "next" /\ UNCHANGED <<batch, pc>> /\ up' = "loaded"
  BY DEF Load, IInv, TypeOK
<1>3. TypeOK'
  BY <1>1, <1>2 DEF IInv, TypeOK, Load, Positions
<1> QED
  BY <1>1, <1>2, <1>3 DEF IInv, Load, OrderedUpTo, InOrder, Positions

LEMMA ReadInvariant ==
  ASSUME IInv, Xrange \/ GoLive \/ Xread
  PROVE  IInv'
<1>1. UNCHANGED <<history, stream, snapshots, gateway, applied, last_id, pc,
                  events_since_snapshot, published, replied, executed, crashes>>
  BY DEF Xrange, GoLive, Xread
<1>2. batch' \subseteq Positions /\ \A q \in batch' : last_id < q
  BY DEF Xrange, GoLive, Xread, After, IInv, TypeOK
<1>3. /\ up' \in {"replaying", "live"}
      /\ pc # "next" => up' = "live"
  BY DEF Xrange, GoLive, Xread, IInv, TypeOK
<1>4. TypeOK'
  BY <1>1, <1>2, <1>3 DEF IInv, TypeOK, Positions
<1> QED
  BY <1>1, <1>2, <1>3, <1>4 DEF IInv, OrderedUpTo, InOrder, Positions

LEMMA EntryInvariant ==
  ASSUME IInv, NEW p \in batch, ReplayRecord(p) \/ Dispatch(p)
  PROVE  IInv'
<1>1. /\ IsNext(p) /\ batch' = batch \ {p} /\ last_id' = p /\ applied' = StateAfter(p)
      /\ UNCHANGED <<history, stream, snapshots, gateway, up, events_since_snapshot,
                     replied, crashes>>
      /\ pc = "next" /\ pc' \in {"next", "reply", "count"} /\ (pc' # "next" => up = "live")
      /\ pc' = "reply" => p \in executed'
      /\ executed' \in {executed, executed \cup {p}}
  BY DEF ReplayRecord, Dispatch, Inert, IInv, TypeOK
<1>2. /\ p \in Positions /\ p \in Nat
      /\ StateAfter(p) \in Seq(Nat)
      /\ OrderedUpTo(StateAfter(p), p)
      /\ \A q \in batch \ {p} : p < q
      /\ history[p] = "reset" => StateAfter(p) = <<>>
  BY <1>1, NextEntry
<1>3. published' \in [1..MaxEntries -> 0..2]
  <2>1. published \in [1..MaxEntries -> 0..2]
    BY DEF IInv
  <2>2. published' = published \/
        published' = [published EXCEPT ![p] = IF published[p] < 2 THEN published[p] + 1 ELSE 2]
    BY DEF ReplayRecord, Dispatch, Publish
  <2> QED
    BY <2>1, <2>2
<1>4. Positions' = Positions
  BY <1>1 DEF Positions
<1>5. TypeOK'
  BY <1>1, <1>2, <1>4 DEF IInv, TypeOK
<1>6. up # "down"
  BY DEF ReplayRecord, Dispatch
<1>7. \A k \in 1..Len(snapshots') :
        OrderedUpTo(snapshots'[k].applied, snapshots'[k].last_id)
  BY <1>1 DEF IInv, OrderedUpTo, InOrder
<1>8. OrderedUpTo(applied', last_id')
  BY <1>1, <1>2 DEF OrderedUpTo, InOrder
<1> QED
  BY <1>1, <1>2, <1>3, <1>4, <1>5, <1>6, <1>7, <1>8 DEF IInv

LEMMA ReplyInvariant ==
  ASSUME IInv, Reply
  PROVE  IInv'
<1>1. /\ last_id \in executed /\ last_id \in Positions /\ up = "live"
      /\ pc' \in {"truncate", "count"}
      /\ pc' = "truncate" => applied = <<>>
  BY DEF Reply, IInv
<1>2. TypeOK'
  BY <1>1 DEF Reply, IInv, TypeOK, Positions
<1> QED
  BY <1>1, <1>2 DEF Reply, IInv, OrderedUpTo, InOrder, Positions

LEMMA CountInvariant ==
  ASSUME IInv, Count
  PROVE  IInv'
<1>1. snapshots \in Seq(Row) /\ Snapshot \in Row
  BY DEF IInv, TypeOK, Row, Snapshot
<1>2. snapshots' \in {snapshots, Append(snapshots, Snapshot), Pruned(Append(snapshots, Snapshot))}
  BY DEF Count, Save
<1>3. snapshots' \in Seq(Row)
  BY <1>1, <1>2, SaveFacts
<1>4. \A k \in 1..Len(snapshots') :
        snapshots'[k] = Snapshot \/ \E j \in 1..Len(snapshots) : snapshots'[k] = snapshots[j]
  <2>1. CASE snapshots' = snapshots
    BY <2>1
  <2>2. CASE snapshots' = Append(snapshots, Snapshot)
    BY <2>2, <1>1, SaveFacts
  <2>3. CASE snapshots' = Pruned(Append(snapshots, Snapshot))
    BY <2>3, <1>1, SaveFacts
  <2> QED
    BY <1>2, <2>1, <2>2, <2>3
<1>5. \A k \in 1..Len(snapshots') :
        OrderedUpTo(snapshots'[k].applied, snapshots'[k].last_id)
  <2>1. OrderedUpTo(Snapshot.applied, Snapshot.last_id)
    BY DEF IInv, Snapshot
  <2> QED
    BY <1>4, <2>1 DEF IInv
<1>6. events_since_snapshot' \in 0..(SnapshotInterval - 1)
  BY SnapshotsAssumption DEF Count, IInv, TypeOK
<1>7. TypeOK'
  BY <1>3, <1>6 DEF Count, IInv, TypeOK, Row, Positions
<1> QED
  BY <1>5, <1>7 DEF Count, IInv, OrderedUpTo, InOrder, Positions

LEMMA HousekeepingInvariant ==
  ASSUME IInv, Truncate \/ Del
  PROVE  IInv'
<1>1. CASE Truncate
  <2>1. snapshots' \in {<<>>, snapshots} /\ pc' = "del" /\ applied = <<>>
    BY <1>1 DEF Truncate, IInv
  <2>2. snapshots' \in Seq(Row)
    BY <2>1, EmptySeq DEF IInv, TypeOK, Row
  <2>3. \A k \in 1..Len(snapshots') :
          OrderedUpTo(snapshots'[k].applied, snapshots'[k].last_id)
    BY <2>1 DEF IInv
  <2>4. TypeOK'
    BY <1>1, <2>2 DEF Truncate, IInv, TypeOK, Row, Positions
  <2> QED
    BY <1>1, <2>1, <2>3, <2>4 DEF Truncate, IInv, OrderedUpTo, InOrder, Positions
<1>2. CASE Del
  <2>1. applied = <<>> /\ up = "live"
    BY <1>2 DEF Del, IInv
  <2>0. 0 \in 0..(SnapshotInterval - 1) /\ 0 \in Nat
    BY SnapshotsAssumption
  <2>2. TypeOK'
    BY <1>2, <2>0 DEF Del, IInv, TypeOK, Positions
  <2>3. \A q \in batch' : last_id' < q
    BY <1>2 DEF Del, IInv, TypeOK, Positions
  <2> QED
    BY <1>2, <2>1, <2>2, <2>3, EmptyInOrder DEF Del, IInv, OrderedUpTo, InOrder, Positions
<1> QED
  BY <1>1, <1>2

LEMMA StopInvariant ==
  ASSUME IInv, Crash \/ Shutdown
  PROVE  IInv'
<1>1. Stop /\ UNCHANGED snapshots
  BY DEF Crash, Shutdown
<1>2. TypeOK'
  BY <1>1, SnapshotsAssumption DEF Stop, IInv, TypeOK, Positions
<1> QED
  BY <1>1, <1>2, EmptyInOrder DEF Stop, IInv, OrderedUpTo, InOrder, Positions

LEMMA NextInvariant ==
  ASSUME IInv, [Next]_vars
  PROVE  IInv'
<1>1. CASE UNCHANGED vars
  BY <1>1 DEF vars, IInv, TypeOK, OrderedUpTo, InOrder, Positions
<1>2. CASE XreadTimeout
  BY <1>1, <1>2 DEF XreadTimeout
<1>3. CASE \E p \in batch : ReplayRecord(p) \/ Dispatch(p)
  BY <1>3, EntryInvariant
<1> QED
  BY <1>1, <1>2, <1>3, SendInvariant, ResetInvariant, LoadInvariant, ReadInvariant,
     ReplyInvariant, CountInvariant, HousekeepingInvariant, StopInvariant
     DEF Next

LEMMA Invariance == Spec => []IInv
BY InitInvariant, NextInvariant, PTL DEF Spec

-----------------------------------------------------------------------------
\* Whatever the faults, the bounds and the crashes, every variable of the
\* engine process has its type (engine.rs, run_engine_with_db).
THEOREM LoopTypeCorrect == Spec => []TypeOK
<1>1. IInv => TypeOK
  BY DEF IInv
<1> QED
  BY <1>1, Invariance, PTL

\* Whatever the faults, the bounds and the crashes, the state of the engine
\* and of every snapshot has each command at most once and in the order of
\* the log (engine.rs, replay_events_since; snapshot.rs).
THEOREM AlwaysAppliedInOrder == Spec => []AppliedInOrder
<1>1. IInv => AppliedInOrder
  BY DEF IInv, AppliedInOrder, OrderedUpTo
<1> QED
  BY <1>1, Invariance, PTL

-----------------------------------------------------------------------------
\* What the log may lose, under all faults and with clients at any time.

\* What the stream still holds up to the position id has been executed.
ReadUpTo(id) ==
  /\ id \in 0..Len(history)
  /\ \A r \in stream : r <= id => Inert(r) \/ r \in executed

\* The inductive invariant: the stream holds nothing unread before the engine's
\* position or a snapshot's; before an entry of the batch it holds nothing
\* unread but other entries of the batch; and the engine is about to delete the
\* stream only at a reset that it has executed.
EInv ==
  /\ IInv
  /\ ReadUpTo(last_id)
  /\ \A k \in 1..Len(snapshots) : ReadUpTo(snapshots[k].last_id)
  /\ \A p \in batch : \A r \in stream : r < p => r \in batch \/ Inert(r) \/ r \in executed
  /\ pc \in {"truncate", "del"} => last_id \in executed /\ history[last_id] = "reset"

LEMMA InitErases == Init => EInv
<1> SUFFICES ASSUME Init PROVE EInv
  OBVIOUS
<1>1. IInv
  BY InitInvariant
<1>2. /\ Len(history) = 0 /\ Len(snapshots) = 0
      /\ last_id = 0 /\ batch = {} /\ stream = {} /\ pc = "next"
  BY DEF Init
<1> QED
  BY <1>1, <1>2 DEF EInv, ReadUpTo

\* A command is appended, by a client or by the gateway's reset.
LEMMA AppendErases ==
  ASSUME EInv, NEW kind \in Kinds, Append1(kind),
         UNCHANGED <<snapshots, last_id, batch, pc, executed>>, IInv'
  PROVE  EInv'
<1>1. /\ Len(history) \in Nat /\ Len(history') = Len(history) + 1
      /\ \A q \in Positions : history'[q] = history[q]
      /\ stream' = stream \cup {Len(history) + 1}
      /\ stream \subseteq Positions /\ executed \subseteq Positions
      /\ batch \subseteq Positions
  BY AppendEntry, LenProperties DEF EInv, IInv, TypeOK, Append1
<1>2. \A r \in Positions : Inert(r)' = Inert(r)
  BY <1>1 DEF Inert
<1>3. ASSUME NEW id, ReadUpTo(id)
      PROVE  /\ id \in 0..Len(history')
             /\ \A r \in stream' : r <= id => Inert(r)' \/ r \in executed'
  <2>1. id \in 0..Len(history)
    BY <1>3 DEF ReadUpTo
  <2>2. id \in 0..Len(history')
    BY <1>1, <2>1
  <2>3. ASSUME NEW r \in stream', r <= id PROVE r \in stream
    BY <1>1, <2>1, <2>3
  <2> QED
    BY <1>1, <1>2, <1>3, <2>2, <2>3 DEF ReadUpTo
<1>4. ReadUpTo(last_id)'
  BY <1>3 DEF EInv, ReadUpTo
<1>5. \A k \in 1..Len(snapshots) : ReadUpTo(snapshots[k].last_id)'
  BY <1>3 DEF EInv, ReadUpTo
<1>6. ASSUME NEW p \in batch, NEW r \in stream', r < p
      PROVE  r \in batch \/ Inert(r)' \/ r \in executed
  <2>1. r \in stream
    BY <1>1, <1>6 DEF Positions
  <2> QED
    BY <1>1, <1>2, <1>6, <2>1 DEF EInv
<1>7. pc \in {"truncate", "del"} => last_id \in executed /\ history'[last_id] = "reset"
  BY <1>1 DEF EInv
<1> QED
  BY <1>4, <1>5, <1>6, <1>7 DEF EInv

\* Steps that append and execute nothing, whose new position and snapshots
\* have nothing unread before them.
LEMMA StillErases ==
  ASSUME EInv, IInv', UNCHANGED <<history, executed>>, stream' \subseteq stream,
         ReadUpTo(last_id'),
         \A k \in 1..Len(snapshots') : ReadUpTo(snapshots'[k].last_id),
         \A p \in batch' : \A r \in stream' : r < p => r \in batch' \/ Inert(r) \/ r \in executed,
         pc' \in {"truncate", "del"} => last_id' \in executed /\ history[last_id'] = "reset"
  PROVE  EInv'
<1>1. \A p : Inert(p)' = Inert(p)
  BY DEF Inert
<1>2. ReadUpTo(last_id)'
  BY <1>1 DEF ReadUpTo
<1>3. \A k \in 1..Len(snapshots') : (ReadUpTo(snapshots[k].last_id))'
  BY <1>1 DEF ReadUpTo
<1> QED
  BY <1>1, <1>2, <1>3 DEF EInv

LEMMA RowsErase ==
  ASSUME EInv, ResetDeletesRows \/ Truncate, IInv'
  PROVE  EInv'
<1>1. /\ snapshots' \in {<<>>, snapshots}
      /\ UNCHANGED <<history, stream, last_id, batch, executed>>
      /\ pc' = pc \/ (pc = "truncate" /\ pc' = "del")
  BY DEF ResetDeletesRows, Truncate
<1>2. \A k \in 1..Len(snapshots') : ReadUpTo(snapshots'[k].last_id)
  <2>1. CASE snapshots' = <<>>
    BY <2>1
  <2>2. CASE snapshots' = snapshots
    BY <2>2 DEF EInv
  <2> QED
    BY <1>1, <2>1, <2>2
<1> QED
  BY <1>1, <1>2, StillErases DEF EInv

LEMMA LoadErases ==
  ASSUME EInv, Load, IInv'
  PROVE  EInv'
<1>1. /\ UNCHANGED <<history, stream, snapshots, batch, pc, executed>>
      /\ batch = {} /\ pc = "next"
  BY DEF Load, EInv, IInv, TypeOK
<1>2. ReadUpTo(last_id')
  <2>1. CASE last_id' = last_id
    BY <2>1 DEF EInv
  <2>2. CASE snapshots # <<>> /\ last_id' = snapshots[Len(snapshots)].last_id
    <3>1. Len(snapshots) \in 1..Len(snapshots)
      BY <2>2, LenProperties, EmptySeq DEF EInv, IInv, TypeOK
    <3> QED
      BY <2>2, <3>1 DEF EInv
  <2> QED
    BY <2>1, <2>2 DEF Load, Latest
<1> QED
  BY <1>1, <1>2, StillErases DEF EInv

\* What is read is all that the stream holds after the position.
LEMMA ReadErases ==
  ASSUME EInv, Xrange \/ GoLive \/ Xread, IInv'
  PROVE  EInv'
<1>1. /\ UNCHANGED <<history, stream, snapshots, last_id, pc, executed>>
      /\ batch' \in {batch, {}, After(last_id)}
  BY DEF Xrange, GoLive, Xread
<1>2. ASSUME NEW p \in batch', NEW r \in stream', r < p
      PROVE  r \in batch' \/ Inert(r) \/ r \in executed
  <2>1. CASE batch' = batch
    BY <1>1, <1>2, <2>1 DEF EInv
  <2>2. CASE batch' = After(last_id)
    <3>1. r \in Nat /\ last_id \in Nat
      BY <1>1 DEF EInv, IInv, TypeOK, Positions
    <3>2. CASE r <= last_id
      BY <1>1, <3>2 DEF EInv, ReadUpTo
    <3>3. CASE r > last_id
      BY <1>1, <2>2, <3>3 DEF After
    <3> QED
      BY <3>1, <3>2, <3>3
  <2> QED
    BY <1>1, <1>2, <2>1, <2>2
<1> QED
  BY <1>1, <1>2, StillErases DEF EInv

\* Once the first entry of the batch was dispatched nothing up to it is unread.
LEMMA EntryErases ==
  ASSUME EInv, NEW p \in batch, ReplayRecord(p) \/ Dispatch(p), IInv'
  PROVE  EInv'
<1>1. /\ IsNext(p) /\ batch' = batch \ {p} /\ last_id' = p
      /\ UNCHANGED <<history, stream, snapshots>>
      /\ pc' \in {"next", "reply", "count"}
      /\ executed' = IF Inert(p) THEN executed ELSE executed \cup {p}
  BY DEF ReplayRecord, Dispatch, Inert, EInv, IInv, TypeOK
<1>2. /\ p \in 1..Len(history) /\ Len(history) \in Nat
      /\ batch \subseteq Nat /\ stream \subseteq Nat
  BY LenProperties DEF EInv, IInv, TypeOK, Positions
<1>3. \A r : Inert(r)' = Inert(r)
  BY <1>1 DEF Inert
<1>4. \A r : (Inert(r) \/ r \in executed \/ r = p) => Inert(r) \/ r \in executed'
  BY <1>1
<1>5. ReadUpTo(last_id)'
  <2>1. ASSUME NEW r \in stream, r <= p PROVE Inert(r) \/ r \in executed'
    <3>1. CASE r = p
      BY <1>4, <3>1
    <3>2. CASE r < p
      <4>1. r \notin batch
        BY <1>1, <1>2, <3>2 DEF IsNext
      <4> QED
        BY <1>4, <3>2, <4>1 DEF EInv
    <3> QED
      BY <1>2, <2>1, <3>1, <3>2
  <2>2. p \in 0..Len(history)
    BY <1>2
  <2> QED
    BY <1>1, <1>3, <2>1, <2>2 DEF ReadUpTo
<1>6. \A k \in 1..Len(snapshots') : (ReadUpTo(snapshots[k].last_id))'
  BY <1>1, <1>3, <1>4 DEF EInv, ReadUpTo
<1>7. ASSUME NEW q \in batch', NEW r \in stream', r < q
      PROVE  r \in batch' \/ Inert(r)' \/ r \in executed'
  <2>1. r \in batch \/ Inert(r) \/ r \in executed
    BY <1>1, <1>7 DEF EInv
  <2> QED
    BY <1>1, <1>3, <1>4, <2>1
<1> QED
  BY <1>1, <1>5, <1>6, <1>7 DEF EInv

LEMMA ReplyErases ==
  ASSUME EInv, Reply, IInv'
  PROVE  EInv'
<1>1. /\ UNCHANGED <<history, stream, snapshots, last_id, batch, executed>>
      /\ last_id \in executed
      /\ pc' = IF history[last_id] = "reset" THEN "truncate" ELSE "count"
  BY DEF Reply, EInv, IInv
<1> QED
  BY <1>1, StillErases DEF EInv

LEMMA CountErases ==
  ASSUME EInv, Count, IInv'
  PROVE  EInv'
<1>1. /\ UNCHANGED <<history, stream, last_id, batch, executed>> /\ pc' = "next"
      /\ snapshots' \in {snapshots, Append(snapshots, Snapshot), Pruned(Append(snapshots, Snapshot))}
      /\ snapshots \in Seq(Row) /\ Snapshot \in Row /\ Snapshot.last_id = last_id
  BY DEF Count, Save, EInv, IInv, TypeOK, Row, Snapshot
<1>2. \A k \in 1..Len(snapshots') :
        snapshots'[k] = Snapshot \/ \E j \in 1..Len(snapshots) : snapshots'[k] = snapshots[j]
  <2>1. CASE snapshots' = snapshots
    BY <2>1
  <2>2. CASE snapshots' = Append(snapshots, Snapshot)
    BY <2>2, <1>1, SaveFacts
  <2>3. CASE snapshots' = Pruned(Append(snapshots, Snapshot))
    BY <2>3, <1>1, SaveFacts
  <2> QED
    BY <1>1, <2>1, <2>2, <2>3
<1>3. \A k \in 1..Len(snapshots') : ReadUpTo(snapshots'[k].last_id)
  BY <1>1, <1>2 DEF EInv
<1> QED
  BY <1>1, <1>3, StillErases DEF EInv

\* Back at "0-0" there is nothing before the engine, deleted or not.
LEMMA BackErases ==
  ASSUME EInv, Del \/ Crash \/ Shutdown, IInv'
  PROVE  EInv'
<1>1. /\ last_id' = 0 /\ pc' = "next" /\ batch' \in {batch, {}}
      /\ stream' \in {stream, {}}
      /\ UNCHANGED <<history, snapshots, executed>>
  BY DEF Del, Crash, Shutdown, Stop
<1>2. ReadUpTo(0)
  BY LenProperties DEF ReadUpTo, EInv, IInv, TypeOK, Positions
<1>3. \A p \in batch' : \A r \in stream' : r < p => r \in batch' \/ Inert(r) \/ r \in executed
  BY <1>1 DEF EInv
<1> QED
  BY <1>1, <1>2, <1>3, StillErases DEF EInv

LEMMA NextErases ==
  ASSUME EInv, [Next]_vars
  PROVE  EInv'
<1>0. IInv /\ IInv'
  BY NextInvariant DEF EInv
<1>1. CASE UNCHANGED vars
  <2>1. UNCHANGED <<history, stream, snapshots, last_id, batch, pc, executed>>
    BY <1>1 DEF vars
  <2> QED
    BY <1>0, <2>1, StillErases DEF EInv
<1>2. CASE XreadTimeout
  BY <1>1, <1>2 DEF XreadTimeout
<1>3. CASE \E p \in batch : ReplayRecord(p) \/ Dispatch(p)
  BY <1>0, <1>3, EntryErases
<1>4. CASE (\E kind \in Kinds \ {"reset"} : Send(kind)) \/ ResetSends
  <2>1. PICK kind \in Kinds :
          Append1(kind) /\ UNCHANGED <<snapshots, last_id, batch, pc, executed>>
    BY <1>4 DEF Send, ResetSends, Kinds
  <2> QED
    BY <1>0, <2>1, AppendErases
<1> QED
  BY <1>0, <1>1, <1>2, <1>3, <1>4, RowsErase, LoadErases, ReadErases, ReplyErases,
     CountErases, BackErases DEF Next

\* Only Del takes anything from the stream, and only at an executed reset.
LEMMA EraseStep ==
  ASSUME EInv, [Next]_vars, NEW p \in stream \ stream'
  PROVE  Inert(p) \/ p \in executed
         \/ (last_id \in executed /\ history[last_id] = "reset" /\ last_id < p)
<1>1. Del
  BY DEF Next, vars, Send, Append1, ResetDeletesRows, ResetSends, Load, Xrange, GoLive,
         ReplayRecord, Dispatch, Xread, XreadTimeout, Reply, Count, Truncate,
         Crash, Shutdown, Stop
<1>2. last_id \in executed /\ history[last_id] = "reset"
  BY <1>1 DEF Del, EInv
<1>3. p \in Nat /\ last_id \in Nat
  BY DEF EInv, IInv, TypeOK, Positions
<1>4. CASE p <= last_id
  BY <1>4 DEF EInv, ReadUpTo
<1> QED
  BY <1>2, <1>3, <1>4

\* Whatever fails, wherever the engine crashes and whatever clients send
\* meanwhile, a command is erased unread only behind a reset that the engine
\* has executed and stands at (engine.rs, the DEL after a reset).
THEOREM ErasedOnlyBehindReset == Spec => ErasedBehindReset
<1> DEFINE Erases ==
      \A p \in stream \ stream' :
        \/ Inert(p)
        \/ p \in executed
        \/ /\ last_id \in executed
           /\ history[last_id] = "reset"
           /\ last_id < p
<1>1. EInv /\ [Next]_vars => Erases
  BY EraseStep
<1>2. EInv /\ [Next]_vars => EInv'
  BY NextErases
<1>3. EInv /\ [Next]_vars => [Erases]_vars
  BY <1>1
<1> QED
  BY <1>2, <1>3, InitErases, PTL DEF Spec, ErasedBehindReset

-----------------------------------------------------------------------------
\* What recovery guarantees when Redis and the truncation of the snapshots do
\* not fail and clients keep clear of a reset until the engine has finished it.
\* Loading, saving, pruning and emitting may fail.

Dependable == Isolation = "delete" /\ Faults \cap {"xrange", "truncate", "del"} = {}

\* IsStateAt, with the log as a parameter and by its elements.
LogState(log, state, id) ==
  /\ InOrder(state)
  /\ \A q \in Nat :
       (\E i \in 1..Len(state) : state[i] = q) <=>
         /\ q \in 1..id
         /\ log[q] = "command"
         /\ \A r \in (q + 1)..id : log[r] # "reset"

\* Everything in the log up to id that a handler runs for has been executed.
ExecutedUpTo(log, done, id) ==
  \A p \in 1..id : log[p] \in {"malformed", "unparsable"} \/ p \in done

\* A row, or the engine's own position and state, is what the log makes it.
Faithful(log, done, row) ==
  /\ row.last_id <= Len(log)
  /\ ExecutedUpTo(log, done, row.last_id)
  /\ LogState(log, row.applied, row.last_id)

\* The stream has lost the entries up to e, and e ends with a reset; neither
\* the engine nor a snapshot stands before it, unless at "0-0".  What was
\* executed is behind the engine or, in replay, in the batch.
ErasedUpTo(e) ==
  /\ e > 0 => history[e] = "reset"
  /\ stream = (e + 1)..Len(history)
  /\ last_id = 0 \/ e <= last_id
  /\ \A k \in 1..Len(snapshots) : e <= snapshots[k].last_id
  /\ ExecutedUpTo(history, executed, e)
  /\ up = "live" => \A p \in executed : p <= last_id \/ p <= e
  /\ up = "replaying" => \A p \in executed : p <= last_id \/ p <= e \/ p \in batch

\* Nothing follows a reset that was not executed, or is not yet deleted.
ResetsAlone ==
  /\ \A p \in Positions : history[p] = "reset" /\ p \notin executed =>
       p = Len(history) /\ gateway = "idle"
  /\ pc \in {"truncate", "del"} => history[last_id] = "reset"
  /\ pc \in {"reply", "truncate", "del"} /\ history[last_id] = "reset" =>
       last_id = Len(history) /\ gateway = "idle"

\* The batch is the next part of the stream.
BatchIsNext ==
  /\ batch \subseteq stream
  /\ \A q \in batch, g \in stream : last_id < g /\ g < q => g \in batch

\* A handler ran for what was published, at most once while live.
Publications ==
  /\ \A p \in executed : ~Inert(p)
  /\ \A p \in 1..MaxEntries : published[p] > 0 => p \in executed
  /\ \A p \in 1..MaxEntries : published[p] <= 1

\* The inductive invariant of recovery.
RInv ==
  /\ IInv
  /\ \E e \in 0..Len(history) : ErasedUpTo(e)
  /\ ResetsAlone
  /\ Faithful(history, executed, Snapshot)
  /\ \A k \in 1..Len(snapshots) : Faithful(history, executed, snapshots[k])
  /\ BatchIsNext
  /\ Publications
  /\ pc = "del" => snapshots = <<>>

-----------------------------------------------------------------------------
\* Lemmas about states and logs.

\* The two ways of saying it agree.
LEMMA LogStateView ==
  ASSUME NEW log, NEW state \in Seq(Nat), NEW id \in Nat, LogState(log, state, id)
  PROVE  {state[i] : i \in 1..Len(state)} =
           {p \in 1..id : /\ log[p] = "command"
                          /\ \A q \in (p + 1)..id : log[q] # "reset"}
<1>1. \A i \in 1..Len(state) : state[i] \in Nat
  OBVIOUS
<1>2. 1..id \subseteq Nat
  OBVIOUS
<1> QED
  BY <1>1, <1>2 DEF LogState

\* Before the first entry the state is empty.
LEMMA LogStateAtZero ==
  ASSUME NEW log
  PROVE  /\ LogState(log, <<>>, 0)
         /\ \A state \in Seq(Nat) : LogState(log, state, 0) => state = <<>>
<1>1. LogState(log, <<>>, 0)
  BY DEF LogState, InOrder
<1>2. ASSUME NEW state \in Seq(Nat), LogState(log, state, 0)
      PROVE  state = <<>>
  <2>1. Len(state) \in Nat /\ \A i \in 1..Len(state) : state[i] \in Nat
    BY LenProperties, ElementOfSeq
  <2>2. \A q \in Nat : ~\E i \in 1..Len(state) : state[i] = q
    BY <1>2 DEF LogState
  <2>3. Len(state) = 0
    <3> SUFFICES ASSUME Len(state) # 0 PROVE FALSE
      OBVIOUS
    <3>1. 1 \in 1..Len(state)
      BY <2>1
    <3> QED
      BY <3>1, <2>1, <2>2
  <2> QED
    BY <2>3, EmptySeq
<1> QED
  BY <1>1, <1>2

\* After a reset the state is empty.
LEMMA LogStateAtReset ==
  ASSUME NEW log, NEW e \in Nat, e > 0, log[e] = "reset"
  PROVE  LogState(log, <<>>, e)
<1>1. ASSUME NEW q \in 1..e, log[q] = "command" PROVE \E r \in (q + 1)..e : log[r] = "reset"
  <2>1. q # e
    BY <1>1
  <2>2. e \in (q + 1)..e
    BY <2>1
  <2> QED
    BY <2>2
<1> QED
  BY <1>1 DEF LogState, InOrder

\* A command is added to the state of the entries before it.
LEMMA LogStateCommand ==
  ASSUME NEW log, NEW state \in Seq(Nat), NEW p \in Nat, p > 0,
         LogState(log, state, p - 1), log[p] = "command"
  PROVE  LogState(log, Append(state, p), p)
<1>1. PICK long : long = Append(state, p)
  OBVIOUS
<1>2. /\ Len(long) = Len(state) + 1
      /\ \A i \in 1..Len(state) : long[i] = state[i]
      /\ long[Len(state) + 1] = p
      /\ Len(state) \in Nat
      /\ \A i \in 1..Len(state) : state[i] \in Nat
  BY <1>1, AppendProperties, LenProperties, ElementOfSeq
<1>3. \A i \in 1..Len(state) : state[i] < p
  <2> TAKE i \in 1..Len(state)
  <2>0. PICK q \in Nat : q = state[i]
    BY <1>2
  <2>1. q \in 1..(p - 1)
    BY <2>0 DEF LogState
  <2> QED
    BY <2>0, <2>1
<1>4. InOrder(long)
  <2>1. InOrder(state)
    BY DEF LogState
  <2> SUFFICES ASSUME NEW i \in 1..Len(long), NEW j \in 1..Len(long), i < j
               PROVE  long[i] < long[j]
    BY DEF InOrder
  <2>2. i \in 1..Len(state)
    BY <1>2
  <2>3. CASE j \in 1..Len(state)
    BY <2>1, <2>2, <2>3, <1>2 DEF InOrder
  <2>4. CASE j = Len(state) + 1
    BY <2>2, <2>4, <1>2, <1>3
  <2> QED
    BY <2>3, <2>4, <1>2
<1>5. ASSUME NEW q \in Nat
      PROVE  (\E i \in 1..Len(long) : long[i] = q) <=> (q = p \/ \E i \in 1..Len(state) : state[i] = q)
  <2>1. \A i \in 1..Len(long) : i \in 1..Len(state) \/ i = Len(state) + 1
    BY <1>2
  <2>2. Len(state) + 1 \in 1..Len(long) /\ \A i \in 1..Len(state) : i \in 1..Len(long)
    BY <1>2
  <2> QED
    BY <2>1, <2>2, <1>2
<1>6. ASSUME NEW q \in Nat
      PROVE  (q \in 1..p /\ log[q] = "command" /\ \A r \in (q + 1)..p : log[r] # "reset")
             <=> \/ q = p
                 \/ q \in 1..(p - 1) /\ log[q] = "command" /\ \A r \in (q + 1)..(p - 1) : log[r] # "reset"
  <2>1. CASE q = p
    BY <2>1
  <2>2. CASE q # p
    <3>1. q \in 1..p <=> q \in 1..(p - 1)
      BY <2>2
    <3>2. \A r \in (q + 1)..p : r \in (q + 1)..(p - 1) \/ r = p
      OBVIOUS
    <3>3. \A r \in (q + 1)..(p - 1) : r \in (q + 1)..p
      OBVIOUS
    <3> QED
      BY <2>2, <3>1, <3>2, <3>3
  <2> QED
    BY <2>1, <2>2
<1>7. \A q \in Nat : (\E i \in 1..Len(long) : long[i] = q) <=>
        (q \in 1..p /\ log[q] = "command" /\ \A r \in (q + 1)..p : log[r] # "reset")
  <2> TAKE q \in Nat
  <2>1. (\E i \in 1..Len(state) : state[i] = q) <=>
          (q \in 1..(p - 1) /\ log[q] = "command" /\ \A r \in (q + 1)..(p - 1) : log[r] # "reset")
    BY DEF LogState
  <2> QED
    BY <2>1, <1>5, <1>6
<1> QED
  BY <1>1, <1>4, <1>7 DEF LogState

\* An entry that no handler runs for leaves the state as it was.
LEMMA LogStateInert ==
  ASSUME NEW log, NEW state \in Seq(Nat), NEW p \in Nat, p > 0,
         LogState(log, state, p - 1), log[p] \in {"malformed", "unparsable"}
  PROVE  LogState(log, state, p)
<1>1. ASSUME NEW q \in Nat
      PROVE  (q \in 1..p /\ log[q] = "command" /\ \A r \in (q + 1)..p : log[r] # "reset")
             <=> (q \in 1..(p - 1) /\ log[q] = "command" /\ \A r \in (q + 1)..(p - 1) : log[r] # "reset")
  <2>1. log[p] # "command" /\ log[p] # "reset"
    OBVIOUS
  <2>2. \A r \in (q + 1)..p : r \in (q + 1)..(p - 1) \/ r = p
    OBVIOUS
  <2>3. \A r \in (q + 1)..(p - 1) : r \in (q + 1)..p
    OBVIOUS
  <2>4. q \in 1..p => q = p \/ q \in 1..(p - 1)
    OBVIOUS
  <2>5. q \in 1..(p - 1) => q \in 1..p
    OBVIOUS
  <2> QED
    BY <2>1, <2>2, <2>3, <2>4, <2>5
<1> QED
  BY <1>1 DEF LogState

\* A longer log, and more executed, leave what was faithful so.
LEMMA FaithfulGrows ==
  ASSUME NEW log, NEW log2, NEW done, NEW done2, NEW row \in Row,
         Len(log) \in Nat, Len(log2) \in Nat, Len(log) <= Len(log2),
         \A p \in 1..Len(log) : log2[p] = log[p],
         done \subseteq done2,
         Faithful(log, done, row)
  PROVE  Faithful(log2, done2, row)
<1>1. PICK id \in Nat : id = row.last_id /\ id <= Len(log)
  BY DEF Row, Faithful
<1>2. \A p \in 1..id : log2[p] = log[p]
  BY <1>1
<1>3. ExecutedUpTo(log2, done2, id)
  BY <1>1, <1>2 DEF Faithful, ExecutedUpTo
<1>4. \A q \in 1..id : \A r \in (q + 1)..id : r \in 1..id
  OBVIOUS
<1>5. LogState(log, row.applied, id)
  BY <1>1 DEF Faithful
<1>6. LogState(log2, row.applied, id)
  <2>1. ASSUME NEW q \in Nat
        PROVE  (\E i \in 1..Len(row.applied) : row.applied[i] = q) <=>
                 /\ q \in 1..id
                 /\ log2[q] = "command"
                 /\ \A r \in (q + 1)..id : log2[r] # "reset"
    <3>1. (\E i \in 1..Len(row.applied) : row.applied[i] = q) <=>
            /\ q \in 1..id
            /\ log[q] = "command"
            /\ \A r \in (q + 1)..id : log[r] # "reset"
      BY <1>5 DEF LogState
    <3>2. CASE q \in 1..id
      <4>1. log2[q] = log[q] /\ \A r \in (q + 1)..id : log2[r] = log[r]
        BY <1>2, <1>4, <3>2
      <4> QED
        BY <3>1, <4>1
    <3> QED
      BY <3>1, <3>2
  <2> QED
    BY <1>5, <2>1 DEF LogState
<1> QED
  BY <1>1, <1>3, <1>6 DEF Faithful

\* The engine stands right before the next entry of the batch or, at "0-0",
\* right before it but for what a reset erased.
LEMMA NextIsAdjacent ==
  ASSUME RInv, NEW p \in batch, IsNext(p), NEW e \in 0..Len(history), ErasedUpTo(e)
  PROVE  /\ p \in Positions /\ e < p /\ last_id < p
         /\ p = last_id + 1 \/ (last_id = 0 /\ p = e + 1 /\ e > 0)
<1>1. /\ Len(history) \in Nat /\ last_id \in Nat /\ e \in Nat
      /\ p \in Positions /\ p \in Nat /\ last_id < p
      /\ stream = (e + 1)..Len(history)
      /\ last_id = 0 \/ e <= last_id
      /\ p \in stream
  BY LenProperties DEF RInv, IInv, TypeOK, Positions, ErasedUpTo, BatchIsNext
<1>2. e < p
  BY <1>1
<1>3. ASSUME NEW g \in stream, last_id < g, g < p PROVE FALSE
  <2>1. g \in batch
    BY <1>3 DEF RInv, BatchIsNext
  <2>2. p <= g
    BY <2>1 DEF IsNext
  <2> QED
    BY <1>1, <1>3, <2>2
<1>4. CASE e <= last_id
  <2>1. ASSUME p # last_id + 1 PROVE FALSE
    <3>1. last_id + 1 \in stream /\ last_id < last_id + 1 /\ last_id + 1 < p
      BY <1>1, <1>4, <2>1 DEF Positions
    <3> QED
      BY <3>1, <1>3
  <2> QED
    BY <2>1, <1>1, <1>2
<1>5. CASE last_id = 0 /\ e > 0
  <2>1. ASSUME p # e + 1 PROVE FALSE
    <3>1. e + 1 \in stream /\ last_id < e + 1 /\ e + 1 < p
      BY <1>1, <1>2, <1>5, <2>1 DEF Positions
    <3> QED
      BY <3>1, <1>3
  <2> QED
    BY <2>1, <1>1, <1>2, <1>5
<1> QED
  BY <1>1, <1>4, <1>5

\* Executing that entry keeps the engine faithful.
LEMMA EntryFaithful ==
  ASSUME RInv, NEW p \in batch, IsNext(p), NEW done, executed \subseteq done,
         Inert(p) \/ p \in done
  PROVE  Faithful(history, done, [last_id |-> p, applied |-> StateAfter(p)])
<1>1. PICK e \in 0..Len(history) : ErasedUpTo(e)
  BY DEF RInv
<1>2. /\ p \in Positions /\ e < p /\ last_id < p
      /\ p = last_id + 1 \/ (last_id = 0 /\ p = e + 1 /\ e > 0)
  BY <1>1, NextIsAdjacent
<1>3. /\ Len(history) \in Nat /\ last_id \in Nat /\ e \in Nat /\ p \in Nat /\ p > 0
      /\ p <= Len(history) /\ history[p] \in Kinds /\ applied \in Seq(Nat)
  BY <1>2, LenProperties, ElementOfSeq DEF RInv, IInv, TypeOK, Positions
<1>4. /\ LogState(history, applied, last_id)
      /\ ExecutedUpTo(history, executed, last_id)
      /\ ExecutedUpTo(history, executed, e)
      /\ e > 0 => history[e] = "reset"
  BY <1>1 DEF RInv, Faithful, Snapshot, ErasedUpTo
<1>5. LogState(history, applied, p - 1) /\ ExecutedUpTo(history, executed, p - 1)
  <2>1. CASE p = last_id + 1
    <3>1. p - 1 = last_id
      BY <2>1, <1>3
    <3> QED
      BY <3>1, <1>4
  <2>2. CASE last_id = 0 /\ p = e + 1 /\ e > 0
    <3>1. p - 1 = e
      BY <2>2, <1>3
    <3>2. applied = <<>>
      BY <2>2, <1>3, <1>4, LogStateAtZero
    <3>3. LogState(history, <<>>, e)
      BY <2>2, <1>3, <1>4, LogStateAtReset
    <3> QED
      BY <3>1, <3>2, <3>3, <1>4
  <2> QED
    BY <2>1, <2>2, <1>2
<1>6. ExecutedUpTo(history, done, p)
  <2>1. \A q \in 1..p : q \in 1..(p - 1) \/ q = p
    BY <1>3
  <2> QED
    BY <2>1, <1>5 DEF ExecutedUpTo, Inert
<1>7. LogState(history, StateAfter(p), p)
  <2>1. CASE history[p] = "command"
    <3>1. StateAfter(p) = Append(applied, p)
      BY <2>1 DEF StateAfter, Inert
    <3> QED
      BY <3>1, <2>1, <1>3, <1>5, LogStateCommand
  <2>2. CASE history[p] = "reset"
    <3>1. StateAfter(p) = <<>>
      BY <2>2 DEF StateAfter, Inert
    <3> QED
      BY <3>1, <2>2, <1>3, LogStateAtReset
  <2>3. CASE Inert(p)
    <3>1. StateAfter(p) = applied
      BY <2>3 DEF StateAfter, Inert
    <3> QED
      BY <3>1, <2>3, <1>3, <1>5, LogStateInert DEF Inert
  <2> QED
    BY <2>1, <2>2, <2>3, <1>3 DEF Kinds, Inert
<1> QED
  BY <1>3, <1>6, <1>7 DEF Faithful

\* What the engine and the snapshots hold stays faithful as the log grows.
LEMMA AllFaithful ==
  ASSUME RInv, NEW log2, NEW done2, Len(log2) \in Nat, Len(history) <= Len(log2),
         \A p \in Positions : log2[p] = history[p], executed \subseteq done2
  PROVE  /\ Faithful(log2, done2, Snapshot)
         /\ \A k \in 1..Len(snapshots) : Faithful(log2, done2, snapshots[k])
<1>1. Len(history) \in Nat /\ Snapshot \in Row /\ snapshots \in Seq(Row)
  BY LenProperties DEF RInv, IInv, TypeOK, Row, Snapshot
<1>2. \A p \in 1..Len(history) : log2[p] = history[p]
  BY DEF Positions
<1>3. \A k \in 1..Len(snapshots) : snapshots[k] \in Row
  BY <1>1, ElementOfSeq
<1>4. \A row \in Row : Faithful(history, executed, row) => Faithful(log2, done2, row)
  BY <1>1, <1>2, FaithfulGrows
<1> QED
  BY <1>1, <1>3, <1>4 DEF RInv

-----------------------------------------------------------------------------
\* Every step preserves the invariant.

LEMMA AppendRecovers ==
  ASSUME RInv, IInv', ResetsAlone', NEW kind \in Kinds, Append1(kind),
         UNCHANGED <<snapshots, up, applied, last_id, batch, pc,
                     events_since_snapshot, published, replied, executed, crashes>>
  PROVE  RInv'
<1>1. /\ Len(history') = Len(history) + 1
      /\ \A p \in Positions : history'[p] = history[p]
      /\ stream' = stream \cup {Len(history) + 1}
  BY AppendEntry DEF RInv, Append1
<1>2. Len(history) \in Nat /\ Len(history') \in Nat /\ last_id \in Nat /\ executed \subseteq Positions
  BY <1>1, LenProperties DEF RInv, IInv, TypeOK
<1>3. /\ Faithful(history', executed, Snapshot)
      /\ \A k \in 1..Len(snapshots) : Faithful(history', executed, snapshots[k])
  BY <1>1, <1>2, AllFaithful
<1>4. Snapshot' = Snapshot
  BY DEF Snapshot
<1>5. PICK e \in 0..Len(history) : ErasedUpTo(e)
  BY DEF RInv
<1>6. ErasedUpTo(e)'
  <2>1. e > 0 => history'[e] = "reset"
    BY <1>1, <1>2, <1>5 DEF ErasedUpTo, Positions
  <2>2. stream' = (e + 1)..Len(history')
    BY <1>1, <1>2, <1>5 DEF ErasedUpTo
  <2>3. ExecutedUpTo(history', executed', e)
    BY <1>1, <1>2, <1>5 DEF ErasedUpTo, ExecutedUpTo, Positions
  <2> QED
    BY <1>5, <2>1, <2>2, <2>3 DEF ErasedUpTo
<1>7. e \in 0..Len(history')
  BY <1>1, <1>2, <1>5
<1>8. BatchIsNext'
  <2>1. \A q \in batch : q <= Len(history)
    BY <1>2 DEF RInv, IInv, TypeOK, Positions
  <2>2. batch \subseteq Nat
    BY DEF RInv, IInv, TypeOK, Positions
  <2> QED
    BY <2>1, <2>2, <1>1, <1>2 DEF RInv, BatchIsNext
<1>9. Publications'
  BY <1>1, <1>2 DEF RInv, Publications, Inert
<1> QED
  BY <1>3, <1>4, <1>6, <1>7, <1>8, <1>9 DEF RInv

LEMMA SendRecovers ==
  ASSUME Dependable, RInv, IInv', \E kind \in Kinds \ {"reset"} : Send(kind)
  PROVE  RInv'
<1>1. PICK kind \in Kinds \ {"reset"} : Send(kind)
  OBVIOUS
<1>2. Append1(kind) /\ Open
      /\ UNCHANGED <<snapshots, gateway, up, applied, last_id, batch, pc,
                     events_since_snapshot, published, replied, executed, crashes>>
  BY <1>1 DEF Send
<1>a. history \in Seq(Kinds) /\ history' = Append(history, kind) /\ kind \in Kinds
  BY <1>2 DEF RInv, IInv, TypeOK, Append1
<1>b. history'[Len(history) + 1] = kind /\ Len(history) \in Nat
  BY <1>a, AppendProperties, LenProperties
<1>3. /\ Len(history') = Len(history) + 1 /\ Len(history) \in Nat
      /\ \A p \in Positions : history'[p] = history[p]
      /\ history'[Len(history) + 1] = kind
  BY <1>2, <1>b, AppendEntry DEF RInv
<1>4. \A p \in Positions' : p \in Positions \/ p = Len(history) + 1
  BY <1>3 DEF Positions
<1>5. /\ \A p \in Positions : history[p] = "reset" => p \in executed
      /\ pc \notin {"truncate", "del"}
      /\ pc = "reply" => last_id \in Positions /\ history[last_id] # "reset"
  BY <1>2 DEF Open, Dependable, RInv, IInv
<1>6. ResetsAlone'
  BY <1>2, <1>3, <1>4, <1>5 DEF ResetsAlone
<1> QED
  BY <1>2, <1>6, AppendRecovers

LEMMA ResetRecovers ==
  ASSUME Dependable, RInv, IInv', ResetDeletesRows \/ ResetSends
  PROVE  RInv'
<1>1. CASE ResetSends
  <2>1. /\ Append1("reset") /\ gateway = "resetting" /\ gateway' = "idle"
        /\ UNCHANGED <<snapshots, up, applied, last_id, batch, pc,
                       events_since_snapshot, published, replied, executed, crashes>>
    BY <1>1 DEF ResetSends
  <2>2. /\ Len(history') = Len(history) + 1 /\ Len(history) \in Nat
        /\ \A p \in Positions : history'[p] = history[p]
    BY <2>1, AppendEntry, LenProperties DEF RInv, IInv, TypeOK, Kinds
  <2>3. \A p \in Positions' : p \in Positions \/ p = Len(history')
    BY <2>2 DEF Positions
  <2>4. /\ \A p \in Positions : history[p] = "reset" => p \in executed
        /\ pc \notin {"truncate", "del"}
        /\ pc = "reply" => last_id \in Positions /\ history[last_id] # "reset"
    BY <2>1 DEF RInv, IInv, ResetsAlone
  <2>5. ResetsAlone'
    BY <2>1, <2>2, <2>3, <2>4 DEF ResetsAlone
  <2> QED
    BY <2>1, <2>5, AppendRecovers DEF Kinds
<1>2. CASE ResetDeletesRows
  <2>1. /\ Open /\ Quiet /\ snapshots' = <<>>
        /\ UNCHANGED <<history, stream, up, applied, last_id, batch, pc,
                       events_since_snapshot, published, replied, executed, crashes>>
    BY <1>2 DEF ResetDeletesRows, Dependable
  <2>2. /\ \A p \in Positions : history[p] = "reset" => p \in executed
        /\ pc = "next"
    BY <2>1 DEF Open, Quiet, Dependable
  <2>3. ResetsAlone'
    BY <2>1, <2>2 DEF ResetsAlone, Positions
  <2>4. PICK e \in 0..Len(history) : ErasedUpTo(e)
    BY DEF RInv
  <2>5. ErasedUpTo(e)'
    BY <2>1, <2>4 DEF ErasedUpTo
  <2>6. Faithful(history, executed, Snapshot)'
    BY <2>1 DEF RInv, Snapshot
  <2>7. BatchIsNext' /\ Publications'
    BY <2>1 DEF RInv, BatchIsNext, Publications, Inert
  <2> QED
    BY <2>1, <2>3, <2>4, <2>5, <2>6, <2>7 DEF RInv
<1> QED
  BY <1>1, <1>2

LEMMA LoadRecovers ==
  ASSUME RInv, IInv', Load
  PROVE  RInv'
<1>1. /\ up = "down" /\ up' = "loaded" /\ applied = <<>> /\ last_id = 0 /\ batch = {} /\ pc = "next"
      /\ UNCHANGED <<history, stream, snapshots, gateway, batch, pc, published, executed>>
  BY DEF Load, RInv, IInv
<1>2. \/ /\ snapshots # <<>>
         /\ applied' = snapshots[Len(snapshots)].applied
         /\ last_id' = snapshots[Len(snapshots)].last_id
      \/ UNCHANGED <<applied, last_id>>
  BY DEF Load, Latest
<1>3. snapshots # <<>> => Len(snapshots) \in 1..Len(snapshots)
  BY LenProperties, EmptySeq DEF RInv, IInv, TypeOK
<1>4. Faithful(history, executed, Snapshot)'
  BY <1>1, <1>2, <1>3 DEF RInv, Snapshot, Faithful
<1>5. PICK e \in 0..Len(history) : ErasedUpTo(e)
  BY DEF RInv
<1>6. ErasedUpTo(e)'
  BY <1>1, <1>2, <1>3, <1>5 DEF ErasedUpTo
<1>7. BatchIsNext' /\ Publications'
  BY <1>1 DEF RInv, BatchIsNext, Publications, Inert
<1>8. ResetsAlone'
  BY <1>1 DEF RInv, ResetsAlone, Positions
<1> QED
  BY <1>1, <1>4, <1>5, <1>6, <1>7, <1>8 DEF RInv

LEMMA ReadRecovers ==
  ASSUME Dependable, RInv, IInv', Xrange \/ GoLive \/ Xread
  PROVE  RInv'
<1>1. /\ UNCHANGED <<history, stream, snapshots, gateway, applied, last_id, pc,
                     events_since_snapshot, published, replied, executed, crashes>>
      /\ \/ up' = "replaying" /\ batch' = After(last_id)
         \/ up = "replaying" /\ up' = "live" /\ batch = {} /\ batch' = {}
         \/ up = "live" /\ up' = "live" /\ batch' = After(last_id)
  BY DEF Xrange, GoLive, Xread, Dependable
<1>2. PICK e \in 0..Len(history) : ErasedUpTo(e)
  BY DEF RInv
<1>3. \A p \in executed : p <= e \/ p <= last_id \/ p \in After(last_id)
  <2> TAKE p \in executed
  <2>1. p \in Nat /\ p <= Len(history) /\ e \in Nat /\ last_id \in Nat /\ Len(history) \in Nat
    BY <1>2, LenProperties DEF RInv, IInv, TypeOK, Positions
  <2>2. ~(p <= e) => p \in stream
    BY <2>1, <1>2 DEF ErasedUpTo
  <2> QED
    BY <2>1, <2>2 DEF After
<1>4. ErasedUpTo(e)'
  BY <1>1, <1>2, <1>3 DEF ErasedUpTo
<1>5. BatchIsNext'
  BY <1>1 DEF BatchIsNext, After
<1>6. Publications' /\ ResetsAlone'
  BY <1>1 DEF RInv, Publications, Inert, ResetsAlone, Positions
<1>7. Faithful(history, executed, Snapshot)'
  BY <1>1 DEF RInv, Snapshot
<1> QED
  BY <1>1, <1>2, <1>4, <1>5, <1>6, <1>7 DEF RInv

LEMMA EntryRecovers ==
  ASSUME RInv, IInv', NEW p \in batch, ReplayRecord(p) \/ Dispatch(p)
  PROVE  RInv'
<1>1. /\ IsNext(p) /\ batch' = batch \ {p} /\ last_id' = p /\ applied' = StateAfter(p)
      /\ UNCHANGED <<history, stream, snapshots, gateway, up>>
      /\ executed' = IF Inert(p) THEN executed ELSE executed \cup {p}
      /\ pc = "next" /\ pc' \in {"next", "reply", "count"}
  BY DEF ReplayRecord, Dispatch, Inert, RInv, IInv, TypeOK
<1>2. /\ history \in Seq(Kinds) /\ Len(history) \in Nat /\ last_id \in Nat
      /\ executed \subseteq Positions
      /\ batch \subseteq Positions
  BY LenProperties DEF RInv, IInv, TypeOK
<1>3. PICK e \in 0..Len(history) : ErasedUpTo(e)
  BY DEF RInv
<1>4. p \in Positions /\ p \in Nat /\ e < p /\ last_id < p /\ e \in Nat
  BY <1>1, <1>2, <1>3, NextIsAdjacent DEF Positions
<1>5. executed \subseteq executed' /\ (Inert(p) \/ p \in executed')
  BY <1>1
<1>6. Faithful(history, executed, Snapshot)'
  <2>1. Faithful(history, executed', [last_id |-> p, applied |-> StateAfter(p)])
    BY <1>1, <1>5, EntryFaithful
  <2> QED
    BY <2>1, <1>1 DEF Snapshot
<1>7. \A k \in 1..Len(snapshots) : Faithful(history, executed', snapshots[k])
  <2>1. PICK log, done : log = history /\ done = executed'
    OBVIOUS
  <2>2. Len(log) \in Nat /\ Len(history) <= Len(log) /\ executed \subseteq done
        /\ \A q \in Positions : log[q] = history[q]
    BY <2>1, <1>2, <1>5
  <2> QED
    BY <2>1, <2>2, AllFaithful
<1>8. ErasedUpTo(e)'
  <2>1. \A q \in executed' : q \in executed \/ q = p
    BY <1>1
  <2>2. up = "live" => \A q \in executed' : q <= p \/ q <= e
    <3> SUFFICES ASSUME up = "live", NEW q \in executed' PROVE q <= p \/ q <= e
      OBVIOUS
    <3>1. CASE q = p
      BY <3>1, <1>4
    <3>2. CASE q \in executed
      <4>1. q \in Nat /\ (q <= last_id \/ q <= e)
        BY <3>2, <1>2, <1>3 DEF ErasedUpTo, Positions
      <4> QED
        BY <4>1, <1>2, <1>4
    <3> QED
      BY <2>1, <3>1, <3>2
  <2>3. up = "replaying" => \A q \in executed' : q <= p \/ q <= e \/ q \in batch'
    BY <2>1, <1>1, <1>2, <1>3, <1>4 DEF ErasedUpTo, Positions
  <2>4. ExecutedUpTo(history', executed', e)
    BY <1>1, <1>3, <1>5 DEF ErasedUpTo, ExecutedUpTo
  <2> QED
    BY <1>1, <1>3, <1>4, <2>2, <2>3, <2>4 DEF ErasedUpTo
<1>9. BatchIsNext'
  <2>1. \A q \in batch, g \in stream : last_id < g /\ g < q => g \in batch
    BY DEF RInv, BatchIsNext
  <2>2. batch \subseteq stream
    BY DEF RInv, BatchIsNext
  <2>3. stream \subseteq Positions
    BY DEF RInv, IInv, TypeOK
  <2>4. batch \subseteq stream /\ stream \subseteq Nat
    BY <2>2, <2>3, <1>2 DEF Positions
  <2>5. ASSUME NEW q \in batch', NEW g \in stream', last_id' < g, g < q PROVE g \in batch'
    <3>1. q \in batch /\ g \in stream /\ g \in Nat /\ p < g
      BY <2>4, <2>5, <1>1
    <3>2. last_id < g /\ g # p
      BY <3>1, <1>2, <1>4
    <3>3. g \in batch
      BY <3>1, <3>2, <2>1, <2>5
    <3> QED
      BY <3>2, <3>3, <1>1
  <2> QED
    BY <1>1, <2>4, <2>5 DEF BatchIsNext
<1>10. up = "live" => p \notin executed
  <2> SUFFICES ASSUME up = "live", p \in executed PROVE FALSE
    OBVIOUS
  <2>1. p <= last_id \/ p <= e
    BY <1>3 DEF ErasedUpTo
  <2> QED
    BY <2>1, <1>2, <1>4
<1>11. ResetsAlone'
  <2>1. Positions' = Positions /\ gateway' = gateway
    BY <1>1 DEF Positions
  <2>2. \A q \in Positions : history[q] = "reset" /\ q \notin executed =>
          q = Len(history) /\ gateway = "idle"
    BY DEF RInv, ResetsAlone
  <2>3. pc' = "reply" => up = "live"
    BY <1>1 DEF ReplayRecord, Dispatch
  <2>4. pc' = "reply" /\ history[p] = "reset" => p = Len(history) /\ gateway = "idle"
    BY <2>2, <2>3, <1>4, <1>10
  <2> QED
    BY <1>1, <1>5, <2>1, <2>2, <2>4 DEF ResetsAlone
<1>12. Publications'
  <2>1. /\ \A q \in executed : ~Inert(q)
        /\ \A q \in 1..MaxEntries : published[q] > 0 => q \in executed
        /\ \A q \in 1..MaxEntries : published[q] <= 1
        /\ published \in [1..MaxEntries -> 0..2]
    BY DEF RInv, IInv, Publications
  <2>2. \A q \in executed' : ~Inert(q)'
    BY <2>1, <1>1 DEF Inert
  <2>3. CASE published' = published
    BY <2>1, <2>2, <2>3, <1>5 DEF Publications
  <2>4. CASE published' # published
    <3>1. /\ up = "live" /\ history[p] = "command"
          /\ published' = [published EXCEPT ![p] = IF published[p] < 2 THEN published[p] + 1 ELSE 2]
      BY <2>4 DEF ReplayRecord, Dispatch, Publish
    <3>2. p \notin executed /\ p \in executed'
      BY <3>1, <1>1, <1>10 DEF Inert
    <3>3. p \in 1..MaxEntries => published[p] = 0
      BY <2>1, <3>2
    <3>4. \A q \in 1..MaxEntries : published'[q] = IF q = p THEN 1 ELSE published[q]
      BY <2>1, <3>1, <3>3
    <3> QED
      BY <2>1, <2>2, <3>2, <3>4, <1>5 DEF Publications
  <2> QED
    BY <2>3, <2>4
<1> QED
  BY <1>1, <1>3, <1>6, <1>7, <1>8, <1>9, <1>11, <1>12 DEF RInv

LEMMA ReplyRecovers ==
  ASSUME RInv, IInv', Reply
  PROVE  RInv'
<1>1. /\ pc = "reply" /\ pc' = IF history[last_id] = "reset" THEN "truncate" ELSE "count"
      /\ UNCHANGED <<history, stream, snapshots, gateway, up, applied, last_id, batch,
                     published, executed>>
  BY DEF Reply
<1>2. PICK e \in 0..Len(history) : ErasedUpTo(e)
  BY DEF RInv
<1>3. ErasedUpTo(e)'
  BY <1>1, <1>2 DEF ErasedUpTo
<1>4. ResetsAlone'
  BY <1>1 DEF RInv, ResetsAlone, Positions
<1>5. BatchIsNext' /\ Publications'
  BY <1>1 DEF RInv, BatchIsNext, Publications, Inert
<1>6. Faithful(history, executed, Snapshot)'
  BY <1>1 DEF RInv, Snapshot
<1> QED
  BY <1>1, <1>2, <1>3, <1>4, <1>5, <1>6 DEF RInv

LEMMA CountRecovers ==
  ASSUME RInv, IInv', Count
  PROVE  RInv'
<1>1. /\ pc = "count" /\ pc' = "next"
      /\ UNCHANGED <<history, stream, gateway, up, applied, last_id, batch,
                     published, executed>>
      /\ snapshots' \in {snapshots, Append(snapshots, Snapshot), Pruned(Append(snapshots, Snapshot))}
  BY DEF Count, Save
<1>2. snapshots \in Seq(Row) /\ Snapshot \in Row
  BY DEF RInv, IInv, TypeOK, Row, Snapshot
<1>3. \A k \in 1..Len(snapshots') :
        snapshots'[k] = Snapshot \/ \E j \in 1..Len(snapshots) : snapshots'[k] = snapshots[j]
  <2>1. CASE snapshots' = snapshots
    BY <2>1
  <2>2. CASE snapshots' = Append(snapshots, Snapshot)
    BY <2>2, <1>2, SaveFacts
  <2>3. CASE snapshots' = Pruned(Append(snapshots, Snapshot))
    BY <2>3, <1>2, SaveFacts
  <2> QED
    BY <1>1, <2>1, <2>2, <2>3
<1>4. \A k \in 1..Len(snapshots') : Faithful(history', executed', snapshots'[k])
  BY <1>1, <1>3 DEF RInv
<1>5. PICK e \in 0..Len(history) : ErasedUpTo(e)
  BY DEF RInv
<1>6. e <= Snapshot.last_id
  <2>1. last_id \in Positions
    BY <1>1 DEF RInv, IInv
  <2>2. e <= last_id
    BY <2>1, <1>5 DEF ErasedUpTo, Positions
  <2> QED
    BY <2>2 DEF Snapshot
<1>7. \A k \in 1..Len(snapshots') : e <= snapshots'[k].last_id
  BY <1>3, <1>5, <1>6 DEF ErasedUpTo
<1>8. ErasedUpTo(e)'
  BY <1>1, <1>5, <1>7 DEF ErasedUpTo
<1>9. ResetsAlone'
  BY <1>1 DEF RInv, ResetsAlone, Positions
<1>10. BatchIsNext' /\ Publications'
  BY <1>1 DEF RInv, BatchIsNext, Publications, Inert
<1>11. Faithful(history, executed, Snapshot)'
  BY <1>1 DEF RInv, Snapshot
<1> QED
  BY <1>1, <1>4, <1>5, <1>8, <1>9, <1>10, <1>11 DEF RInv

LEMMA TruncateRecovers ==
  ASSUME Dependable, RInv, IInv', Truncate
  PROVE  RInv'
<1>1. /\ pc = "truncate" /\ pc' = "del" /\ snapshots' = <<>>
      /\ UNCHANGED <<history, stream, gateway, up, applied, last_id, batch,
                     published, executed>>
  BY DEF Truncate, Dependable
<1>2. PICK e \in 0..Len(history) : ErasedUpTo(e)
  BY DEF RInv
<1>3. ErasedUpTo(e)'
  BY <1>1, <1>2 DEF ErasedUpTo
<1>4. ResetsAlone'
  BY <1>1 DEF RInv, ResetsAlone, Positions
<1>5. BatchIsNext' /\ Publications'
  BY <1>1 DEF RInv, BatchIsNext, Publications, Inert
<1>6. Faithful(history, executed, Snapshot)'
  BY <1>1 DEF RInv, Snapshot
<1> QED
  BY <1>1, <1>2, <1>3, <1>4, <1>5, <1>6 DEF RInv

\* The engine is back at "0-0" with an empty state.
LEMMA FaithfulAtZero ==
  ASSUME NEW log, NEW done, Len(log) \in Nat
  PROVE  Faithful(log, done, [last_id |-> 0, applied |-> <<>>])
BY LogStateAtZero DEF Faithful, ExecutedUpTo

LEMMA DelRecovers ==
  ASSUME Dependable, RInv, IInv', Del
  PROVE  RInv'
<1>1. /\ pc = "del" /\ pc' = "next" /\ stream' = {} /\ last_id' = 0
      /\ UNCHANGED <<history, snapshots, gateway, up, applied, batch, published, executed>>
  BY DEF Del, Dependable
<1>2. /\ Len(history) \in Nat /\ last_id = Len(history) /\ history[last_id] = "reset"
      /\ snapshots = <<>> /\ applied = <<>> /\ last_id \in Positions
  BY <1>1, LenProperties DEF RInv, IInv, TypeOK, ResetsAlone
<1>3. batch = {}
  <2>1. \A q \in batch : q \in Positions /\ last_id < q
    BY DEF RInv, IInv, TypeOK
  <2> QED
    BY <2>1, <1>2 DEF Positions
<1>4. Faithful(history, executed, Snapshot)'
  BY <1>1, <1>2, FaithfulAtZero DEF Snapshot
<1>5. PICK e \in 0..Len(history) : e = Len(history)
  BY <1>2
<1>6. ExecutedUpTo(history, executed, e)
  BY <1>2, <1>5 DEF RInv, Faithful, Snapshot
<1>7. \A p \in executed : p <= e
  BY <1>2, <1>5 DEF RInv, IInv, TypeOK, Positions
<1>8. {} = (e + 1)..Len(history)
  BY <1>2, <1>5
<1>9. ErasedUpTo(e)'
  BY <1>1, <1>2, <1>5, <1>6, <1>7, <1>8 DEF ErasedUpTo
<1>10. ResetsAlone'
  BY <1>1 DEF RInv, ResetsAlone, Positions
<1>11. BatchIsNext' /\ Publications'
  BY <1>1, <1>3 DEF RInv, BatchIsNext, Publications, Inert
<1> QED
  BY <1>1, <1>2, <1>4, <1>5, <1>9, <1>10, <1>11 DEF RInv

LEMMA StopRecovers ==
  ASSUME RInv, IInv', Crash \/ Shutdown
  PROVE  RInv'
<1>1. /\ up' = "down" /\ applied' = <<>> /\ last_id' = 0 /\ batch' = {} /\ pc' = "next"
      /\ UNCHANGED <<history, stream, snapshots, gateway, published, executed>>
  BY DEF Crash, Shutdown, Stop
<1>2. Len(history) \in Nat
  BY LenProperties DEF RInv, IInv, TypeOK
<1>3. Faithful(history, executed, Snapshot)'
  BY <1>1, <1>2, FaithfulAtZero DEF Snapshot
<1>4. PICK e \in 0..Len(history) : ErasedUpTo(e)
  BY DEF RInv
<1>5. ErasedUpTo(e)'
  BY <1>1, <1>4 DEF ErasedUpTo
<1>6. ResetsAlone'
  BY <1>1 DEF RInv, ResetsAlone, Positions
<1>7. BatchIsNext' /\ Publications'
  BY <1>1 DEF RInv, BatchIsNext, Publications, Inert
<1> QED
  BY <1>1, <1>3, <1>4, <1>5, <1>6, <1>7 DEF RInv

LEMMA StutterRecovers ==
  ASSUME RInv, IInv', UNCHANGED vars
  PROVE  RInv'
BY DEF vars, RInv, ErasedUpTo, ResetsAlone, BatchIsNext, Publications, Inert, Snapshot, Positions

LEMMA NextRecovers ==
  ASSUME Dependable, RInv, [Next]_vars
  PROVE  RInv'
<1>1. IInv'
  BY NextInvariant DEF RInv
<1>2. CASE UNCHANGED vars
  BY <1>1, <1>2, StutterRecovers
<1>3. CASE XreadTimeout
  BY <1>1, <1>3, StutterRecovers DEF XreadTimeout
<1>4. CASE \E p \in batch : ReplayRecord(p) \/ Dispatch(p)
  BY <1>1, <1>4, EntryRecovers
<1> QED
  BY <1>1, <1>2, <1>3, <1>4, SendRecovers, ResetRecovers, LoadRecovers, ReadRecovers,
     ReplyRecovers, CountRecovers, TruncateRecovers, DelRecovers, StopRecovers
     DEF Next

LEMMA InitRecovers == Init => RInv
<1> SUFFICES ASSUME Init PROVE RInv
  OBVIOUS
<1>1. IInv
  BY InitInvariant
<1>2. history = <<>> /\ Len(history) = 0 /\ Len(snapshots) = 0
  BY DEF Init
<1>3. Faithful(history, executed, Snapshot)
  BY <1>2, FaithfulAtZero DEF Init, Snapshot
<1>4. ErasedUpTo(0) /\ 0 \in 0..Len(history)
  BY <1>2 DEF Init, ErasedUpTo, ExecutedUpTo
<1>5. ResetsAlone /\ BatchIsNext /\ Publications
  BY <1>2 DEF Init, ResetsAlone, BatchIsNext, Publications, Positions, Inert
<1> QED
  BY <1>1, <1>2, <1>3, <1>4, <1>5 DEF Init, RInv

LEMMA Recovery == Dependable => (Spec => []RInv)
<1>1. Dependable /\ RInv /\ [Next]_vars => RInv'
  BY NextRecovers
<1> SUFFICES ASSUME Dependable PROVE Spec => []RInv
  OBVIOUS
<1>2. RInv /\ [Next]_vars => RInv'
  BY <1>1
<1> QED
  BY <1>2, InitRecovers, PTL DEF Spec

-----------------------------------------------------------------------------
\* The invariant gives the state and the snapshots in the terms of EngineLoop.
LEMMA RInvStates ==
  ASSUME RInv
  PROVE  StateIsLog /\ SnapshotsFaithful
<1>1. /\ applied \in Seq(Nat) /\ last_id \in Nat /\ snapshots \in Seq(Row)
      /\ LogState(history, applied, last_id)
  BY DEF RInv, IInv, TypeOK, Row, Faithful, Snapshot
<1>2. StateIsLog
  <2>1. InOrder(applied)
    BY <1>1 DEF LogState
  <2> QED
    BY <1>1, <2>1, LogStateView DEF StateIsLog, IsStateAt
<1>3. ASSUME NEW k \in 1..Len(snapshots)
      PROVE  IsStateAt(snapshots[k].applied, snapshots[k].last_id)
  <2>1. PICK row \in Row : row = snapshots[k]
    BY <1>1, ElementOfSeq
  <2>2. PICK state \in Seq(Nat), id \in Nat : state = row.applied /\ id = row.last_id
    BY DEF Row
  <2>3. LogState(history, state, id)
    BY <2>1, <2>2 DEF RInv, Faithful
  <2>4. InOrder(state)
    BY <2>3 DEF LogState
  <2>5. IsStateAt(state, id)
    BY <2>3, <2>4, LogStateView DEF IsStateAt
  <2> QED
    BY <2>1, <2>2, <2>5
<1> QED
  BY <1>2, <1>3 DEF SnapshotsFaithful

\* An answered command is in the state, or before an executed reset.
LEMMA RInvAcked ==
  ASSUME RInv
  PROVE  AckedSurvive
<1> SUFFICES ASSUME up = "live", NEW p \in replied, history[p] # "reset",
                    ~\E q \in executed : q > p /\ history[q] = "reset"
             PROVE  \E i \in 1..Len(applied) : applied[i] = p
  BY DEF AckedSurvive
<1>1. PICK e \in 0..Len(history) : ErasedUpTo(e)
  BY DEF RInv
<1>2. /\ p \in executed /\ p \in Nat /\ p \in Positions /\ p > 0
      /\ last_id \in Nat /\ Len(history) \in Nat /\ e \in Nat
      /\ history \in Seq(Kinds)
  BY <1>1, LenProperties DEF RInv, IInv, TypeOK, Positions
<1>3. /\ LogState(history, applied, last_id)
      /\ ExecutedUpTo(history, executed, last_id)
      /\ ExecutedUpTo(history, executed, e)
      /\ e > 0 => history[e] = "reset"
      /\ p <= last_id \/ p <= e
  BY <1>1, <1>2 DEF RInv, ErasedUpTo, Faithful, Snapshot
<1>4. ~(p <= e)
  <2> SUFFICES ASSUME p <= e PROVE FALSE
    OBVIOUS
  <2>1. e > 0 /\ e \in 1..e /\ history[e] = "reset"
    BY <1>2, <1>3
  <2>2. e \in executed
    BY <2>1, <1>3 DEF ExecutedUpTo
  <2>3. e # p
    BY <2>1
  <2>4. e > p
    BY <2>3, <1>2
  <2> QED
    BY <2>1, <2>2, <2>4
<1>5. p \in 1..last_id
  BY <1>2, <1>3, <1>4
<1>6. history[p] = "command"
  <2>1. history[p] \in Kinds /\ ~Inert(p)
    BY <1>2, ElementOfSeq DEF RInv, Publications, Positions
  <2> QED
    BY <2>1 DEF Kinds, Inert
<1>7. ASSUME NEW r \in (p + 1)..last_id PROVE history[r] # "reset"
  <2>1. r \in 1..last_id /\ r > p
    BY <1>2
  <2>2. history[r] = "reset" => r \in executed
    BY <2>1, <1>3 DEF ExecutedUpTo
  <2> QED
    BY <2>1, <2>2
<1> QED
  BY <1>2, <1>3, <1>5, <1>6, <1>7 DEF LogState

-----------------------------------------------------------------------------
\* At all times, in replay, live and after any number of crashes, the state of
\* the engine is the one its log makes up to its position (engine.rs,
\* run_engine_with_db and replay_events_since).
THEOREM StateAlwaysLog == Dependable => (Spec => []StateIsLog)
<1> SUFFICES ASSUME Dependable PROVE Spec => []StateIsLog
  OBVIOUS
<1>1. RInv => StateIsLog
  BY RInvStates
<1> QED
  BY <1>1, Recovery, PTL

\* So is every saved snapshot, for the position saved with it (snapshot.rs,
\* save_snapshot).
THEOREM SnapshotsAlwaysFaithful == Dependable => (Spec => []SnapshotsFaithful)
<1> SUFFICES ASSUME Dependable PROVE Spec => []SnapshotsFaithful
  OBVIOUS
<1>1. RInv => SnapshotsFaithful
  BY RInvStates
<1> QED
  BY <1>1, Recovery, PTL

\* Whatever crashes come, a live engine has every command it ever answered,
\* unless a later reset was executed (engine.rs, dispatch and recovery).
THEOREM AckedAlwaysSurvive == Dependable => (Spec => []AckedSurvive)
<1> SUFFICES ASSUME Dependable PROVE Spec => []AckedSurvive
  OBVIOUS
<1>1. RInv => AckedSurvive
  BY RInvAcked
<1> QED
  BY <1>1, Recovery, PTL

\* The execution events of a command are sent at most once, crashes and
\* replays included (engine.rs, replay without a publisher).
THEOREM AlwaysPublishedOnce == Dependable => (Spec => []PublishedOnce)
<1> SUFFICES ASSUME Dependable PROVE Spec => []PublishedOnce
  OBVIOUS
<1>1. RInv => PublishedOnce
  <2>1. RInv => Positions \subseteq 1..MaxEntries
    BY LenProperties, EntriesAssumption DEF RInv, IInv, TypeOK, Positions
  <2> QED
    BY <2>1 DEF RInv, Publications, PublishedOnce
<1> QED
  BY <1>1, Recovery, PTL
=============================================================================
