---------------------------- MODULE GatewayProofs ---------------------------
(***************************************************************************)
(* Proofs about the parts of the gateway: requests and replies (Gateway),  *)
(* the token buckets (RateLimiter), the form of an order (OrderForm),      *)
(* users and tokens (Accounts) and order queries (OrderStatus).  The parts *)
(* share no state, so each theorem is about the behaviours of its part.    *)
(***************************************************************************)
EXTENDS Gateway, RateLimiter, OrderForm, Accounts, OrderStatus, FoldProofs

\* Appending to a sequence.
LEMMA Appended ==
  ASSUME NEW S, NEW s \in Seq(S), NEW x \in S
  PROVE  /\ Append(s, x) \in Seq(S)
         /\ Len(s) \in Nat /\ Len(Append(s, x)) = Len(s) + 1
         /\ Append(s, x)[Len(s) + 1] = x
         /\ Len(s) + 1 \in 1..Len(Append(s, x))
         /\ \A i \in 1..Len(s) : Append(s, x)[i] = s[i]
OBVIOUS

-----------------------------------------------------------------------------
\* Requests and replies.

Places == {"new", "inserted", "sent", "waiting", "answered", "failed", "gone"}

GatewayType ==
  /\ pc \in [Requests -> Places]
  /\ served_by \in [Requests -> Gateways]
  /\ queue_id \in [Requests -> QueueIds]
  /\ oneshot \in [Requests -> Requests \cup {None}]
  /\ pending \in [Gateways -> SUBSET Requests]
  /\ log \in Seq(Requests)
  /\ replied \in 0..Len(log)
  /\ silent \in SUBSET Requests
  /\ queues \in [QueueIds -> Seq(Requests)]
  /\ crashes \in 0..MaxCrashes
  /\ incarnation \in [Gateways -> 1..(crashes + 1)]

Executed(r) == \E i \in 1..replied : log[i] = r

InQueue(r, q) == \E i \in 1..Len(queues[q]) : queues[q][i] = r

\* The map of a gateway holds requests it has sent with the queue it listens
\* to now, and a reply that was sent to one of them is still in that queue.
RepliesAhead ==
  /\ \A r \in Requests : pc[r] = "new" =>
       /\ \A i \in 1..Len(log) : log[i] # r
       /\ \A g \in Gateways : r \notin pending[g]
  /\ \A g \in Gateways : \A r \in pending[g] :
       /\ queue_id[r] = QueueOf(g)
       /\ Executed(r) => r \in silent \/ InQueue(r, QueueOf(g))

\* What is in a queue answers a request that was executed.
RepliesExecuted ==
  \A q \in QueueIds : \A i \in 1..Len(queues[q]) : Executed(queues[q][i])

GatewayInv == GatewayType /\ RepliesAhead /\ RepliesExecuted /\ OwnAnswer

LEMMA QueueOfType ==
  ASSUME GatewayType, NEW g \in Gateways
  PROVE  QueueOf(g) \in QueueIds
BY FaultsAssumption DEF GatewayType, QueueOf, QueueIds

LEMMA GatewayTypeInit == GatewayInit => GatewayType
BY FaultsAssumption DEF GatewayInit, GatewayType, QueueIds, Places

\* The engine executes r.
EngineOn(r) ==
  /\ replied + 1 \in 1..Len(log) /\ r = log[replied + 1]
  /\ replied' = replied + 1
  /\ \/ queues' = [queues EXCEPT ![queue_id[r]] = Append(@, r)] /\ UNCHANGED silent
     \/ silent' = silent \cup {r} /\ UNCHANGED queues
  /\ UNCHANGED <<pc, served_by, queue_id, oneshot, pending, log, incarnation,
                 listening, crashes>>

LEMMA EngineTakes ==
  ASSUME GatewayType, Engine
  PROVE  \E r \in Requests : EngineOn(r)
<1>1. replied < Len(log) /\ Len(log) \in Nat /\ replied \in Nat /\ log \in Seq(Requests)
  BY DEF Engine, GatewayType
<1>2. log[replied + 1] \in Requests /\ replied + 1 \in 1..Len(log)
  BY <1>1
<1>3. EngineOn(log[replied + 1])
  BY <1>2 DEF Engine, EngineOn
<1> QED
  BY <1>2, <1>3

LEMMA GatewayTypeStep == GatewayType /\ [GatewayNext]_gatewayVars => GatewayType'
<1> SUFFICES ASSUME GatewayType, [GatewayNext]_gatewayVars PROVE GatewayType'
  OBVIOUS
<1> USE DEF GatewayType
<1>1. CASE UNCHANGED gatewayVars
  BY <1>1 DEF gatewayVars
<1>2. ASSUME NEW r \in Requests, Insert(r) PROVE GatewayType'
  <2>1. QueueOf(served_by[r]) \in QueueIds
    BY QueueOfType
  <2> QED
    BY <1>2, <2>1 DEF Insert, Places
<1>3. ASSUME NEW r \in Requests, XaddSent(r) PROVE GatewayType'
  BY <1>3 DEF XaddSent, Places
<1>4. ASSUME NEW r \in Requests,
             XaddReturns(r) \/ XaddFails(r) \/ Receive(r) \/ Disconnect(r)
      PROVE  GatewayType'
  BY <1>4 DEF XaddReturns, XaddFails, Receive, Disconnect, Places
<1>5. CASE Engine
  <2>1. PICK r \in Requests : EngineOn(r)
    BY <1>5, EngineTakes
  <2>2. queue_id[r] \in QueueIds /\ queues[queue_id[r]] \in Seq(Requests)
    OBVIOUS
  <2>3. Append(queues[queue_id[r]], r) \in Seq(Requests)
    BY <2>2
  <2> DEFINE after == [queues EXCEPT ![queue_id[r]] = Append(@, r)]
  <2>4. after \in [QueueIds -> Seq(Requests)]
    BY <2>2, <2>3, Zenon
  <2>5. queues' = after \/ queues' = queues
    BY <2>1 DEF EngineOn
  <2> HIDE DEF after
  <2>6. queues' \in [QueueIds -> Seq(Requests)]
    BY <2>4, <2>5
  <2>7. silent' \in SUBSET Requests
    BY <2>1 DEF EngineOn
  <2> QED
    BY <2>1, <2>6, <2>7 DEF EngineOn
<1>6. ASSUME NEW g \in Gateways, Listen(g) PROVE GatewayType'
  <2>1. QueueOf(g) \in QueueIds
    BY QueueOfType
  <2>2. /\ Head(queues[QueueOf(g)]) \in Requests
        /\ Tail(queues[QueueOf(g)]) \in Seq(Requests)
    BY <1>6, <2>1 DEF Listen
  <2> QED
    BY <1>6, <2>1, <2>2 DEF Listen
<1>7. ASSUME NEW g \in Gateways, ListenFails(g) PROVE GatewayType'
  BY <1>7 DEF ListenFails
<1>8. ASSUME NEW g \in Gateways, Restart(g) PROVE GatewayType'
  <2>1. crashes' \in 0..MaxCrashes /\ incarnation' \in [Gateways -> 1..(crashes' + 1)]
    BY <1>8, FaultsAssumption DEF Restart
  <2> QED
    BY <1>8, <2>1 DEF Restart, Places
<1> QED
  BY <1>1, <1>2, <1>3, <1>4, <1>5, <1>6, <1>7, <1>8 DEF GatewayNext

LEMMA GatewayInvInit == GatewayInit => GatewayInv
<1> SUFFICES ASSUME GatewayInit PROVE GatewayInv
  OBVIOUS
<1>1. GatewayType
  BY GatewayTypeInit
<1>2. RepliesAhead
  BY DEF GatewayInit, RepliesAhead
<1>3. RepliesExecuted
  BY DEF GatewayInit, RepliesExecuted
<1>4. OwnAnswer
  BY DEF GatewayInit, OwnAnswer
<1> QED
  BY <1>1, <1>2, <1>3, <1>4 DEF GatewayInv

\* A request that was executed stays so.
LEMMA ExecutedStays ==
  ASSUME GatewayType, [GatewayNext]_gatewayVars, NEW r, Executed(r)
  PROVE  Executed(r)'
<1> DEFINE Grows == /\ replied \in Nat /\ replied' \in Nat /\ replied <= replied'
                    /\ \A i \in 1..Len(log) : log'[i] = log[i]
<1>1. Grows
  <2> USE DEF GatewayType
  <2>1. CASE UNCHANGED <<log, replied>>
    BY <2>1
  <2>2. ASSUME NEW s \in Requests, XaddSent(s) PROVE Grows
    BY <2>2 DEF XaddSent
  <2>3. CASE Engine
    BY <2>3 DEF Engine
  <2> QED
    BY <2>1, <2>2, <2>3 DEF GatewayNext, gatewayVars, Insert, XaddReturns, XaddFails,
       Receive, Disconnect, Listen, ListenFails, Restart
<1>2. PICK i \in 1..replied : log[i] = r
  BY DEF Executed
<1>3. i \in 1..Len(log) /\ i \in 1..replied'
  BY <1>1 DEF GatewayType
<1> QED
  BY <1>1, <1>2, <1>3 DEF Executed

\* What is in a queue stays there until the listener of its gateway takes it.
LEMMA InQueueStays ==
  ASSUME GatewayType, NEW r \in Requests, NEW q \in QueueIds, InQueue(r, q),
         NEW s \in Requests,
         queues' = [queues EXCEPT ![queue_id[s]] = Append(@, s)]
  PROVE  InQueue(r, q)'
<1>1. PICK i \in 1..Len(queues[q]) : queues[q][i] = r
  BY DEF InQueue
<1>2. queues[q] \in Seq(Requests) /\ queue_id[s] \in QueueIds
  BY DEF GatewayType
<1>3. queues'[q] = queues[q] \/ queues'[q] = Append(queues[q], s)
  BY <1>2 DEF GatewayType
<1>4. i \in 1..Len(queues'[q]) /\ queues'[q][i] = r
  BY <1>1, <1>2, <1>3
<1> QED
  BY <1>4 DEF InQueue

LEMMA RepliesAheadStep ==
  ASSUME GatewayType, GatewayType', RepliesAhead, [GatewayNext]_gatewayVars
  PROVE  RepliesAhead'
<1> USE DEF GatewayType
<1>1. CASE UNCHANGED gatewayVars
  <2>1. \A x : Executed(x)' <=> Executed(x)
    BY <1>1 DEF gatewayVars, Executed
  <2>2. \A x, g : InQueue(x, QueueOf(g))' <=> InQueue(x, QueueOf(g))
    BY <1>1 DEF gatewayVars, InQueue, QueueOf
  <2>3. \A g : QueueOf(g)' = QueueOf(g)
    BY <1>1 DEF gatewayVars, QueueOf
  <2>4. UNCHANGED <<pc, log, pending, queue_id, silent>>
    BY <1>1 DEF gatewayVars
  <2> QED
    BY <2>1, <2>2, <2>3, <2>4 DEF RepliesAhead
<1>2. ASSUME NEW r \in Requests, Insert(r) PROVE RepliesAhead'
  <2>1. ~Executed(r)
    BY <1>2 DEF Insert, RepliesAhead, Executed
  <2>2. ASSUME NEW x \in Requests PROVE Executed(x)' <=> Executed(x)
    BY <1>2 DEF Insert, Executed
  <2>3. ASSUME NEW x \in Requests, NEW q PROVE InQueue(x, q)' <=> InQueue(x, q)
    BY <1>2 DEF Insert, InQueue
  <2>4. ASSUME NEW g \in Gateways PROVE QueueOf(g)' = QueueOf(g)
    BY <1>2 DEF Insert, QueueOf
  <2>5. ASSUME NEW x \in Requests, pc'[x] = "new"
        PROVE  /\ \A i \in 1..Len(log') : log'[i] # x
               /\ \A g \in Gateways : x \notin pending'[g]
    BY <1>2, <2>5 DEF Insert, RepliesAhead
  <2>6. ASSUME NEW g \in Gateways, NEW x \in pending'[g]
        PROVE  /\ queue_id'[x] = QueueOf(g)'
               /\ Executed(x)' => x \in silent' \/ InQueue(x, QueueOf(g))'
    <3>1. x \in Requests
      OBVIOUS
    <3>2. CASE x = r
      <4>1. g = served_by[r]
        BY <1>2, <2>6, <3>2 DEF Insert, RepliesAhead
      <4> QED
        BY <1>2, <2>1, <2>2, <2>4, <3>2, <4>1 DEF Insert
    <3>3. CASE x # r
      <4>1. x \in pending[g]
        BY <1>2, <2>6, <3>3 DEF Insert
      <4>2. queue_id[x] = QueueOf(g) /\ (Executed(x) => x \in silent \/ InQueue(x, QueueOf(g)))
        BY <4>1 DEF RepliesAhead
      <4>3. queue_id'[x] = queue_id[x] /\ silent' = silent
        BY <1>2, <3>1, <3>3 DEF Insert
      <4>4. InQueue(x, QueueOf(g)') <=> InQueue(x, QueueOf(g))
        BY <2>4
      <4> QED
        BY <2>2, <2>3, <2>4, <3>1, <4>2, <4>3
    <3> QED
      BY <3>2, <3>3
  <2> QED
    BY <2>5, <2>6 DEF RepliesAhead
<1>3. ASSUME NEW s \in Requests, XaddSent(s) PROVE RepliesAhead'
  <2>1. \A i \in 1..replied : log'[i] = log[i]
    BY <1>3 DEF XaddSent
  <2>2. \A x : Executed(x)' <=> Executed(x)
    BY <1>3, <2>1 DEF XaddSent, Executed
  <2>3. \A x, g : InQueue(x, QueueOf(g))' <=> InQueue(x, QueueOf(g))
    BY <1>3 DEF XaddSent, InQueue, QueueOf
  <2>4. \A g : QueueOf(g)' = QueueOf(g)
    BY <1>3 DEF XaddSent, QueueOf
  <2>5. ASSUME NEW x \in Requests, pc'[x] = "new"
        PROVE  /\ \A i \in 1..Len(log') : log'[i] # x
               /\ \A g \in Gateways : x \notin pending'[g]
    <3>1. pc[x] = "new" /\ x # s /\ pending' = pending /\ log' = Append(log, s)
      BY <1>3, <2>5 DEF XaddSent
    <3>2. \A i \in 1..Len(log) : log[i] # x
      BY <3>1 DEF RepliesAhead
    <3>3. ASSUME NEW i \in 1..Len(log') PROVE log'[i] # x
      <4>1. Len(log') = Len(log) + 1 /\ log'[Len(log) + 1] = s /\ Len(log) \in Nat
            /\ \A j \in 1..Len(log) : log'[j] = log[j]
        BY <3>1, Appended
      <4>2. i \in 1..Len(log) \/ i = Len(log) + 1
        BY <4>1
      <4> QED
        BY <3>1, <3>2, <4>1, <4>2
    <3> QED
      BY <3>1, <3>3 DEF RepliesAhead
  <2>6. UNCHANGED <<pending, queue_id, silent>>
    BY <1>3 DEF XaddSent
  <2> QED
    BY <2>2, <2>3, <2>4, <2>5, <2>6 DEF RepliesAhead
<1>4. ASSUME NEW s \in Requests,
             XaddReturns(s) \/ XaddFails(s) \/ Receive(s) \/ Disconnect(s)
      PROVE  RepliesAhead'
  <2>1. UNCHANGED <<queue_id, pending, log, replied, silent, queues, incarnation>>
    BY <1>4 DEF XaddReturns, XaddFails, Receive, Disconnect
  <2>2. \A x \in Requests : pc'[x] = "new" => pc[x] = "new"
    BY <1>4 DEF XaddReturns, XaddFails, Receive, Disconnect
  <2>3. \A x : Executed(x)' <=> Executed(x)
    BY <2>1 DEF Executed
  <2>4. \A x, g : InQueue(x, QueueOf(g))' <=> InQueue(x, QueueOf(g))
    BY <2>1 DEF InQueue, QueueOf
  <2>5. \A g : QueueOf(g)' = QueueOf(g)
    BY <2>1 DEF QueueOf
  <2> QED
    BY <2>1, <2>2, <2>3, <2>4, <2>5 DEF RepliesAhead
<1>5. CASE Engine
  <2>1. PICK r \in Requests : EngineOn(r)
    BY <1>5, EngineTakes
  <2>2. UNCHANGED <<pc, queue_id, pending, log, incarnation>>
    BY <2>1 DEF EngineOn
  <2>3. ASSUME NEW g \in Gateways, NEW x \in pending[g], Executed(x)'
        PROVE  x \in silent' \/ InQueue(x, QueueOf(g))'
    <3>1. x \in Requests /\ queue_id[x] = QueueOf(g) /\ QueueOf(g)' = QueueOf(g)
          /\ QueueOf(g) \in QueueIds
      BY <2>2, QueueOfType DEF RepliesAhead, QueueOf
    <3>2. CASE x = r
      <4>1. CASE queues' = [queues EXCEPT ![queue_id[r]] = Append(@, r)]
        <5>1. queues'[QueueOf(g)] = Append(queues[QueueOf(g)], x)
          BY <3>1, <3>2, <4>1
        <5>2. queues[QueueOf(g)] \in Seq(Requests)
          BY <3>1
        <5> DEFINE n == Len(queues[QueueOf(g)]) + 1
        <5>3. n \in 1..Len(queues'[QueueOf(g)]) /\ queues'[QueueOf(g)][n] = x
          BY <3>1, <5>1, <5>2, Appended
        <5> QED
          BY <3>1, <5>3 DEF InQueue
      <4>2. CASE silent' = silent \cup {r}
        BY <3>2, <4>2
      <4> QED
        BY <2>1, <4>1, <4>2 DEF EngineOn
    <3>3. CASE x # r
      <4>1. Executed(x)
        <5>1. PICK i \in 1..replied' : log'[i] = x
          BY <2>3 DEF Executed
        <5>2. replied' = replied + 1 /\ log[i] = x /\ i # replied + 1
          BY <2>1, <3>3, <5>1 DEF EngineOn
        <5>3. i \in 1..replied
          BY <5>1, <5>2
        <5> QED
          BY <5>2, <5>3 DEF Executed
      <4>2. x \in silent \/ InQueue(x, QueueOf(g))
        BY <4>1 DEF RepliesAhead
      <4>3. CASE x \in silent
        BY <2>1, <4>3 DEF EngineOn
      <4>4. CASE InQueue(x, QueueOf(g))
        <5>1. CASE queues' = [queues EXCEPT ![queue_id[r]] = Append(@, r)]
          BY <3>1, <4>4, <5>1, InQueueStays
        <5>2. CASE UNCHANGED queues
          BY <3>1, <4>4, <5>2 DEF InQueue
        <5> QED
          BY <2>1, <5>1, <5>2 DEF EngineOn
      <4> QED
        BY <4>2, <4>3, <4>4
    <3> QED
      BY <3>2, <3>3
  <2>4. \A g : QueueOf(g)' = QueueOf(g)
    BY <2>2 DEF QueueOf
  <2> QED
    BY <2>2, <2>3, <2>4 DEF RepliesAhead
<1>6. ASSUME NEW g \in Gateways, Listen(g) PROVE RepliesAhead'
  <2> DEFINE id == Head(queues[QueueOf(g)])
  <2>1. /\ queues[QueueOf(g)] # <<>>
        /\ queues' = [queues EXCEPT ![QueueOf(g)] = Tail(@)]
        /\ pending' = [pending EXCEPT ![g] = @ \ {id}]
        /\ UNCHANGED <<pc, queue_id, log, replied, silent, incarnation>>
    BY <1>6 DEF Listen
  <2>2. QueueOf(g) \in QueueIds /\ queues[QueueOf(g)] \in Seq(Requests)
    BY QueueOfType
  <2>3. \A x : Executed(x)' <=> Executed(x)
    BY <2>1 DEF Executed
  <2>4. \A h : QueueOf(h)' = QueueOf(h)
    BY <2>1 DEF QueueOf
  <2>5. ASSUME NEW h \in Gateways, NEW x \in pending'[h]
        PROVE  x \in pending[h] /\ (h = g => x # id)
    BY <2>1, <2>5
  <2>6. ASSUME NEW h \in Gateways, NEW x \in Requests, InQueue(x, QueueOf(h)), h = g => x # id
        PROVE  InQueue(x, QueueOf(h))'
    <3>1. PICK i \in 1..Len(queues[QueueOf(h)]) : queues[QueueOf(h)][i] = x
      BY <2>6 DEF InQueue
    <3>2. CASE h = g
      <4>0. id = queues[QueueOf(g)][1]
        BY <2>1, <2>2
      <4>1. i # 1
        BY <2>6, <3>1, <3>2, <4>0
      <4>2. queues'[QueueOf(g)] = Tail(queues[QueueOf(g)])
        BY <2>1, <2>2
      <4>3. i - 1 \in 1..Len(Tail(queues[QueueOf(g)])) /\ Tail(queues[QueueOf(g)])[i - 1] = x
        BY <2>2, <3>1, <3>2, <4>1
      <4> QED
        BY <2>4, <3>2, <4>2, <4>3 DEF InQueue
    <3>3. CASE h # g
      <4>1. QueueOf(h) # QueueOf(g) /\ QueueOf(h) \in QueueIds
        BY <3>3, QueueOfType DEF QueueOf
      <4>2. queues'[QueueOf(h)] = queues[QueueOf(h)]
        BY <2>1, <4>1
      <4> QED
        BY <2>4, <3>1, <4>2 DEF InQueue
    <3> QED
      BY <3>2, <3>3
  <2>7. ASSUME NEW h \in Gateways, NEW x \in pending'[h]
        PROVE  /\ queue_id'[x] = QueueOf(h)'
               /\ Executed(x)' => x \in silent' \/ InQueue(x, QueueOf(h))'
    <3>1. x \in pending[h] /\ x \in Requests /\ (h = g => x # id)
      BY <2>5
    <3>2. queue_id[x] = QueueOf(h) /\ (Executed(x) => x \in silent \/ InQueue(x, QueueOf(h)))
      BY <3>1 DEF RepliesAhead
    <3> HIDE DEF id
    <3> QED
      BY <2>1, <2>3, <2>4, <2>6, <3>1, <3>2
  <2>8. ASSUME NEW x \in Requests, pc'[x] = "new"
        PROVE  /\ \A i \in 1..Len(log') : log'[i] # x
               /\ \A h \in Gateways : x \notin pending'[h]
    BY <2>1, <2>5, <2>8 DEF RepliesAhead
  <2> QED
    BY <2>7, <2>8 DEF RepliesAhead
<1>7. ASSUME NEW g \in Gateways, ListenFails(g) PROVE RepliesAhead'
  <2>1. UNCHANGED <<pc, queue_id, pending, log, replied, silent, queues, incarnation>>
    BY <1>7 DEF ListenFails
  <2>2. \A x : Executed(x)' <=> Executed(x)
    BY <2>1 DEF Executed
  <2>3. \A x, h : InQueue(x, QueueOf(h))' <=> InQueue(x, QueueOf(h))
    BY <2>1 DEF InQueue, QueueOf
  <2>4. \A h : QueueOf(h)' = QueueOf(h)
    BY <2>1 DEF QueueOf
  <2> QED
    BY <2>1, <2>2, <2>3, <2>4 DEF RepliesAhead
<1>8. ASSUME NEW g \in Gateways, Restart(g) PROVE RepliesAhead'
  <2>1. /\ UNCHANGED <<queue_id, log, replied, silent, queues>>
        /\ pending'[g] = {}
        /\ \A h \in Gateways : h # g => pending'[h] = pending[h] /\ incarnation'[h] = incarnation[h]
        /\ \A x \in Requests : pc'[x] = "new" => pc[x] = "new"
    BY <1>8 DEF Restart
  <2>2. \A x : Executed(x)' <=> Executed(x)
    BY <2>1 DEF Executed
  <2>3. ASSUME NEW h \in Gateways, NEW x \in pending'[h]
        PROVE  /\ queue_id'[x] = QueueOf(h)'
               /\ Executed(x)' => x \in silent' \/ InQueue(x, QueueOf(h))'
    <3>1. h # g /\ x \in pending[h] /\ QueueOf(h)' = QueueOf(h)
      BY <2>1, <2>3 DEF QueueOf
    <3>2. queue_id[x] = QueueOf(h) /\ (Executed(x) => x \in silent \/ InQueue(x, QueueOf(h)))
      BY <3>1 DEF RepliesAhead
    <3>3. InQueue(x, QueueOf(h))' <=> InQueue(x, QueueOf(h))
      BY <2>1, <3>1 DEF InQueue
    <3> QED
      BY <2>1, <2>2, <3>1, <3>2, <3>3
  <2>4. ASSUME NEW x \in Requests, pc'[x] = "new"
        PROVE  /\ \A i \in 1..Len(log') : log'[i] # x
               /\ \A h \in Gateways : x \notin pending'[h]
    BY <2>1, <2>4 DEF RepliesAhead
  <2> QED
    BY <2>3, <2>4 DEF RepliesAhead
<1> QED
  BY <1>1, <1>2, <1>3, <1>4, <1>5, <1>6, <1>7, <1>8 DEF GatewayNext

LEMMA RepliesExecutedStep ==
  ASSUME GatewayType, RepliesExecuted, [GatewayNext]_gatewayVars
  PROVE  RepliesExecuted'
<1> USE DEF GatewayType
<1>1. \A x : Executed(x) => Executed(x)'
  BY ExecutedStays
<1>2. CASE UNCHANGED queues
  <2>1. ASSUME NEW q \in QueueIds, NEW i \in 1..Len(queues[q]) PROVE Executed(queues[q][i])'
    BY <1>1, <1>2 DEF RepliesExecuted
  <2> QED
    BY <1>2, <2>1 DEF RepliesExecuted
<1>3. CASE Engine
  <2>1. PICK r \in Requests : EngineOn(r)
    BY <1>3, EngineTakes
  <2>2. Executed(r)'
    <3>1. replied + 1 \in 1..replied' /\ log'[replied + 1] = r
      BY <2>1 DEF EngineOn
    <3> QED
      BY <3>1 DEF Executed
  <2>3. CASE queues' = [queues EXCEPT ![queue_id[r]] = Append(@, r)]
    <3>1. ASSUME NEW q \in QueueIds, NEW i \in 1..Len(queues'[q]),
               NEW x, x = queues'[q][i]
        PROVE  Executed(x)'
      <4>1. queues[q] \in Seq(Requests) /\ queue_id[r] \in QueueIds
        OBVIOUS
      <4>2. CASE q = queue_id[r]
        <5>1. queues'[q] = Append(queues[q], r)
          BY <2>3, <4>1, <4>2
        <5>2. queues'[q][i] = r \/ (i \in 1..Len(queues[q]) /\ queues'[q][i] = queues[q][i])
          BY <4>1, <5>1, Appended
        <5> QED
          BY <1>1, <2>2, <3>1, <5>2 DEF RepliesExecuted
      <4>3. CASE q # queue_id[r]
        <5>1. queues'[q] = queues[q]
          BY <2>3, <4>1, <4>3
        <5> QED
          BY <1>1, <3>1, <5>1 DEF RepliesExecuted
      <4> QED
        BY <4>2, <4>3
    <3>2. ASSUME NEW q \in QueueIds, NEW i \in 1..Len(queues'[q])
          PROVE  Executed(queues[q][i])'
      BY <3>1 DEF Executed
    <3> QED
      BY <3>2 DEF RepliesExecuted
  <2> QED
    BY <1>2, <2>1, <2>3 DEF EngineOn
<1>4. ASSUME NEW g \in Gateways, Listen(g) PROVE RepliesExecuted'
  <2>1. queues[QueueOf(g)] # <<>> /\ queues' = [queues EXCEPT ![QueueOf(g)] = Tail(@)]
    BY <1>4 DEF Listen
  <2>2. ASSUME NEW q \in QueueIds, NEW i \in 1..Len(queues'[q]),
               NEW x, x = queues'[q][i]
        PROVE  Executed(x)'
    <3>1. queues[q] \in Seq(Requests)
      OBVIOUS
    <3>2. CASE q = QueueOf(g)
      <4>1. queues'[q] = Tail(queues[q])
        BY <2>1, <3>2
      <4>2. i + 1 \in 1..Len(queues[q]) /\ queues'[q][i] = queues[q][i + 1]
        BY <2>1, <3>1, <3>2, <4>1
      <4> QED
        BY <1>1, <2>2, <4>2 DEF RepliesExecuted
    <3>3. CASE q # QueueOf(g)
      <4>1. queues'[q] = queues[q]
        BY <2>1, <3>3
      <4> QED
        BY <1>1, <2>2, <4>1 DEF RepliesExecuted
    <3> QED
      BY <3>2, <3>3
  <2>3. ASSUME NEW q \in QueueIds, NEW i \in 1..Len(queues'[q])
        PROVE  Executed(queues[q][i])'
    BY <2>2 DEF Executed
  <2> QED
    BY <2>3 DEF RepliesExecuted
<1> QED
  BY <1>2, <1>3, <1>4 DEF GatewayNext, gatewayVars, Insert, XaddSent, XaddReturns, XaddFails,
     Receive, Disconnect, ListenFails, Restart

LEMMA OwnAnswerStep ==
  ASSUME GatewayType, RepliesExecuted, OwnAnswer, [GatewayNext]_gatewayVars
  PROVE  OwnAnswer'
<1> USE DEF GatewayType
<1>1. \A x : Executed(x) => Executed(x)'
  BY ExecutedStays
<1>2. SUFFICES ASSUME NEW r \in Requests, oneshot'[r] # None
               PROVE  oneshot'[r] = r /\ Executed(r)'
  BY DEF OwnAnswer, Executed
<1>3. CASE oneshot'[r] = oneshot[r]
  <2>1. oneshot[r] = r /\ Executed(r)
    BY <1>2, <1>3 DEF OwnAnswer, Executed
  <2> QED
    BY <1>1, <1>3, <2>1
<1>4. ASSUME NEW g \in Gateways, Listen(g), oneshot'[r] # oneshot[r]
      PROVE  oneshot'[r] = r /\ Executed(r)'
  <2>1. QueueOf(g) \in QueueIds /\ queues[QueueOf(g)] \in Seq(Requests)
        /\ queues[QueueOf(g)] # <<>>
    BY <1>4, QueueOfType DEF Listen
  <2>2. Head(queues[QueueOf(g)]) = queues[QueueOf(g)][1] /\ 1 \in 1..Len(queues[QueueOf(g)])
    BY <2>1
  <2>3. r = Head(queues[QueueOf(g)]) /\ oneshot'[r] = r
    BY <1>4 DEF Listen
  <2>4. Executed(r)
    BY <2>1, <2>2, <2>3 DEF RepliesExecuted
  <2> QED
    BY <1>1, <2>3, <2>4
<1> QED
  BY <1>3, <1>4 DEF GatewayNext, gatewayVars, Insert, XaddSent, XaddReturns, XaddFails,
     Receive, Disconnect, Engine, ListenFails, Restart

LEMMA GatewayInvStep == GatewayInv /\ [GatewayNext]_gatewayVars => GatewayInv'
BY GatewayTypeStep, RepliesAheadStep, RepliesExecutedStep, OwnAnswerStep DEF GatewayInv

LEMMA GatewayInvHolds == GatewayInit /\ [][GatewayNext]_gatewayVars => []GatewayInv
BY GatewayInvInit, GatewayInvStep, PTL

\* A client is only ever given the answer to its own, executed request, for any
\* number of gateways, requests, restarts and faults (send_and_wait and
\* start_response_listener): what a queue holds is replies to executed requests,
\* and a reply is only handed to the entry of its own identifier.
THEOREM ClientsGetTheirOwnAnswer ==
  GatewayInit /\ [][GatewayNext]_gatewayVars => []OwnAnswer
<1>1. GatewayInv => OwnAnswer
  BY DEF GatewayInv
<1> QED
  BY <1>1, GatewayInvHolds, PTL

\* When no reply is under way the maps hold only requests that were never
\* executed or were executed in silence: an entry of the map names the queue
\* its gateway listens to, so a reply to it is either there or was taken and
\* took the entry along.
THEOREM MapsHoldOnlyUnanswered ==
  GatewayInit /\ [][GatewayNext]_gatewayVars => []NothingElseLeaks
<1>1. GatewayInv => NothingElseLeaks
  <2> SUFFICES ASSUME GatewayInv, replied = Len(log), \A q \in QueueIds : queues[q] = <<>>,
                      NEW g \in Gateways, NEW r \in pending[g], r \in ToSet(log)
               PROVE  r \in silent
    BY DEF NothingElseLeaks
  <2>1. log \in Seq(Requests) /\ QueueOf(g) \in QueueIds
    BY QueueOfType DEF GatewayInv, GatewayType
  <2>2. Executed(r)
    BY <2>1 DEF ToSet, Executed
  <2>3. ~InQueue(r, QueueOf(g))
    BY <2>1 DEF InQueue
  <2> QED
    BY <2>2, <2>3 DEF GatewayInv, RepliesAhead
<1> QED
  BY <1>1, GatewayInvHolds, PTL

-----------------------------------------------------------------------------
\* The token buckets.

LimiterType ==
  /\ now \in 0..MaxTime
  /\ tokens \in [Workers -> [Limiters -> [Keys -> Nat]]]
  /\ last_update \in [Workers -> [Limiters -> [Keys -> 0..MaxTime]]]
  /\ admitted \in [Workers -> [Limiters -> [Keys -> Seq(Nat)]]]
  /\ promised \in [Workers -> [Limiters -> [Keys -> Nat]]]

\* Tokens and time add up: what a bucket holds, and what was let in since its
\* i-th admission, is within the burst and what was refilled since.
Accounted(l, full, contents, updated, seq) ==
  /\ contents <= full
  /\ WithinLimit(l, seq)
  /\ \A i \in DOMAIN seq :
       contents + (Len(seq) - i + 1) * Unit[l] <= full + updated - seq[i]

\* A bucket that Retry-After was computed from has a token by then.
Kept(l, contents, updated, back) ==
  back # Never => contents + back - updated >= Unit[l]

BucketInv(w, l, k) ==
  /\ last_update[w][l][k] <= now
  /\ Accounted(l, Full(l), tokens[w][l][k], last_update[w][l][k], admitted[w][l][k])
  /\ Kept(l, tokens[w][l][k], last_update[w][l][k], promised[w][l][k])

LimiterInv ==
  LimiterType /\ \A w \in Workers, l \in Limiters, k \in Keys : BucketInv(w, l, k)

LEMMA UnitType ==
  ASSUME NEW l \in Limiters
  PROVE  /\ Unit[l] \in Nat /\ Unit[l] > 0
         /\ Full(l) \in Nat /\ Unit[l] <= Full(l)
<1>1. Unit[l] \in Nat /\ Unit[l] > 0 /\ Capacity[l] \in Nat /\ Capacity[l] >= 1
  BY LimitersAssumption
<1>2. \A u, c \in Nat : c >= 1 => c * u \in Nat /\ u <= c * u
  OBVIOUS
<1> QED
  BY <1>1, <1>2 DEF Full

\* The seconds a client is told to wait are enough for the next token.
LEMMA WaitIsLongEnough ==
  ASSUME NEW l \in Limiters, NEW contents \in Nat, contents < Unit[l]
  PROVE  /\ RetryAfter(l, contents) * Second \in Nat
         /\ contents + RetryAfter(l, contents) * Second >= Unit[l]
<1> DEFINE x == Unit[l] - contents
           q == (x + Second - 1) \div Second
           m == (x + Second - 1) % Second
<1>1. x \in Nat /\ Second \in Nat /\ Second > 0 /\ Unit[l] \in Nat
  BY UnitType, LimitersAssumption
<1>2. q \in Int /\ m \in 0..(Second - 1) /\ x + Second - 1 = Second * q + m
  BY <1>1
<1>3. q * Second >= x
  BY <1>1, <1>2
<1>4. RetryAfter(l, contents) = IF q > 1 THEN q ELSE 1
  BY DEF RetryAfter
<1> HIDE DEF q, m
<1>5. CASE q > 1
  <2>1. q * Second \in Nat
    BY <1>1, <1>2, <1>3
  <2> QED
    BY <1>1, <1>3, <1>4, <1>5, <2>1
<1>6. CASE ~(q > 1)
  <2>1. q * Second <= Second
    BY <1>1, <1>2, <1>6
  <2> QED
    BY <1>1, <1>2, <1>3, <1>4, <1>6, <2>1
<1> QED
  BY <1>5, <1>6

LEMMA LimiterInvInit == LimiterInit => LimiterInv
<1> SUFFICES ASSUME LimiterInit PROVE LimiterInv
  OBVIOUS
<1>1. LimiterType
  BY UnitType, LimitersAssumption DEF LimiterInit, LimiterType, PerBucket, Never
<1>2. ASSUME NEW w \in Workers, NEW l \in Limiters, NEW k \in Keys PROVE BucketInv(w, l, k)
  <2>1. /\ now = 0 /\ last_update[w][l][k] = 0 /\ tokens[w][l][k] = Full(l)
        /\ admitted[w][l][k] = <<>> /\ promised[w][l][k] = Never
    BY <1>2 DEF LimiterInit, PerBucket
  <2>2. Full(l) \in Nat
    BY UnitType
  <2> QED
    BY <2>1, <2>2 DEF BucketInv, Accounted, WithinLimit, Kept
<1> QED
  BY <1>1, <1>2 DEF LimiterInv

\* A check of a bucket as its own arithmetic: refilled at t, and a token taken.
LEMMA AccountedOnRefill ==
  ASSUME NEW l \in Limiters, NEW c \in Nat, NEW u \in Nat, NEW t \in Nat, u <= t,
         NEW seq \in Seq(Nat), Accounted(l, Full(l), c, u, seq),
         NEW d \in Nat, d <= c + t - u, d <= Full(l)
  PROVE  Accounted(l, Full(l), d, t, seq)
<1> DEFINE F == Full(l)
           W(i) == (Len(seq) - i + 1) * Unit[l]
<1>1. F \in Nat
  BY UnitType
<1>2. ASSUME NEW i \in DOMAIN seq PROVE d + W(i) <= F + t - seq[i]
  <2>1. W(i) \in Int /\ seq[i] \in Nat
    BY UnitType
  <2>2. c + W(i) <= F + u - seq[i]
    BY DEF Accounted
  <2> HIDE DEF W, F
  <2> QED
    BY <1>1, <2>1, <2>2
<1> QED
  BY <1>2 DEF Accounted

LEMMA AccountedOnAdmission ==
  ASSUME NEW l \in Limiters, NEW d \in Nat, NEW t \in Nat, d >= Unit[l],
         NEW seq \in Seq(Nat), Accounted(l, Full(l), d, t, seq)
  PROVE  Accounted(l, Full(l), d - Unit[l], t, Append(seq, t))
<1> DEFINE F == Full(l)
           U == Unit[l]
           n == Len(seq)
           s == Append(seq, t)
<1>1. F \in Nat /\ U \in Nat /\ n \in Nat
  BY UnitType
<1>2. /\ s \in Seq(Nat) /\ Len(s) = n + 1 /\ s[n + 1] = t
      /\ \A i \in 1..n : s[i] = seq[i] /\ seq[i] \in Nat
  BY Appended
<1>3. DOMAIN s = 1..(n + 1) /\ DOMAIN seq = 1..n
  BY <1>2
<1>4. \A i \in 1..n : d + (n - i + 1) * U <= F + t - seq[i]
  BY <1>3 DEF Accounted
<1>5. \A i, j \in 1..n : i <= j => (j - i + 1) * U <= F + seq[j] - seq[i]
  BY <1>3 DEF Accounted, WithinLimit
<1>6. d <= F
  BY DEF Accounted
<1>7. \A i \in 1..n : (n + 1 - i + 1) * U = (n - i + 1) * U + U /\ (n - i + 1) * U \in Int
  BY <1>1
<1> HIDE DEF F, U, n, s
<1>8. ASSUME NEW i \in 1..(n + 1)
      PROVE  (d - U) + (n + 1 - i + 1) * U <= F + t - s[i]
  <2>1. CASE i \in 1..n
    <3>1. s[i] = seq[i] /\ seq[i] \in Nat
      BY <1>2, <2>1
    <3> QED
      BY <1>1, <1>4, <1>7, <2>1, <3>1
  <2>2. CASE i = n + 1
    <3>1. (n + 1 - i + 1) * U = U
      BY <1>1, <2>2
    <3> QED
      BY <1>1, <1>2, <1>6, <2>2, <3>1
  <2> QED
    BY <1>1, <2>1, <2>2
<1>9. ASSUME NEW i \in 1..(n + 1), NEW j \in 1..(n + 1), i <= j
      PROVE  (j - i + 1) * U <= F + s[j] - s[i]
  <2>1. CASE j \in 1..n
    <3>1. i \in 1..n
      BY <1>1, <1>9, <2>1
    <3> QED
      BY <1>2, <1>5, <1>9, <2>1, <3>1
  <2>2. CASE j = n + 1
    <3>1. s[j] = t /\ d - U >= 0 /\ s[i] \in Nat /\ (n + 1 - i + 1) * U \in Int
      <4>1. d - U >= 0
        BY <1>1 DEF U
      <4>2. s[i] \in Nat
        BY <1>1, <1>2
      <4>3. (n + 1 - i + 1) * U \in Int
        BY <1>1
      <4> QED
        BY <1>2, <2>2, <4>1, <4>2, <4>3
    <3>2. (d - U) + (n + 1 - i + 1) * U <= F + t - s[i]
      BY <1>8
    <3> DEFINE P == (n + 1 - i + 1) * U
    <3>3. (j - i + 1) * U = P
      <4>1. j - i + 1 = n + 1 - i + 1
        BY <1>1, <2>2
      <4> QED
        BY <4>1, Zenon
    <3> HIDE DEF P
    <3>4. P <= F + t - s[i]
      <4> P \in Int /\ (d - U) + P <= F + t - s[i]
        BY <3>1, <3>2 DEF P
      <4> QED
        BY <1>1, <3>1
    <3> QED
      BY <3>1, <3>3, <3>4
  <2> QED
    BY <1>1, <2>1, <2>2
<1>10. d - U <= F
  BY <1>1, <1>6
<1>11. WithinLimit(l, s)
  BY <1>3, <1>9 DEF WithinLimit, F, U
<1>12. ASSUME NEW i \in DOMAIN s
       PROVE  (d - Unit[l]) + (Len(s) - i + 1) * Unit[l] <= Full(l) + t - s[i]
  <2>1. Len(s) - i + 1 = n + 1 - i + 1 /\ i \in 1..(n + 1)
    BY <1>1, <1>2, <1>3
  <2>2. (Len(s) - i + 1) * Unit[l] = (n + 1 - i + 1) * U
    BY <2>1, Zenon DEF U
  <2> QED
    BY <1>8, <2>1, <2>2 DEF F, U
<1>13. Accounted(l, Full(l), d - Unit[l], t, s)
  BY <1>10, <1>11, <1>12 DEF Accounted, F, U
<1> QED
  BY <1>13 DEF s

\* g is f but for the bucket of w, l and k, where it is v.
SetAt(g, f, S, w, l, k, v) ==
  /\ g \in [Workers -> [Limiters -> [Keys -> S]]]
  /\ g[w][l][k] = v
  /\ \A x \in Workers, y \in Limiters, z \in Keys :
       <<x, y, z>> # <<w, l, k>> => g[x][y][z] = f[x][y][z]

LEMMA SetAtExcept ==
  ASSUME NEW S, NEW f \in [Workers -> [Limiters -> [Keys -> S]]],
         NEW w \in Workers, NEW l \in Limiters, NEW k \in Keys, NEW v \in S
  PROVE  SetAt([f EXCEPT ![w][l][k] = v], f, S, w, l, k, v)
BY Zenon DEF SetAt

LEMMA SetAtSame ==
  ASSUME NEW S, NEW f \in [Workers -> [Limiters -> [Keys -> S]]],
         NEW w \in Workers, NEW l \in Limiters, NEW k \in Keys
  PROVE  SetAt(f, f, S, w, l, k, f[w][l][k])
BY DEF SetAt

LEMMA CheckStep ==
  ASSUME LimiterInv, NEW w \in Workers, NEW l \in Limiters, NEW k \in Keys,
         Check(w, l, k), UNCHANGED now
  PROVE  LimiterInv'
<1> DEFINE t == tokens[w][l][k]
           u == last_update[w][l][k]
           seq == admitted[w][l][k]
           p == promised[w][l][k]
           c == Refilled(w, l, k)
           back == now + RetryAfter(l, c) * Second
<1>1. /\ t \in Nat /\ u \in Nat /\ seq \in Seq(Nat) /\ p \in Nat /\ now \in Nat /\ u <= now
      /\ Unit[l] \in Nat /\ Full(l) \in Nat /\ Unit[l] <= Full(l) /\ now \in 0..MaxTime
  BY UnitType DEF LimiterInv, LimiterType, BucketInv
<1>2. /\ tokens \in [Workers -> [Limiters -> [Keys -> Nat]]]
      /\ last_update \in [Workers -> [Limiters -> [Keys -> 0..MaxTime]]]
      /\ admitted \in [Workers -> [Limiters -> [Keys -> Seq(Nat)]]]
      /\ promised \in [Workers -> [Limiters -> [Keys -> Nat]]]
  BY DEF LimiterInv, LimiterType
<1>3. Accounted(l, Full(l), t, u, seq) /\ Kept(l, t, u, p)
  BY DEF LimiterInv, BucketInv
<1>4. /\ c \in Nat /\ c <= t + now - u /\ c <= Full(l)
      /\ c < Unit[l] => c = t + now - u
  <2>1. c = IF t + now - u < Full(l) THEN t + now - u ELSE Full(l)
    BY DEF Refilled
  <2> HIDE DEF t, u, c
  <2> QED
    BY <1>1, <2>1
<1>5. /\ last_update' = [last_update EXCEPT ![w][l][k] = now]
      /\ \/ /\ c >= Unit[l]
            /\ tokens' = [tokens EXCEPT ![w][l][k] = c - Unit[l]]
            /\ admitted' = [admitted EXCEPT ![w][l][k] = Append(seq, now)]
            /\ promised' = [promised EXCEPT ![w][l][k] = Never]
         \/ /\ ~(c >= Unit[l])
            /\ tokens' = [tokens EXCEPT ![w][l][k] = c]
            /\ promised' = [promised EXCEPT ![w][l][k] = IF back < p THEN back ELSE p]
            /\ admitted' = admitted
  BY DEF Check
<1> HIDE DEF t, u, seq, p, c, back
<1>6. Accounted(l, Full(l), c, now, seq)
  BY <1>1, <1>3, <1>4, AccountedOnRefill
<1>7. \E tk \in Nat, ad \in Seq(Nat), pr \in Nat :
        /\ SetAt(tokens', tokens, Nat, w, l, k, tk)
        /\ SetAt(admitted', admitted, Seq(Nat), w, l, k, ad)
        /\ SetAt(promised', promised, Nat, w, l, k, pr)
        /\ Accounted(l, Full(l), tk, now, ad)
        /\ Kept(l, tk, now, pr)
  <2>1. CASE c >= Unit[l]
    <3>1. c - Unit[l] \in Nat /\ Append(seq, now) \in Seq(Nat) /\ Never \in Nat
      BY <1>1, <1>4, <2>1, LimitersAssumption DEF Never
    <3>2. /\ SetAt(tokens', tokens, Nat, w, l, k, c - Unit[l])
          /\ SetAt(admitted', admitted, Seq(Nat), w, l, k, Append(seq, now))
          /\ SetAt(promised', promised, Nat, w, l, k, Never)
      <4>1. /\ tokens' = [tokens EXCEPT ![w][l][k] = c - Unit[l]]
            /\ admitted' = [admitted EXCEPT ![w][l][k] = Append(seq, now)]
            /\ promised' = [promised EXCEPT ![w][l][k] = Never]
        BY <1>5, <2>1, Zenon
      <4>2. SetAt([tokens EXCEPT ![w][l][k] = c - Unit[l]], tokens, Nat, w, l, k, c - Unit[l])
        BY <1>2, <3>1, SetAtExcept, Zenon
      <4>3. SetAt([admitted EXCEPT ![w][l][k] = Append(seq, now)], admitted, Seq(Nat),
                  w, l, k, Append(seq, now))
        BY <1>2, <3>1, SetAtExcept, Zenon
      <4>4. SetAt([promised EXCEPT ![w][l][k] = Never], promised, Nat, w, l, k, Never)
        BY <1>2, <3>1, SetAtExcept, Zenon
      <4> QED
        BY <4>1, <4>2, <4>3, <4>4
    <3>3. Accounted(l, Full(l), c - Unit[l], now, Append(seq, now))
      BY <1>1, <1>4, <1>6, <2>1, AccountedOnAdmission
    <3>4. Kept(l, c - Unit[l], now, Never)
      BY DEF Kept
    <3> QED
      BY <3>1, <3>2, <3>3, <3>4
  <2>2. CASE ~(c >= Unit[l])
    <3> DEFINE pr == IF back < p THEN back ELSE p
    <3>1. c < Unit[l] /\ c = t + now - u
      BY <1>1, <1>4, <2>2
    <3>2. /\ RetryAfter(l, c) * Second \in Nat
          /\ c + RetryAfter(l, c) * Second >= Unit[l]
      BY <1>4, <3>1, WaitIsLongEnough
    <3>3. back \in Nat /\ c + back - now >= Unit[l]
      <4> DEFINE r == RetryAfter(l, c) * Second
      <4>1. back = now + r /\ r \in Nat /\ c + r >= Unit[l]
        BY <3>2 DEF back
      <4> HIDE DEF r
      <4> QED
        BY <1>1, <1>4, <4>1
    <3>4. pr \in Nat
      BY <1>1, <3>3
    <3>5. Kept(l, c, now, pr)
      <4>1. Kept(l, c, now, back)
        BY <3>3 DEF Kept
      <4>2. Kept(l, c, now, p)
        BY <1>1, <1>3, <3>1 DEF Kept
      <4> QED
        BY <4>1, <4>2
    <3> HIDE DEF pr
    <3>6. promised' = [promised EXCEPT ![w][l][k] = pr]
      BY <1>5, <2>2 DEF pr
    <3>7. /\ SetAt(tokens', tokens, Nat, w, l, k, c)
          /\ SetAt(promised', promised, Nat, w, l, k, pr)
      <4>1. tokens' = [tokens EXCEPT ![w][l][k] = c]
        BY <1>5, <2>2, Zenon
      <4>2. SetAt([tokens EXCEPT ![w][l][k] = c], tokens, Nat, w, l, k, c)
        BY <1>2, <1>4, SetAtExcept, Zenon
      <4>3. SetAt([promised EXCEPT ![w][l][k] = pr], promised, Nat, w, l, k, pr)
        BY <1>2, <3>4, SetAtExcept, Zenon
      <4> QED
        BY <3>6, <4>1, <4>2, <4>3
    <3>8. SetAt(admitted', admitted, Seq(Nat), w, l, k, seq)
      <4>1. admitted' = admitted
        BY <1>5, <2>2, Zenon
      <4>2. SetAt(admitted, admitted, Seq(Nat), w, l, k, admitted[w][l][k])
        BY <1>2, SetAtSame, Zenon
      <4> QED
        BY <4>1, <4>2 DEF seq
    <3> QED
      BY <1>1, <1>4, <1>6, <3>4, <3>5, <3>7, <3>8
  <2> QED
    BY <2>1, <2>2
<1>8. SetAt(last_update', last_update, 0..MaxTime, w, l, k, now)
  BY <1>1, <1>2, <1>5, SetAtExcept
<1>9. LimiterType'
  BY <1>1, <1>7, <1>8 DEF LimiterType, SetAt
<1>10. ASSUME NEW x \in Workers, NEW y \in Limiters, NEW z \in Keys PROVE BucketInv(x, y, z)'
  <2>1. CASE <<x, y, z>> = <<w, l, k>>
    BY <1>1, <1>7, <1>8, <2>1 DEF BucketInv, SetAt, Accounted, Kept
  <2>2. CASE <<x, y, z>> # <<w, l, k>>
    <3>1. /\ tokens'[x][y][z] = tokens[x][y][z]
          /\ last_update'[x][y][z] = last_update[x][y][z]
          /\ admitted'[x][y][z] = admitted[x][y][z]
          /\ promised'[x][y][z] = promised[x][y][z]
      <4>1. PICK tk \in Nat, ad \in Seq(Nat), pr \in Nat :
              /\ SetAt(tokens', tokens, Nat, w, l, k, tk)
              /\ SetAt(admitted', admitted, Seq(Nat), w, l, k, ad)
              /\ SetAt(promised', promised, Nat, w, l, k, pr)
        BY <1>7, Zenon
      <4>2. tokens'[x][y][z] = tokens[x][y][z]
        BY <2>2, <4>1, Zenon DEF SetAt
      <4>3. admitted'[x][y][z] = admitted[x][y][z]
        BY <2>2, <4>1, Zenon DEF SetAt
      <4>4. promised'[x][y][z] = promised[x][y][z]
        BY <2>2, <4>1, Zenon DEF SetAt
      <4>5. last_update'[x][y][z] = last_update[x][y][z]
        BY <1>8, <2>2, Zenon DEF SetAt
      <4> QED
        BY <4>2, <4>3, <4>4, <4>5
    <3>2. BucketInv(x, y, z)
      BY DEF LimiterInv
    <3> QED
      BY <3>1, <3>2 DEF BucketInv
  <2> QED
    BY <2>1, <2>2
<1> QED
  BY <1>9, <1>10 DEF LimiterInv

LEMMA LimiterInvStep == LimiterInv /\ [LimiterNext]_limiterVars => LimiterInv'
<1> SUFFICES ASSUME LimiterInv, [LimiterNext]_limiterVars PROVE LimiterInv'
  OBVIOUS
<1>1. CASE UNCHANGED limiterVars
  BY <1>1 DEF limiterVars, LimiterInv, LimiterType, BucketInv
<1>2. CASE Tick
  <2>1. LimiterType'
    BY <1>2, LimitersAssumption DEF Tick, LimiterInv, LimiterType
  <2>2. ASSUME NEW w \in Workers, NEW l \in Limiters, NEW k \in Keys PROVE BucketInv(w, l, k)'
    <3>1. last_update[w][l][k] <= now /\ last_update[w][l][k] \in 0..MaxTime
      BY DEF LimiterInv, LimiterType, BucketInv
    <3>2. now \in 0..MaxTime /\ now' = now + 1
      BY <1>2 DEF Tick, LimiterInv, LimiterType
    <3>3. last_update[w][l][k] <= now'
      BY <3>1, <3>2
    <3> QED
      BY <1>2, <3>3 DEF Tick, LimiterInv, BucketInv
  <2> QED
    BY <2>1, <2>2 DEF LimiterInv
<1>3. ASSUME NEW w \in Workers, NEW k \in Keys, NEW path \in Paths, Request(w, k, path)
      PROVE  LimiterInv'
  <2>1. CASE path = "reset"
    BY <1>3, <2>1 DEF Request, LimiterInv, LimiterType, BucketInv
  <2>2. CASE path # "reset"
    <3>1. LimiterOf(path) \in Limiters
      BY DEF LimiterOf, Limiters
    <3>2. Check(w, LimiterOf(path), k) /\ UNCHANGED now
      BY <1>3, <2>2 DEF Request
    <3> QED
      BY <3>1, <3>2, CheckStep
  <2> QED
    BY <2>1, <2>2
<1> QED
  BY <1>1, <1>2, <1>3 DEF LimiterNext

LEMMA LimiterInvHolds == LimiterInit /\ [][LimiterNext]_limiterVars => []LimiterInv
BY LimiterInvInit, LimiterInvStep, PTL

\* In no window of time does a worker let in more requests of a client than
\* the burst and the refill of the window, for every capacity and rate of the
\* limiters and every pattern of requests (TokenBucket::check): the tokens left
\* and those spent since an admission are bounded by what was refilled since.
THEOREM LimitHolds == LimiterInit /\ [][LimiterNext]_limiterVars => []WorkerWithinLimit
<1>1. LimiterInv => WorkerWithinLimit
  BY DEF LimiterInv, BucketInv, Accounted, WorkerWithinLimit
<1> QED
  BY <1>1, LimiterInvHolds, PTL

\* Whoever waits as long as Retry-After says finds a token, unless a request was
\* let in meanwhile: the wait is rounded up (TokenBucket::check), and refused
\* requests take nothing from the bucket.
THEOREM WaitingSuffices == LimiterInit /\ [][LimiterNext]_limiterVars => []RetryAfterSuffices
<1>1. LimiterInv => RetryAfterSuffices
  <2> SUFFICES ASSUME LimiterInv, NEW w \in Workers, NEW l \in Limiters, NEW k \in Keys,
                      promised[w][l][k] <= now
               PROVE  Refilled(w, l, k) >= Unit[l]
    BY DEF RetryAfterSuffices
  <2>1. /\ now \in Nat /\ now <= MaxTime /\ MaxTime \in Nat
        /\ tokens[w][l][k] \in Nat /\ last_update[w][l][k] \in Nat /\ promised[w][l][k] \in Nat
    BY LimitersAssumption DEF LimiterInv, LimiterType
  <2>2. Unit[l] \in Nat /\ Full(l) \in Nat /\ Unit[l] <= Full(l)
    BY UnitType
  <2>3. promised[w][l][k] # Never
    BY <2>1 DEF Never
  <2>4. tokens[w][l][k] + promised[w][l][k] - last_update[w][l][k] >= Unit[l]
    BY <2>3 DEF LimiterInv, BucketInv, Kept
  <2> QED
    BY <2>1, <2>2, <2>4 DEF Refilled
<1> QED
  BY <1>1, LimiterInvHolds, PTL

-----------------------------------------------------------------------------
\* The form of an order.

\* The gateway's checks imply the engine's.
FormInv ==
  /\ stage \in {"received", "refused", "logged", "executed"}
  /\ stage = "logged" => FormAccepted(msg)
  /\ OrderSurvives

\* An order that passes OrderBody::validate passes the checks of handle_order
\* whatever the case of its words, and reaches the log as the order that was
\* asked for (place_order); no bound on prices or quantities is used.
THEOREM LoggedOrdersAreAccepted == FormInit /\ [][FormNext]_formVars => []OrderSurvives
<1>1. FormInit => FormInv
  BY DEF FormInit, FormInv, OrderSurvives
<1>2. FormInv /\ [FormNext]_formVars => FormInv'
  <2> SUFFICES ASSUME FormInv, [FormNext]_formVars PROVE FormInv'
    OBVIOUS
  <2>1. CASE UNCHANGED formVars
    BY <2>1 DEF formVars, FormInv, FormAccepted, OrderSurvives
  <2>2. CASE PlaceOrder
    <3>1. CASE Valid(body)
      <4>1. /\ stage' = "logged" /\ body' = body
            /\ msg' = [asset |-> body.asset, side |-> body.side, order_type |-> OrderType(body),
                       price |-> body.price, qty |-> body.qty,
                       slippage_pct |-> body.slippage_pct, time_in_force |-> TimeInForce(body)]
        BY <2>2, <3>1 DEF PlaceOrder
      <4>2. OrderType(body) = body.order_type.lower
        BY <3>1 DEF Valid, OrderType
      <4>3. TimeInForce(body) = IF body.time_in_force = Absent THEN "gtc"
                                ELSE body.time_in_force.lower
        BY <3>1 DEF Valid, TimeInForce
      <4>4. FormAccepted(msg')
        BY <3>1, <4>1, <4>2 DEF Valid, FormAccepted
      <4> QED
        BY <4>1, <4>2, <4>3, <4>4 DEF FormInv, FormAccepted, OrderSurvives
    <3>2. CASE ~Valid(body)
      BY <2>2, <3>2 DEF PlaceOrder, FormInv, OrderSurvives
    <3> QED
      BY <3>1, <3>2
  <2>3. CASE HandleOrder
    BY <2>3 DEF HandleOrder, FormInv, OrderSurvives
  <2> QED
    BY <2>1, <2>2, <2>3 DEF FormNext
<1>3. FormInv => OrderSurvives
  BY DEF FormInv
<1> QED
  BY <1>1, <1>2, <1>3, PTL

-----------------------------------------------------------------------------
\* Users and tokens.

\* Every id in use was drawn from the sequence.
AccountsType ==
  /\ serial \in 0..MaxId
  /\ DOMAIN users \subseteq 1..serial
  /\ signups \subseteq 1..serial
  /\ \A t \in issued : t.sub \in 1..serial
  /\ usd \in [DOMAIN usd -> Int]
  /\ brought \in [Ids -> Int]

AccountsInv == AccountsType /\ TokenNamesOneUser /\ HoldsWhatWasBrought

LEMMA AccountsInvInit == AccountsInit => AccountsInv
BY AccountsAssumption DEF AccountsInit, AccountsInv, AccountsType, TokenNamesOneUser,
   HoldsWhatWasBrought, NoUsers, Ids

LEMMA AccountsTypeStep ==
  ASSUME AccountsType, [AccountsNext]_accountVars
  PROVE  AccountsType'
<1> USE DEF AccountsType
<1>1. CASE UNCHANGED accountVars
  BY <1>1 DEF accountVars
<1>2. ASSUME NEW name \in Names, Signup(name) PROVE AccountsType'
  <2>1. serial' = serial + 1 /\ serial' \in 0..MaxId /\ 1..serial \subseteq 1..serial'
    BY <1>2, AccountsAssumption DEF Signup
  <2>2. serial + 1 \in 1..serial'
    BY <2>1
  <2>3. DOMAIN users' \subseteq DOMAIN users \cup {serial + 1}
        /\ signups' \subseteq signups \cup {serial + 1}
    BY <1>2 DEF Signup
  <2>4. issued' = issued /\ usd' = usd /\ brought' = brought
    BY <1>2 DEF Signup
  <2> QED
    BY <2>1, <2>2, <2>3, <2>4
<1>3. ASSUME NEW name \in Names, Signin(name) PROVE AccountsType'
  <2>1. PICK id \in DOMAIN users : issued' = issued \cup {[sub |-> id, name |-> name]}
    BY <1>3 DEF Signin
  <2> QED
    BY <1>3, <2>1 DEF Signin
<1>4. ASSUME NEW id \in signups, EngineSignup(id) PROVE AccountsType'
  BY <1>4 DEF EngineSignup, OrDefault
<1>5. ASSUME NEW id \in signups, SignupLost(id) PROVE AccountsType'
  BY <1>5 DEF SignupLost
<1>6. ASSUME NEW token \in issued, HandleOnramp(token) PROVE AccountsType'
  BY <1>6, AccountsAssumption DEF HandleOnramp, OrDefault, Ids
<1>7. CASE DeleteUsers
  BY <1>7 DEF DeleteUsers, NoUsers
<1>8. CASE EngineReset
  <2>1. UNCHANGED <<users, serial, signups, issued>>
    BY <1>8 DEF EngineReset
  <2>2. usd' \in [DOMAIN usd' -> Int] /\ brought' \in [Ids -> Int]
    <3>1. CASE usd' = [id \in {} |-> 0] /\ brought' = [id \in Ids |-> 0]
      BY <3>1
    <3>2. CASE UNCHANGED <<usd, brought>>
      BY <3>2
    <3> QED
      BY <1>8, <3>1, <3>2 DEF EngineReset
  <2> QED
    BY <2>1, <2>2
<1> QED
  BY <1>1, <1>2, <1>3, <1>4, <1>5, <1>6, <1>7, <1>8 DEF AccountsNext

LEMMA TokenStep ==
  ASSUME AccountsType, TokenNamesOneUser, [AccountsNext]_accountVars
  PROVE  TokenNamesOneUser'
<1> USE DEF AccountsType, TokenNamesOneUser
<1>1. CASE UNCHANGED <<users, issued>>
  BY <1>1
<1>2. ASSUME NEW name \in Names, Signup(name) PROVE TokenNamesOneUser'
  <2> SUFFICES ASSUME NEW t \in issued, t.sub \in DOMAIN users' PROVE users'[t.sub] = t.name
    BY <1>2 DEF Signup
  <2>1. t.sub # serial + 1
    OBVIOUS
  <2>2. t.sub \in DOMAIN users /\ users'[t.sub] = users[t.sub]
    BY <1>2, <2>1 DEF Signup
  <2> QED
    BY <2>2
<1>3. ASSUME NEW name \in Names, Signin(name) PROVE TokenNamesOneUser'
  <2>1. PICK id \in DOMAIN users :
          users[id] = name /\ issued' = issued \cup {[sub |-> id, name |-> name]}
    BY <1>3 DEF Signin
  <2> QED
    BY <1>3, <2>1 DEF Signin
<1>4. CASE DeleteUsers
  BY <1>4 DEF DeleteUsers, NoUsers
<1> QED
  BY <1>1, <1>2, <1>3, <1>4 DEF AccountsNext, accountVars, EngineSignup, SignupLost,
     HandleOnramp, EngineReset

LEMMA BroughtStep ==
  ASSUME AccountsType, HoldsWhatWasBrought, [AccountsNext]_accountVars
  PROVE  HoldsWhatWasBrought'
<1> USE DEF AccountsType, HoldsWhatWasBrought
<1>1. CASE UNCHANGED <<usd, brought>>
  BY <1>1
<1>2. ASSUME NEW id \in signups, EngineSignup(id) PROVE HoldsWhatWasBrought'
  BY <1>2 DEF EngineSignup, OrDefault
<1>3. ASSUME NEW token \in issued, HandleOnramp(token) PROVE HoldsWhatWasBrought'
  <2>1. token.sub \in Ids
    BY AccountsAssumption DEF Ids
  <2> DEFINE before == OrDefault(usd, token.sub)
  <2>2. /\ DOMAIN before = DOMAIN usd \cup {token.sub}
        /\ \A i \in DOMAIN before : before[i] = IF i \in DOMAIN usd THEN usd[i] ELSE 0
    BY DEF OrDefault
  <2>3. usd' = [before EXCEPT ![token.sub] = @ + 1]
        /\ brought' = [brought EXCEPT ![token.sub] = @ + 1]
    BY <1>3 DEF HandleOnramp
  <2> HIDE DEF before
  <2>4. DOMAIN usd' = DOMAIN usd \cup {token.sub}
    BY <2>2, <2>3
  <2>5. ASSUME NEW i \in Ids PROVE brought'[i] = IF i \in DOMAIN usd' THEN usd'[i] ELSE 0
    BY <2>1, <2>2, <2>3, <2>4
  <2> QED
    BY <2>5
<1>4. CASE EngineReset
  BY <1>4 DEF EngineReset
<1> QED
  BY <1>1, <1>2, <1>3, <1>4 DEF AccountsNext, accountVars, Signup, Signin, SignupLost,
     DeleteUsers

LEMMA AccountsInvHolds == AccountsInit /\ [][AccountsNext]_accountVars => []AccountsInv
<1>1. AccountsInv /\ [AccountsNext]_accountVars => AccountsInv'
  BY AccountsTypeStep, TokenStep, BroughtStep DEF AccountsInv
<1> QED
  BY <1>1, AccountsInvInit, PTL

\* A token never names another user than the one it was issued to, over any
\* number of signups and resets: the ids of tokens and users come from a
\* sequence that DELETE FROM users does not restart (routes/admin.rs).
THEOREM TokensKeepTheirUser == AccountsInit /\ [][AccountsNext]_accountVars => []TokenNamesOneUser
<1>1. AccountsInv => TokenNamesOneUser
  BY DEF AccountsInv
<1> QED
  BY <1>1, AccountsInvHolds, PTL

\* The engine holds for every id what was brought in with its tokens since the
\* last reset, entry or no entry (handle_onramp and handle_signup, which both
\* make a missing entry).
THEOREM MoneyBroughtIsHeld == AccountsInit /\ [][AccountsNext]_accountVars => []HoldsWhatWasBrought
<1>1. AccountsInv => HoldsWhatWasBrought
  BY DEF AccountsInv
<1> QED
  BY <1>1, AccountsInvHolds, PTL

-----------------------------------------------------------------------------
\* Order queries.

\* An order is in the book, or was when a query began, only once it was placed.
PlacedFirst ==
  /\ left \in Nat
  /\ left > 0 => order # NoRow
  /\ \A u \in Users : query[u].open => order # NoRow

Fields == {"pc", "open", "row", "trades"}

QueryType ==
  query = [u \in Users |-> query[u]] /\ \A u \in Users : DOMAIN query[u] = Fields

StatusInv == QueryType /\ PlacedFirst /\ FoundWhileOpen

LEMMA QueryTypeStep ==
  ASSUME QueryType, [StatusNext]_statusVars
  PROVE  QueryType'
<1> USE DEF QueryType
<1>1. CASE UNCHANGED query
  BY <1>1
<1>2. ASSUME NEW u \in Users, SelectRow(u) \/ SelectTrades(u) \/ AskEngine(u) PROVE QueryType'
  <2>1. query' = [v \in Users |-> query'[v]] /\ \A v \in Users : v # u => query'[v] = query[v]
    BY <1>2 DEF SelectRow, SelectTrades, AskEngine
  <2>2. DOMAIN query'[u] = Fields
    <3>1. CASE SelectRow(u)
      BY <3>1 DEF SelectRow, Fields
    <3>2. CASE SelectTrades(u)
      BY <3>2 DEF SelectTrades
    <3>3. CASE AskEngine(u)
      BY <3>3 DEF AskEngine
    <3> QED
      BY <1>2, <3>1, <3>2, <3>3
  <2> QED
    BY <2>1, <2>2
<1> QED
  BY <1>1, <1>2 DEF StatusNext, statusVars, Place, Fill, Cancel, Commit

LEMMA StatusInvStep == StatusInv /\ [StatusNext]_statusVars => StatusInv'
<1> SUFFICES ASSUME StatusInv, [StatusNext]_statusVars PROVE StatusInv'
  OBVIOUS
<1>1. QueryType'
  BY QueryTypeStep DEF StatusInv
<1>2. /\ left \in Nat /\ (left > 0 => order # NoRow)
      /\ \A u \in Users : query[u].open => order # NoRow
  BY DEF StatusInv, PlacedFirst
<1>3. FoundWhileOpen
  BY DEF StatusInv
<1>4. CASE UNCHANGED <<order, left, query>>
  BY <1>1, <1>2, <1>3, <1>4 DEF StatusInv, PlacedFirst, FoundWhileOpen
<1>5. ASSUME NEW u \in Users, NEW m \in Markets, NEW filled \in 0..(Qty - 1), Place(u, m, filled)
      PROVE  StatusInv'
  <2>1. order = NoRow /\ order' # NoRow /\ query' = query
    BY <1>5, NoRowAssumption DEF Place
  <2>2. left' \in Nat
    BY <1>5, QtyAssumption DEF Place
  <2>3. \A v \in Users : ~query[v].open
    BY <1>2, <2>1
  <2> QED
    BY <1>1, <2>1, <2>2, <2>3 DEF StatusInv, PlacedFirst, FoundWhileOpen
<1>6. ASSUME NEW qty \in 1..Qty, Fill(qty) PROVE StatusInv'
  <2>1. qty \in Nat /\ qty > 0
    BY QtyAssumption
  <2>2. left > 0 /\ left' \in Nat /\ UNCHANGED <<order, query>>
    BY <1>2, <1>6, <2>1 DEF Fill
  <2> QED
    BY <1>1, <1>2, <1>3, <2>2 DEF StatusInv, PlacedFirst, FoundWhileOpen
<1>7. CASE Cancel
  BY <1>1, <1>2, <1>3, <1>7 DEF Cancel, StatusInv, PlacedFirst, FoundWhileOpen
<1>8. ASSUME NEW u \in Users, SelectRow(u) PROVE StatusInv'
  <2>1. /\ UNCHANGED <<order, left>>
        /\ \A v \in Users : v # u => query'[v] = query[v]
        /\ query'[u].open = (left > 0)
        /\ query'[u].pc = "not_found" => order.user_id # u
    BY <1>8 DEF SelectRow, StatusInv, QueryType
  <2>2. \A v \in Users : query'[v].open => order # NoRow
    BY <1>2, <2>1
  <2>3. FoundWhileOpen'
    BY <1>3, <2>1 DEF FoundWhileOpen
  <2> QED
    BY <1>1, <1>2, <2>1, <2>2, <2>3 DEF StatusInv, PlacedFirst
<1>9. ASSUME NEW u \in Users, SelectTrades(u) PROVE StatusInv'
  <2>1. DOMAIN query[u] = Fields
    BY DEF StatusInv, QueryType
  <2>2. /\ UNCHANGED <<order, left>>
        /\ \A v \in Users : v # u => query'[v] = query[v]
        /\ query'[u].open = query[u].open
        /\ query'[u].pc = "found"
    BY <1>9, <2>1 DEF SelectTrades, StatusInv, QueryType, Fields
  <2>3. \A v \in Users : query'[v].open => order # NoRow
    BY <1>2, <2>2
  <2>4. FoundWhileOpen'
    BY <1>3, <2>2 DEF FoundWhileOpen
  <2> QED
    BY <1>1, <1>2, <2>2, <2>3, <2>4 DEF StatusInv, PlacedFirst
<1>10. ASSUME NEW u \in Users, AskEngine(u) PROVE StatusInv'
  <2>1. DOMAIN query[u] = Fields
    BY DEF StatusInv, QueryType
  <2>2. /\ UNCHANGED <<order, left>>
        /\ \A v \in Users : v # u => query'[v] = query[v]
        /\ query'[u].open = query[u].open
        /\ query'[u].pc = "not_found" => ~InBook(u)
    BY <1>10, <2>1 DEF AskEngine, StatusInv, QueryType, Fields
  <2>3. \A v \in Users : query'[v].open => order # NoRow
    BY <1>2, <2>2
  <2>4. FoundWhileOpen'
    BY <1>2, <1>3, <2>2 DEF FoundWhileOpen, InBook
  <2> QED
    BY <1>1, <1>2, <2>2, <2>3, <2>4 DEF StatusInv, PlacedFirst
<1> QED
  BY <1>4, <1>5, <1>6, <1>7, <1>8, <1>9, <1>10 DEF StatusNext, statusVars, Commit

\* An order that stays open while its owner's query runs is found, in whichever
\* market and however far the tables are behind (get_order): when neither the
\* tables nor the books have it, it has left the book, for good.
THEOREM OpenOrdersAreFound == StatusInit /\ [][StatusNext]_statusVars => []FoundWhileOpen
<1>1. StatusInit => StatusInv
  <2> SUFFICES ASSUME StatusInit PROVE StatusInv
    OBVIOUS
  <2>1. query = [u \in Users |-> query[u]] /\ \A u \in Users : query[u] = NoQuery
    BY DEF StatusInit
  <2>2. QueryType
    BY <2>1 DEF QueryType, NoQuery, Fields
  <2>3. PlacedFirst /\ FoundWhileOpen
    BY <2>1 DEF StatusInit, PlacedFirst, FoundWhileOpen, NoQuery
  <2> QED
    BY <2>2, <2>3 DEF StatusInv
<1>2. StatusInv => FoundWhileOpen
  BY DEF StatusInv
<1> QED
  BY <1>1, <1>2, StatusInvStep, PTL

-----------------------------------------------------------------------------
\* Trades and rows.

Kinds == {"created", "as_taker", "as_maker", "cancelled"}

Events == [kind : Kinds, qty : Nat, remaining : Nat]

\* The rows of an order that was created.
RealRows == [original_qty : {Qty}, remaining_qty : Nat]

\* All that the statements can make of a row, also of one that is not there.
AnyRows == RealRows \cup {NoRow} \cup {[NoRow EXCEPT !.remaining_qty = r] : r \in Nat}

TableStates == [row : AnyRows, trades : [maker : Nat, taker : Nat]]

TotalOf(t) == t.trades.maker + t.trades.taker

\* What a row says was filled is what its trades add up to.
Reconciled(t) ==
  t.row \in RealRows /\ TotalOf(t) = Qty - t.row.remaining_qty

\* The tables as they are before and after each of the events q is stored, from
\* t to z.
StoredOneByOne(w, t, q, z) ==
  /\ w \in [0..Len(q) -> TableStates]
  /\ w[0] = t /\ w[Len(q)] = z
  /\ \A i \in 1..Len(q) : w[i] = Stored(q[i], w[i - 1])
  /\ \A i \in 0..Len(q) : w[i].row = NoRow \/ Reconciled(w[i])
  /\ \A i, j \in 0..Len(q) : i <= j => TotalOf(w[i]) <= TotalOf(w[j])

Chain(t, q, z) == q \in Seq(Events) /\ \E w : StoredOneByOne(w, t, q, z)

\* What the tables will be when all is stored: those of the order as it is.
UpToDate(z) ==
  IF order = NoRow
  THEN z = [row |-> NoRow, trades |-> [maker |-> 0, taker |-> 0]] /\ left = 0
  ELSE Reconciled(z) /\ (left > 0 => z.row.remaining_qty = left)

\* The row that a query has read and the trades it has, or will, read.
Answered(u) ==
  /\ query[u].pc = "trades" =>
       query[u].row \in RealRows /\ TradesOf >= Qty - query[u].row.remaining_qty
  /\ query[u].pc = "found" /\ "market" \notin DOMAIN query[u].row =>
       query[u].trades >= query[u].row.original_qty - query[u].row.remaining_qty

CoverInv ==
  /\ QueryType
  /\ left \in 0..Qty
  /\ \E z : Chain(Tables, events, z) /\ UpToDate(z)
  /\ \A u \in Users : Answered(u)

LEMMA StoredType ==
  ASSUME NEW e \in Events, NEW t \in TableStates
  PROVE  Stored(e, t) \in TableStates
<1>1. /\ t.row \in AnyRows /\ t.trades \in [maker : Nat, taker : Nat]
      /\ t = [row |-> t.row, trades |-> t.trades]
      /\ e.qty \in Nat /\ e.remaining \in Nat /\ e.kind \in Kinds
  BY DEF TableStates, Events
<1>2. ASSUME NEW x \in AnyRows PROVE [x EXCEPT !.remaining_qty = e.remaining] \in AnyRows
  <2>1. CASE x \in RealRows
    BY <1>1, <2>1 DEF AnyRows, RealRows
  <2>2. CASE x = NoRow
    BY <1>1, <2>2 DEF AnyRows
  <2>3. ASSUME NEW r \in Nat, x = [NoRow EXCEPT !.remaining_qty = r]
        PROVE  [x EXCEPT !.remaining_qty = e.remaining] \in AnyRows
    <3>1. [x EXCEPT !.remaining_qty = e.remaining] = [NoRow EXCEPT !.remaining_qty = e.remaining]
      BY <2>3
    <3> QED BY <1>1, <3>1 DEF AnyRows
  <2> QED BY <1>2, <2>1, <2>2, <2>3 DEF AnyRows
<1>3. PICK y \in AnyRows : y = [t.row EXCEPT !.remaining_qty = e.remaining]
  BY <1>1, <1>2
<1>4. CASE e.kind = "created"
  <2>1. Stored(e, t) = [row    |-> [original_qty |-> Qty, remaining_qty |-> e.remaining],
                        trades |-> t.trades]
    BY <1>1, <1>4 DEF Stored
  <2> QED BY <1>1, <2>1 DEF TableStates, AnyRows, RealRows
<1>5. CASE e.kind = "as_taker"
  <2>1. Stored(e, t) = [row |-> t.row, trades |-> [t.trades EXCEPT !.taker = @ + e.qty]]
    BY <1>1, <1>5 DEF Stored
  <2> QED BY <1>1, <2>1 DEF TableStates
<1>6. CASE e.kind = "as_maker"
  <2>1. Stored(e, t) = [row |-> y, trades |-> [t.trades EXCEPT !.maker = @ + e.qty]]
    BY <1>1, <1>3, <1>6 DEF Stored
  <2> QED BY <1>1, <1>3, <2>1 DEF TableStates
<1>7. CASE e.kind = "cancelled"
  <2>1. Stored(e, t) = [row |-> y, trades |-> t.trades]
    BY <1>1, <1>3, <1>7 DEF Stored
  <2> QED BY <1>1, <1>3, <2>1 DEF TableStates
<1> QED BY <1>1, <1>4, <1>5, <1>6, <1>7 DEF Kinds

\* A batch is stored event by event.
LEMMA BatchWalks ==
  ASSUME NEW t \in TableStates, NEW q \in Seq(Events), NEW w,
         w[0] = t, \A i \in 1..Len(q) : w[i] = Stored(q[i], w[i - 1])
  PROVE  StoredAll(q, t) = w[Len(q)]
<1> DEFINE S == DOMAIN q
           G == [x \in S \X TableStates |-> Stored(q[x[1]], x[2])]
           h == CHOOSE g : g = [v \in SUBSET S |->
                                  IF v = {} THEN t ELSE Stored(q[Max(v)], g[v \ {Max(v)}])]
<1>1. S = 1..Len(q) /\ Len(q) \in Nat /\ \A i \in S : q[i] \in Events
  OBVIOUS
<1>2. \A i \in S, u \in TableStates : G[<<i, u>>] = Stored(q[i], u) /\ G[<<i, u>>] \in TableStates
  BY <1>1, StoredType
<1>3. PICK n \in Nat : n = Len(q) /\ S = 1..n
  BY <1>1
<1>4. PICK g \in [SUBSET (1..n) -> TableStates] : IsWalk(g, n, t, G)
  <2> HIDE DEF G
  <2>1. \A i \in 1..n, u \in TableStates : G[<<i, u>>] \in TableStates
    BY <1>2, <1>3
  <2> QED BY <2>1, WalkExists
<1>5. g = [v \in SUBSET S |-> IF v = {} THEN t ELSE Stored(q[Max(v)], g[v \ {Max(v)}])]
  <2>1. ASSUME NEW v \in SUBSET S, v # {} PROVE g[v] = Stored(q[Max(v)], g[v \ {Max(v)}])
    <3> HIDE DEF S, G
    <3>1. Max(v) \in S /\ g[v \ {Max(v)}] \in TableStates
      BY <1>3, <1>4, <2>1 DEF IsWalk
    <3>2. g[v] = G[<<Max(v), g[v \ {Max(v)}]>>]
      BY <1>3, <1>4, <2>1 DEF IsWalk
    <3> QED BY <1>2, <3>1, <3>2
  <2>2. g[{}] = t
    BY <1>4 DEF IsWalk
  <2> HIDE DEF S
  <2> QED BY <1>3, <1>4, <2>1, <2>2
<1>6. h = [v \in SUBSET S |-> IF v = {} THEN t ELSE Stored(q[Max(v)], h[v \ {Max(v)}])]
  <2> HIDE DEF S
  <2> QED BY <1>5, Zenon
<1>7. StoredAll(q, t) = h[S]
  BY Zenon DEF StoredAll, FoldLeft, MapThenFoldSet
<1> HIDE DEF h
<1>8. h[1..0] = t
  <2>1. 1..0 = {} /\ {} \in SUBSET S
    OBVIOUS
  <2> QED BY <1>6, <2>1
<1>9. ASSUME NEW i \in S PROVE h[1..i] = Stored(q[i], h[1..(i - 1)])
  <2>1. i \in Nat \ {0} /\ 1..i \in SUBSET S /\ 1..i # {}
    <3>1. i \in Nat /\ 1 <= i /\ i <= Len(q)
      BY <1>1
    <3>2. 1 \in 1..i /\ \A j \in 1..i : j \in S
      BY <1>1, <3>1
    <3>3. i \in Nat \ {0} /\ 1..i \subseteq S
      BY <3>1, <3>2
    <3> HIDE DEF S
    <3> QED BY <3>2, <3>3
  <2>2. Max(1..i) = i /\ (1..i) \ {i} = 1..(i - 1)
    BY <2>1, MaxOfInterval
  <2>3. h[1..i] = Stored(q[Max(1..i)], h[(1..i) \ {Max(1..i)}])
    <3> HIDE DEF S
    <3> QED BY <1>6, <2>1
  <2> QED BY <2>2, <2>3
<1>10. \A i \in 0..Len(q) : h[1..i] = w[i]
  <2> DEFINE B == {i \in 0..Len(q) : h[1..i] # w[i]}
  <2>1. SUFFICES ASSUME B # {} PROVE FALSE
    BY <2>1
  <2>0. B \in SUBSET Nat
    BY <1>1
  <2>2. PICK m \in B : \A x \in B : m <= x
    <3> HIDE DEF B
    <3> QED BY <2>0, <2>1, SetHasMin
  <2>3. m # 0
    BY <1>8, <2>2
  <2>4. m \in S /\ m - 1 \in 0..Len(q) /\ ~(m <= m - 1)
    BY <1>1, <2>2, <2>3
  <2>5. h[1..(m - 1)] = w[m - 1]
    BY <2>2, <2>4
  <2>6. h[1..m] = Stored(q[m], w[m - 1]) /\ w[m] = Stored(q[m], w[m - 1])
    BY <1>1, <1>9, <2>4, <2>5
  <2> QED BY <2>2, <2>6
<1>11. Len(q) \in 0..Len(q)
  BY <1>1
<1> HIDE DEF S
<1> QED BY <1>1, <1>7, <1>10, <1>11

LEMMA TotalType ==
  ASSUME NEW t \in TableStates
  PROVE  TotalOf(t) \in Nat
<1>1. t.trades \in [maker : Nat, taker : Nat]
  BY DEF TableStates
<1> QED BY <1>1 DEF TotalOf

\* One more event.
LEMMA ChainExtended ==
  ASSUME NEW t, NEW q, NEW z, Chain(t, q, z), NEW e \in Events, NEW y, y = Stored(e, z),
         y.row = NoRow \/ Reconciled(y), TotalOf(z) <= TotalOf(y)
  PROVE  Chain(t, Append(q, e), y)
<1>1. PICK w : q \in Seq(Events) /\ StoredOneByOne(w, t, q, z)
  BY DEF Chain
<1>2. PICK n \in Nat : n = Len(q)
  BY <1>1
<1>3. PICK r : r = Append(q, e)
  OBVIOUS
<1>4. /\ r \in Seq(Events) /\ Len(r) = n + 1 /\ r[n + 1] = e
      /\ \A i \in 1..n : r[i] = q[i]
  BY <1>1, <1>2, <1>3
<1>5. /\ w \in [0..n -> TableStates] /\ w[0] = t /\ w[n] = z
      /\ \A i \in 1..n : w[i] = Stored(q[i], w[i - 1])
      /\ \A i \in 0..n : w[i].row = NoRow \/ Reconciled(w[i])
      /\ \A i, j \in 0..n : i <= j => TotalOf(w[i]) <= TotalOf(w[j])
  BY <1>1, <1>2 DEF StoredOneByOne
<1>6. y \in TableStates /\ TotalOf(y) \in Nat
  <2>1. z \in TableStates
    BY <1>5
  <2> QED BY <2>1, StoredType, TotalType
<1>7. PICK x : x = [i \in 0..(n + 1) |-> IF i <= n THEN w[i] ELSE y]
  OBVIOUS
<1>8. x \in [0..(n + 1) -> TableStates] /\ x[0] = t /\ x[n + 1] = y
  <2>1. \A i \in 0..(n + 1) : x[i] \in TableStates
    BY <1>5, <1>6, <1>7
  <2> QED BY <1>5, <1>7, <2>1
<1>9. \A i \in 0..n : x[i] = w[i]
  BY <1>7
<1>10. ASSUME NEW i \in 1..(n + 1) PROVE x[i] = Stored(r[i], x[i - 1])
  <2>1. CASE i \in 1..n
    <3>1. i \in 0..n /\ i - 1 \in 0..n
      BY <2>1
    <3> QED BY <1>4, <1>5, <1>9, <2>1, <3>1
  <2>2. CASE i = n + 1
    <3>1. i - 1 = n /\ n \in 0..n
      BY <2>2
    <3> QED BY <1>4, <1>5, <1>8, <1>9, <2>2, <3>1
  <2> QED BY <2>1, <2>2
<1>11. ASSUME NEW i \in 0..(n + 1) PROVE x[i].row = NoRow \/ Reconciled(x[i])
  <2>1. i \in 0..n \/ i = n + 1
    OBVIOUS
  <2> QED BY <1>5, <1>8, <1>9, <2>1
<1>12. ASSUME NEW i \in 0..(n + 1), NEW j \in 0..(n + 1), i <= j
       PROVE  TotalOf(x[i]) <= TotalOf(x[j])
  <2>1. CASE j \in 0..n
    <3>1. i \in 0..n
      BY <1>12, <2>1
    <3> QED BY <1>5, <1>9, <1>12, <2>1, <3>1
  <2>2. CASE j = n + 1 /\ i \in 0..n
    <3>1. n \in 0..n /\ i <= n
      BY <2>2
    <3>2. TotalOf(w[i]) <= TotalOf(z) /\ TotalOf(w[i]) \in Nat /\ TotalOf(z) \in Nat
      BY <1>5, <2>2, <3>1, TotalType
    <3>3. x[i] = w[i] /\ x[j] = y
      BY <1>8, <1>9, <2>2
    <3> QED BY <1>6, <3>2, <3>3
  <2>3. CASE j = n + 1 /\ i = n + 1
    BY <1>6, <1>8, <2>3
  <2> QED BY <2>1, <2>2, <2>3
<1>13. StoredOneByOne(x, t, r, y)
  BY <1>4, <1>8, <1>10, <1>11, <1>12 DEF StoredOneByOne
<1> QED BY <1>3, <1>4, <1>13 DEF Chain

\* A batch takes the tables along the chain.
LEMMA ChainSplit ==
  ASSUME NEW t, NEW q, NEW z, Chain(t, q, z), NEW n \in 1..Len(q),
         NEW m, m = StoredAll(SubSeq(q, 1, n), t)
  PROVE  /\ m \in TableStates /\ t \in TableStates /\ TotalOf(t) <= TotalOf(m)
         /\ m.row = NoRow \/ Reconciled(m)
         /\ Chain(m, SubSeq(q, n + 1, Len(q)), z)
<1>1. PICK w : q \in Seq(Events) /\ StoredOneByOne(w, t, q, z)
  BY DEF Chain
<1>2. PICK k \in Nat : k = Len(q)
  BY <1>1
<1>3. /\ w \in [0..k -> TableStates] /\ w[0] = t /\ w[k] = z
      /\ \A i \in 1..k : w[i] = Stored(q[i], w[i - 1])
      /\ \A i \in 0..k : w[i].row = NoRow \/ Reconciled(w[i])
      /\ \A i, j \in 0..k : i <= j => TotalOf(w[i]) <= TotalOf(w[j])
  BY <1>1, <1>2 DEF StoredOneByOne
<1>4. n \in Nat /\ 1 <= n /\ n <= k /\ n \in 0..k /\ 0 \in 0..k /\ k - n \in Nat
  BY <1>2
<1>5. PICK a : a = SubSeq(q, 1, n)
  OBVIOUS
<1>6. a \in Seq(Events) /\ Len(a) = n /\ \A i \in 1..n : a[i] = q[i]
  BY <1>1, <1>2, <1>4, <1>5
<1>7. PICK b : b = SubSeq(q, n + 1, Len(q))
  OBVIOUS
<1>8. b \in Seq(Events) /\ Len(b) = k - n /\ \A i \in 1..(k - n) : b[i] = q[n + i]
  <2>1. \A i \in (n + 1)..k : i \in 1..k /\ q[i] \in Events
    BY <1>1, <1>2, <1>4
  <2>2. b = SubSeq(q, n + 1, k)
    BY <1>2, <1>7
  <2>3. Len(b) = k - n /\ \A i \in 1..(k - n) : b[i] = q[n + i]
    BY <1>1, <1>2, <1>4, <2>2
  <2>4. b \in Seq(Events)
    BY <1>1, <1>2, <1>4, <2>1, <2>2
  <2> QED BY <2>3, <2>4
<1>9. t \in TableStates
  BY <1>3, <1>4
<1>10. m = w[n]
  <2>1. ASSUME NEW i \in 1..Len(a) PROVE w[i] = Stored(a[i], w[i - 1])
    <3>1. i \in 1..n /\ i \in 1..k
      BY <1>4, <1>6
    <3>2. a[i] = q[i]
      BY <1>6, <3>1
    <3>3. w[i] = Stored(q[i], w[i - 1])
      BY <1>3, <3>1
    <3> QED BY <3>2, <3>3
  <2>2. StoredAll(a, t) = w[Len(a)]
    BY <1>3, <1>6, <1>9, <2>1, BatchWalks
  <2> QED BY <1>5, <1>6, <2>2
<1>11. PICK x : x = [i \in 0..(k - n) |-> w[n + i]]
  OBVIOUS
<1>12. \A i \in 0..(k - n) : x[i] = w[n + i] /\ n + i \in 0..k
  BY <1>4, <1>11
<1>13. x \in [0..(k - n) -> TableStates] /\ x[0] = m /\ x[k - n] = z
  <2>1. n + 0 = n /\ n + (k - n) = k /\ 0 \in 0..(k - n) /\ k - n \in 0..(k - n)
    BY <1>4
  <2>2. \A i \in 0..(k - n) : x[i] \in TableStates
    BY <1>3, <1>12
  <2> QED BY <1>3, <1>10, <1>11, <1>12, <2>1, <2>2
<1>14. ASSUME NEW i \in 1..(k - n) PROVE x[i] = Stored(b[i], x[i - 1])
  <2>1. i \in 0..(k - n) /\ i - 1 \in 0..(k - n) /\ n + i \in 1..k /\ n + (i - 1) = (n + i) - 1
    BY <1>4
  <2>2. x[i] = w[n + i] /\ x[i - 1] = w[(n + i) - 1]
    BY <1>12, <2>1
  <2> QED BY <1>3, <1>8, <2>1, <2>2
<1>15. \A i, j \in 0..(k - n) : i <= j => TotalOf(x[i]) <= TotalOf(x[j])
  <2> TAKE i, j \in 0..(k - n)
  <2> HAVE i <= j
  <2>1. n + i <= n + j
    BY <1>4
  <2> QED BY <1>3, <1>12, <2>1
<1>16. StoredOneByOne(x, m, b, z)
  BY <1>3, <1>8, <1>12, <1>13, <1>14, <1>15 DEF StoredOneByOne
<1>17. Chain(m, b, z)
  BY <1>8, <1>16 DEF Chain
<1> QED BY <1>3, <1>4, <1>7, <1>9, <1>10, <1>17

LEMMA ChainStart ==
  ASSUME NEW t, NEW q, NEW z, Chain(t, q, z)
  PROVE  /\ t \in TableStates /\ z \in TableStates /\ q \in Seq(Events)
         /\ t.row = NoRow \/ Reconciled(t)
<1>1. PICK w : q \in Seq(Events) /\ StoredOneByOne(w, t, q, z)
  BY DEF Chain
<1>2. 0 \in 0..Len(q) /\ Len(q) \in 0..Len(q)
  BY <1>1
<1> QED BY <1>1, <1>2 DEF StoredOneByOne

\* What a step of the engine or of the worker leaves of a query.
LEMMA AnsweredFrame ==
  ASSUME query' = query, TradesOf \in Nat, TradesOf' \in Nat, TradesOf <= TradesOf',
         NEW u, Answered(u)
  PROVE  Answered(u)'
<1>1. CASE query[u].pc = "trades"
  <2>1. query[u].row \in RealRows /\ TradesOf >= Qty - query[u].row.remaining_qty
    BY <1>1 DEF Answered
  <2>2. query[u].row.remaining_qty \in Nat /\ Qty \in Nat
    BY <2>1, QtyAssumption DEF RealRows
  <2>3. TradesOf' >= Qty - query[u].row.remaining_qty
    BY <2>1, <2>2
  <2> QED BY <1>1, <2>1, <2>3 DEF Answered
<1>2. CASE query[u].pc # "trades"
  BY <1>2 DEF Answered
<1> QED BY <1>1, <1>2

LEMMA TradesOfTables == TotalOf(Tables) = TradesOf
BY DEF TotalOf, Tables, TradesOf

\* The row of a created order.
LEMMA RowFacts ==
  ASSUME NEW r \in Nat
  PROVE  [original_qty |-> Qty, remaining_qty |-> r] \in RealRows
BY DEF RealRows

LEMMA PlaceCovers ==
  ASSUME CoverInv, NEW u \in Users, NEW m \in Markets, NEW filled \in 0..(Qty - 1),
         Place(u, m, filled)
  PROVE  \E y : Chain(Tables, events', y) /\ UpToDate(y)'
<1>1. PICK z : Chain(Tables, events, z) /\ UpToDate(z)
  BY DEF CoverInv
<1>2. /\ order = NoRow /\ order' = [user_id |-> u, market |-> m] /\ left' = Qty - filled
      /\ events' = events \o (IF filled > 0 THEN <<Event("as_taker", filled, 0)>> ELSE <<>>)
                     \o <<Event("created", 0, Qty - filled)>>
  BY DEF Place
<1>3. order' # NoRow
  BY <1>2, NoRowAssumption
<1>4. z = [row |-> NoRow, trades |-> [maker |-> 0, taker |-> 0]] /\ events \in Seq(Events)
  BY <1>1, <1>2, ChainStart DEF UpToDate
<1>5. Qty \in Nat /\ filled \in Nat /\ Qty - filled \in Nat /\ left' = Qty - filled
  BY <1>2, QtyAssumption
<1>6. PICK c \in Events : c = [kind |-> "created", qty |-> 0, remaining |-> Qty - filled]
  BY <1>5 DEF Events, Kinds
<1>7. PICK e \in Events : e = [kind |-> "as_taker", qty |-> filled, remaining |-> 0]
  BY <1>5 DEF Events, Kinds
<1>8. PICK x : x = [row |-> NoRow, trades |-> [maker |-> 0, taker |-> filled]]
  OBVIOUS
<1>9. PICK y : y = [row    |-> [original_qty |-> Qty, remaining_qty |-> Qty - filled],
                    trades |-> [maker |-> 0, taker |-> filled]]
  OBVIOUS
<1>10. Reconciled(y) /\ TotalOf(y) = filled /\ TotalOf(x) = filled /\ TotalOf(z) = 0
  BY <1>4, <1>5, <1>8, <1>9, RowFacts DEF Reconciled, TotalOf
<1>11. UpToDate(y)'
  BY <1>2, <1>3, <1>9, <1>10 DEF UpToDate, Reconciled, TotalOf
<1>12. CASE filled = 0
  <2>1. events' = Append(events, c)
    BY <1>2, <1>4, <1>6, <1>12 DEF Event
  <2>2. y = Stored(c, z)
    BY <1>4, <1>6, <1>9, <1>12 DEF Stored
  <2>3. Chain(Tables, Append(events, c), y)
    BY <1>1, <1>10, <1>12, <2>2, ChainExtended
  <2> QED BY <1>11, <2>1, <2>3
<1>13. CASE filled # 0
  <2>1. events' = Append(Append(events, e), c)
    <3>1. events' = (events \o <<e>>) \o <<c>>
      <4>1. filled > 0
        BY <1>5, <1>13
      <4>2. Event("as_taker", filled, 0) = e /\ Event("created", 0, Qty - filled) = c
        BY <1>6, <1>7 DEF Event
      <4> QED BY <1>2, <4>1, <4>2
    <3>2. PICK s \in Seq(Events) : s = Append(events, e)
      <4>1. events \in Seq(Events)
        BY <1>4
      <4> QED BY <4>1, Appended
    <3>3. events \o <<e>> = s
      BY <1>4, <3>2
    <3>4. s \o <<c>> = Append(s, c)
      OBVIOUS
    <3> QED BY <3>1, <3>2, <3>3, <3>4
  <2>2. x = Stored(e, z) /\ x.row = NoRow
    BY <1>4, <1>7, <1>8 DEF Stored
  <2>3. y = Stored(c, x)
    BY <1>6, <1>8, <1>9 DEF Stored
  <2>4. Chain(Tables, Append(events, e), x)
    BY <1>1, <1>5, <1>10, <2>2, ChainExtended
  <2>5. Chain(Tables, Append(Append(events, e), c), y)
    BY <1>5, <1>10, <2>3, <2>4, ChainExtended
  <2> QED BY <1>11, <2>1, <2>5
<1> QED BY <1>12, <1>13

\* Of an order in the book the tables will say what is left.
LEMMA OpenUpToDate ==
  ASSUME NEW z \in TableStates, UpToDate(z), left \in 0..Qty, left > 0
  PROVE  /\ order # NoRow
         /\ z.row = [original_qty |-> Qty, remaining_qty |-> left]
         /\ z = [row |-> z.row, trades |-> z.trades]
         /\ z.trades \in [maker : Nat, taker : Nat]
         /\ z.trades.maker + z.trades.taker = Qty - left
<1>1. order # NoRow
  BY DEF UpToDate
<1>2. Reconciled(z) /\ z.row.remaining_qty = left
  BY <1>1 DEF UpToDate
<1> QED BY <1>1, <1>2 DEF Reconciled, RealRows, TableStates, TotalOf

LEMMA FillCovers ==
  ASSUME CoverInv, NEW qty \in 1..Qty, Fill(qty)
  PROVE  \E y : Chain(Tables, events', y) /\ UpToDate(y)'
<1>1. PICK z : Chain(Tables, events, z) /\ UpToDate(z)
  BY DEF CoverInv
<1>2. /\ left >= qty /\ left' = left - qty /\ order' = order
      /\ events' = Append(events, Event("as_maker", qty, left - qty))
  BY DEF Fill
<1>3. left \in 0..Qty /\ left > 0 /\ left - qty \in Nat /\ Qty \in Nat /\ qty \in Nat /\ left \in Nat
  BY <1>2, QtyAssumption DEF CoverInv
<1>4. /\ order # NoRow
      /\ z.row = [original_qty |-> Qty, remaining_qty |-> left]
      /\ z = [row |-> z.row, trades |-> z.trades]
      /\ z.trades \in [maker : Nat, taker : Nat]
      /\ z.trades.maker + z.trades.taker = Qty - left
  BY <1>1, <1>3, ChainStart, OpenUpToDate
<1>5. PICK e \in Events : e = [kind |-> "as_maker", qty |-> qty, remaining |-> left - qty]
  BY <1>3 DEF Events, Kinds
<1>6. PICK y : y = [row    |-> [original_qty |-> Qty, remaining_qty |-> left - qty],
                    trades |-> [maker |-> z.trades.maker + qty, taker |-> z.trades.taker]]
  OBVIOUS
<1>7. y = Stored(e, z)
  <2>1. Stored(e, z) = [z EXCEPT !.trades.maker = @ + qty, !.row.remaining_qty = left - qty]
    BY <1>5 DEF Stored
  <2>2. PICK maker \in Nat, tk \in Nat : z.trades = [maker |-> maker, taker |-> tk]
    BY <1>4
  <2>3. z = [row    |-> [original_qty |-> Qty, remaining_qty |-> left],
             trades |-> [maker |-> maker, taker |-> tk]]
    BY <1>4, <2>2
  <2>4. Stored(e, z) = [row    |-> [original_qty |-> Qty, remaining_qty |-> left - qty],
                        trades |-> [maker |-> maker + qty, taker |-> tk]]
    BY <2>1, <2>3
  <2> QED BY <1>6, <2>2, <2>4
<1>8. Reconciled(y) /\ TotalOf(z) <= TotalOf(y)
  BY <1>3, <1>4, <1>6, RowFacts DEF Reconciled, TotalOf
<1>9. Chain(Tables, Append(events, e), y)
  BY <1>1, <1>7, <1>8, ChainExtended
<1>10. UpToDate(y)'
  BY <1>2, <1>4, <1>6, <1>8 DEF UpToDate, Reconciled, TotalOf
<1> QED BY <1>2, <1>5, <1>9, <1>10 DEF Event

LEMMA CancelCovers ==
  ASSUME CoverInv, Cancel
  PROVE  \E y : Chain(Tables, events', y) /\ UpToDate(y)'
<1>1. PICK z : Chain(Tables, events, z) /\ UpToDate(z)
  BY DEF CoverInv
<1>2. /\ left > 0 /\ left' = 0 /\ order' = order
      /\ events' = Append(events, Event("cancelled", 0, left))
  BY DEF Cancel
<1>3. left \in 0..Qty /\ Qty \in Nat /\ left \in Nat
  BY <1>2, QtyAssumption DEF CoverInv
<1>4. /\ order # NoRow
      /\ z.row = [original_qty |-> Qty, remaining_qty |-> left]
      /\ z = [row |-> z.row, trades |-> z.trades]
      /\ z.trades \in [maker : Nat, taker : Nat]
      /\ z.trades.maker + z.trades.taker = Qty - left
  BY <1>1, <1>2, <1>3, ChainStart, OpenUpToDate
<1>5. PICK e \in Events : e = [kind |-> "cancelled", qty |-> 0, remaining |-> left]
  BY <1>3 DEF Events, Kinds
<1>6. z = Stored(e, z)
  <2>1. Stored(e, z) = [z EXCEPT !.row.remaining_qty = left]
    BY <1>5 DEF Stored
  <2> QED BY <1>4, <2>1
<1>7. Reconciled(z) /\ TotalOf(z) <= TotalOf(z)
  BY <1>3, <1>4, RowFacts DEF Reconciled, TotalOf
<1>8. Chain(Tables, Append(events, e), z)
  BY <1>1, <1>6, <1>7, ChainExtended
<1>9. UpToDate(z)'
  BY <1>2, <1>4, <1>7 DEF UpToDate, Reconciled, TotalOf
<1> QED BY <1>2, <1>5, <1>8, <1>9 DEF Event

LEMMA CommitCovers ==
  ASSUME CoverInv, NEW n \in 1..(Qty + 2), Commit(n)
  PROVE  /\ \E z : Chain(Tables, events, z)' /\ UpToDate(z)'
         /\ TradesOf \in Nat /\ TradesOf' \in Nat /\ TradesOf <= TradesOf'
<1>1. PICK z : Chain(Tables, events, z) /\ UpToDate(z)
  BY DEF CoverInv
<1>2. PICK m : m = StoredAll(SubSeq(events, 1, n), Tables)
  OBVIOUS
<1>3. /\ n <= Len(events) /\ row' = m.row /\ trades' = m.trades
      /\ events' = SubSeq(events, n + 1, Len(events)) /\ UNCHANGED <<order, left, query>>
  BY <1>2 DEF Commit
<1>4. n \in 1..Len(events)
  <2>1. events \in Seq(Events) /\ Qty \in Nat
    BY <1>1, ChainStart, QtyAssumption
  <2> QED BY <1>3, <2>1
<1>5. PICK t : t = Tables
  OBVIOUS
<1>6. /\ m \in TableStates /\ t \in TableStates /\ TotalOf(t) <= TotalOf(m)
      /\ Chain(m, SubSeq(events, n + 1, Len(events)), z)
  BY <1>1, <1>2, <1>4, <1>5, ChainSplit
<1>7. Tables' = m
  BY <1>3, <1>6 DEF Tables, TableStates
<1>8. Chain(Tables, events, z)' /\ UpToDate(z)'
  <2>1. Chain(Tables', events', z)
    BY <1>3, <1>6, <1>7
  <2>2. Chain(Tables, events, z)'
    BY <2>1 DEF Chain, StoredOneByOne, Reconciled, TotalOf, Stored
  <2>3. UpToDate(z)'
    BY <1>1, <1>3 DEF UpToDate, Reconciled, TotalOf
  <2> QED BY <2>2, <2>3
<1>9. TradesOf' = TotalOf(m) /\ TradesOf = TotalOf(t)
  BY <1>3, <1>5 DEF TradesOf, TotalOf, Tables
<1> QED BY <1>6, <1>8, <1>9, TotalType

LEMMA QueryCovers ==
  ASSUME CoverInv, NEW u \in Users, SelectRow(u) \/ SelectTrades(u) \/ AskEngine(u)
  PROVE  Answered(u)'
<1>1. PICK z : Chain(Tables, events, z) /\ UpToDate(z)
  BY DEF CoverInv
<1>2. Answered(u) /\ query = [v \in Users |-> query[v]] /\ DOMAIN query[u] = Fields
  BY DEF CoverInv, QueryType
<1>3. CASE SelectRow(u)
  <2>1. /\ query'[u].pc \in {"engine", "not_found", "trades"}
        /\ query'[u].row = row
        /\ query'[u].pc = "trades" => row # NoRow
        /\ UNCHANGED <<row, trades>>
    BY <1>2, <1>3 DEF SelectRow
  <2>2. row # NoRow => row \in RealRows /\ TradesOf = Qty - row.remaining_qty
    <3>1. Tables.row = NoRow \/ Reconciled(Tables)
      BY <1>1, ChainStart
    <3>2. Tables.row = row
      BY DEF Tables
    <3> QED BY <3>1, <3>2, TradesOfTables DEF Reconciled
  <2>3. row \in RealRows => Qty - row.remaining_qty \in Int
    BY QtyAssumption DEF RealRows
  <2> QED BY <2>1, <2>2, <2>3 DEF Answered, TradesOf
<1>4. CASE SelectTrades(u)
  <2>1. /\ query[u].pc = "trades" /\ query'[u].pc = "found"
        /\ query'[u].row = query[u].row /\ query'[u].trades = TradesOf
    BY <1>2, <1>4 DEF SelectTrades, Fields
  <2>2. query[u].row \in RealRows /\ TradesOf >= Qty - query[u].row.remaining_qty
    BY <1>2, <2>1 DEF Answered
  <2>3. query[u].row.original_qty = Qty
    BY <2>2 DEF RealRows
  <2> QED BY <2>1, <2>2, <2>3 DEF Answered
<1>5. CASE AskEngine(u)
  <2>1. /\ query'[u].pc = IF InBook(u) THEN "found" ELSE "not_found"
        /\ InBook(u) => query'[u].row = Fallback
    BY <1>2, <1>5 DEF AskEngine, Fields
  <2>2. "market" \in DOMAIN Fallback
    BY DEF Fallback
  <2> QED BY <2>1, <2>2 DEF Answered
<1> QED BY <1>3, <1>4, <1>5

LEMMA CoverInvStep == CoverInv /\ [StatusNext]_statusVars => CoverInv'
<1> SUFFICES ASSUME CoverInv, [StatusNext]_statusVars PROVE CoverInv'
  OBVIOUS
<1>1. QueryType'
  BY QueryTypeStep DEF CoverInv
<1>2. /\ \A u \in Users : Answered(u)
      /\ \E z : Chain(Tables, events, z) /\ UpToDate(z)
      /\ left \in 0..Qty /\ Qty \in Nat
  BY QtyAssumption DEF CoverInv
<1>3. TradesOf \in Nat
  BY <1>2, ChainStart, TotalType, TradesOfTables
<1>4. ASSUME UNCHANGED <<row, trades, query>>, left' \in 0..Qty,
             \E y : Chain(Tables, events', y) /\ UpToDate(y)'
      PROVE  CoverInv'
  <2>1. Tables' = Tables /\ TradesOf' = TradesOf
    BY <1>4 DEF Tables, TradesOf
  <2>2. \E y : Chain(Tables, events, y)' /\ UpToDate(y)'
    BY <1>4, <2>1 DEF Chain, StoredOneByOne, Reconciled, TotalOf, Stored
  <2>3. ASSUME NEW u \in Users PROVE Answered(u)'
    BY <1>2, <1>3, <1>4, <2>1, AnsweredFrame
  <2> QED BY <1>1, <1>4, <2>2, <2>3 DEF CoverInv
<1>5. CASE UNCHANGED statusVars
  <2>1. UNCHANGED <<order, left, events, row, trades, query>>
    BY <1>5 DEF statusVars
  <2>2. \E y : Chain(Tables, events', y) /\ UpToDate(y)'
    BY <1>2, <2>1 DEF UpToDate, Reconciled, TotalOf
  <2> QED BY <1>2, <1>4, <2>1, <2>2
<1>6. ASSUME NEW u \in Users, NEW m \in Markets, NEW filled \in 0..(Qty - 1), Place(u, m, filled)
      PROVE  CoverInv'
  <2>1. UNCHANGED <<row, trades, query>> /\ left' \in 0..Qty
    BY <1>2, <1>6 DEF Place
  <2> QED BY <1>4, <1>6, <2>1, PlaceCovers
<1>7. ASSUME NEW qty \in 1..Qty, Fill(qty) PROVE CoverInv'
  <2>1. UNCHANGED <<row, trades, query>> /\ left' \in 0..Qty
    BY <1>2, <1>7 DEF Fill
  <2> QED BY <1>4, <1>7, <2>1, FillCovers
<1>8. CASE Cancel
  <2>1. UNCHANGED <<row, trades, query>> /\ left' \in 0..Qty
    BY <1>2, <1>8 DEF Cancel
  <2> QED BY <1>4, <1>8, <2>1, CancelCovers
<1>9. ASSUME NEW n \in 1..(Qty + 2), Commit(n) PROVE CoverInv'
  <2>1. query' = query /\ left' = left
    BY <1>9 DEF Commit
  <2>2. /\ \E z : Chain(Tables, events, z)' /\ UpToDate(z)'
        /\ TradesOf \in Nat /\ TradesOf' \in Nat /\ TradesOf <= TradesOf'
    BY <1>9, CommitCovers
  <2>3. ASSUME NEW u \in Users PROVE Answered(u)'
    BY <1>2, <2>1, <2>2, AnsweredFrame
  <2> QED BY <1>1, <1>2, <2>1, <2>2, <2>3 DEF CoverInv
<1>10. ASSUME NEW u \in Users, SelectRow(u) \/ SelectTrades(u) \/ AskEngine(u) PROVE CoverInv'
  <2>1. UNCHANGED <<order, left, events, row, trades>>
    BY <1>10 DEF SelectRow, SelectTrades, AskEngine
  <2>2. \A v \in Users : v # u => query'[v] = query[v]
    BY <1>10 DEF SelectRow, SelectTrades, AskEngine, CoverInv, QueryType
  <2>3. ASSUME NEW v \in Users PROVE Answered(v)'
    <3>1. CASE v = u
      BY <1>10, <3>1, QueryCovers
    <3>2. CASE v # u
      BY <1>2, <2>1, <2>2, <3>2 DEF Answered, TradesOf
    <3> QED BY <3>1, <3>2
  <2>4. \E z : Chain(Tables, events, z)' /\ UpToDate(z)'
    <3>1. PICK z : Chain(Tables, events, z) /\ UpToDate(z)
      BY <1>2
    <3>2. Chain(Tables', events', z)
      BY <2>1, <3>1 DEF Tables
    <3>3. Chain(Tables, events, z)'
      BY <3>2 DEF Chain, StoredOneByOne, Reconciled, TotalOf, Stored
    <3>4. UpToDate(z)'
      BY <2>1, <3>1 DEF UpToDate, Reconciled, TotalOf
    <3> QED BY <3>3, <3>4
  <2> QED BY <1>1, <1>2, <2>1, <2>3, <2>4 DEF CoverInv
<1> QED BY <1>5, <1>6, <1>7, <1>8, <1>9, <1>10 DEF StatusNext

LEMMA CoverInvInit == StatusInit => CoverInv
<1> SUFFICES ASSUME StatusInit PROVE CoverInv
  OBVIOUS
<1>1. query = [u \in Users |-> query[u]] /\ \A u \in Users : query[u] = NoQuery
  BY DEF StatusInit
<1>2. QueryType /\ \A u \in Users : Answered(u)
  BY <1>1 DEF QueryType, NoQuery, Fields, Answered
<1>3. PICK z \in TableStates : z = [row |-> NoRow, trades |-> [maker |-> 0, taker |-> 0]]
  BY DEF TableStates, AnyRows
<1>4. Tables = z /\ events = <<>> /\ UpToDate(z)
  BY <1>3 DEF StatusInit, Tables, UpToDate
<1>5. PICK w : w = [i \in 0..0 |-> z]
  OBVIOUS
<1>6. StoredOneByOne(w, z, <<>>, z)
  <2>1. TotalOf(z) <= TotalOf(z)
    BY TotalType
  <2> QED BY <1>3, <1>5, <2>1 DEF StoredOneByOne
<1>7. Chain(Tables, events, z)
  BY <1>4, <1>6 DEF Chain
<1>8. left \in 0..Qty
  BY QtyAssumption DEF StatusInit
<1> QED BY <1>2, <1>4, <1>7, <1>8 DEF CoverInv

\* The trades in an answer of get_order cover what its row says was filled,
\* though row and trades are read apart and the worker commits batches of any
\* size between the two reads: every prefix of the events that are not stored
\* yet leaves row and trades reconciled, and trades only grow.
THEOREM TradesAlwaysCoverRow == StatusInit /\ [][StatusNext]_statusVars => []TradesCoverRow
<1>1. CoverInv => TradesCoverRow
  BY DEF CoverInv, Answered, TradesCoverRow
<1> QED
  BY <1>1, CoverInvInit, CoverInvStep, PTL
=============================================================================
