---------------------------- MODULE StreamProofs ----------------------------
(***************************************************************************)
(* Proofs about the readers of the execution stream, for any number of     *)
(* events, batches, resets, crashes and failures: what the listener        *)
(* forwards, and what the ledger worker stores.                            *)
(***************************************************************************)
EXTENDS StreamReaders, FiniteSetTheorems, TLAPS

-----------------------------------------------------------------------------
\* The stream.

StreamType ==
  /\ published \in Nat /\ published <= MaxEvents
  /\ stream \in SUBSET (1..published)
  /\ reset \in {"none", "trades", "orders", "checkpoint", "send"}

LEMMA StreamTypeInit == Init => StreamType
BY StreamAssumption DEF Init, StreamInit, StreamType

LEMMA StreamTypeStep ==
  ASSUME StreamType, [Next]_vars
  PROVE  StreamType'
<1> USE DEF StreamType
<1>1. CASE UNCHANGED streamVars
  BY <1>1 DEF streamVars
<1>2. CASE Publish
  BY <1>2, StreamAssumption DEF Publish
<1>3. CASE EndReset
  BY <1>3 DEF EndReset, DelStream, KeepStream
<1>4. CASE DeleteRows
  BY <1>4 DEF DeleteRows, Delete
<1>5. CASE ResetCheckpoint \/ AbandonReset
  BY <1>5 DEF ResetCheckpoint, AbandonReset
<1> QED
  BY <1>1, <1>2, <1>3, <1>4, <1>5 DEF Next, vars, WorkerNext, Start, Read, Commit, Stop,
     ListenerNext, Call, Return, Timeout, ReadError, Forward

\* What was published stays so, and what was deleted does not come back.
LEMMA OnlyGrows ==
  ASSUME StreamType, [Next]_vars
  PROVE  /\ published \in Nat /\ published' \in Nat /\ published <= published'
         /\ \A e \in 1..published : e \notin stream => e \notin stream'
<1> USE DEF StreamType
<1>1. CASE UNCHANGED <<published, stream>>
  BY <1>1
<1>2. CASE Publish
  BY <1>2 DEF Publish
<1>3. CASE DeleteRows \/ ResetCheckpoint \/ AbandonReset \/ EndReset
  BY <1>3 DEF DeleteRows, Delete, ResetCheckpoint, AbandonReset, EndReset, DelStream, KeepStream
<1> QED
  BY <1>1, <1>2, <1>3 DEF Next, vars, streamVars, WorkerNext, Start, Read, Commit, Stop,
     ListenerNext, Call, Return, Timeout, ReadError, Forward

-----------------------------------------------------------------------------
\* The listener.

\* Below this the listener is done.
Lower == IF position = 0 THEN from ELSE position

ListenerType ==
  /\ position \in 0..published
  /\ blocked \in BOOLEAN
  /\ from \in 0..published
  /\ records \in SUBSET (1..published)
  /\ forwarded \in Seq(Nat)
  /\ position = 0 => forwarded = <<>>
  /\ position # 0 => forwarded # <<>> /\ forwarded[Len(forwarded)] = position /\ forwarded[1] > 0
  /\ blocked => records = {} /\ (position # 0 => from = position)

\* Up to a record that waits nothing is left out: what is below it waits too or
\* was deleted.
RecordsNext ==
  \A r \in records : Lower < r /\ \A d \in (Lower + 1)..r : d \in records \/ d \notin stream

\* From the first event forwarded to the last, in order.
ForwardedNext ==
  /\ \A i, j \in 1..Len(forwarded) : i < j => forwarded[i] < forwarded[j]
  /\ position # 0 => \A e \in forwarded[1]..position :
       e \notin stream \/ \E i \in 1..Len(forwarded) : forwarded[i] = e

ListenerInv == StreamType /\ ListenerType /\ RecordsNext /\ ForwardedNext

LEMMA ListenerInvInit == Init => ListenerInv
<1> SUFFICES ASSUME Init PROVE ListenerInv
  OBVIOUS
<1>1. ListenerType
  <2>1. published = 0
    BY DEF Init, StreamInit
  <2>2. position = 0 /\ from = 0 /\ records = {} /\ forwarded = <<>> /\ blocked = FALSE
    BY DEF Init, ListenerInit
  <2>3. forwarded \in Seq(Nat) /\ 0 \in 0..published
    BY <2>1, <2>2
  <2> QED
    BY <2>2, <2>3 DEF ListenerType
<1>2. RecordsNext /\ ForwardedNext
  BY DEF Init, ListenerInit, RecordsNext, ForwardedNext
<1> QED
  BY <1>1, <1>2, StreamTypeInit DEF ListenerInv

LEMMA ListenerIdle ==
  ASSUME ListenerInv, [Next]_vars, UNCHANGED listenerVars
  PROVE  ListenerInv'
<1>1. /\ published \in Nat /\ published' \in Nat /\ published <= published'
      /\ \A e \in 1..published : e \notin stream => e \notin stream'
  BY OnlyGrows DEF ListenerInv
<1>2. ListenerType'
  BY <1>1 DEF ListenerInv, ListenerType, listenerVars
<1>3. Lower' = Lower /\ records' = records /\ position' = position /\ forwarded' = forwarded
  BY DEF listenerVars, Lower
<1>4. Lower \in 0..published /\ position \in 0..published /\ records \subseteq 1..published
      /\ forwarded \in Seq(Nat) /\ (position # 0 => forwarded # <<>>)
  BY DEF ListenerInv, ListenerType, Lower
<1>5. RecordsNext'
  <2> SUFFICES ASSUME NEW r \in records
               PROVE  Lower < r /\ \A d \in (Lower + 1)..r : d \in records \/ d \notin stream'
    BY <1>3 DEF RecordsNext
  <2>1. Lower < r /\ \A d \in (Lower + 1)..r : d \in records \/ d \notin stream
    BY DEF ListenerInv, RecordsNext
  <2>2. \A d \in (Lower + 1)..r : d \in 1..published
    BY <1>1, <1>4
  <2> QED
    BY <1>1, <2>1, <2>2
<1>6. ForwardedNext'
  <2>1. \A i, j \in 1..Len(forwarded) : i < j => forwarded[i] < forwarded[j]
    BY DEF ListenerInv, ForwardedNext
  <2>2. ASSUME position # 0, NEW e \in forwarded[1]..position
        PROVE  e \notin stream' \/ \E i \in 1..Len(forwarded) : forwarded[i] = e
    <3>1. e \notin stream \/ \E i \in 1..Len(forwarded) : forwarded[i] = e
      BY <2>2 DEF ListenerInv, ForwardedNext
    <3>2. CASE e \in 1..published
      BY <1>1, <3>1, <3>2
    <3>3. CASE e \notin 1..published
      <4>1. e = 0 /\ e \notin 1..published'
        BY <1>1, <1>4, <2>2, <3>3
      <4> QED
        BY <4>1, StreamTypeStep DEF ListenerInv, StreamType
    <3> QED
      BY <3>2, <3>3
  <2> QED
    BY <1>3, <2>1, <2>2 DEF ForwardedNext
<1> QED
  BY <1>2, <1>5, <1>6, StreamTypeStep DEF ListenerInv

\* A record is forwarded.
LEMMA ListenerForwards ==
  ASSUME ListenerInv, NEW e \in records, Forward(e)
  PROVE  ListenerType' /\ RecordsNext' /\ ForwardedNext'
<1> DEFINE n == Len(forwarded)
<1>1. /\ \A d \in records : e <= d
      /\ records' = records \ {e} /\ position' = e /\ forwarded' = Append(forwarded, e)
      /\ from' = 0 /\ UNCHANGED <<published, stream, blocked>>
  BY DEF Forward, streamVars
<1>2. /\ published \in Nat /\ records \subseteq 1..published /\ position \in 0..published
      /\ from \in 0..published /\ forwarded \in Seq(Nat)
      /\ position = 0 => forwarded = <<>>
      /\ position # 0 => forwarded # <<>> /\ forwarded[n] = position /\ forwarded[1] > 0
      /\ ~blocked /\ blocked \in BOOLEAN
  BY DEF ListenerInv, StreamType, ListenerType
<1>3. e \in Nat /\ e # 0 /\ e <= published /\ n \in Nat
  BY <1>2
<1>4. /\ forwarded' \in Seq(Nat) /\ Len(forwarded') = n + 1 /\ forwarded'[n + 1] = e
      /\ \A i \in 1..n : forwarded'[i] = forwarded[i] /\ forwarded[i] \in Nat
  BY <1>1, <1>2, <1>3
<1>5. Lower < e /\ \A d \in (Lower + 1)..e : d \in records \/ d \notin stream
  BY DEF ListenerInv, RecordsNext
<1>6. Lower' = e /\ Lower \in Nat
  BY <1>1, <1>2, <1>3 DEF Lower
<1>7. ListenerType'
  <2>1. forwarded' # <<>>
    BY <1>3, <1>4
  <2>2. forwarded'[1] > 0
    <3>1. CASE position = 0
      <4>1. n = 0
        BY <1>2, <3>1
      <4> QED
        BY <1>3, <1>4, <4>1
    <3>2. CASE position # 0
      <4>1. 1 \in 1..n
        BY <1>2, <1>3, <3>2
      <4> QED
        BY <1>2, <1>4, <3>2, <4>1
    <3> QED
      BY <3>1, <3>2
  <2> QED
    BY <1>1, <1>2, <1>3, <1>4, <2>1, <2>2 DEF ListenerType
<1>8. RecordsNext'
  <2> SUFFICES ASSUME NEW r \in records, r # e
               PROVE  e < r /\ \A d \in (e + 1)..r : d \in records \ {e} \/ d \notin stream
    BY <1>1, <1>6 DEF RecordsNext
  <2>1. r \in Nat /\ e < r
    BY <1>1, <1>2, <1>3
  <2>2. \A d \in (Lower + 1)..r : d \in records \/ d \notin stream
    BY DEF ListenerInv, RecordsNext
  <2>3. \A d \in (e + 1)..r : d \in (Lower + 1)..r /\ d # e
    BY <1>3, <1>5, <1>6, <2>1
  <2> QED
    BY <2>1, <2>2, <2>3
<1>9. \A i \in 1..n : position # 0 /\ forwarded[i] <= position
  <2> SUFFICES ASSUME NEW i \in 1..n PROVE position # 0 /\ forwarded[i] <= position
    OBVIOUS
  <2>1. n > 0 /\ position # 0
    BY <1>2, <1>3
  <2>2. \A j, k \in 1..n : j < k => forwarded[j] < forwarded[k]
    BY DEF ListenerInv, ForwardedNext
  <2>3. i = n \/ forwarded[i] < forwarded[n]
    BY <1>3, <2>1, <2>2
  <2> QED
    BY <1>2, <1>4, <2>1, <2>3
<1>10. \A i, j \in 1..Len(forwarded') : i < j => forwarded'[i] < forwarded'[j]
  <2> SUFFICES ASSUME NEW i \in 1..(n + 1), NEW j \in 1..(n + 1), i < j
               PROVE  forwarded'[i] < forwarded'[j]
    BY <1>4
  <2>1. i \in 1..n
    BY <1>3
  <2>2. CASE j \in 1..n
    <3>1. forwarded[i] < forwarded[j]
      BY <2>1, <2>2 DEF ListenerInv, ForwardedNext
    <3> QED
      BY <1>4, <2>1, <2>2, <3>1
  <2>3. CASE j = n + 1
    <3>1. position # 0 /\ forwarded[i] <= position /\ forwarded[i] \in Nat
      BY <1>4, <1>9, <2>1
    <3>2. position < e
      BY <1>5, <3>1 DEF Lower
    <3> QED
      BY <1>2, <1>3, <1>4, <2>1, <2>3, <3>1, <3>2
  <2> QED
    BY <1>3, <2>2, <2>3
<1>11. ASSUME NEW f \in forwarded'[1]..e
       PROVE  f \notin stream \/ \E i \in 1..Len(forwarded') : forwarded'[i] = f
  <2>1. CASE f = e
    <3>1. n + 1 \in 1..Len(forwarded')
      BY <1>3, <1>4
    <3> QED
      BY <1>4, <2>1, <3>1
  <2>2. CASE f # e
    <3>1. position # 0
      <4>1. ASSUME position = 0 PROVE FALSE
        <5>1. n = 0
          BY <1>2, <4>1
        <5>2. forwarded'[1] = e
          BY <1>4, <5>1
        <5> QED
          BY <1>3, <2>2, <5>2
      <4> QED
        BY <4>1
    <3>2. Lower = position /\ 1 \in 1..n /\ n \in 1..n
      BY <1>2, <1>3, <3>1 DEF Lower
    <3>3. forwarded'[1] = forwarded[1] /\ forwarded[1] \in Nat /\ f \in Nat /\ f < e
      BY <1>3, <1>4, <2>2, <3>2
    <3>4. CASE f <= position
      <4>1. f \in forwarded[1]..position
        BY <1>2, <3>3, <3>4
      <4>2. f \notin stream \/ \E i \in 1..n : forwarded[i] = f
        BY <3>1, <4>1 DEF ListenerInv, ForwardedNext
      <4>3. \A i \in 1..n : i \in 1..Len(forwarded')
        BY <1>3, <1>4
      <4> QED
        BY <1>4, <4>2, <4>3
    <3>5. CASE ~(f <= position)
      <4>1. f \in (Lower + 1)..e
        BY <1>2, <1>3, <3>2, <3>3, <3>5
      <4>2. f \notin records
        BY <1>1, <1>3, <3>3
      <4> QED
        BY <1>5, <4>1, <4>2
    <3> QED
      BY <3>4, <3>5
  <2> QED
    BY <2>1, <2>2
<1> QED
  BY <1>1, <1>7, <1>8, <1>10, <1>11 DEF ForwardedNext

LEMMA ListenerInvStep == ListenerInv /\ [Next]_vars => ListenerInv'
<1> SUFFICES ASSUME ListenerInv, [Next]_vars PROVE ListenerInv'
  OBVIOUS
<1>1. StreamType'
  BY StreamTypeStep DEF ListenerInv
<1>2. CASE UNCHANGED listenerVars
  BY <1>2, ListenerIdle
<1>3. ASSUME NEW e \in records, Forward(e) PROVE ListenerInv'
  BY <1>1, <1>3, ListenerForwards DEF ListenerInv
<1>4. published \in Nat
  BY DEF ListenerInv, StreamType
<1>5. CASE Call
  <2>1. /\ records = {} /\ records' = {} /\ blocked' = TRUE /\ from' = From(position)
        /\ UNCHANGED <<published, stream, position, forwarded>>
    BY <1>5 DEF Call, streamVars
  <2>2. ListenerType'
    BY <1>4, <2>1 DEF ListenerInv, ListenerType, From
  <2> QED
    BY <1>1, <2>1, <2>2 DEF ListenerInv, RecordsNext, ForwardedNext
<1>6. CASE Return
  <2>1. PICK e \in After(from) : records' = {d \in After(from) : d <= e}
    BY <1>6 DEF Return
  <2>2. blocked /\ blocked' = FALSE /\ UNCHANGED <<published, stream, position, from, forwarded>>
    BY <1>6 DEF Return, streamVars
  <2>3. stream \subseteq 1..published /\ from \in 0..published /\ position \in 0..published
        /\ (position # 0 => from = position)
    BY <2>2 DEF ListenerInv, StreamType, ListenerType
  <2>4. Lower' = from
    BY <2>2, <2>3 DEF Lower
  <2>5. ListenerType'
    BY <2>1, <2>2, <2>3 DEF ListenerInv, ListenerType, After
  <2>6. ASSUME NEW r \in records' PROVE from < r /\ \A d \in (from + 1)..r : d \in records' \/ d \notin stream
    <3>1. r \in stream /\ r > from /\ r <= e /\ e \in stream
      BY <2>1 DEF After
    <3>2. ASSUME NEW d \in (from + 1)..r, d \in stream PROVE d > from /\ d <= e
      BY <1>4, <2>3, <3>1
    <3> QED
      BY <2>1, <2>3, <3>1, <3>2 DEF After
  <2> QED
    BY <1>1, <2>2, <2>4, <2>5, <2>6 DEF ListenerInv, RecordsNext, ForwardedNext
<1>7. CASE Timeout \/ ReadError
  <2>1. /\ blocked /\ blocked' = FALSE /\ from' = 0
        /\ UNCHANGED <<published, stream, position, records, forwarded>>
    BY <1>7 DEF Timeout, ReadError, streamVars
  <2>2. ListenerType'
    <3>1. 0 \in 0..published
      BY <1>4
    <3> QED
      BY <2>1, <3>1 DEF ListenerInv, ListenerType
  <2>3. RecordsNext'
    BY <2>1 DEF ListenerInv, ListenerType, RecordsNext
  <2> QED
    BY <1>1, <2>1, <2>2, <2>3 DEF ListenerInv, ForwardedNext
<1> QED
  BY <1>2, <1>3, <1>5, <1>6, <1>7 DEF Next, vars, ListenerNext

\* From the first record it got the listener forwards every event once and in
\* order, but for those a reset deleted (ws/listener.rs): an XREAD that returns
\* leaves out nothing up to its last record, and it is only called again when
\* all its records were forwarded.  Nothing is assumed of resets or workers.
THEOREM ListenerForwardsAll == Spec => []InOrderNoGaps
<1>1. ListenerInv => InOrderNoGaps
  <2> SUFFICES ASSUME ListenerInv, forwarded # <<>> PROVE
                 /\ \A i, j \in DOMAIN forwarded : i < j => forwarded[i] < forwarded[j]
                 /\ \A e \in Head(forwarded)..Last(forwarded) : e \in Deleted \cup ToSet(forwarded)
    BY DEF InOrderNoGaps
  <2>1. /\ forwarded \in Seq(Nat) /\ position # 0 /\ Last(forwarded) = position
        /\ position \in 0..published /\ published \in Nat /\ forwarded[1] > 0
    BY DEF ListenerInv, ListenerType, StreamType, Last
  <2>2. DOMAIN forwarded = 1..Len(forwarded) /\ Head(forwarded) = forwarded[1]
        /\ 1 \in 1..Len(forwarded) /\ Len(forwarded) \in 1..Len(forwarded)
    BY <2>1
  <2>3. ASSUME NEW e \in forwarded[1]..position PROVE e \in Deleted \cup ToSet(forwarded)
    <3>1. e \notin stream \/ \E i \in 1..Len(forwarded) : forwarded[i] = e
      BY <2>1 DEF ListenerInv, ForwardedNext
    <3>2. CASE \E i \in 1..Len(forwarded) : forwarded[i] = e
      BY <2>2, <3>2 DEF ToSet
    <3>3. CASE e \notin stream
      <4>1. forwarded[1] \in Nat
        BY <2>1, <2>2
      <4>2. e \in 1..published
        BY <2>1, <4>1
      <4> QED
        BY <3>3, <4>2 DEF Deleted, Published
    <3> QED
      BY <3>1, <3>2, <3>3
  <2> QED
    BY <2>1, <2>2, <2>3 DEF ListenerInv, ForwardedNext
<1> QED
  BY <1>1, ListenerInvInit, ListenerInvStep, PTL DEF Spec

-----------------------------------------------------------------------------
\* The ledger worker.

WorkerType ==
  /\ rows \in [Tables -> [Events -> 0..2]]
  /\ checkpoint \in 0..published
  /\ up \in [Workers -> {"down", "running", "stuck"}]
  /\ last_id \in [Workers -> 0..published]
  /\ batch \in [Workers -> SUBSET (1..published)]
  /\ tainted \in BOOLEAN

\* Resets have deleted the first b events; the others are in the stream.
Epoch(b) == b \in 0..published /\ stream = (b + 1)..published

\* Only what was published is stored.
StoredPublished == \A t \in Tables : \A e \in Events : rows[t][e] > 0 => e <= published

\* An open transaction has events that come after the worker's position.  Those
\* of them that were not deleted since are the next ones, in a row and not too
\* many.
BatchNext(b) ==
  \A w \in Workers : \A e \in batch[w] :
    /\ up[w] = "running" /\ e > last_id[w]
    /\ e > b => /\ \A d \in After(last_id[w]) : d <= e => d \in batch[w]
                /\ e - b <= BatchSize \/ e - last_id[w] <= BatchSize

WorkerInv ==
  /\ StreamType /\ WorkerType
  /\ StoredPublished
  /\ \E b \in 0..published : Epoch(b) /\ BatchNext(b)

\* A worker that runs is where the checkpoint is, as far as the stream goes.
WorkerAtCheckpoint ==
  reset = "none" /\ ~tainted =>
    \A w \in Workers : up[w] = "running" =>
      \A e \in stream : e <= last_id[w] <=> e <= checkpoint

\* One gateway is running.
OneGateway == \E w : Workers = {w}

\* A bounded set of numbers has a largest.
LEMMA HasLargest ==
  ASSUME NEW n \in Nat, NEW S \in SUBSET (1..n), S # {}
  PROVE  \E m \in S : \A x \in S : x <= m
<1> DEFINE R == {p \in Nat \X Nat : p[1] < p[2]}
           T == {n - x : x \in S}
<1>1. IsWellFoundedOn(R, Nat)
  BY NatLessThanWellFounded, Zenon DEF OpToRel
<1>2. T \in SUBSET Nat /\ T # {}
  <2>1. \A x \in S : n - x \in Nat
    OBVIOUS
  <2> QED
    BY <2>1
<1>3. PICK t \in T : \A y \in T : <<y, t>> \notin R
  <2> HIDE DEF R, T
  <2> QED BY <1>1, <1>2, WFMin
<1>4. PICK m \in S : t = n - m
  BY <1>3
<1>5. ASSUME NEW x \in S PROVE x <= m
  <2>1. n - x \in T /\ n - x \in Nat /\ t \in Nat
    BY <1>2
  <2>2. ~(n - x < t)
    BY <1>3, <2>1
  <2> QED
    BY <1>4, <2>2
<1> QED
  BY <1>5

\* The last event of a batch.
LEMMA BatchLastIs ==
  ASSUME StreamType, WorkerType, NEW w \in Workers, batch[w] # {}
  PROVE  BatchLast(w) \in batch[w] /\ \A d \in batch[w] : d <= BatchLast(w)
<1>1. published \in Nat /\ batch[w] \in SUBSET (1..published)
  BY DEF StreamType, WorkerType
<1>2. \E e \in batch[w] : \A d \in batch[w] : d <= e
  BY <1>1, HasLargest
<1> QED
  BY <1>2 DEF BatchLast

\* What XREAD returns: the next BatchSize events, or as many as there are.
LEMMA NextBatchIs ==
  ASSUME StreamType, NEW b \in 0..published, stream = (b + 1)..published,
         NEW id \in 0..published
  PROVE  /\ NextBatch(id) \subseteq After(id)
         /\ \A e \in NextBatch(id) : e - b <= BatchSize \/ e - id <= BatchSize
         /\ \A e \in NextBatch(id), d \in After(id) : d <= e => d \in NextBatch(id)
<1> DEFINE lo == IF id < b THEN b ELSE id
<1>1. published \in Nat /\ BatchSize \in Nat /\ lo \in 0..published
  BY WorkersAssumption DEF StreamType
<1>2. After(id) = (lo + 1)..published
  BY <1>1 DEF After
<1>3. ASSUME NEW e \in After(id)
      PROVE  Cardinality({d \in After(id) : d < e}) = e - 1 - lo
  <2>1. e \in Int /\ lo + 1 <= e /\ e <= published
    BY <1>1, <1>2
  <2>2. {d \in After(id) : d < e} = (lo + 1)..(e - 1)
    BY <1>1, <1>2, <2>1
  <2> DEFINE a == lo + 1
             c == e - 1
  <2>3. a \in Int /\ c \in Int
    BY <1>1, <2>1
  <2>4. Cardinality(a..c) = IF a > c THEN 0 ELSE c - a + 1
    <3> HIDE DEF a, c
    <3> QED
      BY <2>3, FS_Interval
  <2> HIDE DEF lo
  <2>5. (IF a > c THEN 0 ELSE c - a + 1) = e - 1 - lo
    BY <1>1, <2>1
  <2> QED
    BY <2>2, <2>4, <2>5
<1>4. NextBatch(id) = {e \in After(id) : e - 1 - lo < BatchSize}
  BY <1>3 DEF NextBatch
<1>5. \A e \in After(id) : e \in Int
  BY <1>1, <1>2
<1>6. \A e \in NextBatch(id) : e - b <= BatchSize \/ e - id <= BatchSize
  BY <1>1, <1>4, <1>5
<1>7. \A e \in NextBatch(id), d \in After(id) : d <= e => d \in NextBatch(id)
  BY <1>1, <1>4, <1>5
<1> QED
  BY <1>4, <1>6, <1>7

LEMMA WorkerInvInit == Init => WorkerInv
<1> SUFFICES ASSUME Init PROVE WorkerInv
  OBVIOUS
<1>1. published = 0 /\ stream = {}
  BY DEF Init, StreamInit
<1>2. /\ rows = [t \in Tables |-> [e \in Events |-> 0]] /\ checkpoint = 0
      /\ up = [w \in Workers |-> "down"] /\ last_id = [w \in Workers |-> 0]
      /\ batch = [w \in Workers |-> {}] /\ tainted = FALSE
  BY DEF Init, WorkerInit, NoRows
<1>3. WorkerType
  <2>1. /\ checkpoint \in 0..published /\ last_id \in [Workers -> 0..published]
        /\ batch \in [Workers -> SUBSET (1..published)]
        /\ up \in [Workers -> {"down", "running", "stuck"}]
    BY <1>1, <1>2
  <2>2. rows \in [Tables -> [Events -> 0..2]]
    BY <1>2
  <2>3. tainted \in BOOLEAN
    BY <1>2, Zenon
  <2> QED
    BY <2>1, <2>2, <2>3 DEF WorkerType
<1>4. StoredPublished
  BY <1>2 DEF StoredPublished
<1>5. Epoch(0) /\ BatchNext(0) /\ 0 \in 0..published
  BY <1>1, <1>2 DEF Epoch, BatchNext
<1> QED
  BY <1>3, <1>4, <1>5, StreamTypeInit DEF WorkerInv

LEMMA WorkerTypeStep ==
  ASSUME StreamType, WorkerType, [Next]_vars
  PROVE  WorkerType'
<1>1. published \in Nat /\ published' \in Nat /\ published <= published'
  BY OnlyGrows
<1>2. CASE UNCHANGED workerVars
  BY <1>1, <1>2 DEF WorkerType, workerVars
<1>3. ASSUME NEW w \in Workers, Start(w) PROVE WorkerType'
  <2>1. /\ UNCHANGED <<rows, checkpoint, batch, published>>
        /\ last_id' \in [Workers -> 0..published]
    BY <1>1, <1>3 DEF WorkerType, Start, streamVars
  <2>2. up' \in [Workers -> {"down", "running", "stuck"}]
    BY <1>3 DEF WorkerType, Start, Becomes
  <2>3. tainted' \in BOOLEAN
    BY <1>3 DEF WorkerType, Start, Works, Fails
  <2> QED
    BY <2>1, <2>2, <2>3 DEF WorkerType
<1>4. ASSUME NEW w \in Workers, Read(w) PROVE WorkerType'
  <2>1. NextBatch(last_id[w]) \subseteq 1..published
    BY DEF NextBatch, After, StreamType
  <2>2. UNCHANGED <<rows, checkpoint, last_id, published>>
    BY <1>4 DEF Read, streamVars
  <2>3. batch' \in [Workers -> SUBSET (1..published)]
    BY <1>4, <2>1 DEF WorkerType, Read
  <2>4. up' \in [Workers -> {"down", "running", "stuck"}]
    BY <1>4 DEF WorkerType, Read, Becomes
  <2>5. tainted' \in BOOLEAN
    BY <1>4 DEF WorkerType, Read, Works, Fails
  <2> QED
    BY <2>2, <2>3, <2>4, <2>5 DEF WorkerType
<1>5. ASSUME NEW w \in Workers, Commit(w) PROVE WorkerType'
  <2>1. BatchLast(w) \in 1..published
    BY <1>5, BatchLastIs DEF Commit, WorkerType
  <2>2. batch' \in [Workers -> SUBSET (1..published)] /\ up' = up /\ UNCHANGED streamVars
    BY <1>5 DEF Commit, Forget, WorkerType
  <2>3. tainted' \in BOOLEAN
    BY <1>5 DEF Commit, Works, Fails, WorkerType
  <2>4. checkpoint' \in 0..published
    BY <1>1, <1>5, <2>1 DEF Commit, Insert, WorkerType
  <2>5. last_id' \in [Workers -> 0..published]
    BY <1>1, <1>5, <2>1 DEF Commit, Advance, WorkerType
  <2>6. rows' \in [Tables -> [Events -> 0..2]]
    <3>1. \A t \in Tables : \A e \in Events : rows[t][e] \in 0..2
      BY DEF WorkerType
    <3>2. CASE Insert(w)
      BY <3>1, <3>2 DEF Insert
    <3>3. CASE rows' = rows
      BY <3>3 DEF WorkerType
    <3> QED
      BY <1>5, <3>2, <3>3 DEF Commit
  <2> QED
    BY <2>2, <2>3, <2>4, <2>5, <2>6 DEF WorkerType, streamVars
<1>6. ASSUME NEW w \in Workers, Stop(w) PROVE WorkerType'
  BY <1>1, <1>6 DEF WorkerType, Stop, Becomes, Forget, streamVars
<1>7. ASSUME NEW t \in Tables, NEW now, NEW next, Delete(t, now, next) PROVE WorkerType'
  <2>1. rows' \in [Tables -> [Events -> 0..2]]
    BY <1>7 DEF Delete, NoRows, WorkerType
  <2>2. tainted' \in BOOLEAN
    BY <1>7 DEF Delete, Works, Fails, WorkerType
  <2>3. UNCHANGED <<published, checkpoint, up, last_id, batch>>
    BY <1>7 DEF Delete
  <2> QED
    BY <2>1, <2>2, <2>3 DEF WorkerType
<1>8. CASE DeleteRows
  BY <1>7, <1>8 DEF DeleteRows, Tables
<1>9. CASE ResetCheckpoint
  <2>1. 0 \in 0..published /\ UNCHANGED <<published, rows, up, last_id, batch>>
    BY <1>1, <1>9 DEF ResetCheckpoint
  <2>2. tainted' \in BOOLEAN
    BY <1>9 DEF ResetCheckpoint, Works, Fails, WorkerType
  <2> QED
    BY <1>9, <2>1, <2>2 DEF ResetCheckpoint, WorkerType
<1>10. CASE AbandonReset \/ EndReset
  <2>1. UNCHANGED <<published, rows, checkpoint, up, last_id, batch>>
    BY <1>10 DEF AbandonReset, EndReset, DelStream, KeepStream
  <2>2. tainted' \in BOOLEAN
    BY <1>10 DEF AbandonReset, EndReset, Fails, WorkerType
  <2> QED
    BY <2>1, <2>2 DEF WorkerType
<1> QED
  BY <1>2, <1>3, <1>4, <1>5, <1>6, <1>8, <1>9, <1>10 DEF Next, vars, WorkerNext

\* What a step does to the tables: it stores a batch, empties one, or nothing.
LEMMA RowsStep ==
  ASSUME WorkerType, [Next]_vars, NEW t \in Tables, NEW e \in Events
  PROVE  \/ rows'[t][e] = rows[t][e]
         \/ rows'[t][e] = 0
         \/ \E w \in Workers : Commit(w) /\ e \in batch[w]
<1>1. CASE UNCHANGED rows
  BY <1>1
<1>2. ASSUME NEW w \in Workers, Commit(w) PROVE rows'[t][e] = rows[t][e] \/ e \in batch[w]
  BY <1>2 DEF Commit, Insert
<1>3. ASSUME NEW s \in Tables, NEW now, NEW next, Delete(s, now, next)
      PROVE  rows'[t][e] = rows[t][e] \/ rows'[t][e] = 0
  <2>1. CASE rows' = rows
    BY <2>1
  <2>2. CASE rows' = [rows EXCEPT ![s] = NoRows]
    BY <2>2 DEF WorkerType, NoRows
  <2> QED
    BY <1>3, <2>1, <2>2 DEF Delete
<1>4. CASE DeleteRows
  BY <1>3, <1>4 DEF DeleteRows, Tables
<1> QED
  BY <1>1, <1>2, <1>4 DEF Next, vars, workerVars, WorkerNext, Start, Read, Stop,
     ResetCheckpoint, AbandonReset, EndReset

LEMMA WorkerInvStep ==
  ASSUME WorkerInv, [Next]_vars
  PROVE  WorkerInv'
<1>1. StreamType' /\ WorkerType' /\ published \in Nat /\ published' \in Nat /\ published <= published'
  BY StreamTypeStep, WorkerTypeStep, OnlyGrows DEF WorkerInv
<1>2. PICK b \in 0..published : Epoch(b) /\ BatchNext(b)
  BY DEF WorkerInv
<1>3. stream = (b + 1)..published /\ stream \in SUBSET (1..published)
  BY <1>2 DEF WorkerInv, StreamType, Epoch
<1>4. StoredPublished'
  <2> SUFFICES ASSUME NEW t \in Tables, NEW e \in Events, rows'[t][e] > 0 PROVE e <= published'
    BY DEF StoredPublished
  <2>1. e \in Nat
    BY DEF Events
  <2>2. CASE rows'[t][e] = rows[t][e]
    BY <1>1, <2>1, <2>2 DEF WorkerInv, StoredPublished
  <2>3. ASSUME NEW w \in Workers, e \in batch[w] PROVE e <= published'
    BY <1>1, <2>1, <2>3 DEF WorkerInv, WorkerType
  <2> QED
    BY <2>2, <2>3, RowsStep DEF WorkerInv
<1>5. ASSUME UNCHANGED <<published, stream, up, last_id, batch>> PROVE WorkerInv'
  <2>1. Epoch(b)' /\ BatchNext(b)' /\ b \in 0..published'
    BY <1>2, <1>5 DEF Epoch, BatchNext, After
  <2> QED
    BY <1>1, <1>4, <2>1 DEF WorkerInv
<1>6. ASSUME Publish, UNCHANGED workerVars PROVE WorkerInv'
  <2>1. published' = published + 1 /\ stream' = stream \cup {published + 1}
        /\ UNCHANGED <<up, last_id, batch>>
    BY <1>6 DEF Publish, workerVars
  <2>2. Epoch(b)' /\ b \in 0..published'
    BY <1>1, <1>3, <2>1 DEF Epoch
  <2>3. BatchNext(b)'
    <3> SUFFICES ASSUME NEW w \in Workers, NEW e \in batch[w], e > b,
                        NEW d \in After(last_id[w])', d <= e
                 PROVE  d \in After(last_id[w])
      BY <1>2, <2>1 DEF BatchNext
    <3>1. e \in 1..published
      BY DEF WorkerInv, WorkerType
    <3> QED
      BY <1>1, <1>3, <2>1, <3>1 DEF After
  <2> QED
    BY <1>1, <1>4, <2>2, <2>3 DEF WorkerInv
<1>7. CASE EndReset
  <2>1. CASE KeepStream
    BY <1>5, <1>7, <2>1 DEF EndReset, KeepStream
  <2>2. CASE DelStream
    <3>1. stream' = {} /\ UNCHANGED <<published, up, last_id, batch>>
      BY <1>7, <2>2 DEF EndReset, DelStream
    <3>2. published' \in 0..published' /\ stream' = (published' + 1)..published'
      BY <1>1, <3>1
    <3>3. \A w \in Workers : \A e \in batch[w] :
            up[w] = "running" /\ e > last_id[w] /\ ~(e > published)
      BY <1>1, <1>2 DEF BatchNext, WorkerInv, WorkerType
    <3> PICK c \in Nat : c = published
      BY <1>1
    <3>4. c \in 0..published' /\ stream' = (c + 1)..published'
      BY <3>1, <3>2
    <3>5. \A w \in Workers : \A e \in batch[w] :
            up[w] = "running" /\ e > last_id[w] /\ ~(e > c)
      BY <3>1, <3>3
    <3>6. Epoch(c)' /\ BatchNext(c)'
      BY <3>1, <3>4, <3>5 DEF Epoch, BatchNext
    <3> QED
      BY <1>1, <1>4, <3>4, <3>6 DEF WorkerInv
  <2> QED
    BY <1>7, <2>1, <2>2 DEF EndReset
<1>8. CASE DeleteRows \/ ResetCheckpoint \/ AbandonReset
  BY <1>5, <1>8 DEF DeleteRows, Delete, ResetCheckpoint, AbandonReset
<1>9. ASSUME NEW w \in Workers, Start(w) \/ Read(w) \/ Commit(w) \/ Stop(w) PROVE WorkerInv'
  <2>1. UNCHANGED <<published, stream>>
    BY <1>9 DEF Start, Read, Commit, Stop, streamVars
  <2>2. Epoch(b)' /\ b \in 0..published'
    BY <1>2, <2>1 DEF Epoch
  <2>3. \A v \in Workers : v # w =>
          up'[v] = up[v] /\ last_id'[v] = last_id[v] /\ batch'[v] = batch[v]
    BY <1>9 DEF WorkerInv, WorkerType, Start, Read, Commit, Stop, Becomes, Forget, Advance
  <2>4. ASSUME NEW e \in batch'[w]
        PROVE  /\ up'[w] = "running" /\ e > last_id'[w]
               /\ e > b => /\ \A d \in After(last_id[w])' : d <= e => d \in batch'[w]
                           /\ e - b <= BatchSize \/ e - last_id'[w] <= BatchSize
    <3>1. CASE Start(w)
      <4>1. batch' = batch /\ up[w] # "running"
        BY <3>1 DEF Start
      <4> QED
        BY <1>2, <2>4, <4>1 DEF BatchNext
    <3>2. CASE Commit(w) \/ Stop(w)
      <4>1. batch'[w] = {}
        BY <3>2 DEF Commit, Stop, Forget, WorkerInv, WorkerType
      <4> QED
        BY <2>4, <4>1
    <3>3. CASE Read(w)
      <4>1. /\ UNCHANGED last_id /\ up[w] = "running" /\ batch[w] = {}
            /\ last_id[w] \in 0..published
        BY <3>3 DEF Read, WorkerInv, WorkerType
      <4>2. batch'[w] = NextBatch(last_id[w]) /\ up' = up
        BY <2>4, <3>3, <4>1 DEF Read, WorkerInv, WorkerType
      <4>3. /\ NextBatch(last_id[w]) \subseteq After(last_id[w])
            /\ \A x \in NextBatch(last_id[w]) : x - b <= BatchSize \/ x - last_id[w] <= BatchSize
            /\ \A x \in NextBatch(last_id[w]), d \in After(last_id[w]) :
                 d <= x => d \in NextBatch(last_id[w])
        BY <1>3, <4>1, NextBatchIs DEF WorkerInv
      <4>4. After(last_id[w])' = After(last_id[w]) /\ e > last_id[w]
        BY <2>1, <2>4, <4>1, <4>2, <4>3 DEF After
      <4> QED
        BY <2>4, <4>1, <4>2, <4>3, <4>4
    <3> QED
      BY <1>9, <3>1, <3>2, <3>3
  <2>5. ASSUME NEW v \in Workers, v # w, NEW e \in batch'[v]
        PROVE  /\ up'[v] = "running" /\ e > last_id'[v]
               /\ e > b => /\ \A d \in After(last_id[v])' : d <= e => d \in batch'[v]
                           /\ e - b <= BatchSize \/ e - last_id'[v] <= BatchSize
    <3>1. /\ up[v] = "running" /\ e > last_id[v]
          /\ e > b => /\ \A d \in After(last_id[v]) : d <= e => d \in batch[v]
                      /\ e - b <= BatchSize \/ e - last_id[v] <= BatchSize
      BY <1>2, <2>3, <2>5 DEF BatchNext
    <3>2. After(last_id[v])' = After(last_id[v])
      BY <2>1, <2>3, <2>5 DEF After
    <3> QED
      BY <2>3, <2>5, <3>1, <3>2
  <2>6. BatchNext(b)'
    BY <2>4, <2>5 DEF BatchNext
  <2> QED
    BY <1>1, <1>4, <2>2, <2>6 DEF WorkerInv
<1>10. ASSUME ListenerNext, UNCHANGED workerVars PROVE WorkerInv'
  BY <1>5, <1>10 DEF workerVars, ListenerNext, Call, Return, Timeout, ReadError, Forward, streamVars
<1>11. ASSUME UNCHANGED vars PROVE WorkerInv'
  BY <1>5, <1>11 DEF vars, streamVars, workerVars
<1> QED
  BY <1>6, <1>7, <1>8, <1>9, <1>10, <1>11 DEF Next, WorkerNext

\* A batch that is committed: as far as the stream goes, its events were not
\* stored, and after them the checkpoint and the worker are at its last event.
\* A batch read before a reset has none of the events.
LEMMA BatchMovesOn ==
  ASSUME WorkerInv, NEW w \in Workers, batch[w] # {}, NEW e \in stream
  PROVE  e <= BatchLast(w) <=> e <= last_id[w] \/ e \in batch[w]
<1>1. BatchLast(w) \in batch[w] /\ \A d \in batch[w] : d <= BatchLast(w)
  BY BatchLastIs DEF WorkerInv
<1>2. PICK b \in 0..published : Epoch(b) /\ BatchNext(b)
  BY DEF WorkerInv
<1>3. /\ BatchLast(w) > last_id[w]
      /\ BatchLast(w) > b => \A d \in After(last_id[w]) : d <= BatchLast(w) => d \in batch[w]
  BY <1>1, <1>2 DEF BatchNext
<1>4. e \in Nat /\ b < e /\ last_id[w] \in Nat /\ BatchLast(w) \in Nat
  BY <1>1, <1>2 DEF WorkerInv, WorkerType, StreamType, Epoch
<1>5. e <= last_id[w] \/ e \in After(last_id[w])
  BY <1>4 DEF After
<1> HIDE DEF BatchLast
<1>6. CASE BatchLast(w) > b
  BY <1>1, <1>3, <1>4, <1>5, <1>6
<1>7. CASE ~(BatchLast(w) > b)
  <2>1. ~(e <= BatchLast(w))
    BY <1>2, <1>4, <1>7
  <2> QED
    BY <1>1, <1>3, <1>4, <2>1
<1> QED
  BY <1>6, <1>7

LEMMA ExactStep ==
  ASSUME OneGateway, WorkerInv, CheckpointExact, WorkerAtCheckpoint, [Next]_vars
  PROVE  CheckpointExact' /\ WorkerAtCheckpoint'
<1> DEFINE Exact == \A t \in Tables : \A e \in stream :
                      rows[t][e] = IF e <= checkpoint THEN 1 ELSE 0
           There == \A w \in Workers : up[w] = "running" =>
                      \A e \in stream : e <= last_id[w] <=> e <= checkpoint
<1> SUFFICES ASSUME reset' = "none", ~tainted' PROVE Exact' /\ There'
  BY DEF CheckpointExact, WorkerAtCheckpoint
<1>1. /\ published \in Nat /\ stream \in SUBSET (1..published) /\ published <= MaxEvents
      /\ checkpoint \in 0..published /\ last_id \in [Workers -> 0..published]
      /\ MaxEvents \in Nat /\ up \in [Workers -> {"down", "running", "stuck"}]
      /\ \A t \in Tables : \A e \in Events : rows[t][e] \in 0..2
  BY StreamAssumption DEF WorkerInv, StreamType, WorkerType
<1>2. CASE EndReset
  BY <1>2 DEF EndReset, DelStream
<1>3. CASE ~EndReset
  <2>1. ~AbandonReset /\ ~ResetCheckpoint /\ ~DeleteRows
    BY DEF AbandonReset, Fails, ResetCheckpoint, DeleteRows, Delete
  <2>2. reset = "none" /\ ~tainted
    <3>1. reset = "none"
      BY <1>3, <2>1 DEF Next, vars, streamVars, WorkerNext, Publish, Start, Read,
         Commit, Stop, ListenerNext, Call, Return, Timeout, ReadError, Forward
    <3>2. tainted => tainted'
      BY <1>3, <2>1 DEF Next, vars, workerVars, WorkerNext, Start, Read, Commit, Stop, Works, Fails
    <3> QED
      BY <3>1, <3>2
  <2>3. Exact /\ There
    BY <2>2 DEF CheckpointExact, WorkerAtCheckpoint
  <2>4. CASE UNCHANGED <<stream, rows, checkpoint, up, last_id>>
    BY <2>3, <2>4
  <2>5. ASSUME Publish, UNCHANGED workerVars PROVE Exact' /\ There'
    <3> DEFINE n == published + 1
    <3>1. stream' = stream \cup {n} /\ UNCHANGED <<rows, checkpoint, up, last_id>>
          /\ published < MaxEvents
      BY <2>5 DEF Publish, workerVars
    <3>2. n \in Events /\ ~(n <= published)
      BY <1>1, <3>1 DEF Events
    <3>3. \A t \in Tables : rows[t][n] = 0
      BY <1>1, <3>2 DEF WorkerInv, StoredPublished
    <3>4. ~(n <= checkpoint) /\ \A w \in Workers : ~(n <= last_id[w])
      BY <1>1
    <3> HIDE DEF n
    <3> QED
      BY <2>3, <3>1, <3>3, <3>4
  <2>6. ASSUME NEW w \in Workers, Start(w) PROVE Exact' /\ There'
    <3>1. /\ UNCHANGED <<stream, rows, checkpoint>>
          /\ last_id'[w] = checkpoint \/ up'[w] = "stuck"
      BY <1>1, <2>6 DEF Start, Becomes, Fails, streamVars
    <3>2. \A v \in Workers : v = w
      BY DEF OneGateway
    <3> QED
      BY <2>3, <3>1, <3>2
  <2>7. ASSUME NEW w \in Workers, Commit(w) PROVE Exact' /\ There'
    <3>1. batch[w] # {} /\ stream' = stream /\ up' = up
      BY <2>7 DEF Commit, streamVars
    <3>2. CASE UNCHANGED <<rows, checkpoint, last_id>>
      BY <2>3, <3>1, <3>2
    <3>3. CASE Insert(w) /\ Advance(w)
      <4>1. \A v \in Workers : v = w
        BY DEF OneGateway
      <4>2. up[w] = "running" /\ \A e \in batch[w] : e > last_id[w] /\ e \in 1..published
        BY <3>1 DEF WorkerInv, WorkerType, BatchNext
      <4>3. \A e \in stream : e <= BatchLast(w) <=> e <= last_id[w] \/ e \in batch[w]
        BY <3>1, BatchMovesOn
      <4>4. last_id'[w] = BatchLast(w) /\ checkpoint' = BatchLast(w)
        BY <1>1, <3>3 DEF Insert, Advance
      <4>5. ASSUME NEW t \in Tables, NEW e \in stream
            PROVE  rows'[t][e] = IF e <= BatchLast(w) THEN 1 ELSE 0
        <5>1. e \in Events /\ e \in Nat
          BY <1>1 DEF Events
        <5>2. rows'[t][e] =
                IF e \in batch[w] /\ rows[t][e] < 2 THEN rows[t][e] + 1 ELSE rows[t][e]
          BY <3>3, <5>1 DEF Insert
        <5>3. rows[t][e] = IF e <= last_id[w] THEN 1 ELSE 0
          BY <2>3, <4>2
        <5>4. e \in batch[w] => ~(e <= last_id[w])
          BY <1>1, <4>2
        <5> QED
          BY <4>3, <5>2, <5>3, <5>4
      <4>6. Exact'
        BY <3>1, <4>4, <4>5
      <4>7. There'
        BY <3>1, <4>1, <4>4
      <4> QED
        BY <4>6, <4>7
    <3> QED
      BY <2>7, <3>2, <3>3 DEF Commit, Fails
  <2>8. ASSUME NEW w \in Workers, Read(w) \/ Stop(w) PROVE Exact' /\ There'
    <3>1. /\ UNCHANGED <<stream, rows, checkpoint, last_id>>
          /\ \A v \in Workers : up'[v] = "running" => up[v] = "running"
      BY <1>1, <2>8 DEF Read, Stop, Becomes, streamVars
    <3> QED
      BY <2>3, <3>1
  <2>9. ASSUME ListenerNext, UNCHANGED workerVars
        PROVE  UNCHANGED <<stream, rows, checkpoint, up, last_id>>
    BY <2>9 DEF ListenerNext, Call, Return, Timeout, ReadError, Forward, streamVars, workerVars
  <2>10. ASSUME UNCHANGED vars PROVE UNCHANGED <<stream, rows, checkpoint, up, last_id>>
    BY <2>10 DEF vars, streamVars, workerVars
  <2> HIDE DEF Exact, There
  <2> QED
    BY <1>3, <2>1, <2>4, <2>5, <2>6, <2>7, <2>8, <2>9, <2>10 DEF Next, WorkerNext
<1> QED
  BY <1>2, <1>3

ExactInv == WorkerInv /\ CheckpointExact /\ WorkerAtCheckpoint

LEMMA ExactInvHolds == OneGateway => (Spec => []ExactInv)
<1> SUFFICES ASSUME OneGateway PROVE Spec => []ExactInv
  OBVIOUS
<1>1. Init => ExactInv
  <2>1. Init => CheckpointExact /\ WorkerAtCheckpoint
    BY DEF Init, StreamInit, CheckpointExact, WorkerAtCheckpoint
  <2> QED
    BY <2>1, WorkerInvInit DEF ExactInv
<1>2. ExactInv /\ [Next]_vars => ExactInv'
  BY WorkerInvStep, ExactStep DEF ExactInv
<1> QED
  BY <1>1, <1>2, PTL DEF Spec

\* With one gateway the tables hold exactly the events up to the checkpoint, each
\* once, over any number of crashes, restarts, resets and failures of begin and
\* commit (ledger/worker.rs, routes/admin.rs): the batch and the checkpoint are
\* one transaction, a worker that runs stands where the checkpoint stands, and a
\* batch read before a reset has only events the reset has deleted.
THEOREM CheckpointAlwaysExact == OneGateway => (Spec => []CheckpointExact)
<1> SUFFICES ASSUME OneGateway PROVE Spec => []CheckpointExact
  OBVIOUS
<1>1. ExactInv => CheckpointExact
  BY DEF ExactInv
<1> QED
  BY <1>1, ExactInvHolds, PTL

-----------------------------------------------------------------------------
\* The worker keeps the promise of the cold path, step by step.  What is
\* eventually stored (the fairness of Sink) is left to the model checker.

\* Settled is the number of events that resets have deleted.
LEMMA CountDeleted ==
  ASSUME NEW n \in Nat, NEW b \in 0..n
  PROVE  n - Cardinality((b + 1)..n) = b
<1> DEFINE a == b + 1
<1>1. a \in Int /\ n \in Int
  OBVIOUS
<1>2. Cardinality(a..n) = IF a > n THEN 0 ELSE n - a + 1
  <2> HIDE DEF a
  <2> QED
    BY <1>1, FS_Interval
<1> QED
  BY <1>2

LEMMA SettledIs ==
  ASSUME StreamType, NEW b, Epoch(b)
  PROVE  Settled = b
BY CountDeleted DEF StreamType, Epoch, Settled

LEMMA PromiseInit ==
  ASSUME OneGateway, Init
  PROVE  Promise!Init
<1>1. published = 0 /\ reset = "none" /\ stream = {} /\ tainted = FALSE
  BY DEF Init, StreamInit, WorkerInit
<1>2. Settled = 0
  BY <1>1, SettledIs, StreamTypeInit DEF Epoch
<1>3. Copied = [t \in Tables |-> [e \in 1..MaxEvents |-> 0]]
  BY DEF Init, WorkerInit, NoRows, Events, Copied
<1>4. Copied = [t \in Tables |-> [e \in 1..MaxEvents |-> IF 0 < e /\ e <= 0 THEN 1 ELSE 0]]
  BY <1>3
<1>5. (\A w \in Workers : up[w] = "stuck") = FALSE
  BY DEF OneGateway, Init, WorkerInit
<1> QED
  BY <1>1, <1>2, <1>4, <1>5 DEF Promise!Init, Promise!Stored

\* When nothing has failed the tables are those of the promise, up to n.
LEMMA TablesAreStored ==
  ASSUME ExactInv, reset = "none", ~tainted, NEW b \in 0..published, Epoch(b),
         NEW n \in 0..published, b <= n,
         \A e \in stream : e <= n <=> e <= checkpoint
  PROVE  Copied = [t \in Tables |-> [e \in 1..MaxEvents |-> IF b < e /\ e <= n THEN 1 ELSE 0]]
<1>1. /\ published \in Nat /\ rows \in [Tables -> [Events -> 0..2]] /\ Events = 1..MaxEvents
      /\ MaxEvents \in Nat /\ published <= MaxEvents /\ stream = (b + 1)..published
  BY StreamAssumption DEF ExactInv, WorkerInv, StreamType, WorkerType, Events, Epoch
<1>2. Settled = b
  BY SettledIs DEF ExactInv, WorkerInv
<1>3. ASSUME NEW t \in Tables, NEW e \in Events
      PROVE  (IF e > b THEN rows[t][e] ELSE 0) = IF b < e /\ e <= n THEN 1 ELSE 0
  <2>1. CASE e \in stream
    <3>1. rows[t][e] = IF e <= checkpoint THEN 1 ELSE 0
      BY <2>1 DEF ExactInv, CheckpointExact
    <3>2. e > b /\ b < e /\ (e <= n <=> e <= checkpoint)
      BY <1>1, <2>1
    <3> QED
      BY <3>1, <3>2
  <2>2. CASE e \notin stream /\ e > b
    <3>1. ~(e <= published) /\ ~(e <= n)
      BY <1>1, <2>2
    <3>2. rows[t][e] = 0
      BY <1>1, <3>1 DEF ExactInv, WorkerInv, StoredPublished
    <3> QED
      BY <2>2, <3>1, <3>2
  <2>3. CASE ~(e > b)
    BY <1>1, <2>3
  <2> QED
    BY <2>1, <2>2, <2>3
<1> QED
  BY <1>1, <1>2, <1>3 DEF Copied

\* A batch is stored, or it is one from before a reset.
LEMMA PromiseStore ==
  ASSUME OneGateway, ExactInv, reset = "none", ~tainted, NEW w \in Workers, batch[w] # {},
         Insert(w), UNCHANGED <<published, stream, reset, up, tainted>>
  PROVE  Promise!Store \/ UNCHANGED Promise!sinkVars
<1>1. PICK b \in 0..published : Epoch(b) /\ BatchNext(b)
  BY DEF ExactInv, WorkerInv
<1> DEFINE m == BatchLast(w)
           lo == IF last_id[w] < b THEN b ELSE last_id[w]
           k == m - lo
<1>2. /\ published \in Nat /\ MaxEvents \in Nat /\ published <= MaxEvents
      /\ last_id[w] \in 0..published /\ BatchSize \in Nat
      /\ stream = (b + 1)..published /\ Events = 1..MaxEvents
  BY <1>1, StreamAssumption, WorkersAssumption
     DEF ExactInv, WorkerInv, StreamType, WorkerType, Epoch, Events
<1>3. m \in batch[w] /\ \A d \in batch[w] : d <= m /\ d \in 1..published
  BY BatchLastIs DEF ExactInv, WorkerInv, WorkerType
<1>4. /\ up[w] = "running" /\ m > last_id[w]
      /\ m > b => /\ \A d \in After(last_id[w]) : d <= m => d \in batch[w]
                  /\ m - b <= BatchSize \/ m - last_id[w] <= BatchSize
      /\ \A d \in batch[w] : d > last_id[w]
  BY <1>1, <1>3 DEF BatchNext
<1>5. Settled = b /\ Settled' = Settled
  BY <1>1, SettledIs DEF Settled, ExactInv, WorkerInv
<1>6. Copied' = [t \in Tables |-> [e \in 1..MaxEvents |-> IF e > b THEN rows'[t][e] ELSE 0]]
  BY <1>2, <1>5 DEF Copied
<1>7. \A t \in Tables : \A e \in Events : rows'[t][e] =
        IF e \in batch[w] /\ rows[t][e] < 2 THEN rows[t][e] + 1 ELSE rows[t][e]
  BY DEF Insert
<1> HIDE DEF m
<1>8. CASE ~(m > b)
  <2>1. \A e \in Events : e > b => e \notin batch[w]
    BY <1>2, <1>3, <1>8
  <2>2. \A t \in Tables : \A e \in 1..MaxEvents :
          (IF e > b THEN rows'[t][e] ELSE 0) = IF e > b THEN rows[t][e] ELSE 0
    BY <1>2, <1>7, <2>1
  <2>3. Copied' = Copied
    BY <1>2, <1>5, <1>6, <2>2 DEF Copied
  <2> QED
    BY <1>5, <2>3 DEF Promise!sinkVars
<1>9. CASE m > b
  <2>1. /\ lo \in b..published /\ k \in 1..BatchSize /\ lo + k = m /\ m <= published
        /\ m \in Nat /\ lo \in 0..published /\ b <= lo /\ last_id[w] <= lo
    <3>1. m \in Nat /\ b \in Nat /\ last_id[w] \in Nat /\ b < m /\ m <= published /\ last_id[w] < m
      BY <1>2, <1>3, <1>4, <1>9
    <3>2. lo \in Nat /\ b <= lo /\ lo < m /\ last_id[w] <= lo
      BY <3>1
    <3>3. m - lo <= BatchSize
      <4> HIDE DEF lo
      <4> QED
        BY <1>2, <1>4, <1>9, <3>1, <3>2
    <3> HIDE DEF lo
    <3> QED
      BY <1>2, <3>1, <3>2, <3>3
  <2>2. \A e \in stream : e <= lo <=> e <= last_id[w]
    BY <1>2
  <2>3. \A e \in stream : e <= lo <=> e <= checkpoint
    BY <1>4, <2>2 DEF ExactInv, WorkerAtCheckpoint
  <2>4. \A e \in Events : e > lo => ~(e < b) /\ e > b /\ e > last_id[w]
    BY <1>2, <2>1
  <2> HIDE DEF lo
  <2>5. Copied = [t \in Tables |-> [e \in 1..MaxEvents |-> IF b < e /\ e <= lo THEN 1 ELSE 0]]
    BY <1>1, <2>1, <2>3, TablesAreStored
  <2>6. \A e \in Events : e > b => (e \in batch[w] <=> lo < e /\ e <= m)
    <3> SUFFICES ASSUME NEW e \in Events, e > b PROVE e \in batch[w] <=> lo < e /\ e <= m
      OBVIOUS
    <3>1. e \in Nat
      BY <1>2
    <3>2. ASSUME e \in batch[w] PROVE lo < e /\ e <= m
      <4>1. e <= m /\ e > last_id[w] /\ e \in 1..published
        BY <1>3, <1>4, <3>2
      <4>2. e \in stream
        BY <1>2, <4>1
      <4>3. ~(e <= lo)
        BY <1>2, <2>2, <4>1, <4>2
      <4> QED
        BY <2>1, <3>1, <4>1, <4>3
    <3>3. ASSUME lo < e, e <= m PROVE e \in batch[w]
      <4>1. e \in stream /\ e > last_id[w]
        BY <1>2, <2>1, <3>1, <3>3
      <4> QED
        BY <1>4, <1>9, <3>3, <4>1 DEF After
    <3> QED
      BY <3>2, <3>3
  <2>7. ASSUME NEW t \in Tables, NEW e \in 1..MaxEvents
        PROVE  (IF e > b THEN rows'[t][e] ELSE 0) = IF b < e /\ e <= m THEN 1 ELSE 0
    <3>1. (IF e > b THEN rows[t][e] ELSE 0) = IF b < e /\ e <= lo THEN 1 ELSE 0
      BY <1>2, <1>5, <2>5 DEF Copied
    <3>2. CASE e > b
      <4>1. rows[t][e] = IF e <= lo THEN 1 ELSE 0
        BY <1>2, <3>1, <3>2
      <4>2. rows'[t][e] = IF e \in batch[w] /\ rows[t][e] < 2 THEN rows[t][e] + 1 ELSE rows[t][e]
        BY <1>2, <1>7
      <4>3. e \in batch[w] <=> lo < e /\ e <= m
        BY <1>2, <2>6, <3>2
      <4> QED
        BY <1>2, <2>1, <3>2, <4>1, <4>2, <4>3
    <3>3. CASE ~(e > b)
      BY <1>2, <3>3
    <3> QED
      BY <3>2, <3>3
  <2>8. Copied' = [t \in Tables |-> [e \in 1..MaxEvents |-> IF b < e /\ e <= m THEN 1 ELSE 0]]
    BY <1>6, <2>7
  <2> HIDE DEF k
  <2>9. /\ Copied = [t \in Tables |-> [e \in 1..MaxEvents |-> IF Settled < e /\ e <= lo THEN 1 ELSE 0]]
        /\ Copied' = [t \in Tables |-> [e \in 1..MaxEvents |->
                        IF Settled < e /\ e <= lo + k THEN 1 ELSE 0]]
        /\ lo \in Settled..published /\ k \in 1..BatchSize /\ lo + k <= published
    BY <1>5, <2>1, <2>5, <2>8
  <2>10. ~(\A v \in Workers : up[v] = "stuck")
    BY <1>4
  <2> QED
    BY <1>5, <2>9, <2>10 DEF Promise!Store, Promise!Stored
<1> QED
  BY <1>8, <1>9

LEMMA PromiseStep ==
  ASSUME OneGateway, ExactInv, ExactInv', [Next]_vars
  PROVE  [Promise!Next]_(Promise!sinkVars)
<1>1. PICK b \in 0..published : Epoch(b)
  BY DEF ExactInv, WorkerInv
<1>2. /\ published \in Nat /\ tainted \in BOOLEAN /\ Events = 1..MaxEvents
      /\ rows \in [Tables -> [Events -> 0..2]] /\ rows' \in [Tables -> [Events -> 0..2]]
  BY DEF ExactInv, WorkerInv, StreamType, WorkerType, Events
<1>2a. \A t \in Tables : \A e \in Events : rows[t][e] \in 0..2 /\ rows'[t][e] \in 0..2 /\ e \in Nat
  <2>1. \A t \in Tables : \A e \in Events : rows[t][e] \in 0..2
    BY DEF ExactInv, WorkerInv, WorkerType
  <2>2. \A t \in Tables : \A e \in Events : rows'[t][e] \in 0..2
    BY DEF ExactInv, WorkerInv, WorkerType
  <2>3. \A e \in Events : e \in Nat
    BY DEF Events
  <2> QED
    BY <2>1, <2>2, <2>3
<1> DEFINE Stuck == \A w \in Workers : up[w] = "stuck"
<1>3. ASSUME UNCHANGED <<published, stream, reset, rows, tainted>> PROVE Promise!Stall
  <2>1. Stuck' \in BOOLEAN
    OBVIOUS
  <2>2. Settled' = Settled /\ Copied' = Copied
    BY <1>3 DEF Settled, Copied
  <2> QED
    BY <1>3, <2>1, <2>2 DEF Promise!Stall
<1>4. ASSUME UNCHANGED <<published, stream>>, Stuck' = Stuck, tainted' \/ reset' # "none"
      PROVE  Promise!Break
  <2>1. Settled' = Settled
    BY <1>4 DEF Settled
  <2>2. Copied' \in [Tables -> [1..MaxEvents -> 0..2]]
    <3>1. \A t \in Tables : \A e \in Events :
            rows'[t][e] \in 0..2 /\ 0 \in 0..2
      BY <1>2a
    <3> QED
      BY <1>2, <3>1 DEF Copied
  <2> QED
    BY <1>4, <2>1, <2>2 DEF Promise!Break
<1> HIDE DEF Stuck
<1>5. ASSUME Publish, UNCHANGED workerVars PROVE Promise!Publish
  <2>1. /\ published' = published + 1 /\ published < MaxEvents /\ stream' = stream \cup {published + 1}
        /\ UNCHANGED <<reset, rows, tainted, up>>
    BY <1>5 DEF Publish, workerVars
  <2>2. /\ published' \in Nat /\ b \in 0..published'
        /\ stream = (b + 1)..published /\ stream' = (b + 1)..published'
    BY <1>1, <1>2, <2>1 DEF Epoch
  <2>3. Settled = b /\ Settled' = b
    BY <1>2, <2>2, CountDeleted DEF Settled
  <2>4. Copied' = Copied
    BY <2>1, <2>3 DEF Copied
  <2> QED
    BY <2>1, <2>3, <2>4 DEF Promise!Publish
<1>6. CASE DeleteRows
  <2>1. UNCHANGED <<published, stream, up>> /\ reset' # "none"
    BY <1>6 DEF DeleteRows, Delete
  <2>2. Stuck' = Stuck
    BY <2>1 DEF Stuck
  <2> QED
    BY <1>4, <2>1, <2>2 DEF Promise!Next
<1>7. CASE ResetCheckpoint \/ AbandonReset
  <2>1. UNCHANGED <<published, stream, up>> /\ (tainted' \/ reset' # "none")
    BY <1>7 DEF ResetCheckpoint, AbandonReset, Fails
  <2>2. Stuck' = Stuck
    BY <2>1 DEF Stuck
  <2> QED
    BY <1>4, <2>1, <2>2 DEF Promise!Next
<1>8. CASE EndReset
  <2>1. UNCHANGED <<published, rows, up>> /\ reset = "send" /\ reset' = "none"
    BY <1>8 DEF EndReset, DelStream, KeepStream
  <2>2. Stuck' = Stuck
    BY <2>1 DEF Stuck
  <2>3. CASE stream' = {} /\ tainted' = FALSE
    <3>1. Settled' = published
      BY <1>2, <2>1, <2>3, FS_EmptySet DEF Settled
    <3>2. \A t \in Tables : \A e \in Events : (IF e > published THEN rows[t][e] ELSE 0) = 0
      <4> SUFFICES ASSUME NEW t \in Tables, NEW e \in Events, e > published PROVE rows[t][e] = 0
        OBVIOUS
      <4>1. rows[t][e] \in 0..2 /\ ~(e <= published)
        BY <1>2, <1>2a
      <4>2. ~(rows[t][e] > 0)
        BY <4>1 DEF ExactInv, WorkerInv, StoredPublished
      <4> QED
        BY <4>1, <4>2
    <3>3. Copied' = [t \in Tables |-> [e \in 1..MaxEvents |-> 0]]
      BY <1>2, <2>1, <3>1, <3>2 DEF Copied
    <3> QED
      BY <2>1, <2>2, <2>3, <3>1, <3>3 DEF Promise!Next, Promise!Clear, Stuck
  <2>4. CASE stream' = stream /\ tainted' = TRUE
    BY <1>4, <2>1, <2>2, <2>4 DEF Promise!Next
  <2> QED
    BY <1>8, <2>3, <2>4 DEF EndReset, DelStream, KeepStream
<1>9. ASSUME NEW w \in Workers, Start(w) \/ Read(w) \/ Stop(w)
      PROVE  Promise!Break \/ Promise!Stall
  <2>1. UNCHANGED <<published, stream, reset, rows>>
    BY <1>9 DEF Start, Read, Stop, streamVars
  <2>2. \/ tainted' = tainted
        \/ tainted' /\ up[w] = "down" /\ up'[w] = "running"
    <3>1. CASE Start(w)
      <4>1. up[w] \in {"down"} /\ up \in [Workers -> {"down", "running", "stuck"}]
        BY <3>1 DEF Start, ExactInv, WorkerInv, WorkerType
      <4>2. CASE Becomes(w, "running") /\ Fails("checkpoint")
        BY <4>1, <4>2 DEF Becomes, Fails
      <4>3. CASE Works
        BY <4>3 DEF Works
      <4>4. CASE Fails("connect")
        BY <1>2, <4>4 DEF Fails
      <4> QED
        BY <3>1, <4>2, <4>3, <4>4 DEF Start
    <3>2. CASE Read(w)
      <4>1. Works \/ Fails("begin") \/ Fails("read")
        BY <3>2 DEF Read
      <4> QED
        BY <1>2, <4>1 DEF Works, Fails
    <3>3. CASE Stop(w)
      BY <3>3 DEF Stop
    <3> QED
      BY <1>9, <3>1, <3>2, <3>3
  <2>3. ASSUME up[w] = "down", up'[w] = "running" PROVE Stuck' = Stuck
    BY <2>3 DEF Stuck
  <2> QED
    BY <1>3, <1>4, <2>1, <2>2, <2>3
<1>10. ASSUME NEW w \in Workers, Commit(w)
       PROVE  \/ Promise!Break \/ Promise!Store \/ Promise!Stall \/ UNCHANGED Promise!sinkVars
  <2>1. UNCHANGED <<published, stream, reset, up>> /\ batch[w] # {}
    BY <1>10 DEF Commit, streamVars
  <2>2. Stuck' = Stuck
    BY <2>1 DEF Stuck
  <2>3. CASE tainted' \/ reset' # "none"
    BY <1>4, <2>1, <2>2, <2>3
  <2>4. CASE ~tainted' /\ reset' = "none"
    <3>1. \/ Insert(w) /\ tainted' = tainted
          \/ rows' = rows /\ tainted' = tainted
      BY <1>2, <1>10, <2>4 DEF Commit, Works, Fails
    <3>2. CASE rows' = rows /\ tainted' = tainted
      BY <1>3, <2>1, <3>2
    <3>3. CASE Insert(w) /\ tainted' = tainted
      BY <2>1, <2>4, <3>3, PromiseStore
    <3> QED
      BY <3>1, <3>2, <3>3
  <2> QED
    BY <2>3, <2>4
<1>11. ASSUME ListenerNext, UNCHANGED workerVars PROVE Promise!Stall
  <2>1. UNCHANGED <<published, stream, reset, rows, tainted>>
    BY <1>11 DEF ListenerNext, Call, Return, Timeout, ReadError, Forward, streamVars, workerVars
  <2> QED
    BY <1>3, <2>1
<1>12. ASSUME UNCHANGED vars PROVE Promise!Stall
  BY <1>3, <1>12 DEF vars, streamVars, workerVars
<1> QED
  BY <1>5, <1>6, <1>7, <1>8, <1>9, <1>10, <1>11, <1>12 DEF Next, WorkerNext, Promise!Next

\* With one gateway the cold path does what Sink says, over all failures and with
\* resets at any moment: the tables begin empty and change only as the promise
\* allows, by the next few events in a row, in all tables at once, by a failure
\* or a reset that breaks it, and by the end of the reset (ledger/worker.rs,
\* routes/admin.rs, engine.rs).  The part of ImplementsSink that is not about
\* fairness.
THEOREM WorkerKeepsPromise ==
  OneGateway => (Spec => Promise!Init /\ [][Promise!Next]_(Promise!sinkVars))
<1> SUFFICES ASSUME OneGateway PROVE Spec => Promise!Init /\ [][Promise!Next]_(Promise!sinkVars)
  OBVIOUS
<1>1. ExactInv /\ ExactInv' /\ [Next]_vars => [Promise!Next]_(Promise!sinkVars)
  BY PromiseStep
<1>2. Init => Promise!Init
  BY PromiseInit
<1> QED
  BY <1>1, <1>2, ExactInvHolds, PTL DEF Spec
=============================================================================
