----------------------------- MODULE BookProofs -----------------------------
(***************************************************************************)
(* Facts about the operators of Book that hold for every book: a non-empty *)
(* side has a best price, and each step of a method keeps a well-formed    *)
(* book well-formed.  And what the walk of a quote takes: before and after *)
(* a fill it differs by the fill.                                          *)
(***************************************************************************)
EXTENDS Book, FoldProofs

WellFormed(b, U) ==
  /\ BookType(b, U)
  /\ LevelsHoldOrders(b)
  /\ OrdersAreQueued(b)
  /\ QueuesInIdOrder(b)
  /\ NotCrossed(b)

-----------------------------------------------------------------------------
\* The prices of a side are finitely many: the front order of a level has the
\* level's price, so levels are at most as many as ids.
LEMMA LevelsFinite ==
  ASSUME NEW b, NEW U, BookType(b, U), LevelsHoldOrders(b), NEW s \in Sides
  PROVE  IsFiniteSet(DOMAIN b.levels[s])
<1> DEFINE L == b.levels[s]
           f == [p \in DOMAIN L |-> L[p][1]]
           I == 1..(b.next_order_id - 1)
<1>1. \A p \in DOMAIN L : L[p][1] \in DOMAIN b.orders /\ b.orders[L[p][1]].price = p
  <2> TAKE p \in DOMAIN L
  <2>1. L[p] \in Seq(Nat) /\ L[p] # <<>>
    BY DEF BookType, LevelsHoldOrders
  <2>2. 1 \in 1..Len(L[p])
    BY <2>1
  <2> QED BY <2>2 DEF LevelsHoldOrders
<1>2. f \in Injection(DOMAIN L, I)
  <2>1. f \in [DOMAIN L -> I]
    BY <1>1 DEF BookType
  <2>2. \A p1, p2 \in DOMAIN L : f[p1] = f[p2] => p1 = p2
    BY <1>1
  <2> QED BY <2>1, <2>2 DEF Injection, IsInjective
<1>3. IsFiniteSet(I)
  BY FS_Interval DEF BookType
<1> QED BY <1>2, <1>3, FS_Injection

\* A side with a level has a best price.
LEMMA BestPriceIsBest ==
  ASSUME NEW b, NEW U, BookType(b, U), LevelsHoldOrders(b), NEW s \in Sides,
         DOMAIN b.levels[s] # {}
  PROVE  /\ BestPrice(b, s) \in DOMAIN b.levels[s]
         /\ BestPrice(b, s) \in Nat
         /\ \A q \in DOMAIN b.levels[s] : ~Better(s, q, BestPrice(b, s))
<1> DEFINE L == DOMAIN b.levels[s]
<1>1. L \in SUBSET Nat
  BY DEF BookType
<1>2. \E p \in L : \A q \in L : ~Better(s, q, p)
  <2>1. CASE s = "bid"
    <3>1. IsFiniteSet(L) /\ L \in SUBSET Int
      BY <1>1, LevelsFinite
    <3>2. PICK m \in L : \A x \in L : x <= m
      BY <3>1, FiniteSetHasMax
    <3> QED BY <1>1, <2>1, <3>2 DEF Better
  <2>2. CASE s = "ask"
    <3>1. PICK m \in L : \A x \in L : m <= x
      BY <1>1, SetHasMin
    <3> QED BY <1>1, <2>2, <3>1 DEF Better
  <2> QED BY <2>1, <2>2 DEF Sides
<1> QED BY <1>1, <1>2 DEF BestPrice

-----------------------------------------------------------------------------
\* The queue r is the queue q without its k-th element.
IsWithout(r, q, k) ==
  /\ Len(r) = Len(q) - 1
  /\ \A j \in 1..Len(r) : r[j] = IF j < k THEN q[j] ELSE q[j+1]

\* What is left of an increasing queue is increasing, holds the other elements
\* and not the removed one.
LEMMA WithoutFacts ==
  ASSUME NEW q \in Seq(Nat), NEW r \in Seq(Nat), NEW k \in 1..Len(q), IsWithout(r, q, k),
         \A i, j \in 1..Len(q) : i < j => q[i] < q[j]
  PROVE  /\ \A i, j \in 1..Len(r) : i < j => r[i] < r[j]
         /\ \A j \in 1..Len(r) : \E i \in 1..Len(q) : r[j] = q[i] /\ q[i] # q[k]
         /\ \A i \in 1..Len(q) : q[i] # q[k] => \E j \in 1..Len(r) : r[j] = q[i]
<1>1. /\ Len(q) \in Nat /\ Len(r) \in Nat /\ Len(r) = Len(q) - 1 /\ k \in Nat
      /\ \A i \in 1..Len(q) : q[i] \in Nat
  BY DEF IsWithout
<1>2. \A j \in 1..Len(r) : /\ j \in 1..Len(q) /\ j + 1 \in 1..Len(q)
                           /\ j < k => r[j] = q[j]
                           /\ ~(j < k) => r[j] = q[j+1]
  BY <1>1 DEF IsWithout
<1>3. ASSUME NEW i \in 1..Len(r), NEW j \in 1..Len(r), i < j PROVE r[i] < r[j]
  <2>1. CASE j < k
    BY <1>1, <1>2, <1>3, <2>1
  <2>2. CASE ~(j < k) /\ i < k
    <3>1. i < j + 1
      BY <1>1, <1>3
    <3> QED BY <1>2, <2>2, <3>1
  <2>3. CASE ~(j < k) /\ ~(i < k)
    <3>1. i + 1 < j + 1
      BY <1>1, <1>3
    <3> QED BY <1>2, <2>3, <3>1
  <2> QED BY <2>1, <2>2, <2>3
<1>4. ASSUME NEW j \in 1..Len(r) PROVE \E i \in 1..Len(q) : r[j] = q[i] /\ q[i] # q[k]
  <2>1. CASE j < k
    <3>1. q[j] < q[k] /\ q[j] \in Nat /\ q[k] \in Nat
      BY <1>1, <1>2, <2>1
    <3> QED BY <1>2, <2>1, <3>1
  <2>2. CASE ~(j < k)
    <3>1. k < j + 1
      BY <1>1, <2>2
    <3>2. q[k] < q[j+1] /\ q[j+1] \in Nat /\ q[k] \in Nat
      BY <1>1, <1>2, <3>1
    <3> QED BY <1>2, <2>2, <3>2
  <2> QED BY <2>1, <2>2
<1>5. ASSUME NEW i \in 1..Len(q), q[i] # q[k] PROVE \E j \in 1..Len(r) : r[j] = q[i]
  <2>1. CASE i < k
    <3>1. i \in 1..Len(r)
      BY <1>1, <2>1
    <3> QED BY <1>2, <2>1, <3>1
  <2>2. CASE i > k
    <3>1. i - 1 \in 1..Len(r) /\ ~(i - 1 < k) /\ (i - 1) + 1 = i
      BY <1>1, <2>2
    <3> QED BY <1>2, <3>1
  <2>3. i # k /\ i \in Nat
    BY <1>5
  <2> QED BY <1>1, <2>1, <2>2, <2>3
<1> QED BY <1>3, <1>4, <1>5

LEMMA RemoveAtIsWithout ==
  ASSUME NEW q \in Seq(Nat), NEW k \in 1..Len(q)
  PROVE  RemoveAt(q, k) \in Seq(Nat) /\ IsWithout(RemoveAt(q, k), q, k)
<1>1. Len(q) \in Nat /\ k \in Nat /\ \A i \in 1..Len(q) : q[i] \in Nat
  OBVIOUS
<1>2. PICK a : a = SubSeq(q, 1, k - 1)
  OBVIOUS
<1>3. PICK z : z = SubSeq(q, k + 1, Len(q))
  OBVIOUS
<1>4. a \in Seq(Nat) /\ Len(a) = k - 1 /\ \A i \in 1..(k - 1) : a[i] = q[i]
  BY <1>1, <1>2
<1>5. /\ z \in Seq(Nat) /\ Len(z) = Len(q) - k
      /\ \A i \in 1..(Len(q) - k) : z[i] = q[k + i]
  <2>1. /\ z \in Seq(Nat)
        /\ Len(z) = IF k + 1 <= Len(q) THEN Len(q) - (k + 1) + 1 ELSE 0
        /\ \A i \in 1..(Len(q) - (k + 1) + 1) : z[i] = q[(k + 1) + i - 1]
    BY <1>1, <1>3, SubSeqProperties
  <2> QED BY <1>1, <2>1
<1>6. /\ a \o z \in Seq(Nat) /\ Len(a \o z) = Len(a) + Len(z)
      /\ \A i \in 1..(Len(a) + Len(z)) : (a \o z)[i] = IF i <= Len(a) THEN a[i] ELSE z[i - Len(a)]
  BY <1>4, <1>5, ConcatProperties
<1>7. Len(a \o z) = Len(q) - 1
  BY <1>1, <1>4, <1>5, <1>6
<1>8. ASSUME NEW j \in 1..(Len(q) - 1) PROVE (a \o z)[j] = IF j < k THEN q[j] ELSE q[j+1]
  <2>1. CASE j < k
    <3>1. j \in 1..(k - 1) /\ j <= Len(a) /\ j \in 1..(Len(a) + Len(z))
      BY <1>1, <1>4, <1>5, <2>1
    <3> QED BY <1>4, <1>6, <2>1, <3>1
  <2>2. CASE ~(j < k)
    <3>1. /\ ~(j <= Len(a)) /\ j \in 1..(Len(a) + Len(z))
          /\ j - Len(a) = j - k + 1 /\ j - k + 1 \in 1..(Len(q) - k) /\ k + (j - k + 1) = j + 1
      BY <1>1, <1>4, <1>5, <2>2
    <3>2. (a \o z)[j] = z[j - k + 1]
      BY <1>6, <3>1
    <3> QED BY <1>5, <2>2, <3>1, <3>2
  <2> QED BY <2>1, <2>2
<1> QED BY <1>2, <1>3, <1>6, <1>7, <1>8 DEF RemoveAt, IsWithout

\* c is b with the order m gone from the map and the queue of side s and
\* price p replaced by r.
IsRemoval(b, c, m, s, p, r) ==
  /\ c.orders = Without(b.orders, m)
  /\ c.levels[s] = SetQueue(b.levels[s], p, r)
  /\ \A x \in Sides : x # s => c.levels[x] = b.levels[x]
  /\ c.next_order_id = b.next_order_id
  /\ DOMAIN c = DOMAIN b /\ DOMAIN c.levels = DOMAIN b.levels

LEMMA ExceptIsRemoval ==
  ASSUME NEW b, NEW U, BookType(b, U), NEW m, NEW s \in Sides, NEW p, NEW r
  PROVE  IsRemoval(b, [b EXCEPT !.orders = Without(@, m),
                                !.levels[s] = SetQueue(@, p, r)], m, s, p, r)
<1>1. DOMAIN b = {"levels", "orders", "next_order_id"} /\ DOMAIN b.levels = Sides
  BY DEF BookType
<1> QED BY <1>1 DEF IsRemoval

\* Taking one order out of the map and out of its queue, wherever it stands
\* there, keeps the book well-formed.  A fill takes the front, a cancel any.
LEMMA RemovalWellFormed ==
  ASSUME NEW b, NEW c, NEW U, WellFormed(b, U), NEW s \in Sides,
         NEW p \in DOMAIN b.levels[s], NEW k \in 1..Len(b.levels[s][p]),
         NEW m, m = b.levels[s][p][k],
         NEW r \in Seq(Nat), IsWithout(r, b.levels[s][p], k),
         IsRemoval(b, c, m, s, p, r)
  PROVE  WellFormed(c, U)
<1>1. /\ b.levels[s][p] \in Seq(Nat)
      /\ m \in DOMAIN b.orders /\ b.orders[m].side = s /\ b.orders[m].price = p
  BY DEF WellFormed, BookType, LevelsHoldOrders
<1>2. PICK q : q = b.levels[s][p]
  OBVIOUS
<1>3. /\ \A i, j \in 1..Len(r) : i < j => r[i] < r[j]
      /\ \A j \in 1..Len(r) : \E i \in 1..Len(q) : r[j] = q[i] /\ q[i] # m
      /\ \A i \in 1..Len(q) : q[i] # m => \E j \in 1..Len(r) : r[j] = q[i]
  <2>1. \A i, j \in 1..Len(q) : i < j => q[i] < q[j]
    BY <1>2 DEF WellFormed, QueuesInIdOrder
  <2>2. q \in Seq(Nat) /\ k \in 1..Len(q) /\ IsWithout(r, q, k) /\ m = q[k]
    BY <1>1, <1>2
  <2> HIDE <1>2
  <2> QED BY <2>1, <2>2, WithoutFacts
<1>4. /\ DOMAIN c.orders = DOMAIN b.orders \ {m}
      /\ \A id \in DOMAIN c.orders : c.orders[id] = b.orders[id]
  BY DEF IsRemoval, Without
<1>5. ASSUME NEW x \in Sides, NEW y \in DOMAIN c.levels[x]
      PROVE  /\ y \in DOMAIN b.levels[x]
             /\ x = s /\ y = p => c.levels[x][y] = r /\ r # <<>>
             /\ ~(x = s /\ y = p) => c.levels[x][y] = b.levels[x][y]
  BY DEF IsRemoval, SetQueue, With, Without
<1>6. ASSUME NEW x \in Sides, NEW y \in DOMAIN b.levels[x], ~(x = s /\ y = p) \/ r # <<>>
      PROVE  y \in DOMAIN c.levels[x]
  BY <1>6 DEF IsRemoval, SetQueue, With, Without
<1>7. BookType(c, U)
  <2>1. \A x \in Sides : \A y \in DOMAIN c.levels[x] : y \in Nat /\ c.levels[x][y] \in Seq(Nat)
    BY <1>5 DEF WellFormed, BookType
  <2>2. c.orders \in [DOMAIN c.orders -> Orders(U)]
    BY <1>4 DEF WellFormed, BookType, Without, IsRemoval
  <2> QED BY <1>4, <2>1, <2>2 DEF WellFormed, BookType, IsRemoval
<1>8. LevelsHoldOrders(c)
  <2>0. \A x \in Sides : \A y \in DOMAIN b.levels[x] : \A i \in 1..Len(b.levels[x][y]) :
          /\ b.levels[x][y][i] \in DOMAIN b.orders
          /\ b.orders[b.levels[x][y][i]].side = x
          /\ b.orders[b.levels[x][y][i]].price = y
    BY DEF WellFormed, LevelsHoldOrders
  <2>1. ASSUME NEW x \in Sides, NEW y \in DOMAIN c.levels[x],
               NEW i \in 1..Len(c.levels[x][y]), NEW id, id = c.levels[x][y][i]
        PROVE  id \in DOMAIN c.orders /\ c.orders[id].side = x /\ c.orders[id].price = y
    <3>1. CASE x = s /\ y = p
      <4>0. i \in 1..Len(r) /\ id = r[i]
        BY <1>5, <2>1, <3>1
      <4>1. PICK l \in 1..Len(q) : id = q[l] /\ q[l] # m
        BY <1>3, <4>0
      <4>2. l \in 1..Len(b.levels[s][p]) /\ id = b.levels[s][p][l]
        BY <1>2, <4>1
      <4>3. id \in DOMAIN b.orders /\ b.orders[id].side = s /\ b.orders[id].price = p
        BY <2>0, <4>2
      <4> QED BY <1>4, <3>1, <4>1, <4>3
    <3>2. CASE ~(x = s /\ y = p)
      <4>1. c.levels[x][y] = b.levels[x][y] /\ y \in DOMAIN b.levels[x]
        BY <1>5, <3>2
      <4>2. i \in 1..Len(b.levels[x][y]) /\ id = b.levels[x][y][i]
        BY <2>1, <4>1
      <4>3. id \in DOMAIN b.orders /\ b.orders[id].side = x /\ b.orders[id].price = y
        BY <2>0, <4>1, <4>2
      <4>4. id # m
        BY <1>1, <3>2, <4>3
      <4> QED BY <1>4, <4>3, <4>4
    <3> QED BY <3>1, <3>2
  <2>2. \A x \in Sides : \A y \in DOMAIN c.levels[x] : c.levels[x][y] # <<>>
    BY <1>5 DEF WellFormed, LevelsHoldOrders
  <2> QED BY <2>1, <2>2 DEF LevelsHoldOrders
<1>9. OrdersAreQueued(c)
  <2>1. ASSUME NEW id \in DOMAIN c.orders
        PROVE  \E x, y : /\ x = c.orders[id].side /\ y = c.orders[id].price
                         /\ y \in DOMAIN c.levels[x]
                         /\ \E i \in 1..Len(c.levels[x][y]) : c.levels[x][y][i] = id
    <3>0. PICK x, y : x = c.orders[id].side /\ y = c.orders[id].price
      OBVIOUS
    <3> SUFFICES y \in DOMAIN c.levels[x] /\ \E i \in 1..Len(c.levels[x][y]) : c.levels[x][y][i] = id
      BY <3>0
    <3>1. /\ id \in DOMAIN b.orders /\ id # m /\ x = b.orders[id].side /\ y = b.orders[id].price
          /\ x \in Sides /\ y \in DOMAIN b.levels[x]
      <4>1. id \in DOMAIN b.orders /\ id # m /\ x = b.orders[id].side /\ y = b.orders[id].price
        BY <1>4, <3>0
      <4>2. b.orders[id] \in Orders(U)
        BY <4>1 DEF WellFormed, BookType
      <4>3. b.orders[id].price \in DOMAIN b.levels[b.orders[id].side]
        BY <4>1, Zenon DEF WellFormed, OrdersAreQueued
      <4> QED BY <4>1, <4>2, <4>3 DEF Orders
    <3>2. PICK i \in 1..Len(b.levels[x][y]) : b.levels[x][y][i] = id
      BY <3>1 DEF WellFormed, OrdersAreQueued
    <3>3. CASE x = s /\ y = p
      <4>0. i \in 1..Len(q) /\ q[i] = id
        BY <1>2, <3>2, <3>3
      <4>1. PICK j \in 1..Len(r) : r[j] = id
        BY <1>3, <3>1, <4>0
      <4>2. r # <<>>
        BY <4>1
      <4> QED BY <1>5, <1>6, <3>1, <3>3, <4>1, <4>2
    <3>4. CASE ~(x = s /\ y = p)
      <4>1. y \in DOMAIN c.levels[x]
        BY <1>6, <3>1, <3>4
      <4>2. c.levels[x][y] = b.levels[x][y]
        BY <1>5, <3>1, <3>4, <4>1
      <4> QED BY <3>2, <4>1, <4>2
    <3> QED BY <3>3, <3>4
  <2> QED BY <2>1 DEF OrdersAreQueued
<1>10. QueuesInIdOrder(c)
  <2>1. ASSUME NEW x \in Sides, NEW y \in DOMAIN c.levels[x]
        PROVE  \A i, j \in 1..Len(c.levels[x][y]) : i < j => c.levels[x][y][i] < c.levels[x][y][j]
    <3>1. CASE x = s /\ y = p
      <4>1. c.levels[x][y] = r
        BY <1>5, <3>1
      <4> QED BY <1>3, <4>1
    <3>2. CASE ~(x = s /\ y = p)
      BY <1>5, <3>2 DEF WellFormed, QueuesInIdOrder
    <3> QED BY <3>1, <3>2
  <2> QED BY <2>1 DEF QueuesInIdOrder
<1>11. NotCrossed(c)
  BY <1>5 DEF WellFormed, NotCrossed, Sides
<1> QED BY <1>7, <1>8, <1>9, <1>10, <1>11 DEF WellFormed

-----------------------------------------------------------------------------
\* The operations.

LEMMA NewBookWellFormed ==
  ASSUME NEW U
  PROVE  WellFormed(NewBook, U)
  BY DEF WellFormed, BookType, LevelsHoldOrders, OrdersAreQueued, QueuesInIdOrder,
         NotCrossed, NewBook, EmptyMap, Sides

LEMMA ReserveWellFormed ==
  ASSUME NEW b, NEW U, WellFormed(b, U), NEW id \in Nat
  PROVE  /\ WellFormed(Reserve(b, id), U)
         /\ Reserve(b, id).orders = b.orders
         /\ Reserve(b, id).levels = b.levels
         /\ Reserve(b, id).next_order_id > id
<1> DEFINE c == Reserve(b, id)
<1>1. /\ DOMAIN b = {"levels", "orders", "next_order_id"}
      /\ b.next_order_id \in Nat \ {0}
      /\ DOMAIN b.orders \subseteq 1..(b.next_order_id - 1)
  BY DEF WellFormed, BookType
<1>2. /\ c.orders = b.orders /\ c.levels = b.levels /\ DOMAIN c = DOMAIN b
      /\ c.next_order_id = IF b.next_order_id > id + 1 THEN b.next_order_id ELSE id + 1
  BY <1>1 DEF Reserve
<1>3. c.next_order_id \in Nat \ {0} /\ DOMAIN b.orders \subseteq 1..(c.next_order_id - 1)
      /\ c.next_order_id > id
  BY <1>1, <1>2
<1> HIDE DEF c
<1>4. WellFormed(c, U)
  <2>1. BookType(c, U)
    <3>1. BookType(b, U)
      BY DEF WellFormed
    <3>2. /\ DOMAIN c = {"levels", "orders", "next_order_id"} /\ DOMAIN c.levels = Sides
          /\ c.orders \in [DOMAIN c.orders -> Orders(U)]
      BY <1>1, <1>2, <3>1 DEF BookType
    <3>3. \A s \in Sides : \A p \in DOMAIN c.levels[s] : p \in Nat /\ c.levels[s][p] \in Seq(Nat)
      BY <1>2, <3>1 DEF BookType
    <3> QED BY <1>2, <1>3, <3>2, <3>3 DEF BookType
  <2>2. LevelsHoldOrders(c) /\ OrdersAreQueued(c)
    <3>1. LevelsHoldOrders(b) /\ OrdersAreQueued(b)
      BY DEF WellFormed
    <3>2. LevelsHoldOrders(c)
      BY <1>2, <3>1 DEF LevelsHoldOrders
    <3>3. OrdersAreQueued(c)
      BY <1>2, <3>1 DEF OrdersAreQueued
    <3> QED BY <3>2, <3>3
  <2>3. QueuesInIdOrder(c) /\ NotCrossed(c)
    BY <1>2 DEF WellFormed, QueuesInIdOrder, NotCrossed
  <2> QED BY <2>1, <2>2, <2>3 DEF WellFormed
<1> QED BY <1>2, <1>3, <1>4 DEF c

\* The maker of a taker that matches is the front order of the best level of
\* the other side: an order of that side and price with quantity left.
LEMMA MakerFacts ==
  ASSUME NEW b, NEW U, WellFormed(b, U), NEW side \in Sides,
         NEW s, s = Opposite(side), DOMAIN b.levels[s] # {}
  PROVE  /\ s \in Sides /\ s # side
         /\ BestPrice(b, s) \in DOMAIN b.levels[s]
         /\ BestPrice(b, s) \in Nat
         /\ \A q \in DOMAIN b.levels[s] : ~Better(s, q, BestPrice(b, s))
         /\ b.levels[s][BestPrice(b, s)] \in Seq(Nat)
         /\ b.levels[s][BestPrice(b, s)] # <<>>
         /\ Maker(b, side) = b.levels[s][BestPrice(b, s)][1]
         /\ Maker(b, side) \in DOMAIN b.orders
         /\ b.orders[Maker(b, side)] \in Orders(U)
         /\ b.orders[Maker(b, side)].side = s
         /\ b.orders[Maker(b, side)].price = BestPrice(b, s)
<1>1. s \in Sides /\ s # side
  BY DEF Opposite, Sides
<1>2. PICK p : p = BestPrice(b, s)
  OBVIOUS
<1>3. p \in DOMAIN b.levels[s] /\ p \in Nat /\ \A q \in DOMAIN b.levels[s] : ~Better(s, q, p)
  BY <1>1, <1>2, BestPriceIsBest DEF WellFormed
<1>4. b.levels[s][p] \in Seq(Nat) /\ b.levels[s][p] # <<>>
  BY <1>1, <1>3 DEF WellFormed, BookType, LevelsHoldOrders
<1>5. 1 \in 1..Len(b.levels[s][p]) /\ Head(b.levels[s][p]) = b.levels[s][p][1]
  BY <1>4
<1>6. Maker(b, side) = b.levels[s][p][1]
  BY <1>2, <1>5 DEF Maker
<1>7. LET m == b.levels[s][p][1]
      IN  m \in DOMAIN b.orders /\ b.orders[m].side = s /\ b.orders[m].price = p
  BY <1>1, <1>3, <1>5 DEF WellFormed, LevelsHoldOrders
<1>8. b.orders[Maker(b, side)] \in Orders(U)
  BY <1>6, <1>7 DEF WellFormed, BookType
<1> QED BY <1>1, <1>2, <1>3, <1>4, <1>6, <1>7, <1>8

\* One iteration of the matching loop keeps the book well-formed.
LEMMA AfterFillWellFormed ==
  ASSUME NEW b, NEW U, WellFormed(b, U), NEW t, t.side \in Sides,
         t.remaining_qty \in Nat, Matches(b, t)
  PROVE  /\ WellFormed(AfterFill(b, t), U)
         /\ FillQty(b, t) \in 1..t.remaining_qty
         /\ DOMAIN AfterFill(b, t).orders \subseteq DOMAIN b.orders
         /\ AfterFill(b, t).next_order_id = b.next_order_id
<1>1. PICK s : s = Opposite(t.side)
  OBVIOUS
<1>2. PICK p : p = BestPrice(b, s)
  OBVIOUS
<1>3. PICK m : m = Maker(b, t.side)
  OBVIOUS
<1>4. PICK fill : fill = FillQty(b, t)
  OBVIOUS
<1>5. /\ s \in Sides /\ p \in DOMAIN b.levels[s] /\ b.levels[s][p] \in Seq(Nat)
      /\ b.levels[s][p] # <<>> /\ m = b.levels[s][p][1]
      /\ m \in DOMAIN b.orders /\ b.orders[m] \in Orders(U)
  BY <1>1, <1>2, <1>3, MakerFacts DEF Matches
<1>6. b.orders[m].remaining_qty \in Nat \ {0} /\ t.remaining_qty > 0
  BY <1>5 DEF Orders, Matches
<1>7. /\ fill \in 1..t.remaining_qty
      /\ fill # b.orders[m].remaining_qty => b.orders[m].remaining_qty - fill \in Nat \ {0}
  BY <1>3, <1>4, <1>6 DEF FillQty
<1>8. DOMAIN b = {"levels", "orders", "next_order_id"} /\ DOMAIN b.levels = Sides
  BY DEF WellFormed, BookType
<1>9. CASE b.orders[m].remaining_qty = fill
  <2>1. PICK r : r = Tail(b.levels[s][p])
    OBVIOUS
  <2>2. PICK c : c = [b EXCEPT !.orders = Without(@, m), !.levels[s] = SetQueue(@, p, r)]
    OBVIOUS
  <2>3. AfterFill(b, t) = c
    BY <1>1, <1>2, <1>3, <1>4, <1>9, <2>1, <2>2 DEF AfterFill
  <2>4. IsRemoval(b, c, m, s, p, r)
    <3>1. BookType(b, U)
      BY DEF WellFormed
    <3>2. s \in Sides
      BY <1>5
    <3> QED BY <2>2, <3>1, <3>2, ExceptIsRemoval
  <2>5. r \in Seq(Nat) /\ IsWithout(r, b.levels[s][p], 1) /\ 1 \in 1..Len(b.levels[s][p])
    BY <1>5, <2>1 DEF IsWithout
  <2>6. WellFormed(c, U)
    BY <1>5, <2>4, <2>5, RemovalWellFormed
  <2>7. DOMAIN c.orders \subseteq DOMAIN b.orders /\ c.next_order_id = b.next_order_id
    BY <2>4 DEF IsRemoval, Without
  <2> QED BY <1>4, <1>7, <2>3, <2>6, <2>7
<1>10. CASE b.orders[m].remaining_qty # fill
  <2>1. PICK c : c = [b EXCEPT !.orders[m].remaining_qty = @ - fill]
    OBVIOUS
  <2>2. AfterFill(b, t) = c
    BY <1>3, <1>4, <1>10, <2>1 DEF AfterFill
  <2>3. PICK o : o = [b.orders[m] EXCEPT !.remaining_qty = @ - fill]
    OBVIOUS
  <2>4. /\ c.orders = [b.orders EXCEPT ![m] = o]
        /\ c.levels = b.levels /\ c.next_order_id = b.next_order_id /\ DOMAIN c = DOMAIN b
    BY <1>8, <2>1, <2>3
  <2>5. o \in Orders(U) /\ o.side = b.orders[m].side /\ o.price = b.orders[m].price
    BY <1>5, <1>7, <1>10, <2>3, Zenon DEF Orders
  <2>6. /\ DOMAIN c.orders = DOMAIN b.orders
        /\ c.orders \in [DOMAIN c.orders -> Orders(U)]
        /\ \A id \in DOMAIN b.orders : /\ c.orders[id].side = b.orders[id].side
                                       /\ c.orders[id].price = b.orders[id].price
    BY <1>5, <2>4, <2>5 DEF WellFormed, BookType
  <2>7. BookType(c, U)
    BY <2>4, <2>6 DEF WellFormed, BookType
  <2>8. LevelsHoldOrders(c)
    BY <2>4, <2>6 DEF WellFormed, LevelsHoldOrders
  <2>9. OrdersAreQueued(c)
    <3>1. OrdersAreQueued(b)
      BY DEF WellFormed
    <3>2. ASSUME NEW id \in DOMAIN c.orders
          PROVE  \E x, y : /\ x = c.orders[id].side /\ y = c.orders[id].price
                           /\ y \in DOMAIN c.levels[x]
                           /\ \E i \in 1..Len(c.levels[x][y]) : c.levels[x][y][i] = id
      BY <2>4, <2>6, <3>1 DEF OrdersAreQueued
    <3> QED BY <3>2 DEF OrdersAreQueued
  <2>10. QueuesInIdOrder(c) /\ NotCrossed(c)
    BY <2>4 DEF WellFormed, QueuesInIdOrder, NotCrossed
  <2> QED BY <1>4, <1>7, <2>2, <2>4, <2>6, <2>7, <2>8, <2>9, <2>10 DEF WellFormed
<1> QED BY <1>9, <1>10

\* Cancelling a resting order keeps the book well-formed.
LEMMA CancelWellFormed ==
  ASSUME NEW b, NEW U, WellFormed(b, U), NEW m \in DOMAIN b.orders
  PROVE  /\ WellFormed(Cancel(b, m), U)
         /\ Cancel(b, m).orders = Without(b.orders, m)
         /\ Cancel(b, m).next_order_id = b.next_order_id
<1>1. PICK s : s = b.orders[m].side
  OBVIOUS
<1>2. PICK p : p = b.orders[m].price
  OBVIOUS
<1>3. s \in Sides /\ p \in DOMAIN b.levels[s] /\ b.levels[s][p] \in Seq(Nat)
  BY <1>1, <1>2 DEF WellFormed, BookType, OrdersAreQueued, Orders
<1>4. PICK q : q = b.levels[s][p]
  OBVIOUS
<1>5. PICK k : k = Position(q, m)
  OBVIOUS
<1>6. k \in 1..Len(q) /\ q[k] = m
  BY <1>1, <1>2, <1>4, <1>5, Zenon DEF WellFormed, OrdersAreQueued, Position
<1>7. PICK r : r = RemoveAt(q, k)
  OBVIOUS
<1>8. r \in Seq(Nat) /\ IsWithout(r, q, k)
  BY <1>3, <1>4, <1>6, <1>7, RemoveAtIsWithout
<1>9. PICK c : c = [b EXCEPT !.orders = Without(@, m), !.levels[s] = SetQueue(@, p, r)]
  OBVIOUS
<1>10. Cancel(b, m) = c
  BY <1>1, <1>2, <1>4, <1>5, <1>7, <1>9, Zenon DEF Cancel
<1>11. IsRemoval(b, c, m, s, p, r)
  <2>1. BookType(b, U)
    BY DEF WellFormed
  <2>2. s \in Sides
    BY <1>3
  <2> QED BY <1>9, <2>1, <2>2, ExceptIsRemoval
<1>12. WellFormed(c, U)
  <2>1. /\ s \in Sides /\ p \in DOMAIN b.levels[s] /\ k \in 1..Len(b.levels[s][p])
        /\ m = b.levels[s][p][k] /\ r \in Seq(Nat) /\ IsWithout(r, b.levels[s][p], k)
    BY <1>3, <1>4, <1>6, <1>8
  <2> QED BY <1>11, <2>1, RemovalWellFormed
<1> QED BY <1>10, <1>11, <1>12 DEF IsRemoval

\* An order that matches nothing, and is younger than every resting order,
\* can rest.
LEMMA RestWellFormed ==
  ASSUME NEW b, NEW U, WellFormed(b, U), NEW t, t.side \in Sides, t.limit \in Nat,
         t.user_id \in U, t.remaining_qty \in Nat \ {0},
         t.order_id \in 1..(b.next_order_id - 1),
         \A id \in DOMAIN b.orders : id < t.order_id,
         ~Matches(b, t)
  PROVE  /\ WellFormed(Rest(b, t), U)
         /\ Rest(b, t).orders = With(b.orders, t.order_id, RestingOrder(t))
         /\ Rest(b, t).next_order_id = b.next_order_id
<1>1. PICK s : s = t.side
  OBVIOUS
<1>2. PICK p : p = t.limit
  OBVIOUS
<1>3. PICK n : n = t.order_id
  OBVIOUS
<1>4. PICK o : o = RestingOrder(t)
  OBVIOUS
<1>5. PICK q : q = IF p \in DOMAIN b.levels[s] THEN b.levels[s][p] ELSE <<>>
  OBVIOUS
<1>6. PICK r : r = Append(q, n)
  OBVIOUS
<1>7. PICK c : c = Rest(b, t)
  OBVIOUS
<1>8. /\ s \in Sides /\ p \in Nat /\ n \in Nat /\ n \notin DOMAIN b.orders
      /\ n \in 1..(b.next_order_id - 1) /\ q \in Seq(Nat)
  BY <1>1, <1>2, <1>3, <1>5 DEF WellFormed, BookType
<1>9. o \in Orders(U) /\ o.side = s /\ o.price = p
  BY <1>1, <1>2, <1>4 DEF RestingOrder, Orders
<1>10. /\ r \in Seq(Nat) /\ r # <<>> /\ Len(r) = Len(q) + 1 /\ Len(q) \in Nat /\ r[Len(q) + 1] = n
       /\ \A i \in 1..Len(q) : r[i] = q[i]
  BY <1>6, <1>8
<1>11. /\ c.orders = With(b.orders, n, o)
       /\ c.levels[s] = With(b.levels[s], p, r)
       /\ \A x \in Sides : x # s => c.levels[x] = b.levels[x]
       /\ c.next_order_id = b.next_order_id
       /\ DOMAIN c = DOMAIN b /\ DOMAIN c.levels = DOMAIN b.levels
  <2>1. DOMAIN b = {"levels", "orders", "next_order_id"} /\ DOMAIN b.levels = Sides
    BY DEF WellFormed, BookType
  <2> QED BY <1>1, <1>2, <1>3, <1>4, <1>5, <1>6, <1>7, <2>1 DEF Rest, PushBack
<1>12. /\ DOMAIN c.orders = DOMAIN b.orders \cup {n} /\ c.orders[n] = o
       /\ \A id \in DOMAIN b.orders : c.orders[id] = b.orders[id]
  BY <1>8, <1>11 DEF With
<1>13. ASSUME NEW x \in Sides, NEW y \in DOMAIN c.levels[x]
       PROVE  /\ ~(x = s /\ y = p) => y \in DOMAIN b.levels[x] /\ c.levels[x][y] = b.levels[x][y]
              /\ x = s /\ y = p => c.levels[x][y] = r
  BY <1>11 DEF With
<1>14. /\ p \in DOMAIN c.levels[s]
       /\ \A x \in Sides : DOMAIN b.levels[x] \subseteq DOMAIN c.levels[x]
  BY <1>11 DEF With
<1>15. ASSUME NEW i \in 1..Len(q)
       PROVE  /\ q[i] \in DOMAIN b.orders /\ b.orders[q[i]].side = s /\ b.orders[q[i]].price = p
              /\ q[i] < n
  <2>1. p \in DOMAIN b.levels[s] /\ q = b.levels[s][p]
    BY <1>5
  <2> QED BY <1>3, <1>8, <2>1 DEF WellFormed, LevelsHoldOrders
<1>16. BookType(c, U)
  <2>1. ASSUME NEW x \in Sides, NEW y \in DOMAIN c.levels[x]
        PROVE  y \in Nat /\ c.levels[x][y] \in Seq(Nat)
    <3>1. CASE x = s /\ y = p
      BY <1>8, <1>10, <1>13, <3>1
    <3>2. CASE ~(x = s /\ y = p)
      BY <1>13, <3>2 DEF WellFormed, BookType
    <3> QED BY <3>1, <3>2
  <2>2. c.orders \in [DOMAIN c.orders -> Orders(U)]
    <3>1. \A id \in DOMAIN c.orders : c.orders[id] \in Orders(U)
      BY <1>9, <1>12 DEF WellFormed, BookType
    <3>2. c.orders = [id \in DOMAIN c.orders |-> c.orders[id]]
      BY <1>11 DEF With
    <3> QED BY <3>1, <3>2
  <2> QED BY <1>8, <1>11, <1>12, <2>1, <2>2 DEF WellFormed, BookType
<1>17. LevelsHoldOrders(c)
  <2>1. ASSUME NEW x \in Sides, NEW y \in DOMAIN c.levels[x],
               NEW i \in 1..Len(c.levels[x][y]), NEW id, id = c.levels[x][y][i]
        PROVE  id \in DOMAIN c.orders /\ c.orders[id].side = x /\ c.orders[id].price = y
    <3>1. CASE x = s /\ y = p
      <4>1. i \in 1..Len(r) /\ id = r[i]
        BY <1>13, <2>1, <3>1
      <4>2. CASE i = Len(q) + 1
        BY <1>9, <1>10, <1>12, <3>1, <4>1, <4>2
      <4>3. CASE i \in 1..Len(q)
        BY <1>10, <1>12, <1>15, <3>1, <4>1, <4>3
      <4> QED BY <1>10, <4>1, <4>2, <4>3
    <3>2. CASE ~(x = s /\ y = p)
      <4>1. c.levels[x][y] = b.levels[x][y] /\ y \in DOMAIN b.levels[x]
        BY <1>13, <3>2
      <4>2. id \in DOMAIN b.orders /\ b.orders[id].side = x /\ b.orders[id].price = y
        BY <2>1, <4>1 DEF WellFormed, LevelsHoldOrders
      <4> QED BY <1>12, <4>2
    <3> QED BY <3>1, <3>2
  <2>2. \A x \in Sides : \A y \in DOMAIN c.levels[x] : c.levels[x][y] # <<>>
    BY <1>10, <1>13 DEF WellFormed, LevelsHoldOrders
  <2> QED BY <2>1, <2>2 DEF LevelsHoldOrders
<1>18. OrdersAreQueued(c)
  <2>1. ASSUME NEW id \in DOMAIN c.orders, NEW x, x = c.orders[id].side,
               NEW y, y = c.orders[id].price
        PROVE  y \in DOMAIN c.levels[x] /\ \E i \in 1..Len(c.levels[x][y]) : c.levels[x][y][i] = id
    <3>1. CASE id = n
      <4>1. x = s /\ y = p /\ c.levels[x][y] = r /\ y \in DOMAIN c.levels[x]
        BY <1>8, <1>9, <1>12, <1>13, <1>14, <2>1, <3>1
      <4>2. Len(q) + 1 \in 1..Len(r)
        BY <1>10
      <4> QED BY <1>10, <3>1, <4>1, <4>2
    <3>2. CASE id # n
      <4>1. /\ id \in DOMAIN b.orders /\ x = b.orders[id].side /\ y = b.orders[id].price
            /\ x \in Sides /\ y \in DOMAIN b.levels[x] /\ y \in DOMAIN c.levels[x]
        <5>1. id \in DOMAIN b.orders /\ x = b.orders[id].side /\ y = b.orders[id].price
          BY <1>12, <2>1, <3>2
        <5>2. b.orders[id] \in Orders(U)
          BY <5>1 DEF WellFormed, BookType
        <5>3. b.orders[id].price \in DOMAIN b.levels[b.orders[id].side]
          BY <5>1, Zenon DEF WellFormed, OrdersAreQueued
        <5> QED BY <1>14, <5>1, <5>2, <5>3 DEF Orders
      <4>2. PICK i \in 1..Len(b.levels[x][y]) : b.levels[x][y][i] = id
        BY <4>1 DEF WellFormed, OrdersAreQueued
      <4>3. CASE x = s /\ y = p
        <5>1. q = b.levels[x][y] /\ c.levels[x][y] = r
          BY <1>5, <1>8, <1>13, <4>1, <4>3
        <5>2. i \in 1..Len(q) /\ q[i] = id
          BY <4>2, <5>1
        <5>3. i \in 1..Len(r) /\ r[i] = id
          BY <1>10, <5>2
        <5> QED BY <4>1, <5>1, <5>3
      <4>4. CASE ~(x = s /\ y = p)
        <5>1. c.levels[x][y] = b.levels[x][y]
          BY <1>13, <4>1, <4>4
        <5> QED BY <4>1, <4>2, <5>1, Zenon
      <4> QED BY <4>3, <4>4
    <3> QED BY <3>1, <3>2
  <2> QED BY <2>1 DEF OrdersAreQueued
<1>19. QueuesInIdOrder(c)
  <2>1. ASSUME NEW x \in Sides, NEW y \in DOMAIN c.levels[x]
        PROVE  \A i, j \in 1..Len(c.levels[x][y]) : i < j => c.levels[x][y][i] < c.levels[x][y][j]
    <3>1. CASE x = s /\ y = p
      <4>1. \A i, j \in 1..Len(q) : i < j => q[i] < q[j]
        BY <1>5, <1>8 DEF WellFormed, QueuesInIdOrder
      <4>2. ASSUME NEW i \in 1..Len(r), NEW j \in 1..Len(r), i < j PROVE r[i] < r[j]
        <5>1. i \in 1..Len(q)
          BY <1>10, <4>2
        <5>2. CASE j = Len(q) + 1
          BY <1>10, <1>15, <5>1, <5>2
        <5>3. CASE j \in 1..Len(q)
          BY <1>10, <4>1, <4>2, <5>1, <5>3
        <5> QED BY <1>10, <5>2, <5>3
      <4>3. c.levels[x][y] = r
        BY <1>13, <3>1
      <4> QED BY <4>2, <4>3
    <3>2. CASE ~(x = s /\ y = p)
      BY <1>13, <3>2 DEF WellFormed, QueuesInIdOrder
    <3> QED BY <3>1, <3>2
  <2> QED BY <2>1 DEF QueuesInIdOrder
<1>20. NotCrossed(c)
  <2>1. ASSUME NEW z \in DOMAIN b.levels[Opposite(s)]
        PROVE  /\ z \in Nat
               /\ s = "bid" => p < z
               /\ s = "ask" => z < p
    <3>1. PICK v : v = Opposite(s)
      OBVIOUS
    <3>2. PICK w : w = BestPrice(b, v)
      OBVIOUS
    <3>3. v \in Sides /\ z \in Nat /\ w \in Nat /\ ~Better(v, z, w)
      BY <1>8, <2>1, <3>1, <3>2, MakerFacts DEF WellFormed, BookType
    <3>4. ~Crosses(s, p, w)
      BY <1>1, <1>2, <2>1, <3>1, <3>2 DEF Matches
    <3> QED BY <1>8, <3>1, <3>3, <3>4 DEF Crosses, Better, Opposite, NoCap
  <2>2. ASSUME NEW y \in DOMAIN c.levels["bid"], NEW z \in DOMAIN c.levels["ask"]
        PROVE  y < z
    <3>1. CASE s = "bid"
      <4>1. z \in DOMAIN b.levels["ask"] /\ p < z
        BY <1>11, <2>1, <3>1 DEF Sides, Opposite
      <4>2. y = p \/ y \in DOMAIN b.levels["bid"]
        BY <1>11, <3>1 DEF With
      <4> QED BY <4>1, <4>2 DEF WellFormed, NotCrossed
    <3>2. CASE s = "ask"
      <4>1. y \in DOMAIN b.levels["bid"] /\ y < p
        BY <1>11, <2>1, <3>2 DEF Sides, Opposite
      <4>2. z = p \/ z \in DOMAIN b.levels["ask"]
        BY <1>11, <3>2 DEF With
      <4> QED BY <4>1, <4>2 DEF WellFormed, NotCrossed
    <3> QED BY <1>8, <3>1, <3>2 DEF Sides
  <2> QED BY <2>2 DEF NotCrossed
<1>21. WellFormed(c, U)
  BY <1>16, <1>17, <1>18, <1>19, <1>20 DEF WellFormed
<1> QED BY <1>3, <1>4, <1>7, <1>11, <1>21

-----------------------------------------------------------------------------
\* What a walk over the makers takes.

\* What was taken, with what is still wanted.
Taken == [left : Nat, cost : Nat, filled : Nat]

\* One maker, at the price p.
Take(b, p, acc, id) ==
  LET rem == b.orders[id].remaining_qty
      n   == IF acc.left < rem THEN acc.left ELSE rem
  IN  [left |-> acc.left - n, cost |-> acc.cost + n * p, filled |-> acc.filled + n]

\* What is left and what was filled add up to what was wanted.
LEMMA TakeFacts ==
  ASSUME NEW b, NEW p \in Nat, NEW acc \in Taken, NEW id, b.orders[id].remaining_qty \in Nat
  PROVE  /\ Take(b, p, acc, id) \in Taken
         /\ Take(b, p, acc, id).left + Take(b, p, acc, id).filled = acc.left + acc.filled
<1> DEFINE rem == b.orders[id].remaining_qty
           n   == IF acc.left < rem THEN acc.left ELSE rem
<1>1. acc.left \in Nat /\ acc.cost \in Nat /\ acc.filled \in Nat /\ rem \in Nat
  BY DEF Taken
<1>2. n \in Nat /\ acc.left - n \in Nat
  BY <1>1
<1>3. PICK m : m = n
  OBVIOUS
<1>4. m * p \in Nat
  BY <1>2, <1>3
<1>5. Take(b, p, acc, id) = [left |-> acc.left - m, cost |-> acc.cost + m * p, filled |-> acc.filled + m]
  BY <1>3 DEF Take
<1> HIDE DEF n, rem
<1> QED BY <1>1, <1>2, <1>3, <1>4, <1>5 DEF Taken

\* The orders of a queue have quantities.
Countable(b, q) == q \in Seq(Nat) /\ \A i \in 1..Len(q) : b.orders[q[i]].remaining_qty \in Nat

\* w is what was taken before and after each order of the queue q at price p.
LevelWalk(w, b, p, q, taken) ==
  /\ w \in [0..Len(q) -> Taken]
  /\ w[0] = taken
  /\ \A i \in 1..Len(q) : w[i] = Take(b, p, w[i - 1], q[i])

\* TakeLevel walks the queue of the level from front to back.
LEMMA TakeLevelWalks ==
  ASSUME NEW b, NEW s, NEW p \in Nat, NEW q, q = b.levels[s][p], Countable(b, q),
         NEW taken \in Taken
  PROVE  \E w : LevelWalk(w, b, p, q, taken) /\ TakeLevel(b, s, p, taken) = w[Len(q)]
<1>0. q \in Seq(Nat) /\ \A i \in 1..Len(q) : b.orders[q[i]].remaining_qty \in Nat
  BY DEF Countable
<1> DEFINE Q == b.levels[s][p]
           S == DOMAIN Q
           c == [v \in SUBSET S |-> Max(v)]
           G == [x \in S \X Taken |-> Take(b, p, x[2], Q[x[1]])]
           h == CHOOSE g : g = [v \in SUBSET S |->
                                  IF v = {} THEN taken
                                  ELSE Take(b, p, g[v \ {Max(v)}], Q[Max(v)])]
<1>1. Q = q /\ S = 1..Len(q) /\ IsFiniteSet(S) /\ S \in SUBSET Int /\ Len(q) \in Nat
  <2>1. Len(q) \in Nat /\ DOMAIN q = 1..Len(q) /\ 1 \in Int /\ Len(q) \in Int
    BY <1>0
  <2> QED BY <2>1, FS_Interval
<1>2. \A v \in SUBSET S : v # {} => Max(v) \in v /\ Max(v) \in S
  <2> TAKE v \in SUBSET S
  <2>1. SUFFICES ASSUME v # {} PROVE Max(v) \in v
    BY <2>1
  <2>2. IsFiniteSet(v) /\ v \in SUBSET Int
    BY <1>1, FS_Subset
  <2>3. \E x \in v : \A y \in v : y <= x
    BY <2>1, <2>2, FiniteSetHasMax
  <2>4. \E x \in v : \A y \in v : x >= y
    BY <2>2, <2>3
  <2> QED BY <2>4, Zenon DEF Max
<1>3. \A x \in S, t \in Taken : G[<<x, t>>] = Take(b, p, t, Q[x]) /\ G[<<x, t>>] \in Taken
  BY <1>0, <1>1, TakeFacts
<1>4. PICK g \in [SUBSET S -> Taken] : IsFold(g, S, taken, c, G)
  <2>1. \A v \in SUBSET S : v # {} => c[v] \in v
    BY <1>2
  <2> HIDE DEF S, c, G
  <2> QED BY <1>1, <1>3, <2>1, FoldExists
<1>5. g = [v \in SUBSET S |-> IF v = {} THEN taken ELSE Take(b, p, g[v \ {Max(v)}], Q[Max(v)])]
  <2>1. ASSUME NEW v \in SUBSET S, v # {}
        PROVE  g[v] = Take(b, p, g[v \ {Max(v)}], Q[Max(v)])
    <3>1. c[v] = Max(v) /\ Max(v) \in S /\ g[v \ {Max(v)}] \in Taken
      BY <1>2, <2>1
    <3>2. g[v] = G[<<Max(v), g[v \ {Max(v)}]>>]
      <4> HIDE DEF S, c, G
      <4> QED BY <1>4, <2>1, <3>1 DEF IsFold
    <3> HIDE DEF S, c, G
    <3> QED BY <1>3, <3>1, <3>2
  <2>2. g[{}] = taken
    BY <1>4 DEF IsFold
  <2> HIDE DEF S
  <2> QED BY <2>1, <2>2
<1>6. h = [v \in SUBSET S |-> IF v = {} THEN taken ELSE Take(b, p, h[v \ {Max(v)}], Q[Max(v)])]
  <2> HIDE DEF S
  <2> QED BY <1>5, Zenon
<1>7. TakeLevel(b, s, p, taken) = h[S]
  BY Zenon DEF TakeLevel, Take, FoldLeft, MapThenFoldSet
<1> DEFINE w == [i \in 0..Len(q) |-> h[1..i]]
<1> HIDE DEF h
<1>8. w[0] = taken /\ w[Len(q)] = h[S]
  <2>1. 1..0 = {} /\ {} \in SUBSET S
    OBVIOUS
  <2> QED BY <1>1, <1>6, <2>1
<1>9. ASSUME NEW i \in 1..Len(q) PROVE w[i] = Take(b, p, w[i - 1], q[i])
  <2>1. i \in Nat \ {0} /\ 1..i \in SUBSET S /\ 1..i # {} /\ i - 1 \in 0..Len(q) /\ i \in 0..Len(q)
    <3>1. i \in Nat /\ 1 <= i /\ i <= Len(q) /\ Len(q) \in Nat
      BY <1>1
    <3>2. 1 \in 1..i /\ \A j \in 1..i : j \in S
      BY <3>1
    <3>3. i \in Nat \ {0} /\ i - 1 \in 0..Len(q) /\ i \in 0..Len(q)
      BY <3>1
    <3>4. 1..i \subseteq S
      BY <3>2
    <3> HIDE DEF S
    <3> QED BY <3>2, <3>3, <3>4
  <2>2. Max(1..i) = i /\ (1..i) \ {i} = 1..(i - 1)
    BY <2>1, MaxOfInterval
  <2>3. h[1..i] = Take(b, p, h[(1..i) \ {Max(1..i)}], q[Max(1..i)])
    <3> HIDE DEF Q, S
    <3> QED BY <1>1, <1>6, <2>1
  <2>4. h[1..i] = Take(b, p, h[1..(i - 1)], q[i])
    BY <2>2, <2>3
  <2> QED BY <2>1, <2>4
<1> HIDE DEF w
<1>10. \A i \in 0..Len(q) : w[i] \in Taken
  <2> DEFINE B == {i \in 0..Len(q) : w[i] \notin Taken}
  <2>1. SUFFICES ASSUME B # {} PROVE FALSE
    BY <2>1
  <2>2. B \in SUBSET Nat
    BY <1>1
  <2>3. PICK m \in B : \A x \in B : m <= x
    BY <2>1, <2>2, SetHasMin
  <2>4. m # 0
    BY <1>8, <2>3
  <2>5. m \in 1..Len(q) /\ m - 1 \in 0..Len(q) /\ ~(m <= m - 1)
    BY <1>1, <2>3, <2>4
  <2>6. w[m - 1] \in Taken
    BY <2>3, <2>5
  <2>7. w[m] \in Taken
    <3>1. b.orders[q[m]].remaining_qty \in Nat /\ w[m] = Take(b, p, w[m - 1], q[m])
      BY <1>0, <1>9, <2>5
    <3>2. PICK acc : acc = w[m - 1]
      OBVIOUS
    <3>3. PICK id : id = q[m]
      OBVIOUS
    <3>4. acc \in Taken /\ b.orders[id].remaining_qty \in Nat /\ w[m] = Take(b, p, acc, id)
      BY <2>6, <3>1, <3>2, <3>3
    <3>5. Take(b, p, acc, id) \in Taken
      BY <3>4, TakeFacts
    <3> QED BY <3>4, <3>5
  <2> QED BY <2>3, <2>7
<1>11. w \in [0..Len(q) -> Taken]
  BY <1>10 DEF w
<1>12. LevelWalk(w, b, p, q, taken)
  BY <1>8, <1>9, <1>11 DEF LevelWalk
<1> QED BY <1>7, <1>8, <1>12

\* A finite non-empty set of prices has one that is served last.
LEMMA LastServedIsLast ==
  ASSUME NEW S \in SUBSET Nat, IsFiniteSet(S), S # {}, NEW side \in Sides
  PROVE  /\ LastServed(side, S) \in S
         /\ \A q \in S : ~Better(side, LastServed(side, S), q)
<1>1. \E p \in S : \A q \in S : ~Better(side, p, q)
  <2>1. CASE side = "bid"
    <3>1. PICK m \in S : \A x \in S : m <= x
      BY SetHasMin
    <3>2. \A q \in S : ~(m > q)
      BY <3>1
    <3> QED BY <2>1, <3>2 DEF Better
  <2>2. CASE side = "ask"
    <3>1. S \in SUBSET Int
      OBVIOUS
    <3>2. PICK m \in S : \A x \in S : x <= m
      BY <3>1, FiniteSetHasMax
    <3>3. \A q \in S : ~(m < q)
      BY <3>2
    <3> QED BY <2>2, <3>3 DEF Better
  <2> QED BY <2>1, <2>2 DEF Sides
<1> QED BY <1>1, Zenon DEF LastServed

\* The levels of a side can be walked: prices and quantities are numbers, and
\* the levels are finitely many.
Walkable(b, s) ==
  /\ s \in Sides
  /\ DOMAIN b.levels[s] \in SUBSET Nat
  /\ IsFiniteSet(DOMAIN b.levels[s])
  /\ \A p \in DOMAIN b.levels[s] : Countable(b, b.levels[s][p])

LEMMA WellFormedWalkable ==
  ASSUME NEW b, NEW U, WellFormed(b, U), NEW s \in Sides
  PROVE  Walkable(b, s)
<1>1. IsFiniteSet(DOMAIN b.levels[s])
  BY LevelsFinite DEF WellFormed
<1>2. ASSUME NEW p \in DOMAIN b.levels[s] PROVE p \in Nat /\ b.levels[s][p] \in Seq(Nat)
  BY DEF WellFormed, BookType
<1>3. ASSUME NEW p \in DOMAIN b.levels[s], NEW i \in 1..Len(b.levels[s][p])
      PROVE  b.orders[b.levels[s][p][i]].remaining_qty \in Nat
  <2>1. PICK id : id = b.levels[s][p][i]
    OBVIOUS
  <2>2. id \in DOMAIN b.orders
    BY <2>1 DEF WellFormed, LevelsHoldOrders
  <2>3. b.orders[id] \in Orders(U)
    BY <2>2 DEF WellFormed, BookType
  <2> QED BY <2>1, <2>3 DEF Orders
<1>4. DOMAIN b.levels[s] \in SUBSET Nat
  BY <1>2
<1> QED BY <1>1, <1>2, <1>3, <1>4 DEF Walkable, Countable

LEMMA TakeLevelType ==
  ASSUME NEW b, NEW s, Walkable(b, s), NEW p \in DOMAIN b.levels[s], NEW taken \in Taken
  PROVE  TakeLevel(b, s, p, taken) \in Taken
<1>1. PICK q : q = b.levels[s][p]
  OBVIOUS
<1>2. p \in Nat /\ Countable(b, q)
  BY <1>1 DEF Walkable
<1>3. PICK w : LevelWalk(w, b, p, q, taken) /\ TakeLevel(b, s, p, taken) = w[Len(q)]
  BY <1>1, <1>2, TakeLevelWalks
<1>4. Len(q) \in 0..Len(q)
  BY <1>2 DEF Countable
<1> QED BY <1>3, <1>4 DEF LevelWalk

\* g is what was taken from each set of levels, the last level taken last.
LevelsWalk(g, b, s, L, taken) ==
  /\ g \in [SUBSET L -> Taken]
  /\ g[{}] = taken
  /\ \A v \in SUBSET L : v # {} =>
       g[v] = TakeLevel(b, s, LastServed(s, v), g[v \ {LastServed(s, v)}])

\* TakeLevels takes the best level first and the last one last.
LEMMA TakeLevelsWalks ==
  ASSUME NEW b, NEW s, Walkable(b, s), NEW L \in SUBSET DOMAIN b.levels[s], NEW taken \in Taken
  PROVE  \E g : LevelsWalk(g, b, s, L, taken) /\ TakeLevels(b, s, L, taken) = g[L]
<1> DEFINE c == [v \in SUBSET L |-> LastServed(s, v)]
           G == [x \in L \X Taken |-> TakeLevel(b, s, x[1], x[2])]
           h == CHOOSE g : g = [v \in SUBSET L |->
                                  IF v = {} THEN taken
                                  ELSE TakeLevel(b, s, LastServed(s, v), g[v \ {LastServed(s, v)}])]
<1>1. IsFiniteSet(L) /\ L \in SUBSET Nat /\ s \in Sides
  BY FS_Subset DEF Walkable
<1>2. \A v \in SUBSET L : v # {} => LastServed(s, v) \in v /\ LastServed(s, v) \in L
  <2> TAKE v \in SUBSET L
  <2>1. SUFFICES ASSUME v # {} PROVE LastServed(s, v) \in v
    BY <2>1
  <2>2. IsFiniteSet(v) /\ v \in SUBSET Nat
    BY <1>1, FS_Subset
  <2> QED BY <1>1, <2>1, <2>2, LastServedIsLast
<1>3. \A x \in L, t \in Taken :
        G[<<x, t>>] = TakeLevel(b, s, x, t) /\ TakeLevel(b, s, x, t) \in Taken
  BY TakeLevelType
<1>4. PICK g \in [SUBSET L -> Taken] : IsFold(g, L, taken, c, G)
  <2>1. \A v \in SUBSET L : v # {} => c[v] \in v
    BY <1>2
  <2>2. \A x \in L, t \in Taken : G[<<x, t>>] \in Taken
    BY <1>3
  <2> HIDE DEF c, G
  <2> QED BY <1>1, <2>1, <2>2, FoldExists
<1>5. \A v \in SUBSET L :
        g[v] = IF v = {} THEN taken
               ELSE TakeLevel(b, s, LastServed(s, v), g[v \ {LastServed(s, v)}])
  <2>1. ASSUME NEW v \in SUBSET L, v # {}
        PROVE  g[v] = TakeLevel(b, s, LastServed(s, v), g[v \ {LastServed(s, v)}])
    <3>1. c[v] = LastServed(s, v) /\ LastServed(s, v) \in L /\ g[v \ {LastServed(s, v)}] \in Taken
      BY <1>2, <2>1
    <3>2. g[v] = G[<<LastServed(s, v), g[v \ {LastServed(s, v)}]>>]
      <4> HIDE DEF c, G
      <4> QED BY <1>4, <2>1, <3>1 DEF IsFold
    <3> HIDE DEF c, G
    <3> QED BY <1>3, <3>1, <3>2
  <2>2. g[{}] = taken
    BY <1>4 DEF IsFold
  <2> QED BY <2>1, <2>2
<1>6. g = [v \in SUBSET L |-> IF v = {} THEN taken
             ELSE TakeLevel(b, s, LastServed(s, v), g[v \ {LastServed(s, v)}])]
  BY <1>5
<1>7. h = [v \in SUBSET L |-> IF v = {} THEN taken
             ELSE TakeLevel(b, s, LastServed(s, v), h[v \ {LastServed(s, v)}])]
  BY <1>6, Zenon
<1>8. TakeLevels(b, s, L, taken) = h[L]
  BY Zenon DEF TakeLevels, MapThenFoldSet
<1> HIDE DEF h
<1>9. /\ h[{}] = taken
      /\ \A v \in SUBSET L : v # {} =>
           h[v] = TakeLevel(b, s, LastServed(s, v), h[v \ {LastServed(s, v)}])
  BY <1>7
<1> DEFINE P == {v \in SUBSET L : h[v] \in Taken}
<1>10. ASSUME NEW v \in SUBSET L, \A x \in v : v \ {x} \in P PROVE v \in P
  <2>1. CASE v = {}
    <3>1. h[v] = taken
      BY <1>9, <2>1
    <3> QED BY <3>1
  <2>2. CASE v # {}
    <3>1. PICK p : p = LastServed(s, v)
      OBVIOUS
    <3>2. p \in v /\ p \in DOMAIN b.levels[s] /\ h[v \ {p}] \in Taken
      BY <1>2, <1>10, <2>2, <3>1
    <3>3. h[v] = TakeLevel(b, s, p, h[v \ {p}])
      BY <1>9, <2>2, <3>1
    <3>4. h[v] \in Taken
      BY <3>2, <3>3, TakeLevelType
    <3> QED BY <3>4
  <2> QED BY <2>1, <2>2
<1>11. \A v \in SUBSET L : v \in P
  <2> HIDE DEF P
  <2> QED BY <1>1, <1>10, SubsetInduction
<1>12. h \in [SUBSET L -> Taken]
  <2>1. DOMAIN h = SUBSET L /\ \A v \in SUBSET L : h[v] \in Taken
    BY <1>7, <1>11
  <2>2. h = [v \in SUBSET L |-> h[v]]
    BY <1>7
  <2> QED BY <2>1, <2>2
<1>13. LevelsWalk(h, b, s, L, taken)
  BY <1>9, <1>12 DEF LevelsWalk
<1> QED BY <1>8, <1>13

LEMMA SweepType ==
  ASSUME NEW b, NEW s, Walkable(b, s), NEW limit, NEW qty \in Nat
  PROVE  Sweep(b, s, limit, qty) \in Taken
<1> DEFINE L == {p \in DOMAIN b.levels[s] : Crosses(Opposite(s), limit, p)}
           start == [left |-> qty, cost |-> 0, filled |-> 0]
<1>1. start \in Taken /\ L \in SUBSET DOMAIN b.levels[s]
  BY DEF Taken
<1>2. Sweep(b, s, limit, qty) = TakeLevels(b, s, L, start)
  BY DEF Sweep
<1> HIDE DEF L, start
<1>3. PICK g : LevelsWalk(g, b, s, L, start) /\ TakeLevels(b, s, L, start) = g[L]
  BY <1>1, TakeLevelsWalks
<1> QED BY <1>2, <1>3 DEF LevelsWalk

-----------------------------------------------------------------------------
\* What a fill does to the orders of the book.

\* The orders after n units of the order m are filled.
IsFill(before, after, m, n) ==
  /\ m \in DOMAIN before
  /\ DOMAIN after = DOMAIN before \/ DOMAIN after = DOMAIN before \ {m}
  /\ \A id \in DOMAIN after \ {m} : after[id] = before[id]
  /\ m \notin DOMAIN after => before[m].remaining_qty = n
  /\ m \in DOMAIN after =>
       /\ after[m].user_id = before[m].user_id /\ after[m].side = before[m].side
       /\ before[m].remaining_qty = n + after[m].remaining_qty

\* A maker that stays in the book was filled by all that was left of the taker.
LEMMA AfterFillOrders ==
  ASSUME NEW b, NEW U, WellFormed(b, U), NEW t, t.side \in Sides,
         t.remaining_qty \in Nat, Matches(b, t)
  PROVE  /\ IsFill(b.orders, AfterFill(b, t).orders, Maker(b, t.side), FillQty(b, t))
         /\ b.orders[Maker(b, t.side)].side = Opposite(t.side)
         /\ Maker(b, t.side) \in DOMAIN AfterFill(b, t).orders =>
              FillQty(b, t) = t.remaining_qty
<1>1. PICK s : s = Opposite(t.side)
  OBVIOUS
<1>2. PICK p : p = BestPrice(b, s)
  OBVIOUS
<1>3. PICK m : m = Maker(b, t.side)
  OBVIOUS
<1>4. PICK fill : fill = FillQty(b, t)
  OBVIOUS
<1>5. /\ m \in DOMAIN b.orders /\ b.orders[m] \in Orders(U) /\ b.orders[m].side = s
  BY <1>1, <1>3, MakerFacts DEF Matches
<1>6. b.orders[m].remaining_qty \in Nat /\ fill \in Nat
      /\ (fill = t.remaining_qty \/ fill = b.orders[m].remaining_qty)
  BY <1>3, <1>4, <1>5 DEF Orders, FillQty
<1>7. DOMAIN b = {"levels", "orders", "next_order_id"}
  BY DEF WellFormed, BookType
<1>8. CASE b.orders[m].remaining_qty = fill
  <2>1. AfterFill(b, t).orders = Without(b.orders, m)
    BY <1>1, <1>2, <1>3, <1>4, <1>7, <1>8 DEF AfterFill
  <2>2. /\ m \notin DOMAIN AfterFill(b, t).orders
        /\ IsFill(b.orders, AfterFill(b, t).orders, m, fill)
    BY <1>5, <1>8, <2>1 DEF Without, IsFill
  <2> QED BY <1>1, <1>3, <1>4, <1>5, <2>2
<1>9. CASE b.orders[m].remaining_qty # fill
  <2>1. PICK n \in Int : n = b.orders[m].remaining_qty - fill
    BY <1>6
  <2>2. AfterFill(b, t) = [b EXCEPT !.orders[m].remaining_qty = n]
    BY <1>3, <1>4, <1>9, <2>1 DEF AfterFill
  <2>3. PICK o : o = [b.orders[m] EXCEPT !.remaining_qty = n]
    OBVIOUS
  <2>4. AfterFill(b, t).orders = [b.orders EXCEPT ![m] = o]
    BY <1>7, <2>2, <2>3
  <2>5. /\ o.user_id = b.orders[m].user_id /\ o.side = b.orders[m].side
        /\ o.remaining_qty = n
    BY <1>5, <2>3 DEF Orders
  <2>6. b.orders[m].remaining_qty = fill + n
    BY <1>6, <2>1
  <2>7. IsFill(b.orders, AfterFill(b, t).orders, m, fill)
    BY <1>5, <2>4, <2>5, <2>6 DEF IsFill
  <2>8. fill = t.remaining_qty
    BY <1>6, <1>9
  <2> QED BY <1>1, <1>3, <1>4, <1>5, <2>7, <2>8
<1> QED BY <1>8, <1>9

-----------------------------------------------------------------------------
\* What a walk takes before and after a fill.

\* acc is ahead of now by n units that cost k.
Ahead(acc, now, n, k) ==
  /\ acc \in Taken /\ now \in Taken
  /\ acc.left = now.left
  /\ acc.cost = now.cost + k
  /\ acc.filled = now.filled + n

\* The same maker keeps the distance.
LEMMA TakeAhead ==
  ASSUME NEW b, NEW c, NEW p \in Nat, NEW id, b.orders[id].remaining_qty \in Nat,
         c.orders[id].remaining_qty = b.orders[id].remaining_qty,
         NEW n \in Nat, NEW k \in Nat, NEW acc, NEW now, Ahead(acc, now, n, k)
  PROVE  Ahead(Take(b, p, acc, id), Take(c, p, now, id), n, k)
<1>1. acc \in Taken /\ now \in Taken
  BY DEF Ahead
<1>2. Take(b, p, acc, id) \in Taken /\ Take(c, p, now, id) \in Taken
  BY <1>1, TakeFacts
<1>3. PICK m : m = IF acc.left < b.orders[id].remaining_qty THEN acc.left
                   ELSE b.orders[id].remaining_qty
  OBVIOUS
<1>4. /\ Take(b, p, acc, id) = [left |-> acc.left - m, cost |-> acc.cost + m * p, filled |-> acc.filled + m]
      /\ Take(c, p, now, id) = [left |-> now.left - m, cost |-> now.cost + m * p, filled |-> now.filled + m]
  BY <1>3 DEF Take, Ahead
<1>5. /\ acc.left \in Nat /\ acc.cost \in Nat /\ acc.filled \in Nat
      /\ now.left \in Nat /\ now.cost \in Nat /\ now.filled \in Nat
  BY <1>1 DEF Taken
<1>6. PICK x : x = m * p
  OBVIOUS
<1>7. m \in Nat /\ x \in Nat
  BY <1>3, <1>5, <1>6
<1>8. /\ acc.cost + x = (now.cost + x) + k /\ acc.filled + m = (now.filled + m) + n
      /\ acc.left - m = now.left - m
  BY <1>5, <1>7 DEF Ahead
<1> QED BY <1>2, <1>4, <1>6, <1>8 DEF Ahead

\* From the one after e on, the orders of r are those of q, d places further.
SameMakers(b, c, q, r, d, e) ==
  /\ Len(q) = Len(r) + d
  /\ \A i \in (e + 1)..Len(r) :
       q[i + d] = r[i] /\ c.orders[r[i]].remaining_qty = b.orders[r[i]].remaining_qty

\* Two walks over the same makers keep the distance they have before them.
LEMMA WalkAhead ==
  ASSUME NEW b, NEW c, NEW p \in Nat, NEW q, NEW r, Countable(b, q), Countable(c, r),
         NEW x, NEW y, NEW w, NEW v, LevelWalk(w, b, p, q, x), LevelWalk(v, c, p, r, y),
         NEW n \in Nat, NEW k \in Nat, NEW d \in Nat, NEW e \in 0..Len(r),
         Ahead(w[e + d], v[e], n, k), SameMakers(b, c, q, r, d, e)
  PROVE  Ahead(w[Len(q)], v[Len(r)], n, k)
<1> DEFINE B == {i \in e..Len(r) : ~Ahead(w[i + d], v[i], n, k)}
<1>1. Len(r) \in Nat /\ Len(q) \in Nat /\ e \in Nat /\ e <= Len(r) /\ Len(q) = Len(r) + d
  BY DEF Countable, SameMakers
<1>2. ASSUME B # {} PROVE FALSE
  <2>1. B \in SUBSET Nat
    BY <1>1
  <2>2. PICK m \in B : \A i \in B : m <= i
    BY <1>2, <2>1, SetHasMin
  <2>3. m # e
    BY <2>2
  <2>4. /\ m \in (e + 1)..Len(r) /\ m \in 1..Len(r) /\ m - 1 \in e..Len(r) /\ ~(m <= m - 1)
        /\ m + d \in 1..Len(q) /\ (m + d) - 1 = (m - 1) + d
    BY <1>1, <2>2, <2>3
  <2>5. Ahead(w[(m - 1) + d], v[m - 1], n, k)
    BY <2>2, <2>4
  <2>6. PICK acc, now : acc = w[(m - 1) + d] /\ now = v[m - 1]
    OBVIOUS
  <2>7. PICK id : id = r[m]
    OBVIOUS
  <2>8. w[m + d] = Take(b, p, acc, id) /\ v[m] = Take(c, p, now, id)
    <3>1. w[m + d] = Take(b, p, w[(m + d) - 1], q[m + d]) /\ v[m] = Take(c, p, v[m - 1], r[m])
      BY <2>4 DEF LevelWalk
    <3>2. q[m + d] = r[m]
      BY <2>4 DEF SameMakers
    <3> QED BY <2>4, <2>6, <2>7, <3>1, <3>2
  <2>9. c.orders[id].remaining_qty = b.orders[id].remaining_qty /\ b.orders[id].remaining_qty \in Nat
    <3>1. c.orders[r[m]].remaining_qty = b.orders[r[m]].remaining_qty /\ q[m + d] = r[m]
      BY <2>4 DEF SameMakers
    <3> QED BY <2>4, <2>7, <3>1 DEF Countable
  <2>10. Ahead(Take(b, p, acc, id), Take(c, p, now, id), n, k)
    BY <2>5, <2>6, <2>9, TakeAhead
  <2> QED BY <2>2, <2>8, <2>10
<1>3. B = {}
  BY <1>2
<1>4. Len(r) \in e..Len(r)
  BY <1>1
<1>5. Ahead(w[Len(r) + d], v[Len(r)], n, k)
  BY <1>3, <1>4
<1> QED BY <1>1, <1>5

\* The level x of side s is the same in b and c.
SameLevel(b, c, s, x) ==
  /\ x \in DOMAIN b.levels[s] /\ x \in DOMAIN c.levels[s] /\ c.levels[s][x] = b.levels[s][x]
  /\ \A i \in 1..Len(b.levels[s][x]) :
       c.orders[b.levels[s][x][i]].remaining_qty = b.orders[b.levels[s][x][i]].remaining_qty

LEMMA LevelAhead ==
  ASSUME NEW b, NEW c, NEW s, Walkable(b, s), Walkable(c, s), NEW x, SameLevel(b, c, s, x),
         NEW n \in Nat, NEW k \in Nat, NEW acc, NEW now, Ahead(acc, now, n, k)
  PROVE  Ahead(TakeLevel(b, s, x, acc), TakeLevel(c, s, x, now), n, k)
<1>1. PICK q : q = b.levels[s][x]
  OBVIOUS
<1>2. x \in Nat /\ Countable(b, q) /\ Countable(c, q)
  BY <1>1 DEF Walkable, SameLevel
<1>3. acc \in Taken /\ now \in Taken
  BY DEF Ahead
<1>4. PICK w : LevelWalk(w, b, x, q, acc) /\ TakeLevel(b, s, x, acc) = w[Len(q)]
  BY <1>1, <1>2, <1>3, TakeLevelWalks
<1>5. PICK v : LevelWalk(v, c, x, q, now) /\ TakeLevel(c, s, x, now) = v[Len(q)]
  <2>1. q = c.levels[s][x]
    BY <1>1 DEF SameLevel
  <2> QED BY <1>2, <1>3, <2>1, TakeLevelWalks
<1>6. PICK d \in Nat : d = 0
  OBVIOUS
<1>7. Len(q) \in Nat /\ d \in 0..Len(q)
  BY <1>2, <1>6 DEF Countable
<1>8. Ahead(w[d + d], v[d], n, k)
  BY <1>4, <1>5, <1>6 DEF LevelWalk
<1>9. SameMakers(b, c, q, q, d, d)
  <2>1. \A i \in (d + 1)..Len(q) : i + d = i /\ i \in 1..Len(q)
    BY <1>6, <1>7
  <2>2. Len(q) = Len(q) + d
    BY <1>6, <1>7
  <2> QED BY <1>1, <2>1, <2>2 DEF SameLevel, SameMakers
<1>10. Ahead(w[Len(q)], v[Len(q)], n, k)
  BY <1>2, <1>4, <1>5, <1>7, <1>8, <1>9, WalkAhead
<1> QED BY <1>4, <1>5, <1>10

\* A walk begins with all that is wanted.
Wanted(qty) == [left |-> qty, cost |-> 0, filled |-> 0]

LEMMA WantedType == \A qty \in Nat : Wanted(qty) \in Taken
BY DEF Wanted, Taken

\* The front of the queue gives what a fill takes of it.
LEMMA FirstTaken ==
  ASSUME NEW b, NEW p \in Nat, NEW q, Countable(b, q), q # <<>>, NEW rem \in Nat, NEW w,
         LevelWalk(w, b, p, q, Wanted(rem)), NEW have, have = b.orders[q[1]].remaining_qty,
         NEW n, n = IF rem < have THEN rem ELSE have
  PROVE  /\ n \in Nat /\ n * p \in Nat /\ rem - n \in Nat /\ 1 \in 1..Len(q)
         /\ Ahead(w[1], Wanted(rem - n), n, n * p)
<1>1. q \in Seq(Nat) /\ Len(q) \in Nat
  BY DEF Countable
<1>2. 1 \in 1..Len(q) /\ 1 - 1 = 0
  BY <1>1
<1>3. have \in Nat
  BY <1>2 DEF Countable
<1>4. n \in Nat /\ rem - n \in Nat
  BY <1>3
<1>5. PICK k : k = n * p
  OBVIOUS
<1>6. k \in Nat
  BY <1>4, <1>5
<1>7. w[1] = Take(b, p, Wanted(rem), q[1])
  BY <1>2 DEF LevelWalk
<1>8. Wanted(rem).left = rem /\ Wanted(rem).cost = 0 /\ Wanted(rem).filled = 0
  BY DEF Wanted
<1>9. w[1] = [left |-> rem - n, cost |-> 0 + n * p, filled |-> 0 + n]
  BY <1>7, <1>8 DEF Take
<1>10. w[1] = [left |-> rem - n, cost |-> k, filled |-> n]
  BY <1>4, <1>5, <1>6, <1>9
<1>11. Ahead(w[1], Wanted(rem - n), n, k)
  <2>1. w[1] \in Taken /\ Wanted(rem - n) \in Taken
    BY <1>4, <1>6, <1>10 DEF Wanted, Taken
  <2>2. w[1].left = Wanted(rem - n).left /\ w[1].cost = Wanted(rem - n).cost + k
        /\ w[1].filled = Wanted(rem - n).filled + n
    BY <1>4, <1>6, <1>10 DEF Wanted
  <2> QED BY <2>1, <2>2 DEF Ahead
<1> QED BY <1>2, <1>4, <1>5, <1>6, <1>11

\* When nothing is wanted any more nothing is taken.
LEMMA NothingTaken ==
  ASSUME NEW b, NEW p \in Nat, NEW id, b.orders[id].remaining_qty \in Nat
  PROVE  Take(b, p, Wanted(0), id) = Wanted(0)
<1>1. Wanted(0).left = 0 /\ Wanted(0).cost = 0 /\ Wanted(0).filled = 0
  BY DEF Wanted
<1>2. PICK n : n = IF Wanted(0).left < b.orders[id].remaining_qty THEN Wanted(0).left
                   ELSE b.orders[id].remaining_qty
  OBVIOUS
<1>3. n = 0 /\ n * p = 0
  BY <1>1, <1>2
<1>4. Take(b, p, Wanted(0), id) =
        [left |-> Wanted(0).left - n, cost |-> Wanted(0).cost + n * p, filled |-> Wanted(0).filled + n]
  BY <1>2 DEF Take
<1> QED BY <1>1, <1>3, <1>4 DEF Wanted

\* The level p when its front gave way, was the last, or stayed with less.
FrontGone(b, c, s, p) ==
  /\ Len(b.levels[s][p]) > 1 /\ p \in DOMAIN c.levels[s]
  /\ c.levels[s][p] = Tail(b.levels[s][p])
  /\ \A i \in 2..Len(b.levels[s][p]) :
       c.orders[b.levels[s][p][i]].remaining_qty = b.orders[b.levels[s][p][i]].remaining_qty

LevelGone(b, c, s, p) == Len(b.levels[s][p]) = 1 /\ p \notin DOMAIN c.levels[s]

FrontLess(b, c, s, p) ==
  /\ p \in DOMAIN c.levels[s] /\ c.levels[s][p] = b.levels[s][p]
  /\ \A i \in 2..Len(b.levels[s][p]) :
       c.orders[b.levels[s][p][i]].remaining_qty = b.orders[b.levels[s][p][i]].remaining_qty

\* What is taken up to the end of the level p.
UpTo(b, s, p, taken) ==
  IF p \in DOMAIN b.levels[s] THEN TakeLevel(b, s, p, taken) ELSE taken

LEMMA LevelWalked ==
  ASSUME NEW b, NEW s, Walkable(b, s), NEW p \in DOMAIN b.levels[s], NEW q, q = b.levels[s][p],
         NEW taken \in Taken
  PROVE  /\ p \in Nat /\ Countable(b, q) /\ q \in Seq(Nat) /\ Len(q) \in Nat
         /\ \E w : LevelWalk(w, b, p, q, taken) /\ TakeLevel(b, s, p, taken) = w[Len(q)]
<1>1. p \in Nat /\ Countable(b, q)
  BY DEF Walkable
<1>2. q \in Seq(Nat) /\ Len(q) \in Nat
  BY <1>1 DEF Countable
<1>3. \E w : LevelWalk(w, b, p, q, taken) /\ TakeLevel(b, s, p, taken) = w[Len(q)]
  BY <1>1, TakeLevelWalks
<1> QED BY <1>1, <1>2, <1>3

\* A taker that wants rem has taken n of the front of the level.
FrontServed(b, c, s, p, rem, n) ==
  LET have == b.orders[b.levels[s][p][1]].remaining_qty
  IN  /\ n = IF rem < have THEN rem ELSE have
      /\ \/ FrontGone(b, c, s, p) \/ LevelGone(b, c, s, p)
         \/ FrontLess(b, c, s, p) /\ n = rem

LEMMA FrontAhead ==
  ASSUME NEW b, NEW c, NEW s, Walkable(b, s), Walkable(c, s), NEW p \in DOMAIN b.levels[s],
         b.levels[s][p] # <<>>, NEW rem \in Nat, NEW n, FrontServed(b, c, s, p, rem, n)
  PROVE  /\ n \in Nat /\ n * p \in Nat /\ rem - n \in Nat
         /\ Ahead(TakeLevel(b, s, p, Wanted(rem)), UpTo(c, s, p, Wanted(rem - n)), n, n * p)
<1>0. PICK have : /\ have = b.orders[b.levels[s][p][1]].remaining_qty
                  /\ n = IF rem < have THEN rem ELSE have
  BY DEF FrontServed
<1>1. PICK q : q = b.levels[s][p]
  OBVIOUS
<1>2. p \in Nat /\ Countable(b, q) /\ q # <<>> /\ q \in Seq(Nat) /\ Len(q) \in Nat
  <2>1. p \in Nat /\ Countable(b, q)
    BY <1>1 DEF Walkable
  <2>2. q \in Seq(Nat) /\ Len(q) \in Nat
    BY <2>1 DEF Countable
  <2> QED BY <1>1, <2>1, <2>2
<1>3. PICK all \in Taken : all = Wanted(rem)
  BY WantedType
<1>4. PICK w : LevelWalk(w, b, p, q, Wanted(rem)) /\ TakeLevel(b, s, p, Wanted(rem)) = w[Len(q)]
  <2>1. \E w : LevelWalk(w, b, p, q, all) /\ TakeLevel(b, s, p, all) = w[Len(q)]
    BY <1>1, LevelWalked
  <2> QED BY <1>3, <2>1
<1>5. /\ n \in Nat /\ n * p \in Nat /\ rem - n \in Nat /\ 1 \in 1..Len(q)
      /\ Ahead(w[1], Wanted(rem - n), n, n * p)
  BY <1>0, <1>1, <1>2, <1>4, FirstTaken
<1>6. PICK k \in Nat : k = n * p
  BY <1>5
<1>7. PICK some \in Taken : some = Wanted(rem - n)
  BY <1>5, WantedType
<1>8. CASE LevelGone(b, c, s, p)
  <2>1. Len(q) = 1 /\ UpTo(c, s, p, Wanted(rem - n)) = Wanted(rem - n)
    BY <1>1, <1>8 DEF LevelGone, UpTo
  <2> QED BY <1>4, <1>5, <2>1
<1>9. CASE FrontGone(b, c, s, p)
  <2>1. PICK r : r = Tail(q)
    OBVIOUS
  <2>2. r = c.levels[s][p] /\ UpTo(c, s, p, Wanted(rem - n)) = TakeLevel(c, s, p, Wanted(rem - n))
    BY <1>1, <1>9, <2>1 DEF FrontGone, UpTo
  <2>3. Countable(c, r)
    BY <1>9, <2>2 DEF FrontGone, Walkable
  <2>4. PICK v : LevelWalk(v, c, p, r, Wanted(rem - n)) /\ TakeLevel(c, s, p, Wanted(rem - n)) = v[Len(r)]
    <3>1. r = c.levels[s][p] /\ p \in DOMAIN c.levels[s]
      BY <1>9, <2>2 DEF FrontGone
    <3>2. \E v : LevelWalk(v, c, p, r, some) /\ TakeLevel(c, s, p, some) = v[Len(r)]
      BY <3>1, LevelWalked
    <3> QED BY <1>7, <3>2
  <2>5. Len(r) \in Nat /\ Len(q) = Len(r) + 1 /\ \A i \in 1..Len(r) : r[i] = q[i + 1]
    BY <1>2, <2>1
  <2>6. PICK d \in Nat, e \in 0..Len(r) : d = 1 /\ e = 0
    BY <2>5
  <2>7. Ahead(w[e + d], v[e], n, k)
    <3>1. e + d = 1 /\ e = 0
      BY <2>6
    <3>2. v[0] = Wanted(rem - n)
      BY <2>4 DEF LevelWalk
    <3> QED BY <1>5, <1>6, <3>1, <3>2
  <2>8. SameMakers(b, c, q, r, d, e)
    <3>1. ASSUME NEW i \in (e + 1)..Len(r)
          PROVE  q[i + d] = r[i] /\ c.orders[r[i]].remaining_qty = b.orders[r[i]].remaining_qty
      <4>1. i \in 1..Len(r) /\ i + 1 \in 2..Len(q) /\ i + d = i + 1
        BY <2>5, <2>6
      <4>2. r[i] = q[i + 1]
        BY <2>5, <4>1
      <4> QED BY <1>1, <1>9, <4>1, <4>2 DEF FrontGone
    <3> QED BY <2>5, <2>6, <3>1 DEF SameMakers
  <2>9. Ahead(w[Len(q)], v[Len(r)], n, k)
    BY <1>2, <1>4, <1>5, <2>3, <2>4, <2>7, <2>8, WalkAhead
  <2> QED BY <1>4, <1>5, <1>6, <2>2, <2>4, <2>9
<1>10. CASE FrontLess(b, c, s, p) /\ n = rem
  <2>1. q = c.levels[s][p] /\ p \in DOMAIN c.levels[s]
    BY <1>1, <1>10 DEF FrontLess
  <2>2. Countable(c, q)
    BY <2>1 DEF Walkable
  <2>3. PICK v : LevelWalk(v, c, p, q, Wanted(rem - n)) /\ TakeLevel(c, s, p, Wanted(rem - n)) = v[Len(q)]
    <3>1. \E v : LevelWalk(v, c, p, q, some) /\ TakeLevel(c, s, p, some) = v[Len(q)]
      BY <2>1, LevelWalked
    <3> QED BY <1>7, <3>1
  <2>4. PICK d \in Nat, e \in 0..Len(q) : d = 0 /\ e = 1
    <3>1. Len(q) \in Nat /\ 1 \in 1..Len(q)
      BY <1>2, <1>5, Zenon
    <3>2. 1 \in 0..Len(q)
      BY <3>1
    <3> QED BY <3>2
  <2>5. rem - n = 0 /\ 1 - 1 = 0
    BY <1>10
  <2>6. v[1] = Wanted(0)
    <3>1. v[1] = Take(c, p, v[0], q[1]) /\ v[0] = Wanted(0)
      BY <1>5, <2>3, <2>5 DEF LevelWalk
    <3>2. c.orders[q[1]].remaining_qty \in Nat
      BY <1>5, <2>2 DEF Countable
    <3>3. PICK id : id = q[1]
      OBVIOUS
    <3>4. c.orders[id].remaining_qty \in Nat /\ p \in Nat
      BY <1>2, <3>2, <3>3
    <3>5. Take(c, p, Wanted(0), id) = Wanted(0)
      BY <3>4, NothingTaken
    <3> QED BY <3>1, <3>3, <3>5, Zenon
  <2>7. Ahead(w[e + d], v[e], n, k)
    <3>1. e + d = 1 /\ e = 1
      BY <2>4
    <3> QED BY <1>5, <1>6, <2>5, <2>6, <3>1
  <2>8. SameMakers(b, c, q, q, d, e)
    <3>1. ASSUME NEW i \in (e + 1)..Len(q)
          PROVE  q[i + d] = q[i] /\ c.orders[q[i]].remaining_qty = b.orders[q[i]].remaining_qty
      <4>1. i \in 2..Len(q) /\ i + d = i
        BY <1>2, <2>4
      <4> QED BY <1>1, <1>10, <4>1 DEF FrontLess
    <3> QED BY <1>2, <2>4, <3>1 DEF SameMakers
  <2>9. Ahead(w[Len(q)], v[Len(q)], n, k)
    BY <1>2, <1>4, <1>5, <2>2, <2>3, <2>7, <2>8, WalkAhead
  <2> QED BY <1>4, <1>5, <1>6, <2>1, <2>3, <2>9 DEF UpTo
<1> QED BY <1>5, <1>8, <1>9, <1>10 DEF FrontServed

\* Of two prices that are both served last, one is the other.
LEMMA LastServedUnique ==
  ASSUME NEW S \in SUBSET Nat, IsFiniteSet(S), NEW side \in Sides, NEW p \in S,
         \A q \in S : ~Better(side, p, q)
  PROVE  LastServed(side, S) = p
<1>1. PICK y : y = LastServed(side, S)
  OBVIOUS
<1>2. y \in S /\ \A q \in S : ~Better(side, y, q)
  BY <1>1, LastServedIsLast
<1>3. y \in Nat /\ p \in Nat /\ ~Better(side, y, p) /\ ~Better(side, p, y)
  BY <1>2
<1>4. y = p
  BY <1>3 DEF Better
<1> QED BY <1>1, <1>4

\* Past the best level, which keeps its distance, all levels are the same.
LEMMA LevelsAhead ==
  ASSUME NEW b, NEW c, NEW s, Walkable(b, s), Walkable(c, s),
         NEW L \in SUBSET DOMAIN b.levels[s], NEW M \in SUBSET DOMAIN c.levels[s],
         NEW p \in L, M = L \/ M = L \ {p}, p \in M <=> p \in DOMAIN c.levels[s],
         \A x \in L : ~Better(s, x, p),
         \A x \in L \ {p} : SameLevel(b, c, s, x),
         NEW n \in Nat, NEW k \in Nat, NEW x0 \in Taken, NEW y0 \in Taken,
         Ahead(TakeLevel(b, s, p, x0), UpTo(c, s, p, y0), n, k)
  PROVE  Ahead(TakeLevels(b, s, L, x0), TakeLevels(c, s, M, y0), n, k)
<1>1. PICK g : LevelsWalk(g, b, s, L, x0) /\ TakeLevels(b, s, L, x0) = g[L]
  BY TakeLevelsWalks
<1>2. PICK h : LevelsWalk(h, c, s, M, y0) /\ TakeLevels(c, s, M, y0) = h[M]
  BY TakeLevelsWalks
<1>3. IsFiniteSet(L) /\ L \in SUBSET Nat /\ s \in Sides
  BY FS_Subset DEF Walkable
<1> DEFINE P == {v \in SUBSET L : p \in v => Ahead(g[v], h[v \cap M], n, k)}
<1>4. ASSUME NEW v \in SUBSET L, \A x \in v : v \ {x} \in P, p \in v
      PROVE  Ahead(g[v], h[v \cap M], n, k)
  <2>1. PICK y : y = LastServed(s, v)
    OBVIOUS
  <2>2. IsFiniteSet(v) /\ v \in SUBSET Nat /\ v # {}
    BY <1>3, <1>4, FS_Subset
  <2>3. y \in v /\ \A x \in v : ~Better(s, y, x)
    BY <1>3, <2>1, <2>2, LastServedIsLast
  <2>4. g[v] = TakeLevel(b, s, y, g[v \ {y}])
    BY <1>1, <2>1, <2>2 DEF LevelsWalk
  <2>5. CASE y = p
    <3>1. v = {p}
      <4>1. ASSUME NEW x \in v PROVE x = p
        <5>1. x \in Nat /\ p \in Nat /\ ~Better(s, x, p) /\ ~Better(s, p, x)
          BY <1>3, <2>2, <2>3, <2>5
        <5> QED BY <5>1 DEF Better
      <4> QED BY <1>4, <4>1
    <3>2. v \ {y} = {} /\ g[{}] = x0 /\ h[{}] = y0
      BY <1>1, <1>2, <2>5, <3>1 DEF LevelsWalk
    <3>3. g[v] = TakeLevel(b, s, p, x0)
      BY <2>4, <2>5, <3>2
    <3>4. h[v \cap M] = UpTo(c, s, p, y0)
      <4>1. CASE p \notin M
        BY <3>1, <3>2, <4>1 DEF UpTo
      <4>2. CASE p \in M
        <5>1. v \cap M = v /\ v \in SUBSET M
          BY <3>1, <4>2
        <5>2. h[v] = TakeLevel(c, s, y, h[v \ {y}])
          BY <1>2, <2>1, <2>2, <5>1 DEF LevelsWalk
        <5> QED BY <2>5, <3>2, <4>2, <5>1, <5>2 DEF UpTo
      <4> QED BY <4>1, <4>2
    <3> QED BY <3>3, <3>4
  <2>6. CASE y # p
    <3>1. v \ {y} \in P /\ p \in v \ {y}
      BY <1>4, <2>3, <2>6
    <3>2. Ahead(g[v \ {y}], h[(v \ {y}) \cap M], n, k)
      BY <3>1
    <3>3. PICK u : u = v \cap M
      OBVIOUS
    <3>4. y \in L /\ y \in M /\ y \in u /\ u \in SUBSET M /\ u \in SUBSET v
      BY <2>3, <2>6, <3>3
    <3>5. LastServed(s, u) = y
      <4>1. IsFiniteSet(u) /\ u \in SUBSET Nat
        BY <2>2, <3>4, FS_Subset
      <4> QED BY <1>3, <2>3, <3>4, <4>1, LastServedUnique
    <3>6. h[u] = TakeLevel(c, s, y, h[u \ {y}])
      BY <1>2, <3>4, <3>5 DEF LevelsWalk
    <3>7. u \ {y} = (v \ {y}) \cap M
      BY <3>3
    <3>8. PICK acc, now : acc = g[v \ {y}] /\ now = h[u \ {y}]
      OBVIOUS
    <3>9. Ahead(acc, now, n, k)
      BY <3>2, <3>7, <3>8
    <3>10. SameLevel(b, c, s, y)
      BY <2>6, <3>4
    <3>11. Ahead(TakeLevel(b, s, y, acc), TakeLevel(c, s, y, now), n, k)
      BY <3>9, <3>10, LevelAhead
    <3> QED BY <2>4, <3>3, <3>6, <3>8, <3>11
  <2> QED BY <2>5, <2>6
<1>5. \A v \in SUBSET L : (\A x \in v : v \ {x} \in P) => v \in P
  BY <1>4
<1>6. L \in P
  <2>1. \A v \in SUBSET L : v \in P
    <3> HIDE DEF P
    <3> QED BY <1>3, <1>5, SubsetInduction
  <2>2. L \in SUBSET L
    OBVIOUS
  <2> QED BY <2>1, <2>2
<1>7. L \cap M = M
  OBVIOUS
<1>8. Ahead(g[L], h[M], n, k)
  BY <1>6, <1>7
<1> QED BY <1>1, <1>2, <1>8

\* The levels after a fill: the front of the best one gave way or is smaller,
\* and the others are the same.
LEMMA AfterFillLevels ==
  ASSUME NEW b, NEW U, WellFormed(b, U), NEW t, t.side \in Sides,
         t.remaining_qty \in Nat, Matches(b, t),
         NEW s, s = Opposite(t.side), NEW p, p = BestPrice(b, s), NEW c, c = AfterFill(b, t)
  PROVE  /\ \/ FrontGone(b, c, s, p) \/ LevelGone(b, c, s, p)
            \/ FrontLess(b, c, s, p) /\ FillQty(b, t) = t.remaining_qty
         /\ \A x \in DOMAIN b.levels[s] \ {p} : SameLevel(b, c, s, x)
         /\ DOMAIN c.levels[s] = DOMAIN b.levels[s] \/ DOMAIN c.levels[s] = DOMAIN b.levels[s] \ {p}
<1>1. PICK m : m = Maker(b, t.side)
  OBVIOUS
<1>2. PICK fill : fill = FillQty(b, t)
  OBVIOUS
<1>3. PICK q : q = b.levels[s][p]
  OBVIOUS
<1>4. /\ s \in Sides /\ p \in DOMAIN b.levels[s] /\ q \in Seq(Nat) /\ q # <<>>
      /\ m = q[1] /\ m \in DOMAIN b.orders /\ b.orders[m].price = p
  BY <1>1, <1>3, MakerFacts DEF Matches
<1>5. DOMAIN b = {"levels", "orders", "next_order_id"} /\ DOMAIN b.levels = Sides
  BY DEF WellFormed, BookType
<1>6. Len(q) \in Nat /\ Len(q) > 0 /\ \A i \in 2..Len(q) : i \in 1..Len(q) /\ 1 < i /\ 1 \in 1..Len(q)
  BY <1>4
<1>7. \A i \in 2..Len(q) : q[i] # m /\ q[i] \in DOMAIN b.orders
  <2> TAKE i \in 2..Len(q)
  <2>1. q[1] < q[i] /\ q[1] \in Nat /\ q[i] \in Nat
    <3>1. i \in 1..Len(q) /\ 1 < i /\ 1 \in 1..Len(q)
      BY <1>6
    <3>2. q[1] < q[i]
      BY <1>3, <1>4, <3>1 DEF WellFormed, QueuesInIdOrder
    <3> QED BY <1>4, <3>1, <3>2
  <2>2. q[i] \in DOMAIN b.orders
    BY <1>3, <1>4, <1>6 DEF WellFormed, LevelsHoldOrders
  <2> QED BY <1>4, <2>1, <2>2
<1>8. \A x \in DOMAIN b.levels[s] \ {p} : \A i \in 1..Len(b.levels[s][x]) :
        b.levels[s][x][i] # m /\ b.levels[s][x][i] \in DOMAIN b.orders
  <2> TAKE x \in DOMAIN b.levels[s] \ {p}
  <2> TAKE i \in 1..Len(b.levels[s][x])
  <2>1. b.levels[s][x][i] \in DOMAIN b.orders /\ b.orders[b.levels[s][x][i]].price = x
    BY <1>4 DEF WellFormed, LevelsHoldOrders
  <2> QED BY <1>4, <2>1
<1>9. CASE b.orders[m].remaining_qty = fill
  <2>1. PICK r : r = Tail(q)
    OBVIOUS
  <2>2. /\ c.orders = Without(b.orders, m)
        /\ c.levels[s] = SetQueue(b.levels[s], p, r)
    BY <1>1, <1>2, <1>3, <1>4, <1>5, <1>9, <2>1 DEF AfterFill
  <2>3. \A id \in DOMAIN b.orders : id # m => c.orders[id] = b.orders[id]
    BY <2>2 DEF Without
  <2>4. /\ \A x \in DOMAIN b.levels[s] \ {p} :
             x \in DOMAIN c.levels[s] /\ c.levels[s][x] = b.levels[s][x]
        /\ DOMAIN c.levels[s] = DOMAIN b.levels[s] \/ DOMAIN c.levels[s] = DOMAIN b.levels[s] \ {p}
        /\ r = <<>> => p \notin DOMAIN c.levels[s]
        /\ r # <<>> => p \in DOMAIN c.levels[s] /\ c.levels[s][p] = r
    BY <1>4, <2>2 DEF SetQueue, With, Without
  <2>5. \A x \in DOMAIN b.levels[s] \ {p} : SameLevel(b, c, s, x)
    BY <1>8, <2>3, <2>4 DEF SameLevel
  <2>6. r = <<>> => LevelGone(b, c, s, p)
    <3>1. Len(r) = Len(q) - 1
      BY <1>4, <2>1
    <3>2. r = <<>> => Len(r) = 0
      OBVIOUS
    <3>3. r = <<>> => Len(q) = 1
      BY <1>6, <3>1, <3>2
    <3> QED BY <1>3, <2>4, <3>3 DEF LevelGone
  <2>7. r # <<>> => FrontGone(b, c, s, p)
    <3>1. r # <<>> => Len(q) > 1
      BY <1>4, <1>6, <2>1
    <3>2. \A i \in 2..Len(q) : c.orders[q[i]].remaining_qty = b.orders[q[i]].remaining_qty
      BY <1>7, <2>3
    <3> QED BY <1>3, <2>1, <2>4, <3>1, <3>2 DEF FrontGone
  <2> QED BY <2>4, <2>5, <2>6, <2>7
<1>10. CASE b.orders[m].remaining_qty # fill
  <2>1. c = [b EXCEPT !.orders[m].remaining_qty = @ - fill]
    BY <1>1, <1>2, <1>10 DEF AfterFill
  <2>2. c.levels = b.levels /\ \A id \in DOMAIN b.orders : id # m => c.orders[id] = b.orders[id]
    BY <1>4, <1>5, <2>1
  <2>3. fill = t.remaining_qty
    BY <1>1, <1>2, <1>10 DEF FillQty
  <2>4. \A x \in DOMAIN b.levels[s] \ {p} : SameLevel(b, c, s, x)
    BY <1>8, <2>2 DEF SameLevel
  <2>5. FrontLess(b, c, s, p)
    BY <1>3, <1>4, <1>7, <2>2 DEF FrontLess
  <2> QED BY <1>2, <2>2, <2>3, <2>4, <2>5
<1> QED BY <1>9, <1>10

\* The quote is exact: what a walk for the taker finds before a fill is what it
\* finds after it, and the fill.
LEMMA SweepAfterFill ==
  ASSUME NEW b, NEW U, WellFormed(b, U), NEW t, t.side \in Sides,
         t.remaining_qty \in Nat, Matches(b, t),
         NEW s, s = Opposite(t.side), NEW p, p = BestPrice(b, s), NEW n, n = FillQty(b, t),
         NEW c, c = AfterFill(b, t)
  PROVE  /\ n \in Nat /\ n * p \in Nat /\ t.remaining_qty - n \in Nat
         /\ Ahead(Sweep(b, s, t.limit, t.remaining_qty), Sweep(c, s, t.limit, t.remaining_qty - n),
                  n, n * p)
<1>1. PICK side \in Sides : side = t.side
  OBVIOUS
<1>2. PICK rem \in Nat : rem = t.remaining_qty
  OBVIOUS
<1>3. PICK limit : limit = t.limit
  OBVIOUS
<1>4. /\ s \in Sides /\ p \in DOMAIN b.levels[s] /\ p \in Nat /\ b.levels[s][p] # <<>>
      /\ Maker(b, side) = b.levels[s][p][1]
      /\ \A x \in DOMAIN b.levels[s] : ~Better(s, x, p)
  BY <1>1, MakerFacts DEF Matches
<1>5. WellFormed(c, U)
  BY AfterFillWellFormed
<1>6. Walkable(b, s) /\ Walkable(c, s)
  BY <1>4, <1>5, WellFormedWalkable
<1>7. /\ \/ FrontGone(b, c, s, p) \/ LevelGone(b, c, s, p)
         \/ FrontLess(b, c, s, p) /\ FillQty(b, t) = t.remaining_qty
      /\ \A x \in DOMAIN b.levels[s] \ {p} : SameLevel(b, c, s, x)
      /\ DOMAIN c.levels[s] = DOMAIN b.levels[s] \/ DOMAIN c.levels[s] = DOMAIN b.levels[s] \ {p}
  BY AfterFillLevels
<1>8. n = LET have == b.orders[b.levels[s][p][1]].remaining_qty
          IN  IF rem < have THEN rem ELSE have
  BY <1>1, <1>2, <1>4 DEF FillQty
<1>9. FrontGone(b, c, s, p) \/ LevelGone(b, c, s, p) \/ (FrontLess(b, c, s, p) /\ n = rem)
  BY <1>2, <1>7
<1>10. FrontServed(b, c, s, p, rem, n)
  BY <1>8, <1>9 DEF FrontServed
<1>11. /\ n \in Nat /\ n * p \in Nat /\ rem - n \in Nat
       /\ Ahead(TakeLevel(b, s, p, Wanted(rem)), UpTo(c, s, p, Wanted(rem - n)), n, n * p)
  <2>1. p \in DOMAIN b.levels[s] /\ b.levels[s][p] # <<>>
    BY <1>4
  <2> QED BY <1>6, <1>10, <2>1, FrontAhead
<1>12. PICK k \in Nat : k = n * p
  BY <1>11
<1>13. PICK all \in Taken : all = Wanted(rem)
  BY WantedType
<1>14. PICK some \in Taken : some = Wanted(rem - n)
  BY <1>11, WantedType
<1>15. PICK L : L = {x \in DOMAIN b.levels[s] : Crosses(Opposite(s), limit, x)}
  OBVIOUS
<1>16. PICK M : M = {x \in DOMAIN c.levels[s] : Crosses(Opposite(s), limit, x)}
  OBVIOUS
<1>17. Sweep(b, s, limit, rem) = TakeLevels(b, s, L, all)
  BY <1>13, <1>15 DEF Sweep, Wanted
<1>18. Sweep(c, s, limit, rem - n) = TakeLevels(c, s, M, some)
  BY <1>14, <1>16 DEF Sweep, Wanted
<1>19. p \in L
  <2>1. Opposite(s) = side /\ Crosses(side, limit, p)
    BY <1>1, <1>3 DEF Matches, Opposite, Sides
  <2> QED BY <1>4, <1>15, <2>1
<1>20. /\ L \in SUBSET DOMAIN b.levels[s] /\ M \in SUBSET DOMAIN c.levels[s]
       /\ M = L \/ M = L \ {p}
       /\ p \in M <=> p \in DOMAIN c.levels[s]
  BY <1>7, <1>15, <1>16, <1>19
<1>21. /\ \A x \in L : ~Better(s, x, p)
       /\ \A x \in L \ {p} : SameLevel(b, c, s, x)
  BY <1>4, <1>7, <1>20
<1>22. Ahead(TakeLevel(b, s, p, all), UpTo(c, s, p, some), n, k)
  BY <1>11, <1>12, <1>13, <1>14
<1>23. Ahead(TakeLevels(b, s, L, all), TakeLevels(c, s, M, some), n, k)
  BY <1>6, <1>11, <1>19, <1>20, <1>21, <1>22, LevelsAhead
<1> QED BY <1>2, <1>3, <1>11, <1>12, <1>17, <1>18, <1>23

\* What is left and what was filled by a level add up to what was wanted of it.
LEMMA LevelConserves ==
  ASSUME NEW b, NEW s, Walkable(b, s), NEW p \in DOMAIN b.levels[s], NEW taken \in Taken
  PROVE  TakeLevel(b, s, p, taken).left + TakeLevel(b, s, p, taken).filled
           = taken.left + taken.filled
<1>1. PICK q : q = b.levels[s][p]
  OBVIOUS
<1>2. p \in Nat /\ Countable(b, q) /\ Len(q) \in Nat
  BY <1>1, LevelWalked
<1>3. PICK w : LevelWalk(w, b, p, q, taken) /\ TakeLevel(b, s, p, taken) = w[Len(q)]
  BY <1>1, LevelWalked
<1>4. PICK sum : sum = taken.left + taken.filled
  OBVIOUS
<1> DEFINE B == {i \in 0..Len(q) : w[i].left + w[i].filled # sum}
<1>5. ASSUME B # {} PROVE FALSE
  <2>1. B \in SUBSET Nat
    BY <1>2
  <2>2. PICK m \in B : \A i \in B : m <= i
    BY <1>5, <2>1, SetHasMin
  <2>3. m # 0
    BY <1>3, <1>4, <2>2 DEF LevelWalk
  <2>4. m \in 1..Len(q) /\ m - 1 \in 0..Len(q) /\ ~(m <= m - 1)
    BY <1>2, <2>2, <2>3
  <2>5. w[m - 1].left + w[m - 1].filled = sum
    BY <2>2, <2>4
  <2>6. PICK acc, id : acc = w[m - 1] /\ id = q[m]
    OBVIOUS
  <2>7. acc \in Taken /\ b.orders[id].remaining_qty \in Nat /\ w[m] = Take(b, p, acc, id)
    BY <1>2, <1>3, <2>4, <2>6 DEF LevelWalk, Countable
  <2>8. w[m].left + w[m].filled = acc.left + acc.filled
    <3>1. PICK rem \in Nat : rem = b.orders[id].remaining_qty
      BY <2>7
    <3>2. PICK n \in Nat : n = IF acc.left < rem THEN acc.left ELSE rem
      BY <2>7 DEF Taken
    <3>3. PICK k : k = n * p
      OBVIOUS
    <3>4. w[m] = [left |-> acc.left - n, cost |-> acc.cost + k, filled |-> acc.filled + n]
      BY <2>7, <3>1, <3>2, <3>3 DEF Take
    <3>5. acc.left \in Nat /\ acc.filled \in Nat
      BY <2>7 DEF Taken
    <3>6. w[m].left = acc.left - n /\ w[m].filled = acc.filled + n
      BY <3>4
    <3> QED BY <3>5, <3>6
  <2> QED BY <2>2, <2>5, <2>6, <2>8
<1>6. Len(q) \in 0..Len(q) /\ B = {}
  BY <1>2, <1>5
<1>7. w[Len(q)].left + w[Len(q)].filled = sum
  BY <1>6
<1> QED BY <1>3, <1>4, <1>7

\* The same of a walk over all levels.
LEMMA SweepConserves ==
  ASSUME NEW b, NEW s, Walkable(b, s), NEW limit, NEW qty \in Nat
  PROVE  /\ Sweep(b, s, limit, qty) \in Taken
         /\ Sweep(b, s, limit, qty).left + Sweep(b, s, limit, qty).filled = qty
<1>1. PICK L : L = {p \in DOMAIN b.levels[s] : Crosses(Opposite(s), limit, p)}
  OBVIOUS
<1>2. L \in SUBSET DOMAIN b.levels[s]
  BY <1>1
<1>3. PICK all \in Taken : all = Wanted(qty)
  BY WantedType
<1>4. PICK g : LevelsWalk(g, b, s, L, all) /\ TakeLevels(b, s, L, all) = g[L]
  BY <1>2, TakeLevelsWalks
<1>5. Sweep(b, s, limit, qty) = g[L]
  BY <1>1, <1>3, <1>4 DEF Sweep, Wanted
<1>6. IsFiniteSet(L) /\ L \in SUBSET Nat /\ s \in Sides
  BY <1>2, FS_Subset DEF Walkable
<1> DEFINE P == {v \in SUBSET L : g[v].left + g[v].filled = qty}
<1>7. ASSUME NEW v \in SUBSET L, \A x \in v : v \ {x} \in P PROVE v \in P
  <2>1. CASE v = {}
    <3>1. g[v] = Wanted(qty)
      BY <1>3, <1>4, <2>1 DEF LevelsWalk
    <3>2. g[v].left + g[v].filled = qty
      BY <3>1 DEF Wanted
    <3> QED BY <3>2
  <2>2. CASE v # {}
    <3>1. PICK p : p = LastServed(s, v)
      OBVIOUS
    <3>2. p \in v
      <4>1. IsFiniteSet(v) /\ v \in SUBSET Nat
        BY <1>6, FS_Subset
      <4> QED BY <1>6, <2>2, <3>1, <4>1, LastServedIsLast
    <3>3. PICK acc : acc = g[v \ {p}]
      OBVIOUS
    <3>4. acc \in Taken /\ acc.left + acc.filled = qty
      BY <1>4, <1>7, <3>2, <3>3 DEF LevelsWalk
    <3>5. g[v] = TakeLevel(b, s, p, acc)
      BY <1>4, <2>2, <3>1, <3>3 DEF LevelsWalk
    <3>6. p \in DOMAIN b.levels[s]
      BY <1>2, <3>2
    <3>7. g[v].left + g[v].filled = qty
      BY <3>4, <3>5, <3>6, LevelConserves
    <3> QED BY <3>7
  <2> QED BY <2>1, <2>2
<1>8. \A v \in SUBSET L : v \in P
  <2> HIDE DEF P
  <2> QED BY <1>6, <1>7, SubsetInduction
<1>9. g[L] \in Taken /\ g[L].left + g[L].filled = qty
  <2>1. L \in SUBSET L
    OBVIOUS
  <2> QED BY <1>4, <1>8, <2>1 DEF LevelsWalk
<1> QED BY <1>5, <1>9

\* When the loop ends a walk for what is left of the taker finds nothing.
LEMMA SweepAtEnd ==
  ASSUME NEW b, NEW U, WellFormed(b, U), NEW t, t.side \in Sides,
         t.remaining_qty \in Nat, t.limit \in Nat \cup {NoCap}, ~Matches(b, t),
         NEW s, s = Opposite(t.side)
  PROVE  Sweep(b, s, t.limit, t.remaining_qty).filled = 0
<1>1. PICK side \in Sides : side = t.side
  OBVIOUS
<1>2. PICK rem \in Nat : rem = t.remaining_qty
  OBVIOUS
<1>3. PICK limit \in Nat \cup {NoCap} : limit = t.limit
  OBVIOUS
<1>4. s \in Sides /\ Opposite(s) = side
  BY <1>1 DEF Opposite, Sides
<1>5. Walkable(b, s)
  BY <1>4, WellFormedWalkable
<1>6. CASE rem = 0
  <2>1. PICK quote : quote = Sweep(b, s, limit, rem)
    OBVIOUS
  <2>2. quote \in Taken /\ quote.left + quote.filled = rem
    BY <1>5, <2>1, SweepConserves
  <2>3. quote.filled = 0
    BY <1>6, <2>2 DEF Taken
  <2> QED BY <1>2, <1>3, <2>1, <2>3
<1>7. CASE rem # 0
  <2>1. PICK L : L = {p \in DOMAIN b.levels[s] : Crosses(Opposite(s), limit, p)}
    OBVIOUS
  <2>2. L = {}
    <3>1. CASE DOMAIN b.levels[s] = {}
      BY <2>1, <3>1
    <3>2. CASE DOMAIN b.levels[s] # {}
      <4>1. PICK p : p = BestPrice(b, s)
        OBVIOUS
      <4>2. p \in Nat /\ \A x \in DOMAIN b.levels[s] : ~Better(s, x, p)
        BY <1>1, <3>2, <4>1, MakerFacts
      <4>3. ~Crosses(side, limit, p)
        BY <1>1, <1>2, <1>3, <1>7, <3>2, <4>1 DEF Matches
      <4>4. ASSUME NEW x \in DOMAIN b.levels[s] PROVE ~Crosses(side, limit, x)
        <5>1. x \in Nat /\ ~Better(s, x, p)
          BY <1>5, <4>2 DEF Walkable
        <5> QED BY <1>3, <1>4, <4>2, <4>3, <5>1 DEF Crosses, Better, Opposite, Sides
      <4> QED BY <1>4, <2>1, <4>4
    <3> QED BY <3>1, <3>2
  <2>3. PICK all \in Taken : all = Wanted(rem)
    BY WantedType
  <2>4. Sweep(b, s, limit, rem) = TakeLevels(b, s, L, all)
    BY <2>1, <2>3 DEF Sweep, Wanted
  <2>5. L \in SUBSET DOMAIN b.levels[s]
    BY <2>1
  <2>6. PICK g : LevelsWalk(g, b, s, L, all) /\ TakeLevels(b, s, L, all) = g[L]
    BY <1>5, <2>5, TakeLevelsWalks
  <2>7. Sweep(b, s, limit, rem) = Wanted(rem)
    BY <2>2, <2>3, <2>4, <2>6 DEF LevelsWalk
  <2> QED BY <1>2, <1>3, <2>7 DEF Wanted
<1> QED BY <1>6, <1>7

\* A walk reads the levels and the orders and nothing else.
LEMMA SweepSame ==
  ASSUME NEW b, NEW c, NEW s, Walkable(b, s), c.levels = b.levels, c.orders = b.orders,
         NEW limit, NEW qty \in Nat
  PROVE  /\ Sweep(c, s, limit, qty).filled = Sweep(b, s, limit, qty).filled
         /\ Sweep(c, s, limit, qty).cost = Sweep(b, s, limit, qty).cost
<1>1. PICK L : L = {p \in DOMAIN b.levels[s] : Crosses(Opposite(s), limit, p)}
  OBVIOUS
<1>2. L \in SUBSET DOMAIN b.levels[s] /\ L \in SUBSET DOMAIN c.levels[s]
  BY <1>1
<1>3. PICK all \in Taken : all = Wanted(qty)
  BY WantedType
<1>4. Walkable(c, s)
  BY DEF Walkable, Countable
<1>5. PICK g : LevelsWalk(g, b, s, L, all) /\ TakeLevels(b, s, L, all) = g[L]
  BY <1>2, TakeLevelsWalks
<1>6. PICK h : LevelsWalk(h, c, s, L, all) /\ TakeLevels(c, s, L, all) = h[L]
  BY <1>2, <1>4, TakeLevelsWalks
<1>7. Sweep(b, s, limit, qty) = g[L] /\ Sweep(c, s, limit, qty) = h[L]
  BY <1>1, <1>3, <1>5, <1>6 DEF Sweep, Wanted
<1>8. IsFiniteSet(L) /\ L \in SUBSET Nat /\ s \in Sides
  BY <1>2, FS_Subset DEF Walkable
<1> DEFINE P == {v \in SUBSET L : Ahead(g[v], h[v], 0, 0)}
<1>9. ASSUME NEW v \in SUBSET L, \A x \in v : v \ {x} \in P PROVE v \in P
  <2>1. CASE v = {}
    <3>1. g[v] = all /\ h[v] = all
      BY <1>5, <1>6, <2>1 DEF LevelsWalk
    <3>2. Ahead(all, all, 0, 0)
      BY DEF Ahead, Taken
    <3> QED BY <3>1, <3>2
  <2>2. CASE v # {}
    <3>1. PICK p : p = LastServed(s, v)
      OBVIOUS
    <3>2. p \in v
      <4>1. IsFiniteSet(v) /\ v \in SUBSET Nat
        BY <1>8, FS_Subset
      <4> QED BY <1>8, <2>2, <3>1, <4>1, LastServedIsLast
    <3>3. PICK acc, now : acc = g[v \ {p}] /\ now = h[v \ {p}]
      OBVIOUS
    <3>4. Ahead(acc, now, 0, 0)
      BY <1>9, <3>2, <3>3
    <3>5. g[v] = TakeLevel(b, s, p, acc) /\ h[v] = TakeLevel(c, s, p, now)
      BY <1>5, <1>6, <2>2, <3>1, <3>3 DEF LevelsWalk
    <3>6. SameLevel(b, c, s, p)
      BY <1>2, <3>2 DEF SameLevel
    <3>7. Ahead(g[v], h[v], 0, 0)
      BY <1>4, <3>4, <3>5, <3>6, LevelAhead
    <3> QED BY <3>7
  <2> QED BY <2>1, <2>2
<1>10. \A v \in SUBSET L : v \in P
  <2> HIDE DEF P
  <2> QED BY <1>8, <1>9, SubsetInduction
<1>11. Ahead(g[L], h[L], 0, 0)
  <2>1. L \in SUBSET L
    OBVIOUS
  <2> QED BY <1>10, <2>1
<1> QED BY <1>7, <1>11 DEF Ahead, Taken

-----------------------------------------------------------------------------
\* What get_state shows.

\* The open orders at a price of a side.
OrdersAt(b, s, p) == {id \in DOMAIN b.orders : b.orders[id].side = s /\ b.orders[id].price = p}

\* The prices of a side are those of its orders.
LEMMA LevelsArePrices ==
  ASSUME NEW b, NEW U, WellFormed(b, U), NEW s \in Sides
  PROVE  DOMAIN b.levels[s] =
           {p \in {b.orders[id].price : id \in DOMAIN b.orders} : OrdersAt(b, s, p) # {}}
<1>1. ASSUME NEW p \in DOMAIN b.levels[s]
      PROVE  \E id \in DOMAIN b.orders : b.orders[id].side = s /\ b.orders[id].price = p
  <2>1. b.levels[s][p] \in Seq(Nat) /\ b.levels[s][p] # <<>>
    BY DEF WellFormed, BookType, LevelsHoldOrders
  <2>2. 1 \in 1..Len(b.levels[s][p])
    BY <2>1
  <2> QED BY <2>2 DEF WellFormed, LevelsHoldOrders
<1>2. ASSUME NEW id \in DOMAIN b.orders, b.orders[id].side = s
      PROVE  b.orders[id].price \in DOMAIN b.levels[s]
  BY <1>2 DEF WellFormed, OrdersAreQueued
<1> QED BY <1>1, <1>2 DEF OrdersAt

\* What get_state adds up along a queue is what the orders at its price have.
LEMMA DepthAddsUp ==
  ASSUME NEW b, NEW U, WellFormed(b, U), NEW s \in Sides, NEW p \in DOMAIN b.levels[s]
  PROVE  Depth(b, s)[p] =
           SumFunction([id \in OrdersAt(b, s, p) |-> b.orders[id].remaining_qty])
<1>1. PICK q : q = b.levels[s][p]
  OBVIOUS
<1>2. PICK T : T = OrdersAt(b, s, p)
  OBVIOUS
<1>3. /\ q \in Seq(Nat) /\ Len(q) \in Nat /\ DOMAIN q = 1..Len(q)
      /\ b.orders \in [DOMAIN b.orders -> Orders(U)]
      /\ DOMAIN b.orders \subseteq 1..(b.next_order_id - 1) /\ b.next_order_id \in Nat
  BY <1>1 DEF WellFormed, BookType
<1>4. IsFiniteSet(DOMAIN q) /\ IsFiniteSet(T)
  <2>1. IsFiniteSet(1..(b.next_order_id - 1)) /\ IsFiniteSet(1..Len(q))
    BY <1>3, FS_Interval
  <2>2. T \in SUBSET (1..(b.next_order_id - 1))
    BY <1>2, <1>3 DEF OrdersAt
  <2> QED BY <1>3, <2>1, <2>2, FS_Subset
<1>5. \A i \in DOMAIN q : q[i] \in T
  BY <1>1, <1>2, <1>3 DEF WellFormed, LevelsHoldOrders, OrdersAt
<1>6. \A i, j \in DOMAIN q : q[i] = q[j] => i = j
  <2> TAKE i, j \in DOMAIN q
  <2>1. i \in 1..Len(q) /\ j \in 1..Len(q) /\ q[i] \in Nat /\ q[j] \in Nat
    BY <1>3
  <2>2. (i < j => q[i] < q[j]) /\ (j < i => q[j] < q[i])
    BY <1>1, <2>1 DEF WellFormed, QueuesInIdOrder
  <2> QED BY <1>3, <2>1, <2>2
<1>7. \A id \in T : \E i \in DOMAIN q : id = q[i]
  <2> TAKE id \in T
  <2>1. id \in DOMAIN b.orders /\ b.orders[id].side = s /\ b.orders[id].price = p
    BY <1>2 DEF OrdersAt
  <2>2. \E i \in 1..Len(b.levels[s][p]) : b.levels[s][p][i] = id
    BY <2>1 DEF WellFormed, OrdersAreQueued
  <2> QED BY <1>1, <1>3, <2>2
<1>8. PICK f : f = [i \in DOMAIN q |-> b.orders[q[i]].remaining_qty]
  OBVIOUS
<1>9. PICK g : g = [id \in T |-> b.orders[id].remaining_qty]
  OBVIOUS
<1>10. \A i \in DOMAIN q : f[i] \in Int /\ g[q[i]] = f[i]
  <2> TAKE i \in DOMAIN q
  <2>1. q[i] \in T /\ q[i] \in DOMAIN b.orders
    BY <1>2, <1>5 DEF OrdersAt
  <2>2. b.orders[q[i]] \in Orders(U)
    BY <1>3, <2>1
  <2>3. b.orders[q[i]].remaining_qty \in Int
    BY <2>2 DEF Orders
  <2> QED BY <1>8, <1>9, <2>1, <2>3
<1>11. q \in [DOMAIN q -> T]
  BY <1>3, <1>5
<1>12. PICK S : S = DOMAIN q
  OBVIOUS
<1>13. SumFunctionOnSet(f, S) = SumFunctionOnSet(g, T)
  BY <1>4, <1>6, <1>7, <1>10, <1>11, <1>12, SumRenamed
<1>14. SumFunction(f) = SumFunctionOnSet(f, S) /\ SumFunction(g) = SumFunctionOnSet(g, T)
  BY <1>8, <1>9, <1>12 DEF SumFunction
<1>15. Depth(b, s)[p] = SumFunction(f)
  BY <1>1, <1>8 DEF Depth
<1> QED BY <1>2, <1>9, <1>13, <1>14, <1>15
=============================================================================
