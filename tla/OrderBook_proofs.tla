-------------------------- MODULE OrderBook_proofs --------------------------
(***************************************************************************)
(* Proofs about OrderBook, for every set of order ids, prices and          *)
(* quantities.                                                             *)
(***************************************************************************)
EXTENDS OrderBook, SetLemmas

-----------------------------------------------------------------------------
(* Maps, queues and ladders.                                               *)

\* Put stores the value under the key and leaves the rest of the map alone.
LEMMA PutMaps ==
    ASSUME NEW map, NEW key, NEW value
    PROVE  /\ DOMAIN Put(map, key, value) = DOMAIN map \cup {key}
           /\ Put(map, key, value)[key] = value
           /\ \A k \in DOMAIN map \ {key} : Put(map, key, value)[k] = map[k]
    BY DEF Put

\* Put keeps the type of a map.
LEMMA PutType ==
    ASSUME NEW map, NEW T, map \in [DOMAIN map -> T], NEW key, NEW value \in T
    PROVE  Put(map, key, value) \in [DOMAIN map \cup {key} -> T]
    BY DEF Put

\* Erase removes the key and leaves the rest of the map alone.
LEMMA EraseMaps ==
    ASSUME NEW map, NEW key
    PROVE  /\ DOMAIN Erase(map, key) = DOMAIN map \ {key}
           /\ \A k \in DOMAIN map \ {key} : Erase(map, key)[k] = map[k]
    BY DEF Erase

\* Erase keeps the type of a map.
LEMMA EraseType ==
    ASSUME NEW map, NEW T, map \in [DOMAIN map -> T], NEW key
    PROVE  Erase(map, key) \in [DOMAIN map \ {key} -> T]
    BY DEF Erase

\* Erasing from a queue yields a queue of the same type, one shorter.
LEMMA EraseAtType ==
    ASSUME NEW T, NEW queue \in Seq(T), NEW i \in 1..Len(queue)
    PROVE  /\ EraseAt(queue, i) \in Seq(T)
           /\ Len(EraseAt(queue, i)) = Len(queue) - 1
           /\ \A j \in 1..(Len(queue) - 1) :
                EraseAt(queue, i)[j] = IF j < i THEN queue[j] ELSE queue[j + 1]
  <1>1. Len(queue) \in Nat /\ Len(queue) >= 1
    OBVIOUS
  <1>2. \A j \in 1..(Len(queue) - 1) : queue[j] \in T /\ queue[j + 1] \in T
    BY <1>1
  <1>3. EraseAt(queue, i) \in [1..(Len(queue) - 1) -> T]
    BY <1>2 DEF EraseAt
  <1>4. EraseAt(queue, i) \in Seq(T)
    BY <1>1, <1>3
  <1>. QED
    BY <1>1, <1>3, <1>4 DEF EraseAt

\* What makes the first price of a ladder well defined: every set of its prices
\* has a best one.  std::map gives this for free; here it is kept by every
\* insertion, so that no induction over finite sets is needed.
Searchable(side, P) ==
    \A S \in SUBSET P : S # {} => \E p \in S : \A q \in S \ {p} : Better(side, p, q)

\* A set of prices in which every subset has a best price stays so when it shrinks,
LEMMA SearchableSubset ==
    ASSUME NEW side, NEW P, Searchable(side, P), NEW Q \in SUBSET P
    PROVE  Searchable(side, Q)
    BY DEF Searchable

\* and when a price is added to it.
LEMMA SearchableInsert ==
    ASSUME NEW side \in Side, NEW P \in SUBSET Nat, Searchable(side, P), NEW new \in Nat
    PROVE  Searchable(side, P \cup {new})
  <1>. SUFFICES ASSUME NEW S \in SUBSET (P \cup {new}), S # {}
                PROVE  \E p \in S : \A q \in S \ {p} : Better(side, p, q)
    BY DEF Searchable
  <1>. DEFINE old == S \ {new}
  <1>1. CASE old = {}
    <2>. S = {new}
      BY <1>1
    <2>. QED
      OBVIOUS
  <1>2. CASE old # {}
    <2>1. PICK m \in old : \A q \in old \ {m} : Better(side, m, q)
      BY <1>2 DEF Searchable
    <2>2. m \in Nat /\ m # new
      BY <2>1
    <2>3. CASE Better(side, m, new)
      BY <2>1, <2>3
    <2>4. CASE ~Better(side, m, new) /\ new \in S
      <3>1. Better(side, new, m)
        BY <2>2, <2>4 DEF Better
      <3>2. \A q \in S \ {new} : Better(side, new, q)
        BY <2>1, <2>2, <3>1 DEF Better
      <3>. QED
        BY <2>4, <3>2
    <2>5. CASE new \notin S
      BY <2>1, <2>5
    <2>. QED
      BY <2>3, <2>4, <2>5
  <1>. QED
    BY <1>1, <1>2

\* First(side, P) is the best price of P, or END.
LEMMA FirstIsBest ==
    ASSUME NEW side \in Side, NEW P \in SUBSET (Nat \ {0}), Searchable(side, P)
    PROVE  /\ First(side, P) = END <=> P = {}
           /\ P # {} => /\ First(side, P) \in P
                        /\ \A q \in P \ {First(side, P)} : Better(side, First(side, P), q)
  <1>1. CASE P = {}
    BY <1>1 DEF First
  <1>2. CASE P # {}
    <2>1. \E p \in P : \A q \in P \ {p} : Better(side, p, q)
      BY <1>2 DEF Searchable
    <2>2. /\ First(side, P) \in P
          /\ \A q \in P \ {First(side, P)} : Better(side, First(side, P), q)
      BY <1>2, <2>1 DEF First
    <2>. QED
      BY <1>2, <2>2 DEF END
  <1>. QED
    BY <1>1, <1>2

\* Moving on from the best level reaches the best of the others.
LEMMA NextOfFirst ==
    ASSUME NEW side \in Side, NEW ladder, NEW p, DOMAIN ladder \subseteq Nat \ {0},
           Searchable(side, DOMAIN ladder), DOMAIN ladder # {},
           p = First(side, DOMAIN ladder)
    PROVE  NextPrice(side, ladder, p) = First(side, DOMAIN ladder \ {p})
  <1>1. p \in DOMAIN ladder /\ \A q \in DOMAIN ladder \ {p} : Better(side, p, q)
    BY FirstIsBest
  <1>2. {q \in DOMAIN ladder : Better(side, p, q)} = DOMAIN ladder \ {p}
    BY <1>1 DEF Better
  <1>. QED
    BY <1>2 DEF NextPrice

-----------------------------------------------------------------------------
(* The inductive invariant.                                                *)

\* arrivals lists every order of the table once.
ArrivalsListOrders ==
    /\ \A i \in 1..Len(arrivals) :
          /\ has_order(arrivals[i])
          /\ \A j \in 1..Len(arrivals) : arrivals[j] = arrivals[i] => j = i
    /\ \A id \in DOMAIN orders : \E i \in 1..Len(arrivals) : arrivals[i] = id

\* Queues are FIFO.
QueuesInArrivalOrder ==
    \A side \in Side : \A price \in DOMAIN levels[side] :
        \A i, j \in 1..Len(Queue(side, price)) :
            i < j => Arrived(Queue(side, price)[i]) < Arrived(Queue(side, price)[j])

LaddersSearchable == \A side \in Side : Searchable(side, DOMAIN levels[side])

\* The invariant of the match loop: while there is quantity left, the iterator
\* is at the best level of the ladder.
IteratorAtBest ==
    call.running /\ call.remaining > 0 => call.it = First(call.side, DOMAIN levels[call.side])

IInv ==
    /\ TypeOK
    /\ IndexConsistent
    /\ ArrivalsListOrders
    /\ QueuesInArrivalOrder
    /\ LaddersSearchable
    /\ IteratorAtBest

\* An order arrived at the position of the arrivals that holds it.
LEMMA ArrivedAt ==
    ASSUME ArrivalsListOrders, NEW i \in 1..Len(arrivals)
    PROVE  Arrived(arrivals[i]) = i
    BY DEF ArrivalsListOrders, Arrived

\* Arrived is a position of the arrivals.
LEMMA ArrivedType ==
    ASSUME ArrivalsListOrders, NEW id \in DOMAIN orders
    PROVE  Arrived(id) \in 1..Len(arrivals) /\ arrivals[Arrived(id)] = id
    BY DEF ArrivalsListOrders, Arrived

\* Appending a new order to the arrivals moves no earlier one.
LEMMA ArrivalsGrow ==
    ASSUME TypeOK, ArrivalsListOrders, NEW id \in OrderId, id \notin DOMAIN orders,
           DOMAIN orders' = DOMAIN orders \cup {id}, arrivals' = Append(arrivals, id)
    PROVE  /\ ArrivalsListOrders'
           /\ Arrived(id)' = Len(arrivals) + 1
           /\ \A x \in DOMAIN orders : Arrived(x)' = Arrived(x)
  <1>1. arrivals \in Seq(OrderId) /\ Len(arrivals) \in Nat
    BY DEF TypeOK
  <1>2. /\ Len(arrivals') = Len(arrivals) + 1
        /\ arrivals'[Len(arrivals) + 1] = id
        /\ \A i \in 1..Len(arrivals) : arrivals'[i] = arrivals[i]
    BY <1>1
  <1>3. \A i \in 1..Len(arrivals) : arrivals[i] # id
    BY DEF ArrivalsListOrders, has_order
  <1>4. ArrivalsListOrders'
    BY <1>1, <1>2, <1>3 DEF ArrivalsListOrders, has_order
  <1>5. Arrived(id)' = Len(arrivals) + 1
    BY <1>1, <1>2, <1>3 DEF Arrived
  <1>6. ASSUME NEW x \in DOMAIN orders PROVE Arrived(x)' = Arrived(x)
    <2>1. Arrived(x) \in 1..Len(arrivals) /\ arrivals[Arrived(x)] = x
      BY ArrivedType
    <2>2. \A i \in 1..Len(arrivals') : arrivals'[i] = x => i = Arrived(x)
      BY <1>1, <1>2, <2>1 DEF ArrivalsListOrders
    <2>3. Arrived(x) \in 1..Len(arrivals') /\ arrivals'[Arrived(x)] = x
      BY <1>1, <1>2, <2>1
    <2>. QED
      BY <2>2, <2>3 DEF Arrived
  <1>. QED
    BY <1>4, <1>5, <1>6

\* The empty book satisfies the inductive invariant.
LEMMA InitInvariant == Init => IInv
  <1>. SUFFICES ASSUME Init PROVE IInv
    OBVIOUS
  <1>1. TypeOK
    BY DEF Init, TypeOK, Idle, NoAnswer, Side, END
  <1>2. IndexConsistent
    BY DEF Init, IndexConsistent, QueuesHoldLiveOrders, LiveOrdersAreQueued
  <1>3. ArrivalsListOrders /\ QueuesInArrivalOrder
    BY DEF Init, ArrivalsListOrders, QueuesInArrivalOrder
  <1>4. LaddersSearchable
    BY DEF Init, LaddersSearchable, Searchable
  <1>5. IteratorAtBest
    BY DEF Init, IteratorAtBest, Idle
  <1>. QED
    BY <1>1, <1>2, <1>3, <1>4, <1>5 DEF IInv

-----------------------------------------------------------------------------
(* A new order.                                                            *)

QueueAt(ladder, p) == IF p \in DOMAIN ladder THEN ladder[p].orders ELSE <<>>

\* Enqueue appends to the queue of one price and touches no other level.
LEMMA EnqueueEffect ==
    ASSUME NEW ladder, ladder \in [DOMAIN ladder -> PriceLevel],
           NEW id \in OrderId, NEW order \in Order
    PROVE  /\ DOMAIN Enqueue(ladder, id, order) = DOMAIN ladder \cup {order.price}
           /\ Enqueue(ladder, id, order) \in [DOMAIN ladder \cup {order.price} -> PriceLevel]
           /\ QueueAt(ladder, order.price) \in Seq(OrderId)
           /\ Enqueue(ladder, id, order)[order.price].orders
                = Append(QueueAt(ladder, order.price), id)
           /\ \A q \in DOMAIN ladder \ {order.price} :
                Enqueue(ladder, id, order)[q] = ladder[q]
  <1>. DEFINE p == order.price
              level == IF p \in DOMAIN ladder THEN ladder[p]
                       ELSE [total_quantity |-> 0, orders |-> <<>>]
              value == [total_quantity |-> level.total_quantity + order.remaining,
                        orders |-> Append(level.orders, id)]
  <1>1. order.remaining \in Nat
    BY DEF Order
  <1>2. level.total_quantity \in Int /\ level.orders \in Seq(OrderId)
    BY DEF PriceLevel
  <1>3. value \in PriceLevel
    BY <1>1, <1>2 DEF PriceLevel
  <1>4. Enqueue(ladder, id, order) = Put(ladder, p, value)
    BY DEF Enqueue
  <1>5. QueueAt(ladder, p) = level.orders
    BY DEF QueueAt
  <1>6. value.orders = Append(level.orders, id)
    OBVIOUS
  <1>. HIDE DEF value, level, p
  <1>7. Put(ladder, p, value) \in [DOMAIN ladder \cup {p} -> PriceLevel]
    BY <1>3 DEF Put
  <1>8. /\ DOMAIN Put(ladder, p, value) = DOMAIN ladder \cup {p}
        /\ Put(ladder, p, value)[p] = value
        /\ \A q \in DOMAIN ladder \ {p} : Put(ladder, p, value)[q] = ladder[q]
    BY DEF Put
  <1>9. QueueAt(ladder, p) \in Seq(OrderId) /\ value.orders = Append(QueueAt(ladder, p), id)
    BY <1>2, <1>5, <1>6
  <1>. QED
    BY <1>4, <1>7, <1>8, <1>9 DEF p

\* Inserting an order, local or replicated, keeps the inductive invariant.
LEMMA InsertKeepsInvariant ==
    ASSUME IInv, NEW id \in OrderId, NEW side \in Side, NEW price \in Price,
           NEW quantity \in Quantity, ~call.running, ~has_order(id),
           Insert(id, NewOrder(side, price, quantity))
    PROVE  IInv'
  <1>. DEFINE order == NewOrder(side, price, quantity)
              queue == QueueAt(levels[side], price)
  <1>1. /\ order \in Order /\ order.remaining > 0 /\ ~order.is_cancelled
        /\ order.side = side /\ order.price = price
        /\ order.remaining <= order.quantity
    BY QuantityAssumption DEF NewOrder, Order
  <1>. HIDE DEF order
  <1>2. /\ DOMAIN orders' = DOMAIN orders \cup {id}
        /\ orders'[id] = order
        /\ \A k \in DOMAIN orders : orders'[k] = orders[k] /\ k # id
    BY DEF Insert, order, has_order, Put
  <1>3. /\ DOMAIN levels'[side] = DOMAIN levels[side] \cup {price}
        /\ levels'[side] \in [DOMAIN levels'[side] -> PriceLevel]
        /\ queue \in Seq(OrderId)
        /\ Queue(side, price)' = Append(queue, id)
        /\ \A q \in DOMAIN levels[side] \ {price} : levels'[side][q] = levels[side][q]
    <2>1. levels'[side] = Enqueue(levels[side], id, order)
      BY <1>1 DEF Insert, IInv, TypeOK, order
    <2>2. levels[side] \in [DOMAIN levels[side] -> PriceLevel] /\ DOMAIN levels[side] \subseteq Price
      BY DEF IInv, TypeOK
    <2>3. /\ DOMAIN Enqueue(levels[side], id, order) = DOMAIN levels[side] \cup {order.price}
          /\ Enqueue(levels[side], id, order)
               \in [DOMAIN levels[side] \cup {order.price} -> PriceLevel]
          /\ QueueAt(levels[side], order.price) \in Seq(OrderId)
          /\ Enqueue(levels[side], id, order)[order.price].orders
               = Append(QueueAt(levels[side], order.price), id)
          /\ \A q \in DOMAIN levels[side] \ {order.price} :
               Enqueue(levels[side], id, order)[q] = levels[side][q]
      BY <1>1, <2>2, EnqueueEffect
    <2>. QED
      BY <1>1, <2>1, <2>3 DEF Queue
  <1>4. /\ DOMAIN levels' = Side
        /\ \A s \in Side \ {side} : levels'[s] = levels[s]
    BY <1>1 DEF Insert, IInv, TypeOK, order
  <1>5. /\ ArrivalsListOrders'
        /\ Arrived(id)' = Len(arrivals) + 1
        /\ \A x \in DOMAIN orders : Arrived(x)' = Arrived(x)
    BY <1>2, ArrivalsGrow DEF Insert, IInv, has_order
  <1>. HIDE DEF queue
  <1>6. TypeOK'
    <2>1. orders' \in [DOMAIN orders' -> Order] /\ DOMAIN orders' \subseteq OrderId
      BY <1>1, <1>2 DEF IInv, TypeOK, Insert, Put
    <2>2. \A k \in DOMAIN orders' : orders'[k].remaining <= orders'[k].quantity
      BY <1>1, <1>2 DEF IInv, TypeOK
    <2>3. \A s \in Side : /\ DOMAIN levels'[s] \subseteq Price
                         /\ levels'[s] \in [DOMAIN levels'[s] -> PriceLevel]
      BY <1>3, <1>4 DEF IInv, TypeOK
    <2>4. arrivals' \in Seq(OrderId)
      BY DEF IInv, TypeOK, Insert
    <2>5. answer' \in [side : Side, quantity : Nat, fills : Seq(Fill)]
      BY DEF Insert, NoAnswer, Side
    <2>. QED
      BY <1>4, <2>1, <2>2, <2>3, <2>4, <2>5 DEF IInv, TypeOK, Insert
  <1>7. /\ Len(queue) \in Nat
        /\ Len(Queue(side, price)') = Len(queue) + 1
        /\ Queue(side, price)'[Len(queue) + 1] = id
        /\ \A i \in 1..Len(queue) : /\ Queue(side, price)'[i] = queue[i]
                                   /\ price \in DOMAIN levels[side]
                                   /\ queue = Queue(side, price)
    <2>1. queue # <<>> => price \in DOMAIN levels[side] /\ queue = Queue(side, price)
      BY DEF queue, QueueAt, Queue
    <2>. QED
      BY <1>3, <2>1
  <1>8. QueuesHoldLiveOrders'
    <2>. SUFFICES ASSUME NEW s \in Side, NEW p \in DOMAIN levels'[s]
                  PROVE  /\ Queue(s, p)' # <<>>
                         /\ \A i \in 1..Len(Queue(s, p)') :
                              LET x == Queue(s, p)'[i]
                              IN  /\ x \in DOMAIN orders'
                                  /\ ~orders'[x].is_cancelled
                                  /\ orders'[x].side = s
                                  /\ orders'[x].price = p
                                  /\ orders'[x].remaining > 0
                                  /\ \A j \in 1..Len(Queue(s, p)') :
                                        Queue(s, p)'[j] = x => j = i
      BY DEF QueuesHoldLiveOrders, Live, has_order
    <2>1. CASE s = side /\ p = price
      <3>1. Queue(s, p)' = Queue(side, price)'
        BY <2>1
      <3>2. \A i \in 1..Len(queue) :
              /\ queue[i] \in DOMAIN orders
              /\ ~orders[queue[i]].is_cancelled
              /\ orders[queue[i]].side = side
              /\ orders[queue[i]].price = price
              /\ orders[queue[i]].remaining > 0
              /\ \A j \in 1..Len(queue) : queue[j] = queue[i] => j = i
        BY <1>7 DEF IInv, IndexConsistent, QueuesHoldLiveOrders, Live, has_order
      <3>3. Queue(s, p)' # <<>>
        BY <1>3, <1>7, <3>1
      <3>. QED
        BY <1>1, <1>2, <1>7, <2>1, <3>1, <3>2, <3>3
    <2>2. CASE ~(s = side /\ p = price)
      <3>1. p \in DOMAIN levels[s] /\ Queue(s, p)' = Queue(s, p)
        BY <1>3, <1>4, <2>2 DEF Queue
      <3>. QED
        BY <1>2, <3>1 DEF IInv, IndexConsistent, QueuesHoldLiveOrders, Live, has_order
    <2>. QED
      BY <2>1, <2>2
  <1>9. LiveOrdersAreQueued'
    <2>. SUFFICES ASSUME NEW x \in DOMAIN orders', Live(x)'
                  PROVE  /\ orders'[x].price \in DOMAIN levels'[orders'[x].side]
                         /\ \E i \in 1..Len(Queue(orders[x].side, orders[x].price)') :
                              Queue(orders[x].side, orders[x].price)'[i] = x
      BY DEF LiveOrdersAreQueued
    <2>1. CASE x = id
      <3>1. orders'[x].side = side /\ orders'[x].price = price
        BY <1>1, <1>2, <2>1
      <3>2. Queue(orders[x].side, orders[x].price)' = Queue(side, price)'
        BY <3>1 DEF Queue
      <3>. QED
        BY <1>3, <1>7, <2>1, <3>1, <3>2
    <2>2. CASE x # id
      <3>. DEFINE s == orders[x].side
                  p == orders[x].price
      <3>1. x \in DOMAIN orders /\ orders'[x] = orders[x] /\ Live(x)
        BY <1>2, <2>2 DEF Live, has_order
      <3>2. s \in Side /\ p \in DOMAIN levels[s]
        BY <3>1 DEF IInv, IndexConsistent, LiveOrdersAreQueued, TypeOK, Order
      <3>3. PICK i \in 1..Len(Queue(s, p)) : Queue(s, p)[i] = x
        BY <3>1 DEF IInv, IndexConsistent, LiveOrdersAreQueued
      <3>4. Queue(orders[x].side, orders[x].price)' = levels'[s][p].orders
        BY <3>1 DEF Queue
      <3>5. CASE s = side /\ p = price
        <4>1. queue = Queue(s, p)
          BY <3>2, <3>5 DEF queue, QueueAt, Queue
        <4>2. levels'[s][p].orders = Queue(side, price)'
          BY <3>5 DEF Queue
        <4>. QED
          BY <1>3, <1>7, <3>1, <3>3, <3>4, <3>5, <4>1, <4>2
      <3>6. CASE ~(s = side /\ p = price)
        <4>1. p \in DOMAIN levels'[s] /\ levels'[s][p].orders = Queue(s, p)
          BY <1>3, <1>4, <3>2, <3>6 DEF Queue
        <4>. QED
          BY <3>1, <3>3, <3>4, <4>1
      <3>. QED
        BY <3>5, <3>6
    <2>. QED
      BY <2>1, <2>2
  <1>10. QueuesInArrivalOrder'
    <2>. SUFFICES ASSUME NEW s \in Side, NEW p \in DOMAIN levels'[s],
                         NEW i \in 1..Len(Queue(s, p)'), NEW j \in 1..Len(Queue(s, p)'), i < j
                  PROVE  Arrived(Queue(s, p)[i])' < Arrived(Queue(s, p)[j])'
      BY DEF QueuesInArrivalOrder
    <2>1. CASE s = side /\ p = price
      <3>1. Queue(s, p)' = Queue(side, price)'
        BY <2>1
      <3>2. PICK x \in DOMAIN orders : i \in 1..Len(queue) /\ x = queue[i] /\ Queue(s, p)'[i] = x
        BY <1>7, <3>1 DEF IInv, IndexConsistent, QueuesHoldLiveOrders, Live, has_order
      <3>3. Arrived(x) \in 1..Len(arrivals)
        BY ArrivedType DEF IInv
      <3>4. CASE j = Len(queue) + 1
        BY <1>5, <1>7, <3>1, <3>2, <3>3, <3>4
      <3>5. CASE j \in 1..Len(queue)
        <4>1. PICK y \in DOMAIN orders : y = queue[j] /\ Queue(s, p)'[j] = y
          BY <1>7, <3>1, <3>5 DEF IInv, IndexConsistent, QueuesHoldLiveOrders, Live, has_order
        <4>2. Arrived(x) < Arrived(y)
          BY <1>7, <3>2, <3>5, <4>1 DEF IInv, QueuesInArrivalOrder
        <4>. QED
          BY <1>5, <3>2, <4>1, <4>2
      <3>. QED
        BY <1>7, <3>1, <3>4, <3>5
    <2>2. CASE ~(s = side /\ p = price)
      <3>1. p \in DOMAIN levels[s] /\ Queue(s, p)' = Queue(s, p)
        BY <1>3, <1>4, <2>2 DEF Queue
      <3>2. Queue(s, p)[i] \in DOMAIN orders /\ Queue(s, p)[j] \in DOMAIN orders
        BY <3>1 DEF IInv, IndexConsistent, QueuesHoldLiveOrders, Live, has_order
      <3>3. Arrived(Queue(s, p)[i]) < Arrived(Queue(s, p)[j])
        BY <3>1 DEF IInv, QueuesInArrivalOrder
      <3>. QED
        BY <1>5, <3>1, <3>2, <3>3
    <2>. QED
      BY <2>1, <2>2
  <1>11. LaddersSearchable'
    <2>1. \A s \in Side : DOMAIN levels[s] \in SUBSET Nat /\ price \in Nat
      BY PriceAssumption DEF IInv, TypeOK
    <2>2. Searchable(side, DOMAIN levels[side] \cup {price})
      BY <2>1, SearchableInsert DEF IInv, LaddersSearchable
    <2>. QED
      BY <1>3, <1>4, <2>2 DEF IInv, LaddersSearchable
  <1>12. IteratorAtBest'
    BY DEF Insert, IteratorAtBest
  <1>. QED
    BY <1>5, <1>6, <1>8, <1>9, <1>10, <1>11, <1>12 DEF IInv, IndexConsistent

-----------------------------------------------------------------------------
(* An order leaves a queue: by a cancel from anywhere in it, by a fill from *)
(* its front.                                                               *)

\* Where every element of a queue is after one of them has been erased.
LEMMA EraseAtEffect ==
    ASSUME NEW queue \in Seq(OrderId), NEW k \in 1..Len(queue),
           \A i, j \in 1..Len(queue) : queue[i] = queue[j] => i = j
    PROVE  /\ EraseAt(queue, k) \in Seq(OrderId)
           /\ Len(EraseAt(queue, k)) = Len(queue) - 1
           /\ \A i \in 1..Len(queue) : i # k =>
                \E j \in 1..Len(EraseAt(queue, k)) : EraseAt(queue, k)[j] = queue[i]
           /\ \A j \in 1..Len(EraseAt(queue, k)) :
                EraseAt(queue, k)[j] = queue[IF j < k THEN j ELSE j + 1]
  <1>1. Len(queue) \in Nat /\ k \in Nat
    OBVIOUS
  <1>2. /\ EraseAt(queue, k) \in Seq(OrderId)
        /\ Len(EraseAt(queue, k)) = Len(queue) - 1
        /\ \A j \in 1..(Len(queue) - 1) :
             EraseAt(queue, k)[j] = IF j < k THEN queue[j] ELSE queue[j + 1]
    BY EraseAtType
  <1>3. ASSUME NEW i \in 1..Len(queue), i # k
        PROVE  \E j \in 1..Len(EraseAt(queue, k)) : EraseAt(queue, k)[j] = queue[i]
    <2>1. CASE i < k
      <3>1. i \in 1..Len(EraseAt(queue, k)) /\ EraseAt(queue, k)[i] = queue[i]
        BY <1>1, <1>2, <2>1
      <3>. QED
        BY <3>1
    <2>2. CASE i > k
      <3>1. i - 1 \in 1..Len(EraseAt(queue, k)) /\ EraseAt(queue, k)[i - 1] = queue[i]
        BY <1>1, <1>2, <2>2
      <3>. QED
        BY <3>1
    <2>. QED
      BY <1>1, <1>3, <2>1, <2>2
  <1>. QED
    BY <1>1, <1>2, <1>3

\* The step that removes the order id at position k of one queue and closes it.
Removal(s, p, k, id) ==
    /\ p \in DOMAIN levels[s] /\ k \in 1..Len(Queue(s, p)) /\ id = Queue(s, p)[k]
    /\ DOMAIN orders' = DOMAIN orders /\ orders'[id].is_cancelled
    /\ \A x \in DOMAIN orders \ {id} : orders'[x] = orders[x]
    /\ arrivals' = arrivals
    /\ DOMAIN levels' = Side
    /\ \A t \in Side \ {s} : levels'[t] = levels[t]
    /\ \A q \in DOMAIN levels[s] \ {p} : levels'[s][q].orders = levels[s][q].orders
    /\ \/ /\ Len(Queue(s, p)) = 1
          /\ DOMAIN levels'[s] = DOMAIN levels[s] \ {p}
       \/ /\ Len(Queue(s, p)) # 1
          /\ DOMAIN levels'[s] = DOMAIN levels[s]
          /\ levels'[s][p].orders = EraseAt(Queue(s, p), k)

\* Taking a dead order out of its queue restores the agreement of table and ladders.
LEMMA RemovalKeepsBook ==
    ASSUME IInv, NEW s \in Side, NEW p, NEW k, NEW id, Removal(s, p, k, id)
    PROVE  /\ QueuesHoldLiveOrders'
           /\ LiveOrdersAreQueued'
           /\ ArrivalsListOrders'
           /\ QueuesInArrivalOrder'
           /\ LaddersSearchable'
  <1>. DEFINE queue == levels[s][p].orders
              after == EraseAt(queue, k)
              from(j) == IF j < k THEN j ELSE j + 1
  <1>. USE DEF Removal
  <1>1. /\ queue \in Seq(OrderId) /\ Len(queue) \in Nat /\ k \in 1..Len(queue) /\ id = queue[k]
        /\ Queue(s, p) = queue /\ p \in DOMAIN levels[s]
    BY DEF IInv, TypeOK, PriceLevel, Queue
  <1>2. \A t \in Side : \A q \in DOMAIN levels[t] :
          /\ levels[t][q].orders # <<>>
          /\ \A i \in 1..Len(levels[t][q].orders) :
               LET x == levels[t][q].orders[i]
               IN  /\ x \in DOMAIN orders /\ ~orders[x].is_cancelled
                   /\ orders[x].side = t /\ orders[x].price = q /\ orders[x].remaining > 0
                   /\ \A j \in 1..Len(levels[t][q].orders) : levels[t][q].orders[j] = x => j = i
    BY DEF IInv, IndexConsistent, QueuesHoldLiveOrders, Queue, Live, has_order
  <1>3. \A i, j \in 1..Len(queue) : queue[i] = queue[j] => i = j
    BY <1>2
  <1>4. /\ after \in Seq(OrderId)
        /\ Len(after) = Len(queue) - 1
        /\ \A i \in 1..Len(queue) : i # k => \E j \in 1..Len(after) : after[j] = queue[i]
        /\ \A j \in 1..Len(after) : after[j] = queue[from(j)]
    BY <1>1, <1>3, EraseAtEffect
  <1>. HIDE DEF after
  <1>5. ASSUME NEW j \in 1..Len(after)
        PROVE  /\ from(j) \in 1..Len(queue)
               /\ from(j) # k
               /\ \A i \in 1..Len(after) : /\ j < i => from(j) < from(i)
                                           /\ from(j) = from(i) => i = j
    <2>1. j \in Nat /\ k \in Nat /\ j >= 1 /\ j <= Len(queue) - 1
      BY <1>1, <1>4
    <2>2. from(j) \in 1..Len(queue) /\ from(j) # k
      BY <1>1, <2>1
    <2>3. \A i \in Nat : (j < i => from(j) < from(i)) /\ (from(j) = from(i) => i = j)
      BY <2>1
    <2>4. 1..Len(after) \subseteq Nat
      OBVIOUS
    <2>. QED
      BY <2>2, <2>3, <2>4
  <1>. HIDE DEF from
  \* Every queue that remains is either untouched or the shortened one.
  <1>6. ASSUME NEW t \in Side, NEW q \in DOMAIN levels'[t]
        PROVE  /\ q \in DOMAIN levels[t]
               /\ \/ t = s /\ q = p /\ levels'[t][q].orders = after /\ Len(after) > 0
                  \/ /\ ~(t = s /\ q = p)
                     /\ levels'[t][q].orders = levels[t][q].orders
    <2>1. CASE t = s
      <3>1. CASE q = p
        <4>1. Len(queue) # 1 /\ levels'[s][p].orders = after /\ p \in DOMAIN levels[s]
          BY <1>1, <2>1, <3>1 DEF after
        <4>2. \A n \in Nat : n >= 1 /\ n # 1 => n - 1 > 0
          OBVIOUS
        <4>3. Len(queue) \in Nat /\ Len(queue) >= 1 /\ Len(queue) # 1
          BY <1>1, <4>1
        <4>4. Len(queue) - 1 > 0
          BY <4>2, <4>3
        <4>5. Len(after) > 0
          BY <1>4, <4>4
        <4>. QED
          BY <2>1, <3>1, <4>1, <4>5
      <3>2. CASE q # p
        BY <2>1, <3>2
      <3>. QED
        BY <3>1, <3>2
    <2>2. CASE t # s
      BY <2>2
    <2>. QED
      BY <2>1, <2>2
  <1>7. \A t \in Side : \A q \in DOMAIN levels[t] : ~(t = s /\ q = p) =>
          /\ q \in DOMAIN levels'[t]
          /\ levels'[t][q].orders = levels[t][q].orders
          /\ \A i \in 1..Len(levels[t][q].orders) : levels[t][q].orders[i] # id
    <2>1. \A t \in Side : \A q \in DOMAIN levels[t] : ~(t = s /\ q = p) =>
            \A i \in 1..Len(levels[t][q].orders) : levels[t][q].orders[i] # id
      BY <1>1, <1>2
    <2>2. \A t \in Side : \A q \in DOMAIN levels[t] : ~(t = s /\ q = p) =>
            q \in DOMAIN levels'[t] /\ levels'[t][q].orders = levels[t][q].orders
      OBVIOUS
    <2>. QED
      BY <2>1, <2>2
  <1>8. QueuesHoldLiveOrders'
    <2>. SUFFICES ASSUME NEW t \in Side, NEW q \in DOMAIN levels'[t]
                  PROVE  /\ levels'[t][q].orders # <<>>
                         /\ \A i \in 1..Len(levels'[t][q].orders) :
                              LET x == levels'[t][q].orders[i]
                              IN  /\ x \in DOMAIN orders' /\ ~orders'[x].is_cancelled
                                  /\ orders'[x].side = t /\ orders'[x].price = q
                                  /\ orders'[x].remaining > 0
                                  /\ \A j \in 1..Len(levels'[t][q].orders) :
                                        levels'[t][q].orders[j] = x => j = i
      BY DEF QueuesHoldLiveOrders, Queue, Live, has_order
    <2>1. CASE t = s /\ q = p
      <3>1. levels'[t][q].orders = after /\ after # <<>>
        BY <1>4, <1>6, <2>1
      <3>2. ASSUME NEW i \in 1..Len(after)
            PROVE  /\ after[i] \in DOMAIN orders' /\ ~orders'[after[i]].is_cancelled
                   /\ orders'[after[i]].side = t /\ orders'[after[i]].price = q
                   /\ orders'[after[i]].remaining > 0
                   /\ \A j \in 1..Len(after) : after[j] = after[i] => j = i
        <4>1. after[i] = queue[from(i)] /\ from(i) \in 1..Len(queue) /\ after[i] # id
          <5>1. after[i] = queue[from(i)]
            BY <1>4
          <5>2. from(i) \in 1..Len(queue) /\ from(i) # k
            BY <1>5
          <5>. QED
            BY <1>1, <1>3, <5>1, <5>2
        <4>2. orders'[after[i]] = orders[after[i]] /\ after[i] \in DOMAIN orders
          BY <1>2, <4>1
        <4>3. \A j \in 1..Len(after) : after[j] = after[i] => j = i
          <5>. SUFFICES ASSUME NEW j \in 1..Len(after), after[j] = after[i] PROVE j = i
            OBVIOUS
          <5>1. after[j] = queue[from(j)] /\ from(j) \in 1..Len(queue)
            BY <1>4, <1>5
          <5>2. from(i) = from(j)
            BY <1>3, <4>1, <5>1
          <5>. QED
            BY <1>5, <5>2
        <4>. QED
          BY <1>2, <2>1, <4>1, <4>2, <4>3
      <3>. QED
        BY <3>1, <3>2
    <2>2. CASE ~(t = s /\ q = p)
      <3>1. q \in DOMAIN levels[t] /\ levels'[t][q].orders = levels[t][q].orders
        BY <1>6, <2>2
      <3>2. \A i \in 1..Len(levels[t][q].orders) : levels[t][q].orders[i] # id
        BY <1>7, <2>2, <3>1
      <3>. QED
        BY <1>2, <3>1, <3>2
    <2>. QED
      BY <2>1, <2>2
  <1>9. LiveOrdersAreQueued'
    <2>. SUFFICES ASSUME NEW x \in DOMAIN orders, x # id, ~orders[x].is_cancelled
                  PROVE  /\ orders[x].price \in DOMAIN levels'[orders[x].side]
                         /\ \E i \in 1..Len(levels'[orders[x].side][orders[x].price].orders) :
                              levels'[orders[x].side][orders[x].price].orders[i] = x
      BY DEF LiveOrdersAreQueued, Queue, Live, has_order
    <2>. DEFINE t == orders[x].side
                q == orders[x].price
    <2>1. t \in Side /\ q \in DOMAIN levels[t]
      BY DEF IInv, IndexConsistent, LiveOrdersAreQueued, TypeOK, Order, Live, has_order
    <2>2. PICK i \in 1..Len(levels[t][q].orders) : levels[t][q].orders[i] = x
      BY DEF IInv, IndexConsistent, LiveOrdersAreQueued, Live, has_order, Queue
    <2>. HIDE DEF t, q
    <2>3. CASE t = s /\ q = p
      <3>1. i # k /\ i \in 1..Len(queue) /\ queue[i] = x
        BY <1>1, <2>2, <2>3
      <3>2. \E j \in 1..Len(after) : after[j] = x
        BY <1>4, <3>1
      <3>3. Len(queue) # 1
        BY <1>1, <3>1
      <3>. QED
        BY <1>1, <2>3, <3>2, <3>3 DEF after, Queue, t, q
    <2>4. CASE ~(t = s /\ q = p)
      <3>1. q \in DOMAIN levels'[t] /\ levels'[t][q].orders = levels[t][q].orders
        BY <1>7, <2>1, <2>4
      <3>. QED
        BY <2>2, <3>1 DEF t, q
    <2>. QED
      BY <2>3, <2>4
  <1>10. ArrivalsListOrders' /\ \A x : Arrived(x)' = Arrived(x)
    BY DEF IInv, ArrivalsListOrders, has_order, Arrived
  <1>11. QueuesInArrivalOrder'
    <2>. SUFFICES ASSUME NEW t \in Side, NEW q \in DOMAIN levels'[t],
                         NEW i \in 1..Len(levels'[t][q].orders),
                         NEW j \in 1..Len(levels'[t][q].orders), i < j
                  PROVE  Arrived(levels'[t][q].orders[i]) < Arrived(levels'[t][q].orders[j])
      BY <1>10 DEF QueuesInArrivalOrder, Queue
    <2>1. \A u \in Side : \A r \in DOMAIN levels[u] : \A m, n \in 1..Len(levels[u][r].orders) :
            m < n => Arrived(levels[u][r].orders[m]) < Arrived(levels[u][r].orders[n])
      BY DEF IInv, QueuesInArrivalOrder, Queue
    <2>2. CASE t = s /\ q = p
      <3>1. levels'[t][q].orders = after
        BY <1>6, <2>2
      <3>. QED
        <4>1. /\ after[i] = queue[from(i)] /\ from(i) \in 1..Len(queue)
              /\ after[j] = queue[from(j)] /\ from(j) \in 1..Len(queue)
              /\ from(i) < from(j)
          BY <1>4, <1>5, <3>1
        <4>. QED
          BY <2>1, <3>1, <4>1
    <2>3. CASE ~(t = s /\ q = p)
      BY <1>6, <2>1, <2>3
    <2>. QED
      BY <2>2, <2>3
  <1>12. LaddersSearchable'
    <2>1. \A t \in Side : DOMAIN levels'[t] \subseteq DOMAIN levels[t]
      BY <1>6
    <2>. QED
      BY <2>1, SearchableSubset DEF IInv, LaddersSearchable
  <1>. QED
    BY <1>8, <1>9, <1>10, <1>11, <1>12

Distinct(queue) == \A i, j \in 1..Len(queue) : queue[i] = queue[j] => i = j

\* after is the ladder without the order at position k of its level p.
Shortened(ladder, after, p, k, remaining) ==
    /\ DOMAIN after \subseteq DOMAIN ladder
    /\ after \in [DOMAIN after -> PriceLevel]
    /\ \A q \in DOMAIN ladder \ {p} : q \in DOMAIN after /\ after[q] = ladder[q]
    /\ \/ /\ Len(ladder[p].orders) = 1
          /\ DOMAIN after = DOMAIN ladder \ {p}
       \/ /\ Len(ladder[p].orders) # 1
          /\ DOMAIN after = DOMAIN ladder
          /\ after[p].orders = EraseAt(ladder[p].orders, k)
          /\ after[p].total_quantity = ladder[p].total_quantity - remaining

\* remove_order_from_level removes a queued order, and its level when it was the last.
LEMMA RemoveEffect ==
    ASSUME NEW ladder, ladder \in [DOMAIN ladder -> PriceLevel], NEW p \in DOMAIN ladder,
           NEW k \in 1..Len(ladder[p].orders), Distinct(ladder[p].orders),
           NEW remaining \in Nat
    PROVE  Shortened(ladder, remove_order_from_level(ladder, ladder[p].orders[k], p, remaining),
                     p, k, remaining)
  <1>. DEFINE level == ladder[p]
              rest == [total_quantity |-> level.total_quantity - remaining,
                       orders |-> EraseAt(level.orders, k)]
              id == ladder[p].orders[k]
              after == remove_order_from_level(ladder, id, p, remaining)
  <1>1. /\ level.total_quantity \in Int /\ level.orders \in Seq(OrderId)
        /\ Len(level.orders) \in Nat
    BY DEF PriceLevel
  <1>2. Find(level.orders, id) = k
    <2>1. DOMAIN level.orders = 1..Len(level.orders)
      BY <1>1
    <2>2. /\ k \in DOMAIN level.orders /\ level.orders[k] = id
          /\ \A j \in 1..(k - 1) : level.orders[j] # id
      BY <1>1, <2>1 DEF Distinct
    <2>3. \A i \in DOMAIN level.orders : level.orders[i] = id => i = k
      BY <2>1 DEF Distinct
    <2>. HIDE DEF level
    <2>. QED
      BY <2>2, <2>3 DEF Find
  <1>3. after = IF rest.orders = <<>> THEN Erase(ladder, p) ELSE Put(ladder, p, rest)
    <2>1. \E i \in DOMAIN level.orders : level.orders[i] = id
      BY <1>1
    <2>. QED
      BY <1>2, <2>1 DEF remove_order_from_level
  <1>4. EraseAt(level.orders, k) \in Seq(OrderId)
        /\ Len(EraseAt(level.orders, k)) = Len(level.orders) - 1
    BY <1>1, EraseAtType
  <1>5. rest \in PriceLevel
    BY <1>1, <1>4 DEF PriceLevel
  <1>6. /\ rest.orders = EraseAt(level.orders, k)
        /\ rest.total_quantity = level.total_quantity - remaining
    OBVIOUS
  <1>. HIDE DEF rest, after
  <1>7. CASE rest.orders = <<>>
    <2>1. Len(level.orders) = 1
      BY <1>1, <1>4, <1>6, <1>7
    <2>2. after = Erase(ladder, p)
      BY <1>3, <1>7
    <2>. QED
      BY <2>1, <2>2 DEF Erase, after, Shortened
  <1>8. CASE rest.orders # <<>>
    <2>1. Len(level.orders) # 1
      BY <1>1, <1>4, <1>6, <1>8
    <2>2. after = Put(ladder, p, rest)
      BY <1>3, <1>8
    <2>3. /\ DOMAIN after = DOMAIN ladder
          /\ after[p] = rest
          /\ \A q \in DOMAIN ladder \ {p} : after[q] = ladder[q]
          /\ after \in [DOMAIN ladder -> PriceLevel]
      BY <1>5, <2>2 DEF Put
    <2>. QED
      BY <1>6, <2>1, <2>3 DEF after, Shortened
  <1>. QED
    BY <1>7, <1>8

\* Cancelling a live order keeps the inductive invariant.
LEMMA CancelKeepsInvariant ==
    ASSUME IInv, NEW id \in OrderId, ~call.running, Live(id), Cancel(id)
    PROVE  IInv'
  <1>. DEFINE s == orders[id].side
              p == orders[id].price
              queue == levels[s][p].orders
              after == remove_order_from_level(levels[s], id, p, orders[id].remaining)
  <1>1. /\ id \in DOMAIN orders /\ orders[id] \in Order
        /\ s \in Side /\ p \in Price /\ orders[id].remaining \in Nat
    BY DEF Live, has_order, IInv, TypeOK, Order
  <1>2. p \in DOMAIN levels[s] /\ \E k \in 1..Len(queue) : queue[k] = id
    BY <1>1 DEF IInv, IndexConsistent, LiveOrdersAreQueued, Queue
  <1>3. PICK k \in 1..Len(queue) : queue[k] = id
    BY <1>2
  <1>4. levels[s] \in [DOMAIN levels[s] -> PriceLevel] /\ DOMAIN levels = Side
    BY <1>1 DEF IInv, TypeOK
  <1>5. Distinct(queue)
    BY <1>1, <1>2 DEF IInv, IndexConsistent, QueuesHoldLiveOrders, Queue, Distinct
  <1>6. /\ orders' = [orders EXCEPT ![id].is_cancelled = TRUE]
        /\ levels' = [levels EXCEPT ![s] = after]
        /\ arrivals' = arrivals /\ answer' = NoAnswer
        /\ call' = call /\ fills' = fills
    BY DEF Cancel
  <1>. HIDE DEF s, p
  <1>7. /\ DOMAIN after \subseteq DOMAIN levels[s]
        /\ after \in [DOMAIN after -> PriceLevel]
        /\ \A q \in DOMAIN levels[s] \ {p} : q \in DOMAIN after /\ after[q] = levels[s][q]
        /\ \/ Len(queue) = 1 /\ DOMAIN after = DOMAIN levels[s] \ {p}
           \/ /\ Len(queue) # 1 /\ DOMAIN after = DOMAIN levels[s]
              /\ after[p].orders = EraseAt(queue, k)
    <2>1. Shortened(levels[s], remove_order_from_level(levels[s], levels[s][p].orders[k], p,
                                                       orders[id].remaining),
                    p, k, orders[id].remaining)
      BY <1>1, <1>2, <1>4, <1>5, RemoveEffect
    <2>2. Shortened(levels[s], after, p, k, orders[id].remaining)
      BY <1>3, <2>1
    <2>. QED
      BY <2>2 DEF Shortened
  <1>. HIDE DEF after
  <1>8. /\ DOMAIN orders' = DOMAIN orders
        /\ orders'[id] = [orders[id] EXCEPT !.is_cancelled = TRUE]
        /\ \A x \in DOMAIN orders \ {id} : orders'[x] = orders[x]
    BY <1>1, <1>6
  <1>9. /\ DOMAIN levels' = Side
        /\ levels'[s] = after
        /\ \A t \in Side \ {s} : levels'[t] = levels[t]
    BY <1>1, <1>4, <1>6
  <1>10. TypeOK'
    <2>1. /\ orders'[id] \in Order /\ orders'[id].is_cancelled
          /\ orders'[id].remaining <= orders'[id].quantity
      BY <1>1, <1>8 DEF Order, IInv, TypeOK
    <2>2. /\ DOMAIN orders' \subseteq OrderId
          /\ orders' \in [DOMAIN orders' -> Order]
          /\ \A x \in DOMAIN orders' : orders'[x].remaining <= orders'[x].quantity
      BY <1>6, <1>8, <2>1 DEF IInv, TypeOK
    <2>3. \A t \in Side : /\ DOMAIN levels'[t] \subseteq Price
                         /\ levels'[t] \in [DOMAIN levels'[t] -> PriceLevel]
      BY <1>1, <1>7, <1>9 DEF IInv, TypeOK
    <2>4. answer' \in [side : Side, quantity : Nat, fills : Seq(Fill)]
      BY <1>6 DEF NoAnswer, Side
    <2>. QED
      BY <1>6, <1>9, <2>2, <2>3, <2>4 DEF IInv, TypeOK
  <1>11. /\ QueuesHoldLiveOrders' /\ LiveOrdersAreQueued'
         /\ ArrivalsListOrders' /\ QueuesInArrivalOrder' /\ LaddersSearchable'
    <2>1. orders'[id].is_cancelled
      BY <1>1, <1>8 DEF Order
    <2>2. \A q \in DOMAIN levels[s] \ {p} : levels'[s][q].orders = levels[s][q].orders
      BY <1>7, <1>9
    <2>3. \/ Len(Queue(s, p)) = 1 /\ DOMAIN levels'[s] = DOMAIN levels[s] \ {p}
          \/ /\ Len(Queue(s, p)) # 1 /\ DOMAIN levels'[s] = DOMAIN levels[s]
             /\ levels'[s][p].orders = EraseAt(Queue(s, p), k)
      BY <1>7, <1>9 DEF Queue
    <2>4. k \in 1..Len(Queue(s, p)) /\ id = Queue(s, p)[k]
      BY <1>3 DEF Queue
    <2>5. arrivals' = arrivals
      BY <1>6
    <2>6. Removal(s, p, k, id)
      BY <1>2, <1>8, <1>9, <2>1, <2>2, <2>3, <2>4, <2>5 DEF Removal
    <2>. QED
      BY <1>1, <2>6, RemovalKeepsBook
  <1>12. IteratorAtBest'
    BY <1>6 DEF IteratorAtBest
  <1>. QED
    BY <1>10, <1>11, <1>12 DEF IInv, IndexConsistent

-----------------------------------------------------------------------------
(* Matching.                                                               *)

\* Where the loop is: at the front order of the best level, which is live.
LEMMA FrontOfBest ==
    ASSUME IInv, call.running, call.it # END, call.remaining > 0
    PROVE  /\ call.side \in Side /\ call.it \in DOMAIN levels[call.side] /\ call.it \in Price
           /\ call.it = First(call.side, DOMAIN levels[call.side])
           /\ \A q \in DOMAIN levels[call.side] \ {call.it} : Better(call.side, call.it, q)
           /\ levels[call.side][call.it] \in PriceLevel
           /\ Queue(call.side, call.it) \in Seq(OrderId) /\ Queue(call.side, call.it) # <<>>
           /\ LET id == Head(Queue(call.side, call.it))
              IN  /\ id = Queue(call.side, call.it)[1]
                  /\ Live(id) /\ id \in DOMAIN orders /\ orders[id] \in Order
                  /\ orders[id].side = call.side /\ orders[id].price = call.it
                  /\ orders[id].remaining > 0
  <1>. DEFINE s == call.side
              p == call.it
  <1>1. s \in Side /\ p = First(s, DOMAIN levels[s])
    BY DEF IInv, TypeOK, IteratorAtBest
  <1>2. DOMAIN levels[s] \in SUBSET (Nat \ {0}) /\ Searchable(s, DOMAIN levels[s])
    BY <1>1, PriceAssumption DEF IInv, TypeOK, LaddersSearchable
  <1>3. p \in DOMAIN levels[s] /\ \A q \in DOMAIN levels[s] \ {p} : Better(s, p, q)
    BY <1>1, <1>2, FirstIsBest
  <1>4. levels[s][p] \in PriceLevel /\ p \in Price
    BY <1>1, <1>3 DEF IInv, TypeOK
  <1>5. Queue(s, p) \in Seq(OrderId) /\ Queue(s, p) # <<>>
    BY <1>1, <1>3, <1>4 DEF Queue, PriceLevel, IInv, IndexConsistent, QueuesHoldLiveOrders
  <1>6. 1 \in 1..Len(Queue(s, p)) /\ Head(Queue(s, p)) = Queue(s, p)[1]
    BY <1>5
  <1>7. LET id == Queue(s, p)[1]
        IN  Live(id) /\ orders[id].side = s /\ orders[id].price = p /\ orders[id].remaining > 0
    BY <1>1, <1>3, <1>6 DEF IInv, IndexConsistent, QueuesHoldLiveOrders
  <1>8. Queue(s, p)[1] \in DOMAIN orders /\ orders[Queue(s, p)[1]] \in Order
    BY <1>7 DEF Live, has_order, IInv, TypeOK
  <1>. QED
    BY <1>1, <1>3, <1>4, <1>5, <1>6, <1>7, <1>8

\* Removing the front of a queue with pop_front is erasing position 1.
LEMMA TailErases ==
    ASSUME NEW T, NEW queue \in Seq(T), queue # <<>>
    PROVE  /\ Tail(queue) = EraseAt(queue, 1)
           /\ Tail(queue) \in Seq(T)
           /\ Tail(queue) = <<>> <=> Len(queue) = 1
  <1>1. Len(queue) \in Nat /\ Len(queue) >= 1
    OBVIOUS
  <1>2. Tail(queue) \in Seq(T) /\ Len(Tail(queue)) = Len(queue) - 1
    OBVIOUS
  <1>3. \A i \in 1..(Len(queue) - 1) : Tail(queue)[i] = queue[i + 1]
    OBVIOUS
  <1>4. EraseAt(queue, 1) \in Seq(T) /\ Len(EraseAt(queue, 1)) = Len(queue) - 1
        /\ \A i \in 1..(Len(queue) - 1) : EraseAt(queue, 1)[i] = queue[i + 1]
    BY <1>1, EraseAtType
  <1>5. Tail(queue) = EraseAt(queue, 1)
    BY <1>2, <1>3, <1>4
  <1>6. Tail(queue) = <<>> <=> Len(queue) = 1
    <2>1. Tail(queue) = <<>> <=> Len(Tail(queue)) = 0
      BY <1>2
    <2>2. Len(queue) - 1 = 0 <=> Len(queue) = 1
      BY <1>1
    <2>. QED
      BY <1>2, <2>1, <2>2
  <1>. QED
    BY <1>2, <1>5, <1>6

\* An iteration of the match loop keeps the inductive invariant.
LEMMA IterationKeepsInvariant ==
    ASSUME IInv, match_iteration
    PROVE  IInv'
  <1>. DEFINE s == call.side
              p == call.it
              level == levels[s][p]
              id == Head(level.orders)
              order == orders[id]
              qty == fill_qty(order)
              pop == popped(order)
              queue == IF pop THEN Tail(level.orders) ELSE level.orders
              left == call.remaining - qty
  <1>1. /\ s \in Side /\ p \in DOMAIN levels[s] /\ p \in Price
        /\ p = First(s, DOMAIN levels[s])
        /\ level \in PriceLevel
        /\ level.orders \in Seq(OrderId) /\ level.orders # <<>> /\ id = level.orders[1]
        /\ id \in DOMAIN orders /\ order \in Order /\ ~order.is_cancelled
        /\ order.side = s /\ order.price = p /\ order.remaining > 0
    BY FrontOfBest DEF match_iteration, Queue, Live
  <1>2. /\ order.remaining \in Nat /\ order.is_cancelled \in BOOLEAN
        /\ call.remaining \in Nat /\ call.remaining > 0 /\ id \in OrderId
        /\ call \in [running : BOOLEAN, side : Side, quantity : Nat, remaining : Nat,
                     it : Price \cup {END}]
    BY <1>1 DEF Order, IInv, TypeOK, match_iteration
  <1>3. /\ qty \in Nat /\ qty > 0 /\ qty <= order.remaining /\ qty <= call.remaining
        /\ qty = order.remaining \/ qty = call.remaining
    BY <1>1, <1>2 DEF fill_qty
  <1>4. pop \in BOOLEAN /\ (pop <=> order.remaining = qty)
    BY <1>1 DEF popped
  <1>5. /\ orders' = [orders EXCEPT ![id].remaining = @ - qty, ![id].is_cancelled = pop]
        /\ levels' = [levels EXCEPT ![s] =
                        IF queue = <<>> THEN Erase(@, p)
                        ELSE Put(@, p, [total_quantity |-> level.total_quantity - qty,
                                        orders |-> queue])]
        /\ fills' = Append(fills, [order_id |-> id, price |-> p, quantity |-> qty])
        /\ call' = [call EXCEPT !.remaining = left,
                                !.it = IF queue = <<>> \/ call.remaining = qty
                                       THEN NextPrice(s, levels[s], @) ELSE @]
        /\ answer' = answer /\ arrivals' = arrivals
    BY <1>1 DEF match_iteration
  <1>. DEFINE entry == [total_quantity |-> level.total_quantity - qty, orders |-> queue]
              after == IF queue = <<>> THEN Erase(levels[s], p) ELSE Put(levels[s], p, entry)
  <1>6. /\ DOMAIN levels = Side /\ levels[s] \in [DOMAIN levels[s] -> PriceLevel]
        /\ DOMAIN levels[s] \subseteq Price
    BY <1>1 DEF IInv, TypeOK
  <1>7. /\ DOMAIN levels' = Side
        /\ levels'[s] = after
        /\ \A t \in Side \ {s} : levels'[t] = levels[t]
    BY <1>1, <1>5, <1>6
  <1>8. /\ queue \in Seq(OrderId)
        /\ pop => /\ queue = EraseAt(level.orders, 1)
                  /\ queue = <<>> <=> Len(level.orders) = 1
        /\ ~pop => queue = level.orders /\ queue # <<>>
    BY <1>1, TailErases
  <1>9. entry \in PriceLevel /\ entry.orders = queue
    <2>1. level.total_quantity - qty \in Int
      BY <1>1, <1>3 DEF PriceLevel
    <2>. HIDE DEF level, queue, qty
    <2>. QED
      BY <1>8, <2>1 DEF PriceLevel
  <1>10. orders' = [orders EXCEPT ![id] = [order EXCEPT !.remaining = order.remaining - qty,
                                                       !.is_cancelled = pop]]
    BY <1>1, <1>2, <1>4, <1>5 DEF IInv, TypeOK, Order
  <1>. HIDE DEF s, p, level, id, order, qty, pop, queue, entry
  <1>11. /\ DOMAIN orders' = DOMAIN orders
         /\ \A x \in DOMAIN orders \ {id} : orders'[x] = orders[x]
         /\ orders'[id] \in Order
         /\ orders'[id].remaining = order.remaining - qty
         /\ orders'[id].is_cancelled = pop
         /\ orders'[id].side = order.side /\ orders'[id].price = order.price
         /\ orders'[id].quantity = order.quantity
    <2>1. orders'[id] = [order EXCEPT !.remaining = order.remaining - qty, !.is_cancelled = pop]
      BY <1>1, <1>10
    <2>2. order.side \in Side /\ order.price \in Price /\ order.quantity \in Quantity
          /\ order.remaining - qty \in Nat
      BY <1>1, <1>2, <1>3 DEF Order
    <2>. QED
      BY <1>1, <1>4, <1>10, <2>1, <2>2 DEF Order
  <1>12. /\ DOMAIN after = IF queue = <<>> THEN DOMAIN levels[s] \ {p} ELSE DOMAIN levels[s]
         /\ after \in [DOMAIN after -> PriceLevel]
         /\ queue # <<>> => after[p].orders = queue
         /\ \A q \in DOMAIN levels[s] \ {p} : after[q] = levels[s][q]
    BY <1>1, <1>6, <1>9 DEF Erase, Put
  <1>. HIDE DEF after
  <1>13. TypeOK'
    <2>1. /\ DOMAIN orders' \subseteq OrderId
          /\ orders' \in [DOMAIN orders' -> Order]
      BY <1>10, <1>11 DEF IInv, TypeOK
    <2>2. \A x \in DOMAIN orders' : orders'[x].remaining <= orders'[x].quantity
      <3>1. order.remaining <= order.quantity /\ order.quantity \in Nat
        BY <1>1, QuantityAssumption DEF IInv, TypeOK, order, Order
      <3>2. orders'[id].remaining <= orders'[id].quantity
        BY <1>2, <1>3, <1>11, <3>1
      <3>. QED
        BY <1>11, <3>2 DEF IInv, TypeOK
    <2>3. \A t \in Side : /\ DOMAIN levels'[t] \subseteq Price
                         /\ levels'[t] \in [DOMAIN levels'[t] -> PriceLevel]
      BY <1>6, <1>7, <1>12 DEF IInv, TypeOK
    <2>4. NextPrice(s, levels[s], p) \in Price \cup {END}
      <3>. DEFINE rest == {q \in DOMAIN levels[s] : Better(s, p, q)}
      <3>1. rest \in SUBSET (Nat \ {0}) /\ rest \subseteq Price
        BY <1>6, PriceAssumption
      <3>2. Searchable(s, rest)
        BY <1>1, SearchableSubset DEF IInv, LaddersSearchable
      <3>. HIDE DEF rest
      <3>3. First(s, rest) \in Price \cup {END}
        BY <1>1, <3>1, <3>2, FirstIsBest
      <3>. QED
        BY <3>3 DEF NextPrice, rest
    <2>5. call' \in [running : BOOLEAN, side : Side, quantity : Nat, remaining : Nat,
                    it : Price \cup {END}]
      <3>1. left \in Nat
        BY <1>2, <1>3
      <3>2. (IF queue = <<>> \/ call.remaining = qty THEN NextPrice(s, levels[s], call.it)
             ELSE call.it) \in Price \cup {END}
        BY <1>2, <2>4 DEF p
      <3>. HIDE DEF left
      <3>. QED
        BY <1>2, <1>5, <3>1, <3>2
    <2>6. fills' \in Seq(Fill)
      <3>1. [order_id |-> id, price |-> p, quantity |-> qty] \in Fill
        BY <1>1, <1>2, <1>3 DEF Fill
      <3>. QED
        BY <1>5, <3>1 DEF IInv, TypeOK
    <2>. QED
      BY <1>5, <1>7, <2>1, <2>2, <2>3, <2>5, <2>6 DEF IInv, TypeOK
  <1>14. /\ QueuesHoldLiveOrders' /\ LiveOrdersAreQueued'
         /\ ArrivalsListOrders' /\ QueuesInArrivalOrder' /\ LaddersSearchable'
    <2>1. CASE pop
      <3>1. Removal(s, p, 1, id)
        <4>1. 1 \in 1..Len(level.orders)
          BY <1>1
        <4>2. Queue(s, p) = level.orders
          BY DEF Queue, level
        <4>. QED
          BY <1>1, <1>5, <1>7, <1>8, <1>11, <1>12, <2>1, <4>1, <4>2 DEF Removal
      <3>. QED
        BY <1>1, <3>1, RemovalKeepsBook
    <2>2. CASE ~pop
      <3>1. /\ \A t \in Side : DOMAIN levels'[t] = DOMAIN levels[t]
            /\ \A t \in Side : \A q \in DOMAIN levels[t] : Queue(t, q)' = Queue(t, q)
        BY <1>7, <1>8, <1>12, <2>2 DEF Queue, level
      <3>2. /\ orders'[id].remaining > 0 /\ ~orders'[id].is_cancelled
            /\ orders'[id].side = orders[id].side /\ orders'[id].price = orders[id].price
            /\ ~orders[id].is_cancelled
        BY <1>1, <1>2, <1>3, <1>4, <1>11, <2>2 DEF order
      <3>3. QueuesHoldLiveOrders'
        BY <1>11, <3>1, <3>2
           DEF IInv, IndexConsistent, QueuesHoldLiveOrders, Live, has_order
      <3>4. LiveOrdersAreQueued'
        <4>. SUFFICES ASSUME NEW x \in DOMAIN orders, ~orders[x].is_cancelled
                      PROVE  /\ orders[x].price \in DOMAIN levels'[orders[x].side]
                             /\ \E i \in 1..Len(levels'[orders[x].side][orders[x].price].orders) :
                                  levels'[orders[x].side][orders[x].price].orders[i] = x
          BY <1>11, <3>2 DEF LiveOrdersAreQueued, Live, has_order, Queue
        <4>1. orders[x].side \in Side
          BY DEF IInv, TypeOK, Order
        <4>2. /\ orders[x].price \in DOMAIN levels[orders[x].side]
              /\ \E i \in 1..Len(levels[orders[x].side][orders[x].price].orders) :
                    levels[orders[x].side][orders[x].price].orders[i] = x
          BY DEF IInv, IndexConsistent, LiveOrdersAreQueued, Live, has_order, Queue
        <4>. QED
          BY <3>1, <4>1, <4>2 DEF Queue
      <3>5. ArrivalsListOrders' /\ \A x : Arrived(x)' = Arrived(x)
        BY <1>5, <1>11 DEF IInv, ArrivalsListOrders, has_order, Arrived
      <3>6. QueuesInArrivalOrder'
        BY <3>1, <3>5 DEF IInv, QueuesInArrivalOrder
      <3>7. LaddersSearchable'
        BY <3>1 DEF IInv, LaddersSearchable
      <3>. QED
        BY <3>3, <3>4, <3>5, <3>6, <3>7
    <2>. QED
      BY <1>4, <2>1, <2>2
  <1>15. IteratorAtBest'
    <2>. SUFFICES ASSUME left > 0
                  PROVE  call'.it = First(s, DOMAIN levels'[s])
      BY <1>2, <1>5 DEF IteratorAtBest, s
    <2>1. call.remaining # qty /\ pop
      BY <1>2, <1>3, <1>4
    <2>2. CASE queue = <<>>
      <3>1. call'.it = NextPrice(s, levels[s], p)
        BY <1>2, <1>5, <2>2 DEF p
      <3>2. DOMAIN levels[s] \subseteq Nat \ {0} /\ Searchable(s, DOMAIN levels[s])
        BY <1>1, <1>6, PriceAssumption DEF IInv, LaddersSearchable
      <3>3. NextPrice(s, levels[s], p) = First(s, DOMAIN levels[s] \ {p})
        BY <1>1, <3>2, NextOfFirst
      <3>. QED
        BY <1>7, <1>12, <2>2, <3>1, <3>3
    <2>3. CASE queue # <<>>
      <3>1. call'.it = p
        BY <1>2, <1>5, <2>1, <2>3 DEF p
      <3>. QED
        BY <1>1, <1>7, <1>12, <2>3, <3>1
    <2>. QED
      BY <2>2, <2>3
  <1>. QED
    BY <1>13, <1>14, <1>15 DEF IInv, IndexConsistent

\* A step that leaves the book alone keeps what the invariant says of the book.
LEMMA SameBook ==
    ASSUME IInv, orders' = orders, levels' = levels, arrivals' = arrivals
    PROVE  IndexConsistent' /\ ArrivalsListOrders' /\ QueuesInArrivalOrder' /\ LaddersSearchable'
  <1>1. QueuesHoldLiveOrders'
    BY DEF IInv, IndexConsistent, QueuesHoldLiveOrders, Live, has_order, Queue
  <1>2. LiveOrdersAreQueued'
    BY DEF IInv, IndexConsistent, LiveOrdersAreQueued, Live, has_order, Queue
  <1>3. ArrivalsListOrders'
    BY DEF IInv, ArrivalsListOrders, has_order
  <1>4. QueuesInArrivalOrder'
    BY DEF IInv, QueuesInArrivalOrder, Queue, Arrived
  <1>5. LaddersSearchable'
    BY DEF IInv, LaddersSearchable
  <1>. QED
    BY <1>1, <1>2, <1>3, <1>4, <1>5 DEF IndexConsistent

\* Starting a match keeps the inductive invariant.
LEMMA MatchBeginKeepsInvariant ==
    ASSUME IInv, NEW side \in Side, NEW quantity \in Quantity,
           match_market_order(side, quantity)
    PROVE  IInv'
  <1>. DEFINE s == Opposite(side)
  <1>1. /\ s \in Side /\ quantity \in Nat
        /\ call' = [running |-> TRUE, side |-> s, quantity |-> quantity,
                    remaining |-> quantity, it |-> First(s, DOMAIN levels[s])]
        /\ fills' = <<>> /\ orders' = orders /\ levels' = levels
        /\ answer' = answer /\ arrivals' = arrivals
    BY QuantityAssumption DEF match_market_order, Opposite, Side
  <1>. HIDE DEF s
  <1>2. First(s, DOMAIN levels[s]) \in Price \cup {END}
    <2>1. /\ DOMAIN levels[s] \subseteq Price /\ DOMAIN levels[s] \in SUBSET (Nat \ {0})
          /\ Searchable(s, DOMAIN levels[s])
      BY <1>1, PriceAssumption DEF IInv, TypeOK, LaddersSearchable
    <2>. QED
      BY <1>1, <2>1, FirstIsBest
  <1>3. TypeOK'
    BY <1>1, <1>2 DEF IInv, TypeOK
  <1>4. IndexConsistent' /\ ArrivalsListOrders' /\ QueuesInArrivalOrder' /\ LaddersSearchable'
    BY <1>1, SameBook
  <1>5. IteratorAtBest'
    BY <1>1 DEF IteratorAtBest
  <1>. QED
    BY <1>3, <1>4, <1>5 DEF IInv

\* Returning from a match keeps the inductive invariant.
LEMMA MatchReturnKeepsInvariant ==
    ASSUME IInv, match_return
    PROVE  IInv'
  <1>1. /\ call' = Idle /\ fills' = <<>> /\ orders' = orders /\ levels' = levels
        /\ answer' = [side |-> Opposite(call.side), quantity |-> call.quantity, fills |-> fills]
        /\ arrivals' = arrivals
    BY DEF match_return
  <1>2. TypeOK'
    <2>1. answer' \in [side : Side, quantity : Nat, fills : Seq(Fill)]
      BY <1>1 DEF IInv, TypeOK, Opposite, Side
    <2>2. call' \in [running : BOOLEAN, side : Side, quantity : Nat, remaining : Nat,
                    it : Price \cup {END}]
      BY <1>1 DEF Idle, Side
    <2>. QED
      BY <1>1, <2>1, <2>2 DEF IInv, TypeOK
  <1>3. IndexConsistent' /\ ArrivalsListOrders' /\ QueuesInArrivalOrder' /\ LaddersSearchable'
    BY <1>1, SameBook
  <1>4. IteratorAtBest'
    BY <1>1 DEF IteratorAtBest, Idle
  <1>. QED
    BY <1>2, <1>3, <1>4 DEF IInv

-----------------------------------------------------------------------------
(* Theorems.                                                               *)

\* What a step of the book can be.
LEMMA StepCases ==
    ASSUME [Next]_vars
    PROVE  \/ \E id \in OrderId, side \in Side, price \in Price, quantity \in Quantity :
                /\ ~call.running /\ ~has_order(id)
                /\ Insert(id, NewOrder(side, price, quantity))
           \/ \E id \in OrderId : ~call.running /\ Live(id) /\ Cancel(id)
           \/ \E side \in Side, quantity \in Quantity : match_market_order(side, quantity)
           \/ match_iteration
           \/ match_return
           \/ UNCHANGED vars
    BY DEF Next, add_order, insert_replicated_order, cancel_order, apply_replicated_cancel,
           Live, has_order

\* A stuttering step keeps the inductive invariant.
LEMMA StutterKeepsInvariant ==
    ASSUME IInv, UNCHANGED vars
    PROVE  IInv'
  <1>1. TypeOK'
    BY DEF vars, IInv, TypeOK
  <1>2. IndexConsistent' /\ ArrivalsListOrders' /\ QueuesInArrivalOrder' /\ LaddersSearchable'
    BY SameBook DEF vars
  <1>3. IteratorAtBest'
    BY DEF vars, IInv, IteratorAtBest
  <1>. QED
    BY <1>1, <1>2, <1>3 DEF IInv

\* Every step keeps the inductive invariant.
LEMMA StepKeepsInvariant ==
    ASSUME IInv, [Next]_vars
    PROVE  IInv'
    BY StepCases, InsertKeepsInvariant, CancelKeepsInvariant, MatchBeginKeepsInvariant,
       IterationKeepsInvariant, MatchReturnKeepsInvariant, StutterKeepsInvariant

\* The inductive invariant holds in every reachable state.
LEMMA Invariance == Spec => []IInv
  <1>1. Init => IInv
    BY InitInvariant
  <1>2. IInv /\ [Next]_vars => IInv'
    BY StepKeepsInvariant
  <1>. QED
    BY <1>1, <1>2, PTL DEF Spec

\* The type invariant of the order table, the ladders and the match loop, for
\* every interleaving of adds, cancels, replicated operations and market orders:
\* in particular no order is ever filled beyond what it has remaining.
THEOREM TypeCorrect == Spec => []TypeOK
  <1>1. IInv => TypeOK
    BY DEF IInv
  <1>. QED
    BY <1>1, Invariance, PTL

\* The order table and the level queues never disagree about which orders are
\* live, so remove_order_from_level and the match loop meet no stale Order*.
THEOREM IndexesAgree == Spec => []IndexConsistent
  <1>1. IInv => IndexConsistent
    BY DEF IInv
  <1>. QED
    BY <1>1, Invariance, PTL

\* An iteration of the match loop fills the order with priority over all others.
LEMMA IterationRespectsPriority ==
    ASSUME IInv, match_iteration
    PROVE  Trade
  <1>. DEFINE s == call.side
              p == call.it
              queue == Queue(s, p)
              hit == queue[1]
  <1>1. /\ s \in Side /\ p \in DOMAIN levels[s] /\ p \in Price
        /\ \A q \in DOMAIN levels[s] \ {p} : Better(s, p, q)
        /\ queue \in Seq(OrderId) /\ queue # <<>>
        /\ Live(hit) /\ hit \in DOMAIN orders /\ orders[hit].side = s /\ orders[hit].price = p
        /\ Head(queue) = hit
    BY FrontOfBest DEF match_iteration
  <1>2. fills'[Len(fills')].order_id = hit
    <2>1. fills' = Append(fills, [order_id |-> hit, price |-> orders[hit].price,
                                  quantity |-> fill_qty(orders[hit])])
      BY <1>1 DEF match_iteration, Queue, Live
    <2>2. fills \in Seq(Fill)
      BY DEF IInv, TypeOK
    <2>. HIDE DEF hit
    <2>. QED
      BY <2>1, <2>2
  <1>3. ASSUME NEW x \in DOMAIN orders, Live(x), orders[x].side = s, HasPriority(x, hit)
        PROVE  FALSE
    <2>1. PICK i \in 1..Len(Queue(s, orders[x].price)) : Queue(s, orders[x].price)[i] = x
      BY <1>3 DEF IInv, IndexConsistent, LiveOrdersAreQueued
    <2>2. orders[x].price \in DOMAIN levels[s]
      BY <1>3 DEF IInv, IndexConsistent, LiveOrdersAreQueued
    <2>3. p \in Nat /\ orders[x].price \in Nat
      BY <1>1, <2>2, PriceAssumption DEF IInv, TypeOK
    <2>4. orders[x].price = p
      BY <1>1, <1>3, <2>2, <2>3 DEF HasPriority, Better
    <2>5. Arrived(x) < Arrived(hit)
      BY <1>1, <1>3, <2>3, <2>4 DEF HasPriority, Better
    <2>6. Arrived(x) \in Nat /\ Arrived(hit) \in Nat
      BY <1>1, ArrivedType DEF IInv
    <2>7. i # 1
      BY <2>1, <2>4, <2>5, <2>6
    <2>8. i \in 1..Len(queue) /\ queue[i] = x /\ 1 \in 1..Len(queue) /\ 1 < i
      BY <1>1, <2>1, <2>4, <2>7
    <2>9. Arrived(hit) < Arrived(x)
      BY <1>1, <2>8 DEF IInv, QueuesInArrivalOrder
    <2>. QED
      BY <2>5, <2>6, <2>9
  <1>. HIDE DEF hit
  <1>. QED
    BY <1>1, <1>2, <1>3 DEF Trade

\* Price-time priority: no fill of a market order passes over a live order of
\* the same side with a better price, or with the same price and an earlier
\* arrival, whatever was added, cancelled, replicated and partly filled before.
THEOREM PriorityRespected == Spec => FillsRespectPriority
  <1>1. IInv /\ [Next]_vars => [Len(fills') > Len(fills) => Trade]_vars
    <2>. SUFFICES ASSUME IInv, [Next]_vars, Len(fills') > Len(fills)
                  PROVE  Trade
      OBVIOUS
    <2>1. fills \in Seq(Fill) /\ Len(fills) \in Nat
      BY DEF IInv, TypeOK
    <2>2. CASE match_iteration
      BY <2>2, IterationRespectsPriority
    <2>3. fills' = fills \/ fills' = <<>> \/ match_iteration
      BY StepCases DEF Insert, Cancel, match_market_order, match_return, vars
    <2>. QED
      BY <2>1, <2>2, <2>3
  <1>. QED
    BY <1>1, Invariance, PTL DEF Spec, FillsRespectPriority

\* An order never grows and never returns once it is filled or cancelled.
THEOREM NoOrderComesBack == Spec => OrdersNeverComeBack
  <1>. DEFINE Kept == \A id \in DOMAIN orders :
                        /\ id \in DOMAIN orders'
                        /\ orders'[id].remaining <= orders[id].remaining
                        /\ ~Live(id) => orders'[id] = orders[id]
  <1>1. IInv /\ [Next]_vars => [Kept]_vars
    <2>. SUFFICES ASSUME IInv, [Next]_vars, NEW x \in DOMAIN orders
                  PROVE  /\ x \in DOMAIN orders'
                         /\ orders'[x].remaining <= orders[x].remaining
                         /\ ~Live(x) => orders'[x] = orders[x]
      OBVIOUS
    <2>1. orders[x] \in Order /\ orders[x].remaining \in Nat
      BY DEF IInv, TypeOK, Order
    <2>2. ASSUME NEW id \in OrderId, NEW order, ~has_order(id), Insert(id, order)
          PROVE  x \in DOMAIN orders' /\ orders'[x] = orders[x]
      BY <2>2 DEF Insert, Put, has_order
    <2>3. ASSUME NEW id \in OrderId, Live(id), Cancel(id)
          PROVE  /\ x \in DOMAIN orders' /\ orders'[x].remaining = orders[x].remaining
                 /\ ~Live(x) => orders'[x] = orders[x]
      BY <2>1, <2>3 DEF Cancel, Order
    <2>4. CASE match_iteration
      <3>. DEFINE id == Head(Queue(call.side, call.it))
                  qty == fill_qty(orders[id])
      <3>1. orders' = [orders EXCEPT ![id].remaining = @ - qty, ![id].is_cancelled = popped(orders[id])]
        BY <2>4 DEF match_iteration, Queue
      <3>2. Live(id) /\ id \in DOMAIN orders /\ orders[id] \in Order
            /\ call.remaining \in Nat
        BY <2>4, FrontOfBest DEF match_iteration, IInv, TypeOK
      <3>3. qty \in Nat /\ orders[id].remaining \in Nat
        BY <3>2 DEF fill_qty, Order
      <3>. HIDE DEF id, qty
      <3>4. CASE x = id
        BY <3>1, <3>2, <3>3, <3>4 DEF Order
      <3>5. CASE x # id
        BY <2>1, <3>1, <3>5
      <3>. QED
        BY <3>4, <3>5
    <2>5. CASE UNCHANGED orders
      BY <2>1, <2>5
    <2>. QED
      BY <2>1, <2>2, <2>3, <2>4, <2>5, StepCases DEF match_market_order, match_return, vars
  <1>. QED
    BY <1>1, Invariance, PTL DEF Spec, OrdersNeverComeBack

-----------------------------------------------------------------------------
(* Totals.                                                                 *)

\* The order table is as long as the list of arrivals.
LEMMA TableIsFinite ==
    ASSUME TypeOK, ArrivalsListOrders
    PROVE  IsFiniteSet(DOMAIN orders) /\ Cardinality(DOMAIN orders) = Len(arrivals)
  <1>1. Len(arrivals) \in Nat /\ arrivals \in [1..Len(arrivals) -> DOMAIN orders]
    <2>1. arrivals \in Seq(OrderId)
      BY DEF TypeOK
    <2>2. \A i \in 1..Len(arrivals) : arrivals[i] \in DOMAIN orders
      BY DEF ArrivalsListOrders, has_order
    <2>. QED
      BY <2>1, <2>2
  <1>2. /\ \A i, j \in 1..Len(arrivals) : arrivals[i] = arrivals[j] => i = j
        /\ \A id \in DOMAIN orders : \E i \in 1..Len(arrivals) : arrivals[i] = id
    BY DEF ArrivalsListOrders
  <1>. QED
    BY <1>1, <1>2, ListedSet

\* What a queue holds, as a set.
LEMMA AppendRange ==
    ASSUME NEW T, NEW queue \in Seq(T), NEW x
    PROVE  Range(Append(queue, x)) = Range(queue) \cup {x}
  <1>. DEFINE longer == Append(queue, x)
  <1>1. /\ DOMAIN queue = 1..Len(queue) /\ Len(queue) \in Nat
        /\ DOMAIN longer = 1..(Len(queue) + 1)
        /\ longer[Len(queue) + 1] = x
        /\ \A i \in 1..Len(queue) : longer[i] = queue[i]
    OBVIOUS
  <1>. HIDE DEF longer
  <1>2. \A i \in 1..(Len(queue) + 1) : i \in 1..Len(queue) \/ i = Len(queue) + 1
    BY <1>1
  <1>3. \A i \in 1..Len(queue) : i \in 1..(Len(queue) + 1)
    BY <1>1
  <1>4. Len(queue) + 1 \in 1..(Len(queue) + 1)
    BY <1>1
  <1>5. Range(longer) \subseteq Range(queue) \cup {x}
    BY <1>1, <1>2 DEF Range
  <1>6. Range(queue) \cup {x} \subseteq Range(longer)
    BY <1>1, <1>3, <1>4 DEF Range
  <1>. QED
    BY <1>5, <1>6 DEF longer

\* What is left of a queue after an erase.
LEMMA EraseRange ==
    ASSUME NEW queue \in Seq(OrderId), NEW k \in 1..Len(queue), Distinct(queue)
    PROVE  Range(EraseAt(queue, k)) = Range(queue) \ {queue[k]}
  <1>. DEFINE rest == EraseAt(queue, k)
  <1>1. /\ rest \in Seq(OrderId) /\ Len(rest) = Len(queue) - 1
        /\ \A i \in 1..Len(queue) : i # k => \E j \in 1..Len(rest) : rest[j] = queue[i]
        /\ \A j \in 1..Len(rest) : rest[j] = queue[IF j < k THEN j ELSE j + 1]
    BY EraseAtEffect DEF Distinct
  <1>2. DOMAIN queue = 1..Len(queue) /\ DOMAIN rest = 1..Len(rest) /\ Len(queue) \in Nat
    BY <1>1
  <1>. HIDE DEF rest
  <1>3. \A j \in 1..Len(rest) : \E i \in 1..Len(queue) : i # k /\ rest[j] = queue[i]
    <2>. SUFFICES ASSUME NEW j \in 1..Len(rest)
                  PROVE  \E i \in 1..Len(queue) : i # k /\ rest[j] = queue[i]
      OBVIOUS
    <2>. DEFINE from == IF j < k THEN j ELSE j + 1
    <2>1. from \in 1..Len(queue) /\ from # k
      BY <1>1, <1>2
    <2>. QED
      BY <1>1, <2>1
  <1>4. ASSUME NEW id \in Range(rest) PROVE id \in Range(queue) /\ id # queue[k]
    <2>1. PICK j \in 1..Len(rest) : id = rest[j]
      BY <1>2 DEF Range
    <2>2. PICK i \in 1..Len(queue) : i # k /\ id = queue[i]
      BY <1>3, <2>1
    <2>. QED
      BY <1>2, <2>2 DEF Range, Distinct
  <1>5. ASSUME NEW id \in Range(queue), id # queue[k] PROVE id \in Range(rest)
    <2>1. PICK i \in 1..Len(queue) : id = queue[i]
      BY <1>2 DEF Range
    <2>2. PICK j \in 1..Len(rest) : rest[j] = id
      BY <1>1, <1>5, <2>1
    <2>. QED
      BY <1>2, <2>2 DEF Range
  <1>. QED
    BY <1>4, <1>5 DEF rest

\* What the orders of the table have remaining.
Remaining == [id \in DOMAIN orders |-> orders[id].remaining]

\* What a queue holds: orders of the table, of its side and price, once each.
LEMMA QueueFacts ==
    ASSUME IInv, NEW s \in Side, NEW p \in DOMAIN levels[s]
    PROVE  /\ levels[s][p] \in PriceLevel
           /\ levels[s][p].total_quantity \in Int
           /\ Queue(s, p) \in Seq(OrderId) /\ Distinct(Queue(s, p))
           /\ IsFiniteSet(Range(Queue(s, p)))
           /\ \A x \in Range(Queue(s, p)) : /\ x \in DOMAIN orders
                                            /\ orders[x].side = s /\ orders[x].price = p
                                            /\ Remaining[x] = orders[x].remaining
                                            /\ Remaining[x] \in Nat
  <1>1. levels[s][p] \in PriceLevel /\ levels[s][p].total_quantity \in Int
    BY DEF IInv, TypeOK, PriceLevel
  <1>2. Queue(s, p) \in Seq(OrderId)
    BY <1>1 DEF Queue, PriceLevel
  <1>3. Distinct(Queue(s, p))
    BY DEF IInv, IndexConsistent, QueuesHoldLiveOrders, Distinct
  <1>4. ASSUME NEW x \in Range(Queue(s, p))
        PROVE  /\ x \in DOMAIN orders /\ orders[x].side = s /\ orders[x].price = p
               /\ Remaining[x] = orders[x].remaining /\ Remaining[x] \in Nat
    <2>1. PICK i \in 1..Len(Queue(s, p)) : x = Queue(s, p)[i]
      BY <1>2 DEF Range
    <2>2. x \in DOMAIN orders /\ orders[x].side = s /\ orders[x].price = p
      BY <2>1 DEF IInv, IndexConsistent, QueuesHoldLiveOrders, Live, has_order
    <2>. QED
      BY <2>2 DEF Remaining, IInv, TypeOK, Order
  <1>5. IsFiniteSet(Range(Queue(s, p)))
    <2>1. IsFiniteSet(DOMAIN orders)
      BY TableIsFinite DEF IInv
    <2>2. Range(Queue(s, p)) \in SUBSET DOMAIN orders
      BY <1>4
    <2>. QED
      BY <2>1, <2>2, FS_Subset
  <1>. QED
    BY <1>1, <1>2, <1>3, <1>4, <1>5

\* A level keeps its total as long as its queue and the orders in it stay as they are.
LEMMA SameTotal ==
    ASSUME IInv, TotalsExact, NEW s \in Side, NEW p \in DOMAIN levels[s],
           levels'[s][p] = levels[s][p],
           \A x \in Range(Queue(s, p)) : x \in DOMAIN orders' /\ orders'[x] = orders[x]
    PROVE  levels'[s][p].total_quantity = SumFunctionOnSet(Remaining', Range(Queue(s, p)'))
  <1>1. IsFiniteSet(Range(Queue(s, p))) /\ \A x \in Range(Queue(s, p)) : Remaining'[x] = Remaining[x]
    BY QueueFacts DEF Remaining
  <1>2. SumFunctionOnSet(Remaining', Range(Queue(s, p))) = SumFunctionOnSet(Remaining, Range(Queue(s, p)))
    BY <1>1, SumSame
  <1>3. Queue(s, p)' = Queue(s, p)
    BY DEF Queue
  <1>4. levels[s][p].total_quantity = SumFunctionOnSet(Remaining, Range(Queue(s, p)))
    BY DEF TotalsExact, Remaining
  <1>. QED
    BY <1>2, <1>3, <1>4

\* A new order adds its quantity to its level's total.
LEMMA InsertKeepsTotals ==
    ASSUME IInv, IInv', TotalsExact, NEW id \in OrderId, NEW side \in Side, NEW price \in Price,
           NEW quantity \in Quantity, ~call.running, ~has_order(id),
           Insert(id, NewOrder(side, price, quantity))
    PROVE  TotalsExact'
  <1>. DEFINE order == NewOrder(side, price, quantity)
              ladder == levels[side]
              level == IF price \in DOMAIN ladder THEN ladder[price]
                       ELSE [total_quantity |-> 0, orders |-> <<>>]
              after == [total_quantity |-> level.total_quantity + quantity,
                        orders |-> Append(level.orders, id)]
  <1>1. /\ order.remaining = quantity /\ order.side = side /\ order.price = price
        /\ quantity \in Int
    BY QuantityAssumption DEF NewOrder
  <1>2. /\ DOMAIN orders' = DOMAIN orders \cup {id} /\ id \notin DOMAIN orders
        /\ orders'[id] = order
        /\ \A x \in DOMAIN orders : orders'[x] = orders[x]
    BY DEF Insert, has_order, Put
  <1>3. /\ levels' = [levels EXCEPT ![side] = Put(ladder, price, after)]
        /\ DOMAIN levels = Side
    BY <1>1 DEF Insert, Enqueue, IInv, TypeOK
  <1>. HIDE DEF order
  <1>4. /\ level.orders \in Seq(OrderId) /\ level.total_quantity \in Int
        /\ IsFiniteSet(Range(level.orders)) /\ id \notin Range(level.orders)
        /\ \A x \in Range(level.orders) : x \in DOMAIN orders
        /\ level.total_quantity = SumFunctionOnSet(Remaining, Range(level.orders))
    <2>1. CASE price \in DOMAIN ladder
      <3>1. level = levels[side][price] /\ level.orders = Queue(side, price)
        BY <2>1 DEF Queue
      <3>2. level.total_quantity = SumFunctionOnSet(Remaining, Range(Queue(side, price)))
        BY <2>1, <3>1 DEF TotalsExact, Remaining
      <3>. HIDE DEF level
      <3>. QED
        BY <1>2, <2>1, <3>1, <3>2, QueueFacts
    <2>2. CASE price \notin DOMAIN ladder
      <3>1. level.total_quantity = 0 /\ level.orders = <<>>
        BY <2>2
      <3>2. Range(<<>>) = {}
        BY DEF Range
      <3>3. IsFiniteSet({})
        BY FS_EmptySet
      <3>4. SumFunctionOnSet(Remaining, {}) = 0
        BY SumOfNothing
      <3>. HIDE DEF level
      <3>5. level.orders \in Seq(OrderId) /\ level.total_quantity \in Int
        BY <3>1
      <3>6. Range(level.orders) = {}
        BY <3>1, <3>2
      <3>7. IsFiniteSet(Range(level.orders)) /\ id \notin Range(level.orders)
        BY <3>3, <3>6
      <3>8. level.total_quantity = SumFunctionOnSet(Remaining, Range(level.orders))
        BY <3>1, <3>4, <3>6
      <3>. QED
        BY <3>5, <3>6, <3>7, <3>8
    <2>. QED
      BY <2>1, <2>2
  <1>5. after.total_quantity = level.total_quantity + quantity /\ after.orders = Append(level.orders, id)
    OBVIOUS
  <1>. HIDE DEF after, level
  <1>6. /\ DOMAIN levels'[side] = DOMAIN levels[side] \cup {price}
        /\ levels'[side][price] = after
        /\ \A q \in DOMAIN levels[side] \ {price} : levels'[side][q] = levels[side][q]
        /\ \A s \in Side \ {side} : levels'[s] = levels[s]
    BY <1>3 DEF Put
  <1>7. after.total_quantity = SumFunctionOnSet(Remaining', Range(after.orders))
    <2>. DEFINE R == Range(level.orders)
    <2>1. \A x \in R : Remaining'[x] = Remaining[x] /\ Remaining[x] \in Int
      BY <1>2, <1>4 DEF Remaining, IInv, TypeOK, Order
    <2>2. Remaining'[id] = quantity
      BY <1>1, <1>2 DEF Remaining
    <2>3. \A x \in R \cup {id} : Remaining'[x] \in Int
      BY <1>1, <2>1, <2>2
    <2>4. Range(after.orders) = R \cup {id}
      BY <1>4, <1>5, AppendRange
    <2>5. SumFunctionOnSet(Remaining', R) = SumFunctionOnSet(Remaining, R)
      BY <1>4, <2>1, SumSame
    <2>6. IsFiniteSet(R) /\ id \notin R
      BY <1>4
    <2>. HIDE DEF R
    <2>7. SumFunctionOnSet(Remaining', R \cup {id}) = SumFunctionOnSet(Remaining', R) + Remaining'[id]
      BY <2>3, <2>6, SumAdd
    <2>. QED
      BY <1>4, <1>5, <2>2, <2>4, <2>5, <2>7 DEF R
  <1>8. ASSUME NEW s \in Side, NEW p \in DOMAIN levels'[s]
        PROVE  levels'[s][p].total_quantity = SumFunctionOnSet(Remaining', Range(Queue(s, p)'))
    <2>1. CASE s = side /\ p = price
      BY <1>6, <1>7, <2>1 DEF Queue
    <2>2. CASE ~(s = side /\ p = price)
      <3>1. p \in DOMAIN levels[s] /\ levels'[s][p] = levels[s][p]
        BY <1>6, <2>2
      <3>2. \A x \in Range(Queue(s, p)) : x \in DOMAIN orders' /\ orders'[x] = orders[x]
        BY <1>2, <3>1, QueueFacts
      <3>. QED
        BY <3>1, <3>2, SameTotal
    <2>. QED
      BY <2>1, <2>2
  <1>. QED
    BY <1>8 DEF TotalsExact, Remaining

\* Cancelling an order takes what it has remaining from its level's total.
LEMMA CancelKeepsTotals ==
    ASSUME IInv, IInv', TotalsExact, NEW id \in OrderId, ~call.running, Live(id), Cancel(id)
    PROVE  TotalsExact'
  <1>. DEFINE s == orders[id].side
              p == orders[id].price
              queue == levels[s][p].orders
              after == remove_order_from_level(levels[s], id, p, orders[id].remaining)
  <1>1. /\ id \in DOMAIN orders /\ orders[id] \in Order
        /\ s \in Side /\ orders[id].remaining \in Nat
    BY DEF Live, has_order, IInv, TypeOK, Order
  <1>2. p \in DOMAIN levels[s] /\ \E i \in 1..Len(queue) : queue[i] = id
    BY <1>1 DEF IInv, IndexConsistent, LiveOrdersAreQueued, Queue
  <1>3. PICK k \in 1..Len(queue) : queue[k] = id
    BY <1>2
  <1>4. levels[s] \in [DOMAIN levels[s] -> PriceLevel] /\ DOMAIN levels = Side
    BY <1>1 DEF IInv, TypeOK
  <1>5. Distinct(queue)
    BY <1>1, <1>2, QueueFacts DEF Queue
  <1>6. /\ orders' = [orders EXCEPT ![id].is_cancelled = TRUE]
        /\ levels' = [levels EXCEPT ![s] = after]
    BY DEF Cancel
  <1>. HIDE DEF s, p
  <1>7. Shortened(levels[s], after, p, k, orders[id].remaining)
    <2>1. Shortened(levels[s], remove_order_from_level(levels[s], levels[s][p].orders[k], p,
                                                       orders[id].remaining),
                    p, k, orders[id].remaining)
      BY <1>1, <1>2, <1>4, <1>5, RemoveEffect
    <2>. QED
      BY <1>3, <2>1
  <1>. HIDE DEF after
  <1>8. /\ DOMAIN orders' = DOMAIN orders
        /\ orders'[id].remaining = orders[id].remaining
        /\ \A x \in DOMAIN orders \ {id} : orders'[x] = orders[x]
    BY <1>1, <1>6 DEF Order
  <1>9. /\ levels'[s] = after
        /\ \A t \in Side \ {s} : levels'[t] = levels[t]
    BY <1>1, <1>4, <1>6
  <1>10. ASSUME NEW t \in Side, NEW q \in DOMAIN levels'[t]
         PROVE  levels'[t][q].total_quantity = SumFunctionOnSet(Remaining', Range(Queue(t, q)'))
    <2>1. CASE t = s /\ q = p
      <3>1. /\ after[p].orders = EraseAt(queue, k)
            /\ after[p].total_quantity = levels[s][p].total_quantity - orders[id].remaining
        BY <1>7, <1>9, <2>1 DEF Shortened
      <3>. DEFINE R == Range(queue)
      <3>2. /\ queue \in Seq(OrderId) /\ IsFiniteSet(R) /\ id \in R
            /\ \A x \in R : x \in DOMAIN orders /\ Remaining[x] = orders[x].remaining /\ Remaining[x] \in Int
            /\ levels[s][p].total_quantity = SumFunctionOnSet(Remaining, R)
        <4>1. /\ Queue(s, p) = queue
              /\ levels[s][p].total_quantity = SumFunctionOnSet(Remaining, R)
          BY <1>1, <1>2 DEF TotalsExact, Queue, Remaining
        <4>2. queue \in Seq(OrderId)
          BY <1>1, <1>2, <4>1, QueueFacts
        <4>3. id \in R
          BY <1>3, <4>2 DEF Range
        <4>. QED
          BY <1>1, <1>2, <4>1, <4>2, <4>3, QueueFacts
      <3>3. Range(Queue(t, q)') = R \ {id}
        <4>1. Queue(t, q)' = EraseAt(queue, k)
          BY <1>9, <2>1, <3>1 DEF Queue
        <4>. QED
          BY <1>3, <1>5, <3>2, <4>1, EraseRange
      <3>4. \A x \in R : Remaining'[x] = Remaining[x]
        BY <1>8, <3>2 DEF Remaining
      <3>5. Remaining[id] = orders[id].remaining
        BY <1>1 DEF Remaining
      <3>. HIDE DEF R
      <3>6. /\ IntegersOn(Remaining, R) /\ IntegersOn(Remaining', R)
            /\ AgreeOn(Remaining', Remaining, R \ {id})
        BY <3>2, <3>4 DEF IntegersOn, AgreeOn
      <3>7. /\ SumFunctionOnSet(Remaining, R) \in Int
            /\ SumFunctionOnSet(Remaining', R \ {id}) = SumFunctionOnSet(Remaining, R) - Remaining[id]
            /\ SumFunctionOnSet(Remaining', R)
                  = SumFunctionOnSet(Remaining, R) - Remaining[id] + Remaining'[id]
        <4>1. IsFiniteSet(R) /\ id \in R
          BY <3>2
        <4>. QED
          BY <3>6, <4>1, SumChanges, Zenon
      <3>. QED
        BY <1>9, <2>1, <3>1, <3>2, <3>3, <3>5, <3>7
    <2>2. CASE ~(t = s /\ q = p)
      <3>1. q \in DOMAIN levels[t] /\ levels'[t][q] = levels[t][q]
        BY <1>7, <1>9, <2>2 DEF Shortened
      <3>2. \A x \in Range(Queue(t, q)) : x \in DOMAIN orders' /\ orders'[x] = orders[x]
        <4>1. \A x \in Range(Queue(t, q)) : x \in DOMAIN orders /\ orders[x].side = t /\ orders[x].price = q
          BY <3>1, QueueFacts
        <4>. QED
          BY <1>8, <2>2, <4>1 DEF s, p
      <3>. QED
        BY <3>1, <3>2, SameTotal
    <2>. QED
      BY <2>1, <2>2
  <1>. QED
    BY <1>10 DEF TotalsExact, Remaining

\* A fill takes its quantity from the order and from its level's total alike.
LEMMA IterationKeepsTotals ==
    ASSUME IInv, IInv', TotalsExact, match_iteration
    PROVE  TotalsExact'
  <1>. DEFINE queue == Queue(call.side, call.it)
              rest(id) == IF popped(orders[id]) THEN Tail(queue) ELSE queue
  <1>1. /\ call.side \in Side /\ call.it \in DOMAIN levels[call.side]
        /\ queue \in Seq(OrderId) /\ queue # <<>> /\ Head(queue) = queue[1]
        /\ Head(queue) \in DOMAIN orders /\ orders[Head(queue)] \in Order
        /\ ~orders[Head(queue)].is_cancelled
        /\ fill_qty(orders[Head(queue)]) \in Nat
    <2>1. /\ call.side \in Side /\ call.it \in DOMAIN levels[call.side]
          /\ queue \in Seq(OrderId) /\ queue # <<>> /\ Head(queue) = queue[1]
          /\ Head(queue) \in DOMAIN orders /\ orders[Head(queue)] \in Order
          /\ ~orders[Head(queue)].is_cancelled
      BY FrontOfBest DEF match_iteration, Live
    <2>2. call.remaining \in Nat
      BY DEF IInv, TypeOK
    <2>3. fill_qty(orders[Head(queue)]) \in Nat
      BY <2>1, <2>2 DEF fill_qty, Order
    <2>. HIDE DEF queue
    <2>. QED
      BY <2>1, <2>3
  <1>2. PICK s \in Side : s = call.side
    BY <1>1
  <1>3. PICK p \in DOMAIN levels[s] : p = call.it
    BY <1>1, <1>2
  <1>4. PICK id \in DOMAIN orders : id = Head(queue)
    BY <1>1
  <1>5. PICK qty \in Nat : qty = fill_qty(orders[id])
    BY <1>1, <1>4
  <1>6. /\ s = call.side /\ p = call.it /\ id = Head(queue) /\ qty = fill_qty(orders[id])
        /\ orders[id] \in Order /\ ~orders[id].is_cancelled
        /\ queue \in Seq(OrderId) /\ queue # <<>> /\ id = queue[1]
    BY <1>1, <1>2, <1>3, <1>4, <1>5
  <1>7. popped(orders[id]) <=> orders[id].remaining = qty
    BY <1>6 DEF popped
  <1>8. /\ orders' = [orders EXCEPT ![id].remaining = @ - qty, ![id].is_cancelled = popped(orders[id])]
        /\ levels' = [levels EXCEPT ![s] =
                        IF rest(id) = <<>> THEN Erase(@, p)
                        ELSE Put(@, p, [total_quantity |-> levels[s][p].total_quantity - qty,
                                        orders |-> rest(id)])]
    BY <1>6 DEF match_iteration, Queue
  <1>9. Queue(s, p) = queue /\ levels[s][p].orders = queue
    BY <1>6 DEF Queue
  <1>. HIDE DEF queue, rest
  <1>10. /\ DOMAIN orders' = DOMAIN orders
         /\ orders'[id].remaining = orders[id].remaining - qty
         /\ \A x \in DOMAIN orders \ {id} : orders'[x] = orders[x]
    <2>1. /\ DOMAIN orders' = DOMAIN orders
          /\ \A x \in DOMAIN orders \ {id} : orders'[x] = orders[x]
      BY <1>8
    <2>2. orders'[id].remaining = orders[id].remaining - qty
      BY <1>6, <1>8 DEF Order
    <2>. QED
      BY <2>1, <2>2
  <1>11. /\ DOMAIN levels = Side
         /\ \A t \in Side \ {s} : levels'[t] = levels[t]
         /\ \A q \in DOMAIN levels'[s] : q \in DOMAIN levels[s] /\ (q # p => levels'[s][q] = levels[s][q])
         /\ p \in DOMAIN levels'[s] =>
               levels'[s][p] = [total_quantity |-> levels[s][p].total_quantity - qty, orders |-> rest(id)]
    <2>. DEFINE entry == [total_quantity |-> levels[s][p].total_quantity - qty, orders |-> rest(id)]
    <2>1. DOMAIN levels = Side
      BY DEF IInv, TypeOK
    <2>2. levels' = [levels EXCEPT ![s] = IF rest(id) = <<>> THEN Erase(levels[s], p)
                                          ELSE Put(levels[s], p, entry)]
      BY <1>8
    <2>. HIDE DEF entry
    <2>3. /\ \A t \in Side \ {s} : levels'[t] = levels[t]
          /\ levels'[s] = Erase(levels[s], p) \/ levels'[s] = Put(levels[s], p, entry)
      BY <2>1, <2>2
    <2>4. /\ \A q \in DOMAIN levels'[s] : q \in DOMAIN levels[s] /\ (q # p => levels'[s][q] = levels[s][q])
          /\ p \in DOMAIN levels'[s] => levels'[s][p] = entry
      BY <2>3 DEF Erase, Put
    <2>. QED
      BY <2>1, <2>3, <2>4 DEF entry
  <1>12. /\ IsFiniteSet(Range(queue)) /\ Distinct(queue) /\ id \in Range(queue)
         /\ levels[s][p].total_quantity \in Int
         /\ levels[s][p].total_quantity = SumFunctionOnSet(Remaining, Range(queue))
         /\ \A x \in Range(queue) : x \in DOMAIN orders /\ Remaining[x] \in Int
                                    /\ Remaining[x] = orders[x].remaining
    <2>1. levels[s][p].total_quantity = SumFunctionOnSet(Remaining, Range(queue))
      BY <1>6, <1>9 DEF TotalsExact, Remaining
    <2>2. id \in Range(queue)
      BY <1>6 DEF Range
    <2>. QED
      BY <1>6, <1>9, <2>1, <2>2, QueueFacts
  <1>13. ASSUME p \in DOMAIN levels'[s]
         PROVE  levels'[s][p].total_quantity = SumFunctionOnSet(Remaining', Range(rest(id)))
    <2>. DEFINE R == Range(queue)
    <2>1. \A x \in R \ {id} : Remaining'[x] = Remaining[x]
      BY <1>10, <1>12 DEF Remaining
    <2>2. Remaining'[id] = orders[id].remaining - qty /\ Remaining[id] = orders[id].remaining
          /\ Remaining'[id] \in Int /\ orders[id].remaining \in Int
      BY <1>6, <1>10 DEF Remaining, Order
    <2>3. levels'[s][p].total_quantity = levels[s][p].total_quantity - qty
      BY <1>11, <1>13
    <2>4. IsFiniteSet(R) /\ id \in R /\ \A x \in R : Remaining[x] \in Int
      BY <1>12
    <2>5. levels[s][p].total_quantity = SumFunctionOnSet(Remaining, R)
      BY <1>12
    <2>. HIDE DEF R
    <2>6. /\ SumFunctionOnSet(Remaining, R) \in Int
          /\ SumFunctionOnSet(Remaining', R \ {id}) = SumFunctionOnSet(Remaining, R) - Remaining[id]
          /\ SumFunctionOnSet(Remaining', R)
                = SumFunctionOnSet(Remaining, R) - Remaining[id] + Remaining'[id]
      <3>1. /\ IntegersOn(Remaining, R) /\ IntegersOn(Remaining', R)
            /\ AgreeOn(Remaining', Remaining, R \ {id})
        BY <2>1, <2>2, <2>4 DEF IntegersOn, AgreeOn
      <3>. QED
        BY <2>4, <3>1, SumChanges, Zenon
    <2>7. CASE popped(orders[id])
      <3>1. rest(id) = EraseAt(queue, 1)
        BY <1>6, <2>7, TailErases DEF rest
      <3>2. 1 \in 1..Len(queue)
        BY <1>6
      <3>3. Range(rest(id)) = R \ {id}
        BY <1>6, <1>12, <3>1, <3>2, EraseRange DEF R
      <3>. QED
        BY <1>7, <2>2, <2>3, <2>5, <2>6, <2>7, <3>3
    <2>8. CASE ~popped(orders[id])
      <3>1. Range(rest(id)) = R
        BY <2>8 DEF rest, R
      <3>. QED
        BY <2>2, <2>3, <2>5, <2>6, <3>1
    <2>. QED
      BY <2>7, <2>8
  <1>14. ASSUME NEW t \in Side, NEW q \in DOMAIN levels'[t]
         PROVE  levels'[t][q].total_quantity = SumFunctionOnSet(Remaining', Range(Queue(t, q)'))
    <2>1. CASE t = s /\ q = p
      <3>1. Queue(t, q)' = rest(id)
        BY <1>11, <2>1 DEF Queue
      <3>. QED
        BY <1>13, <2>1, <3>1
    <2>2. CASE ~(t = s /\ q = p)
      <3>1. q \in DOMAIN levels[t] /\ levels'[t][q] = levels[t][q]
        BY <1>11, <2>2
      <3>2. \A x \in Range(Queue(t, q)) : x \in DOMAIN orders' /\ orders'[x] = orders[x]
        <4>1. \A x \in Range(Queue(t, q)) : x \in DOMAIN orders /\ orders[x].side = t /\ orders[x].price = q
          BY <3>1, QueueFacts
        <4>2. orders[id].side = s /\ orders[id].price = p
          BY <1>9, <1>12, QueueFacts
        <4>. QED
          BY <1>10, <2>2, <4>1, <4>2
      <3>. QED
        BY <3>1, <3>2, SameTotal
    <2>. QED
      BY <2>1, <2>2
  <1>. QED
    BY <1>14 DEF TotalsExact, Remaining

\* A step that leaves the book alone leaves its totals alone.
LEMMA SameBookSameTotals ==
    ASSUME TotalsExact, orders' = orders, levels' = levels
    PROVE  TotalsExact'
  BY DEF TotalsExact, Queue

\* Every cached total of a level, kept up to date by += and -= in add, cancel and match,
\* is what the orders queued there have remaining, in every reachable state.
THEOREM TotalsAreExact == Spec => []TotalsExact
  <1>1. Init => TotalsExact
    BY DEF Init, TotalsExact
  <1>2. ASSUME IInv, IInv', TotalsExact, [Next]_vars PROVE TotalsExact'
    <2>1. CASE UNCHANGED vars
      BY <1>2, <2>1, SameBookSameTotals DEF vars
    <2>2. ASSUME NEW side \in Side, NEW quantity \in Quantity, match_market_order(side, quantity)
          PROVE  TotalsExact'
      BY <1>2, <2>2, SameBookSameTotals DEF match_market_order
    <2>3. CASE match_return
      BY <1>2, <2>3, SameBookSameTotals DEF match_return
    <2>. QED
      BY <1>2, <2>1, <2>2, <2>3, StepCases, InsertKeepsTotals, CancelKeepsTotals,
         IterationKeepsTotals
  <1>. QED
    BY <1>1, <1>2, Invariance, PTL DEF Spec

-----------------------------------------------------------------------------
(* What a match does to the book's value.                                  *)

\* The sums, maxima and minima of the promise are those of the code's model.
LEMMA PromisedArithmetic ==
    /\ \A f : Promise!SumFunction(f) = SumFunctionOnSet(f, DOMAIN f)
    /\ \A T : Promise!Cardinality(T) = Cardinality(T)
    /\ \A a, b \in Int : Promise!Max({a, b}) = IF a >= b THEN a ELSE b
    /\ \A a, b \in Int : Promise!Min({a, b}) = IF a <= b THEN a ELSE b
  <1>1. ASSUME NEW f PROVE Promise!SumFunction(f) = SumFunctionOnSet(f, DOMAIN f)
    BY Zenon DEF Promise!SumFunction, Promise!SumFunctionOnSet, Promise!FoldFunctionOnSet,
                 Promise!MapThenFoldSet, SumFunctionOnSet, FoldFunctionOnSet, MapThenFoldSet
  <1>4. ASSUME NEW T PROVE Promise!Cardinality(T) = Cardinality(T)
    BY Zenon DEF Promise!Cardinality, Cardinality
  <1>2. ASSUME NEW a \in Int, NEW b \in Int
        PROVE  Promise!Max({a, b}) = IF a >= b THEN a ELSE b
    BY DEF Promise!Max
  <1>3. ASSUME NEW a \in Int, NEW b \in Int
        PROVE  Promise!Min({a, b}) = IF a <= b THEN a ELSE b
    BY DEF Promise!Min
  <1>. QED
    BY <1>1, <1>2, <1>3, <1>4

\* What the resting orders of a book have remaining.
Owed(B) == [id \in Promise!Resting(B) |-> B.resting[id].remaining]

RestingOrder == [side : Side, price : Nat, quantity : Nat, remaining : Nat \ {0}, time : Nat]

\* What is true of a book's value: finitely many orders rest in it, none of them
\* used up, and no two arrived at the same time.
BookShape(B) ==
    /\ IsFiniteSet(Promise!Resting(B))
    /\ Promise!Resting(B) \subseteq B.known
    /\ \A x \in Promise!Resting(B) : B.resting[x] \in RestingOrder
    /\ \A x, y \in Promise!Resting(B) : B.resting[x].time = B.resting[y].time => x = y

\* Among the orders a market order can trade against, priority is a strict total order.
LEMMA PriorityIsTotal ==
    ASSUME NEW B, BookShape(B), NEW side \in Side
    PROVE  /\ \A x, y \in Promise!Counter(B, side) :
                 x # y => Promise!Precedes(B, x, y) \/ Promise!Precedes(B, y, x)
           /\ \A x, y \in Promise!Counter(B, side) :
                 Promise!Precedes(B, x, y) => ~Promise!Precedes(B, y, x)
    BY DEF BookShape, RestingOrder, Promise!Counter, Promise!Precedes, Promise!Better

Prior(B, side, id) == {x \in Promise!Counter(B, side) : Promise!Precedes(B, x, id)}

\* What an order is filled with, as arithmetic.
LEMMA FilledIs ==
    ASSUME NEW B, BookShape(B), NEW side \in Side, NEW quantity \in Nat,
           NEW id \in Promise!Counter(B, side)
    PROVE  /\ Promise!Ahead(B, side, id) = SumFunctionOnSet(Owed(B), Prior(B, side, id))
           /\ Promise!Ahead(B, side, id) \in Nat
           /\ B.resting[id].remaining \in Nat
           /\ Promise!Filled(B, side, quantity, id) =
                 IF quantity - Promise!Ahead(B, side, id) <= 0 THEN 0
                 ELSE IF B.resting[id].remaining <= quantity - Promise!Ahead(B, side, id)
                      THEN B.resting[id].remaining
                      ELSE quantity - Promise!Ahead(B, side, id)
  <1>. DEFINE prior == Prior(B, side, id)
              f == [x \in prior |-> B.resting[x].remaining]
  <1>1. /\ id \in Promise!Resting(B)
        /\ prior \in SUBSET Promise!Resting(B)
        /\ B.resting[id].remaining \in Nat \ {0}
    BY DEF Promise!Counter, Prior, BookShape, RestingOrder
  <1>2. IsFiniteSet(prior) /\ IsFiniteSet(Promise!Resting(B))
    BY <1>1, FS_Subset DEF BookShape
  <1>3. \A x \in Promise!Resting(B) : Owed(B)[x] \in Nat
    BY DEF Owed, BookShape, RestingOrder
  <1>4. \A x \in prior : f[x] = Owed(B)[x]
    BY <1>1 DEF Owed
  <1>5. Promise!Ahead(B, side, id) = Promise!SumFunction(f)
    BY Zenon DEF Promise!Ahead, Prior
  <1>6. DOMAIN f = prior
    OBVIOUS
  <1>. HIDE DEF f, prior
  <1>7. Promise!SumFunction(f) = SumFunctionOnSet(f, prior)
    BY <1>6, PromisedArithmetic
  <1>8. SumFunctionOnSet(f, prior) = SumFunctionOnSet(Owed(B), prior)
    BY <1>2, <1>4, SumSame
  <1>9. SumFunctionOnSet(Owed(B), prior) \in Nat
    BY <1>1, <1>2, <1>3, SumOfPart
  <1>10. Promise!Ahead(B, side, id) = SumFunctionOnSet(Owed(B), prior)
    BY <1>5, <1>7, <1>8
  <1>11. PICK ahead \in Nat : ahead = Promise!Ahead(B, side, id)
    BY <1>9, <1>10
  <1>12. PICK left \in Nat : left = B.resting[id].remaining
    BY <1>1
  <1>13. PICK room \in Int : room = quantity - ahead
    OBVIOUS
  <1>14. PICK least \in Int : /\ least = Promise!Min({left, room})
                              /\ least = IF left <= room THEN left ELSE room
    BY <1>12, <1>13, PromisedArithmetic
  <1>15. Promise!Max({0, least}) = IF 0 >= least THEN 0 ELSE least
    BY <1>14, PromisedArithmetic
  <1>16. Promise!Filled(B, side, quantity, id) = Promise!Max({0, least})
    BY <1>11, <1>12, <1>13, <1>14, Zenon DEF Promise!Filled
  <1>17. Promise!Filled(B, side, quantity, id) =
            IF room <= 0 THEN 0 ELSE IF left <= room THEN left ELSE room
    <2>1. left > 0
      BY <1>1, <1>12
    <2>2. (IF 0 >= least THEN 0 ELSE least) =
             IF room <= 0 THEN 0 ELSE IF left <= room THEN left ELSE room
      BY <1>14, <2>1
    <2>. QED
      BY <1>15, <1>16, <2>2, Zenon
  <1>. QED
    BY <1>1, <1>10, <1>11, <1>12, <1>13, <1>17 DEF prior

\* The orders a list of fills is for.
Hits(list) == {list[i].order_id : i \in 1..Len(list)}

\* The fills so far, and how much of the quantity is left, when a match has walked
\* part of the way through the orders it may trade against.
Matched(B, side, quantity, list, left) ==
    /\ Hits(list) \subseteq Promise!Counter(B, side)
    /\ \A i \in 1..Len(list) :
          /\ list[i].price = B.resting[list[i].order_id].price
          /\ list[i].quantity = Promise!Filled(B, side, quantity, list[i].order_id)
          /\ list[i].quantity > 0
    /\ \A i, j \in 1..Len(list) :
          i < j => Promise!Precedes(B, list[i].order_id, list[j].order_id)
    /\ \A x \in Hits(list) : \A y \in Promise!Counter(B, side) \ Hits(list) :
          Promise!Precedes(B, x, y)
    /\ IF left = 0 THEN quantity <= SumFunctionOnSet(Owed(B), Hits(list))
                   ELSE left = quantity - SumFunctionOnSet(Owed(B), Hits(list))
    /\ left > 0 => \A x \in Hits(list) :
                      Promise!Filled(B, side, quantity, x) = B.resting[x].remaining

\* Hits, as lists of fills grow.
LEMMA HitsGrow ==
    ASSUME NEW list \in Seq(Fill), NEW f \in Fill
    PROVE  /\ Append(list, f) \in Seq(Fill)
           /\ Len(Append(list, f)) = Len(list) + 1
           /\ Append(list, f)[Len(list) + 1] = f
           /\ \A i \in 1..Len(list) : Append(list, f)[i] = list[i]
           /\ Hits(Append(list, f)) = Hits(list) \cup {f.order_id}
           /\ IsFiniteSet(Hits(list))
           /\ Len(list) \in Nat
  <1>. DEFINE longer == Append(list, f)
  <1>1. /\ longer \in Seq(Fill) /\ Len(longer) = Len(list) + 1 /\ Len(list) \in Nat
        /\ longer[Len(list) + 1] = f
        /\ \A i \in 1..Len(list) : longer[i] = list[i]
    OBVIOUS
  <1>. HIDE DEF longer
  <1>2. Hits(longer) = Hits(list) \cup {f.order_id}
    <2>1. \A i \in 1..(Len(list) + 1) : i \in 1..Len(list) \/ i = Len(list) + 1
      BY <1>1
    <2>2. Len(list) + 1 \in 1..(Len(list) + 1) /\ \A i \in 1..Len(list) : i \in 1..(Len(list) + 1)
      BY <1>1
    <2>3. Hits(longer) \subseteq Hits(list) \cup {f.order_id}
      BY <1>1, <2>1 DEF Hits
    <2>4. Hits(list) \cup {f.order_id} \subseteq Hits(longer)
      BY <1>1, <2>2 DEF Hits
    <2>. QED
      BY <2>3, <2>4
  <1>3. IsFiniteSet(Hits(list))
    <2>1. IsFiniteSet(1..Len(list))
      BY <1>1, FS_Interval
    <2>. DEFINE g == [i \in 1..Len(list) |-> list[i].order_id]
    <2>2. g \in Surjection(1..Len(list), Hits(list))
      BY DEF Surjection, Hits
    <2>. QED
      BY <2>1, <2>2, FS_Surjection
  <1>. QED
    BY <1>1, <1>2, <1>3 DEF longer

\* The order that no other available one precedes is filled with what is left of
\* the quantity, as far as it can be.
LEMMA NextHit ==
    ASSUME NEW B, NEW side \in Side, NEW quantity \in Nat, NEW list \in Seq(Fill),
           NEW left \in Nat, NEW id \in OrderId, NEW qty, NEW f \in Fill,
           BookShape(B), Matched(B, side, quantity, list, left), left > 0,
           id \in Promise!Counter(B, side), id \notin Hits(list),
           \A x \in Promise!Counter(B, side) \ Hits(list) : ~Promise!Precedes(B, x, id),
           qty = IF B.resting[id].remaining < left THEN B.resting[id].remaining ELSE left,
           f = [order_id |-> id, price |-> B.resting[id].price, quantity |-> qty]
    PROVE  /\ Promise!Filled(B, side, quantity, id) = qty
           /\ Matched(B, side, quantity, Append(list, f), left - qty)
  <1>. DEFINE H == Hits(list)
              G == Hits(Append(list, f))
              C == Promise!Counter(B, side)
              longer == Append(list, f)
              filled(x) == Promise!Filled(B, side, quantity, x)
  <1>1. /\ H \subseteq C
        /\ \A i \in 1..Len(list) : /\ list[i].price = B.resting[list[i].order_id].price
                                   /\ list[i].quantity = filled(list[i].order_id)
                                   /\ list[i].quantity > 0
        /\ \A i, j \in 1..Len(list) :
              i < j => Promise!Precedes(B, list[i].order_id, list[j].order_id)
        /\ \A x \in H : \A y \in C \ H : Promise!Precedes(B, x, y)
        /\ left = quantity - SumFunctionOnSet(Owed(B), H)
        /\ \A x \in H : filled(x) = B.resting[x].remaining
    <2>1. left # 0
      OBVIOUS
    <2>. QED
      BY <2>1, Zenon DEF Matched
  <1>2. /\ longer \in Seq(Fill) /\ Len(longer) = Len(list) + 1 /\ Len(list) \in Nat
        /\ longer[Len(list) + 1] = f
        /\ \A i \in 1..Len(list) : longer[i] = list[i]
        /\ G = H \cup {id}
        /\ IsFiniteSet(H)
    BY HitsGrow
  <1>3. Prior(B, side, id) = H
    <2>1. H \subseteq Prior(B, side, id)
      BY <1>1 DEF Prior
    <2>2. Prior(B, side, id) \subseteq H
      BY DEF Prior
    <2>. QED
      BY <2>1, <2>2
  <1>4. PICK owed \in Nat : owed = B.resting[id].remaining /\ owed > 0 /\ owed = Owed(B)[id]
    BY DEF BookShape, RestingOrder, Promise!Counter, Owed
  <1>5. qty \in Nat /\ qty > 0 /\ qty <= left /\ qty <= owed
        /\ (left - qty > 0 => qty = owed /\ left - qty = left - owed)
        /\ (left - qty = 0 => left <= owed)
    BY <1>4
  <1>6. filled(id) = qty
    <2>1. /\ Promise!Ahead(B, side, id) = SumFunctionOnSet(Owed(B), H)
          /\ filled(id) = IF quantity - Promise!Ahead(B, side, id) <= 0 THEN 0
                          ELSE IF B.resting[id].remaining <= quantity - Promise!Ahead(B, side, id)
                               THEN B.resting[id].remaining
                               ELSE quantity - Promise!Ahead(B, side, id)
      BY FilledIs, <1>3
    <2>2. filled(id) = IF left <= 0 THEN 0 ELSE IF owed <= left THEN owed ELSE left
      BY <1>1, <1>4, <2>1, Zenon
    <2>. HIDE DEF filled
    <2>. QED
      BY <1>4, <2>2
  <1>7. SumFunctionOnSet(Owed(B), H) \in Int
        /\ SumFunctionOnSet(Owed(B), G) = SumFunctionOnSet(Owed(B), H) + owed
    <2>1. \A y \in H \cup {id} : Owed(B)[y] \in Int
      BY <1>1 DEF BookShape, RestingOrder, Promise!Counter, Owed
    <2>2. id \notin H /\ IsFiniteSet(H)
      BY <1>2
    <2>. HIDE DEF H
    <2>3. SumFunctionOnSet(Owed(B), H) \in Int
          /\ SumFunctionOnSet(Owed(B), H \cup {id}) = SumFunctionOnSet(Owed(B), H) + Owed(B)[id]
      BY <2>1, <2>2, SumAdd, Zenon
    <2>. QED
      BY <1>2, <1>4, <2>3
  <1>. HIDE DEF filled, longer, G, H, C
  <1>8. Matched(B, side, quantity, longer, left - qty)
    <2>1. G \subseteq C
      BY <1>1, <1>2 DEF C
    <2>2. ASSUME NEW i \in 1..Len(longer)
          PROVE  /\ longer[i].price = B.resting[longer[i].order_id].price
                 /\ longer[i].quantity = filled(longer[i].order_id)
                 /\ longer[i].quantity > 0
      <3>1. CASE i = Len(list) + 1
        <4>1. longer[i] = f /\ f.order_id = id /\ f.price = B.resting[id].price /\ f.quantity = qty
          BY <1>2, <3>1
        <4>. QED
          BY <1>5, <1>6, <4>1
      <3>2. CASE i # Len(list) + 1
        <4>1. i \in 1..Len(list) /\ longer[i] = list[i]
          BY <1>2, <3>2
        <4>. QED
          BY <1>1, <4>1
      <3>. QED
        BY <3>1, <3>2
    <2>3. ASSUME NEW i \in 1..Len(longer), NEW j \in 1..Len(longer), i < j
          PROVE  Promise!Precedes(B, longer[i].order_id, longer[j].order_id)
      <3>1. i \in 1..Len(list) /\ longer[i] = list[i]
        BY <1>2, <2>3
      <3>2. CASE j = Len(list) + 1
        <4>1. longer[j].order_id = id
          BY <1>2, <3>2
        <4>2. longer[i].order_id \in H
          BY <3>1 DEF H, Hits
        <4>3. id \in C \ H
          BY DEF C, H
        <4>. QED
          BY <1>1, <4>1, <4>2, <4>3
      <3>3. CASE j # Len(list) + 1
        <4>1. j \in 1..Len(list) /\ longer[j] = list[j]
          BY <1>2, <3>3
        <4>. QED
          BY <1>1, <2>3, <3>1, <4>1
      <3>. QED
        BY <3>2, <3>3
    <2>4. ASSUME NEW x \in G, NEW y \in C \ G PROVE Promise!Precedes(B, x, y)
      <3>1. y \in C \ H /\ y # id
        BY <1>2
      <3>2. CASE x \in H
        BY <1>1, <3>1, <3>2
      <3>3. CASE x = id
        <4>1. ~Promise!Precedes(B, y, id)
          BY <3>1 DEF C, H
        <4>2. id \in C
          BY DEF C
        <4>3. Promise!Precedes(B, id, y) \/ Promise!Precedes(B, y, id)
          BY <3>1, <4>2, PriorityIsTotal DEF C
        <4>. QED
          BY <3>3, <4>1, <4>3
      <3>. QED
        BY <1>2, <3>2, <3>3
    <2>5. IF left - qty = 0 THEN quantity <= SumFunctionOnSet(Owed(B), G)
                            ELSE left - qty = quantity - SumFunctionOnSet(Owed(B), G)
      BY <1>1, <1>4, <1>5, <1>7
    <2>6. left - qty > 0 => \A x \in G : filled(x) = B.resting[x].remaining
      BY <1>1, <1>2, <1>4, <1>5, <1>6
    <2>. QED
      BY <2>1, <2>2, <2>3, <2>4, <2>5, <2>6, Zenon DEF Matched, filled, G, C, longer
  <1>. QED
    BY <1>6, <1>8 DEF filled, longer

\* A set that runs from the order with the highest priority to that with the lowest.
ListedByPriority(B, side, H, n, hit) ==
    /\ hit \in [1..n -> Promise!Counter(B, side)]
    /\ H = {hit[i] : i \in 1..n}
    /\ \A i, j \in 1..n : i < j => Promise!Precedes(B, hit[i], hit[j])

\* In a list whose members precede one another in turn, a member's place is one more
\* than how many precede it.
LEMMA PlaceInList ==
    ASSUME NEW B, NEW side \in Side, NEW H, NEW n \in Nat, NEW hit,
           BookShape(B), ListedByPriority(B, side, H, n, hit)
    PROVE  /\ IsFiniteSet(H) /\ Cardinality(H) = n
           /\ Promise!ByPriority(B, H) = hit
  <1>1. /\ \A x, y \in Promise!Counter(B, side) :
              Promise!Precedes(B, x, y) => ~Promise!Precedes(B, y, x)
        /\ \A i, j \in 1..n : i < j => /\ Promise!Precedes(B, hit[i], hit[j])
                                       /\ ~Promise!Precedes(B, hit[j], hit[i])
        /\ H = {hit[i] : i \in 1..n}
        /\ hit \in [1..n -> Promise!Counter(B, side)]
    BY PriorityIsTotal DEF ListedByPriority
  <1>2. \A i \in 1..n : ~Promise!Precedes(B, hit[i], hit[i])
    BY <1>1
  <1>3. \A i, j \in 1..n : Promise!Precedes(B, hit[i], hit[j]) <=> i < j
    <2>. TAKE i \in 1..n, j \in 1..n
    <2>1. i < j \/ i = j \/ j < i
      OBVIOUS
    <2>. QED
      BY <1>1, <1>2, <2>1
  <1>4. \A i, j \in 1..n : hit[i] = hit[j] => i = j
    <2>. TAKE i \in 1..n, j \in 1..n
    <2>1. i < j \/ i = j \/ j < i
      OBVIOUS
    <2>. QED
      BY <1>2, <1>3, <2>1
  <1>5. IsFiniteSet(H) /\ Cardinality(H) = n
    <2>1. hit \in [1..n -> H] /\ \A x \in H : \E i \in 1..n : hit[i] = x
      BY <1>1
    <2>. QED
      BY <1>4, <2>1, ListedSet
  <1>6. ASSUME NEW k \in 1..n
        PROVE  Cardinality({y \in H : Promise!Precedes(B, y, hit[k])}) = k - 1
    <2>. DEFINE T == {y \in H : Promise!Precedes(B, y, hit[k])}
                m == k - 1
                front == [i \in 1..m |-> hit[i]]
    <2>1. m \in Nat /\ \A i \in 1..m : i \in 1..n /\ i < k
      OBVIOUS
    <2>2. \A i \in 1..m : front[i] = hit[i] /\ front[i] \in T
      BY <1>1, <1>3, <2>1
    <2>3. front \in [1..m -> T]
      BY <2>2
    <2>4. ASSUME NEW y \in T PROVE \E i \in 1..m : front[i] = y
      <3>1. PICK i \in 1..n : y = hit[i]
        BY <1>1
      <3>2. i < k
        BY <1>3, <3>1
      <3>3. i \in 1..m
        BY <3>2
      <3>. QED
        BY <3>1, <3>3
    <2>5. \A i, j \in 1..m : front[i] = front[j] => i = j
      BY <1>4, <2>1, <2>2
    <2>. HIDE DEF T, m, front
    <2>6. Cardinality(T) = m
      BY <2>1, <2>3, <2>4, <2>5, ListedSet
    <2>. QED
      BY <2>6 DEF T, m
  <1>7. ASSUME NEW i \in 1..n PROVE Promise!ByPriority(B, H)[i] = hit[i]
    <2>. DEFINE place(x) == Cardinality({y \in H : Promise!Precedes(B, y, x)})
    <2>1. Promise!ByPriority(B, H)[i] = CHOOSE x \in H : place(x) = i - 1
      <3>1. Promise!Cardinality(H) = n
            /\ \A T : Promise!Cardinality(T) = Cardinality(T)
        BY <1>5, PromisedArithmetic
      <3>. QED
        BY <3>1 DEF Promise!ByPriority
    <2>2. \A k \in 1..n : place(hit[k]) = k - 1
      BY <1>6
    <2>. HIDE DEF place
    <2>3. hit[i] \in H /\ place(hit[i]) = i - 1
      BY <1>1, <2>2
    <2>4. ASSUME NEW x \in H, place(x) = i - 1 PROVE x = hit[i]
      <3>1. PICK k \in 1..n : x = hit[k]
        BY <1>1
      <3>2. k = i
        BY <2>2, <2>4, <3>1
      <3>. QED
        BY <3>1, <3>2
    <2>. QED
      BY <2>1, <2>3, <2>4
  <1>8. Promise!ByPriority(B, H) = hit
    <2>. DEFINE ranked == Promise!ByPriority(B, H)
                nth(i) == CHOOSE x \in H :
                             Promise!Cardinality({y \in H : Promise!Precedes(B, y, x)}) = i - 1
    <2>1. Promise!Cardinality(H) = n
      BY <1>5, PromisedArithmetic
    <2>2. ranked = [i \in 1..n |-> ranked[i]]
      <3>1. ranked = [i \in 1..n |-> nth(i)]
        BY <2>1, Zenon DEF Promise!ByPriority
      <3>. HIDE DEF nth, ranked
      <3>. QED
        BY <3>1
    <2>3. hit = [i \in 1..n |-> hit[i]]
      BY <1>1
    <2>. HIDE DEF ranked
    <2>4. \A i \in 1..n : ranked[i] = hit[i]
      BY <1>7 DEF ranked
    <2>5. ranked = hit
      BY <2>2, <2>3, <2>4
    <2>. QED
      BY <2>5 DEF ranked
  <1>. QED
    BY <1>5, <1>8

\* A match that has stopped, because nothing is left of the quantity or because it has
\* traded against every order it could, has filled what priority gives and no more.
LEMMA MatchIsComplete ==
    ASSUME NEW B, NEW side \in Side, NEW quantity \in Nat, NEW list \in Seq(Fill),
           NEW left \in Nat, BookShape(B), Matched(B, side, quantity, list, left),
           left = 0 \/ Promise!Counter(B, side) \subseteq Hits(list)
    PROVE  /\ Promise!Hit(B, side, quantity) = Hits(list)
           /\ Promise!Fills(B, side, quantity) = list
  <1>. DEFINE H == Hits(list)
              C == Promise!Counter(B, side)
              n == Len(list)
              hit == [i \in 1..n |-> list[i].order_id]
  <1>1. /\ H \subseteq C
        /\ \A i \in 1..n : /\ list[i].price = B.resting[list[i].order_id].price
                           /\ list[i].quantity = Promise!Filled(B, side, quantity, list[i].order_id)
                           /\ list[i].quantity > 0
        /\ \A i, j \in 1..n : i < j => Promise!Precedes(B, list[i].order_id, list[j].order_id)
        /\ \A x \in H : \A y \in C \ H : Promise!Precedes(B, x, y)
    BY Zenon DEF Matched
  <1>2. n \in Nat /\ H = {hit[i] : i \in 1..n}
    BY DEF Hits
  <1>3. hit \in [1..n -> C] /\ \A i \in 1..n : hit[i] = list[i].order_id
    BY <1>1, <1>2
  <1>. HIDE DEF H, C, hit, n
  <1>4. \A i, j \in 1..n : i < j => Promise!Precedes(B, hit[i], hit[j])
    BY <1>1, <1>3
  <1>5. /\ IsFiniteSet(H) /\ Cardinality(H) = n
        /\ Promise!ByPriority(B, H) = hit
    <2>1. hit \in [1..n -> Promise!Counter(B, side)]
      BY <1>3 DEF C
    <2>2. ListedByPriority(B, side, H, n, hit)
      BY <1>2, <1>4, <2>1 DEF ListedByPriority
    <2>. QED
      BY <1>2, <2>2, PlaceInList
  <1>6. Promise!Hit(B, side, quantity) = H
    <2>1. ASSUME NEW x \in H PROVE x \in C /\ Promise!Filled(B, side, quantity, x) > 0
      <3>1. PICK i \in 1..n : x = hit[i]
        BY <1>2
      <3>. QED
        BY <1>1, <1>3, <3>1
    <2>2. ASSUME NEW x \in C, x \notin H PROVE Promise!Filled(B, side, quantity, x) = 0
      <3>1. left = 0
        BY <2>2 DEF H, C
      <3>2. quantity <= SumFunctionOnSet(Owed(B), H)
        BY <3>1, Zenon DEF Matched, H
      <3>. DEFINE P == Prior(B, side, x)
      <3>3. H \in SUBSET P
        BY <1>1, <2>2 DEF Prior, C
      <3>4. IsFiniteSet(P) /\ \A y \in P : Owed(B)[y] \in Nat
        <4>1. P \in SUBSET Promise!Resting(B)
          BY DEF Prior, Promise!Counter
        <4>. QED
          BY <4>1, FS_Subset DEF BookShape, Owed, RestingOrder
      <3>. HIDE DEF P
      <3>5. /\ SumFunctionOnSet(Owed(B), H) \in Nat
            /\ SumFunctionOnSet(Owed(B), H) <= SumFunctionOnSet(Owed(B), P)
        BY <3>3, <3>4, SumOfPart
      <3>6. /\ Promise!Ahead(B, side, x) = SumFunctionOnSet(Owed(B), P)
            /\ Promise!Ahead(B, side, x) \in Nat
            /\ quantity - Promise!Ahead(B, side, x) <= 0 => Promise!Filled(B, side, quantity, x) = 0
        BY <2>2, FilledIs, Zenon DEF C, P
      <3>7. quantity - Promise!Ahead(B, side, x) <= 0
        BY <3>2, <3>5, <3>6
      <3>. QED
        BY <3>6, <3>7
    <2>3. Promise!Hit(B, side, quantity) = {x \in C : Promise!Filled(B, side, quantity, x) > 0}
      BY Zenon DEF Promise!Hit, C
    <2>. QED
      BY <1>1, <2>1, <2>2, <2>3
  <1>7. Promise!Fills(B, side, quantity) = list
    <2>. DEFINE given == Promise!Fills(B, side, quantity)
    <2>1. given = [i \in 1..n |->
                     [order_id |-> Promise!ByPriority(B, H)[i],
                      price |-> B.resting[Promise!ByPriority(B, H)[i]].price,
                      quantity |-> Promise!Filled(B, side, quantity, Promise!ByPriority(B, H)[i])]]
      <3>1. Promise!Cardinality(H) = n
        BY <1>5, PromisedArithmetic
      <3>. QED
        BY <1>6, <3>1, Zenon DEF Promise!Fills
    <2>2. \A i \in 1..n : given[i] = [order_id |-> hit[i], price |-> B.resting[hit[i]].price,
                                      quantity |-> Promise!Filled(B, side, quantity, hit[i])]
      BY <1>5, <2>1
    <2>3. \A i \in 1..n : list[i] = [order_id |-> hit[i], price |-> B.resting[hit[i]].price,
                                     quantity |-> Promise!Filled(B, side, quantity, hit[i])]
      <3>. TAKE i \in 1..n
      <3>1. list[i] \in Fill
        BY DEF n
      <3>2. list[i] = [order_id |-> list[i].order_id, price |-> list[i].price,
                       quantity |-> list[i].quantity]
        BY <3>1 DEF Fill
      <3>. QED
        BY <1>1, <1>3, <3>2
    <2>4. list = [i \in 1..n |-> list[i]]
      BY DEF n
    <2>5. given = [i \in 1..n |-> given[i]]
      BY <2>1
    <2>. HIDE DEF given
    <2>6. \A i \in 1..n : given[i] = list[i]
      BY <2>2, <2>3
    <2>. QED
      BY <2>4, <2>5, <2>6 DEF given
  <1>. QED
    BY <1>6, <1>7 DEF H

-----------------------------------------------------------------------------
(* A match, step by step.                                                  *)

\* What a market order has filled an order with so far.
Given(B, side, quantity, list, id) ==
    IF id \in Hits(list) THEN Promise!Filled(B, side, quantity, id) ELSE 0

\* The order table in the middle of a match: the book it began with, less the fills.
Reflects(B, side, quantity, list, now) ==
    /\ DOMAIN now = B.known
    /\ \A id \in DOMAIN now :
          ~now[id].is_cancelled <=>
             /\ id \in Promise!Resting(B)
             /\ Given(B, side, quantity, list, id) < B.resting[id].remaining
    /\ \A id \in DOMAIN now :
          ~now[id].is_cancelled =>
             /\ now[id].side = B.resting[id].side
             /\ now[id].price = B.resting[id].price
             /\ now[id].quantity = B.resting[id].quantity
             /\ now[id].remaining =
                   B.resting[id].remaining - Given(B, side, quantity, list, id)

\* One more fill.
LEMMA FillReflects ==
    ASSUME NEW B, NEW side, NEW quantity, NEW list \in Seq(Fill), NEW now, NEW after,
           NEW id \in OrderId, NEW qty \in Nat, NEW f \in Fill,
           BookShape(B), Reflects(B, side, quantity, list, now), now \in [DOMAIN now -> Order],
           id \in DOMAIN now, ~now[id].is_cancelled, id \notin Hits(list), f.order_id = id,
           Promise!Filled(B, side, quantity, id) = qty, qty <= now[id].remaining,
           after = [now EXCEPT ![id].remaining = @ - qty,
                               ![id].is_cancelled = (now[id].remaining = qty)]
    PROVE  Reflects(B, side, quantity, Append(list, f), after)
  <1>. DEFINE longer == Append(list, f)
              given(x) == Given(B, side, quantity, list, x)
              given2(x) == Given(B, side, quantity, longer, x)
  <1>1. Hits(longer) = Hits(list) \cup {id}
    BY HitsGrow
  <1>2. given2(id) = qty /\ given(id) = 0 /\ \A x : x # id => given2(x) = given(x)
    <2>. HIDE DEF longer
    <2>. QED
      BY <1>1 DEF Given
  <1>3. /\ DOMAIN now = B.known
        /\ \A x \in DOMAIN now : ~now[x].is_cancelled <=>
                x \in Promise!Resting(B) /\ given(x) < B.resting[x].remaining
        /\ \A x \in DOMAIN now : ~now[x].is_cancelled =>
                /\ now[x].side = B.resting[x].side
                /\ now[x].price = B.resting[x].price
                /\ now[x].quantity = B.resting[x].quantity
                /\ now[x].remaining = B.resting[x].remaining - given(x)
    BY Zenon DEF Reflects
  <1>. HIDE DEF given, given2, longer
  <1>4. now[id] \in Order /\ now[id].remaining \in Nat
    BY DEF Order
  <1>5. /\ DOMAIN after = DOMAIN now
        /\ \A x \in DOMAIN now : x # id => after[x] = now[x]
        /\ after[id].side = now[id].side /\ after[id].price = now[id].price
        /\ after[id].quantity = now[id].quantity
        /\ after[id].remaining = now[id].remaining - qty
        /\ after[id].is_cancelled <=> now[id].remaining = qty
    BY <1>4 DEF Order
  <1>6. PICK owed \in Nat : /\ id \in Promise!Resting(B) /\ owed = B.resting[id].remaining
                            /\ now[id].remaining = owed /\ 0 < owed
    <2>1. id \in Promise!Resting(B) /\ B.resting[id].remaining \in Nat
      BY <1>3 DEF BookShape, RestingOrder
    <2>2. now[id].remaining = B.resting[id].remaining - 0 /\ 0 < B.resting[id].remaining
      BY <1>2, <1>3
    <2>. QED
      BY <2>1, <2>2
  <1>7. ASSUME NEW x \in DOMAIN after
        PROVE  /\ ~after[x].is_cancelled <=>
                     x \in Promise!Resting(B) /\ given2(x) < B.resting[x].remaining
               /\ ~after[x].is_cancelled =>
                     /\ after[x].side = B.resting[x].side
                     /\ after[x].price = B.resting[x].price
                     /\ after[x].quantity = B.resting[x].quantity
                     /\ after[x].remaining = B.resting[x].remaining - given2(x)
    <2>1. CASE x # id
      <3>1. after[x] = now[x] /\ given2(x) = given(x) /\ x \in DOMAIN now
        BY <1>2, <1>5, <2>1
      <3>2. /\ ~now[x].is_cancelled <=>
                  x \in Promise!Resting(B) /\ given(x) < B.resting[x].remaining
            /\ ~now[x].is_cancelled =>
                  /\ now[x].side = B.resting[x].side
                  /\ now[x].price = B.resting[x].price
                  /\ now[x].quantity = B.resting[x].quantity
                  /\ now[x].remaining = B.resting[x].remaining - given(x)
        BY <1>3, <3>1, Zenon
      <3>. QED
        BY <3>1, <3>2, Zenon
    <2>2. CASE x = id
      <3>1. given2(x) = qty /\ x \in Promise!Resting(B) /\ owed = B.resting[x].remaining
        BY <1>2, <1>6, <2>2
      <3>2. ~after[x].is_cancelled <=> given2(x) < B.resting[x].remaining
        BY <1>4, <1>5, <1>6, <2>2, <3>1
      <3>3. /\ after[x].side = B.resting[x].side
            /\ after[x].price = B.resting[x].price
            /\ after[x].quantity = B.resting[x].quantity
            /\ after[x].remaining = B.resting[x].remaining - given2(x)
        BY <1>3, <1>5, <1>6, <2>2, <3>1
      <3>. QED
        BY <3>1, <3>2, <3>3
    <2>. QED
      BY <2>1, <2>2
  <1>9. DOMAIN after = B.known
    BY <1>3, <1>5
  <1>. QED
    BY <1>7, <1>9, Zenon DEF Reflects, given2, longer

\* While a market order is matched: the table is the book as clients still see it, less
\* the fills, which are the first of those that priority gives.
MatchFollowsPriority ==
    call.running =>
        /\ call.quantity \in Quantity
        /\ BookShape(BookValue)
        /\ Matched(BookValue, Opposite(call.side), call.quantity, fills, call.remaining)
        /\ Reflects(BookValue, Opposite(call.side), call.quantity, fills, orders)

\* Between matches the book's value has the shape of one.
LEMMA BookValueShape ==
    ASSUME IInv, ~call.running
    PROVE  /\ BookValue.known = DOMAIN orders
           /\ Promise!Resting(BookValue) = {id \in DOMAIN orders : Live(id)}
           /\ \A id \in DOMAIN orders : Live(id) =>
                 BookValue.resting[id] = [side |-> orders[id].side, price |-> orders[id].price,
                                          quantity |-> orders[id].quantity,
                                          remaining |-> orders[id].remaining,
                                          time |-> Arrived(id)]
           /\ BookShape(BookValue)
  <1>1. PICK B : B = BookValue
    OBVIOUS
  <1>2. Table = orders
    BY DEF Table
  <1>3. /\ B.known = DOMAIN orders
        /\ DOMAIN B.resting = LiveIn(orders)
        /\ \A id \in LiveIn(orders) :
              B.resting[id] = [side |-> orders[id].side, price |-> orders[id].price,
                               quantity |-> orders[id].quantity,
                               remaining |-> orders[id].remaining, time |-> Arrived(id)]
    BY <1>1, <1>2 DEF BookValue
  <1>4. LiveIn(orders) = {id \in DOMAIN orders : Live(id)}
    BY DEF LiveIn, Live, has_order
  <1>5. ASSUME NEW id \in DOMAIN orders, Live(id) PROVE B.resting[id] \in RestingOrder
    <2>1. orders[id] \in Order /\ orders[id].price \in Nat /\ orders[id].quantity \in Nat
      BY PriceAssumption, QuantityAssumption DEF IInv, TypeOK, Order
    <2>2. orders[id].remaining > 0
      BY <1>5 DEF IInv, IndexConsistent, LiveOrdersAreQueued, QueuesHoldLiveOrders, TypeOK, Order
    <2>3. Arrived(id) \in Nat
      BY ArrivedType DEF IInv
    <2>4. /\ orders[id].side \in Side /\ orders[id].remaining \in Nat \ {0}
      BY <2>1, <2>2 DEF Order
    <2>5. B.resting[id] = [side |-> orders[id].side, price |-> orders[id].price,
                           quantity |-> orders[id].quantity,
                           remaining |-> orders[id].remaining, time |-> Arrived(id)]
      BY <1>3, <1>4, <1>5, Zenon
    <2>. QED
      BY <2>1, <2>3, <2>4, <2>5 DEF RestingOrder
  <1>6. ASSUME NEW x \in DOMAIN orders, NEW y \in DOMAIN orders, Live(x), Live(y),
               B.resting[x].time = B.resting[y].time
        PROVE  x = y
    <2>1. Arrived(x) = Arrived(y)
      <3>1. x \in LiveIn(orders) /\ y \in LiveIn(orders)
        BY <1>4, <1>6
      <3>2. ASSUME NEW z \in LiveIn(orders) PROVE B.resting[z].time = Arrived(z)
        <4>1. B.resting[z] = [side |-> orders[z].side, price |-> orders[z].price,
                              quantity |-> orders[z].quantity,
                              remaining |-> orders[z].remaining, time |-> Arrived(z)]
          BY <1>3, Zenon
        <4>. QED
          BY <4>1
      <3>3. B.resting[x].time = Arrived(x) /\ B.resting[y].time = Arrived(y)
        BY <3>1, <3>2
      <3>. QED
        BY <1>6, <3>3
    <2>. QED
      BY <2>1, ArrivedType DEF IInv
  <1>7. IsFiniteSet(LiveIn(orders))
    <2>1. IsFiniteSet(DOMAIN orders) /\ LiveIn(orders) \in SUBSET DOMAIN orders
      BY <1>4, TableIsFinite DEF IInv
    <2>. QED
      BY <2>1, FS_Subset
  <1>8. Promise!Resting(B) = LiveIn(orders)
    BY <1>3 DEF Promise!Resting
  <1>9. BookShape(B)
    <2>1. Promise!Resting(B) \subseteq B.known
      BY <1>3, <1>4, <1>8
    <2>2. \A x \in Promise!Resting(B) : B.resting[x] \in RestingOrder
      BY <1>4, <1>5, <1>8
    <2>3. \A x, y \in Promise!Resting(B) : B.resting[x].time = B.resting[y].time => x = y
      BY <1>4, <1>6, <1>8
    <2>. QED
      BY <1>7, <1>8, <2>1, <2>2, <2>3 DEF BookShape
  <1>. QED
    BY <1>1, <1>3, <1>4, <1>8, <1>9

\* The value is that of the table and the arrivals.
LEMMA SameValue ==
    ASSUME Table' = Table, arrivals' = arrivals
    PROVE  BookValue' = BookValue
  <1>1. \A id : Arrived(id)' = Arrived(id)
    BY DEF Arrived
  <1>2. LiveIn(Table)' = LiveIn(Table)
    BY DEF LiveIn
  <1>. QED
    BY <1>1, <1>2 DEF BookValue

\* What IInv says of the match loop's variables.
LEMMA CallType ==
    ASSUME IInv
    PROVE  /\ call.running \in BOOLEAN /\ call.side \in Side /\ Opposite(call.side) \in Side
           /\ Promise!Opposite(Opposite(call.side)) = call.side
           /\ call.quantity \in Nat /\ call.remaining \in Nat
           /\ fills \in Seq(Fill)
           /\ orders \in [DOMAIN orders -> Order]
    BY DEF IInv, TypeOK, Side, Opposite, Promise!Opposite

\* A match begins with no fills.
LEMMA MatchBeginFollows ==
    ASSUME IInv, NEW side \in Side, NEW quantity \in Quantity, match_market_order(side, quantity)
    PROVE  BookValue' = BookValue /\ MatchFollowsPriority'
  <1>1. ~call.running /\ orders' = orders /\ arrivals' = arrivals /\ before' = orders
    BY DEF match_market_order
  <1>2. /\ call'.running /\ Opposite(call'.side) = side /\ call'.quantity = quantity
        /\ call'.remaining = quantity /\ fills' = <<>>
    BY DEF match_market_order, Opposite, Side
  <1>3. BookValue' = BookValue
    <2>1. Table' = Table
      BY <1>1, <1>2 DEF Table
    <2>. QED
      BY <1>1, <2>1, SameValue
  <1>4. PICK B : B = BookValue
    OBVIOUS
  <1>5. /\ B.known = DOMAIN orders
        /\ Promise!Resting(B) = {id \in DOMAIN orders : Live(id)}
        /\ \A id \in DOMAIN orders : Live(id) =>
              B.resting[id] = [side |-> orders[id].side, price |-> orders[id].price,
                               quantity |-> orders[id].quantity,
                               remaining |-> orders[id].remaining,
                               time |-> Arrived(id)]
        /\ BookShape(B)
    BY <1>1, <1>4, BookValueShape, Zenon
  <1>6. Hits(<<>>) = {} /\ Len(<<>>) = 0
    BY DEF Hits
  <1>7. Matched(B, side, quantity, <<>>, quantity)
    <2>1. quantity \in Nat /\ quantity # 0
      BY QuantityAssumption
    <2>2. quantity = quantity - SumFunctionOnSet(Owed(B), {})
      BY <2>1, SumOfNothing
    <2>3. \A i \in 1..Len(<<>>) : FALSE
      BY <1>6
    <2>. QED
      BY <1>6, <2>1, <2>2, <2>3 DEF Matched
  <1>8. Reflects(B, side, quantity, <<>>, orders)
    <2>. DEFINE given(x) == Given(B, side, quantity, <<>>, x)
    <2>1. \A x : given(x) = 0
      BY <1>6 DEF Given
    <2>. HIDE DEF given
    <2>2. ASSUME NEW id \in DOMAIN orders
          PROVE  ~orders[id].is_cancelled <=>
                    id \in Promise!Resting(B) /\ given(id) < B.resting[id].remaining
      <3>1. ~orders[id].is_cancelled <=> Live(id)
        BY DEF Live, has_order
      <3>2. Live(id) <=> id \in Promise!Resting(B)
        BY <1>5
      <3>3. id \in Promise!Resting(B) => given(id) < B.resting[id].remaining
        BY <1>5, <2>1 DEF BookShape, RestingOrder
      <3>. QED
        BY <3>1, <3>2, <3>3
    <2>3. ASSUME NEW id \in DOMAIN orders, ~orders[id].is_cancelled
          PROVE  /\ orders[id].side = B.resting[id].side
                 /\ orders[id].price = B.resting[id].price
                 /\ orders[id].quantity = B.resting[id].quantity
                 /\ orders[id].remaining = B.resting[id].remaining - given(id)
      <3>1. Live(id)
        BY <2>3 DEF Live, has_order
      <3>2. B.resting[id] = [side |-> orders[id].side, price |-> orders[id].price,
                             quantity |-> orders[id].quantity,
                             remaining |-> orders[id].remaining, time |-> Arrived(id)]
        BY <1>5, <3>1, Zenon
      <3>3. orders[id].remaining \in Nat
        BY CallType DEF Order
      <3>. QED
        BY <2>1, <3>2, <3>3
    <2>. QED
      BY <1>5, <2>2, <2>3, Zenon DEF Reflects, given
  <1>. QED
    BY <1>1, <1>2, <1>3, <1>4, <1>5, <1>7, <1>8, Zenon DEF MatchFollowsPriority

\* While a market order is matched, what is live in the table and not yet hit is as it
\* was when the match began, and precedes what it then preceded.
LEMMA AvailableOrders ==
    ASSUME IInv, MatchFollowsPriority, call.running, call.remaining > 0,
           NEW B, B = BookValue
    PROVE  /\ \A x \in DOMAIN orders : Live(x) /\ orders[x].side = call.side =>
                 /\ x \in Promise!Counter(B, Opposite(call.side))
                 /\ x \notin Hits(fills)
                 /\ B.resting[x].price = orders[x].price
                 /\ B.resting[x].remaining = orders[x].remaining
                 /\ B.resting[x].time = Arrived(x)
           /\ \A x \in Promise!Counter(B, Opposite(call.side)) :
                 x \notin Hits(fills) => x \in DOMAIN orders /\ Live(x) /\ orders[x].side = call.side
  <1>. DEFINE s == Opposite(call.side)
              q == call.quantity
              given(x) == Given(B, s, q, fills, x)
              H == Hits(fills)
  <1>1. BookShape(B) /\ Matched(B, s, q, fills, call.remaining) /\ Reflects(B, s, q, fills, orders)
    BY Zenon DEF MatchFollowsPriority
  <1>2. /\ DOMAIN orders = B.known
        /\ \A id \in DOMAIN orders : ~orders[id].is_cancelled <=>
              id \in Promise!Resting(B) /\ given(id) < B.resting[id].remaining
        /\ \A id \in DOMAIN orders : ~orders[id].is_cancelled =>
              /\ orders[id].side = B.resting[id].side
              /\ orders[id].price = B.resting[id].price
              /\ orders[id].quantity = B.resting[id].quantity
              /\ orders[id].remaining = B.resting[id].remaining - given(id)
    BY <1>1, Zenon DEF Reflects
  <1>3. /\ H \subseteq Promise!Counter(B, s)
        /\ \A x \in H : Promise!Filled(B, s, q, x) = B.resting[x].remaining
    BY <1>1, Zenon DEF Matched
  <1>4. /\ \A x \in H : given(x) = B.resting[x].remaining
        /\ \A x : x \notin H => given(x) = 0
    BY <1>3 DEF Given
  <1>5. Promise!Counter(B, s) = {x \in Promise!Resting(B) : B.resting[x].side = call.side}
    BY CallType DEF Promise!Counter
  <1>6. \A x \in Promise!Resting(B) :
           /\ x \in B.known
           /\ B.resting[x].remaining \in Nat /\ 0 < B.resting[x].remaining
    BY <1>1 DEF BookShape, RestingOrder
  <1>7. \A x \in Promise!Resting(B) : B.resting[x].time = Arrived(x)
    <2>1. Promise!Resting(B) = LiveIn(Table)
      BY DEF BookValue, Promise!Resting
    <2>2. ASSUME NEW x \in LiveIn(Table) PROVE B.resting[x].time = Arrived(x)
      <3>1. B.resting[x] = [side |-> Table[x].side, price |-> Table[x].price,
                            quantity |-> Table[x].quantity,
                            remaining |-> Table[x].remaining, time |-> Arrived(x)]
        BY DEF BookValue
      <3>. QED
        BY <3>1
    <2>. QED
      BY <2>1, <2>2
  <1>. HIDE DEF given, H, s
  <1>8. ASSUME NEW x \in DOMAIN orders, Live(x), orders[x].side = call.side
        PROVE  /\ x \in Promise!Counter(B, s) /\ x \notin H
               /\ B.resting[x].price = orders[x].price
               /\ B.resting[x].remaining = orders[x].remaining
               /\ B.resting[x].time = Arrived(x)
    <2>1. ~orders[x].is_cancelled
      BY <1>8 DEF Live
    <2>2. x \in Promise!Resting(B) /\ given(x) < B.resting[x].remaining
      BY <1>2, <2>1
    <2>3. B.resting[x].remaining \in Nat
      BY <1>6, <2>2
    <2>4. x \notin H
      BY <1>4, <2>2, <2>3
    <2>5. orders[x].remaining = B.resting[x].remaining - 0
      BY <1>2, <1>4, <2>1, <2>4
    <2>6. x \in Promise!Counter(B, s) /\ B.resting[x].price = orders[x].price
      BY <1>2, <1>5, <1>8, <2>1, <2>2
    <2>. QED
      BY <1>7, <2>2, <2>3, <2>4, <2>5, <2>6
  <1>9. ASSUME NEW x \in Promise!Counter(B, s), x \notin H
        PROVE  x \in DOMAIN orders /\ Live(x) /\ orders[x].side = call.side
    <2>1. x \in Promise!Resting(B) /\ B.resting[x].side = call.side
      BY <1>5
    <2>2. given(x) = 0 /\ x \in DOMAIN orders /\ 0 < B.resting[x].remaining
      BY <1>2, <1>4, <1>6, <1>9, <2>1
    <2>3. ~orders[x].is_cancelled
      BY <1>2, <2>1, <2>2
    <2>. QED
      BY <1>2, <2>1, <2>2, <2>3 DEF Live, has_order
  <1>. QED
    BY <1>8, <1>9 DEF H, s

\* An iteration of the match loop makes the next of the fills that priority gives.
LEMMA IterationFollows ==
    ASSUME IInv, MatchFollowsPriority, match_iteration
    PROVE  BookValue' = BookValue /\ MatchFollowsPriority'
  <1>. DEFINE s == Opposite(call.side)
              q == call.quantity
              left == call.remaining
              id == Head(Queue(call.side, call.it))
  <1>1. /\ call.running /\ call.it # END /\ left > 0
        /\ arrivals' = arrivals /\ before' = before
    BY DEF match_iteration
  <1>2. /\ id = Queue(call.side, call.it)[1]
        /\ Live(id) /\ id \in DOMAIN orders /\ orders[id] \in Order
        /\ orders[id].side = call.side /\ orders[id].remaining > 0
    BY <1>1, FrontOfBest, Zenon
  <1>3. PICK hit : hit = id
    OBVIOUS
  <1>4. hit \in OrderId /\ orders[hit].remaining \in Nat /\ ~orders[hit].is_cancelled
    BY <1>2, <1>3 DEF IInv, TypeOK, Order, Live
  <1>5. PICK qty \in Nat : /\ qty = fill_qty(orders[hit])
                           /\ qty = IF orders[hit].remaining < left THEN orders[hit].remaining ELSE left
    BY <1>4, CallType DEF fill_qty
  <1>6. popped(orders[hit]) <=> orders[hit].remaining = qty
    BY <1>4, <1>5 DEF popped
  <1>7. PICK f : f = [order_id |-> hit, price |-> orders[hit].price, quantity |-> qty]
    OBVIOUS
  <1>8. f \in Fill /\ f.order_id = hit
    BY <1>2, <1>3, <1>4, <1>7 DEF Fill, Order
  <1>9. /\ fills' = Append(fills, f)
        /\ orders' = [orders EXCEPT ![hit].remaining = @ - qty,
                                    ![hit].is_cancelled = popped(orders[hit])]
    BY <1>3, <1>4, <1>5, <1>7, Zenon DEF match_iteration, Queue
  <1>10. /\ call'.running = TRUE /\ call'.side = call.side /\ call'.quantity = q
         /\ call'.remaining = left - qty
    <2>1. \E it : call' = [call EXCEPT !.remaining = @ - qty, !.it = it]
      BY <1>3, <1>5, Zenon DEF match_iteration, Queue
    <2>2. call \in [running : BOOLEAN, side : Side, quantity : Nat, remaining : Nat,
                    it : Price \cup {END}]
      BY DEF IInv, TypeOK
    <2>. QED
      BY <1>1, <2>1, <2>2
  <1>11. BookValue' = BookValue
    <2>1. Table' = Table
      BY <1>1, <1>10 DEF Table
    <2>. QED
      BY <1>1, <2>1, SameValue
  <1>12. PICK B : B = BookValue
    OBVIOUS
  <1>. HIDE DEF id, s, q, left
  <1>13. BookShape(B) /\ Matched(B, s, q, fills, left) /\ Reflects(B, s, q, fills, orders)
    BY <1>1, <1>12, Zenon DEF MatchFollowsPriority, s, q, left
  <1>14. /\ s \in Side /\ q \in Nat /\ left \in Nat /\ fills \in Seq(Fill)
         /\ orders \in [DOMAIN orders -> Order]
    BY CallType DEF s, q, left
  <1>15. /\ \A x \in DOMAIN orders : Live(x) /\ orders[x].side = call.side =>
               /\ x \in Promise!Counter(B, s) /\ x \notin Hits(fills)
               /\ B.resting[x].price = orders[x].price
               /\ B.resting[x].remaining = orders[x].remaining
               /\ B.resting[x].time = Arrived(x)
         /\ \A x \in Promise!Counter(B, s) : x \notin Hits(fills) =>
               x \in DOMAIN orders /\ Live(x) /\ orders[x].side = call.side
    BY <1>1, <1>12, AvailableOrders DEF s, left
  <1>16. /\ hit \in Promise!Counter(B, s) /\ hit \notin Hits(fills)
         /\ B.resting[hit].price = orders[hit].price
         /\ B.resting[hit].remaining = orders[hit].remaining
    BY <1>2, <1>3, <1>15
  <1>17. ASSUME NEW x \in Promise!Counter(B, s) \ Hits(fills)
         PROVE  ~Promise!Precedes(B, x, hit)
    <2>1. /\ x \in DOMAIN orders /\ Live(x) /\ orders[x].side = call.side
          /\ B.resting[x].price = orders[x].price /\ B.resting[x].time = Arrived(x)
      BY <1>15
    <2>2. /\ orders[hit].side = call.side /\ B.resting[hit].price = orders[hit].price
          /\ B.resting[hit].time = Arrived(hit)
      BY <1>2, <1>3, <1>15
    <2>3. ~HasPriority(x, hit)
      <3>1. fills'[Len(fills')].order_id = hit
        BY <1>8, <1>9, <1>14, HitsGrow
      <3>2. Trade
        BY IterationRespectsPriority
      <3>. QED
        BY <2>1, <2>2, <3>1, <3>2 DEF Trade
    <2>4. B.resting[x].side = orders[x].side
      <3>1. B.resting[x].side = Promise!Opposite(s)
        BY DEF Promise!Counter
      <3>. QED
        BY <2>1, <3>1, CallType DEF s
    <2>. QED
      BY <2>1, <2>2, <2>3, <2>4 DEF HasPriority, Better, Promise!Precedes, Promise!Better
  <1>18. /\ Promise!Filled(B, s, q, hit) = qty
         /\ Matched(B, s, q, Append(fills, f), left - qty)
    <2>1. f = [order_id |-> hit, price |-> B.resting[hit].price, quantity |-> qty]
      BY <1>7, <1>16
    <2>2. qty = IF B.resting[hit].remaining < left THEN B.resting[hit].remaining ELSE left
      BY <1>5, <1>16 DEF left
    <2>3. left > 0
      BY <1>1 DEF left
    <2>. QED
      BY <1>4, <1>8, <1>13, <1>14, <1>16, <1>17, <2>1, <2>2, <2>3, NextHit
  <1>19. Reflects(B, s, q, Append(fills, f), orders')
    <2>1. orders' = [orders EXCEPT ![hit].remaining = @ - qty,
                                   ![hit].is_cancelled = (orders[hit].remaining = qty)]
      <3>1. popped(orders[hit]) = (orders[hit].remaining = qty)
        BY <1>6, Zenon DEF popped
      <3>. QED
        BY <1>9, <3>1, Zenon
    <2>2. qty <= orders[hit].remaining
      BY <1>4, <1>5, <1>14
    <2>3. hit \in DOMAIN orders
      BY <1>2, <1>3
    <2>. QED
      BY <1>4, <1>8, <1>13, <1>14, <1>16, <1>18, <2>1, <2>2, <2>3, FillReflects
  <1>20. Opposite(call'.side) = s /\ call'.quantity = q /\ call'.remaining = left - qty
    BY <1>10 DEF s, q, left
  <1>21. q \in Quantity
    BY <1>1, Zenon DEF MatchFollowsPriority, q
  <1>. QED
    BY <1>9, <1>11, <1>12, <1>13, <1>18, <1>19, <1>20, <1>21, Zenon DEF MatchFollowsPriority

\* A match that returns has taken the effect, and given the fills, of one market order
\* on the book it began with.
LEMMA ReturnExecutes ==
    ASSUME IInv, MatchFollowsPriority, match_return
    PROVE  Promise!Market(Opposite(call.side), call.quantity)
  <1>. DEFINE s == Opposite(call.side)
              q == call.quantity
              left == call.remaining
              H == Hits(fills)
  <1>1. /\ call.running /\ (call.it = END \/ left = 0)
        /\ answer' = [side |-> s, quantity |-> q, fills |-> fills]
        /\ ~call'.running /\ orders' = orders /\ arrivals' = arrivals
    BY DEF match_return, Idle
  <1>2. PICK B : B = BookValue
    OBVIOUS
  <1>3. BookShape(B) /\ Matched(B, s, q, fills, left) /\ Reflects(B, s, q, fills, orders)
    BY <1>1, <1>2, Zenon DEF MatchFollowsPriority
  <1>4. /\ s \in Side /\ q \in Nat /\ left \in Nat /\ fills \in Seq(Fill) /\ call.side \in Side
        /\ orders \in [DOMAIN orders -> Order]
    BY CallType
  <1>5. left = 0 \/ Promise!Counter(B, s) \subseteq H
    <2>. SUFFICES ASSUME left # 0 PROVE Promise!Counter(B, s) \subseteq H
      OBVIOUS
    <2>1. left > 0 /\ call.it = END
      BY <1>1, <1>4
    <2>2. END = First(call.side, DOMAIN levels[call.side])
      BY <1>1, <2>1 DEF IInv, IteratorAtBest
    <2>3. /\ DOMAIN levels[call.side] \in SUBSET (Nat \ {0})
          /\ Searchable(call.side, DOMAIN levels[call.side])
      BY <1>4, PriceAssumption DEF IInv, TypeOK, LaddersSearchable
    <2>4. DOMAIN levels[call.side] = {}
      BY <1>4, <2>2, <2>3, FirstIsBest DEF END
    <2>5. \A x \in DOMAIN orders : Live(x) => orders[x].side # call.side
      BY <2>4 DEF IInv, IndexConsistent, LiveOrdersAreQueued
    <2>6. \A x \in Promise!Counter(B, s) : x \notin H =>
             x \in DOMAIN orders /\ Live(x) /\ orders[x].side = call.side
      BY <1>1, <1>2, <2>1, AvailableOrders
    <2>. QED
      BY <2>5, <2>6
  <1>. HIDE DEF s, q, left, H
  <1>6. Promise!Hit(B, s, q) = H /\ Promise!Fills(B, s, q) = fills
    BY <1>3, <1>4, <1>5, MatchIsComplete DEF H
  <1>7. answer' = [side |-> s, quantity |-> q, fills |-> Promise!Fills(B, s, q)]
    BY <1>1, <1>6 DEF s, q
  <1>8. BookValue' = Promise!Execute(B, s, q)
    <2>. DEFINE given(x) == Given(B, s, q, fills, x)
                left_in == Promise!Resting(B) \ Promise!Exhausted(B, s, q)
    <2>1. /\ DOMAIN orders = B.known
          /\ \A x \in DOMAIN orders : ~orders[x].is_cancelled <=>
                x \in Promise!Resting(B) /\ given(x) < B.resting[x].remaining
          /\ \A x \in DOMAIN orders : ~orders[x].is_cancelled =>
                /\ orders[x].side = B.resting[x].side
                /\ orders[x].price = B.resting[x].price
                /\ orders[x].quantity = B.resting[x].quantity
                /\ orders[x].remaining = B.resting[x].remaining - given(x)
      BY <1>3, Zenon DEF Reflects
    <2>2. /\ \A x \in H : given(x) = Promise!Filled(B, s, q, x)
          /\ \A x : x \notin H => given(x) = 0
      BY DEF Given, H
    <2>3. \A x \in Promise!Resting(B) :
             /\ B.resting[x] \in RestingOrder /\ x \in DOMAIN orders
             /\ B.resting[x].remaining \in Nat /\ 0 < B.resting[x].remaining
      BY <1>3, <2>1 DEF BookShape, RestingOrder
    <2>4. H \subseteq Promise!Counter(B, s)
      BY <1>3, Zenon DEF Matched, H
    <2>5. \A x \in H : x \in Promise!Resting(B) /\ given(x) \in Nat
                       /\ given(x) <= B.resting[x].remaining
      <3>. TAKE x \in H
      <3>1. x \in Promise!Counter(B, s) /\ x \in Promise!Resting(B)
        BY <2>4 DEF Promise!Counter
      <3>2. /\ Promise!Ahead(B, s, x) \in Nat
            /\ B.resting[x].remaining \in Nat
            /\ Promise!Filled(B, s, q, x) =
                  IF q - Promise!Ahead(B, s, x) <= 0 THEN 0
                  ELSE IF B.resting[x].remaining <= q - Promise!Ahead(B, s, x)
                       THEN B.resting[x].remaining ELSE q - Promise!Ahead(B, s, x)
        BY <1>3, <1>4, <3>1, FilledIs
      <3>3. Promise!Filled(B, s, q, x) \in Nat
            /\ Promise!Filled(B, s, q, x) <= B.resting[x].remaining
        BY <1>4, <3>2
      <3>. QED
        BY <2>2, <3>1, <3>3
    <2>6. LiveIn(orders) = left_in
      <3>1. Promise!Exhausted(B, s, q) = {x \in H : given(x) = B.resting[x].remaining}
        BY <1>6, <2>2 DEF Promise!Exhausted
      <3>. HIDE DEF given
      <3>2. ASSUME NEW x \in Promise!Resting(B)
            PROVE  given(x) < B.resting[x].remaining <=> x \notin Promise!Exhausted(B, s, q)
        BY <2>2, <2>3, <2>5, <3>1
      <3>3. ASSUME NEW x PROVE x \in LiveIn(orders) <=> x \in left_in
        BY <2>1, <2>3, <3>2 DEF LiveIn
      <3>. QED
        BY <3>3
    <2>. DEFINE after(x) == IF x \in H
                            THEN [B.resting[x] EXCEPT !.remaining = @ - Promise!Filled(B, s, q, x)]
                            ELSE B.resting[x]
                shown(x) == [side |-> orders[x].side, price |-> orders[x].price,
                             quantity |-> orders[x].quantity,
                             remaining |-> orders[x].remaining, time |-> Arrived(x)]
    <2>7. Promise!Execute(B, s, q) = [B EXCEPT !.resting = [x \in left_in |-> after(x)]]
      BY <1>6, Zenon DEF Promise!Execute
    <2>8. BookValue' = [known |-> DOMAIN orders, resting |-> [x \in LiveIn(orders) |-> shown(x)]]
      <3>1. Table' = orders
        BY <1>1 DEF Table
      <3>2. \A x : Arrived(x)' = Arrived(x)
        BY <1>1 DEF Arrived
      <3>3. LiveIn(Table)' = LiveIn(orders)
        BY <3>1 DEF LiveIn
      <3>. QED
        BY <3>1, <3>2, <3>3 DEF BookValue
    <2>9. B = [known |-> B.known, resting |-> B.resting]
      BY <1>2 DEF BookValue
    <2>10. \A x \in Promise!Resting(B) : B.resting[x].time = Arrived(x)
      <3>1. Promise!Resting(B) = LiveIn(Table)
        BY <1>2 DEF BookValue, Promise!Resting
      <3>2. ASSUME NEW x \in LiveIn(Table) PROVE B.resting[x].time = Arrived(x)
        <4>1. B.resting[x] = [side |-> Table[x].side, price |-> Table[x].price,
                              quantity |-> Table[x].quantity,
                              remaining |-> Table[x].remaining, time |-> Arrived(x)]
          BY <1>2 DEF BookValue
        <4>. QED
          BY <4>1
      <3>. QED
        BY <3>1, <3>2
    <2>11. ASSUME NEW x \in left_in PROVE after(x) = shown(x)
      <3>1. /\ x \in Promise!Resting(B) /\ x \in DOMAIN orders /\ ~orders[x].is_cancelled
            /\ B.resting[x] \in RestingOrder /\ B.resting[x].remaining \in Nat
        BY <2>3, <2>6 DEF LiveIn
      <3>2. /\ orders[x].side = B.resting[x].side /\ orders[x].price = B.resting[x].price
            /\ orders[x].quantity = B.resting[x].quantity
            /\ orders[x].remaining = B.resting[x].remaining - given(x)
            /\ Arrived(x) = B.resting[x].time
        BY <2>1, <2>10, <3>1
      <3>. HIDE DEF given
      <3>3. after(x) = [side |-> B.resting[x].side, price |-> B.resting[x].price,
                        quantity |-> B.resting[x].quantity,
                        remaining |-> B.resting[x].remaining - given(x),
                        time |-> B.resting[x].time]
        <4>1. CASE x \in H
          BY <2>2, <3>1, <4>1 DEF RestingOrder
        <4>2. CASE x \notin H
          BY <2>2, <3>1, <4>2 DEF RestingOrder
        <4>. QED
          BY <4>1, <4>2
      <3>. QED
        BY <3>2, <3>3
    <2>. HIDE DEF after, shown, left_in
    <2>12. [x \in left_in |-> after(x)] = [x \in LiveIn(orders) |-> shown(x)]
      BY <2>6, <2>11
    <2>13. Promise!Execute(B, s, q) = [known |-> B.known, resting |-> [x \in left_in |-> after(x)]]
      BY <2>7, <2>9
    <2>. QED
      BY <2>1, <2>8, <2>12, <2>13
  <1>. QED
    BY <1>2, <1>7, <1>8, Zenon DEF Promise!Market, s, q

-----------------------------------------------------------------------------
(* The book implements its promise.                                        *)

\* The book begins empty.
LEMMA BeginsEmpty == Init => Promise!Init
  <1>. SUFFICES ASSUME Init PROVE Promise!Init
    OBVIOUS
  <1>1. Table = <<>> /\ answer = NoAnswer
    BY DEF Init, Table, Idle
  <1>2. DOMAIN <<>> = {}
    OBVIOUS
  <1>3. LiveIn(<<>>) = {}
    BY <1>2 DEF LiveIn
  <1>4. BookValue = Promise!NewBook
    BY <1>1, <1>2, <1>3 DEF BookValue, Promise!NewBook
  <1>. QED
    BY <1>1, <1>4 DEF Promise!Init, NoAnswer, Promise!NoAnswer

\* A new order takes its place behind all others.
LEMMA InsertRests ==
    ASSUME IInv, ~call.running, NEW id \in OrderId, NEW side \in Side, NEW price \in Price,
           NEW quantity \in Quantity, ~has_order(id),
           Insert(id, NewOrder(side, price, quantity))
    PROVE  Promise!Limit(id, side, price, quantity)
  <1>. DEFINE order == NewOrder(side, price, quantity)
              new == [side |-> side, price |-> price, quantity |-> quantity,
                      remaining |-> quantity, time |-> Len(arrivals) + 1]
              shown(x) == [side |-> orders[x].side, price |-> orders[x].price,
                           quantity |-> orders[x].quantity,
                           remaining |-> orders[x].remaining, time |-> Arrived(x)]
              shown2(x) == [side |-> orders'[x].side, price |-> orders'[x].price,
                            quantity |-> orders'[x].quantity,
                            remaining |-> orders'[x].remaining, time |-> Arrived(x)']
  <1>1. /\ orders' = Put(orders, id, order) /\ arrivals' = Append(arrivals, id)
        /\ answer' = NoAnswer /\ call' = call /\ id \notin DOMAIN orders
    BY DEF Insert, has_order
  <1>2. /\ DOMAIN orders' = DOMAIN orders \cup {id} /\ orders'[id] = order
        /\ \A x \in DOMAIN orders : orders'[x] = orders[x]
    BY <1>1 DEF Put
  <1>3. /\ Arrived(id)' = Len(arrivals) + 1
        /\ \A x \in DOMAIN orders : Arrived(x)' = Arrived(x)
    BY <1>1, <1>2, ArrivalsGrow DEF IInv
  <1>4. PICK B : B = BookValue
    OBVIOUS
  <1>5. B = [known |-> DOMAIN orders, resting |-> [x \in LiveIn(orders) |-> shown(x)]]
    <2>1. Table = orders
      BY DEF Table
    <2>. QED
      BY <1>4, <2>1 DEF BookValue
  <1>6. BookValue' = [known |-> DOMAIN orders', resting |-> [x \in LiveIn(orders') |-> shown2(x)]]
    <2>1. Table' = orders'
      BY <1>1 DEF Table
    <2>2. LiveIn(Table)' = LiveIn(orders')
      BY <2>1 DEF LiveIn
    <2>. QED
      BY <2>1, <2>2 DEF BookValue
  <1>7. LiveIn(orders') = LiveIn(orders) \cup {id}
    BY <1>2 DEF LiveIn, NewOrder
  <1>8. Promise!Cardinality(DOMAIN orders) = Len(arrivals)
    BY TableIsFinite, PromisedArithmetic DEF IInv
  <1>9. Promise!Rest(B, id, side, price, quantity) =
           [known |-> DOMAIN orders \cup {id},
            resting |-> [x \in LiveIn(orders) \cup {id} |->
                           IF x = id THEN new ELSE B.resting[x]]]
    <2>1. B.known = DOMAIN orders /\ Promise!Resting(B) = LiveIn(orders)
      BY <1>5 DEF Promise!Resting
    <2>. QED
      BY <1>8, <2>1, Zenon DEF Promise!Rest
  <1>10. ASSUME NEW x \in LiveIn(orders) \cup {id}
         PROVE  shown2(x) = IF x = id THEN new ELSE B.resting[x]
    <2>1. CASE x = id
      <3>1. orders'[x] = [side |-> side, price |-> price, quantity |-> quantity,
                          remaining |-> quantity, is_cancelled |-> FALSE]
        BY <1>2, <2>1 DEF NewOrder
      <3>2. Arrived(x)' = Len(arrivals) + 1
        BY <1>3, <2>1
      <3>. QED
        BY <2>1, <3>1, <3>2
    <2>2. CASE x # id
      <3>1. x \in LiveIn(orders) /\ x \in DOMAIN orders
        BY <2>2 DEF LiveIn
      <3>2. B.resting[x] = shown(x)
        BY <1>5, <3>1
      <3>3. orders'[x] = orders[x] /\ Arrived(x)' = Arrived(x)
        BY <1>2, <1>3, <3>1
      <3>. QED
        BY <2>2, <3>2, <3>3
    <2>. QED
      BY <2>1, <2>2
  <1>. HIDE DEF shown, shown2, new
  <1>11. BookValue' = Promise!Rest(B, id, side, price, quantity)
    BY <1>2, <1>6, <1>7, <1>9, <1>10
  <1>12. ~Promise!has_order(B, id)
    BY <1>1, <1>5 DEF Promise!has_order
  <1>. QED
    BY <1>1, <1>4, <1>11, <1>12, Zenon DEF Promise!Limit, NoAnswer, Promise!NoAnswer

\* A cancelled order leaves.
LEMMA CancelWithdraws ==
    ASSUME IInv, ~call.running, NEW id \in OrderId, Live(id), Cancel(id)
    PROVE  Promise!Cancel(id)
  <1>. DEFINE shown(x) == [side |-> orders[x].side, price |-> orders[x].price,
                           quantity |-> orders[x].quantity,
                           remaining |-> orders[x].remaining, time |-> Arrived(x)]
              shown2(x) == [side |-> orders'[x].side, price |-> orders'[x].price,
                            quantity |-> orders'[x].quantity,
                            remaining |-> orders'[x].remaining, time |-> Arrived(x)']
  <1>1. /\ orders' = [orders EXCEPT ![id].is_cancelled = TRUE]
        /\ arrivals' = arrivals /\ answer' = NoAnswer /\ call' = call
        /\ id \in DOMAIN orders /\ orders[id] \in Order
    BY DEF Cancel, Live, has_order, IInv, TypeOK
  <1>2. /\ DOMAIN orders' = DOMAIN orders /\ orders'[id].is_cancelled
        /\ \A x \in DOMAIN orders : x # id => orders'[x] = orders[x]
    BY <1>1 DEF Order
  <1>3. \A x : Arrived(x)' = Arrived(x)
    BY <1>1 DEF Arrived
  <1>4. PICK B : B = BookValue
    OBVIOUS
  <1>5. B = [known |-> DOMAIN orders, resting |-> [x \in LiveIn(orders) |-> shown(x)]]
    <2>1. Table = orders
      BY DEF Table
    <2>. QED
      BY <1>4, <2>1 DEF BookValue
  <1>6. BookValue' = [known |-> DOMAIN orders', resting |-> [x \in LiveIn(orders') |-> shown2(x)]]
    <2>1. Table' = orders'
      BY <1>1 DEF Table
    <2>2. LiveIn(Table)' = LiveIn(orders')
      BY <2>1 DEF LiveIn
    <2>. QED
      BY <2>1, <2>2 DEF BookValue
  <1>7. LiveIn(orders') = LiveIn(orders) \ {id}
    BY <1>2 DEF LiveIn
  <1>8. id \in LiveIn(orders)
    BY <1>1 DEF LiveIn, Live
  <1>9. DOMAIN B.resting = LiveIn(orders) /\ B.known = DOMAIN orders
        /\ \A x \in LiveIn(orders) : B.resting[x] = shown(x)
        /\ B = [known |-> B.known, resting |-> B.resting]
    BY <1>5
  <1>10. Promise!Withdraw(B, id) =
            [known |-> DOMAIN orders, resting |-> [x \in LiveIn(orders) \ {id} |-> B.resting[x]]]
    <2>1. Promise!Withdraw(B, id) =
             [B EXCEPT !.resting = [x \in LiveIn(orders) \ {id} |-> B.resting[x]]]
      BY <1>9, Zenon DEF Promise!Withdraw, Promise!Restrict
    <2>2. PICK rest : rest = [x \in LiveIn(orders) \ {id} |-> B.resting[x]]
      OBVIOUS
    <2>3. [B EXCEPT !.resting = rest] = [known |-> B.known, resting |-> rest]
      <3>1. PICK known : known = DOMAIN orders
        OBVIOUS
      <3>2. PICK resting : resting = [x \in LiveIn(orders) |-> shown(x)]
        OBVIOUS
      <3>3. B = [known |-> known, resting |-> resting]
        BY <1>5, <3>1, <3>2, Zenon
      <3>. QED
        BY <3>3
    <2>. QED
      BY <1>9, <2>1, <2>2, <2>3, Zenon
  <1>11. ASSUME NEW x \in LiveIn(orders) \ {id} PROVE shown2(x) = B.resting[x]
    <2>1. orders'[x] = orders[x] /\ Arrived(x)' = Arrived(x)
      BY <1>2, <1>3 DEF LiveIn
    <2>. QED
      BY <1>9, <2>1
  <1>. HIDE DEF shown, shown2
  <1>12. BookValue' = Promise!Withdraw(B, id)
    BY <1>2, <1>6, <1>7, <1>10, <1>11
  <1>13. id \in Promise!Resting(B)
    BY <1>8, <1>9 DEF Promise!Resting
  <1>. QED
    BY <1>1, <1>4, <1>12, <1>13, Zenon DEF Promise!Cancel, NoAnswer, Promise!NoAnswer

\* Every step of the code is a step of what it promises, or changes nothing a client sees.
LEMMA StepRefines ==
    ASSUME IInv, MatchFollowsPriority, [Next]_vars
    PROVE  [Promise!Next]_<<BookValue, answer>> /\ MatchFollowsPriority'
  <1>1. ASSUME NEW id \in OrderId, NEW side \in Side, NEW price \in Price,
               NEW quantity \in Quantity, ~call.running, ~has_order(id),
               Insert(id, NewOrder(side, price, quantity))
        PROVE  Promise!Next /\ MatchFollowsPriority'
    <2>1. Promise!Limit(id, side, price, quantity)
      BY <1>1, InsertRests
    <2>2. ~call'.running
      BY <1>1 DEF Insert
    <2>. QED
      BY <2>1, <2>2 DEF Promise!Next, Promise!Side, Side, MatchFollowsPriority
  <1>2. ASSUME NEW id \in OrderId, ~call.running, Live(id), Cancel(id)
        PROVE  Promise!Next /\ MatchFollowsPriority'
    <2>1. Promise!Cancel(id)
      BY <1>2, CancelWithdraws
    <2>2. ~call'.running
      BY <1>2 DEF Cancel
    <2>. QED
      BY <2>1, <2>2 DEF Promise!Next, MatchFollowsPriority
  <1>3. ASSUME NEW side \in Side, NEW quantity \in Quantity, match_market_order(side, quantity)
        PROVE  UNCHANGED <<BookValue, answer>> /\ MatchFollowsPriority'
    BY <1>3, MatchBeginFollows DEF match_market_order
  <1>4. CASE match_iteration
    <2>1. UNCHANGED <<BookValue, answer>> /\ MatchFollowsPriority'
      BY <1>4, IterationFollows DEF match_iteration
    <2>. QED
      BY <2>1
  <1>5. CASE match_return
    <2>1. Promise!Market(Opposite(call.side), call.quantity)
      BY <1>5, ReturnExecutes
    <2>2. call.quantity \in Quantity /\ Opposite(call.side) \in Promise!Side
      <3>1. call.running
        BY <1>5 DEF match_return
      <3>2. call.quantity \in Quantity
        BY <3>1, Zenon DEF MatchFollowsPriority
      <3>3. Opposite(call.side) \in Side
        BY CallType
      <3>. QED
        BY <3>2, <3>3 DEF Side, Promise!Side
    <2>3. ~call'.running
      BY <1>5 DEF match_return, Idle
    <2>. QED
      BY <2>1, <2>2, <2>3 DEF Promise!Next, MatchFollowsPriority
  <1>6. CASE UNCHANGED vars
    <2>1. Table' = Table /\ arrivals' = arrivals /\ answer' = answer
      BY <1>6 DEF vars, Table
    <2>2. BookValue' = BookValue
      BY <2>1, SameValue
    <2>3. call' = call /\ fills' = fills /\ orders' = orders
      BY <1>6 DEF vars
    <2>4. MatchFollowsPriority'
      BY <2>2, <2>3, Zenon DEF MatchFollowsPriority
    <2>. QED
      BY <2>1, <2>2, <2>4
  <1>. QED
    BY <1>1, <1>2, <1>3, <1>4, <1>5, <1>6, StepCases

\* Every match, at every iteration, is so far the match that priority prescribes.
LEMMA MatchesFollowPriority == Spec => []MatchFollowsPriority
  <1>1. Init => MatchFollowsPriority
    BY DEF Init, Idle, MatchFollowsPriority
  <1>2. IInv /\ MatchFollowsPriority /\ [Next]_vars => MatchFollowsPriority'
    BY StepRefines
  <1>. QED
    BY <1>1, <1>2, Invariance, PTL DEF Spec

\* Refinement: whatever levels, queues, cached totals and a loop with an iterator do,
\* clients see each order rest, each cancel take it away, and each market order filled,
\* all at once, by price-time priority.  A match takes effect when match_market_order
\* returns.
THEOREM BookKeepsItsPromise == Spec => ImplementsPriceTimePriority
  <1>1. Init => Promise!Init
    BY BeginsEmpty
  <1>2. IInv /\ MatchFollowsPriority /\ [Next]_vars => [Promise!Next]_<<BookValue, answer>>
    BY StepRefines
  <1>. QED
    BY <1>1, <1>2, Invariance, MatchesFollowPriority, PTL
    DEF Spec, ImplementsPriceTimePriority, Promise!Spec

\* The level totals add up what the book's value has at a price.
LEMMA LevelIsTotal ==
    ASSUME IInv, TotalsExact, ~call.running, NEW side \in Side
    PROVE  /\ Promise!Prices(BookValue, side) = DOMAIN levels[side]
           /\ \A p \in DOMAIN levels[side] :
                 Promise!Total(BookValue, side, p) = levels[side][p].total_quantity
  <1>1. PICK B : B = BookValue
    OBVIOUS
  <1>2. /\ Promise!Resting(B) = {id \in DOMAIN orders : Live(id)}
        /\ \A id \in DOMAIN orders : Live(id) =>
              B.resting[id] = [side |-> orders[id].side, price |-> orders[id].price,
                               quantity |-> orders[id].quantity,
                               remaining |-> orders[id].remaining,
                               time |-> Arrived(id)]
    BY <1>1, BookValueShape, Zenon
  <1>3. ASSUME NEW id \in DOMAIN orders, Live(id)
        PROVE  /\ B.resting[id].side = orders[id].side
               /\ B.resting[id].price = orders[id].price
               /\ B.resting[id].remaining = orders[id].remaining
    <2>1. B.resting[id] = [side |-> orders[id].side, price |-> orders[id].price,
                           quantity |-> orders[id].quantity,
                           remaining |-> orders[id].remaining, time |-> Arrived(id)]
      BY <1>2, <1>3, Zenon
    <2>. QED
      BY <2>1
  <1>4. ASSUME NEW id \in DOMAIN orders, Live(id), orders[id].side = side
        PROVE  /\ orders[id].price \in DOMAIN levels[side]
               /\ id \in Range(Queue(side, orders[id].price))
    <2>1. PICK i \in 1..Len(Queue(side, orders[id].price)) : Queue(side, orders[id].price)[i] = id
      BY <1>4 DEF IInv, IndexConsistent, LiveOrdersAreQueued
    <2>2. orders[id].price \in DOMAIN levels[side]
      BY <1>4 DEF IInv, IndexConsistent, LiveOrdersAreQueued
    <2>3. DOMAIN Queue(side, orders[id].price) = 1..Len(Queue(side, orders[id].price))
      BY <2>2, QueueFacts
    <2>. QED
      BY <2>1, <2>2, <2>3 DEF Range
  <1>5. ASSUME NEW p \in DOMAIN levels[side]
        PROVE  /\ Queue(side, p) # <<>> /\ Queue(side, p) \in Seq(OrderId)
               /\ \A id \in Range(Queue(side, p)) :
                     id \in DOMAIN orders /\ Live(id) /\ orders[id].side = side /\ orders[id].price = p
    <2>1. Queue(side, p) \in Seq(OrderId)
      BY QueueFacts
    <2>2. ASSUME NEW id \in Range(Queue(side, p))
          PROVE  id \in DOMAIN orders /\ Live(id) /\ orders[id].side = side /\ orders[id].price = p
      <3>1. PICK i \in 1..Len(Queue(side, p)) : id = Queue(side, p)[i]
        BY <2>1 DEF Range
      <3>. QED
        BY <3>1 DEF IInv, IndexConsistent, QueuesHoldLiveOrders, Live, has_order
    <2>. QED
      BY <2>1, <2>2 DEF IInv, IndexConsistent, QueuesHoldLiveOrders
  <1>6. Promise!Prices(B, side) = DOMAIN levels[side]
    <2>1. ASSUME NEW p \in DOMAIN levels[side] PROVE p \in Promise!Prices(B, side)
      <3>1. PICK id : id \in Range(Queue(side, p))
        <4>1. Queue(side, p)[1] \in Range(Queue(side, p))
          BY <1>5 DEF Range
        <4>. QED
          BY <4>1
      <3>2. id \in Promise!Resting(B) /\ B.resting[id].side = side /\ B.resting[id].price = p
        BY <1>2, <1>3, <1>5, <3>1
      <3>. QED
        BY <3>2 DEF Promise!Prices
    <2>2. ASSUME NEW p \in Promise!Prices(B, side) PROVE p \in DOMAIN levels[side]
      <3>1. PICK id \in Promise!Resting(B) : B.resting[id].side = side /\ B.resting[id].price = p
        BY DEF Promise!Prices
      <3>. QED
        BY <1>2, <1>3, <1>4, <3>1
    <2>. QED
      BY <2>1, <2>2
  <1>7. ASSUME NEW p \in DOMAIN levels[side]
        PROVE  Promise!Total(B, side, p) = levels[side][p].total_quantity
    <2>. DEFINE level == {id \in Promise!Resting(B) : B.resting[id].side = side
                                                     /\ B.resting[id].price = p}
                f == [id \in level |-> B.resting[id].remaining]
    <2>1. level = Range(Queue(side, p))
      <3>1. ASSUME NEW id \in level PROVE id \in Range(Queue(side, p))
        BY <1>2, <1>3, <1>4
      <3>2. ASSUME NEW id \in Range(Queue(side, p)) PROVE id \in level
        BY <1>2, <1>3, <1>5
      <3>. QED
        BY <3>1, <3>2
    <2>2. ASSUME NEW id \in level PROVE f[id] = Remaining[id]
      BY <1>2, <1>3 DEF Remaining
    <2>3. Promise!Total(B, side, p) = Promise!SumFunction(f)
      BY Zenon DEF Promise!Total
    <2>4. DOMAIN f = level
      OBVIOUS
    <2>5. IsFiniteSet(Range(Queue(side, p)))
      BY QueueFacts
    <2>. HIDE DEF f, level
    <2>6. Promise!SumFunction(f) = SumFunctionOnSet(f, level)
      BY <2>4, PromisedArithmetic
    <2>7. SumFunctionOnSet(f, level) = SumFunctionOnSet(Remaining, level)
      BY <2>1, <2>2, <2>5, SumSame
    <2>8. levels[side][p].total_quantity = SumFunctionOnSet(Remaining, Range(Queue(side, p)))
      BY Zenon DEF TotalsExact, Remaining
    <2>. QED
      BY <2>1, <2>3, <2>6, <2>7, <2>8
  <1>. QED
    BY <1>1, <1>6, <1>7

\* get_snapshot shows the best levels of each side, with the quantity that rests there.
THEOREM SnapshotsAreTrue == Spec => []SnapshotShowsTheBook
  <1>1. ASSUME IInv, TotalsExact PROVE SnapshotShowsTheBook
    <2>. SUFFICES ASSUME ~call.running, NEW side \in Side, NEW depth \in 0..Cardinality(Price)
                  PROVE  get_snapshot(side, depth) =
                            {<<p, Promise!Total(BookValue, side, p)>> :
                               p \in {p \in Promise!Prices(BookValue, side) :
                                        Cardinality({r \in Promise!Prices(BookValue, side) :
                                                       Promise!Better(side, r, p)}) < depth}}
      BY Zenon DEF SnapshotShowsTheBook
    <2>1. /\ Promise!Prices(BookValue, side) = DOMAIN levels[side]
          /\ \A p \in DOMAIN levels[side] :
                Promise!Total(BookValue, side, p) = levels[side][p].total_quantity
      BY <1>1, LevelIsTotal
    <2>2. \A p, r : Promise!Better(side, r, p) <=> Better(side, r, p)
      BY DEF Promise!Better, Better
    <2>. DEFINE rank(p) == Cardinality({r \in DOMAIN levels[side] : Better(side, r, p)})
                rank2(p) == Cardinality({r \in Promise!Prices(BookValue, side) :
                                           Promise!Better(side, r, p)})
    <2>3. \A p : rank(p) = rank2(p)
      <3>. TAKE p
      <3>1. {r \in DOMAIN levels[side] : Better(side, r, p)} =
               {r \in Promise!Prices(BookValue, side) : Promise!Better(side, r, p)}
        BY <2>1, <2>2
      <3>. QED
        BY <3>1, Zenon
    <2>4. get_snapshot(side, depth) =
             {<<p, levels[side][p].total_quantity>> :
                p \in {p \in DOMAIN levels[side] : rank(p) < depth}}
      BY Zenon DEF get_snapshot
    <2>. HIDE DEF rank, rank2
    <2>5. {<<p, levels[side][p].total_quantity>> :
             p \in {p \in DOMAIN levels[side] : rank(p) < depth}} =
          {<<p, Promise!Total(BookValue, side, p)>> :
             p \in {p \in Promise!Prices(BookValue, side) : rank2(p) < depth}}
      BY <2>1, <2>3
    <2>. QED
      BY <2>4, <2>5 DEF rank2
  <1>. QED
    BY <1>1, Invariance, TotalsAreExact, PTL

=============================================================================
