------------------------ MODULE CRDTOrderBook_proofs ------------------------
(***************************************************************************)
(* Proofs about CRDTOrderBook, CRDTRestart, VectorClock and MessageCodec,  *)
(* for every finite set of nodes, all prices and quantities, and any       *)
(* number of operations.                                                   *)
(***************************************************************************)
EXTENDS MessageCodec, CRDTRestart, SetLemmas, SequenceTheorems

-----------------------------------------------------------------------------
(* Vector clocks: what each operation counts.                              *)

\* A clock counts some number of operations of every node.
LEMMA AtIsNat ==
    ASSUME NEW c, IsClock(c, Node), NEW k
    PROVE  at(c, k) \in Nat
    BY DEF IsClock, at

\* A new clock counts nothing.
LEMMA NewClockCounts ==
    ASSUME NEW n \in Node
    PROVE  /\ IsClock(new_clock(n), Node)
           /\ \A k : at(new_clock(n), k) = 0
    BY DEF IsClock, new_clock, at

\* A tick counts one more operation of its node, and no other.
LEMMA TickCounts ==
    ASSUME NEW c, IsClock(c, Node), NEW n \in Node
    PROVE  /\ IsClock(tick(c, n), Node)
           /\ at(tick(c, n), n) = at(c, n) + 1
           /\ \A k : k # n => at(tick(c, n), k) = at(c, k)
    BY DEF IsClock, tick, at

\* A merge counts what either clock counts.
LEMMA MergeCounts ==
    ASSUME NEW c, IsClock(c, Node), NEW d, IsClock(d, Node)
    PROVE  /\ IsClock(merge(c, d), Node)
           /\ \A k : at(merge(c, d), k) = IF at(c, k) >= at(d, k) THEN at(c, k) ELSE at(d, k)
    BY DEF IsClock, merge, at

\* Dominates compares the counts, whatever keys are stored,
LEMMA DominatesCounts ==
    ASSUME NEW c, IsClock(c, Node), NEW d, IsClock(d, Node)
    PROVE  Dominates(d, c) <=> \A k : at(c, k) <= at(d, k)
    BY DEF IsClock, Dominates, at

\* and happens_before is strict domination.
LEMMA BeforeCounts ==
    ASSUME NEW c, IsClock(c, Node), NEW d, IsClock(d, Node)
    PROVE  happens_before(c, d) <=> Dominates(d, c) /\ \E k : at(c, k) < at(d, k)
    BY DEF IsClock, Dominates, happens_before, at

\* happens_before is a strict order on what clocks count, so that of two operations at
\* most one comes before the other, whichever zeros their clocks store.
THEOREM BeforeIsAnOrder ==
    ASSUME NEW c, IsClock(c, Node), NEW d, IsClock(d, Node), NEW e, IsClock(e, Node)
    PROVE  /\ ~happens_before(c, c)
           /\ happens_before(c, d) => ~happens_before(d, c)
           /\ happens_before(c, d) /\ happens_before(d, e) => happens_before(c, e)
  <1>1. \A k : at(c, k) \in Nat /\ at(d, k) \in Nat /\ at(e, k) \in Nat
    BY AtIsNat
  <1>2. ~happens_before(c, c)
    BY <1>1, BeforeCounts
  <1>3. ASSUME happens_before(c, d), happens_before(d, c) PROVE FALSE
    <2>1. PICK k : at(c, k) < at(d, k)
      BY <1>3, BeforeCounts
    <2>2. at(d, k) <= at(c, k)
      BY <1>3, BeforeCounts, DominatesCounts
    <2>. QED
      BY <1>1, <2>1, <2>2
  <1>4. ASSUME happens_before(c, d), happens_before(d, e) PROVE happens_before(c, e)
    <2>1. PICK k : at(c, k) < at(d, k)
      BY <1>4, BeforeCounts
    <2>2. \A j : at(c, j) <= at(d, j) /\ at(d, j) <= at(e, j)
      BY <1>4, BeforeCounts, DominatesCounts
    <2>3. (\A j : at(c, j) <= at(e, j)) /\ at(c, k) < at(e, k)
      BY <1>1, <2>1, <2>2
    <2>. QED
      BY <2>3, BeforeCounts, DominatesCounts
  <1>. QED
    BY <1>2, <1>3, <1>4

\* merge makes the least clock that counts all that either does, so that a node which hears
\* the same clocks in another order, or some of them again, ends with the same clock.
THEOREM MergeIsAJoin ==
    ASSUME NEW c, IsClock(c, Node), NEW d, IsClock(d, Node), NEW e, IsClock(e, Node)
    PROVE  /\ Dominates(merge(c, d), c) /\ Dominates(merge(c, d), d)
           /\ Dominates(e, merge(c, d)) <=> Dominates(e, c) /\ Dominates(e, d)
           /\ merge(c, c) = c
           /\ merge(c, d) = merge(d, c)
           /\ merge(merge(c, d), e) = merge(c, merge(d, e))
  <1>. DEFINE cd == merge(c, d)
              de == merge(d, e)
  <1>1. \A k : at(c, k) \in Nat /\ at(d, k) \in Nat /\ at(e, k) \in Nat
    BY AtIsNat
  <1>2. /\ IsClock(cd, Node)
        /\ \A k : at(cd, k) = IF at(c, k) >= at(d, k) THEN at(c, k) ELSE at(d, k)
    BY MergeCounts
  <1>3. /\ IsClock(de, Node)
        /\ \A k : at(de, k) = IF at(d, k) >= at(e, k) THEN at(d, k) ELSE at(e, k)
    BY MergeCounts
  <1>4. DOMAIN cd = DOMAIN c \cup DOMAIN d /\ DOMAIN de = DOMAIN d \cup DOMAIN e
    BY DEF merge
  <1>5. merge(c, c) = c
    BY <1>1 DEF merge, at, IsClock
  <1>6. merge(c, d) = merge(d, c)
    BY <1>1 DEF merge
  <1>. HIDE DEF cd, de
  <1>7. /\ \A k : at(c, k) <= at(cd, k) /\ at(d, k) <= at(cd, k)
        /\ (\A k : at(cd, k) <= at(e, k))
             <=> (\A k : at(c, k) <= at(e, k)) /\ (\A k : at(d, k) <= at(e, k))
    BY <1>1, <1>2
  <1>8. /\ Dominates(cd, c) /\ Dominates(cd, d)
        /\ Dominates(e, cd) <=> Dominates(e, c) /\ Dominates(e, d)
    BY <1>2, <1>7, DominatesCounts
  <1>9. merge(cd, e) = merge(c, de)
    <2>1. \A k : (IF at(cd, k) >= at(e, k) THEN at(cd, k) ELSE at(e, k))
                   = (IF at(c, k) >= at(de, k) THEN at(c, k) ELSE at(de, k))
      BY <1>1, <1>2, <1>3
    <2>2. DOMAIN cd \cup DOMAIN e = DOMAIN c \cup DOMAIN de
      BY <1>4
    <2>. QED
      BY <2>1, <2>2 DEF merge
  <1>. QED
    BY <1>5, <1>6, <1>8, <1>9 DEF cd, de

-----------------------------------------------------------------------------
(* The shape of the state, and what a step does to it.                     *)

Clock == UNION {[S -> Nat] : S \in SUBSET Node}

AddOperation ==
    [type : {"ADD_ORDER"}, order : LimitOrder, origin_node : Node, clock : Clock, op_id : Nat]

CancelOperation ==
    [type : {"CANCEL_ORDER"}, cancel_order_id : Nat, origin_node : Node, clock : Clock, op_id : Nat]

Operation == AddOperation \cup CancelOperation

IsBook(b) == b = [known |-> b.known, resting |-> b.resting]

\* Every variable is a function of the nodes, and every record has its fields.
Shape ==
    /\ book = [n \in Node |-> book[n]] /\ \A n \in Node : IsBook(book[n])
    /\ clock \in [Node -> Clock]
    /\ op_log \in [Node -> Seq(Operation)]
    /\ seen_ops \in [Node -> SUBSET Nat]
    /\ issued \in Nat

\* The members of Clock are the clocks.
LEMMA ClockType == \A c : c \in Clock <=> IsClock(c, Node)
  <1>1. ASSUME NEW c \in Clock PROVE IsClock(c, Node)
    <2>1. PICK S \in SUBSET Node : c \in [S -> Nat]
      BY DEF Clock
    <2>. QED
      BY <2>1 DEF IsClock
  <1>2. ASSUME NEW c, IsClock(c, Node) PROVE c \in Clock
    BY <1>2 DEF IsClock, Clock
  <1>. QED
    BY <1>1, <1>2

\* The wire changes nothing but a price.
LEMMA OnWireKeeps ==
    ASSUME NEW op \in Operation
    PROVE  /\ OnWire(op) \in Operation
           /\ OnWire(op).type = op.type /\ OnWire(op).op_id = op.op_id
           /\ OnWire(op).origin_node = op.origin_node /\ OnWire(op).clock = op.clock
           /\ op.type = "ADD_ORDER" => /\ OnWire(op).order.order_id = op.order.order_id
                                       /\ OnWire(op).order.side = op.order.side
                                       /\ OnWire(op).order.quantity = op.order.quantity
                                       /\ OnWire(op).order.price = Rewire(op.order.price)
           /\ op.type = "CANCEL_ORDER" => OnWire(op) = op
  <1>1. CASE op \in AddOperation
    <2>1. op.order.price \in Price
      BY <1>1 DEF AddOperation, LimitOrder
    <2>2. Rewire(op.order.price) \in Price
      BY <2>1, LossyAssumption DEF Rewire
    <2>. QED
      BY <1>1, <2>2 DEF OnWire, AddOperation, LimitOrder, Operation
  <1>2. CASE op \in CancelOperation
    BY <1>2 DEF OnWire, CancelOperation, Operation
  <1>. QED
    BY <1>1, <1>2 DEF Operation

\* Node n issues op: it ticks, applies op to its book and records it.
Issues(n, op) ==
    /\ issued < MaxOps
    /\ op.op_id = issued + 1 /\ op.origin_node = n /\ op.clock = tick(clock[n], n)
    /\ IF op.type = "ADD_ORDER" THEN op.order.order_id = op.op_id
       ELSE op.cancel_order_id \in Resting(book[n])
    /\ clock' = [clock EXCEPT ![n] = op.clock]
    /\ book' = [book EXCEPT ![n] = Apply(book[n], op)]
    /\ Record(n, op)
    /\ issued' = issued + 1

\* Node n ticks and publishes nothing: its book loses nothing but resting orders.
OnlyTicks(n, b) ==
    /\ clock' = [clock EXCEPT ![n] = tick(clock[n], n)]
    /\ IsBook(b) /\ b.known = book[n].known /\ Resting(b) \subseteq Resting(book[n])
    /\ book' = [book EXCEPT ![n] = b]
    /\ UNCHANGED <<op_log, seen_ops, issued>>

\* Node n applies the i-th operation of m's log.
Receives(n, m, i) ==
    LET op == OnWire(op_log[m][i])
    IN  /\ op.op_id \notin seen_ops[n]
        /\ clock' = [clock EXCEPT ![n] = merge(clock[n], op.clock)]
        /\ book' = [book EXCEPT ![n] = Apply(book[n], op)]
        /\ Record(n, op)
        /\ UNCHANGED issued

\* A market order publishes nothing, since the book forgets no order.
LEMMA MarketOrderOnlyTicks ==
    ASSUME Shape, TypeOK, NEW n \in Node, NEW side, NEW quantity,
           local_market_order(n, side, quantity)
    PROVE  \E b : OnlyTicks(n, b)
  <1>. DEFINE after == Execute(book[n], side, quantity)
              gone  == {id \in Hit(book[n], side, quantity) : ~has_order(after, id)}
              cancels == [i \in 1..0 |->
                            CancelOp(n, ByPriority(book[n], gone)[i], issued + i, tick(clock[n], n))]
  <1>1. IsBook(book[n]) /\ Resting(book[n]) \subseteq book[n].known
    BY DEF Shape, TypeOK
  <1>2. /\ IsBook(after) /\ after.known = book[n].known
        /\ Resting(after) \subseteq Resting(book[n])
    BY <1>1 DEF Execute, IsBook, Resting
  <1>3. gone = {}
    BY <1>1, <1>2 DEF Hit, Counter, has_order
  <1>4. Cardinality(gone) = 0
    BY <1>3, FS_EmptySet
  <1>. HIDE DEF after, gone
  <1>5. cancels = <<>>
    OBVIOUS
  <1>6. /\ clock' = [clock EXCEPT ![n] = tick(clock[n], n)]
        /\ book' = [book EXCEPT ![n] = after]
        /\ op_log' = [op_log EXCEPT ![n] = @ \o cancels]
        /\ seen_ops' = [seen_ops EXCEPT ![n] = @ \cup (issued + 1)..(issued + 0)]
        /\ issued' = issued + 0
    BY <1>4, Zenon DEF local_market_order, after, gone
  <1>. HIDE DEF cancels
  <1>7. op_log[n] \o cancels = op_log[n]
    BY <1>5 DEF Shape
  <1>8. UNCHANGED <<op_log, seen_ops, issued>>
    BY <1>6, <1>7 DEF Shape
  <1>9. OnlyTicks(n, after)
    BY <1>2, <1>6, <1>8 DEF OnlyTicks
  <1>. QED
    BY <1>9

\* A local add issues an operation,
LEMMA AddIssues ==
    ASSUME Shape, TypeOK, NEW n \in Node, NEW side \in Side, NEW price \in Price,
           NEW quantity \in Quantity, local_add_order(n, side, price, quantity)
    PROVE  LET op == AddOp(n, issued + 1, side, price, quantity, tick(clock[n], n))
           IN  op \in Operation /\ Issues(n, op)
  <1>. DEFINE c  == tick(clock[n], n)
              op == AddOp(n, issued + 1, side, price, quantity, c)
  <1>1. c \in Clock
    BY ClockType, TickCounts DEF Shape
  <1>2. op \in Operation
    BY <1>1 DEF AddOp, AddOperation, Operation, LimitOrder, Shape
  <1>3. ~has_order(book[n], issued + 1)
    BY DEF TypeOK, has_order
  <1>4. Apply(book[n], op) = Rest(book[n], issued + 1, side, price, quantity)
    BY <1>3 DEF Apply, RestReplicated, AddOp
  <1>5. Issues(n, op)
    BY <1>4 DEF local_add_order, Issues, AddOp
  <1>. QED
    BY <1>2, <1>5

\* and so does a cancel of a resting order; one of an order that is gone only ticks.
LEMMA CancelIssues ==
    ASSUME Shape, TypeOK, NEW n \in Node, NEW id \in Nat, local_cancel_order(n, id)
    PROVE  IF id \in Resting(book[n])
           THEN \E op \in Operation : Issues(n, op) /\ op.type = "CANCEL_ORDER"
           ELSE UNCHANGED vars \/ \E b : OnlyTicks(n, b)
  <1>. DEFINE c  == tick(clock[n], n)
              op == CancelOp(n, id, issued + 1, c)
  <1>1. c \in Clock
    BY ClockType, TickCounts DEF Shape
  <1>2. op \in Operation
    BY <1>1 DEF CancelOp, CancelOperation, Operation, Shape
  <1>3. CASE ~has_order(book[n], id)
    BY <1>3 DEF local_cancel_order, has_order, TypeOK
  <1>4. CASE has_order(book[n], id) /\ id \notin Resting(book[n])
    <2>1. OnlyTicks(n, book[n])
      BY <1>4 DEF local_cancel_order, OnlyTicks, Shape
    <2>. QED
      BY <1>4, <2>1
  <1>5. CASE has_order(book[n], id) /\ id \in Resting(book[n])
    <2>1. Apply(book[n], op) = Withdraw(book[n], id)
      BY DEF Apply, CancelOp
    <2>2. Issues(n, op) /\ op.type = "CANCEL_ORDER"
      BY <1>5, <2>1 DEF local_cancel_order, Issues, CancelOp
    <2>. QED
      BY <1>2, <1>5, <2>2
  <1>. QED
    BY <1>3, <1>4, <1>5

\* What a client can make its node do.
LEMMA LocalCases ==
    ASSUME Shape, TypeOK, NEW n \in Node, LocalOperation(n)
    PROVE  \/ UNCHANGED vars
           \/ \E op \in Operation : Issues(n, op)
           \/ \E b : OnlyTicks(n, b)
  <1>1. ASSUME NEW side \in Side, NEW price \in Price, NEW quantity \in Quantity,
               local_add_order(n, side, price, quantity)
        PROVE  \E op \in Operation : Issues(n, op)
    BY <1>1, AddIssues
  <1>2. ASSUME NEW id \in 1..MaxOps, local_cancel_order(n, id)
        PROVE  \/ UNCHANGED vars
               \/ \E b : OnlyTicks(n, b)
               \/ \E op \in Operation : Issues(n, op)
    BY <1>2, CancelIssues, BoundAssumption
  <1>3. ASSUME NEW side \in Side, NEW quantity \in MarketQuantity,
               local_market_order(n, side, quantity)
        PROVE  \E b : OnlyTicks(n, b)
    BY <1>3, MarketOrderOnlyTicks
  <1>. QED
    BY <1>1, <1>2, <1>3 DEF LocalOperation

\* Everything a step can do.
LEMMA StepCases ==
    ASSUME Shape, TypeOK, [Next]_vars
    PROVE  \/ UNCHANGED vars
           \/ \E n \in Node, op \in Operation : Issues(n, op)
           \/ \E n \in Node : \E b : OnlyTicks(n, b)
           \/ \E n \in Node : \E m \in Node \ {n} : \E i \in DOMAIN op_log[m] : Receives(n, m, i)
  <1>1. CASE UNCHANGED vars
    BY <1>1
  <1>2. ASSUME NEW n \in Node, LocalOperation(n)
        PROVE  \/ UNCHANGED vars
               \/ \E op \in Operation : Issues(n, op)
               \/ \E b : OnlyTicks(n, b)
    BY <1>2, LocalCases
  <1>3. ASSUME NEW n \in Node, NEW m \in Node \ {n}, Deliver(m, n)
        PROVE  UNCHANGED vars \/ \E i \in DOMAIN op_log[m] : Receives(n, m, i)
    BY <1>3 DEF Deliver, apply_remote_operation, Receives
  <1>. QED
    BY <1>1, <1>2, <1>3 DEF Next

-----------------------------------------------------------------------------
(* Types.                                                                  *)

\* What recording an operation does to the logs.
LEMMA RecordEffect ==
    ASSUME Shape, NEW n \in Node, NEW op \in Operation, Record(n, op)
    PROVE  /\ op_log' \in [Node -> Seq(Operation)]
           /\ seen_ops' \in [Node -> SUBSET Nat]
           /\ Len(op_log[n]) \in Nat /\ DOMAIN op_log[n] = 1..Len(op_log[n])
           /\ DOMAIN op_log'[n] = 1..(Len(op_log[n]) + 1)
           /\ \A i \in DOMAIN op_log[n] : op_log'[n][i] = op_log[n][i]
           /\ op_log'[n][Len(op_log[n]) + 1] = op
           /\ seen_ops'[n] = seen_ops[n] \cup {op.op_id}
           /\ \A m \in Node \ {n} : op_log'[m] = op_log[m] /\ seen_ops'[m] = seen_ops[m]
           /\ Ops(n)' = Ops(n) \cup {op}
           /\ \A m \in Node \ {n} : Ops(m)' = Ops(m)
  <1>. DEFINE L == op_log[n]
  <1>0. op.op_id \in Nat
    BY DEF Operation, AddOperation, CancelOperation
  <1>1. L \in Seq(Operation) /\ op_log'[n] = Append(L, op)
    BY DEF Shape, Record
  <1>2. /\ op_log' \in [Node -> Seq(Operation)]
        /\ seen_ops' \in [Node -> SUBSET Nat]
        /\ seen_ops'[n] = seen_ops[n] \cup {op.op_id}
        /\ \A m \in Node \ {n} : op_log'[m] = op_log[m] /\ seen_ops'[m] = seen_ops[m]
    BY <1>0, <1>1 DEF Shape, Record
  <1>3. /\ Len(L) \in Nat /\ DOMAIN L = 1..Len(L)
        /\ DOMAIN op_log'[n] = 1..(Len(L) + 1)
        /\ \A i \in DOMAIN L : op_log'[n][i] = L[i]
        /\ op_log'[n][Len(L) + 1] = op
    BY <1>1
  <1>4. Ops(n)' = Ops(n) \cup {op}
    <2>1. ASSUME NEW x \in Ops(n)' PROVE x \in Ops(n) \cup {op}
      BY <1>3 DEF Ops
    <2>2. ASSUME NEW x \in Ops(n) \cup {op} PROVE x \in Ops(n)'
      BY <1>3 DEF Ops
    <2>. QED
      BY <2>1, <2>2
  <1>5. \A m \in Node \ {n} : Ops(m)' = Ops(m)
    BY <1>2 DEF Ops
  <1>. QED
    BY <1>2, <1>3, <1>4, <1>5

\* An operation leaves a book a book, and adds no order but its own.
LEMMA ApplyEffect ==
    ASSUME NEW b, IsBook(b), Resting(b) \subseteq b.known, NEW op \in Operation
    PROVE  /\ IsBook(Apply(b, op)) /\ Resting(Apply(b, op)) \subseteq Apply(b, op).known
           /\ op.type = "ADD_ORDER" => /\ Apply(b, op).known = b.known \cup {op.order.order_id}
                                       /\ Resting(Apply(b, op)) \subseteq
                                            Resting(b) \cup ({op.order.order_id} \ b.known)
           /\ op.type # "ADD_ORDER" => /\ Apply(b, op).known = b.known
                                       /\ Resting(Apply(b, op)) = Resting(b) \ {op.cancel_order_id}
    BY DEF Apply, RestReplicated, Rest, Withdraw, Restrict, has_order, Resting, IsBook

\* The ids in an operation have been given out.
IdsGiven(op) ==
    /\ op.op_id \in 1..issued
    /\ op.type = "ADD_ORDER" => op.order.order_id \in 1..issued
    /\ op.type = "CANCEL_ORDER" => op.cancel_order_id \in 1..issued

\* The logs hold operations of these ids only.
IdsIssued ==
    /\ \A n \in Node : seen_ops[n] \subseteq 1..issued
    /\ \A n \in Node : \A op \in Ops(n) : IdsGiven(op)
    /\ \A n \in Node : Resting(book[n]) \subseteq book[n].known /\ book[n].known \subseteq 1..issued

\* The type invariant is Shape and IdsIssued.
LEMMA TypesFromShape ==
    ASSUME Shape, IdsIssued
    PROVE  TypeOK
  <1>1. \A n \in Node : \A i \in DOMAIN op_log[n] :
            op_log[n][i] \in Operation /\ op_log[n][i] \in Ops(n)
    BY DEF Shape, Ops
  <1>2. ASSUME NEW n \in Node, NEW i \in DOMAIN op_log[n] PROVE IsOperation(op_log[n][i])
    <2>. DEFINE op == op_log[n][i]
    <2>1. op \in Operation /\ op \in Ops(n)
      BY <1>1
    <2>. HIDE DEF op
    <2>2. IsClock(op.clock, Node)
      BY <2>1, ClockType DEF Operation, AddOperation, CancelOperation
    <2>3. IsOperation(op)
      BY <2>1, <2>2 DEF IsOperation, IdsIssued, IdsGiven, Operation, AddOperation, CancelOperation
    <2>. QED
      BY <2>3 DEF op
  <1>3. \A n \in Node : IsClock(clock[n], Node)
    BY ClockType DEF Shape
  <1>4. seen_ops \in [Node -> SUBSET (1..issued)]
    BY DEF Shape, IdsIssued
  <1>5. DOMAIN book = Node /\ DOMAIN clock = Node /\ DOMAIN op_log = Node /\ issued \in Nat
    BY DEF Shape
  <1>. QED
    BY <1>2, <1>3, <1>4, <1>5 DEF TypeOK, IdsIssued

\* What n receives is an operation that m has.
LEMMA ReceivedOperation ==
    ASSUME Shape, NEW n \in Node, NEW m \in Node \ {n}, NEW i \in DOMAIN op_log[m]
    PROVE  /\ op_log[m][i] \in Operation /\ op_log[m][i] \in Ops(m)
           /\ OnWire(op_log[m][i]) \in Operation
           /\ OnWire(op_log[m][i]).clock \in Clock
  <1>1. op_log[m][i] \in Operation /\ op_log[m][i] \in Ops(m)
    BY DEF Shape, Ops
  <1>2. OnWire(op_log[m][i]) \in Operation
    BY <1>1, OnWireKeeps
  <1>3. \A op \in Operation : op.clock \in Clock
    BY DEF Operation, AddOperation, CancelOperation
  <1>. QED
    BY <1>1, <1>2, <1>3

\* A copy has the ids of what it is a copy of.
LEMMA CopyGiven ==
    ASSUME NEW op \in Operation, IdsGiven(op)
    PROVE  IdsGiven(OnWire(op))
  <1>1. op.type \in {"ADD_ORDER", "CANCEL_ORDER"}
    BY DEF Operation, AddOperation, CancelOperation
  <1>. QED
    BY <1>1, OnWireKeeps DEF IdsGiven

\* Applying an operation of ids that have been given out keeps the types.
LEMMA TypesTaken ==
    ASSUME Shape, IdsIssued, NEW n \in Node, NEW op \in Operation, IdsGiven(op), Record(n, op),
           clock' = [clock EXCEPT ![n] = merge(clock[n], op.clock)],
           book' = [book EXCEPT ![n] = Apply(book[n], op)], issued' = issued
    PROVE  Shape' /\ IdsIssued'
  <1>1. op.clock \in Clock
    BY DEF Operation, AddOperation, CancelOperation
  <1>2. IsBook(book[n]) /\ Resting(book[n]) \subseteq book[n].known
    BY DEF Shape, IdsIssued
  <1>3. /\ op.op_id \in 1..issued
        /\ op.type \in {"ADD_ORDER", "CANCEL_ORDER"}
        /\ op.type = "ADD_ORDER" => op.order.order_id \in 1..issued
        /\ op.type = "CANCEL_ORDER" => op.cancel_order_id \in 1..issued
    BY DEF IdsGiven, Operation, AddOperation, CancelOperation
  <1>4. merge(clock[n], op.clock) \in Clock
    BY <1>1, ClockType, MergeCounts DEF Shape
  <1>5. Shape'
    <2>1. clock' \in [Node -> Clock] /\ issued' \in Nat
      BY <1>4 DEF Shape
    <2>2. book' = [k \in Node |-> book'[k]] /\ \A k \in Node : IsBook(book'[k])
      BY <1>1, <1>2, ApplyEffect DEF Shape
    <2>. QED
      BY <1>1, <2>1, <2>2, RecordEffect DEF Shape
  <1>6. \A k \in Node : seen_ops'[k] \subseteq 1..issued'
    <2>1. seen_ops'[n] = seen_ops[n] \cup {op.op_id}
      BY RecordEffect
    <2>2. \A k \in Node \ {n} : seen_ops'[k] = seen_ops[k]
      BY RecordEffect
    <2>. QED
      BY <1>3, <2>1, <2>2 DEF IdsIssued
  <1>7. ASSUME NEW k \in Node, NEW x \in Ops(k)'
        PROVE  /\ x.op_id \in 1..issued'
               /\ x.type = "ADD_ORDER" => x.order.order_id \in 1..issued'
               /\ x.type = "CANCEL_ORDER" => x.cancel_order_id \in 1..issued'
    <2>1. x \in Ops(k) \/ x = op
      BY RecordEffect
    <2>. QED
      BY <1>3, <2>1 DEF IdsIssued, IdsGiven
  <1>8. \A k \in Node : Resting(book'[k]) \subseteq book'[k].known /\ book'[k].known \subseteq 1..issued'
    <2>1. \A k \in Node \ {n} : book'[k] = book[k]
      BY DEF Shape
    <2>2. book'[n] = Apply(book[n], op)
      BY DEF Shape
    <2>3. Apply(book[n], op).known \subseteq 1..issued
      BY <1>1, <1>2, <1>3, ApplyEffect DEF IdsIssued
    <2>4. Resting(Apply(book[n], op)) \subseteq Apply(book[n], op).known
      BY <1>1, <1>2, ApplyEffect
    <2>. QED
      BY <2>1, <2>2, <2>3, <2>4 DEF IdsIssued
  <1>. QED
    BY <1>5, <1>6, <1>7, <1>8 DEF IdsIssued, IdsGiven

\* Every step keeps the types.
LEMMA TypesPreserved ==
    ASSUME Shape, IdsIssued, [Next]_vars
    PROVE  Shape' /\ IdsIssued'
  <1>0. TypeOK
    BY TypesFromShape
  <1>1. CASE UNCHANGED vars
    BY <1>1 DEF vars, Shape, IdsIssued, IdsGiven, Ops
  <1>2. ASSUME NEW n \in Node, NEW op \in Operation, Issues(n, op)
        PROVE  Shape' /\ IdsIssued'
    <2>1. Record(n, op)
      BY <1>2 DEF Issues
    <2>2. IsBook(book[n]) /\ Resting(book[n]) \subseteq book[n].known
      BY DEF Shape, IdsIssued
    <2>3. op.clock \in Clock
      BY DEF Operation, AddOperation, CancelOperation
    <2>4. book' = [book EXCEPT ![n] = Apply(book[n], op)] /\ IsBook(Apply(book[n], op))
      BY <1>2, <2>2, ApplyEffect DEF Issues
    <2>5. Shape'
      <3>1. clock' \in [Node -> Clock] /\ issued' \in Nat
        BY <1>2, <2>3 DEF Issues, Shape
      <3>2. book' = [k \in Node |-> book'[k]] /\ \A k \in Node : IsBook(book'[k])
        BY <2>4 DEF Shape
      <3>. QED
        BY <2>1, <3>1, <3>2, RecordEffect DEF Shape
    <2>6. /\ issued' = issued + 1 /\ issued \in Nat /\ op.op_id = issued + 1
          /\ op.type \in {"ADD_ORDER", "CANCEL_ORDER"}
          /\ op.type = "ADD_ORDER" => op.order.order_id = issued + 1
          /\ op.type = "CANCEL_ORDER" => op.cancel_order_id \in 1..issued
      BY <1>2 DEF Issues, Shape, Operation, AddOperation, CancelOperation, IdsIssued, IdsGiven
    <2>7. \A k \in Node : seen_ops'[k] \subseteq 1..issued'
      BY <2>1, <2>6, RecordEffect DEF IdsIssued
    <2>8. ASSUME NEW k \in Node, NEW x \in Ops(k)'
          PROVE  /\ x.op_id \in 1..issued'
                 /\ x.type = "ADD_ORDER" => x.order.order_id \in 1..issued'
                 /\ x.type = "CANCEL_ORDER" => x.cancel_order_id \in 1..issued'
      <3>1. CASE x \in Ops(k)
        BY <2>6, <3>1 DEF IdsIssued, IdsGiven
      <3>2. CASE x = op
        BY <2>6, <3>2
      <3>. QED
        BY <2>1, <3>1, <3>2, RecordEffect
    <2>9. \A k \in Node : Resting(book'[k]) \subseteq book'[k].known /\ book'[k].known \subseteq 1..issued'
      <3>1. \A k \in Node \ {n} : book'[k] = book[k]
        BY <2>4 DEF Shape
      <3>2. book'[n] = Apply(book[n], op)
        BY <2>4 DEF Shape
      <3>3. Apply(book[n], op).known \subseteq 1..issued'
        BY <2>2, <2>6, ApplyEffect DEF IdsIssued
      <3>4. Resting(Apply(book[n], op)) \subseteq Apply(book[n], op).known
        BY <2>2, ApplyEffect
      <3>. QED
        BY <2>6, <3>1, <3>2, <3>3, <3>4 DEF IdsIssued
    <2>. QED
      BY <2>5, <2>7, <2>8, <2>9 DEF IdsIssued, IdsGiven
  <1>3. ASSUME NEW n \in Node, NEW b, OnlyTicks(n, b)
        PROVE  Shape' /\ IdsIssued'
    <2>1. tick(clock[n], n) \in Clock
      BY ClockType, TickCounts DEF Shape
    <2>2. Shape'
      BY <1>3, <2>1 DEF OnlyTicks, Shape
    <2>3. \A k \in Node : /\ Resting(book'[k]) \subseteq Resting(book[k])
                          /\ book'[k].known = book[k].known
      BY <1>3 DEF OnlyTicks, Shape
    <2>4. \A k \in Node : Ops(k)' = Ops(k)
      BY <1>3 DEF OnlyTicks, Ops
    <2>. QED
      BY <1>3, <2>2, <2>3, <2>4 DEF OnlyTicks, IdsIssued, IdsGiven
  <1>4. ASSUME NEW n \in Node, NEW m \in Node \ {n}, NEW i \in DOMAIN op_log[m], Receives(n, m, i)
        PROVE  Shape' /\ IdsIssued'
    <2>1. PICK op \in Operation : op = OnWire(op_log[m][i])
      BY ReceivedOperation
    <2>2. IdsGiven(op)
      BY <2>1, ReceivedOperation, CopyGiven DEF IdsIssued
    <2>. QED
      BY <1>4, <2>1, <2>2, TypesTaken DEF Receives
  <1>. QED
    BY <1>0, <1>1, <1>2, <1>3, <1>4, StepCases

\* The initial state has the types.
LEMMA TypesInitially == Init => Shape /\ IdsIssued
  <1>. SUFFICES ASSUME Init PROVE Shape /\ IdsIssued
    OBVIOUS
  <1>1. IsBook(NewBook) /\ Resting(NewBook) = {} /\ NewBook.known = {}
    BY DEF IsBook, NewBook, Resting
  <1>2. \A n \in Node : new_clock(n) \in Clock
    BY NewClockCounts, ClockType
  <1>3. Shape
    BY <1>1, <1>2 DEF Init, Shape
  <1>4. \A n \in Node : Ops(n) = {}
    BY DEF Init, Ops
  <1>. QED
    BY <1>1, <1>3, <1>4 DEF Init, IdsIssued

\* Every reachable state has its types: nodes apply only whole operations, whose
\* ids generate_uuid gave out and whose clocks count nodes of the cluster.
THEOREM TypeCorrect == Spec => []TypeOK
  <1>1. Shape /\ IdsIssued /\ [Next]_vars => (Shape /\ IdsIssued)'
    BY TypesPreserved
  <1>2. Shape /\ IdsIssued => TypeOK
    BY TypesFromShape
  <1>. QED
    BY <1>1, <1>2, TypesInitially, PTL DEF Spec

-----------------------------------------------------------------------------
(* Causality.  What the clocks say does not depend on orders and prices,   *)
(* so an operation is reduced to its stamp, which all its copies share.    *)

Stamp(op) ==
    [type |-> op.type, op_id |-> op.op_id, origin_node |-> op.origin_node, clock |-> op.clock]

StampsOf(n) == {Stamp(op) : op \in Ops(n)}

Stamps == UNION {StampsOf(n) : n \in Node}

\* d counts all that c counts.
Below(c, d) == \A k \in Node : at(c, k) <= at(d, k)

\* c counts the operation s is the stamp of.
Counts(c, s) == at(c, s.origin_node) >= at(s.clock, s.origin_node)

\* A node counts an operation of another one because an operation it has did.
Learnt(n) ==
    \A k \in Node \ {n} : at(clock[n], k) > 0 =>
        \E s \in StampsOf(n) : at(s.clock, k) >= at(clock[n], k)

\* No two operations have one id, or count each other, and an operation is in the
\* log of the node it is from; counts never exceed what there is to count; and a
\* clock that counts an operation counts all that the operation does.
CausalInv ==
    /\ \A s \in Stamps : at(s.clock, s.origin_node) >= 1 /\ s \in StampsOf(s.origin_node)
    /\ \A a, b \in Stamps : a.op_id = b.op_id => a = b
    /\ \A a, b \in Stamps : Counts(a.clock, b) /\ Counts(b.clock, a) => a = b
    /\ \A n, m \in Node : at(clock[n], m) <= at(clock[m], m)
    /\ \A s \in Stamps : \A m \in Node : at(s.clock, m) <= at(clock[m], m)
    /\ \A n \in Node : \A s \in Stamps : Counts(clock[n], s) => Below(s.clock, clock[n])
    /\ \A a, b \in Stamps : Counts(b.clock, a) => Below(a.clock, b.clock)
    /\ \A n \in Node : Learnt(n)

\* Dominates is Below.
LEMMA DominatesBelow ==
    ASSUME NEW c \in Clock, NEW d \in Clock
    PROVE  Dominates(d, c) <=> Below(c, d)
  <1>1. IsClock(c, Node) /\ IsClock(d, Node)
    BY ClockType
  <1>2. \A k : k \notin Node => at(c, k) = 0 /\ at(d, k) = 0
    BY <1>1 DEF IsClock, at
  <1>. QED
    BY <1>1, <1>2, DominatesCounts DEF Below

\* Counts are natural numbers.
LEMMA CountIsNat == \A c \in Clock : \A k : at(c, k) \in Nat
    BY ClockType, AtIsNat

\* The parts of a stamp.
LEMMA StampType ==
    ASSUME Shape
    PROVE  /\ \A n \in Node : StampsOf(n) \subseteq Stamps
           /\ \A s \in Stamps : s.origin_node \in Node /\ s.clock \in Clock
           /\ \A n \in Node : \A op \in Ops(n) : op \in Operation
  <1>1. \A n \in Node : \A op \in Ops(n) : op \in Operation
    BY DEF Shape, Ops
  <1>2. \A op \in Operation : op.origin_node \in Node /\ op.clock \in Clock
    BY DEF Operation, AddOperation, CancelOperation
  <1>3. \A op : Stamp(op).origin_node = op.origin_node /\ Stamp(op).clock = op.clock
    BY DEF Stamp
  <1>. QED
    BY <1>1, <1>2, <1>3 DEF StampsOf, Stamps

\* Recording an operation adds its stamp to those of its node.
LEMMA StampRecorded ==
    ASSUME Shape, NEW n \in Node, NEW op \in Operation, Record(n, op)
    PROVE  /\ StampsOf(n)' = StampsOf(n) \cup {Stamp(op)}
           /\ \A m \in Node \ {n} : StampsOf(m)' = StampsOf(m)
           /\ Stamps' = Stamps \cup {Stamp(op)}
  <1>1. Ops(n)' = Ops(n) \cup {op} /\ \A m \in Node \ {n} : Ops(m)' = Ops(m)
    BY RecordEffect
  <1>2. StampsOf(n)' = StampsOf(n) \cup {Stamp(op)}
    BY <1>1 DEF StampsOf, Stamp
  <1>3. \A m \in Node \ {n} : StampsOf(m)' = StampsOf(m)
    BY <1>1 DEF StampsOf, Stamp
  <1>. QED
    BY <1>2, <1>3 DEF Stamps

\* After a tick, all clocks other than n's are as before, and n's counts one more
\* operation of n than any operation or node did.
LEMMA TickEffect ==
    ASSUME Shape, CausalInv, NEW n \in Node, clock' = [clock EXCEPT ![n] = tick(clock[n], n)]
    PROVE  /\ clock'[n] = tick(clock[n], n) /\ clock'[n] \in Clock
           /\ \A m \in Node \ {n} : clock'[m] = clock[m]
           /\ at(clock'[n], n) = at(clock[n], n) + 1
           /\ \A k \in Node \ {n} : at(clock'[n], k) = at(clock[n], k)
           /\ \A m \in Node : at(clock[m], n) < at(clock'[n], n)
           /\ \A s \in Stamps : at(s.clock, n) < at(clock'[n], n)
           /\ \A s \in Stamps : Counts(clock'[n], s) => Below(s.clock, clock'[n])
           /\ \A m, k \in Node : at(clock'[m], k) <= at(clock'[k], k)
           /\ \A s \in Stamps : \A k \in Node : at(s.clock, k) <= at(clock'[k], k)
  <1>1. \A m \in Node : clock[m] \in Clock /\ IsClock(clock[m], Node)
    BY ClockType DEF Shape
  <1>2. /\ clock'[n] = tick(clock[n], n) /\ clock'[n] \in Clock
        /\ at(clock'[n], n) = at(clock[n], n) + 1
        /\ \A k \in Node \ {n} : at(clock'[n], k) = at(clock[n], k)
    BY <1>1, ClockType, TickCounts DEF Shape
  <1>3. \A m \in Node \ {n} : clock'[m] = clock[m]
    BY DEF Shape
  <1>4. \A m, k \in Node : at(clock[m], k) \in Nat
    BY <1>1, CountIsNat
  <1>5. \A s \in Stamps : \A k \in Node : at(s.clock, k) \in Nat
    BY CountIsNat, StampType
  <1>6. \A m \in Node : at(clock[m], n) < at(clock'[n], n)
    BY <1>2, <1>4 DEF CausalInv
  <1>7. \A s \in Stamps : at(s.clock, n) < at(clock'[n], n)
    BY <1>2, <1>4, <1>5 DEF CausalInv
  <1>8. ASSUME NEW s \in Stamps, Counts(clock'[n], s) PROVE Below(s.clock, clock'[n])
    <2>1. s.origin_node \in Node
      BY StampType
    <2>2. Counts(clock[n], s)
      BY <1>2, <1>4, <1>5, <1>8, <2>1 DEF Counts, CausalInv
    <2>3. Below(s.clock, clock[n])
      BY <2>2 DEF CausalInv
    <2>. QED
      BY <1>2, <1>4, <1>5, <2>3 DEF Below
  <1>9. \A m, k \in Node : at(clock'[m], k) <= at(clock'[k], k)
    BY <1>2, <1>3, <1>4 DEF CausalInv
  <1>10. \A s \in Stamps : \A k \in Node : at(s.clock, k) <= at(clock'[k], k)
    BY <1>2, <1>3, <1>4, <1>5 DEF CausalInv
  <1>. QED
    BY <1>2, <1>3, <1>6, <1>7, <1>8, <1>9, <1>10

\* A tick without an operation keeps the invariant.
LEMMA TickCausal ==
    ASSUME Shape, CausalInv, NEW n \in Node, NEW b, OnlyTicks(n, b)
    PROVE  CausalInv'
  <1>1. clock' = [clock EXCEPT ![n] = tick(clock[n], n)]
    BY DEF OnlyTicks
  <1>2. Stamps' = Stamps /\ \A m \in Node : StampsOf(m)' = StampsOf(m)
    BY DEF OnlyTicks, Stamps, StampsOf, Stamp, Ops
  <1>3. /\ \A m \in Node \ {n} : clock'[m] = clock[m]
        /\ \A k \in Node \ {n} : at(clock'[n], k) = at(clock[n], k)
        /\ \A s \in Stamps : Counts(clock'[n], s) => Below(s.clock, clock'[n])
        /\ \A m, k \in Node : at(clock'[m], k) <= at(clock'[k], k)
        /\ \A s \in Stamps : \A k \in Node : at(s.clock, k) <= at(clock'[k], k)
    BY <1>1, TickEffect
  <1>4. \A m \in Node : \A s \in Stamps : Counts(clock'[m], s) => Below(s.clock, clock'[m])
    BY <1>3 DEF CausalInv
  <1>5. ASSUME NEW m \in Node, NEW k \in Node \ {m}, at(clock'[m], k) > 0
        PROVE  \E s \in StampsOf(m)' : at(s.clock, k) >= at(clock'[m], k)
    <2>1. at(clock'[m], k) = at(clock[m], k)
      BY <1>3
    <2>. QED
      BY <1>2, <1>5, <2>1 DEF CausalInv, Learnt
  <1>6. \A m \in Node : Learnt(m)'
    BY <1>5 DEF Learnt
  <1>7. \A s \in Stamps : s \in StampsOf(s.origin_node)'
    BY <1>2, StampType DEF CausalInv
  <1>. QED
    BY <1>2, <1>3, <1>4, <1>6, <1>7 DEF CausalInv

\* An operation that its node issues counts everything its node counts, and no
\* other operation or node counts it.
LEMMA IssueCausal ==
    ASSUME Shape, IdsIssued, CausalInv, NEW n \in Node, NEW op \in Operation, Issues(n, op)
    PROVE  CausalInv'
  <1>. DEFINE new == Stamp(op)
  <1>1. /\ clock' = [clock EXCEPT ![n] = tick(clock[n], n)] /\ Record(n, op)
        /\ new.clock = tick(clock[n], n) /\ new.origin_node = n /\ new.op_id = issued + 1
    BY DEF Issues, Stamp
  <1>2. /\ StampsOf(n)' = StampsOf(n) \cup {new}
        /\ \A m \in Node \ {n} : StampsOf(m)' = StampsOf(m)
        /\ Stamps' = Stamps \cup {new}
    BY <1>1, StampRecorded
  <1>3. /\ clock'[n] = tick(clock[n], n) /\ clock'[n] \in Clock
        /\ \A m \in Node \ {n} : clock'[m] = clock[m]
        /\ at(clock'[n], n) = at(clock[n], n) + 1
        /\ \A k \in Node \ {n} : at(clock'[n], k) = at(clock[n], k)
        /\ \A m \in Node : at(clock[m], n) < at(clock'[n], n)
        /\ \A s \in Stamps : at(s.clock, n) < at(clock'[n], n)
        /\ \A s \in Stamps : Counts(clock'[n], s) => Below(s.clock, clock'[n])
        /\ \A m, k \in Node : at(clock'[m], k) <= at(clock'[k], k)
        /\ \A s \in Stamps : \A k \in Node : at(s.clock, k) <= at(clock'[k], k)
    BY <1>1, TickEffect
  <1>4. new.clock = clock'[n]
    BY <1>1, <1>3
  <1>. HIDE DEF new
  <1>5. \A k \in Node : at(clock'[n], k) \in Nat /\ \A m \in Node : at(clock[m], k) \in Nat
    BY <1>3, CountIsNat DEF Shape
  <1>6. \A s \in Stamps : s.origin_node \in Node /\ \A k \in Node : at(s.clock, k) \in Nat
    BY CountIsNat, StampType
  <1>7. \A s \in Stamps : s.op_id # new.op_id
    <2>1. \A m \in Node : \A x \in Ops(m) : Stamp(x).op_id = x.op_id /\ x.op_id \in 1..issued
      BY DEF Stamp, IdsIssued, IdsGiven
    <2>2. \A s \in Stamps : s.op_id \in 1..issued
      BY <2>1 DEF Stamps, StampsOf
    <2>. QED
      BY <1>1, <2>2 DEF Shape
  <1>8. \A s \in Stamps : ~Counts(s.clock, new)
    BY <1>1, <1>3, <1>4, <1>5, <1>6 DEF Counts
  <1>9. Counts(new.clock, new) /\ Below(new.clock, new.clock)
    BY <1>1, <1>4, <1>5 DEF Counts, Below
  <1>10. \A s \in Stamps' : at(s.clock, s.origin_node) >= 1 /\ s \in StampsOf(s.origin_node)'
    <2>1. \A s \in Stamps : at(s.clock, s.origin_node) >= 1 /\ s \in StampsOf(s.origin_node)'
      BY <1>2, <1>6 DEF CausalInv
    <2>2. at(new.clock, new.origin_node) >= 1 /\ new \in StampsOf(new.origin_node)'
      BY <1>1, <1>2, <1>3, <1>4, <1>5
    <2>. QED
      BY <1>2, <2>1, <2>2
  <1>11. \A a, b \in Stamps' : /\ a.op_id = b.op_id => a = b
                               /\ Counts(a.clock, b) /\ Counts(b.clock, a) => a = b
                               /\ Counts(b.clock, a) => Below(a.clock, b.clock)
    BY <1>2, <1>3, <1>4, <1>7, <1>8, <1>9 DEF CausalInv
  <1>12. \A s \in Stamps' : \A k \in Node : at(s.clock, k) <= at(clock'[k], k)
    BY <1>2, <1>3, <1>4
  <1>13. \A m \in Node : \A s \in Stamps' : Counts(clock'[m], s) => Below(s.clock, clock'[m])
    <2>1. \A m \in Node \ {n} : ~Counts(clock'[m], new)
      BY <1>1, <1>3, <1>4, <1>5 DEF Counts
    <2>2. \A m \in Node : \A s \in Stamps : Counts(clock'[m], s) => Below(s.clock, clock'[m])
      BY <1>3 DEF CausalInv
    <2>. QED
      BY <1>2, <1>4, <1>9, <2>1, <2>2
  <1>14. ASSUME NEW m \in Node, NEW k \in Node \ {m}, at(clock'[m], k) > 0
         PROVE  \E s \in StampsOf(m)' : at(s.clock, k) >= at(clock'[m], k)
    <2>1. at(clock'[m], k) = at(clock[m], k)
      BY <1>3
    <2>. QED
      BY <1>2, <1>14, <2>1 DEF CausalInv, Learnt
  <1>15. \A m \in Node : Learnt(m)'
    BY <1>14 DEF Learnt
  <1>. QED
    BY <1>3, <1>10, <1>11, <1>12, <1>13, <1>15 DEF CausalInv

\* An operation that a node receives brings no stamp that there was not, and the
\* clock that results counts what one of the two counted.
LEMMA ReceiveCausal ==
    ASSUME Shape, CausalInv, NEW n \in Node, NEW m \in Node \ {n}, NEW i \in DOMAIN op_log[m],
           Receives(n, m, i)
    PROVE  CausalInv'
  <1>0. PICK op \in Operation : op = OnWire(op_log[m][i])
    BY ReceivedOperation
  <1>. DEFINE s0 == Stamp(op)
  <1>1. Record(n, op) /\ clock' = [clock EXCEPT ![n] = merge(clock[n], op.clock)]
    BY <1>0 DEF Receives
  <1>2. s0 \in Stamps /\ s0.clock = op.clock
    BY <1>0, ReceivedOperation, OnWireKeeps DEF Stamps, StampsOf, Stamp
  <1>3. /\ StampsOf(n)' = StampsOf(n) \cup {s0}
        /\ \A k \in Node \ {n} : StampsOf(k)' = StampsOf(k)
        /\ Stamps' = Stamps
    BY <1>1, <1>2, StampRecorded
  <1>. HIDE DEF s0
  <1>4. /\ clock[n] \in Clock /\ op.clock \in Clock
        /\ IsClock(clock[n], Node) /\ IsClock(op.clock, Node)
    BY ClockType DEF Shape, Operation, AddOperation, CancelOperation
  <1>5. /\ \A k \in Node \ {n} : clock'[k] = clock[k]
        /\ \A k \in Node : at(clock'[n], k) =
              IF at(clock[n], k) >= at(s0.clock, k) THEN at(clock[n], k) ELSE at(s0.clock, k)
    BY <1>1, <1>2, <1>4, MergeCounts DEF Shape
  <1>6. \A k \in Node : \A p \in Node : at(clock[p], k) \in Nat
    BY CountIsNat DEF Shape
  <1>7. \A s \in Stamps : s.origin_node \in Node /\ \A k \in Node : at(s.clock, k) \in Nat
    BY CountIsNat, StampType
  <1>8. \A s \in Stamps : s \in StampsOf(s.origin_node)'
    BY <1>3, <1>7 DEF CausalInv
  <1>9. /\ \A p, k \in Node : at(clock'[p], k) <= at(clock'[k], k)
        /\ \A s \in Stamps : \A k \in Node : at(s.clock, k) <= at(clock'[k], k)
    <2>1. \A p, k \in Node : /\ at(clock[p], k) <= at(clock[k], k)
                             /\ at(s0.clock, k) <= at(clock[k], k)
      BY <1>2 DEF CausalInv
    <2>2. \A k \in Node : at(clock'[k], k) = at(clock[k], k)
      BY <1>2, <1>5, <1>6, <1>7, <2>1
    <2>3. \A p, k \in Node : at(clock'[p], k) <= at(clock[k], k)
      BY <1>2, <1>5, <1>6, <1>7, <2>1
    <2>. QED
      BY <2>2, <2>3 DEF CausalInv
  <1>10. ASSUME NEW p \in Node, NEW s \in Stamps, Counts(clock'[p], s)
         PROVE  Below(s.clock, clock'[p])
    <2>1. CASE p # n
      BY <1>5, <1>10, <2>1 DEF CausalInv
    <2>2. CASE p = n
      <3>1. Counts(clock[n], s) \/ Counts(s0.clock, s)
        BY <1>2, <1>5, <1>6, <1>7, <1>10, <2>2 DEF Counts
      <3>2. Below(s.clock, clock[n]) \/ Below(s.clock, s0.clock)
        BY <1>2, <3>1 DEF CausalInv
      <3>. QED
        BY <1>2, <1>5, <1>6, <1>7, <2>2, <3>2 DEF Below
    <2>. QED
      BY <2>1, <2>2
  <1>11. ASSUME NEW p \in Node, NEW k \in Node \ {p}, at(clock'[p], k) > 0
         PROVE  \E s \in StampsOf(p)' : at(s.clock, k) >= at(clock'[p], k)
    <2>1. CASE at(clock'[p], k) = at(clock[p], k)
      BY <1>3, <1>11, <2>1 DEF CausalInv, Learnt
    <2>2. CASE p = n /\ at(clock'[p], k) = at(s0.clock, k)
      BY <1>2, <1>3, <1>7, <2>2
    <2>. QED
      BY <1>5, <2>1, <2>2
  <1>12. \A p \in Node : Learnt(p)'
    BY <1>11 DEF Learnt
  <1>. QED
    BY <1>3, <1>8, <1>9, <1>10, <1>12 DEF CausalInv

\* The types and the causal invariant together are inductive.
LEMMA CausalInvariant == Spec => [](Shape /\ IdsIssued /\ CausalInv)
  <1>1. Init => CausalInv
    <2>. SUFFICES ASSUME Init PROVE CausalInv
      OBVIOUS
    <2>1. Stamps = {}
      BY DEF Init, Stamps, StampsOf, Ops
    <2>2. \A n, m \in Node : at(clock[n], m) = 0
      BY NewClockCounts DEF Init
    <2>. QED
      BY <2>1, <2>2 DEF CausalInv, Learnt
  <1>2. ASSUME Shape, IdsIssued, CausalInv, [Next]_vars PROVE CausalInv'
    <2>0. TypeOK
      BY <1>2, TypesFromShape
    <2>1. CASE UNCHANGED vars
      BY <1>2, <2>1 DEF vars, CausalInv, Learnt, Stamps, StampsOf, Stamp, Ops, Counts, Below
    <2>. QED
      BY <1>2, <2>0, <2>1, StepCases, IssueCausal, TickCausal, ReceiveCausal
  <1>3. Shape /\ IdsIssued /\ CausalInv /\ [Next]_vars => (Shape /\ IdsIssued /\ CausalInv)'
    BY <1>2, TypesPreserved
  <1>. QED
    BY <1>1, <1>3, TypesInitially, PTL DEF Spec

\* The stamp of an operation of a log is a stamp.
LEMMA OperationStamped ==
    ASSUME Shape, NEW n \in Node, NEW op \in Ops(n)
    PROVE  /\ Stamp(op) \in Stamps /\ Stamp(op) \in StampsOf(n)
           /\ Stamp(op).clock = op.clock /\ Stamp(op).origin_node = op.origin_node
           /\ Stamp(op).op_id = op.op_id /\ Stamp(op).type = op.type
           /\ op \in Operation /\ op.clock \in Clock /\ op.origin_node \in Node
  <1>1. op \in Operation
    BY StampType
  <1>. QED
    BY <1>1 DEF Stamps, StampsOf, Stamp, Operation, AddOperation, CancelOperation

\* Vector clocks measure causality for any number of nodes, although operations are
\* delivered in any order, repeatedly or not at all (tick and merge of
\* vector_clock.cpp as local_* and apply_remote_operation use them).
THEOREM ClocksAreCausal == Spec => []ClocksMeasureCausality
  <1>1. ASSUME Shape, CausalInv PROVE ClocksMeasureCausality
    <2>1. \A n, m \in Node : at(clock[n], m) <= at(clock[m], m)
      BY <1>1 DEF CausalInv
    <2>2. ASSUME NEW m \in Node, NEW a \in Ops(m), NEW n \in Node,
                 at(clock[n], a.origin_node) >= at(a.clock, a.origin_node)
          PROVE  Dominates(clock[n], a.clock)
      <3>1. Below(a.clock, clock[n])
        BY <1>1, <2>2, OperationStamped DEF CausalInv, Counts
      <3>. QED
        BY <1>1, <3>1, OperationStamped, DominatesBelow DEF Shape
    <2>3. ASSUME NEW m \in Node, NEW a \in Ops(m), NEW n \in Node, NEW b \in Ops(n),
                 at(b.clock, a.origin_node) >= at(a.clock, a.origin_node)
          PROVE  Dominates(b.clock, a.clock)
      <3>1. Counts(Stamp(b).clock, Stamp(a))
        BY <1>1, <2>3, OperationStamped DEF Counts
      <3>2. Below(a.clock, b.clock)
        BY <1>1, <3>1, OperationStamped DEF CausalInv
      <3>. QED
        BY <1>1, <3>2, OperationStamped, DominatesBelow
    <2>. QED
      BY <2>1, <2>2, <2>3 DEF ClocksMeasureCausality
  <1>. QED
    BY <1>1, CausalInvariant, PTL

-----------------------------------------------------------------------------
(* The logs, the duplicate filter and the books.                           *)

\* Recording an operation the node has not seen keeps seen_ops_ the ids of the log.
LEMMA OnceRecorded ==
    ASSUME Shape, NoOperationTwice, NEW n \in Node, NEW op \in Operation, Record(n, op),
           op.op_id \notin seen_ops[n]
    PROVE  NoOperationTwice'
  <1>. DEFINE len == Len(op_log[n])
  <1>1. /\ len \in Nat /\ DOMAIN op_log[n] = 1..len /\ DOMAIN op_log'[n] = 1..(len + 1)
        /\ \A i \in DOMAIN op_log[n] : op_log'[n][i] = op_log[n][i]
        /\ op_log'[n][len + 1] = op
        /\ seen_ops'[n] = seen_ops[n] \cup {op.op_id}
        /\ Ops(n)' = Ops(n) \cup {op}
    BY RecordEffect
  <1>2. \A m \in Node \ {n} : /\ op_log'[m] = op_log[m] /\ seen_ops'[m] = seen_ops[m]
                              /\ Ops(m)' = Ops(m)
    BY RecordEffect
  <1>. HIDE DEF len
  <1>3. seen_ops'[n] = {x.op_id : x \in Ops(n)'}
    BY <1>1 DEF NoOperationTwice
  <1>4. \A i \in DOMAIN op_log[n] : op_log[n][i].op_id # op.op_id
    BY DEF NoOperationTwice, Ops
  <1>5. \A i, j \in DOMAIN op_log'[n] : op_log'[n][i].op_id = op_log'[n][j].op_id => i = j
    <2>1. \A i \in DOMAIN op_log'[n] : i \in DOMAIN op_log[n] \/ i = len + 1
      BY <1>1
    <2>. QED
      BY <1>1, <1>4, <2>1 DEF NoOperationTwice
  <1>. QED
    BY <1>2, <1>3, <1>5 DEF NoOperationTwice

\* A new operation has not been seen, and a received one is applied only when it has not.
LEMMA OncePreserved ==
    ASSUME Shape, IdsIssued, NoOperationTwice, [Next]_vars
    PROVE  NoOperationTwice'
  <1>0. TypeOK
    BY TypesFromShape
  <1>1. CASE UNCHANGED vars
    BY <1>1 DEF vars, NoOperationTwice, Ops
  <1>2. ASSUME NEW n \in Node, NEW op \in Operation, Issues(n, op) PROVE NoOperationTwice'
    <2>1. op.op_id \notin seen_ops[n]
      BY <1>2 DEF Issues, IdsIssued, IdsGiven, Shape
    <2>. QED
      BY <1>2, <2>1, OnceRecorded DEF Issues
  <1>3. ASSUME NEW n \in Node, NEW b, OnlyTicks(n, b) PROVE NoOperationTwice'
    BY <1>3 DEF OnlyTicks, NoOperationTwice, Ops
  <1>4. ASSUME NEW n \in Node, NEW m \in Node \ {n}, NEW i \in DOMAIN op_log[m], Receives(n, m, i)
        PROVE  NoOperationTwice'
    <2>1. PICK op \in Operation : op = OnWire(op_log[m][i])
      BY ReceivedOperation
    <2>2. Record(n, op) /\ op.op_id \notin seen_ops[n]
      BY <1>4, <2>1 DEF Receives
    <2>. QED
      BY <2>2, OnceRecorded
  <1>. QED
    BY <1>0, <1>1, <1>2, <1>3, <1>4, StepCases

\* Replication is idempotent: seen_ops_ is the ids of the log, and no operation is
\* logged, or applied to the book, twice (apply_remote_operation's early return).
THEOREM AppliedOnce == Spec => []NoOperationTwice
  <1>1. Init => NoOperationTwice
    BY DEF Init, NoOperationTwice, Ops
  <1>2. /\ Shape /\ IdsIssued /\ NoOperationTwice /\ [Next]_vars
        => (Shape /\ IdsIssued /\ NoOperationTwice)'
    BY OncePreserved, TypesPreserved
  <1>. QED
    BY <1>1, <1>2, TypesInitially, PTL DEF Spec

\* A node without a causal gap has every operation its clock covers.
LEMMA CountedIsSeen ==
    ASSUME Shape, CausalInv, NoOperationTwice, NEW n \in Node, NEW m \in Node, CausallyClosed(m),
           NEW op \in Ops(n), Below(op.clock, clock[m])
    PROVE  op.op_id \in seen_ops[m]
  <1>. DEFINE a == Stamp(op)
  <1>1. /\ a \in Stamps /\ a.clock = op.clock /\ a.op_id = op.op_id
        /\ op.clock \in Clock /\ a.origin_node \in Node
    BY OperationStamped
  <1>. HIDE DEF a
  <1>2. clock[m] \in Clock /\ IsClock(clock[m], Node) /\ IsClock(op.clock, Node)
    BY <1>1, ClockType DEF Shape
  <1>3. \A k \in Node : at(clock[m], k) \in Nat /\ at(op.clock, k) \in Nat
    BY <1>1, <1>2, CountIsNat
  <1>4. \A s \in StampsOf(m) : s.op_id \in seen_ops[m]
    BY DEF NoOperationTwice, StampsOf, Stamp
  <1>5. CASE a.origin_node = m
    BY <1>1, <1>4, <1>5 DEF CausalInv
  <1>6. CASE a.origin_node # m
    <2>. DEFINE k == a.origin_node
    <2>1. at(op.clock, k) >= 1 /\ at(clock[m], k) >= at(op.clock, k)
      BY <1>1 DEF CausalInv, Below
    <2>2. PICK b \in Ops(m) : at(b.clock, k) >= at(clock[m], k)
      <3>1. at(clock[m], k) > 0
        BY <1>1, <1>3, <2>1
      <3>2. PICK s \in StampsOf(m) : at(s.clock, k) >= at(clock[m], k)
        BY <1>1, <1>6, <3>1 DEF CausalInv, Learnt
      <3>. QED
        BY <3>2 DEF StampsOf, Stamp
    <2>3. /\ Stamp(b) \in Stamps /\ Stamp(b) \in StampsOf(m) /\ Stamp(b).clock = b.clock
          /\ Stamp(b).op_id = b.op_id /\ b.clock \in Clock /\ Stamp(b).origin_node \in Node
      BY OperationStamped
    <2>4. Counts(b.clock, a)
      <3>1. at(b.clock, k) \in Nat
        BY <2>3, CountIsNat
      <3>. QED
        BY <1>1, <1>3, <2>1, <2>2, <3>1 DEF Counts
    <2>5. Below(op.clock, b.clock)
      BY <1>1, <2>3, <2>4 DEF CausalInv
    <2>6. IsClock(b.clock, Node) /\ Dominates(b.clock, op.clock)
      BY <1>1, <2>3, <2>5, ClockType, DominatesBelow
    <2>7. CASE \E j : at(op.clock, j) < at(b.clock, j)
      <3>1. happens_before(op.clock, b.clock)
        BY <1>2, <2>6, <2>7, BeforeCounts
      <3>. QED
        BY <3>1 DEF CausallyClosed
    <2>8. CASE ~\E j : at(op.clock, j) < at(b.clock, j)
      <3>1. at(b.clock, Stamp(b).origin_node) \in Nat /\ at(op.clock, Stamp(b).origin_node) \in Nat
        BY <1>1, <2>3, CountIsNat
      <3>2. Counts(a.clock, Stamp(b))
        BY <1>1, <2>3, <2>8, <3>1 DEF Counts
      <3>3. a = Stamp(b)
        BY <1>1, <2>3, <2>4, <3>2 DEF CausalInv
      <3>. QED
        BY <1>1, <1>4, <2>3, <3>3
    <2>. QED
      BY <2>7, <2>8
  <1>. QED
    BY <1>5, <1>6

\* What is not sent to a peer, the peer's clock covers.
LEMMA UncoveredIsMissing ==
    ASSUME NEW op, op.clock \in Clock, NEW c \in Clock, ~Missing(op, c)
    PROVE  Below(op.clock, c)
  <1>1. IsClock(op.clock, Node) /\ IsClock(c, Node)
    BY ClockType
  <1>2. Dominates(c, op.clock)
    BY <1>1 DEF Missing, happens_before, Dominates, at, IsClock
  <1>. QED
    BY <1>2, DominatesBelow

\* get_operations_since leaves out nothing that a node without a causal gap lacks,
\* for any number of nodes and whatever either of them has received.
THEOREM DeltaIsComplete == Spec => []AntiEntropyComplete
  <1>1. ASSUME Shape, CausalInv, NoOperationTwice PROVE AntiEntropyComplete
    <2>. SUFFICES ASSUME NEW n \in Node, NEW m \in Node, CausallyClosed(m), NEW op \in Ops(n),
                         ~Missing(op, clock[m])
                  PROVE  op.op_id \in seen_ops[m]
      BY DEF AntiEntropyComplete
    <2>1. op.clock \in Clock /\ clock[m] \in Clock
      BY <1>1, OperationStamped DEF Shape
    <2>2. Below(op.clock, clock[m])
      BY <2>1, UncoveredIsMissing
    <2>. QED
      BY <1>1, <2>2, CountedIsSeen
  <1>. QED
    BY <1>1, CausalInvariant, AppliedOnce, PTL

\* Applying an operation and recording it keeps the book what the log says: an add of
\* an order that a cancel in the log took away is an add of a known order.
LEMMA BookRecorded ==
    ASSUME Shape, IdsIssued, BookFollowsLog, NEW n \in Node, NEW op \in Operation, Record(n, op),
           book' = [book EXCEPT ![n] = Apply(book[n], op)]
    PROVE  BookFollowsLog'
  <1>. DEFINE len == Len(op_log[n])
              after == Apply(book[n], op)
  <1>1. /\ len \in Nat /\ DOMAIN op_log[n] = 1..len /\ DOMAIN op_log'[n] = 1..(len + 1)
        /\ \A i \in DOMAIN op_log[n] : op_log'[n][i] = op_log[n][i]
        /\ op_log'[n][len + 1] = op
        /\ Ops(n)' = Ops(n) \cup {op}
    BY RecordEffect
  <1>2. \A m \in Node \ {n} : op_log'[m] = op_log[m] /\ Ops(m)' = Ops(m) /\ book'[m] = book[m]
    BY RecordEffect DEF Shape
  <1>3. book'[n] = after
    BY DEF Shape
  <1>4. /\ op.type = "ADD_ORDER" => /\ after.known = book[n].known \cup {op.order.order_id}
                                    /\ Resting(after) \subseteq
                                         Resting(book[n]) \cup ({op.order.order_id} \ book[n].known)
        /\ op.type # "ADD_ORDER" => /\ after.known = book[n].known
                                    /\ Resting(after) = Resting(book[n]) \ {op.cancel_order_id}
    BY ApplyEffect DEF Shape, IdsIssued
  <1>. HIDE DEF len, after
  <1>5. book'[n].known = {x.order.order_id : x \in {o \in Ops(n)' : o.type = "ADD_ORDER"}}
    BY <1>1, <1>3, <1>4 DEF BookFollowsLog
  <1>6. ASSUME NEW i \in DOMAIN op_log'[n], NEW j \in DOMAIN op_log'[n], i < j,
               op_log'[n][i].type = "ADD_ORDER", op_log'[n][j].type = "CANCEL_ORDER",
               op_log'[n][i].order.order_id = op_log'[n][j].cancel_order_id
        PROVE  op_log'[n][j].cancel_order_id \notin Resting(book'[n])
    <2>1. i \in DOMAIN op_log[n]
      BY <1>1, <1>6
    <2>2. op_log[n][i].order.order_id \in book[n].known
      BY <1>1, <1>6, <2>1 DEF BookFollowsLog, Ops
    <2>3. CASE j = len + 1
      BY <1>1, <1>3, <1>4, <1>6, <2>3
    <2>4. CASE j \in DOMAIN op_log[n]
      <3>1. op_log[n][j].cancel_order_id \notin Resting(book[n])
        BY <1>1, <1>6, <2>1, <2>4 DEF BookFollowsLog
      <3>2. op_log[n][j].cancel_order_id \in book[n].known
        BY <1>1, <1>6, <2>1, <2>2, <2>4
      <3>. QED
        BY <1>1, <1>3, <1>4, <2>4, <3>1, <3>2
    <2>. QED
      BY <1>1, <2>3, <2>4
  <1>7. \A m \in Node \ {n} :
           /\ book'[m].known = {x.order.order_id : x \in {o \in Ops(m)' : o.type = "ADD_ORDER"}}
           /\ \A i, j \in DOMAIN op_log'[m] :
                 /\ i < j
                 /\ op_log'[m][i].type = "ADD_ORDER" /\ op_log'[m][j].type = "CANCEL_ORDER"
                 /\ op_log'[m][i].order.order_id = op_log'[m][j].cancel_order_id
                 => op_log'[m][j].cancel_order_id \notin Resting(book'[m])
    BY <1>2 DEF BookFollowsLog
  <1>. QED
    BY <1>5, <1>6, <1>7 DEF BookFollowsLog

\* Every step keeps the books what the logs say.
LEMMA BookPreserved ==
    ASSUME Shape, IdsIssued, BookFollowsLog, [Next]_vars
    PROVE  BookFollowsLog'
  <1>0. TypeOK
    BY TypesFromShape
  <1>1. CASE UNCHANGED vars
    BY <1>1 DEF vars, BookFollowsLog, Ops, Resting
  <1>2. ASSUME NEW n \in Node, NEW op \in Operation, Issues(n, op) PROVE BookFollowsLog'
    BY <1>2, BookRecorded DEF Issues
  <1>3. ASSUME NEW n \in Node, NEW b, OnlyTicks(n, b) PROVE BookFollowsLog'
    <2>1. \A m \in Node : /\ Resting(book'[m]) \subseteq Resting(book[m])
                          /\ book'[m].known = book[m].known
                          /\ op_log'[m] = op_log[m] /\ Ops(m)' = Ops(m)
      BY <1>3 DEF OnlyTicks, Shape, Ops
    <2>. QED
      BY <2>1 DEF BookFollowsLog
  <1>4. ASSUME NEW n \in Node, NEW m \in Node \ {n}, NEW i \in DOMAIN op_log[m], Receives(n, m, i)
        PROVE  BookFollowsLog'
    <2>1. PICK op \in Operation : op = OnWire(op_log[m][i])
      BY ReceivedOperation
    <2>2. Record(n, op) /\ book' = [book EXCEPT ![n] = Apply(book[n], op)]
      BY <1>4, <2>1 DEF Receives
    <2>. QED
      BY <2>2, BookRecorded
  <1>. QED
    BY <1>0, <1>1, <1>2, <1>3, <1>4, StepCases

\* A book never brings back an order whose cancel its node applied after the add, and
\* holds no order without an add in the log, whatever is delivered again or late
\* (add_order_replicated ignores an id it knows).
THEOREM CancelledForGood == Spec => []BookFollowsLog
  <1>1. Init => BookFollowsLog
    BY DEF Init, BookFollowsLog, Ops, NewBook
  <1>2. /\ Shape /\ IdsIssued /\ BookFollowsLog /\ [Next]_vars
        => (Shape /\ IdsIssued /\ BookFollowsLog)'
    BY BookPreserved, TypesPreserved
  <1>. QED
    BY <1>1, <1>2, TypesInitially, PTL DEF Spec

-----------------------------------------------------------------------------
(* Prices.                                                                 *)

\* The nodes that have the operation of this id.
Holders(id) == {k \in Node : id \in seen_ops[k]}

\* A copy of an order has lost at most a tick for every holder but the origin.
DriftInv ==
    \A n, m \in Node : \A a \in Ops(n), b \in Ops(m) :
        a.type = "ADD_ORDER" /\ a.op_id = b.op_id /\ a.origin_node = n =>
            /\ b.order.price <= a.order.price
            /\ a.order.price - b.order.price <= Cardinality(Holders(a.op_id)) - 1

\* Two operations with one id are copies of each other.
LEMMA CopiesShareStamp ==
    ASSUME Shape, CausalInv, NEW n \in Node, NEW m \in Node, NEW a \in Ops(n), NEW b \in Ops(m),
           a.op_id = b.op_id
    PROVE  a.type = b.type /\ a.origin_node = b.origin_node /\ a.clock = b.clock
  <1>1. /\ Stamp(a) \in Stamps /\ Stamp(a).op_id = a.op_id /\ Stamp(a).type = a.type
        /\ Stamp(a).origin_node = a.origin_node /\ Stamp(a).clock = a.clock
    BY OperationStamped
  <1>2. /\ Stamp(b) \in Stamps /\ Stamp(b).op_id = b.op_id /\ Stamp(b).type = b.type
        /\ Stamp(b).origin_node = b.origin_node /\ Stamp(b).clock = b.clock
    BY OperationStamped
  <1>3. Stamp(a) = Stamp(b)
    BY <1>1, <1>2 DEF CausalInv
  <1>. QED
    BY <1>1, <1>2, <1>3

\* The price of an add is a natural number.
LEMMA PriceOfAdd ==
    ASSUME NEW op \in Operation, op.type = "ADD_ORDER"
    PROVE  op.order.price \in Nat /\ op.order.price \in Price
    BY PriceAssumption DEF Operation, AddOperation, CancelOperation, LimitOrder

\* There are finitely many holders; one more makes one more.
LEMMA HoldersGrow ==
    ASSUME Shape, NEW n \in Node, NEW op \in Operation, Record(n, op), op.op_id \notin seen_ops[n]
    PROVE  /\ \A id : Cardinality(Holders(id)) \in Nat /\ Cardinality(Holders(id)') \in Nat
           /\ \A id : id # op.op_id => Holders(id)' = Holders(id)
           /\ Cardinality(Holders(op.op_id)') = Cardinality(Holders(op.op_id)) + 1
  <1>1. \A id : /\ IsFiniteSet(Holders(id)) /\ Cardinality(Holders(id)) \in Nat
                /\ Cardinality(Holders(id)') \in Nat
    <2>1. \A S \in SUBSET Node : IsFiniteSet(S) /\ Cardinality(S) \in Nat
      BY NodeAssumption, FS_Subset, FS_CardinalityType
    <2>2. \A id : Holders(id) \in SUBSET Node /\ Holders(id)' \in SUBSET Node
      BY DEF Holders
    <2>. QED
      BY <2>1, <2>2
  <1>2. /\ seen_ops'[n] = seen_ops[n] \cup {op.op_id}
        /\ \A m \in Node \ {n} : seen_ops'[m] = seen_ops[m]
    BY RecordEffect
  <1>3. \A id : id # op.op_id => Holders(id)' = Holders(id)
    BY <1>2 DEF Holders
  <1>4. Holders(op.op_id)' = Holders(op.op_id) \cup {n} /\ n \notin Holders(op.op_id)
    BY <1>2 DEF Holders
  <1>5. Cardinality(Holders(op.op_id)') = Cardinality(Holders(op.op_id)) + 1
    BY <1>1, <1>4, FS_AddElement
  <1>. QED
    BY <1>1, <1>3, <1>5

\* A new operation has one holder, and a received one takes its holder's copy of the
\* price, less a tick at most, to one more.
LEMMA DriftPreserved ==
    ASSUME Shape, IdsIssued, CausalInv, NoOperationTwice, DriftInv, [Next]_vars
    PROVE  DriftInv'
  <1>0. TypeOK
    BY TypesFromShape
  <1>1. CASE UNCHANGED vars
    BY <1>1 DEF vars, DriftInv, Ops, Holders
  <1>2. ASSUME NEW n \in Node, NEW op \in Operation, Issues(n, op) PROVE DriftInv'
    <2>1. Record(n, op) /\ op.op_id = issued + 1 /\ issued \in Nat
      BY <1>2 DEF Issues, Shape
    <2>2. op.op_id \notin seen_ops[n] /\ \A m \in Node : \A x \in Ops(m) : x.op_id # op.op_id
      BY <2>1 DEF IdsIssued, IdsGiven
    <2>3. Ops(n)' = Ops(n) \cup {op} /\ \A m \in Node \ {n} : Ops(m)' = Ops(m)
      BY <2>1, RecordEffect
    <2>4. /\ \A id : Cardinality(Holders(id)) \in Nat /\ Cardinality(Holders(id)') \in Nat
          /\ \A id : id # op.op_id => Holders(id)' = Holders(id)
          /\ Cardinality(Holders(op.op_id)') = Cardinality(Holders(op.op_id)) + 1
      BY <2>1, <2>2, HoldersGrow
    <2>5. ASSUME NEW p \in Node, NEW q \in Node, NEW a \in Ops(p)', NEW b \in Ops(q)',
                 a.type = "ADD_ORDER", a.op_id = b.op_id, a.origin_node = p
          PROVE  /\ b.order.price <= a.order.price
                 /\ a.order.price - b.order.price <= Cardinality(Holders(a.op_id)') - 1
      <3>1. CASE a = op
        <4>1. b = op
          BY <2>2, <2>3, <2>5, <3>1
        <4>2. a.order.price \in Nat
          BY <2>5, <3>1, PriceOfAdd
        <4>3. Cardinality(Holders(a.op_id)') >= 1
          BY <2>4, <3>1
        <4>4. Cardinality(Holders(a.op_id)') \in Nat
          BY <2>4
        <4>. QED
          BY <3>1, <4>1, <4>2, <4>3, <4>4
      <3>2. CASE a # op
        <4>1. a \in Ops(p) /\ a.op_id # op.op_id
          BY <2>2, <2>3, <3>2
        <4>2. b \in Ops(q)
          BY <2>2, <2>3, <2>5, <4>1
        <4>3. Holders(a.op_id)' = Holders(a.op_id)
          BY <2>4, <4>1
        <4>. QED
          BY <2>5, <4>1, <4>2, <4>3 DEF DriftInv
      <3>. QED
        BY <3>1, <3>2
    <2>. QED
      BY <2>5 DEF DriftInv
  <1>3. ASSUME NEW n \in Node, NEW b, OnlyTicks(n, b) PROVE DriftInv'
    BY <1>3 DEF OnlyTicks, DriftInv, Ops, Holders
  <1>4. ASSUME NEW n \in Node, NEW m \in Node \ {n}, NEW i \in DOMAIN op_log[m], Receives(n, m, i)
        PROVE  DriftInv'
    <2>1. PICK op \in Operation : op = OnWire(op_log[m][i])
      BY ReceivedOperation
    <2>2. PICK o \in Ops(m) : o = op_log[m][i] /\ o \in Operation
      BY ReceivedOperation
    <2>3. /\ op.op_id = o.op_id /\ op.type = o.type /\ op.origin_node = o.origin_node
          /\ o.type = "ADD_ORDER" => op.order.price = Rewire(o.order.price)
      BY <2>1, <2>2, OnWireKeeps
    <2>4. Record(n, op) /\ op.op_id \notin seen_ops[n]
      BY <1>4, <2>1 DEF Receives
    <2>5. Ops(n)' = Ops(n) \cup {op} /\ \A p \in Node \ {n} : Ops(p)' = Ops(p)
      BY <2>4, RecordEffect
    <2>6. /\ \A id : Cardinality(Holders(id)) \in Nat /\ Cardinality(Holders(id)') \in Nat
          /\ \A id : id # op.op_id => Holders(id)' = Holders(id)
          /\ Cardinality(Holders(op.op_id)') = Cardinality(Holders(op.op_id)) + 1
      BY <2>4, HoldersGrow
    <2>7. op.origin_node # n
      <3>1. /\ Stamp(o) \in Stamps /\ Stamp(o).op_id = o.op_id
            /\ Stamp(o).origin_node = o.origin_node
        BY <2>2, OperationStamped
      <3>2. \A s \in StampsOf(n) : s.op_id \in seen_ops[n]
        BY DEF NoOperationTwice, StampsOf, Stamp
      <3>3. Stamp(o) \in StampsOf(o.origin_node)
        BY <3>1 DEF CausalInv
      <3>. QED
        BY <2>3, <2>4, <3>1, <3>2, <3>3
    <2>8. ASSUME NEW p \in Node, NEW q \in Node, NEW a \in Ops(p)', NEW b \in Ops(q)',
                 a.type = "ADD_ORDER", a.op_id = b.op_id, a.origin_node = p
          PROVE  /\ b.order.price <= a.order.price
                 /\ a.order.price - b.order.price <= Cardinality(Holders(a.op_id)') - 1
      <3>1. a \in Ops(p) /\ a \in Operation
        BY <2>5, <2>7, <2>8, StampType
      <3>2. a.order.price \in Nat
        BY <2>8, <3>1, PriceOfAdd
      <3>3. Cardinality(Holders(a.op_id)) <= Cardinality(Holders(a.op_id)')
        BY <2>6
      <3>4. Cardinality(Holders(a.op_id)) \in Nat /\ Cardinality(Holders(a.op_id)') \in Nat
        BY <2>6
      <3>5. CASE b \in Ops(q)
        <4>1. /\ b.order.price <= a.order.price
              /\ a.order.price - b.order.price <= Cardinality(Holders(a.op_id)) - 1
          BY <2>8, <3>1, <3>5 DEF DriftInv
        <4>2. b.type = "ADD_ORDER" /\ b \in Operation
          BY <2>8, <3>1, <3>5, CopiesShareStamp, StampType
        <4>3. b.order.price \in Nat
          BY <4>2, PriceOfAdd
        <4>. QED
          BY <3>2, <3>3, <3>4, <4>1, <4>3
      <3>6. CASE b \notin Ops(q)
        <4>1. b = op /\ a.op_id = o.op_id
          BY <2>3, <2>5, <2>8, <3>6
        <4>2. /\ o.order.price <= a.order.price
              /\ a.order.price - o.order.price <= Cardinality(Holders(a.op_id)) - 1
          BY <2>8, <3>1, <4>1 DEF DriftInv
        <4>3. o.type = "ADD_ORDER"
          BY <2>8, <3>1, <4>1, CopiesShareStamp
        <4>4. o.order.price \in Nat /\ b.order.price \in {o.order.price, o.order.price - 1}
          BY <2>2, <2>3, <4>1, <4>3, PriceOfAdd DEF Rewire
        <4>5. Cardinality(Holders(a.op_id)') = Cardinality(Holders(a.op_id)) + 1
          BY <2>3, <2>6, <4>1
        <4>. QED
          BY <3>2, <3>4, <4>2, <4>4, <4>5
      <3>. QED
        BY <3>5, <3>6
    <2>. QED
      BY <2>8 DEF DriftInv
  <1>. QED
    BY <1>0, <1>1, <1>2, <1>3, <1>4, StepCases

\* The truncation of write_double takes at most one tick off a price for every node
\* other than the origin, by whatever path the order reaches a node.
THEOREM DriftIsBounded == Spec => []PriceDriftBounded
  <1>1. Init => DriftInv
    BY DEF Init, DriftInv, Ops
  <1>2. /\ Shape /\ IdsIssued /\ CausalInv /\ NoOperationTwice /\ DriftInv /\ [Next]_vars
        => DriftInv'
    BY DriftPreserved
  <1>3. ASSUME Shape, CausalInv, DriftInv PROVE PriceDriftBounded
    <2>. SUFFICES ASSUME NEW n \in Node, NEW m \in Node, NEW a \in Ops(n), NEW b \in Ops(m),
                         a.type = "ADD_ORDER", a.op_id = b.op_id, a.origin_node = n
                  PROVE  b.order.price \in (a.order.price - Cardinality(Node) + 1)..a.order.price
      BY DEF PriceDriftBounded
    <2>1. /\ b.order.price <= a.order.price
          /\ a.order.price - b.order.price <= Cardinality(Holders(a.op_id)) - 1
      BY <1>3 DEF DriftInv
    <2>2. a \in Operation /\ b \in Operation /\ b.type = "ADD_ORDER"
      BY <1>3, CopiesShareStamp, StampType
    <2>3. a.order.price \in Nat /\ b.order.price \in Nat
      BY <2>2, PriceOfAdd
    <2>4. Holders(a.op_id) \in SUBSET Node
      BY DEF Holders
    <2>5. /\ Cardinality(Holders(a.op_id)) \in Nat /\ Cardinality(Node) \in Nat
          /\ Cardinality(Holders(a.op_id)) <= Cardinality(Node)
      BY <2>4, NodeAssumption, FS_Subset, FS_CardinalityType
    <2>. QED
      BY <2>1, <2>3, <2>5
  <1>. QED
    BY <1>1, <1>2, <1>3, CausalInvariant, AppliedOnce, PTL DEF Spec

-----------------------------------------------------------------------------
(* Convergence.                                                            *)

\* A node counts what its operations count, an add is named for its order, and a
\* cancel comes after the add of its order.
OrderInv ==
    /\ \A n \in Node : \A s \in StampsOf(n) : Below(s.clock, clock[n])
    /\ \A n \in Node : \A op \in Ops(n) : op.type = "ADD_ORDER" => op.order.order_id = op.op_id
    /\ \A n \in Node : \A c \in Ops(n) : c.type = "CANCEL_ORDER" =>
          \E a \in Stamps : /\ a.type = "ADD_ORDER" /\ a.op_id = c.cancel_order_id
                            /\ Below(a.clock, c.clock)
                            /\ at(a.clock, c.origin_node) < at(c.clock, c.origin_node)

\* The operations n issued.
Own(n) == {op \in Ops(n) : op.origin_node = n}

\* A node ticks at least once for each operation it issues.
TicksInv == \A n \in Node : IsFiniteSet(Own(n)) /\ Cardinality(Own(n)) <= at(clock[n], n)

\* What the book keeps of an order.
Keeps(b, order) ==
    /\ order.order_id \in Resting(b)
    /\ b.resting[order.order_id].side = order.side
    /\ b.resting[order.order_id].price = order.price
    /\ b.resting[order.order_id].remaining = order.quantity

\* The book of n keeps every order whose add no cancel follows in the log.
KeepsUncancelled(n) ==
    \A i \in DOMAIN op_log[n] : op_log[n][i].type = "ADD_ORDER" =>
        \/ Keeps(book[n], op_log[n][i].order)
        \/ \E j \in DOMAIN op_log[n] :
              /\ i < j /\ op_log[n][j].type = "CANCEL_ORDER"
              /\ op_log[n][j].cancel_order_id = op_log[n][i].order.order_id

\* A market order or a cancel that publishes nothing leaves a tick without an operation
\* for ever; without one the book keeps what the log says.
KeepInv == \A n \in Node : PublishedAll(n) => KeepsUncancelled(n)

\* A new operation comes after all that its node has.
LEMMA OrderIssued ==
    ASSUME Shape, IdsIssued, CausalInv, NoOperationTwice, BookFollowsLog, OrderInv,
           NEW n \in Node, NEW op \in Operation, Issues(n, op)
    PROVE  OrderInv'
  <1>. DEFINE new == Stamp(op)
  <1>1. /\ clock' = [clock EXCEPT ![n] = tick(clock[n], n)] /\ Record(n, op)
        /\ new.clock = op.clock /\ op.clock = tick(clock[n], n) /\ op.origin_node = n
    BY DEF Issues, Stamp
  <1>2. /\ StampsOf(n)' = StampsOf(n) \cup {new}
        /\ \A m \in Node \ {n} : StampsOf(m)' = StampsOf(m)
        /\ Stamps' = Stamps \cup {new}
    BY <1>1, StampRecorded
  <1>3. /\ clock'[n] = op.clock /\ clock'[n] \in Clock
        /\ \A m \in Node \ {n} : clock'[m] = clock[m]
        /\ at(clock'[n], n) = at(clock[n], n) + 1
        /\ \A k \in Node \ {n} : at(clock'[n], k) = at(clock[n], k)
        /\ \A s \in Stamps : at(s.clock, n) < at(clock'[n], n)
    BY <1>1, TickEffect
  <1>. HIDE DEF new
  <1>4. \A k \in Node : at(clock[n], k) \in Nat /\ at(clock'[n], k) \in Nat
    BY <1>3, CountIsNat DEF Shape
  <1>5. \A s \in Stamps : \A k \in Node : at(s.clock, k) \in Nat
    BY CountIsNat, StampType
  <1>6. ASSUME NEW s \in StampsOf(n) PROVE Below(s.clock, clock'[n]) /\ s \in Stamps
    <2>1. s \in Stamps /\ Below(s.clock, clock[n])
      BY StampType DEF OrderInv
    <2>. QED
      BY <1>3, <1>4, <1>5, <2>1 DEF Below
  <1>7. \A m \in Node : \A s \in StampsOf(m)' : Below(s.clock, clock'[m])
    <2>1. Below(new.clock, clock'[n])
      BY <1>1, <1>3, <1>4 DEF Below
    <2>. QED
      BY <1>2, <1>3, <1>6, <2>1 DEF OrderInv
  <1>8. Ops(n)' = Ops(n) \cup {op} /\ \A m \in Node \ {n} : Ops(m)' = Ops(m)
    BY <1>1, RecordEffect
  <1>9. \A m \in Node : \A x \in Ops(m)' : x.type = "ADD_ORDER" => x.order.order_id = x.op_id
    BY <1>8 DEF OrderInv, Issues
  <1>10. ASSUME op.type = "CANCEL_ORDER"
         PROVE  \E a \in Stamps' : /\ a.type = "ADD_ORDER" /\ a.op_id = op.cancel_order_id
                                   /\ Below(a.clock, op.clock)
                                   /\ at(a.clock, op.origin_node) < at(op.clock, op.origin_node)
    <2>1. op.cancel_order_id \in book[n].known
      BY <1>10 DEF Issues, IdsIssued, IdsGiven
    <2>2. PICK x \in Ops(n) : x.type = "ADD_ORDER" /\ x.order.order_id = op.cancel_order_id
      BY <2>1 DEF BookFollowsLog
    <2>3. /\ Stamp(x) \in StampsOf(n) /\ Stamp(x).type = "ADD_ORDER"
          /\ Stamp(x).op_id = op.cancel_order_id
      BY <2>2, OperationStamped DEF OrderInv
    <2>. QED
      BY <1>1, <1>2, <1>3, <1>6, <2>3
  <1>11. \A m \in Node : \A c \in Ops(m)' : c.type = "CANCEL_ORDER" =>
           \E a \in Stamps' : /\ a.type = "ADD_ORDER" /\ a.op_id = c.cancel_order_id
                              /\ Below(a.clock, c.clock)
                              /\ at(a.clock, c.origin_node) < at(c.clock, c.origin_node)
    BY <1>2, <1>8, <1>10 DEF OrderInv
  <1>. QED
    BY <1>7, <1>9, <1>11 DEF OrderInv

\* A received operation comes with its order's add before it.
LEMMA OrderReceived ==
    ASSUME Shape, CausalInv, OrderInv,
           NEW n \in Node, NEW m \in Node \ {n}, NEW i \in DOMAIN op_log[m], Receives(n, m, i)
    PROVE  OrderInv'
  <1>0. PICK op \in Operation : op = OnWire(op_log[m][i])
    BY ReceivedOperation
  <1>1. PICK o \in Ops(m) : o = op_log[m][i] /\ o \in Operation
    BY ReceivedOperation
  <1>. DEFINE s0 == Stamp(op)
  <1>2. Record(n, op) /\ clock' = [clock EXCEPT ![n] = merge(clock[n], op.clock)]
    BY <1>0 DEF Receives
  <1>3. /\ op.clock = o.clock /\ op.type = o.type /\ op.op_id = o.op_id
        /\ op.origin_node = o.origin_node
        /\ op.type = "ADD_ORDER" => op.order.order_id = o.order.order_id
        /\ op.type = "CANCEL_ORDER" => op = o
    BY <1>0, <1>1, OnWireKeeps
  <1>4. s0 \in Stamps /\ s0.clock = op.clock
    BY <1>1, <1>3, OperationStamped DEF Stamp
  <1>5. /\ StampsOf(n)' = StampsOf(n) \cup {s0}
        /\ \A k \in Node \ {n} : StampsOf(k)' = StampsOf(k)
        /\ Stamps' = Stamps
    BY <1>2, <1>4, StampRecorded
  <1>. HIDE DEF s0
  <1>6. /\ clock[n] \in Clock /\ op.clock \in Clock
        /\ IsClock(clock[n], Node) /\ IsClock(op.clock, Node)
    BY ClockType DEF Shape, Operation, AddOperation, CancelOperation
  <1>7. /\ \A k \in Node \ {n} : clock'[k] = clock[k]
        /\ \A k \in Node : at(clock'[n], k) =
              IF at(clock[n], k) >= at(op.clock, k) THEN at(clock[n], k) ELSE at(op.clock, k)
    BY <1>2, <1>6, MergeCounts DEF Shape
  <1>8. \A k \in Node : at(clock[n], k) \in Nat /\ at(op.clock, k) \in Nat
    BY <1>6, CountIsNat
  <1>9. \A s \in Stamps : \A k \in Node : at(s.clock, k) \in Nat
    BY CountIsNat, StampType
  <1>10. ASSUME NEW p \in Node, NEW s \in StampsOf(p)' PROVE Below(s.clock, clock'[p])
    <2>1. CASE p # n
      BY <1>5, <1>7, <2>1 DEF OrderInv
    <2>2. CASE p = n /\ s = s0
      BY <1>4, <1>7, <1>8, <2>2 DEF Below
    <2>3. CASE p = n /\ s \in StampsOf(n)
      <3>1. Below(s.clock, clock[n]) /\ s \in Stamps
        BY <2>3, StampType DEF OrderInv
      <3>. QED
        BY <1>7, <1>8, <1>9, <2>3, <3>1 DEF Below
    <2>. QED
      BY <1>5, <2>1, <2>2, <2>3
  <1>11. Ops(n)' = Ops(n) \cup {op} /\ \A p \in Node \ {n} : Ops(p)' = Ops(p)
    BY <1>2, RecordEffect
  <1>12. \A p \in Node : \A x \in Ops(p)' : x.type = "ADD_ORDER" => x.order.order_id = x.op_id
    BY <1>1, <1>3, <1>11 DEF OrderInv
  <1>13. \A p \in Node : \A c \in Ops(p)' : c.type = "CANCEL_ORDER" =>
           \E a \in Stamps' : /\ a.type = "ADD_ORDER" /\ a.op_id = c.cancel_order_id
                              /\ Below(a.clock, c.clock)
                              /\ at(a.clock, c.origin_node) < at(c.clock, c.origin_node)
    BY <1>1, <1>3, <1>5, <1>11 DEF OrderInv
  <1>. QED
    BY <1>10, <1>12, <1>13 DEF OrderInv

\* A tick counts more, and changes no operation.
LEMMA OrderTicked ==
    ASSUME Shape, CausalInv, OrderInv, NEW n \in Node, NEW b, OnlyTicks(n, b)
    PROVE  OrderInv'
  <1>1. clock' = [clock EXCEPT ![n] = tick(clock[n], n)]
    BY DEF OnlyTicks
  <1>2. /\ Stamps' = Stamps
        /\ \A m \in Node : StampsOf(m)' = StampsOf(m) /\ Ops(m)' = Ops(m)
    BY DEF OnlyTicks, Stamps, StampsOf, Stamp, Ops
  <1>3. /\ \A m \in Node \ {n} : clock'[m] = clock[m] /\ clock'[n] \in Clock
        /\ at(clock'[n], n) = at(clock[n], n) + 1
        /\ \A k \in Node \ {n} : at(clock'[n], k) = at(clock[n], k)
    BY <1>1, TickEffect
  <1>4. ASSUME NEW s \in StampsOf(n) PROVE Below(s.clock, clock'[n])
    <2>1. Below(s.clock, clock[n]) /\ s \in Stamps /\ s.clock \in Clock
      BY StampType DEF OrderInv
    <2>2. \A k \in Node : at(clock[n], k) \in Nat /\ at(s.clock, k) \in Nat
      BY <2>1, CountIsNat DEF Shape
    <2>. QED
      BY <1>3, <2>1, <2>2 DEF Below
  <1>. QED
    BY <1>2, <1>3, <1>4 DEF OrderInv

\* A node receives no operation of its own, so its clock's count of itself and the
\* operations it issued stay as they are.
LEMMA ReceivedFromOthers ==
    ASSUME Shape, CausalInv, NoOperationTwice,
           NEW n \in Node, NEW m \in Node \ {n}, NEW i \in DOMAIN op_log[m], Receives(n, m, i)
    PROVE  /\ OnWire(op_log[m][i]).origin_node # n
           /\ at(clock'[n], n) = at(clock[n], n)
  <1>0. PICK op \in Operation : op = OnWire(op_log[m][i])
    BY ReceivedOperation
  <1>1. PICK o \in Ops(m) : o = op_log[m][i] /\ o \in Operation
    BY ReceivedOperation
  <1>2. /\ op.clock = o.clock /\ op.op_id = o.op_id /\ op.origin_node = o.origin_node
    BY <1>0, <1>1, OnWireKeeps
  <1>3. /\ op.op_id \notin seen_ops[n]
        /\ clock' = [clock EXCEPT ![n] = merge(clock[n], op.clock)]
    BY <1>0 DEF Receives
  <1>4. /\ Stamp(o) \in Stamps /\ Stamp(o).op_id = o.op_id /\ Stamp(o).clock = o.clock
        /\ Stamp(o).origin_node = o.origin_node /\ o.clock \in Clock
    BY OperationStamped
  <1>5. o.origin_node # n
    <2>1. \A s \in StampsOf(n) : s.op_id \in seen_ops[n]
      BY DEF NoOperationTwice, StampsOf, Stamp
    <2>2. Stamp(o) \in StampsOf(o.origin_node)
      BY <1>4 DEF CausalInv
    <2>. QED
      BY <1>2, <1>3, <1>4, <2>1, <2>2
  <1>6. at(o.clock, n) <= at(clock[n], n)
    BY <1>4 DEF CausalInv
  <1>7. at(o.clock, n) \in Nat /\ at(clock[n], n) \in Nat
    BY <1>4, CountIsNat DEF Shape
  <1>8. clock'[n] = merge(clock[n], o.clock) /\ IsClock(clock[n], Node) /\ IsClock(o.clock, Node)
    BY <1>2, <1>3, <1>4, ClockType DEF Shape
  <1>9. at(clock'[n], n) = IF at(clock[n], n) >= at(o.clock, n) THEN at(clock[n], n) ELSE at(o.clock, n)
    BY <1>8, MergeCounts
  <1>. QED
    BY <1>0, <1>2, <1>5, <1>6, <1>7, <1>9

\* Each step adds to a node's own operations at most what it adds to its ticks.
LEMMA TicksPreserved ==
    ASSUME Shape, IdsIssued, CausalInv, NoOperationTwice, TicksInv, [Next]_vars
    PROVE  TicksInv'
  <1>0. TypeOK
    BY TypesFromShape
  <1>1. CASE UNCHANGED vars
    BY <1>1 DEF vars, TicksInv, Own, Ops
  <1>2. ASSUME NEW n \in Node, NEW op \in Operation, Issues(n, op) PROVE TicksInv'
    <2>1. /\ clock' = [clock EXCEPT ![n] = tick(clock[n], n)] /\ Record(n, op)
          /\ op.origin_node = n /\ op.op_id = issued + 1
      BY <1>2 DEF Issues
    <2>2. at(clock'[n], n) = at(clock[n], n) + 1 /\ \A m \in Node \ {n} : clock'[m] = clock[m]
      BY <2>1, TickEffect
    <2>3. Own(n)' = Own(n) \cup {op} /\ \A m \in Node \ {n} : Own(m)' = Own(m)
      BY <2>1, RecordEffect DEF Own
    <2>4. op \notin Own(n)
      BY <2>1 DEF IdsIssued, IdsGiven, Shape, Own
    <2>5. IsFiniteSet(Own(n)') /\ Cardinality(Own(n)') = Cardinality(Own(n)) + 1
      BY <2>3, <2>4, FS_AddElement DEF TicksInv
    <2>6. at(clock[n], n) \in Nat /\ Cardinality(Own(n)) \in Nat
      BY CountIsNat, FS_CardinalityType DEF Shape, TicksInv
    <2>7. Cardinality(Own(n)') <= at(clock'[n], n)
      BY <2>2, <2>5, <2>6 DEF TicksInv
    <2>. QED
      BY <2>2, <2>3, <2>5, <2>7 DEF TicksInv
  <1>3. ASSUME NEW n \in Node, NEW b, OnlyTicks(n, b) PROVE TicksInv'
    <2>1. clock' = [clock EXCEPT ![n] = tick(clock[n], n)]
      BY <1>3 DEF OnlyTicks
    <2>2. at(clock'[n], n) = at(clock[n], n) + 1 /\ \A m \in Node \ {n} : clock'[m] = clock[m]
      BY <2>1, TickEffect
    <2>3. \A m \in Node : Own(m)' = Own(m)
      BY <1>3 DEF OnlyTicks, Own, Ops
    <2>4. at(clock[n], n) \in Nat /\ Cardinality(Own(n)) \in Nat
      BY CountIsNat, FS_CardinalityType DEF Shape, TicksInv
    <2>. QED
      BY <2>2, <2>3, <2>4 DEF TicksInv
  <1>4. ASSUME NEW n \in Node, NEW m \in Node \ {n}, NEW i \in DOMAIN op_log[m], Receives(n, m, i)
        PROVE  TicksInv'
    <2>1. PICK op \in Operation : op = OnWire(op_log[m][i])
      BY ReceivedOperation
    <2>2. Record(n, op) /\ \A k \in Node \ {n} : clock'[k] = clock[k]
      BY <1>4, <2>1 DEF Receives, Shape
    <2>3. op.origin_node # n /\ at(clock'[n], n) = at(clock[n], n)
      BY <1>4, <2>1, ReceivedFromOthers
    <2>4. \A k \in Node : Own(k)' = Own(k)
      BY <2>2, <2>3, RecordEffect DEF Own
    <2>. QED
      BY <2>2, <2>3, <2>4 DEF TicksInv
  <1>. QED
    BY <1>0, <1>1, <1>2, <1>3, <1>4, StepCases

\* A node that records an operation as it applies it keeps what no cancel takes away.
LEMMA KeepRecorded ==
    ASSUME Shape, IdsIssued, NoOperationTwice, BookFollowsLog, OrderInv,
           NEW n \in Node, NEW op \in Operation, Record(n, op), op.op_id \notin seen_ops[n],
           op.type = "ADD_ORDER" => op.order.order_id = op.op_id,
           book' = [book EXCEPT ![n] = Apply(book[n], op)],
           KeepsUncancelled(n)
    PROVE  KeepsUncancelled(n)'
  <1>. DEFINE len == Len(op_log[n])
              after == Apply(book[n], op)
  <1>1. /\ len \in Nat /\ DOMAIN op_log[n] = 1..len /\ DOMAIN op_log'[n] = 1..(len + 1)
        /\ \A i \in DOMAIN op_log[n] : op_log'[n][i] = op_log[n][i]
        /\ op_log'[n][len + 1] = op
    BY RecordEffect
  <1>2. book'[n] = after /\ op.type \in {"ADD_ORDER", "CANCEL_ORDER"}
    BY DEF Shape, Operation, AddOperation, CancelOperation
  <1>3. ASSUME op.type = "ADD_ORDER" PROVE ~has_order(book[n], op.order.order_id)
    BY <1>3 DEF BookFollowsLog, OrderInv, NoOperationTwice, has_order
  <1>4. ASSUME op.type = "ADD_ORDER" PROVE Keeps(after, op.order)
    BY <1>3, <1>4 DEF Keeps, Apply, RestReplicated, Rest, Resting
  <1>5. ASSUME NEW order, Keeps(book[n], order),
               op.type = "CANCEL_ORDER" => op.cancel_order_id # order.order_id
        PROVE  Keeps(after, order)
    <2>1. CASE op.type = "ADD_ORDER"
      <3>1. order.order_id # op.order.order_id
        BY <1>3, <1>5, <2>1 DEF Keeps, IdsIssued, has_order
      <3>. QED
        BY <1>3, <1>5, <2>1, <3>1 DEF Keeps, Apply, RestReplicated, Rest, Resting
    <2>2. CASE op.type = "CANCEL_ORDER"
      BY <1>5, <2>2 DEF Keeps, Apply, Withdraw, Restrict, Resting, IsBook, Shape
    <2>. QED
      BY <1>2, <2>1, <2>2
  <1>. HIDE DEF len, after
  <1>6. ASSUME NEW i \in DOMAIN op_log'[n], op_log'[n][i].type = "ADD_ORDER"
        PROVE  \/ Keeps(book'[n], op_log'[n][i].order)
               \/ \E j \in DOMAIN op_log'[n] :
                     /\ i < j /\ op_log'[n][j].type = "CANCEL_ORDER"
                     /\ op_log'[n][j].cancel_order_id = op_log'[n][i].order.order_id
    <2>1. CASE i = len + 1
      BY <1>1, <1>2, <1>4, <1>6, <2>1
    <2>2. CASE i \in DOMAIN op_log[n] /\ Keeps(book[n], op_log[n][i].order)
      <3>1. CASE op.type = "CANCEL_ORDER" /\ op.cancel_order_id = op_log[n][i].order.order_id
        <4>1. i < len + 1 /\ len + 1 \in DOMAIN op_log'[n]
          BY <1>1, <2>2
        <4>. QED
          BY <1>1, <2>2, <3>1, <4>1
      <3>2. CASE op.type = "CANCEL_ORDER" => op.cancel_order_id # op_log[n][i].order.order_id
        BY <1>1, <1>2, <1>5, <2>2, <3>2
      <3>. QED
        BY <3>1, <3>2
    <2>3. CASE i \in DOMAIN op_log[n] /\ ~Keeps(book[n], op_log[n][i].order)
      <3>1. PICK j \in DOMAIN op_log[n] :
                    /\ i < j /\ op_log[n][j].type = "CANCEL_ORDER"
                    /\ op_log[n][j].cancel_order_id = op_log[n][i].order.order_id
        BY <1>1, <1>6, <2>3 DEF KeepsUncancelled
      <3>2. j \in DOMAIN op_log'[n]
        BY <1>1
      <3>. QED
        BY <1>1, <2>3, <3>1, <3>2
    <2>. QED
      BY <1>1, <2>1, <2>2, <2>3
  <1>. QED
    BY <1>6 DEF KeepsUncancelled

\* A node that has published all has published all before, and took the last operation
\* as it came.
LEMMA KeepPreserved ==
    ASSUME Shape, IdsIssued, CausalInv, NoOperationTwice, BookFollowsLog, OrderInv, TicksInv,
           KeepInv, [Next]_vars
    PROVE  KeepInv'
  <1>0. TypeOK
    BY TypesFromShape
  <1>01. \A n \in Node : PublishedAll(n) <=> at(clock[n], n) = Cardinality(Own(n))
    BY DEF PublishedAll, Own
  <1>02. \A n \in Node : PublishedAll(n)' <=> at(clock'[n], n) = Cardinality(Own(n)')
    BY DEF PublishedAll, Own
  <1>03. \A n \in Node : /\ IsFiniteSet(Own(n)) /\ Cardinality(Own(n)) \in Nat
                         /\ at(clock[n], n) \in Nat /\ Cardinality(Own(n)) <= at(clock[n], n)
    BY CountIsNat, FS_CardinalityType DEF Shape, TicksInv
  <1>1. CASE UNCHANGED vars
    BY <1>1 DEF vars, KeepInv, PublishedAll, KeepsUncancelled, Keeps, Ops, Resting
  <1>2. ASSUME NEW n \in Node, NEW op \in Operation, Issues(n, op) PROVE KeepInv'
    <2>1. /\ clock' = [clock EXCEPT ![n] = tick(clock[n], n)] /\ Record(n, op)
          /\ op.origin_node = n /\ op.op_id = issued + 1
          /\ book' = [book EXCEPT ![n] = Apply(book[n], op)]
          /\ op.type = "ADD_ORDER" => op.order.order_id = op.op_id
      BY <1>2 DEF Issues
    <2>2. at(clock'[n], n) = at(clock[n], n) + 1 /\ \A m \in Node \ {n} : clock'[m] = clock[m]
      BY <2>1, TickEffect
    <2>3. Own(n)' = Own(n) \cup {op} /\ \A m \in Node \ {n} : Own(m)' = Own(m)
      BY <2>1, RecordEffect DEF Own
    <2>4. op \notin Own(n) /\ op.op_id \notin seen_ops[n]
      BY <2>1 DEF IdsIssued, IdsGiven, Shape, Own
    <2>5. Cardinality(Own(n)') = Cardinality(Own(n)) + 1
      BY <1>03, <2>3, <2>4, FS_AddElement
    <2>6. PublishedAll(n)' => KeepsUncancelled(n)'
      <3>1. ASSUME PublishedAll(n)' PROVE KeepsUncancelled(n)
        BY <1>01, <1>02, <1>03, <2>2, <2>5, <3>1 DEF KeepInv
      <3>. QED
        BY <2>1, <2>4, <3>1, KeepRecorded
    <2>7. \A m \in Node \ {n} : PublishedAll(m)' => KeepsUncancelled(m)'
      <3>1. \A m \in Node \ {n} : /\ op_log'[m] = op_log[m] /\ book'[m] = book[m]
                                  /\ PublishedAll(m)' => PublishedAll(m)
        BY <1>01, <1>02, <2>1, <2>2, <2>3, RecordEffect DEF Shape
      <3>. QED
        BY <3>1 DEF KeepInv, KeepsUncancelled
    <2>. QED
      BY <2>6, <2>7 DEF KeepInv
  <1>3. ASSUME NEW n \in Node, NEW b, OnlyTicks(n, b) PROVE KeepInv'
    <2>1. clock' = [clock EXCEPT ![n] = tick(clock[n], n)] /\ op_log' = op_log
      BY <1>3 DEF OnlyTicks
    <2>2. at(clock'[n], n) = at(clock[n], n) + 1 /\ \A m \in Node \ {n} : clock'[m] = clock[m]
      BY <2>1, TickEffect
    <2>3. \A m \in Node : Own(m)' = Own(m)
      BY <2>1 DEF Own, Ops
    <2>4. ~PublishedAll(n)'
      BY <1>02, <1>03, <2>2, <2>3
    <2>5. \A m \in Node \ {n} : book'[m] = book[m] /\ (PublishedAll(m)' => PublishedAll(m))
      BY <1>01, <1>02, <1>3, <2>2, <2>3 DEF OnlyTicks, Shape
    <2>. QED
      BY <2>1, <2>4, <2>5 DEF KeepInv, KeepsUncancelled
  <1>4. ASSUME NEW n \in Node, NEW m \in Node \ {n}, NEW i \in DOMAIN op_log[m], Receives(n, m, i)
        PROVE  KeepInv'
    <2>1. PICK op \in Operation : op = OnWire(op_log[m][i])
      BY ReceivedOperation
    <2>2. /\ Record(n, op) /\ \A k \in Node \ {n} : clock'[k] = clock[k]
          /\ book' = [book EXCEPT ![n] = Apply(book[n], op)]
          /\ op.op_id \notin seen_ops[n]
      BY <1>4, <2>1 DEF Receives, Shape
    <2>3. op.origin_node # n /\ at(clock'[n], n) = at(clock[n], n)
      BY <1>4, <2>1, ReceivedFromOthers
    <2>4. \A k \in Node : Own(k)' = Own(k)
      BY <2>2, <2>3, RecordEffect DEF Own
    <2>5. \A k \in Node : PublishedAll(k)' => PublishedAll(k)
      BY <1>01, <1>02, <2>2, <2>3, <2>4
    <2>6. op.type = "ADD_ORDER" => op.order.order_id = op.op_id
      <3>1. op_log[m][i] \in Operation /\ op_log[m][i] \in Ops(m)
        BY ReceivedOperation
      <3>. QED
        BY <2>1, <3>1, OnWireKeeps DEF OrderInv
    <2>7. PublishedAll(n)' => KeepsUncancelled(n)'
      <3>1. PublishedAll(n)' => KeepsUncancelled(n)
        BY <2>5 DEF KeepInv
      <3>. QED
        BY <2>2, <2>6, <3>1, KeepRecorded
    <2>8. \A k \in Node \ {n} : PublishedAll(k)' => KeepsUncancelled(k)'
      <3>1. \A k \in Node \ {n} : op_log'[k] = op_log[k] /\ book'[k] = book[k]
        BY <2>2, RecordEffect DEF Shape
      <3>. QED
        BY <2>5, <3>1 DEF KeepInv, KeepsUncancelled
    <2>. QED
      BY <2>7, <2>8 DEF KeepInv
  <1>. QED
    BY <1>0, <1>1, <1>2, <1>3, <1>4, StepCases

\* The book of a node that applied its operations in causal order and published all it
\* did is a function of the set of its operations.
LEMMA CausalBook ==
    ASSUME Shape, IdsIssued, NoOperationTwice, BookFollowsLog, OrderInv, KeepInv,
           NEW n \in Node, AppliedInCausalOrder(n), PublishedAll(n)
    PROVE  /\ \A id : id \in Resting(book[n]) <=>
                 /\ \E a \in Ops(n) : a.type = "ADD_ORDER" /\ a.op_id = id
                 /\ ~\E c \in Ops(n) : c.type = "CANCEL_ORDER" /\ c.cancel_order_id = id
           /\ \A a \in Ops(n) : a.type = "ADD_ORDER" /\ a.op_id \in Resting(book[n]) =>
                 Keeps(book[n], a.order)
  <1>0. DOMAIN op_log[n] = 1..Len(op_log[n]) /\ Len(op_log[n]) \in Nat
    BY DEF Shape
  <1>1. ASSUME NEW i \in DOMAIN op_log[n], op_log[n][i].type = "ADD_ORDER",
               NEW j \in DOMAIN op_log[n], op_log[n][j].type = "CANCEL_ORDER",
               op_log[n][j].cancel_order_id = op_log[n][i].op_id
        PROVE  op_log[n][i].op_id \notin Resting(book[n])
    <2>. DEFINE c == op_log[n][j]
    <2>1. c \in Ops(n) /\ op_log[n][i] \in Ops(n)
      BY DEF Ops
    <2>2. PICK a \in Stamps : /\ a.op_id = c.cancel_order_id /\ Below(a.clock, c.clock)
                              /\ at(a.clock, c.origin_node) < at(c.clock, c.origin_node)
      BY <1>1, <2>1 DEF OrderInv
    <2>3. PICK k \in Node : \E x \in Ops(k) : x.op_id = a.op_id /\ x.clock = a.clock
      BY <2>2 DEF Stamps, StampsOf, Stamp
    <2>31. PICK x \in Ops(k) : x.op_id = a.op_id /\ x.clock = a.clock
      BY <2>3
    <2>4. x.clock \in Clock /\ c.clock \in Clock
      BY <2>1, OperationStamped
    <2>5. happens_before(x.clock, c.clock)
      BY <2>2, <2>31, <2>4, DominatesBelow, BeforeCounts, ClockType
    <2>6. PICK h \in 1..(j - 1) : op_log[n][h].op_id = op_log[n][i].op_id
      BY <1>1, <2>2, <2>31, <2>5 DEF AppliedInCausalOrder
    <2>7. h \in DOMAIN op_log[n] /\ h < j
      BY <1>0
    <2>8. h = i
      BY <2>6, <2>7 DEF NoOperationTwice
    <2>9. op_log[n][i].order.order_id = op_log[n][i].op_id
      BY <1>1, <2>1 DEF OrderInv
    <2>. QED
      BY <1>1, <2>7, <2>8, <2>9 DEF BookFollowsLog
  <1>2. ASSUME NEW a \in Ops(n), a.type = "ADD_ORDER"
        PROVE  \/ Keeps(book[n], a.order) /\ a.op_id \in Resting(book[n])
               \/ \E c \in Ops(n) : c.type = "CANCEL_ORDER" /\ c.cancel_order_id = a.op_id
    <2>1. PICK i \in DOMAIN op_log[n] : op_log[n][i] = a
      BY DEF Ops
    <2>2. a.order.order_id = a.op_id
      BY <1>2 DEF OrderInv
    <2>3. KeepsUncancelled(n)
      BY DEF KeepInv
    <2>4. CASE Keeps(book[n], a.order)
      BY <2>2, <2>4 DEF Keeps
    <2>5. CASE ~Keeps(book[n], a.order)
      <3>1. PICK j \in DOMAIN op_log[n] : /\ op_log[n][j].type = "CANCEL_ORDER"
                                          /\ op_log[n][j].cancel_order_id = a.order.order_id
        BY <1>2, <2>1, <2>3, <2>5 DEF KeepsUncancelled
      <3>2. op_log[n][j] \in Ops(n)
        BY DEF Ops
      <3>. QED
        BY <2>2, <3>1, <3>2
    <2>. QED
      BY <2>4, <2>5
  <1>3. ASSUME NEW id \in Resting(book[n])
        PROVE  /\ \E a \in Ops(n) : a.type = "ADD_ORDER" /\ a.op_id = id
               /\ ~\E c \in Ops(n) : c.type = "CANCEL_ORDER" /\ c.cancel_order_id = id
    <2>1. PICK a \in Ops(n) : a.type = "ADD_ORDER" /\ a.op_id = id
      <3>1. id \in book[n].known
        BY DEF IdsIssued
      <3>. QED
        BY <3>1 DEF BookFollowsLog, OrderInv
    <2>2. PICK i \in DOMAIN op_log[n] : op_log[n][i] = a
      BY DEF Ops
    <2>3. \A c \in Ops(n) : \E j \in DOMAIN op_log[n] : op_log[n][j] = c
      BY DEF Ops
    <2>. QED
      BY <1>1, <1>3, <2>1, <2>2, <2>3
  <1>. QED
    BY <1>2, <1>3

\* Depth shows sides, prices and remaining quantities only.
LEMMA SameDepth ==
    ASSUME NEW b, NEW d, Resting(b) = Resting(d),
           \A id \in Resting(b) : /\ b.resting[id].side = d.resting[id].side
                                  /\ b.resting[id].price = d.resting[id].price
                                  /\ b.resting[id].remaining = d.resting[id].remaining
    PROVE  Depth(b) = Depth(d)
  <1>1. \A side : Prices(b, side) = Prices(d, side)
    BY DEF Prices
  <1>2. ASSUME NEW side, NEW p PROVE Total(b, side, p) = Total(d, side, p)
    <2>. DEFINE L(x) == {id \in Resting(x) : x.resting[id].side = side /\ x.resting[id].price = p}
    <2>1. L(b) = L(d)
      OBVIOUS
    <2>2. [id \in L(b) |-> b.resting[id].remaining] = [id \in L(d) |-> d.resting[id].remaining]
      BY <2>1
    <2>. QED
      BY <2>2, Zenon DEF Total
  <1>. QED
    BY <1>1, <1>2 DEF Depth

\* Two operations that say the same, but for what the wire does to a price.
SameBut(a, b) ==
    /\ a.type = b.type
    /\ a.type = "ADD_ORDER" => /\ a.order.order_id = b.order.order_id
                               /\ a.order.side = b.order.side
                               /\ a.order.quantity = b.order.quantity
                               /\ Lossy = {} => a.order.price = b.order.price
    /\ a.type = "CANCEL_ORDER" => a.cancel_order_id = b.cancel_order_id

\* What two nodes know under one id is the same operation.
CopiesInv ==
    \A n, m \in Node : \A a \in Ops(n), b \in Ops(m) : a.op_id = b.op_id => SameBut(a, b)

\* Copies of one operation say the same, whoever they are compared with first.
LEMMA SameButTwice ==
    ASSUME NEW a, NEW b, NEW c, SameBut(a, b), SameBut(b, c)
    PROVE  SameBut(a, c) /\ SameBut(b, a)
    BY DEF SameBut

\* The wire makes copies.
LEMMA OnWireIsCopy ==
    ASSUME NEW op \in Operation
    PROVE  SameBut(op, OnWire(op))
  <1>1. Lossy = {} => \A p : Rewire(p) = p
    BY DEF Rewire
  <1>. QED
    BY <1>1, OnWireKeeps DEF SameBut

\* A new operation has a new id, and a received one is a copy of its sender's.
LEMMA CopiesPreserved ==
    ASSUME Shape, IdsIssued, CopiesInv, [Next]_vars
    PROVE  CopiesInv'
  <1>0. TypeOK
    BY TypesFromShape
  <1>1. CASE UNCHANGED vars
    BY <1>1 DEF vars, CopiesInv, Ops
  <1>2. ASSUME NEW n \in Node, NEW op \in Operation, Issues(n, op) PROVE CopiesInv'
    <2>1. Record(n, op) /\ op.op_id = issued + 1 /\ issued \in Nat
      BY <1>2 DEF Issues, Shape
    <2>2. \A m \in Node : \A x \in Ops(m) : x.op_id # op.op_id
      BY <2>1 DEF IdsIssued, IdsGiven
    <2>3. Ops(n)' = Ops(n) \cup {op} /\ \A m \in Node \ {n} : Ops(m)' = Ops(m)
      BY <2>1, RecordEffect
    <2>4. SameBut(op, op)
      BY DEF SameBut
    <2>5. ASSUME NEW p \in Node, NEW q \in Node, NEW a \in Ops(p)', NEW b \in Ops(q)',
                 a.op_id = b.op_id
          PROVE  SameBut(a, b)
      <3>1. a \in Ops(p) \/ a = op
        BY <2>3
      <3>2. b \in Ops(q) \/ b = op
        BY <2>3
      <3>. QED
        BY <2>2, <2>4, <2>5, <3>1, <3>2 DEF CopiesInv
    <2>. QED
      BY <2>5 DEF CopiesInv
  <1>3. ASSUME NEW n \in Node, NEW b, OnlyTicks(n, b) PROVE CopiesInv'
    BY <1>3 DEF OnlyTicks, CopiesInv, Ops
  <1>4. ASSUME NEW n \in Node, NEW m \in Node \ {n}, NEW i \in DOMAIN op_log[m], Receives(n, m, i)
        PROVE  CopiesInv'
    <2>1. PICK op \in Operation : op = OnWire(op_log[m][i])
      BY ReceivedOperation
    <2>2. PICK o \in Ops(m) : o = op_log[m][i] /\ o \in Operation
      BY ReceivedOperation
    <2>3. op.op_id = o.op_id /\ SameBut(o, op)
      BY <2>1, <2>2, OnWireKeeps, OnWireIsCopy
    <2>4. Record(n, op)
      BY <1>4, <2>1 DEF Receives
    <2>5. Ops(n)' = Ops(n) \cup {op} /\ \A p \in Node \ {n} : Ops(p)' = Ops(p)
      BY <2>4, RecordEffect
    <2>6. SameBut(op, op)
      BY DEF SameBut
    <2>7. ASSUME NEW p \in Node, NEW b \in Ops(p), b.op_id = op.op_id
          PROVE  SameBut(op, b) /\ SameBut(b, op)
      <3>1. SameBut(b, o) /\ SameBut(o, b)
        BY <2>2, <2>3, <2>7 DEF CopiesInv
      <3>2. SameBut(b, op)
        BY <2>3, <3>1, SameButTwice
      <3>3. SameBut(op, b)
        BY <2>6, <3>2, SameButTwice
      <3>. QED
        BY <3>2, <3>3
    <2>8. ASSUME NEW p \in Node, NEW q \in Node, NEW a \in Ops(p)', NEW b \in Ops(q)',
                 a.op_id = b.op_id
          PROVE  SameBut(a, b)
      <3>1. a \in Ops(p) \/ a = op
        BY <2>5
      <3>2. b \in Ops(q) \/ b = op
        BY <2>5
      <3>. QED
        BY <2>6, <2>7, <2>8, <3>1, <3>2 DEF CopiesInv
    <2>. QED
      BY <2>8 DEF CopiesInv
  <1>. QED
    BY <1>0, <1>1, <1>2, <1>3, <1>4, StepCases

\* The orders of any two copies of an add are at prices less than a tick per node apart:
\* both have drifted from the price the origin has in its log.
LEMMA CopiesNearby ==
    ASSUME Shape, CausalInv, PriceDriftBounded,
           NEW n \in Node, NEW m \in Node, NEW a \in Ops(n), NEW b \in Ops(m),
           a.op_id = b.op_id, a.type = "ADD_ORDER"
    PROVE  a.order.price - b.order.price \in (1 - Cardinality(Node))..(Cardinality(Node) - 1)
  <1>1. /\ Stamp(a) \in Stamps /\ Stamp(a).op_id = a.op_id
        /\ Stamp(a).origin_node = a.origin_node /\ a.origin_node \in Node
    BY OperationStamped
  <1>2. Stamp(a) \in StampsOf(a.origin_node)
    BY <1>1 DEF CausalInv
  <1>3. PICK o \in Ops(a.origin_node) : Stamp(o) = Stamp(a)
    BY <1>2 DEF StampsOf
  <1>4. o.op_id = a.op_id /\ o.type = a.type /\ o.origin_node = a.origin_node
    BY <1>1, <1>3, OperationStamped DEF Stamp
  <1>5. b.type = "ADD_ORDER"
    BY CopiesShareStamp
  <1>6. o \in Operation /\ a \in Operation /\ b \in Operation
    BY <1>1, StampType
  <1>7. o.order.price \in Nat /\ a.order.price \in Nat /\ b.order.price \in Nat
    BY <1>4, <1>5, <1>6, PriceOfAdd
  <1>8. Cardinality(Node) \in Nat
    BY NodeAssumption, FS_CardinalityType
  <1>9. /\ a.order.price \in (o.order.price - Cardinality(Node) + 1)..o.order.price
        /\ b.order.price \in (o.order.price - Cardinality(Node) + 1)..o.order.price
    BY <1>1, <1>4 DEF PriceDriftBounded
  <1>. QED
    BY <1>7, <1>8, <1>9

\* All that convergence rests on, at once.
Convergence ==
    /\ Shape /\ IdsIssued /\ CausalInv /\ NoOperationTwice /\ BookFollowsLog
    /\ OrderInv /\ TicksInv /\ KeepInv /\ CopiesInv /\ PriceDriftBounded

\* It holds throughout.
LEMMA ConvergenceInvariant == Spec => []Convergence
  <1>1. Init => OrderInv /\ TicksInv /\ KeepInv /\ CopiesInv
    <2>. SUFFICES ASSUME Init PROVE OrderInv /\ TicksInv /\ KeepInv /\ CopiesInv
      OBVIOUS
    <2>1. \A n \in Node : Ops(n) = {} /\ DOMAIN op_log[n] = {}
      BY DEF Init, Ops
    <2>2. \A n \in Node : Own(n) = {} /\ StampsOf(n) = {}
      BY <2>1 DEF Own, StampsOf
    <2>3. \A n \in Node : at(clock[n], n) = 0
      BY NewClockCounts DEF Init
    <2>. QED
      BY <2>1, <2>2, <2>3, FS_EmptySet DEF OrderInv, TicksInv, KeepInv, KeepsUncancelled, CopiesInv
  <1>2. ASSUME Shape, IdsIssued, CausalInv, NoOperationTwice, BookFollowsLog, OrderInv, [Next]_vars
        PROVE  OrderInv'
    <2>0. TypeOK
      BY <1>2, TypesFromShape
    <2>1. CASE UNCHANGED vars
      BY <1>2, <2>1 DEF vars, OrderInv, Stamps, StampsOf, Stamp, Ops, Below
    <2>. QED
      BY <1>2, <2>0, <2>1, StepCases, OrderIssued, OrderTicked, OrderReceived
  <1>3. Convergence /\ [Next]_vars => OrderInv' /\ TicksInv' /\ KeepInv' /\ CopiesInv'
    BY <1>2, TicksPreserved, KeepPreserved, CopiesPreserved DEF Convergence
  <1>4. Spec => [](Shape /\ IdsIssued /\ CausalInv /\ NoOperationTwice /\ BookFollowsLog)
    BY CausalInvariant, AppliedOnce, CancelledForGood, PTL
  <1>5. /\ Shape /\ IdsIssued /\ CausalInv /\ NoOperationTwice /\ BookFollowsLog
        /\ OrderInv /\ TicksInv /\ KeepInv /\ CopiesInv /\ PriceDriftBounded
       <=> Convergence
    BY DEF Convergence
  <1>. QED
    BY <1>1, <1>3, <1>4, <1>5, DriftIsBounded, PTL DEF Spec

\* Nodes that know operations of the same ids hold the same orders.
LEMMA SameIdsSameOrders ==
    ASSUME Convergence, NEW n \in Node, NEW m \in Node, seen_ops[n] = seen_ops[m],
           AppliedInCausalOrder(n), AppliedInCausalOrder(m), PublishedAll(n), PublishedAll(m)
    PROVE  /\ SameOrders(book[n], book[m])
           /\ Ops(n) = Ops(m) \/ Lossy = {} => Depth(book[n]) = Depth(book[m])
  <1>1. ASSUME NEW k \in Node, AppliedInCausalOrder(k), PublishedAll(k)
        PROVE  /\ \A id : id \in Resting(book[k]) <=>
                    /\ \E a \in Ops(k) : a.type = "ADD_ORDER" /\ a.op_id = id
                    /\ ~\E c \in Ops(k) : c.type = "CANCEL_ORDER" /\ c.cancel_order_id = id
               /\ \A a \in Ops(k) : a.type = "ADD_ORDER" /\ a.op_id \in Resting(book[k]) =>
                    Keeps(book[k], a.order)
    BY <1>1, CausalBook DEF Convergence
  <1>2. ASSUME NEW k \in Node, NEW l \in Node, seen_ops[k] = seen_ops[l], NEW a \in Ops(k)
        PROVE  \E b \in Ops(l) : b.op_id = a.op_id /\ SameBut(a, b)
    <2>1. a.op_id \in seen_ops[l]
      BY <1>2 DEF Convergence, NoOperationTwice
    <2>. QED
      BY <2>1 DEF Convergence, NoOperationTwice, CopiesInv
  <1>3. ASSUME NEW k \in Node, NEW l \in Node, seen_ops[k] = seen_ops[l],
               AppliedInCausalOrder(k), AppliedInCausalOrder(l), PublishedAll(k), PublishedAll(l),
               NEW id \in Resting(book[k])
        PROVE  id \in Resting(book[l])
    <2>1. PICK a \in Ops(k) : a.type = "ADD_ORDER" /\ a.op_id = id
      BY <1>1, <1>3
    <2>2. PICK b \in Ops(l) : b.op_id = a.op_id /\ SameBut(a, b)
      BY <1>2, <1>3
    <2>3. b.type = "ADD_ORDER"
      BY <2>1, <2>2 DEF SameBut
    <2>4. ASSUME NEW c \in Ops(l), c.type = "CANCEL_ORDER", c.cancel_order_id = id PROVE FALSE
      <3>1. PICK d \in Ops(k) : d.op_id = c.op_id /\ SameBut(c, d)
        BY <1>2, <1>3
      <3>2. d.type = "CANCEL_ORDER" /\ d.cancel_order_id = id
        BY <2>4, <3>1 DEF SameBut
      <3>. QED
        BY <1>1, <1>3, <3>2
    <2>. QED
      BY <1>1, <1>3, <2>1, <2>2, <2>3, <2>4
  <1>4. Resting(book[n]) = Resting(book[m])
    <2>1. \A id : id \in Resting(book[n]) <=> id \in Resting(book[m])
      BY <1>3
    <2>. QED
      BY <2>1, SetExtensionality
  <1>5. ASSUME NEW id \in Resting(book[n])
        PROVE  /\ book[n].resting[id].side = book[m].resting[id].side
               /\ book[n].resting[id].remaining = book[m].resting[id].remaining
               /\ book[n].resting[id].price - book[m].resting[id].price \in
                     (1 - Cardinality(Node))..(Cardinality(Node) - 1)
               /\ Ops(n) = Ops(m) \/ Lossy = {} =>
                     book[n].resting[id].price = book[m].resting[id].price
    <2>1. PICK a \in Ops(n) : a.type = "ADD_ORDER" /\ a.op_id = id
      BY <1>1
    <2>2. PICK b \in Ops(m) : b.op_id = a.op_id /\ SameBut(a, b)
      BY <1>2
    <2>3. /\ b.type = "ADD_ORDER" /\ a.order.side = b.order.side
          /\ a.order.quantity = b.order.quantity
          /\ Lossy = {} => a.order.price = b.order.price
      BY <2>1, <2>2 DEF SameBut
    <2>4. a.order.order_id = id /\ b.order.order_id = id
      BY <2>1, <2>2, <2>3 DEF Convergence, OrderInv
    <2>5. Keeps(book[n], a.order) /\ Keeps(book[m], b.order)
      BY <1>1, <1>4, <2>1, <2>2, <2>3
    <2>6. Ops(n) = Ops(m) => a.order.price = b.order.price
      <3>1. Ops(n) = Ops(m) => Keeps(book[m], a.order)
        BY <1>1, <1>4, <2>1
      <3>. QED
        BY <2>4, <2>5, <3>1 DEF Keeps
    <2>7. a.order.price - b.order.price \in (1 - Cardinality(Node))..(Cardinality(Node) - 1)
      BY <2>1, <2>2, CopiesNearby DEF Convergence
    <2>. QED
      BY <2>3, <2>4, <2>5, <2>6, <2>7 DEF Keeps
  <1>6. SameOrders(book[n], book[m])
    BY <1>4, <1>5 DEF SameOrders
  <1>7. Ops(n) = Ops(m) \/ Lossy = {} => Depth(book[n]) = Depth(book[m])
    BY <1>4, <1>5, SameDepth
  <1>. QED
    BY <1>6, <1>7

\* Replicas converge: nodes that have operations of the same ids, each applied after
\* those that happened before it, hold the same orders, and show the same levels and
\* totals but for the ticks the wire took, for any number of nodes and any orders of
\* delivery, as long as neither has executed a market order or a cancel that it did not
\* publish.
THEOREM ReplicasConverge == Spec => []CausalNodesAgree
  <1>1. ASSUME Convergence PROVE CausalNodesAgree
    BY <1>1, SameIdsSameOrders DEF CausalNodesAgree
  <1>. QED
    BY <1>1, ConvergenceInvariant, PTL

-----------------------------------------------------------------------------
(* Nodes that stop and start again.                                        *)

\* Datagrams that outlive a log carry operations that were in it.
AfloatIssued ==
    /\ afloat \in [Node -> SUBSET Operation]
    /\ \A m \in Node : \A op \in afloat[m] : IdsGiven(op)

\* Node n applies a copy of o, which is new to it.
Takes(n, o) ==
    LET op == OnWire(o)
    IN  /\ op.op_id \notin seen_ops[n]
        /\ clock' = [clock EXCEPT ![n] = merge(clock[n], op.clock)]
        /\ book' = [book EXCEPT ![n] = Apply(book[n], op)]
        /\ Record(n, op)
        /\ UNCHANGED issued

\* Everything a step can do where nodes stop and start.
LEMMA RestartCases ==
    ASSUME Shape, TypeOK, [RestartNext]_<<vars, restart_vars>>
    PROVE  \/ UNCHANGED vars /\ UNCHANGED afloat
           \/ UNCHANGED afloat /\ \E n \in Node : /\ LocalOperation(n)
                                                  /\ \/ \E op \in Operation : Issues(n, op)
                                                     \/ \E b : OnlyTicks(n, b)
           \/ UNCHANGED afloat /\ \E n, m \in Node : \E o \in Ops(m) \cup afloat[m] : Takes(n, o)
           \/ \E n \in Node : restart(n) \/ Lost(n)
  <1>1. CASE UNCHANGED <<vars, restart_vars>>
    BY <1>1 DEF restart_vars
  <1>2. ASSUME NEW n \in Node, LocalOperation(n)
        PROVE  UNCHANGED vars \/ /\ LocalOperation(n)
                                 /\ \/ \E op \in Operation : Issues(n, op)
                                    \/ \E b : OnlyTicks(n, b)
    BY <1>2, LocalCases
  <1>3. ASSUME NEW n \in Node, NEW m \in Node, Deliver(m, n)
        PROVE  UNCHANGED vars \/ \E o \in Ops(m) \cup afloat[m] : Takes(n, o)
    <2>1. PICK i \in DOMAIN op_log[m] : apply_remote_operation(n, OnWire(op_log[m][i]))
      BY <1>3 DEF Deliver
    <2>2. op_log[m][i] \in Ops(m)
      BY DEF Ops
    <2>3. UNCHANGED vars \/ Takes(n, op_log[m][i])
      BY <2>1 DEF apply_remote_operation, Takes
    <2>. QED
      BY <2>2, <2>3
  <1>4. ASSUME NEW n \in Node, NEW m \in Node, Arrives(m, n)
        PROVE  /\ UNCHANGED afloat
               /\ UNCHANGED vars \/ \E o \in Ops(m) \cup afloat[m] : Takes(n, o)
    BY <1>4 DEF Arrives, apply_remote_operation, Takes, restart_vars
  <1>5. CASE Next /\ UNCHANGED restart_vars
    <2>1. UNCHANGED afloat
      BY <1>5 DEF restart_vars
    <2>. QED
      BY <1>2, <1>3, <1>5, <2>1 DEF Next
  <1>6. CASE \E n \in Node : restart(n) \/ Lost(n)
    BY <1>6
  <1>7. CASE \E m \in Node : \E n \in Node \ {m} : Arrives(m, n)
    BY <1>4, <1>7
  <1>. QED
    BY <1>1, <1>5, <1>6, <1>7 DEF RestartNext

\* What n takes is an operation, of ids that have been given out, as the wire leaves it.
LEMMA TakenOperation ==
    ASSUME Shape, IdsIssued, AfloatIssued, NEW m \in Node, NEW o \in Ops(m) \cup afloat[m]
    PROVE  o \in Operation /\ IdsGiven(o) /\ OnWire(o) \in Operation /\ IdsGiven(OnWire(o))
  <1>1. o \in Operation /\ IdsGiven(o)
    BY StampType DEF IdsIssued, AfloatIssued
  <1>. QED
    BY <1>1, OnWireKeeps, CopyGiven

\* What a restart leaves of n.
LEMMA RestartEffect ==
    ASSUME Shape, NEW n \in Node, restart(n)
    PROVE  /\ Shape' /\ issued' = issued
           /\ clock'[n] = new_clock(n) /\ book'[n] = NewBook
           /\ op_log'[n] = <<>> /\ seen_ops'[n] = {} /\ Ops(n)' = {}
           /\ \A m \in Node \ {n} : /\ clock'[m] = clock[m] /\ book'[m] = book[m]
                                    /\ op_log'[m] = op_log[m] /\ seen_ops'[m] = seen_ops[m]
                                    /\ Ops(m)' = Ops(m)
  <1>1. /\ clock'[n] = new_clock(n) /\ book'[n] = NewBook
        /\ op_log'[n] = <<>> /\ seen_ops'[n] = {} /\ issued' = issued
        /\ \A m \in Node \ {n} : /\ clock'[m] = clock[m] /\ book'[m] = book[m]
                                 /\ op_log'[m] = op_log[m] /\ seen_ops'[m] = seen_ops[m]
    BY DEF restart, Shape
  <1>2. Ops(n)' = {} /\ \A m \in Node \ {n} : Ops(m)' = Ops(m)
    BY <1>1 DEF Ops
  <1>3. new_clock(n) \in Clock /\ IsBook(NewBook) /\ <<>> \in Seq(Operation)
    BY NewClockCounts, ClockType DEF IsBook, NewBook
  <1>4. book' = [k \in Node |-> book'[k]] /\ \A k \in Node : IsBook(book'[k])
    BY <1>1, <1>3 DEF restart, Shape
  <1>5. /\ clock' \in [Node -> Clock] /\ op_log' \in [Node -> Seq(Operation)]
        /\ seen_ops' \in [Node -> SUBSET Nat]
    BY <1>3 DEF restart, Shape
  <1>6. Shape'
    BY <1>1, <1>4, <1>5 DEF Shape
  <1>. QED
    BY <1>1, <1>2, <1>6

\* What is afloat after a restart was afloat or in the log that is gone.
LEMMA AfloatAfterRestart ==
    ASSUME AfloatIssued, NEW n \in Node, restart(n)
    PROVE  /\ afloat' = [m \in Node |-> afloat'[m]]
           /\ afloat'[n] \subseteq afloat[n] \cup Ops(n)
           /\ \A m \in Node \ {n} : afloat'[m] = afloat[m]
    BY DEF restart, AfloatIssued

\* A loss only takes away.
LEMMA AfloatAfterLoss ==
    ASSUME AfloatIssued, NEW n \in Node, Lost(n)
    PROVE  /\ UNCHANGED vars /\ afloat' = [m \in Node |-> afloat'[m]]
           /\ \A m \in Node : afloat'[m] \subseteq afloat[m]
    BY DEF Lost, AfloatIssued

\* Ids stay given out.
LEMMA GivenStays ==
    ASSUME NEW op, IdsGiven(op), issued \in Nat, issued' \in Nat, issued <= issued'
    PROVE  IdsGiven(op)'
    BY DEF IdsGiven

\* Every step keeps the types.
LEMMA RestartTypesPreserved ==
    ASSUME Shape, IdsIssued, AfloatIssued, [RestartNext]_<<vars, restart_vars>>
    PROVE  Shape' /\ IdsIssued' /\ AfloatIssued'
  <1>0. TypeOK
    BY TypesFromShape
  <1>1. ASSUME Shape', issued <= issued', UNCHANGED afloat PROVE AfloatIssued'
    <2>1. issued \in Nat /\ issued' \in Nat
      BY <1>1 DEF Shape
    <2>. QED
      BY <1>1, <2>1, GivenStays DEF AfloatIssued
  <1>2. CASE UNCHANGED vars /\ UNCHANGED afloat
    BY <1>2 DEF vars, Shape, IdsIssued, Ops, IdsGiven, AfloatIssued
  <1>3. ASSUME NEW n \in Node, LocalOperation(n), UNCHANGED afloat,
               \/ \E op \in Operation : Issues(n, op)
               \/ \E b : OnlyTicks(n, b)
        PROVE  Shape' /\ IdsIssued' /\ AfloatIssued'
    <2>1. Shape' /\ IdsIssued'
      BY <1>3, TypesPreserved DEF Next
    <2>2. issued <= issued'
      BY <1>3 DEF Issues, OnlyTicks, Shape
    <2>. QED
      BY <1>1, <1>3, <2>1, <2>2
  <1>4. ASSUME NEW n \in Node, NEW m \in Node, NEW o \in Ops(m) \cup afloat[m], Takes(n, o),
               UNCHANGED afloat
        PROVE  Shape' /\ IdsIssued' /\ AfloatIssued'
    <2>1. PICK op \in Operation : op = OnWire(o) /\ IdsGiven(op)
      BY TakenOperation
    <2>2. Shape' /\ IdsIssued'
      BY <1>4, <2>1, TypesTaken DEF Takes
    <2>3. issued <= issued'
      BY <1>4 DEF Takes, Shape
    <2>. QED
      BY <1>1, <1>4, <2>2, <2>3
  <1>5. ASSUME NEW n \in Node, restart(n) PROVE Shape' /\ IdsIssued' /\ AfloatIssued'
    <2>1. /\ Shape' /\ issued' = issued /\ issued \in Nat
          /\ book'[n] = NewBook /\ seen_ops'[n] = {} /\ Ops(n)' = {}
          /\ \A m \in Node \ {n} : /\ book'[m] = book[m] /\ seen_ops'[m] = seen_ops[m]
                                   /\ Ops(m)' = Ops(m)
      BY <1>5, RestartEffect DEF Shape
    <2>2. Resting(NewBook) = {} /\ NewBook.known = {}
      BY DEF NewBook, Resting
    <2>3. IdsIssued'
      BY <2>1, <2>2 DEF IdsIssued, IdsGiven
    <2>4. /\ afloat' = [m \in Node |-> afloat'[m]]
          /\ afloat'[n] \subseteq afloat[n] \cup Ops(n)
          /\ \A m \in Node \ {n} : afloat'[m] = afloat[m]
      BY <1>5, AfloatAfterRestart
    <2>5. \A m \in Node : \A op \in afloat'[m] : op \in Operation /\ IdsGiven(op)
      BY <2>4, TakenOperation
    <2>6. \A m \in Node : \A op \in afloat'[m] : IdsGiven(op)'
      BY <2>1, <2>5, GivenStays
    <2>. QED
      BY <2>1, <2>3, <2>4, <2>5, <2>6 DEF AfloatIssued
  <1>6. ASSUME NEW n \in Node, Lost(n) PROVE Shape' /\ IdsIssued' /\ AfloatIssued'
    <2>1. /\ UNCHANGED vars /\ afloat' = [m \in Node |-> afloat'[m]]
          /\ \A m \in Node : afloat'[m] \subseteq afloat[m]
      BY <1>6, AfloatAfterLoss
    <2>2. Shape' /\ IdsIssued'
      BY <2>1, TypesPreserved
    <2>3. \A m \in Node : \A op \in afloat'[m] : op \in Operation /\ IdsGiven(op)'
      BY <2>1 DEF AfloatIssued, IdsGiven, vars
    <2>. QED
      BY <2>1, <2>2, <2>3 DEF AfloatIssued
  <1>. QED
    BY <1>0, <1>2, <1>3, <1>4, <1>5, <1>6, RestartCases

\* Every step keeps the logs without duplicates, and the books what the logs say.
LEMMA RestartLogsPreserved ==
    ASSUME Shape, IdsIssued, AfloatIssued, NoOperationTwice, BookFollowsLog,
           [RestartNext]_<<vars, restart_vars>>
    PROVE  NoOperationTwice' /\ BookFollowsLog'
  <1>0. TypeOK
    BY TypesFromShape
  <1>1. ASSUME [Next]_vars PROVE NoOperationTwice' /\ BookFollowsLog'
    BY <1>1, OncePreserved, BookPreserved
  <1>2. ASSUME NEW n \in Node, NEW m \in Node, NEW o \in Ops(m) \cup afloat[m], Takes(n, o)
        PROVE  NoOperationTwice' /\ BookFollowsLog'
    <2>1. PICK op \in Operation : op = OnWire(o)
      BY TakenOperation
    <2>. QED
      BY <1>2, <2>1, OnceRecorded, BookRecorded DEF Takes
  <1>3. ASSUME NEW n \in Node, restart(n) PROVE NoOperationTwice' /\ BookFollowsLog'
    <2>1. /\ book'[n] = NewBook /\ op_log'[n] = <<>> /\ seen_ops'[n] = {} /\ Ops(n)' = {}
          /\ \A m \in Node \ {n} : /\ book'[m] = book[m] /\ op_log'[m] = op_log[m]
                                   /\ seen_ops'[m] = seen_ops[m] /\ Ops(m)' = Ops(m)
      BY <1>3, RestartEffect
    <2>2. NewBook.known = {} /\ DOMAIN op_log'[n] = {}
      BY <2>1 DEF NewBook
    <2>3. NoOperationTwice'
      BY <2>1, <2>2 DEF NoOperationTwice
    <2>4. BookFollowsLog'
      BY <2>1, <2>2 DEF BookFollowsLog
    <2>. QED
      BY <2>3, <2>4
  <1>4. ASSUME NEW n \in Node, Lost(n) PROVE UNCHANGED vars
    BY <1>4 DEF Lost
  <1>5. ASSUME NEW n \in Node, LocalOperation(n) PROVE Next
    BY <1>5 DEF Next
  <1>. QED
    BY <1>0, <1>1, <1>2, <1>3, <1>4, <1>5, RestartCases

\* The types and the logs of the initial state.
LEMMA RestartInitially ==
    RestartInit => Shape /\ IdsIssued /\ AfloatIssued /\ NoOperationTwice /\ BookFollowsLog
  <1>1. Init => NoOperationTwice /\ BookFollowsLog
    BY DEF Init, NoOperationTwice, BookFollowsLog, Ops, NewBook
  <1>2. RestartInit => AfloatIssued
    BY DEF RestartInit, AfloatIssued
  <1>. QED
    BY <1>1, <1>2, TypesInitially DEF RestartInit

\* They hold throughout.
LEMMA RestartInvariant ==
    RestartSpec => [](Shape /\ IdsIssued /\ AfloatIssued /\ NoOperationTwice /\ BookFollowsLog)
  <1>1. /\ Shape /\ IdsIssued /\ AfloatIssued /\ NoOperationTwice /\ BookFollowsLog
        /\ [RestartNext]_<<vars, restart_vars>>
       => (Shape /\ IdsIssued /\ AfloatIssued /\ NoOperationTwice /\ BookFollowsLog)'
    BY RestartTypesPreserved, RestartLogsPreserved
  <1>. QED
    BY <1>1, RestartInitially, PTL DEF RestartSpec

\* Whatever nodes stop and start, and whatever of their earlier lives is still under
\* way, replication stays idempotent and every book is what its log says: the filter
\* and the book start again together (main constructs one CRDTOrderBook).
THEOREM RestartsKeepBooks == RestartSpec => [](TypeOK /\ NoOperationTwice /\ BookFollowsLog)
  <1>1. Shape /\ IdsIssued => TypeOK
    BY TypesFromShape
  <1>. QED
    BY <1>1, RestartInvariant, PTL

\* The stamps of all operations there are, in logs or under way from a log that is gone.
AfloatStamps == UNION {{Stamp(op) : op \in afloat[m]} : m \in Node}

AllStamps == Stamps \cup AfloatStamps

\* What is left of CausalInv where nodes forget: no two operations have one id, or count
\* each other; a clock that counts an operation counts all that the operation does; and
\* what a node counts, even of itself, an operation in its log does.
RestartInv ==
    /\ \A s \in AllStamps : at(s.clock, s.origin_node) >= 1
    /\ \A a, b \in AllStamps : a.op_id = b.op_id => a = b
    /\ \A a, b \in AllStamps : Counts(a.clock, b) /\ Counts(b.clock, a) => a = b
    /\ \A a, b \in AllStamps : Counts(b.clock, a) => Below(a.clock, b.clock)
    /\ \A n \in Node : \A s \in AllStamps : Counts(clock[n], s) => Below(s.clock, clock[n])
    /\ \A n \in Node : \A s \in AllStamps : Counts(clock[n], s) =>
          \E t \in StampsOf(n) : Counts(t.clock, s)
    /\ \A n \in Node : Learnt(n)

\* The parts of a stamp.
LEMMA AllStampsType ==
    ASSUME Shape, AfloatIssued
    PROVE  /\ \A s \in AllStamps : s.origin_node \in Node /\ s.clock \in Clock
           /\ \A s \in AllStamps : \A k \in Node : at(s.clock, k) \in Nat
           /\ \A m \in Node : \A o \in Ops(m) \cup afloat[m] : Stamp(o) \in AllStamps
           /\ \A n \in Node : StampsOf(n) \subseteq AllStamps
  <1>1. ASSUME NEW s \in AfloatStamps PROVE s.origin_node \in Node /\ s.clock \in Clock
    <2>1. PICK m \in Node : \E op \in afloat[m] : s = Stamp(op)
      BY DEF AfloatStamps
    <2>2. PICK op \in afloat[m] : s = Stamp(op)
      BY <2>1
    <2>3. op \in Operation
      BY DEF AfloatIssued
    <2>4. op.origin_node \in Node /\ op.clock \in Clock
      BY <2>3 DEF Operation, AddOperation, CancelOperation
    <2>. QED
      BY <2>2, <2>4 DEF Stamp
  <1>2. \A s \in AllStamps : s.origin_node \in Node /\ s.clock \in Clock
    BY <1>1, StampType DEF AllStamps
  <1>3. \A m \in Node : \A o \in Ops(m) \cup afloat[m] : Stamp(o) \in AllStamps
    BY DEF AllStamps, AfloatStamps, Stamps, StampsOf
  <1>4. \A n \in Node : StampsOf(n) \subseteq AllStamps
    BY StampType DEF AllStamps
  <1>. QED
    BY <1>2, <1>3, <1>4, CountIsNat

\* Where operations disappear and clocks start again, nothing is counted that was not.
LEMMA FewerStamps ==
    ASSUME Shape, AfloatIssued, RestartInv, AllStamps' \subseteq AllStamps,
           \A n \in Node : \/ clock'[n] = clock[n] /\ StampsOf(n)' = StampsOf(n)
                           \/ clock'[n] = new_clock(n)
    PROVE  RestartInv'
  <1>1. \A n \in Node : \A s \in AllStamps : Counts(clock'[n], s) =>
           clock'[n] = clock[n] /\ StampsOf(n)' = StampsOf(n)
    <2>1. ASSUME NEW n \in Node, NEW s \in AllStamps PROVE ~Counts(new_clock(n), s)
      BY NewClockCounts, AllStampsType DEF Counts, RestartInv
    <2>. QED
      BY <2>1
  <1>2. \A n \in Node : \A s \in AllStamps' : Counts(clock'[n], s) => Below(s.clock, clock'[n])
    BY <1>1 DEF RestartInv
  <1>3. \A n \in Node : \A s \in AllStamps' : Counts(clock'[n], s) =>
           \E t \in StampsOf(n)' : Counts(t.clock, s)
    BY <1>1 DEF RestartInv
  <1>4. \A n \in Node : Learnt(n)'
    <2>1. ASSUME NEW n \in Node, clock'[n] = new_clock(n) PROVE Learnt(n)'
      BY <2>1, NewClockCounts DEF Learnt
    <2>2. ASSUME NEW n \in Node, clock'[n] = clock[n], StampsOf(n)' = StampsOf(n) PROVE Learnt(n)'
      BY <2>2 DEF Learnt, RestartInv
    <2>. QED
      BY <2>1, <2>2
  <1>. QED
    BY <1>2, <1>3, <1>4 DEF RestartInv

\* A tick of a node that has caught up makes its clock count nothing that there is.
LEMMA CaughtUpTick ==
    ASSUME Shape, AfloatIssued, RestartInv, NEW n \in Node, CaughtUp(n),
           clock' = [clock EXCEPT ![n] = tick(clock[n], n)]
    PROVE  /\ clock'[n] \in Clock /\ \A m \in Node \ {n} : clock'[m] = clock[m]
           /\ at(clock'[n], n) >= 1
           /\ \A k \in Node \ {n} : at(clock'[n], k) = at(clock[n], k)
           /\ \A m \in Node \ {n} : at(clock[m], n) < at(clock'[n], n)
           /\ \A s \in AllStamps : at(s.clock, n) < at(clock'[n], n)
           /\ \A s \in AllStamps : Counts(clock'[n], s) => Counts(clock[n], s)
           /\ \A s \in AllStamps : Counts(clock'[n], s) => Below(s.clock, clock'[n])
  <1>1. clock[n] \in Clock /\ IsClock(clock[n], Node)
    BY ClockType DEF Shape
  <1>2. /\ clock'[n] = tick(clock[n], n) /\ clock'[n] \in Clock
        /\ at(clock'[n], n) = at(clock[n], n) + 1
        /\ \A k \in Node \ {n} : at(clock'[n], k) = at(clock[n], k)
    BY <1>1, ClockType, TickCounts DEF Shape
  <1>3. \A m \in Node \ {n} : clock'[m] = clock[m]
    BY DEF Shape
  <1>4. \A k \in Node : at(clock[n], k) \in Nat
    BY <1>1, CountIsNat
  <1>5. \A s \in AllStamps : s.origin_node \in Node /\ \A k \in Node : at(s.clock, k) \in Nat
    BY AllStampsType
  <1>6. \A s \in AllStamps : at(s.clock, n) <= at(clock[n], n)
    <2>1. ASSUME NEW s \in AllStamps
          PROVE  \E m \in Node : \E op \in Ops(m) \cup afloat[m] : s = Stamp(op)
      BY DEF AllStamps, AfloatStamps, Stamps, StampsOf
    <2>2. \A m \in Node : \A op \in Ops(m) \cup afloat[m] : at(Stamp(op).clock, n) <= at(clock[n], n)
      BY DEF CaughtUp, Stamp
    <2>. QED
      BY <2>1, <2>2
  <1>7. \A s \in AllStamps : at(s.clock, n) < at(clock'[n], n)
    BY <1>2, <1>4, <1>5, <1>6
  <1>8. \A s \in AllStamps : Counts(clock'[n], s) => Counts(clock[n], s)
    BY <1>2, <1>4, <1>5, <1>6 DEF Counts
  <1>9. ASSUME NEW s \in AllStamps, Counts(clock'[n], s) PROVE Below(s.clock, clock'[n])
    <2>1. Below(s.clock, clock[n])
      BY <1>8, <1>9 DEF RestartInv
    <2>. QED
      BY <1>2, <1>4, <1>5, <2>1 DEF Below
  <1>10. ASSUME NEW m \in Node \ {n} PROVE at(clock[m], n) < at(clock'[n], n)
    <2>1. at(clock[m], n) \in Nat
      BY CountIsNat DEF Shape
    <2>2. CASE at(clock[m], n) = 0
      BY <1>2, <1>4, <2>2
    <2>3. CASE at(clock[m], n) > 0
      <3>1. PICK s \in StampsOf(m) : at(s.clock, n) >= at(clock[m], n)
        BY <2>3 DEF RestartInv, Learnt
      <3>2. s \in AllStamps
        BY <3>1, AllStampsType
      <3>3. at(s.clock, n) \in Nat /\ at(s.clock, n) < at(clock'[n], n)
        BY <1>5, <1>7, <3>2
      <3>. QED
        BY <1>2, <1>4, <2>1, <3>1, <3>3
    <2>. QED
      BY <2>1, <2>2, <2>3
  <1>. QED
    BY <1>2, <1>3, <1>4, <1>7, <1>8, <1>9, <1>10

\* A tick without an operation keeps the invariant.
LEMMA RestartTicked ==
    ASSUME Shape, AfloatIssued, RestartInv, NEW n \in Node, CaughtUp(n), NEW b, OnlyTicks(n, b),
           UNCHANGED afloat
    PROVE  RestartInv'
  <1>1. clock' = [clock EXCEPT ![n] = tick(clock[n], n)]
    BY DEF OnlyTicks
  <1>2. AllStamps' = AllStamps /\ \A m \in Node : StampsOf(m)' = StampsOf(m)
    BY DEF OnlyTicks, AllStamps, AfloatStamps, Stamps, StampsOf, Stamp, Ops
  <1>3. /\ \A m \in Node \ {n} : clock'[m] = clock[m]
        /\ \A k \in Node \ {n} : at(clock'[n], k) = at(clock[n], k)
        /\ \A s \in AllStamps : Counts(clock'[n], s) => Counts(clock[n], s)
        /\ \A s \in AllStamps : Counts(clock'[n], s) => Below(s.clock, clock'[n])
    BY <1>1, CaughtUpTick
  <1>4. \A m \in Node : \A s \in AllStamps' : Counts(clock'[m], s) => Below(s.clock, clock'[m])
    BY <1>2, <1>3 DEF RestartInv
  <1>5. \A m \in Node : \A s \in AllStamps' : Counts(clock'[m], s) =>
           \E t \in StampsOf(m)' : Counts(t.clock, s)
    BY <1>2, <1>3 DEF RestartInv
  <1>6. \A m \in Node : Learnt(m)'
    <2>1. ASSUME NEW m \in Node, NEW k \in Node \ {m}, at(clock'[m], k) > 0
          PROVE  \E s \in StampsOf(m)' : at(s.clock, k) >= at(clock'[m], k)
      <3>1. at(clock'[m], k) = at(clock[m], k)
        BY <1>3
      <3>. QED
        BY <1>2, <2>1, <3>1 DEF RestartInv, Learnt
    <2>. QED
      BY <2>1 DEF Learnt
  <1>. QED
    BY <1>2, <1>4, <1>5, <1>6 DEF RestartInv

\* Nor does anything count the operation that a node that has caught up issues.
LEMMA RestartIssued ==
    ASSUME Shape, IdsIssued, AfloatIssued, RestartInv, NEW n \in Node, CaughtUp(n),
           NEW op \in Operation, Issues(n, op), UNCHANGED afloat
    PROVE  RestartInv'
  <1>. DEFINE new == Stamp(op)
  <1>1. /\ clock' = [clock EXCEPT ![n] = tick(clock[n], n)] /\ Record(n, op)
        /\ clock' = [clock EXCEPT ![n] = op.clock]
        /\ new.clock = op.clock /\ new.origin_node = n /\ new.op_id = issued + 1
    BY DEF Issues, Stamp
  <1>2. /\ StampsOf(n)' = StampsOf(n) \cup {new}
        /\ \A m \in Node \ {n} : StampsOf(m)' = StampsOf(m)
        /\ Stamps' = Stamps \cup {new}
    BY <1>1, StampRecorded
  <1>3. AllStamps' = AllStamps \cup {new}
    BY <1>2 DEF AllStamps, AfloatStamps
  <1>4. /\ clock'[n] \in Clock /\ \A m \in Node \ {n} : clock'[m] = clock[m]
        /\ at(clock'[n], n) >= 1
        /\ \A k \in Node \ {n} : at(clock'[n], k) = at(clock[n], k)
        /\ \A m \in Node \ {n} : at(clock[m], n) < at(clock'[n], n)
        /\ \A s \in AllStamps : at(s.clock, n) < at(clock'[n], n)
        /\ \A s \in AllStamps : Counts(clock'[n], s) => Counts(clock[n], s)
        /\ \A s \in AllStamps : Counts(clock'[n], s) => Below(s.clock, clock'[n])
    BY <1>1, CaughtUpTick
  <1>5. new.clock = clock'[n]
    BY <1>1 DEF Shape
  <1>6. \A s \in AllStamps : s.op_id # new.op_id
    <2>1. \A m \in Node : \A x \in Ops(m) \cup afloat[m] : Stamp(x).op_id \in 1..issued
      BY DEF Stamp, IdsIssued, AfloatIssued, IdsGiven
    <2>2. \A s \in AllStamps : s.op_id \in 1..issued
      BY <2>1 DEF AllStamps, AfloatStamps, Stamps, StampsOf
    <2>. QED
      BY <1>1, <2>2 DEF Shape
  <1>. HIDE DEF new
  <1>7. \A k \in Node : at(clock'[n], k) \in Nat
    BY <1>4, CountIsNat
  <1>8. \A s \in AllStamps : \A k \in Node : at(s.clock, k) \in Nat
    BY AllStampsType
  <1>9. \A s \in AllStamps : ~Counts(s.clock, new)
    BY <1>1, <1>4, <1>5, <1>7, <1>8 DEF Counts
  <1>10. Counts(new.clock, new) /\ Below(new.clock, new.clock)
    BY <1>1, <1>5, <1>7 DEF Counts, Below
  <1>11. \A s \in AllStamps' : at(s.clock, s.origin_node) >= 1
    BY <1>1, <1>3, <1>4, <1>5 DEF RestartInv
  <1>12. \A a, b \in AllStamps' : /\ a.op_id = b.op_id => a = b
                                  /\ Counts(a.clock, b) /\ Counts(b.clock, a) => a = b
                                  /\ Counts(b.clock, a) => Below(a.clock, b.clock)
    BY <1>3, <1>4, <1>5, <1>6, <1>9, <1>10 DEF RestartInv
  <1>13. \A m \in Node \ {n} : ~Counts(clock[m], new)
    <2>1. \A m \in Node \ {n} : at(clock[m], n) \in Nat
      BY CountIsNat DEF Shape
    <2>. QED
      BY <1>1, <1>4, <1>5, <1>7, <2>1 DEF Counts
  <1>14. \A m \in Node : \A s \in AllStamps' : Counts(clock'[m], s) => Below(s.clock, clock'[m])
    <2>1. \A m \in Node : \A s \in AllStamps : Counts(clock'[m], s) => Below(s.clock, clock'[m])
      BY <1>4 DEF RestartInv
    <2>. QED
      BY <1>3, <1>4, <1>5, <1>10, <1>13, <2>1
  <1>15. \A m \in Node : \A s \in AllStamps' : Counts(clock'[m], s) =>
            \E t \in StampsOf(m)' : Counts(t.clock, s)
    <2>1. \A m \in Node : \A s \in AllStamps : Counts(clock'[m], s) =>
             \E t \in StampsOf(m) : Counts(t.clock, s)
      BY <1>4 DEF RestartInv
    <2>. QED
      BY <1>2, <1>3, <1>4, <1>10, <1>13, <2>1
  <1>16. \A m \in Node : Learnt(m)'
    <2>1. ASSUME NEW m \in Node, NEW k \in Node \ {m}, at(clock'[m], k) > 0
          PROVE  \E s \in StampsOf(m)' : at(s.clock, k) >= at(clock'[m], k)
      <3>1. at(clock'[m], k) = at(clock[m], k)
        BY <1>4
      <3>. QED
        BY <1>2, <2>1, <3>1 DEF RestartInv, Learnt
    <2>. QED
      BY <2>1 DEF Learnt
  <1>. QED
    BY <1>11, <1>12, <1>14, <1>15, <1>16 DEF RestartInv

\* A received operation brings no stamp that there was not, and the clock that results
\* counts what one of the two counted.
LEMMA RestartTaken ==
    ASSUME Shape, IdsIssued, AfloatIssued, RestartInv, NEW n \in Node, NEW m \in Node,
           NEW o \in Ops(m) \cup afloat[m], Takes(n, o), UNCHANGED afloat
    PROVE  RestartInv'
  <1>1. PICK op \in Operation : op = OnWire(o)
    BY TakenOperation
  <1>. DEFINE s0 == Stamp(op)
  <1>2. Record(n, op) /\ clock' = [clock EXCEPT ![n] = merge(clock[n], op.clock)]
    BY <1>1 DEF Takes
  <1>3. s0 \in AllStamps /\ s0.clock = op.clock
    <2>1. o \in Operation /\ Stamp(o) \in AllStamps
      BY TakenOperation, AllStampsType
    <2>2. Stamp(o) = s0
      BY <1>1, <2>1, OnWireKeeps DEF Stamp
    <2>. QED
      BY <2>1, <2>2 DEF Stamp
  <1>4. /\ StampsOf(n)' = StampsOf(n) \cup {s0}
        /\ \A k \in Node \ {n} : StampsOf(k)' = StampsOf(k)
        /\ Stamps' = Stamps \cup {s0}
    BY <1>2, StampRecorded
  <1>5. AllStamps' = AllStamps
    BY <1>3, <1>4 DEF AllStamps, AfloatStamps
  <1>. HIDE DEF s0
  <1>6. IsClock(clock[n], Node) /\ IsClock(op.clock, Node)
    BY ClockType DEF Shape, Operation, AddOperation, CancelOperation
  <1>7. /\ \A k \in Node \ {n} : clock'[k] = clock[k]
        /\ \A k \in Node : at(clock'[n], k) =
              IF at(clock[n], k) >= at(s0.clock, k) THEN at(clock[n], k) ELSE at(s0.clock, k)
    BY <1>2, <1>3, <1>6, MergeCounts DEF Shape
  <1>8. \A k \in Node : at(clock[n], k) \in Nat
    BY CountIsNat DEF Shape
  <1>9. \A s \in AllStamps : s.origin_node \in Node /\ \A k \in Node : at(s.clock, k) \in Nat
    BY AllStampsType
  <1>10. \A s \in AllStamps : Counts(clock'[n], s) => Counts(clock[n], s) \/ Counts(s0.clock, s)
    BY <1>3, <1>7, <1>8, <1>9 DEF Counts
  <1>11. ASSUME NEW p \in Node, NEW s \in AllStamps, Counts(clock'[p], s)
         PROVE  Below(s.clock, clock'[p])
    <2>1. CASE p # n
      BY <1>7, <1>11, <2>1 DEF RestartInv
    <2>2. CASE p = n
      <3>1. Below(s.clock, clock[n]) \/ Below(s.clock, s0.clock)
        BY <1>3, <1>10, <1>11, <2>2 DEF RestartInv
      <3>. QED
        BY <1>3, <1>7, <1>8, <1>9, <2>2, <3>1 DEF Below
    <2>. QED
      BY <2>1, <2>2
  <1>12. ASSUME NEW p \in Node, NEW s \in AllStamps, Counts(clock'[p], s)
         PROVE  \E t \in StampsOf(p)' : Counts(t.clock, s)
    <2>1. CASE p # n
      BY <1>4, <1>7, <1>12, <2>1 DEF RestartInv
    <2>2. CASE p = n
      BY <1>4, <1>10, <1>12, <2>2 DEF RestartInv
    <2>. QED
      BY <2>1, <2>2
  <1>13. ASSUME NEW p \in Node, NEW k \in Node \ {p}, at(clock'[p], k) > 0
         PROVE  \E s \in StampsOf(p)' : at(s.clock, k) >= at(clock'[p], k)
    <2>1. CASE at(clock'[p], k) = at(clock[p], k)
      BY <1>4, <1>13, <2>1 DEF RestartInv, Learnt
    <2>2. CASE p = n /\ at(clock'[p], k) = at(s0.clock, k)
      BY <1>3, <1>4, <1>9, <2>2
    <2>. QED
      BY <1>7, <2>1, <2>2
  <1>14. \A p \in Node : Learnt(p)'
    BY <1>13 DEF Learnt
  <1>. QED
    BY <1>5, <1>11, <1>12, <1>14 DEF RestartInv

\* Steps of nodes that trade only once they have caught up keep the invariant.
LEMMA RestartPreserved ==
    ASSUME Shape, IdsIssued, AfloatIssued, RestartInv, [RestartNext]_<<vars, restart_vars>>,
           [TradesCaughtUp]_vars
    PROVE  RestartInv'
  <1>0. TypeOK
    BY TypesFromShape
  <1>1. CASE UNCHANGED vars /\ UNCHANGED afloat
    <2>1. AllStamps' = AllStamps /\ \A k \in Node : StampsOf(k)' = StampsOf(k) /\ clock'[k] = clock[k]
      BY <1>1 DEF vars, AllStamps, AfloatStamps, Stamps, StampsOf, Stamp, Ops
    <2>. QED
      BY <2>1, FewerStamps
  <1>2. ASSUME NEW n \in Node, LocalOperation(n), UNCHANGED afloat, ~UNCHANGED vars,
               \/ \E op \in Operation : Issues(n, op)
               \/ \E b : OnlyTicks(n, b)
        PROVE  RestartInv'
    <2>1. CaughtUp(n)
      BY <1>2 DEF TradesCaughtUp
    <2>. QED
      BY <1>2, <2>1, RestartIssued, RestartTicked
  <1>3. ASSUME NEW n \in Node, NEW m \in Node, NEW o \in Ops(m) \cup afloat[m], Takes(n, o),
               UNCHANGED afloat
        PROVE  RestartInv'
    BY <1>3, RestartTaken
  <1>4. ASSUME NEW n \in Node, restart(n) PROVE RestartInv'
    <2>1. /\ clock'[n] = new_clock(n) /\ Ops(n)' = {}
          /\ \A m \in Node \ {n} : clock'[m] = clock[m] /\ Ops(m)' = Ops(m)
      BY <1>4, RestartEffect
    <2>2. /\ StampsOf(n)' = {} /\ \A m \in Node \ {n} : StampsOf(m)' = StampsOf(m)
      BY <2>1 DEF StampsOf, Stamp
    <2>3. /\ afloat'[n] \subseteq afloat[n] \cup Ops(n)
          /\ \A m \in Node \ {n} : afloat'[m] = afloat[m]
      BY <1>4, AfloatAfterRestart
    <2>4. Stamps' \subseteq AllStamps
      BY <2>2 DEF Stamps, AllStamps
    <2>5. AfloatStamps' \subseteq AllStamps
      <3>1. ASSUME NEW m \in Node, NEW op \in afloat'[m] PROVE Stamp(op) \in AllStamps
        BY <2>3, AllStampsType
      <3>2. AfloatStamps' = UNION {{Stamp(op) : op \in afloat'[m]} : m \in Node}
        BY DEF AfloatStamps, Stamp
      <3>. QED
        BY <3>1, <3>2
    <2>6. AllStamps' \subseteq AllStamps
      BY <2>4, <2>5 DEF AllStamps
    <2>. QED
      BY <2>1, <2>2, <2>6, FewerStamps
  <1>5. ASSUME NEW n \in Node, Lost(n) PROVE RestartInv'
    <2>1. UNCHANGED vars /\ \A m \in Node : afloat'[m] \subseteq afloat[m]
      BY <1>5, AfloatAfterLoss
    <2>2. Stamps' = Stamps /\ \A k \in Node : StampsOf(k)' = StampsOf(k) /\ clock'[k] = clock[k]
      BY <2>1 DEF vars, Stamps, StampsOf, Stamp, Ops
    <2>3. AfloatStamps' = UNION {{Stamp(op) : op \in afloat'[m]} : m \in Node}
      BY DEF AfloatStamps, Stamp
    <2>4. AfloatStamps' \subseteq AfloatStamps
      BY <2>1, <2>3 DEF AfloatStamps
    <2>5. AllStamps' \subseteq AllStamps
      BY <2>2, <2>4 DEF AllStamps
    <2>. QED
      BY <2>2, <2>5, FewerStamps
  <1>. QED
    BY <1>0, <1>1, <1>2, <1>3, <1>4, <1>5, RestartCases

\* A node without a causal gap has every operation its clock covers, its own of an
\* earlier life included.
LEMMA RecountedIsSeen ==
    ASSUME Shape, AfloatIssued, RestartInv, NoOperationTwice,
           NEW n \in Node, NEW m \in Node, CausallyClosed(m),
           NEW op \in Ops(n), Below(op.clock, clock[m])
    PROVE  op.op_id \in seen_ops[m]
  <1>. DEFINE a == Stamp(op)
  <1>1. /\ a \in AllStamps /\ a.clock = op.clock /\ a.op_id = op.op_id
        /\ op.clock \in Clock /\ a.origin_node \in Node
    BY OperationStamped DEF AllStamps
  <1>. HIDE DEF a
  <1>2. Counts(clock[m], a)
    BY <1>1 DEF Counts, Below
  <1>3. PICK t \in StampsOf(m) : Counts(t.clock, a)
    BY <1>1, <1>2 DEF RestartInv
  <1>4. PICK b \in Ops(m) : t = Stamp(b)
    BY DEF StampsOf
  <1>5. t \in AllStamps /\ t.clock = b.clock /\ t.op_id = b.op_id /\ b.clock \in Clock
    BY <1>4, OperationStamped DEF AllStamps
  <1>6. t.op_id \in seen_ops[m]
    BY <1>4 DEF NoOperationTwice, Stamp
  <1>7. Below(op.clock, b.clock)
    BY <1>1, <1>3, <1>5 DEF RestartInv
  <1>8. IsClock(op.clock, Node) /\ IsClock(b.clock, Node) /\ Dominates(b.clock, op.clock)
    BY <1>1, <1>5, <1>7, ClockType, DominatesBelow
  <1>9. CASE \E j : at(op.clock, j) < at(b.clock, j)
    <2>1. happens_before(op.clock, b.clock)
      BY <1>8, <1>9, BeforeCounts
    <2>. QED
      BY <2>1 DEF CausallyClosed
  <1>10. CASE ~\E j : at(op.clock, j) < at(b.clock, j)
    <2>1. t.origin_node \in Node
      BY <1>5, AllStampsType
    <2>2. at(op.clock, t.origin_node) \in Nat /\ at(b.clock, t.origin_node) \in Nat
      BY <1>1, <1>5, CountIsNat
    <2>3. Counts(a.clock, t)
      BY <1>1, <1>5, <1>10, <2>2 DEF Counts
    <2>4. a = t
      BY <1>1, <1>3, <1>5, <2>3 DEF RestartInv
    <2>. QED
      BY <1>1, <1>6, <2>4
  <1>. QED
    BY <1>9, <1>10

\* The delta is full after a restart too, and to everybody, as long as no node takes
\* orders before it counts again all that it counted in an earlier life and that is left
\* of it anywhere (README.md:79).  Nothing in the code waits for that, and the run
\* crdt_restart shows what is lost when nobody does.
THEOREM DeltaAfterRestart ==
    RestartSpec /\ [][TradesCaughtUp]_vars => [](AntiEntropyComplete /\ DeltaIsFull)
  <1>1. RestartInit => RestartInv
    <2>. SUFFICES ASSUME RestartInit PROVE RestartInv
      OBVIOUS
    <2>1. AllStamps = {}
      BY DEF RestartInit, Init, AllStamps, AfloatStamps, Stamps, StampsOf, Ops
    <2>2. \A n, m \in Node : at(clock[n], m) = 0
      BY NewClockCounts DEF RestartInit, Init
    <2>. QED
      BY <2>1, <2>2 DEF RestartInv, Learnt
  <1>2. /\ Shape /\ IdsIssued /\ AfloatIssued /\ RestartInv
        /\ [RestartNext]_<<vars, restart_vars>> /\ [TradesCaughtUp]_vars
       => RestartInv'
    BY RestartPreserved
  <1>3. ASSUME Shape, AfloatIssued, RestartInv, NoOperationTwice
        PROVE  AntiEntropyComplete /\ (recovering \subseteq Node => DeltaIsFull)
    <2>1. ASSUME NEW n \in Node, NEW m \in Node, CausallyClosed(m), NEW op \in Ops(n),
                 ~Missing(op, clock[m])
          PROVE  op.op_id \in seen_ops[m]
      <3>1. op.clock \in Clock /\ clock[m] \in Clock
        BY <1>3, OperationStamped DEF Shape
      <3>2. Below(op.clock, clock[m])
        BY <2>1, <3>1, UncoveredIsMissing
      <3>. QED
        BY <1>3, <2>1, <3>2, RecountedIsSeen
    <2>. QED
      BY <2>1 DEF AntiEntropyComplete, DeltaIsFull
  <1>4. RestartSpec => [](recovering \subseteq Node)
    <2>1. RestartInit => recovering \subseteq Node
      BY DEF RestartInit
    <2>2. recovering \subseteq Node /\ [RestartNext]_<<vars, restart_vars>>
          => (recovering \subseteq Node)'
      BY DEF RestartNext, restart, Lost, Arrives, restart_vars
    <2>. QED
      BY <2>1, <2>2, PTL DEF RestartSpec
  <1>5. RestartSpec /\ [][TradesCaughtUp]_vars => []RestartInv
    BY <1>1, <1>2, RestartInvariant, PTL DEF RestartSpec
  <1>. QED
    BY <1>3, <1>4, <1>5, RestartInvariant, PTL

-----------------------------------------------------------------------------
(* The entries a delta is made of.                                         *)

\* Entries picks every one of the positions once, and keeps their order.
LEMMA EntriesKeepOrder ==
    ASSUME NEW S, NEW s \in Seq(S), NEW P \in SUBSET (DOMAIN s)
    PROVE  \E pos \in [1..Cardinality(P) -> P] :
              /\ Entries(s, P) = [i \in 1..Cardinality(P) |-> s[pos[i]]]
              /\ \A p \in P : \E i \in 1..Cardinality(P) : pos[i] = p
              /\ \A i, j \in 1..Cardinality(P) : i < j => pos[i] < pos[j]
  <1>. DEFINE rank(p) == Cardinality({q \in P : q <= p})
              num     == Cardinality(P)
              at_rank(i) == CHOOSE p \in P : rank(p) = i
              pos     == [i \in 1..num |-> at_rank(i)]
  <1>1. P \in SUBSET Int /\ IsFiniteSet(P)
    <2>1. Len(s) \in Nat /\ DOMAIN s = 1..Len(s)
      OBVIOUS
    <2>2. IsFiniteSet(1..Len(s))
      BY <2>1, FS_Interval
    <2>. QED
      BY <2>1, <2>2, FS_Subset
  <1>2. num \in Nat
    BY <1>1, FS_CardinalityType
  <1>3. /\ \A p \in P : rank(p) \in 1..num
        /\ \A p, q \in P : p < q => rank(p) < rank(q)
        /\ \A i \in 1..num : \E p \in P : rank(p) = i
    BY <1>1, RanksAreOneToOne
  <1>. HIDE DEF num, rank
  <1>8. \A i \in 1..num : pos[i] \in P /\ rank(pos[i]) = i
    BY <1>3
  <1>9. pos \in [1..num -> P]
    BY <1>8
  <1>. HIDE DEF pos
  <1>10. \A p \in P : \E i \in 1..num : pos[i] = p
    <2>1. \A p, q \in P : rank(p) = rank(q) => p = q
      BY <1>1, <1>2, <1>3
    <2>. QED
      BY <1>3, <1>8, <2>1
  <1>11. ASSUME NEW i \in 1..num, NEW j \in 1..num, i < j PROVE pos[i] < pos[j]
    <2>1. pos[i] \in P /\ pos[j] \in P /\ pos[i] \in Int /\ pos[j] \in Int
      BY <1>1, <1>8
    <2>2. ~(pos[j] < pos[i]) /\ pos[i] # pos[j]
      BY <1>2, <1>3, <1>8, <1>11, <2>1
    <2>. QED
      BY <2>1, <2>2
  <1>12. Entries(s, P) = [i \in 1..num |-> s[pos[i]]]
    <2>1. Entries(s, P) = [i \in 1..num |-> s[at_rank(i)]]
      BY Zenon DEF Entries, at_rank, num, rank
    <2>. HIDE DEF at_rank
    <2>2. \A i \in 1..num : pos[i] = at_rank(i)
      BY DEF pos
    <2>. QED
      BY <2>1, <2>2
  <1>. QED
    BY <1>9, <1>10, <1>11, <1>12 DEF num

-----------------------------------------------------------------------------
(* The wire.                                                               *)

\* g starts with the first value, and each step makes one of the one before.
Recurs(g, n, first, step) == g[0] = first /\ \A i \in 1..n : g[i] = step[i][g[i - 1]]

\* Recursion along the numbers up to n has a result, whatever a step does.
LEMMA Recursion ==
    ASSUME NEW n \in Nat, NEW V, NEW first \in V, NEW step \in [1..n -> [V -> V]]
    PROVE  \E g \in [0..n -> V] : Recurs(g, n, first, step)
  <1>. DEFINE S == {k \in Nat : k <= n => \E g \in [0..n -> V] : Recurs(g, k, first, step)}
  <1>1. 0 \in S
    <2>1. [i \in 0..n |-> first] \in [0..n -> V] /\ Recurs([i \in 0..n |-> first], 0, first, step)
      BY DEF Recurs
    <2>. QED
      BY <2>1
  <1>2. ASSUME NEW k \in Nat, k \in S PROVE k + 1 \in S
    <2>. SUFFICES ASSUME k + 1 <= n PROVE \E g \in [0..n -> V] : Recurs(g, k + 1, first, step)
      OBVIOUS
    <2>0. k <= n
      OBVIOUS
    <2>1. PICK g \in [0..n -> V] : Recurs(g, k, first, step)
      BY <1>2, <2>0
    <2>2. k + 1 \in 1..n /\ k \in 0..n /\ k + 1 \in 0..n
      OBVIOUS
    <2>. DEFINE x == step[k + 1][g[k]]
                h == [g EXCEPT ![k + 1] = x]
    <2>3. x \in V
      <3>1. g[k] \in V /\ step[k + 1] \in [V -> V]
        BY <2>2
      <3>. QED
        BY <3>1
    <2>. HIDE DEF x
    <2>4. h \in [0..n -> V] /\ h[k + 1] = x /\ \A i \in 0..k : h[i] = g[i]
      BY <2>2, <2>3
    <2>. HIDE DEF h
    <2>5. ASSUME NEW i \in 1..(k + 1) PROVE h[i] = step[i][h[i - 1]]
      <3>1. CASE i = k + 1
        <4>1. i - 1 = k /\ k \in 0..k
          BY <3>1
        <4>. QED
          BY <2>4, <3>1, <4>1 DEF x
      <3>2. CASE i # k + 1
        <4>1. i \in 1..k /\ i \in 0..k /\ i - 1 \in 0..k
          BY <3>2
        <4>. QED
          BY <2>1, <2>4, <4>1 DEF Recurs
      <3>. QED
        BY <3>1, <3>2
    <2>6. h[0] = first
      BY <2>1, <2>4 DEF Recurs
    <2>7. Recurs(h, k + 1, first, step)
      BY <2>5, <2>6 DEF Recurs
    <2>. QED
      BY <2>4, <2>7
  <1>. HIDE DEF S
  <1>3. n \in S
    BY <1>1, <1>2, InductiveSet
  <1>. QED
    BY <1>3 DEF S

\* What a buffer holds.
Value == Int \cup Node \cup Side \cup {"ADD_ORDER", "CANCEL_ORDER", "ANTI_ENTROPY_RES"}

Field == [bytes : Nat \ {0}, value : Value]

\* The bytes up to each position of s.
Offsets(s, g) ==
    /\ g \in [0..Len(s) -> Nat] /\ g[0] = 0
    /\ \A i \in 1..Len(s) : g[i] = g[i - 1] + s[i].bytes

\* Every sequence of fields has offsets.
LEMMA OffsetsExist ==
    ASSUME NEW s \in Seq(Field)
    PROVE  \E g : Offsets(s, g)
  <1>. DEFINE step == [i \in 1..Len(s) |-> [v \in Nat |-> v + s[i].bytes]]
  <1>1. Len(s) \in Nat /\ 0 \in Nat /\ \A i \in 1..Len(s) : s[i].bytes \in Nat
    <2>1. Len(s) \in Nat /\ \A i \in 1..Len(s) : s[i] \in Field
      OBVIOUS
    <2>. QED
      BY <2>1 DEF Field
  <1>2. step \in [1..Len(s) -> [Nat -> Nat]]
    BY <1>1
  <1>3. \A i \in 1..Len(s) : \A v \in Nat : step[i][v] = v + s[i].bytes
    BY <1>1
  <1>. HIDE DEF step
  <1>4. PICK g \in [0..Len(s) -> Nat] : Recurs(g, Len(s), 0, step)
    BY <1>1, <1>2, Recursion
  <1>5. \A i \in 1..Len(s) : g[i - 1] \in Nat
    BY <1>1
  <1>6. Offsets(s, g)
    BY <1>3, <1>4, <1>5 DEF Offsets, Recurs
  <1>. QED
    BY <1>6

\* Bytes is the last of the offsets.
LEMMA BytesAreOffsets ==
    ASSUME NEW s \in Seq(Field), NEW g, Offsets(s, g)
    PROVE  Bytes(s) = g[Len(s)]
  <1>. DEFINE Eq(u) == u = [i \in 0..Len(s) |-> IF i = 0 THEN 0 ELSE u[i - 1] + s[i].bytes]
              u == CHOOSE u : Eq(u)
  <1>1. Bytes(s) = u[Len(s)]
    BY DEF Bytes
  <1>2. Len(s) \in Nat
    OBVIOUS
  <1>3. Eq(g)
    <2>. DEFINE v == [i \in 0..Len(s) |-> IF i = 0 THEN 0 ELSE g[i - 1] + s[i].bytes]
    <2>1. ASSUME NEW i \in 0..Len(s) PROVE v[i] = g[i]
      <3>1. i = 0 \/ i \in 1..Len(s)
        BY <1>2
      <3>. QED
        BY <3>1 DEF Offsets
    <2>2. g \in [0..Len(s) -> Nat]
      BY DEF Offsets
    <2>. QED
      BY <2>1, <2>2
  <1>4. Eq(u)
    BY <1>3, Zenon
  <1>. HIDE DEF u
  <1>5. u[0] = 0 /\ \A i \in 1..Len(s) : u[i] = u[i - 1] + s[i].bytes
    <2>1. 0 \in 0..Len(s) /\ \A i \in 1..Len(s) : i \in 0..Len(s) /\ i # 0
      BY <1>2
    <2>. DEFINE v == [i \in 0..Len(s) |-> IF i = 0 THEN 0 ELSE u[i - 1] + s[i].bytes]
    <2>2. v[0] = 0 /\ \A i \in 1..Len(s) : v[i] = u[i - 1] + s[i].bytes
      BY <2>1
    <2>3. u = v
      BY <1>4
    <2>. QED
      BY <2>2, <2>3
  <1>. DEFINE S == {i \in Nat : i <= Len(s) => u[i] = g[i]}
  <1>6. 0 \in S
    BY <1>5 DEF Offsets
  <1>7. ASSUME NEW i \in Nat, i \in S PROVE i + 1 \in S
    <2>1. ASSUME i + 1 <= Len(s) PROVE u[i + 1] = g[i + 1]
      <3>1. i + 1 \in 1..Len(s) /\ (i + 1) - 1 = i /\ i <= Len(s)
        BY <1>2, <2>1
      <3>2. u[i + 1] = u[i] + s[i + 1].bytes
        BY <1>5, <3>1
      <3>3. g[i + 1] = g[i] + s[i + 1].bytes
        BY <3>1 DEF Offsets
      <3>. QED
        BY <1>7, <3>1, <3>2, <3>3
    <2>. QED
      BY <2>1
  <1>. HIDE DEF S
  <1>8. Len(s) \in S
    BY <1>2, <1>6, <1>7, InductiveSet
  <1>. QED
    BY <1>1, <1>2, <1>8 DEF S

\* s lies in the buffer from position pos on.
Holds(buf, pos, s) ==
    /\ pos \in Nat \ {0} /\ pos + Len(s) <= Len(buf) + 1
    /\ \A i \in 1..Len(s) : buf[pos + i - 1] = s[i]

\* A buffer holds what it is made of.
LEMMA HoldsItself ==
    ASSUME NEW buf \in Seq(Field)
    PROVE  Holds(buf, 1, buf)
  BY DEF Holds

\* What lies in a buffer lies there one part after the other.
LEMMA HoldsParts ==
    ASSUME NEW buf \in Seq(Field), NEW pos, NEW s \in Seq(Field), NEW t \in Seq(Field),
           Holds(buf, pos, s \o t)
    PROVE  Holds(buf, pos, s) /\ Holds(buf, pos + Len(s), t)
  <1>1. /\ Len(s) \in Nat /\ Len(t) \in Nat /\ Len(buf) \in Nat
        /\ Len(s \o t) = Len(s) + Len(t)
        /\ \A i \in 1..(Len(s) + Len(t)) :
              (s \o t)[i] = IF i <= Len(s) THEN s[i] ELSE t[i - Len(s)]
    BY ConcatProperties
  <1>. DEFINE u == s \o t
  <1>2. /\ pos \in Nat \ {0} /\ pos + Len(u) <= Len(buf) + 1
        /\ \A i \in 1..Len(u) : buf[pos + i - 1] = u[i]
    BY DEF Holds
  <1>3. /\ Len(u) = Len(s) + Len(t)
        /\ \A i \in 1..Len(s) : u[i] = s[i]
        /\ \A i \in 1..Len(t) : u[Len(s) + i] = t[i]
    <2>1. \A i \in 1..Len(t) : Len(s) + i \in 1..(Len(s) + Len(t)) /\ ~(Len(s) + i <= Len(s))
                                /\ (Len(s) + i) - Len(s) = i
      BY <1>1
    <2>2. \A i \in 1..Len(s) : i \in 1..(Len(s) + Len(t)) /\ i <= Len(s)
      BY <1>1
    <2>. QED
      BY <1>1, <2>1, <2>2
  <1>. HIDE DEF u
  <1>4. \A i \in 1..Len(s) : buf[pos + i - 1] = s[i]
    BY <1>1, <1>2, <1>3
  <1>5. ASSUME NEW i \in 1..Len(t) PROVE buf[pos + Len(s) + i - 1] = t[i]
    <2>1. Len(s) + i \in 1..Len(u) /\ pos + (Len(s) + i) - 1 = pos + Len(s) + i - 1
      BY <1>1, <1>2, <1>3
    <2>. QED
      BY <1>2, <1>3, <2>1
  <1>. QED
    BY <1>1, <1>2, <1>3, <1>4, <1>5 DEF Holds

\* One value.
LEMMA HoldsOne ==
    ASSUME NEW buf, NEW pos, NEW f, Holds(buf, pos, <<f>>)
    PROVE  buf[pos] = f /\ pos \in Nat \ {0} /\ Len(<<f>>) = 1
  <1>1. Len(<<f>>) = 1 /\ <<f>>[1] = f /\ 1 \in 1..1
    OBVIOUS
  <1>2. pos \in Nat \ {0} /\ buf[pos + 1 - 1] = <<f>>[1]
    BY <1>1 DEF Holds
  <1>. QED
    BY <1>1, <1>2

\* Skipping the bytes of what lies in the buffer leads to the position after it.
LEMMA SkipsOver ==
    ASSUME NEW buf \in Seq(Field), NEW pos, NEW s \in Seq(Field), Holds(buf, pos, s)
    PROVE  Skip(buf, pos, Bytes(s)) = pos + Len(s)
  <1>1. /\ pos \in Nat \ {0} /\ pos + Len(s) <= Len(buf) + 1 /\ Len(s) \in Nat /\ Len(buf) \in Nat
        /\ \A i \in 1..Len(s) : buf[pos + i - 1] = s[i]
    BY DEF Holds
  <1>2. PICK g : Offsets(buf, g)
    BY OffsetsExist
  <1>3. /\ \A i \in 0..Len(buf) : g[i] \in Nat
        /\ \A i \in 1..Len(buf) : g[i] = g[i - 1] + buf[i].bytes
    BY <1>2 DEF Offsets
  <1>4. \A i \in 1..Len(buf) : buf[i] \in Field /\ buf[i].bytes \in Nat \ {0}
    <2>1. \A i \in 1..Len(buf) : buf[i] \in Field
      OBVIOUS
    <2>. QED
      BY <2>1 DEF Field
  <1>5. ASSUME NEW p \in pos..(Len(buf) + 1)
        PROVE  Bytes(SubSeq(buf, pos, p - 1)) = g[p - 1] - g[pos - 1]
    <2>. DEFINE part == SubSeq(buf, pos, p - 1)
                h == [i \in 0..(p - pos) |-> g[pos - 1 + i] - g[pos - 1]]
    <2>1. /\ part \in Seq(Field) /\ Len(part) = p - pos
          /\ \A i \in 1..(p - pos) : part[i] = buf[pos + i - 1]
      <3>1. \A i \in pos..(p - 1) : buf[i] \in Field
        BY <1>1, <1>4
      <3>2. pos \in Int /\ p - 1 \in Int /\ (p - 1) - pos + 1 = p - pos
        BY <1>1
      <3>3. /\ part \in Seq(Field) /\ Len(part) = (IF pos <= p - 1 THEN (p - 1) - pos + 1 ELSE 0)
            /\ \A i \in 1..((p - 1) - pos + 1) : part[i] = buf[pos + i - 1]
        BY <3>1, <3>2, SubSeqProperties
      <3>. QED
        BY <1>1, <3>2, <3>3
    <2>. HIDE DEF part
    <2>2. Offsets(part, h)
      <3>1. p - pos \in Nat /\ \A i \in 0..(p - pos) : pos - 1 + i \in 0..Len(buf)
        BY <1>1
      <3>2. h[0] = 0
        BY <1>1, <1>3, <3>1
      <3>3. \A i \in 1..(p - pos) : /\ pos - 1 + i \in 1..Len(buf) /\ i - 1 \in 0..(p - pos)
                                    /\ pos - 1 + (i - 1) = (pos - 1 + i) - 1
                                    /\ pos + i - 1 = pos - 1 + i
        BY <1>1, <3>1
      <3>4. ASSUME NEW i \in 1..(p - pos) PROVE h[i] = h[i - 1] + part[i].bytes
        <4>1. g[pos - 1 + i] = g[(pos - 1 + i) - 1] + buf[pos - 1 + i].bytes
          BY <1>3, <3>3
        <4>2. /\ h[i] = g[pos - 1 + i] - g[pos - 1]
              /\ h[i - 1] = g[(pos - 1 + i) - 1] - g[pos - 1]
          BY <3>1, <3>3
        <4>3. part[i] = buf[pos - 1 + i]
          BY <2>1, <3>3
        <4>4. /\ g[pos - 1 + i] \in Int /\ g[(pos - 1 + i) - 1] \in Int /\ g[pos - 1] \in Int
              /\ buf[pos - 1 + i].bytes \in Int
          BY <1>1, <1>3, <1>4, <3>1, <3>3
        <4>. HIDE DEF h
        <4>. QED
          BY <4>1, <4>2, <4>3, <4>4
      <3>. DEFINE G == {i \in Nat : i <= p - pos => h[i] \in Nat}
      <3>5. 0 \in G
        BY <3>2
      <3>6. ASSUME NEW i \in Nat, i \in G PROVE i + 1 \in G
        <4>1. ASSUME i + 1 <= p - pos PROVE h[i + 1] \in Nat
          <5>1. i <= p - pos /\ i + 1 \in 1..(p - pos) /\ (i + 1) - 1 = i
            BY <3>1, <4>1
          <5>2. h[i + 1] = h[i] + part[i + 1].bytes
            BY <3>4, <5>1
          <5>3. part[i + 1].bytes \in Nat
            BY <1>4, <2>1, <3>3, <5>1
          <5>. QED
            BY <3>6, <5>1, <5>2, <5>3
        <4>. QED
          BY <4>1
      <3>. HIDE DEF G
      <3>7. \A i \in Nat : i \in G
        BY <3>5, <3>6, InductiveSet
      <3>8. \A i \in 0..(p - pos) : h[i] \in Nat
        <4>1. \A i \in Nat : i <= p - pos => h[i] \in Nat
          <5>. HIDE DEF h
          <5>. QED
            BY <3>7 DEF G
        <4>. HIDE DEF h
        <4>. QED
          BY <3>1, <4>1
      <3>9. h = [i \in 0..(p - pos) |-> h[i]]
        OBVIOUS
      <3>. HIDE DEF h
      <3>10. h \in [0..(p - pos) -> Nat]
        BY <3>8, <3>9
      <3>. QED
        BY <2>1, <3>2, <3>4, <3>10 DEF Offsets
    <2>3. h[p - pos] = g[p - 1] - g[pos - 1]
      BY <1>1
    <2>. HIDE DEF h
    <2>. QED
      BY <2>1, <2>2, <2>3, BytesAreOffsets DEF part
  <1>6. SubSeq(buf, pos, (pos + Len(s)) - 1) = s
    <2>1. \A i \in pos..(pos + Len(s) - 1) : buf[i] \in Field
      BY <1>1, <1>4
    <2>. DEFINE part == SubSeq(buf, pos, (pos + Len(s)) - 1)
    <2>2. pos \in Int /\ (pos + Len(s)) - 1 \in Int /\ ((pos + Len(s)) - 1) - pos + 1 = Len(s)
      BY <1>1
    <2>3. /\ part \in Seq(Field)
          /\ Len(part) = (IF pos <= (pos + Len(s)) - 1 THEN ((pos + Len(s)) - 1) - pos + 1 ELSE 0)
          /\ \A i \in 1..(((pos + Len(s)) - 1) - pos + 1) : part[i] = buf[pos + i - 1]
      BY <2>1, <2>2, SubSeqProperties
    <2>. HIDE DEF part
    <2>4. Len(part) = Len(s)
      BY <1>1, <2>2, <2>3
    <2>5. \A i \in 1..Len(part) : part[i] = s[i]
      BY <1>1, <2>2, <2>3, <2>4
    <2>6. part = s
      BY <2>3, <2>4, <2>5, SeqEqual
    <2>. QED
      BY <2>6 DEF part
  <1>. DEFINE here == pos + Len(s)
  <1>7. here \in pos..(Len(buf) + 1) /\ Bytes(SubSeq(buf, pos, here - 1)) = Bytes(s)
    <2>1. here \in pos..(Len(buf) + 1)
      BY <1>1
    <2>2. SubSeq(buf, pos, here - 1) = s
      BY <1>6
    <2>. HIDE DEF here
    <2>. QED
      BY <2>1, <2>2
  <1>. DEFINE Passed(i) == {d \in Nat : i + d <= Len(buf) /\ d > 0 => g[i] < g[i + d]}
  <1>8. ASSUME NEW i \in 0..Len(buf) PROVE \A d \in Nat : d \in Passed(i)
    <2>1. 0 \in Passed(i)
      OBVIOUS
    <2>2. ASSUME NEW d \in Nat, d \in Passed(i) PROVE d + 1 \in Passed(i)
      <3>1. ASSUME i + (d + 1) <= Len(buf) PROVE g[i] < g[i + (d + 1)]
        <4>1. /\ i + (d + 1) \in 1..Len(buf) /\ i + (d + 1) - 1 = i + d
              /\ i + d \in 0..Len(buf) /\ i + d <= Len(buf)
          BY <1>1, <3>1
        <4>2. g[i + (d + 1)] = g[i + d] + buf[i + (d + 1)].bytes
          BY <1>3, <4>1
        <4>3. buf[i + (d + 1)].bytes \in Nat \ {0} /\ g[i + d] \in Nat /\ g[i] \in Nat
          BY <1>3, <1>4, <4>1
        <4>4. g[i] <= g[i + d]
          <5>1. CASE d = 0
            BY <4>3, <5>1
          <5>2. CASE d > 0
            BY <2>2, <4>1, <4>3, <5>2
          <5>. QED
            BY <5>1, <5>2
        <4>. QED
          BY <4>2, <4>3, <4>4
      <3>. QED
        BY <3>1
    <2>. HIDE DEF Passed
    <2>. QED
      BY <2>1, <2>2, InductiveSet
  <1>9. ASSUME NEW i \in 0..Len(buf), NEW j \in 0..Len(buf), g[i] = g[j]
        PROVE  i = j
    <2>1. ASSUME NEW a \in 0..Len(buf), NEW b \in 0..Len(buf), a < b PROVE g[a] < g[b]
      <3>1. b - a \in Nat /\ a + (b - a) = b /\ b - a > 0 /\ b <= Len(buf)
        BY <1>1, <2>1
      <3>. QED
        BY <1>8, <3>1
    <2>2. g[i] \in Int /\ g[j] \in Int
      BY <1>3
    <2>3. ~(i < j) /\ ~(j < i)
      BY <1>9, <2>1, <2>2
    <2>. QED
      BY <1>1, <2>3
  <1>10. ASSUME NEW p \in pos..(Len(buf) + 1), Bytes(SubSeq(buf, pos, p - 1)) = Bytes(s)
         PROVE  p = here
    <2>1. g[p - 1] - g[pos - 1] = g[here - 1] - g[pos - 1]
      BY <1>5, <1>7, <1>10
    <2>2. p - 1 \in 0..Len(buf) /\ here - 1 \in 0..Len(buf) /\ pos - 1 \in 0..Len(buf)
      BY <1>1, <1>7
    <2>3. g[p - 1] \in Int /\ g[here - 1] \in Int /\ g[pos - 1] \in Int
      BY <1>3, <2>2
    <2>4. g[p - 1] = g[here - 1]
      BY <2>1, <2>3
    <2>5. p - 1 = here - 1
      BY <1>9, <2>2, <2>4
    <2>. QED
      BY <1>1, <1>7, <2>5
  <1>. HIDE DEF here
  <1>11. Skip(buf, pos, Bytes(s)) = here
    BY <1>7, <1>10 DEF Skip
  <1>. QED
    BY <1>11 DEF here

\* F[i] are the first i of the sequences, joined.
Joins(seqs, F) ==
    /\ \A i \in 1..Len(seqs) : F[i] \in Seq(Field)
    /\ F[1] = seqs[1]
    /\ \A i \in 2..Len(seqs) : F[i] = F[i - 1] \o seqs[i]

\* FlattenSeq joins all of them.
LEMMA FlattenJoins ==
    ASSUME NEW seqs \in Seq(Seq(Field)), Len(seqs) # 0
    PROVE  \E F : Joins(seqs, F) /\ FlattenSeq(seqs) = F[Len(seqs)]
  <1>. DEFINE n == Len(seqs)
              Eq(u) == u = [i \in 1..Len(seqs) |-> IF i = 1 THEN seqs[i] ELSE u[i - 1] \o seqs[i]]
              F == CHOOSE u : Eq(u)
  <1>1. FlattenSeq(seqs) = F[Len(seqs)]
    BY Zenon DEF FlattenSeq
  <1>2. n \in Nat \ {0} /\ 1 \in 1..n /\ \A i \in 1..n : seqs[i] \in Seq(Field)
    OBVIOUS
  <1>. DEFINE step == [i \in 1..n |-> [v \in Seq(Field) |-> v \o seqs[i]]]
  <1>3. PICK g \in [0..n -> Seq(Field)] : Recurs(g, n, <<>>, step)
    <2>1. step \in [1..n -> [Seq(Field) -> Seq(Field)]]
      <3>1. \A i \in 1..n : \A v \in Seq(Field) : v \o seqs[i] \in Seq(Field)
        BY <1>2, ConcatProperties
      <3>. QED
        BY <3>1
    <2>2. <<>> \in Seq(Field)
      OBVIOUS
    <2>. HIDE DEF step
    <2>. QED
      BY <1>2, <2>1, <2>2, Recursion
  <1>4. /\ \A i \in 0..n : g[i] \in Seq(Field)
        /\ g[0] = <<>>
        /\ \A i \in 1..n : g[i] = g[i - 1] \o seqs[i]
    <2>1. \A i \in 0..n : g[i] \in Seq(Field)
      OBVIOUS
    <2>2. \A i \in 1..n : i - 1 \in 0..n
      BY <1>2
    <2>3. \A i \in 1..n : g[i] = step[i][g[i - 1]]
      <3>. HIDE DEF step
      <3>. QED
        BY <1>3 DEF Recurs
    <2>. QED
      BY <1>3, <2>1, <2>2, <2>3 DEF Recurs
  <1>. DEFINE h == [i \in 1..n |-> g[i]]
  <1>5. Eq(h)
    <2>. DEFINE v == [i \in 1..n |-> IF i = 1 THEN seqs[i] ELSE h[i - 1] \o seqs[i]]
    <2>1. ASSUME NEW i \in 1..n PROVE v[i] = h[i]
      <3>1. CASE i = 1
        <4>1. g[1] = <<>> \o seqs[1]
          <5>1. 1 - 1 = 0
            OBVIOUS
          <5>. QED
            BY <1>2, <1>4, <5>1
        <4>2. <<>> \o seqs[1] = seqs[1]
          BY <1>2, ConcatEmptySeq
        <4>. QED
          BY <3>1, <4>1, <4>2
      <3>2. CASE i # 1
        <4>1. i - 1 \in 1..n
          BY <1>2, <3>2
        <4>. QED
          BY <1>4, <3>2, <4>1
      <3>. QED
        BY <3>1, <3>2
    <2>. QED
      BY <2>1
  <1>6. Eq(F)
    BY <1>5, Zenon
  <1>. HIDE DEF F
  <1>7. F[1] = seqs[1] /\ \A i \in 2..n : F[i] = F[i - 1] \o seqs[i]
    <2>. DEFINE v == [i \in 1..n |-> IF i = 1 THEN seqs[i] ELSE F[i - 1] \o seqs[i]]
    <2>1. \A i \in 2..n : i \in 1..n /\ i # 1
      BY <1>2
    <2>2. v[1] = seqs[1] /\ \A i \in 2..n : v[i] = F[i - 1] \o seqs[i]
      BY <1>2, <2>1
    <2>3. F = v
      BY <1>6
    <2>. QED
      BY <2>2, <2>3
  <1>. HIDE DEF h, step
  <1>. DEFINE S == {i \in Nat : i \in 1..n => F[i] \in Seq(Field)}
  <1>8. 0 \in S
    OBVIOUS
  <1>9. ASSUME NEW i \in Nat, i \in S PROVE i + 1 \in S
    <2>1. CASE i + 1 = 1
      BY <1>2, <1>7, <2>1
    <2>2. CASE i + 1 \in 2..n
      <3>1. i \in 1..n /\ (i + 1) - 1 = i /\ i + 1 \in 1..n
        BY <1>2, <2>2
      <3>2. F[i] \in Seq(Field) /\ seqs[i + 1] \in Seq(Field)
        BY <1>2, <1>9, <3>1
      <3>3. F[i] \o seqs[i + 1] \in Seq(Field)
        BY <3>2, ConcatProperties
      <3>4. F[i + 1] = F[i] \o seqs[i + 1]
        BY <1>7, <2>2, <3>1
      <3>5. F[i + 1] \in Seq(Field)
        BY <3>3, <3>4
      <3>. QED
        BY <3>5
    <2>3. CASE i + 1 \notin 1..n
      BY <2>3
    <2>. QED
      BY <1>2, <2>1, <2>2, <2>3
  <1>. HIDE DEF S
  <1>10. \A i \in Nat : i \in S
    BY <1>8, <1>9, InductiveSet
  <1>11. \A i \in 1..n : F[i] \in Seq(Field)
    BY <1>2, <1>10 DEF S
  <1>12. Joins(seqs, F)
    BY <1>7, <1>11 DEF Joins
  <1>. QED
    BY <1>1, <1>12

\* Where each of them starts, when the first is at pos, and where the last one ends.
Starts(seqs, pos, start) ==
    /\ start[1] = pos
    /\ \A i \in 1..Len(seqs) : start[i + 1] = start[i] + Len(seqs[i])

\* Joined sequences lie in a buffer one after the other.
LEMMA HoldsAll ==
    ASSUME NEW buf \in Seq(Field), NEW pos, NEW seqs \in Seq(Seq(Field)),
           Holds(buf, pos, FlattenSeq(seqs))
    PROVE  \E start : /\ Starts(seqs, pos, start)
                      /\ \A i \in 1..Len(seqs) : Holds(buf, start[i], seqs[i])
                      /\ start[Len(seqs) + 1] = pos + Len(FlattenSeq(seqs))
  <1>1. CASE Len(seqs) = 0
    <2>1. FlattenSeq(seqs) = seqs /\ pos \in Nat
      BY <1>1 DEF FlattenSeq, Holds
    <2>2. Starts(seqs, pos, [i \in {1} |-> pos])
      BY <1>1 DEF Starts
    <2>. QED
      BY <1>1, <2>1, <2>2
  <1>2. CASE Len(seqs) # 0
    <2>. DEFINE n == Len(seqs)
    <2>1. PICK F : Joins(seqs, F) /\ FlattenSeq(seqs) = F[Len(seqs)]
      BY <1>2, FlattenJoins
    <2>2. n \in Nat \ {0} /\ \A i \in 1..n : seqs[i] \in Seq(Field)
      BY <1>2
    <2>3. /\ \A i \in 1..n : F[i] \in Seq(Field)
          /\ F[1] = seqs[1]
          /\ \A i \in 2..n : F[i] = F[i - 1] \o seqs[i]
      BY <2>1 DEF Joins
    <2>4. pos \in Nat \ {0}
      BY DEF Holds
    <2>. DEFINE start == [i \in 1..(n + 1) |-> IF i = 1 THEN pos ELSE pos + Len(F[i - 1])]
    <2>5. start[1] = pos /\ \A i \in 1..n : start[i + 1] = pos + Len(F[i])
      <3>1. 1 \in 1..(n + 1)
        BY <2>2
      <3>2. \A i \in 1..n : i + 1 \in 1..(n + 1) /\ i + 1 # 1 /\ (i + 1) - 1 = i
        BY <2>2
      <3>. QED
        BY <3>1, <3>2
    <2>. HIDE DEF start
    <2>6. ASSUME NEW i \in 2..n
          PROVE  /\ i - 1 \in 1..n /\ start[i] = pos + Len(F[i - 1])
                 /\ F[i - 1] \in Seq(Field) /\ seqs[i] \in Seq(Field) /\ F[i] = F[i - 1] \o seqs[i]
      <3>1. i - 1 \in 1..n /\ (i - 1) + 1 = i /\ i \in 1..n
        BY <2>2
      <3>. QED
        BY <2>2, <2>3, <2>5, <3>1
    <2>7. Starts(seqs, pos, start)
      <3>1. ASSUME NEW i \in 1..n PROVE start[i + 1] = start[i] + Len(seqs[i])
        <4>1. CASE i = 1
          BY <2>3, <2>5, <4>1
        <4>2. CASE i # 1
          <5>1. i \in 2..n
            BY <2>2, <4>2
          <5>2. /\ F[i - 1] \in Seq(Field) /\ seqs[i] \in Seq(Field)
                /\ F[i] = F[i - 1] \o seqs[i] /\ start[i] = pos + Len(F[i - 1])
            BY <2>6, <5>1
          <5>3. Len(F[i - 1]) \in Nat /\ Len(seqs[i]) \in Nat
            BY <5>2, LenProperties
          <5>4. Len(F[i]) = Len(F[i - 1]) + Len(seqs[i])
            BY <5>2, ConcatProperties
          <5>5. start[i + 1] = pos + Len(F[i])
            BY <2>5
          <5>. DEFINE a == Len(F[i - 1])
                      b == Len(seqs[i])
          <5>6. a \in Nat /\ b \in Nat /\ start[i] = pos + a /\ start[i + 1] = pos + (a + b)
            BY <5>2, <5>3, <5>4, <5>5
          <5>. HIDE DEF a, b
          <5>7. start[i + 1] = start[i] + b
            BY <2>4, <5>6
          <5>. QED
            BY <5>7 DEF b
        <4>. QED
          BY <4>1, <4>2
      <3>. QED
        BY <2>5, <3>1 DEF Starts
    <2>. DEFINE S == {k \in Nat : k < n => Holds(buf, pos, F[n - k])}
    <2>8. 0 \in S
      <3>1. n - 0 = n
        BY <2>2
      <3>. QED
        BY <2>1, <3>1
    <2>9. ASSUME NEW k \in Nat, k \in S PROVE k + 1 \in S
      <3>1. ASSUME k + 1 < n PROVE Holds(buf, pos, F[n - (k + 1)])
        <4>1. k < n /\ n - k \in 2..n /\ (n - k) - 1 = n - (k + 1)
          BY <2>2, <3>1
        <4>2. Holds(buf, pos, F[n - k])
          BY <2>9, <4>1
        <4>3. /\ F[n - k] = F[n - (k + 1)] \o seqs[n - k]
              /\ F[n - (k + 1)] \in Seq(Field) /\ seqs[n - k] \in Seq(Field)
          BY <2>6, <4>1
        <4>. QED
          BY <4>2, <4>3, HoldsParts
      <3>. QED
        BY <3>1
    <2>. HIDE DEF S
    <2>10. \A k \in Nat : k \in S
      BY <2>8, <2>9, InductiveSet
    <2>11. ASSUME NEW i \in 1..n PROVE Holds(buf, pos, F[i])
      <3>1. n - i \in Nat /\ n - i < n /\ n - (n - i) = i
        BY <2>2
      <3>2. n - i < n => Holds(buf, pos, F[n - (n - i)])
        BY <2>10, <3>1 DEF S
      <3>. QED
        BY <3>1, <3>2
    <2>12. ASSUME NEW i \in 1..n PROVE Holds(buf, start[i], seqs[i])
      <3>1. CASE i = 1
        BY <2>3, <2>5, <2>11, <3>1
      <3>2. CASE i # 1
        <4>1. i \in 2..n
          BY <2>2, <3>2
        <4>2. Holds(buf, pos, F[i - 1] \o seqs[i])
          BY <2>6, <2>11, <4>1
        <4>3. /\ F[i - 1] \in Seq(Field) /\ seqs[i] \in Seq(Field)
              /\ start[i] = pos + Len(F[i - 1])
          BY <2>6, <4>1
        <4>4. Holds(buf, pos + Len(F[i - 1]), seqs[i])
          BY <4>2, <4>3, HoldsParts
        <4>. QED
          BY <4>3, <4>4
      <3>. QED
        BY <3>1, <3>2
    <2>13. start[n + 1] = pos + Len(FlattenSeq(seqs))
      <3>1. n \in 1..n
        BY <2>2
      <3>. QED
        BY <2>1, <2>5, <3>1
    <2>. QED
      BY <2>7, <2>12, <2>13
  <1>. QED
    BY <1>1, <1>2

\* Joining keeps the type.
LEMMA FlattenType ==
    ASSUME NEW seqs \in Seq(Seq(Field))
    PROVE  FlattenSeq(seqs) \in Seq(Field)
  <1>1. CASE Len(seqs) = 0
    <2>1. seqs = <<>> /\ FlattenSeq(seqs) = seqs
      BY <1>1 DEF FlattenSeq
    <2>2. <<>> \in Seq(Field)
      OBVIOUS
    <2>. QED
      BY <2>1, <2>2
  <1>2. CASE Len(seqs) # 0
    <2>1. Len(seqs) \in 1..Len(seqs)
      BY <1>2
    <2>. QED
      BY <1>2, <2>1, FlattenJoins DEF Joins
  <1>. QED
    BY <1>1, <1>2

\* Each writer writes one field.
LEMMA FieldsWritten ==
    ASSUME NEW v \in Value
    PROVE  /\ u8(v) \in Seq(Field) /\ Len(u8(v)) = 1
           /\ u32(v) \in Seq(Field) /\ Len(u32(v)) = 1
           /\ u64(v) \in Seq(Field) /\ Len(u64(v)) = 1
           /\ write_string(v) \in Seq(Field) /\ Len(write_string(v)) = 1
  <1>1. ASSUME NEW b \in Nat \ {0}
        PROVE  <<[bytes |-> b, value |-> v]>> \in Seq(Field) /\ Len(<<[bytes |-> b, value |-> v]>>) = 1
    <2>1. [bytes |-> b, value |-> v] \in Field
      BY DEF Field
    <2>. QED
      BY <2>1
  <1>2. 1 \in Nat \ {0} /\ 4 \in Nat \ {0} /\ 8 \in Nat \ {0} /\ StringBytes \in Nat \ {0}
    BY DEF StringBytes
  <1>. QED
    BY <1>1, <1>2 DEF u8, u32, u64, write_string

\* It is read back from where it lies.
LEMMA FieldsRead ==
    ASSUME NEW buf, NEW pos, NEW v
    PROVE  /\ Holds(buf, pos, u8(v)) => buf[pos].value = v
           /\ Holds(buf, pos, u32(v)) => buf[pos].value = v
           /\ Holds(buf, pos, u64(v)) => buf[pos].value = v
           /\ Holds(buf, pos, write_string(v)) => buf[pos].value = v
  <1>1. ASSUME NEW b, Holds(buf, pos, <<[bytes |-> b, value |-> v]>>)
        PROVE  buf[pos].value = v
    <2>1. buf[pos] = [bytes |-> b, value |-> v]
      BY <1>1, HoldsOne
    <2>. QED
      BY <2>1
  <1>. QED
    BY <1>1 DEF u8, u32, u64, write_string

\* SetToSeq lists a finite set, each member once.
LEMMA Listed ==
    ASSUME NEW T, IsFiniteSet(T)
    PROVE  /\ SetToSeq(T) \in Seq(T) /\ Len(SetToSeq(T)) \in Nat
           /\ DOMAIN SetToSeq(T) = 1..Len(SetToSeq(T))
           /\ \A i \in 1..Len(SetToSeq(T)) : SetToSeq(T)[i] \in T
           /\ \A t \in T : \E i \in 1..Len(SetToSeq(T)) : SetToSeq(T)[i] = t
           /\ \A i, j \in 1..Len(SetToSeq(T)) : SetToSeq(T)[i] = SetToSeq(T)[j] => i = j
  <1>. DEFINE n == Cardinality(T)
              s == SetToSeq(T)
  <1>1. n \in Nat /\ IsFiniteSet(1..n) /\ Cardinality(1..n) = n
    BY FS_CardinalityType, FS_Interval
  <1>2. \E f \in [1..n -> T] : IsInjective(f)
    <2>1. PICK f : f \in Bijection(1..n, T)
      BY FS_CardinalityType DEF ExistsBijection
    <2>. QED
      BY <2>1 DEF Bijection, Injection
  <1>3. s \in [1..n -> T] /\ IsInjective(s)
    BY <1>2 DEF SetToSeq
  <1>. HIDE DEF s
  <1>4. s \in Injection(1..n, T)
    BY <1>3 DEF Injection
  <1>5. s \in Surjection(1..n, T)
    BY <1>1, <1>4, FS_Injection
  <1>6. s \in Seq(T) /\ Len(s) = n /\ DOMAIN s = 1..n
    BY <1>1, <1>3
  <1>7. \A t \in T : \E i \in 1..n : s[i] = t
    BY <1>5 DEF Surjection
  <1>8. \A i, j \in 1..n : s[i] = s[j] => i = j
    BY <1>3 DEF IsInjective
  <1>. QED
    BY <1>1, <1>3, <1>6, <1>7, <1>8 DEF s

\* The pairs a clock is written as.
Pairs(c, keys) == [i \in DOMAIN keys |-> write_string(keys[i]) \o u64(c[keys[i]])]

\* A pair is two fields, the key and what is counted for it.
LEMMA PairsWritten ==
    ASSUME NEW c \in Clock, NEW keys, keys = SetToSeq(DOMAIN c)
    PROVE  /\ Pairs(c, keys) \in Seq(Seq(Field)) /\ Len(Pairs(c, keys)) = Len(keys)
           /\ \A i \in 1..Len(keys) :
                 /\ Pairs(c, keys)[i] = write_string(keys[i]) \o u64(c[keys[i]])
                 /\ write_string(keys[i]) \in Seq(Field) /\ Len(write_string(keys[i])) = 1
                 /\ u64(c[keys[i]]) \in Seq(Field)
                 /\ Pairs(c, keys)[i] \in Seq(Field) /\ Len(Pairs(c, keys)[i]) = 2
           /\ Len(keys) \in Nat /\ Len(keys) \in Value
  <1>1. IsClock(c, Node)
    BY ClockType
  <1>2. DOMAIN c \subseteq Node /\ IsFiniteSet(DOMAIN c) /\ \A k \in DOMAIN c : c[k] \in Nat
    BY <1>1, NodeAssumption, FS_Subset DEF IsClock
  <1>3. /\ Len(keys) \in Nat /\ DOMAIN keys = 1..Len(keys)
        /\ \A i \in 1..Len(keys) : keys[i] \in DOMAIN c
    BY <1>2, Listed
  <1>4. \A i \in 1..Len(keys) : keys[i] \in Value /\ c[keys[i]] \in Value
    BY <1>2, <1>3 DEF Value
  <1>5. ASSUME NEW i \in 1..Len(keys)
        PROVE  /\ write_string(keys[i]) \in Seq(Field) /\ Len(write_string(keys[i])) = 1
               /\ u64(c[keys[i]]) \in Seq(Field) /\ Len(u64(c[keys[i]])) = 1
    BY <1>4, FieldsWritten
  <1>6. ASSUME NEW i \in 1..Len(keys)
        PROVE  /\ write_string(keys[i]) \o u64(c[keys[i]]) \in Seq(Field)
               /\ Len(write_string(keys[i]) \o u64(c[keys[i]])) = 2
    <2>. DEFINE a == write_string(keys[i])
                b == u64(c[keys[i]])
    <2>1. a \in Seq(Field) /\ Len(a) = 1 /\ b \in Seq(Field) /\ Len(b) = 1
      BY <1>5
    <2>. HIDE DEF a, b
    <2>2. a \o b \in Seq(Field) /\ Len(a \o b) = 2
      BY <2>1, ConcatProperties
    <2>. QED
      BY <2>2 DEF a, b
  <1>7. \A i \in 1..Len(keys) : Pairs(c, keys)[i] = write_string(keys[i]) \o u64(c[keys[i]])
    BY <1>3 DEF Pairs
  <1>8. Pairs(c, keys) \in [1..Len(keys) -> Seq(Field)]
    BY <1>3, <1>6 DEF Pairs
  <1>9. Pairs(c, keys) \in Seq(Seq(Field)) /\ Len(Pairs(c, keys)) = Len(keys)
    BY <1>3, <1>8
  <1>10. Len(keys) \in Value
    BY <1>3 DEF Value
  <1>. QED
    BY <1>3, <1>5, <1>6, <1>7, <1>9, <1>10

\* A clock is written as fields.
LEMMA ClockWritten ==
    ASSUME NEW node \in Node, NEW c \in Clock
    PROVE  WriteClock(node, c) \in Seq(Field)
  <1>. DEFINE keys == SetToSeq(DOMAIN c)
  <1>1. WriteClock(node, c) =
            (write_string(node) \o u32(Len(keys))) \o FlattenSeq(Pairs(c, keys))
    BY DEF WriteClock, Pairs
  <1>2. Pairs(c, keys) \in Seq(Seq(Field)) /\ Len(keys) \in Value
    BY PairsWritten
  <1>3. node \in Value
    BY DEF Value
  <1>. HIDE DEF keys
  <1>4. write_string(node) \in Seq(Field) /\ u32(Len(keys)) \in Seq(Field)
    BY <1>2, <1>3, FieldsWritten
  <1>5. FlattenSeq(Pairs(c, keys)) \in Seq(Field)
    BY <1>2, FlattenType
  <1>6. write_string(node) \o u32(Len(keys)) \in Seq(Field)
    BY <1>4, ConcatProperties
  <1>. QED
    BY <1>1, <1>5, <1>6, ConcatProperties

\* The reader finds every entry, whatever order the map came in.
LEMMA ClockReadBack ==
    ASSUME NEW buf \in Seq(Field), NEW pos, NEW node \in Node, NEW c \in Clock, node \in DOMAIN c,
           Holds(buf, pos, WriteClock(node, c))
    PROVE  ReadClock(buf, pos) = c
  <1>. DEFINE keys == SetToSeq(DOMAIN c)
              K == Len(keys)
              head == write_string(node) \o u32(K)
  <1>1. WriteClock(node, c) = head \o FlattenSeq(Pairs(c, keys))
    BY DEF WriteClock, Pairs
  <1>2. /\ Pairs(c, keys) \in Seq(Seq(Field)) /\ Len(Pairs(c, keys)) = K
        /\ \A i \in 1..K :
              /\ Pairs(c, keys)[i] = write_string(keys[i]) \o u64(c[keys[i]])
              /\ write_string(keys[i]) \in Seq(Field) /\ Len(write_string(keys[i])) = 1
              /\ u64(c[keys[i]]) \in Seq(Field)
              /\ Pairs(c, keys)[i] \in Seq(Field) /\ Len(Pairs(c, keys)[i]) = 2
        /\ K \in Nat /\ K \in Value
    BY PairsWritten
  <1>3. node \in Value /\ pos \in Nat \ {0}
    BY DEF Value, Holds
  <1>4. IsClock(c, Node)
    BY ClockType
  <1>5. /\ \A i \in 1..K : keys[i] \in DOMAIN c
        /\ \A k \in DOMAIN c : \E i \in 1..K : keys[i] = k
    <2>1. IsFiniteSet(DOMAIN c)
      BY <1>4, NodeAssumption, FS_Subset DEF IsClock
    <2>. QED
      BY <2>1, Listed
  <1>. HIDE DEF keys, K
  <1>6. /\ write_string(node) \in Seq(Field) /\ Len(write_string(node)) = 1
        /\ u32(K) \in Seq(Field) /\ Len(u32(K)) = 1
    BY <1>2, <1>3, FieldsWritten
  <1>7. head \in Seq(Field) /\ Len(head) = 2
    BY <1>6, ConcatProperties
  <1>8. FlattenSeq(Pairs(c, keys)) \in Seq(Field)
    BY <1>2, FlattenType
  <1>9. Holds(buf, pos, head) /\ Holds(buf, pos + 2, FlattenSeq(Pairs(c, keys)))
    <2>. HIDE DEF head
    <2>1. Holds(buf, pos, head \o FlattenSeq(Pairs(c, keys)))
      BY <1>1
    <2>. QED
      BY <1>7, <1>8, <2>1, HoldsParts
  <1>10. Holds(buf, pos, write_string(node)) /\ Holds(buf, pos + 1, u32(K))
    BY <1>6, <1>9, HoldsParts
  <1>11. buf[pos].value = node /\ buf[pos + 1].value = K
    BY <1>10, FieldsRead
  <1>12. PICK start : /\ Starts(Pairs(c, keys), pos + 2, start)
                      /\ \A i \in 1..Len(Pairs(c, keys)) : Holds(buf, start[i], Pairs(c, keys)[i])
    BY <1>2, <1>9, HoldsAll
  <1>13. /\ start[1] = pos + 2
         /\ \A i \in 1..K : start[i + 1] = start[i] + 2
    BY <1>2, <1>12 DEF Starts
  <1>. DEFINE S == {i \in Nat : i < K => start[i + 1] = pos + 2 * (i + 1)}
  <1>14. 0 \in S
    BY <1>3, <1>13
  <1>15. ASSUME NEW i \in Nat, i \in S PROVE i + 1 \in S
    <2>1. ASSUME i + 1 < K PROVE start[(i + 1) + 1] = pos + 2 * ((i + 1) + 1)
      <3>1. i + 1 \in 1..K /\ i < K
        BY <1>2, <2>1
      <3>2. start[i + 1] = pos + 2 * (i + 1) /\ start[(i + 1) + 1] = start[i + 1] + 2
        BY <1>13, <1>15, <3>1
      <3>. QED
        BY <1>3, <3>2
    <2>. QED
      BY <2>1
  <1>. HIDE DEF S
  <1>16. \A i \in Nat : i \in S
    BY <1>14, <1>15, InductiveSet
  <1>17. ASSUME NEW i \in 1..K
         PROVE  buf[pos + 2 * i].value = keys[i] /\ buf[pos + 2 * i + 1].value = c[keys[i]]
    <2>1. i - 1 \in Nat /\ i - 1 < K /\ (i - 1) + 1 = i
      BY <1>2
    <2>2. start[i] = pos + 2 * i
      <3>1. i - 1 < K => start[(i - 1) + 1] = pos + 2 * ((i - 1) + 1)
        BY <1>16, <2>1 DEF S
      <3>. QED
        BY <2>1, <3>1
    <2>3. Holds(buf, pos + 2 * i, write_string(keys[i]) \o u64(c[keys[i]]))
      BY <1>2, <1>12, <2>2
    <2>4. /\ Holds(buf, pos + 2 * i, write_string(keys[i]))
          /\ Holds(buf, pos + 2 * i + 1, u64(c[keys[i]]))
      BY <1>2, <2>3, HoldsParts
    <2>. QED
      BY <2>4, FieldsRead
  <1>. DEFINE entries == 1..buf[pos + 1].value
              Key(i)  == buf[pos + 2 * i].value
              D == {buf[pos].value} \cup {Key(i) : i \in entries}
              read == [k \in D |-> IF \E i \in entries : Key(i) = k
                                   THEN buf[pos + 2 * (CHOOSE i \in entries : Key(i) = k) + 1].value
                                   ELSE 0]
  <1>18. ReadClock(buf, pos) = read
    BY DEF ReadClock
  <1>19. entries = 1..K /\ \A i \in entries : Key(i) = keys[i]
    BY <1>11, <1>17
  <1>20. D = DOMAIN c
    <2>1. {Key(i) : i \in entries} = DOMAIN c
      <3>1. \A i \in entries : Key(i) \in DOMAIN c
        BY <1>5, <1>19
      <3>2. \A k \in DOMAIN c : \E i \in entries : k = Key(i)
        BY <1>5, <1>19
      <3>. HIDE DEF Key, entries
      <3>. QED
        BY <3>1, <3>2
    <2>. HIDE DEF Key, entries
    <2>. QED
      BY <1>11, <2>1
  <1>21. ASSUME NEW k \in DOMAIN c PROVE read[k] = c[k]
    <2>. DEFINE i == CHOOSE i \in entries : Key(i) = k
    <2>1. \E j \in entries : Key(j) = k
      BY <1>5, <1>19
    <2>2. i \in entries /\ Key(i) = k
      BY <2>1
    <2>3. read[k] = buf[pos + 2 * i + 1].value
      <3>1. k \in D
        BY <1>20
      <3>. HIDE DEF D
      <3>. QED
        BY <2>1, <3>1
    <2>. HIDE DEF i
    <2>4. i \in 1..K /\ keys[i] = k
      BY <1>19, <2>2
    <2>. QED
      BY <1>17, <2>3, <2>4
  <1>22. c = [k \in DOMAIN c |-> c[k]]
    BY <1>4 DEF IsClock
  <1>23. read = [k \in DOMAIN c |-> read[k]]
    <2>1. read = [k \in D |-> read[k]]
      OBVIOUS
    <2>. HIDE DEF read, D
    <2>. QED
      BY <1>20, <2>1
  <1>. HIDE DEF read
  <1>24. read = c
    BY <1>21, <1>22, <1>23
  <1>. QED
    BY <1>18, <1>24

\* A sized clock is written in one piece, and the reader takes it and gets past it.
LEMMA SizedClockWritten ==
    ASSUME NEW node \in Node, NEW c \in Clock
    PROVE  SizedClock(node, c) \in Seq(Field)
  <1>1. WriteClock(node, c) \in Seq(Field)
    BY ClockWritten
  <1>2. Bytes(WriteClock(node, c)) \in Value
    <2>1. PICK g : Offsets(WriteClock(node, c), g)
      BY <1>1, OffsetsExist
    <2>2. Len(WriteClock(node, c)) \in Nat
      BY <1>1, LenProperties
    <2>3. g[Len(WriteClock(node, c))] \in Nat
      BY <2>1, <2>2 DEF Offsets
    <2>. QED
      BY <1>1, <2>1, <2>3, BytesAreOffsets DEF Value
  <1>3. u32(Bytes(WriteClock(node, c))) \in Seq(Field)
    BY <1>2, FieldsWritten
  <1>. QED
    BY <1>1, <1>3, ConcatProperties DEF SizedClock

\* The reader takes a sized clock as it was written, and gets to the field after it.
LEMMA SizedClockRead ==
    ASSUME NEW buf \in Seq(Field), NEW pos, NEW node \in Node, NEW c \in Clock, node \in DOMAIN c,
           Holds(buf, pos, SizedClock(node, c))
    PROVE  /\ ReadClock(buf, pos + 1) = c
           /\ Skip(buf, pos + 1, buf[pos].value) = pos + Len(SizedClock(node, c))
  <1>. DEFINE w == WriteClock(node, c)
              b == Bytes(w)
  <1>1. w \in Seq(Field)
    BY ClockWritten
  <1>2. b \in Value
    <2>1. PICK g : Offsets(w, g)
      BY <1>1, OffsetsExist
    <2>2. Len(w) \in Nat
      BY <1>1, LenProperties
    <2>. HIDE DEF w
    <2>3. g[Len(w)] \in Nat
      BY <2>1, <2>2 DEF Offsets
    <2>. QED
      BY <1>1, <2>1, <2>3, BytesAreOffsets DEF Value
  <1>3. SizedClock(node, c) = u32(b) \o w
    BY DEF SizedClock
  <1>4. Holds(buf, pos + 1, WriteClock(node, c)) => ReadClock(buf, pos + 1) = c
    BY ClockReadBack
  <1>. HIDE DEF b
  <1>5. u32(b) \in Seq(Field) /\ Len(u32(b)) = 1
    BY <1>2, FieldsWritten
  <1>6. Holds(buf, pos, u32(b)) /\ Holds(buf, pos + 1, w)
    <2>. HIDE DEF w
    <2>1. Holds(buf, pos, u32(b) \o w)
      BY <1>3
    <2>. QED
      BY <1>1, <1>5, <2>1, HoldsParts
  <1>7. buf[pos].value = b
    BY <1>6, FieldsRead
  <1>8. Skip(buf, pos + 1, b) = (pos + 1) + Len(w)
    <2>. HIDE DEF w
    <2>. QED
      BY <1>1, <1>6, SkipsOver DEF b
  <1>9. (pos + 1) + Len(w) = pos + Len(SizedClock(node, c))
    <2>1. Len(SizedClock(node, c)) = 1 + Len(w)
      <3>. HIDE DEF w
      <3>. QED
        BY <1>1, <1>3, <1>5, ConcatProperties
    <2>2. pos \in Nat /\ Len(w) \in Nat
      BY <1>1, LenProperties DEF Holds
    <2>. HIDE DEF w
    <2>. QED
      BY <2>1, <2>2
  <1>. QED
    BY <1>4, <1>6, <1>7, <1>8, <1>9

\* s is written in k fields.
Writes(s, k) == s \in Seq(Field) /\ Len(s) = k /\ k \in Nat

\* Where u lies, s and t lie, t k fields after s.
Splits(u, s, k, t) ==
    \A buf \in Seq(Field) : \A pos :
        Holds(buf, pos, u) => Holds(buf, pos, s) /\ Holds(buf, pos + k, t)

\* Sequences are written one after the other.
LEMMA Joined ==
    ASSUME NEW s, NEW t, NEW k, NEW j, NEW n, Writes(s, k), Writes(t, j), k + j = n
    PROVE  \E u : u = s \o t /\ Writes(u, n) /\ Splits(u, s, k, t)
  <1>1. s \in Seq(Field) /\ t \in Seq(Field) /\ Len(s) = k /\ Len(t) = j /\ k \in Nat /\ j \in Nat
    BY DEF Writes
  <1>2. s \o t \in Seq(Field) /\ Len(s \o t) = k + j
    BY <1>1, ConcatProperties
  <1>3. Splits(s \o t, s, k, t)
    BY <1>1, HoldsParts DEF Splits
  <1>4. Writes(s \o t, n)
    BY <1>1, <1>2 DEF Writes
  <1>. QED
    BY <1>3, <1>4

\* An order as it is written.
OrderFields == [order_id : Value, side : Value, price : Nat, quantity : Value]

\* An order is eight fields, and its price is the only one that the wire changes.
LEMMA OrderWritten ==
    ASSUME NEW node \in Node, NEW o \in OrderFields
    PROVE  /\ Writes(write_order(node, o), 8)
           /\ \A buf \in Seq(Field) : \A pos : Holds(buf, pos, write_order(node, o)) =>
                 /\ buf[pos].value = o.order_id /\ buf[pos + 2].value = o.side
                 /\ buf[pos + 3].value = Rewire(o.price) /\ buf[pos + 4].value = o.quantity
  <1>1. /\ o.order_id \in Value /\ node \in Value /\ o.side \in Value /\ Rewire(o.price) \in Value
        /\ o.quantity \in Value /\ 0 \in Value
    BY DEF OrderFields, Value, Rewire
  <1>. DEFINE a1 == write_string(o.order_id)
              f2 == write_string(node)
              f3 == u8(o.side)
              f4 == write_double(o.price)
              f5 == u64(o.quantity)
              f7 == u64(0)
              f8 == u8(0)
  <1>2. /\ Writes(a1, 1) /\ Writes(f2, 1) /\ Writes(f3, 1) /\ Writes(f4, 1) /\ Writes(f5, 1)
        /\ Writes(f7, 1) /\ Writes(f8, 1)
    BY <1>1, FieldsWritten DEF write_double, Writes
  <1>3. write_order(node, o) = ((((((a1 \o f2) \o f3) \o f4) \o f5) \o f5) \o f7) \o f8
    BY DEF write_order
  <1>4. ASSUME NEW buf, NEW pos
        PROVE  /\ Holds(buf, pos, a1) => buf[pos].value = o.order_id
               /\ Holds(buf, pos + 2, f3) => buf[pos + 2].value = o.side
               /\ Holds(buf, pos + 3, f4) => buf[pos + 3].value = Rewire(o.price)
               /\ Holds(buf, pos + 4, f5) => buf[pos + 4].value = o.quantity
    BY FieldsRead DEF write_double
  <1>. HIDE DEF a1, f2, f3, f4, f5, f7, f8
  <1>5. PICK a2 : a2 = a1 \o f2 /\ Writes(a2, 2) /\ Splits(a2, a1, 1, f2)
    <2>1. Writes(a1, 1) /\ Writes(f2, 1) /\ 1 + 1 = 2
      BY <1>2
    <2>. QED
      BY <2>1, Joined, Zenon
  <1>6. PICK a3 : a3 = a2 \o f3 /\ Writes(a3, 3) /\ Splits(a3, a2, 2, f3)
    <2>1. Writes(a2, 2) /\ Writes(f3, 1) /\ 2 + 1 = 3
      BY <1>2, <1>5
    <2>. QED
      BY <2>1, Joined, Zenon
  <1>7. PICK a4 : a4 = a3 \o f4 /\ Writes(a4, 4) /\ Splits(a4, a3, 3, f4)
    <2>1. Writes(a3, 3) /\ Writes(f4, 1) /\ 3 + 1 = 4
      BY <1>2, <1>6
    <2>. QED
      BY <2>1, Joined, Zenon
  <1>8. PICK a5 : a5 = a4 \o f5 /\ Writes(a5, 5) /\ Splits(a5, a4, 4, f5)
    <2>1. Writes(a4, 4) /\ Writes(f5, 1) /\ 4 + 1 = 5
      BY <1>2, <1>7
    <2>. QED
      BY <2>1, Joined, Zenon
  <1>9. PICK a6 : a6 = a5 \o f5 /\ Writes(a6, 6) /\ Splits(a6, a5, 5, f5)
    <2>1. Writes(a5, 5) /\ Writes(f5, 1) /\ 5 + 1 = 6
      BY <1>2, <1>8
    <2>. QED
      BY <2>1, Joined, Zenon
  <1>10. PICK a7 : a7 = a6 \o f7 /\ Writes(a7, 7) /\ Splits(a7, a6, 6, f7)
    <2>1. Writes(a6, 6) /\ Writes(f7, 1) /\ 6 + 1 = 7
      BY <1>2, <1>9
    <2>. QED
      BY <2>1, Joined, Zenon
  <1>11. PICK a8 : a8 = a7 \o f8 /\ Writes(a8, 8) /\ Splits(a8, a7, 7, f8)
    <2>1. Writes(a7, 7) /\ Writes(f8, 1) /\ 7 + 1 = 8
      BY <1>2, <1>10
    <2>. QED
      BY <2>1, Joined, Zenon
  <1>12. write_order(node, o) = a8
    BY <1>3, <1>5, <1>6, <1>7, <1>8, <1>9, <1>10, <1>11
  <1>13. ASSUME NEW buf \in Seq(Field), NEW pos, Holds(buf, pos, a8)
         PROVE  /\ Holds(buf, pos, a1) /\ Holds(buf, pos + 2, f3)
                /\ Holds(buf, pos + 3, f4) /\ Holds(buf, pos + 4, f5)
    BY <1>5, <1>6, <1>7, <1>8, <1>9, <1>10, <1>11, <1>13 DEF Splits
  <1>. QED
    BY <1>4, <1>11, <1>12, <1>13

\* Where w lies, the fields of an operation lie.
FieldsIn(w, type, o, cancelled, origin, sized, id) ==
    \A buf \in Seq(Field) : \A pos : Holds(buf, pos, w) =>
        /\ buf[pos].value = type
        /\ buf[pos + 1].value = o.order_id /\ buf[pos + 3].value = o.side
        /\ buf[pos + 4].value = Rewire(o.price) /\ buf[pos + 5].value = o.quantity
        /\ buf[pos + 9].value = cancelled /\ buf[pos + 10].value = origin
        /\ Holds(buf, pos + 11, sized)
        /\ buf[pos + 11 + Len(sized)].value = id

\* w is what write_operation makes of these fields.
IsWritten(w, type, o, cancelled, origin, c, id) ==
    w = u8(type) \o write_order(origin, o) \o write_string(cancelled) \o write_string(origin)
          \o SizedClock(origin, c) \o write_string(id)

\* The parts of an operation.
LEMMA OperationParts ==
    ASSUME NEW type \in Value, NEW o \in OrderFields, NEW cancelled \in Value, NEW origin \in Node,
           NEW c \in Clock, NEW id \in Value, NEW w,
           IsWritten(w, type, o, cancelled, origin, c, id)
    PROVE  /\ w \in Seq(Field) /\ Len(w) = 12 + Len(SizedClock(origin, c))
           /\ FieldsIn(w, type, o, cancelled, origin, SizedClock(origin, c), id)
  <1>. DEFINE a1 == u8(type)
              f2 == write_order(origin, o)
              f3 == write_string(cancelled)
              f4 == write_string(origin)
              f5 == SizedClock(origin, c)
              f6 == write_string(id)
  <1>1. origin \in Value
    BY DEF Value
  <1>2. Writes(a1, 1) /\ Writes(f2, 8) /\ Writes(f3, 1) /\ Writes(f4, 1) /\ Writes(f6, 1)
    BY <1>1, FieldsWritten, OrderWritten DEF Writes
  <1>3. Writes(f5, Len(f5)) /\ Len(f5) \in Nat
    <2>1. f5 \in Seq(Field)
      BY SizedClockWritten
    <2>. HIDE DEF f5
    <2>. QED
      BY <2>1 DEF Writes
  <1>4. ASSUME NEW buf \in Seq(Field), NEW pos
        PROVE  /\ Holds(buf, pos, a1) => buf[pos].value = type
               /\ Holds(buf, pos + 9, f3) => buf[pos + 9].value = cancelled
               /\ Holds(buf, pos + 10, f4) => buf[pos + 10].value = origin
               /\ \A p : Holds(buf, p, f6) => buf[p].value = id
               /\ Holds(buf, pos + 1, f2) =>
                     /\ buf[pos + 1].value = o.order_id /\ buf[pos + 1 + 2].value = o.side
                     /\ buf[pos + 1 + 3].value = Rewire(o.price)
                     /\ buf[pos + 1 + 4].value = o.quantity
    BY FieldsRead, OrderWritten
  <1>5. w = ((((a1 \o f2) \o f3) \o f4) \o f5) \o f6
    BY DEF IsWritten
  <1>. HIDE DEF a1, f2, f3, f4, f5, f6
  <1>6. PICK a2 : a2 = a1 \o f2 /\ Writes(a2, 9) /\ Splits(a2, a1, 1, f2)
    <2>1. 1 + 8 = 9
      OBVIOUS
    <2>. QED
      BY <1>2, <2>1, Joined, Zenon
  <1>7. PICK a3 : a3 = a2 \o f3 /\ Writes(a3, 10) /\ Splits(a3, a2, 9, f3)
    <2>1. 9 + 1 = 10
      OBVIOUS
    <2>. QED
      BY <1>2, <1>6, <2>1, Joined, Zenon
  <1>8. PICK a4 : a4 = a3 \o f4 /\ Writes(a4, 11) /\ Splits(a4, a3, 10, f4)
    <2>1. 10 + 1 = 11
      OBVIOUS
    <2>. QED
      BY <1>2, <1>7, <2>1, Joined, Zenon
  <1>9. PICK a5 : a5 = a4 \o f5 /\ Writes(a5, 11 + Len(f5)) /\ Splits(a5, a4, 11, f5)
    BY <1>3, <1>8, Joined, Zenon
  <1>10. PICK a6 : /\ a6 = a5 \o f6 /\ Writes(a6, 12 + Len(f5))
                   /\ Splits(a6, a5, 11 + Len(f5), f6)
    <2>1. 11 + Len(f5) + 1 = 12 + Len(f5)
      BY <1>3
    <2>. QED
      BY <1>2, <1>9, <2>1, Joined, Zenon
  <1>11. w = a6
    BY <1>5, <1>6, <1>7, <1>8, <1>9, <1>10, Zenon
  <1>12. ASSUME NEW buf \in Seq(Field), NEW pos, Holds(buf, pos, a6)
         PROVE  /\ Holds(buf, pos, a1) /\ Holds(buf, pos + 1, f2)
                /\ Holds(buf, pos + 9, f3) /\ Holds(buf, pos + 10, f4)
                /\ Holds(buf, pos + 11, f5) /\ Holds(buf, pos + (11 + Len(f5)), f6)
    BY <1>6, <1>7, <1>8, <1>9, <1>10, <1>12 DEF Splits
  <1>13. ASSUME NEW buf \in Seq(Field), NEW pos, Holds(buf, pos, a6)
         PROVE  /\ buf[pos].value = type
                /\ buf[pos + 1].value = o.order_id /\ buf[pos + 3].value = o.side
                /\ buf[pos + 4].value = Rewire(o.price) /\ buf[pos + 5].value = o.quantity
                /\ buf[pos + 9].value = cancelled /\ buf[pos + 10].value = origin
                /\ Holds(buf, pos + 11, f5)
                /\ buf[pos + 11 + Len(f5)].value = id
    <2>1. pos \in Nat
      BY <1>13 DEF Holds
    <2>2. /\ pos + 1 + 2 = pos + 3 /\ pos + 1 + 3 = pos + 4 /\ pos + 1 + 4 = pos + 5
          /\ pos + (11 + Len(f5)) = pos + 11 + Len(f5)
      BY <1>3, <2>1
    <2>3. /\ buf[pos].value = type
          /\ buf[pos + 9].value = cancelled /\ buf[pos + 10].value = origin
          /\ buf[pos + (11 + Len(f5))].value = id /\ Holds(buf, pos + 11, f5)
      BY <1>4, <1>12, <1>13
    <2>4. /\ buf[pos + 1].value = o.order_id /\ buf[pos + 1 + 2].value = o.side
          /\ buf[pos + 1 + 3].value = Rewire(o.price) /\ buf[pos + 1 + 4].value = o.quantity
      BY <1>4, <1>12, <1>13
    <2>. QED
      BY <2>2, <2>3, <2>4
  <1>14. w \in Seq(Field) /\ Len(w) = 12 + Len(f5)
    BY <1>10, <1>11 DEF Writes
  <1>15. FieldsIn(w, type, o, cancelled, origin, f5, id)
    BY <1>11, <1>13, Zenon DEF FieldsIn
  <1>. QED
    BY <1>14, <1>15 DEF f5

\* The reader gets an operation as OnWire says, and gets past it.
LEMMA OperationReadBack ==
    ASSUME NEW op \in Operation, op.origin_node \in DOMAIN op.clock
    PROVE  /\ write_operation(op) \in Seq(Field)
           /\ \A buf \in Seq(Field) : \A pos : Holds(buf, pos, write_operation(op)) =>
                 read_operation(buf, pos) =
                    [op |-> OnWire(op), pos |-> pos + Len(write_operation(op))]
  <1>. DEFINE add == op.type = "ADD_ORDER"
              o == IF add THEN op.order ELSE NoOrder
              cancelled == IF add THEN 0 ELSE op.cancel_order_id
              sized == SizedClock(op.origin_node, op.clock)
              w == write_operation(op)
  <1>1. /\ op.type \in {"ADD_ORDER", "CANCEL_ORDER"} /\ op.origin_node \in Node /\ op.clock \in Clock
        /\ op.op_id \in Nat
        /\ add => op \in AddOperation
        /\ ~add => op \in CancelOperation
    BY DEF Operation, AddOperation, CancelOperation
  <1>2. op.type \in Value /\ op.op_id \in Value
    BY <1>1 DEF Value
  <1>3. o \in OrderFields /\ cancelled \in Value
    <2>1. CASE add
      <3>1. op.order \in LimitOrder
        BY <1>1, <2>1 DEF AddOperation
      <3>2. op.order \in OrderFields
        <4>1. op.order = [order_id |-> op.order.order_id, side |-> op.order.side,
                          price |-> op.order.price, quantity |-> op.order.quantity]
          BY <3>1 DEF LimitOrder
        <4>2. /\ op.order.order_id \in Value /\ op.order.side \in Value
              /\ op.order.price \in Nat /\ op.order.quantity \in Value
          <5>1. /\ op.order.order_id \in Nat /\ op.order.side \in Side
                /\ op.order.price \in Price /\ op.order.quantity \in Quantity
            BY <3>1 DEF LimitOrder
          <5>2. op.order.price \in Nat /\ op.order.quantity \in Nat
            BY <5>1, PriceAssumption, QuantityAssumption
          <5>3. Nat \subseteq Value /\ Side \subseteq Value
            BY DEF Value
          <5>. QED
            BY <5>1, <5>2, <5>3
        <4>. QED
          BY <4>1, <4>2 DEF OrderFields
      <3>. QED
        BY <2>1, <3>2 DEF Value
    <2>2. CASE ~add
      <3>1. NoOrder \in OrderFields
        BY DEF NoOrder, OrderFields, Value
      <3>2. op.cancel_order_id \in Nat
        BY <1>1, <2>2 DEF CancelOperation
      <3>. QED
        BY <2>2, <3>1, <3>2 DEF Value
    <2>. QED
      BY <2>1, <2>2
  <1>4. IsWritten(w, op.type, o, cancelled, op.origin_node, op.clock, op.op_id)
    BY DEF write_operation, IsWritten
  <1>. HIDE DEF o, cancelled, w
  <1>5. /\ w \in Seq(Field) /\ Len(w) = 12 + Len(sized)
        /\ FieldsIn(w, op.type, o, cancelled, op.origin_node, sized, op.op_id)
    BY <1>1, <1>2, <1>3, <1>4, OperationParts
  <1>6. ASSUME NEW buf \in Seq(Field), NEW pos, Holds(buf, pos, w)
        PROVE  read_operation(buf, pos) = [op |-> OnWire(op), pos |-> pos + Len(w)]
    <2>. DEFINE order == [order_id |-> buf[pos + 1].value, side |-> buf[pos + 3].value,
                          price |-> buf[pos + 4].value, quantity |-> buf[pos + 5].value]
                after == Skip(buf, pos + 12, buf[pos + 11].value)
                origin == buf[pos + 10].value
                op_clock == ReadClock(buf, pos + 12)
                result == IF buf[pos].value = "ADD_ORDER"
                          THEN [type |-> "ADD_ORDER", order |-> order, origin_node |-> origin,
                                clock |-> op_clock, op_id |-> buf[after].value]
                          ELSE CancelOp(origin, buf[pos + 9].value, buf[after].value, op_clock)
    <2>0. /\ buf[pos].value = op.type
          /\ buf[pos + 1].value = o.order_id /\ buf[pos + 3].value = o.side
          /\ buf[pos + 4].value = Rewire(o.price) /\ buf[pos + 5].value = o.quantity
          /\ buf[pos + 9].value = cancelled /\ buf[pos + 10].value = op.origin_node
          /\ Holds(buf, pos + 11, sized)
          /\ buf[pos + 11 + Len(sized)].value = op.op_id
      BY <1>5, <1>6, Zenon DEF FieldsIn
    <2>1. read_operation(buf, pos) = [op |-> result, pos |-> after + 1]
      BY DEF read_operation
    <2>2. pos \in Nat
      BY <1>6 DEF Holds
    <2>3. sized \in Seq(Field) /\ Len(sized) \in Nat
      <3>1. sized \in Seq(Field)
        BY <1>1, SizedClockWritten
      <3>. HIDE DEF sized
      <3>. QED
        BY <3>1
    <2>4. /\ ReadClock(buf, (pos + 11) + 1) = op.clock
          /\ Skip(buf, (pos + 11) + 1, buf[pos + 11].value) = (pos + 11) + Len(sized)
      BY <1>1, <2>0, SizedClockRead
    <2>5. (pos + 11) + 1 = pos + 12
      BY <2>2
    <2>6. op_clock = op.clock /\ after = pos + 11 + Len(sized)
      BY <2>4, <2>5
    <2>7. after + 1 = pos + Len(w)
      <3>. HIDE DEF sized, after
      <3>. QED
        BY <1>5, <2>2, <2>3, <2>6
    <2>8. buf[after].value = op.op_id /\ origin = op.origin_node /\ buf[pos].value = op.type
      BY <2>0, <2>6
    <2>9. result = OnWire(op)
      <3>1. CASE add
        <4>1. order = [order_id |-> op.order.order_id, side |-> op.order.side,
                       price |-> Rewire(op.order.price), quantity |-> op.order.quantity]
          BY <2>0, <3>1 DEF o
        <4>2. op \in AddOperation /\ op.order \in LimitOrder
          BY <1>1, <3>1 DEF AddOperation
        <4>3. [op.order EXCEPT !.price = Rewire(op.order.price)] = order
          <5>. HIDE DEF order
          <5>. QED
            BY <4>1, <4>2 DEF LimitOrder
        <4>4. OnWire(op) = [op EXCEPT !.order = [op.order EXCEPT !.price = Rewire(op.order.price)]]
          BY <3>1 DEF OnWire
        <4>. HIDE DEF order, after, op_clock, origin
        <4>5. OnWire(op) = [type |-> "ADD_ORDER", order |-> order, origin_node |-> op.origin_node,
                            clock |-> op.clock, op_id |-> op.op_id]
          BY <3>1, <4>2, <4>3, <4>4 DEF AddOperation
        <4>. QED
          BY <2>6, <2>8, <3>1, <4>5
      <3>2. CASE ~add
        <4>1. buf[pos + 9].value = op.cancel_order_id
          BY <2>0, <3>2 DEF cancelled
        <4>2. op \in CancelOperation /\ OnWire(op) = op
          BY <1>1, <3>2 DEF OnWire
        <4>3. op = CancelOp(op.origin_node, op.cancel_order_id, op.op_id, op.clock)
          BY <4>2 DEF CancelOperation, CancelOp
        <4>. HIDE DEF order, after, op_clock, origin
        <4>. QED
          BY <2>6, <2>8, <3>2, <4>1, <4>2, <4>3
      <3>. QED
        BY <3>1, <3>2
    <2>. HIDE DEF result, after
    <2>. QED
      BY <2>1, <2>7, <2>9
  <1>. QED
    BY <1>5, <1>6 DEF w

\* A message that the codec is made for: clocks hold the key of the node they are from.
Sendable(m) ==
    /\ m = [type |-> m.type, sender_id |-> m.sender_id, sender_clock |-> m.sender_clock,
            operations |-> m.operations]
    /\ m.type \in Value /\ m.sender_id \in Node
    /\ m.sender_clock \in Clock /\ m.sender_id \in DOMAIN m.sender_clock
    /\ m.operations \in Seq(Operation)
    /\ \A i \in DOMAIN m.operations : m.operations[i].origin_node \in DOMAIN m.operations[i].clock

\* The operations of a message as they are written.
WrittenOps(ops) == [i \in DOMAIN ops |-> write_operation(ops[i])]

\* The parts of a message.
LEMMA MessageParts ==
    ASSUME NEW m, Sendable(m)
    PROVE  /\ WrittenOps(m.operations) \in Seq(Seq(Field))
           /\ Len(WrittenOps(m.operations)) = Len(m.operations)
           /\ \E buf \in Seq(Field) :
                 /\ buf = serialize(m)
                 /\ buf[1].value = m.type /\ buf[3].value = m.sender_id
                 /\ Holds(buf, 4, SizedClock(m.sender_id, m.sender_clock))
                 /\ LET after == 4 + Len(SizedClock(m.sender_id, m.sender_clock))
                    IN  /\ buf[after].value = Len(m.operations)
                        /\ Holds(buf, after + 1, FlattenSeq(WrittenOps(m.operations)))
  <1>. DEFINE ops == m.operations
              written == WrittenOps(ops)
              f1 == write_string(m.sender_id)
              f2 == SizedClock(m.sender_id, m.sender_clock)
              f3 == u32(Len(ops))
              f4 == FlattenSeq(written)
  <1>1. /\ m.type \in Value /\ m.sender_id \in Node /\ m.sender_clock \in Clock
        /\ ops \in Seq(Operation) /\ Len(ops) \in Nat /\ DOMAIN ops = 1..Len(ops)
        /\ \A i \in 1..Len(ops) : ops[i] \in Operation /\ ops[i].origin_node \in DOMAIN ops[i].clock
    BY DEF Sendable
  <1>2. written \in Seq(Seq(Field)) /\ Len(written) = Len(ops)
    <2>1. \A i \in 1..Len(ops) : write_operation(ops[i]) \in Seq(Field)
      BY <1>1, OperationReadBack
    <2>2. written \in [1..Len(ops) -> Seq(Field)]
      BY <1>1, <2>1 DEF WrittenOps
    <2>. HIDE DEF written
    <2>. QED
      BY <1>1, <2>2
  <1>3. m.sender_id \in Value /\ Len(ops) \in Value
    BY <1>1 DEF Value
  <1>4. /\ Writes(f1, 1) /\ Writes(f3, 1)
        /\ f2 \in Seq(Field) /\ f4 \in Seq(Field)
    BY <1>1, <1>2, <1>3, FieldsWritten, SizedClockWritten, FlattenType DEF Writes
  <1>5. Writes(f2, Len(f2)) /\ Writes(f4, Len(f4)) /\ Len(f2) \in Nat /\ Len(f4) \in Nat
    <2>. HIDE DEF f2, f4
    <2>. QED
      BY <1>4 DEF Writes
  <1>6. ASSUME NEW buf, NEW pos
        PROVE  /\ Holds(buf, pos, f1) => buf[pos].value = m.sender_id
               /\ Holds(buf, pos, f3) => buf[pos].value = Len(ops)
    BY FieldsRead
  <1>. DEFINE body == ((f1 \o f2) \o f3) \o f4
              h1 == u8(m.type)
              h2 == u32(Bytes(body) + 5)
  <1>7. serialize(m) = (h1 \o h2) \o body
    BY DEF serialize, WrittenOps
  <1>. HIDE DEF f1, f2, f3, f4, written
  <1>8. PICK b2 : b2 = f1 \o f2 /\ Writes(b2, 1 + Len(f2)) /\ Splits(b2, f1, 1, f2)
    BY <1>4, <1>5, Joined, Zenon
  <1>9. PICK b3 : b3 = b2 \o f3 /\ Writes(b3, 2 + Len(f2)) /\ Splits(b3, b2, 1 + Len(f2), f3)
    <2>1. 1 + Len(f2) + 1 = 2 + Len(f2)
      BY <1>5
    <2>. QED
      BY <1>4, <1>8, <2>1, Joined, Zenon
  <1>10. PICK b4 : /\ b4 = b3 \o f4 /\ Writes(b4, 2 + Len(f2) + Len(f4))
                   /\ Splits(b4, b3, 2 + Len(f2), f4)
    BY <1>5, <1>9, Joined, Zenon
  <1>11. body = b4
    BY <1>8, <1>9, <1>10, Zenon
  <1>12. Writes(h1, 1) /\ Writes(h2, 1)
    <2>1. b4 \in Seq(Field) /\ Len(b4) \in Nat
      BY <1>10 DEF Writes
    <2>2. PICK g : Offsets(b4, g)
      BY <2>1, OffsetsExist
    <2>3. Bytes(b4) = g[Len(b4)] /\ g[Len(b4)] \in Nat
      BY <2>1, <2>2, BytesAreOffsets DEF Offsets
    <2>4. Bytes(body) + 5 \in Value
      <3>. HIDE DEF body
      <3>. QED
        BY <1>11, <2>3 DEF Value
    <2>. HIDE DEF body
    <2>. QED
      BY <1>1, <2>4, FieldsWritten DEF Writes
  <1>13. \A buf, pos : Holds(buf, pos, h1) => buf[pos].value = m.type
    BY FieldsRead
  <1>. HIDE DEF body, h1, h2
  <1>14. PICK b5 : b5 = h1 \o h2 /\ Writes(b5, 2) /\ Splits(b5, h1, 1, h2)
    <2>1. 1 + 1 = 2
      OBVIOUS
    <2>. QED
      BY <1>12, <2>1, Joined, Zenon
  <1>15. PICK buf : /\ buf = b5 \o b4 /\ Writes(buf, 2 + (2 + Len(f2) + Len(f4)))
                    /\ Splits(buf, b5, 2, b4)
    BY <1>10, <1>14, Joined, Zenon
  <1>16. buf = serialize(m) /\ buf \in Seq(Field)
    <2>1. buf \in Seq(Field)
      BY <1>15 DEF Writes
    <2>. QED
      BY <1>7, <1>11, <1>14, <1>15, <2>1, Zenon
  <1>17. Holds(buf, 1, buf)
    BY <1>16, HoldsItself
  <1>18. Holds(buf, 1, h1) /\ Holds(buf, 1 + 2, b4)
    BY <1>14, <1>15, <1>16, <1>17 DEF Splits
  <1>19. Holds(buf, 1 + 2, b3) /\ Holds(buf, 1 + 2 + (2 + Len(f2)), f4)
    BY <1>10, <1>16, <1>18 DEF Splits
  <1>20. Holds(buf, 1 + 2, b2) /\ Holds(buf, 1 + 2 + (1 + Len(f2)), f3)
    BY <1>9, <1>16, <1>19 DEF Splits
  <1>21. Holds(buf, 1 + 2, f1) /\ Holds(buf, 1 + 2 + 1, f2)
    BY <1>8, <1>16, <1>20 DEF Splits
  <1>22. /\ 1 + 2 = 3 /\ 1 + 2 + 1 = 4 /\ 1 + 2 + (1 + Len(f2)) = 4 + Len(f2)
         /\ 1 + 2 + (2 + Len(f2)) = 4 + Len(f2) + 1
    BY <1>5
  <1>23. /\ Holds(buf, 1, h1) /\ Holds(buf, 3, f1) /\ Holds(buf, 4, f2)
         /\ Holds(buf, 4 + Len(f2), f3) /\ Holds(buf, 4 + Len(f2) + 1, f4)
    BY <1>18, <1>19, <1>20, <1>21, <1>22
  <1>24. /\ buf[1].value = m.type /\ buf[3].value = m.sender_id
         /\ buf[4 + Len(f2)].value = Len(ops)
    BY <1>6, <1>13, <1>23
  <1>. QED
    BY <1>2, <1>16, <1>23, <1>24 DEF f2, f4, written

\* The reader gets the message that was sent, but for the prices.
LEMMA MessageReadBack ==
    ASSUME NEW m, Sendable(m)
    PROVE  deserialize(serialize(m)) =
              [m EXCEPT !.operations = [i \in DOMAIN m.operations |-> OnWire(m.operations[i])]]
  <1>. DEFINE ops == m.operations
              written == WrittenOps(ops)
              sized == SizedClock(m.sender_id, m.sender_clock)
              here == 4 + Len(sized)
              n == Len(ops)
  <1>1. /\ m.sender_id \in Node /\ m.sender_clock \in Clock /\ m.sender_id \in DOMAIN m.sender_clock
        /\ ops \in Seq(Operation) /\ n \in Nat /\ DOMAIN ops = 1..n
        /\ \A i \in 1..n : ops[i] \in Operation /\ ops[i].origin_node \in DOMAIN ops[i].clock
    BY DEF Sendable
  <1>2. written \in Seq(Seq(Field)) /\ Len(written) = n
        /\ \A i \in 1..n : written[i] = write_operation(ops[i])
    BY <1>1, MessageParts DEF WrittenOps
  <1>3. PICK buf \in Seq(Field) :
            /\ buf = serialize(m)
            /\ buf[1].value = m.type /\ buf[3].value = m.sender_id
            /\ Holds(buf, 4, sized)
            /\ buf[here].value = n
            /\ Holds(buf, here + 1, FlattenSeq(written))
    BY MessageParts, Zenon
  <1>4. ReadClock(buf, 5) = m.sender_clock /\ Skip(buf, 5, buf[4].value) = here
    <2>. DEFINE ReadAt(pos) == /\ ReadClock(buf, pos + 1) = m.sender_clock
                               /\ Skip(buf, pos + 1, buf[pos].value) = pos + Len(sized)
    <2>1. ASSUME NEW pos, Holds(buf, pos, sized) PROVE ReadAt(pos)
      <3>1. m.sender_id \in Node /\ m.sender_clock \in Clock /\ m.sender_id \in DOMAIN m.sender_clock
        BY <1>1, Zenon
      <3>2. Holds(buf, pos, SizedClock(m.sender_id, m.sender_clock))
        BY <2>1, Zenon
      <3>3. buf \in Seq(Field)
        OBVIOUS
      <3>4. /\ ReadClock(buf, pos + 1) = m.sender_clock
            /\ Skip(buf, pos + 1, buf[pos].value) = pos + Len(SizedClock(m.sender_id, m.sender_clock))
        BY <3>1, <3>2, <3>3, SizedClockRead
      <3>. QED
        BY <3>4, Zenon
    <2>2. ReadAt(4)
      <3>. HIDE DEF ReadAt
      <3>. QED
        BY <1>3, <2>1, Zenon
    <2>3. 4 + 1 = 5
      OBVIOUS
    <2>. QED
      BY <2>2, <2>3, Zenon
  <1>. HIDE DEF written, here
  <1>5. PICK start : /\ Starts(written, here + 1, start)
                     /\ \A i \in 1..Len(written) : Holds(buf, start[i], written[i])
    BY <1>2, <1>3, HoldsAll
  <1>6. /\ start[1] = here + 1
        /\ \A i \in 1..n : /\ start[i + 1] = start[i] + Len(write_operation(ops[i]))
                           /\ Holds(buf, start[i], write_operation(ops[i]))
    BY <1>2, <1>5 DEF Starts
  <1>7. \A i \in 1..n : read_operation(buf, start[i]) = [op |-> OnWire(ops[i]), pos |-> start[i + 1]]
    BY <1>1, <1>6, OperationReadBack
  <1>. DEFINE Eq(r) == r = [i \in 1..n |->
                              read_operation(buf, IF i = 1 THEN here + 1 ELSE r[i - 1].pos)]
              reads == CHOOSE r : Eq(r)
              h == [i \in 1..n |-> [op |-> OnWire(ops[i]), pos |-> start[i + 1]]]
  <1>8. deserialize(buf) =
            [type |-> buf[1].value, sender_id |-> buf[3].value, sender_clock |-> ReadClock(buf, 5),
             operations |-> [i \in 1..n |-> reads[i].op]]
    <2>. DEFINE after == Skip(buf, 5, buf[4].value)
                op_count == buf[after].value
                E(r) == r = [i \in 1..op_count |->
                               read_operation(buf, IF i = 1 THEN after + 1 ELSE r[i - 1].pos)]
    <2>. DEFINE read == CHOOSE r : E(r)
    <2>1. deserialize(buf) =
            [type |-> buf[1].value, sender_id |-> buf[3].value, sender_clock |-> ReadClock(buf, 5),
             operations |-> [i \in 1..op_count |-> read[i].op]]
      BY Zenon DEF deserialize
    <2>2. after = here /\ op_count = n
      BY <1>3, <1>4
    <2>3. ASSUME NEW r PROVE E(r) <=> Eq(r)
      BY <2>2, Zenon
    <2>4. read = reads
      <3>. HIDE DEF E, Eq
      <3>. QED
        BY <2>3
    <2>. HIDE DEF after, op_count, read, reads
    <2>5. [i \in 1..op_count |-> read[i].op] = [i \in 1..n |-> reads[i].op]
      BY <2>2, <2>4
    <2>. QED
      BY <2>1, <2>5, Zenon
  <1>9. Eq(h)
    <2>. DEFINE v == [i \in 1..n |-> read_operation(buf, IF i = 1 THEN here + 1 ELSE h[i - 1].pos)]
    <2>1. ASSUME NEW i \in 1..n PROVE v[i] = h[i]
      <3>1. (IF i = 1 THEN here + 1 ELSE h[i - 1].pos) = start[i]
        <4>1. CASE i = 1
          BY <1>6, <4>1
        <4>2. CASE i # 1
          <5>1. i - 1 \in 1..n /\ (i - 1) + 1 = i
            BY <1>1, <4>2
          <5>2. h[i - 1] = [op |-> OnWire(ops[i - 1]), pos |-> start[i]]
            BY <5>1
          <5>. HIDE DEF h
          <5>. QED
            BY <4>2, <5>2
        <4>. QED
          BY <4>1, <4>2
      <3>2. v[i] = read_operation(buf, start[i])
        <4>. HIDE DEF h
        <4>. QED
          BY <3>1
      <3>3. h[i] = [op |-> OnWire(ops[i]), pos |-> start[i + 1]]
        OBVIOUS
      <3>. HIDE DEF h, v
      <3>. QED
        BY <1>7, <3>2, <3>3
    <2>2. v = [i \in 1..n |-> v[i]] /\ h = [i \in 1..n |-> h[i]]
      OBVIOUS
    <2>3. v = h
      <3>. HIDE DEF v, h
      <3>. QED
        BY <2>1, <2>2
    <2>. QED
      BY <2>3, Zenon
  <1>10. Eq(reads)
    <2>. HIDE DEF h
    <2>. QED
      BY <1>9, Zenon
  <1>11. /\ \A i \in 1..n : h[i].op = OnWire(ops[i]) /\ h[i].pos = start[i + 1]
    OBVIOUS
  <1>. HIDE DEF reads, h
  <1>12. \A i \in 1..n : reads[i] = read_operation(buf, IF i = 1 THEN here + 1 ELSE reads[i - 1].pos)
    <2>. DEFINE v == [i \in 1..n |-> read_operation(buf, IF i = 1 THEN here + 1 ELSE reads[i - 1].pos)]
    <2>1. \A i \in 1..n : v[i] = read_operation(buf, IF i = 1 THEN here + 1 ELSE reads[i - 1].pos)
      OBVIOUS
    <2>2. reads = v
      BY <1>10
    <2>. HIDE DEF v
    <2>. QED
      BY <2>1, <2>2
  <1>. DEFINE S == {i \in Nat : i \in 1..n =>
                      reads[i] = [op |-> OnWire(ops[i]), pos |-> start[i + 1]]}
  <1>13. 0 \in S
    OBVIOUS
  <1>14. ASSUME NEW i \in Nat, i \in S PROVE i + 1 \in S
    <2>1. ASSUME i + 1 \in 1..n
          PROVE  reads[i + 1] = [op |-> OnWire(ops[i + 1]), pos |-> start[(i + 1) + 1]]
      <3>1. (IF i + 1 = 1 THEN here + 1 ELSE reads[(i + 1) - 1].pos) = start[i + 1]
        <4>1. CASE i + 1 = 1
          BY <1>6, <4>1
        <4>2. CASE i + 1 # 1
          <5>1. i \in 1..n /\ (i + 1) - 1 = i
            BY <1>1, <2>1, <4>2
          <5>2. reads[i].pos = start[i + 1]
            BY <1>14, <5>1
          <5>. QED
            BY <4>2, <5>1, <5>2
        <4>. QED
          BY <4>1, <4>2
      <3>2. reads[i + 1] = read_operation(buf, start[i + 1])
        BY <1>12, <2>1, <3>1
      <3>. QED
        BY <1>7, <2>1, <3>2
    <2>. QED
      BY <2>1
  <1>. HIDE DEF S
  <1>15. \A i \in Nat : i \in S
    BY <1>13, <1>14, InductiveSet
  <1>16. \A i \in 1..n : reads[i].op = OnWire(ops[i])
    <2>1. \A i \in 1..n : reads[i] = [op |-> OnWire(ops[i]), pos |-> start[i + 1]]
      BY <1>1, <1>15 DEF S
    <2>2. ASSUME NEW i \in 1..n PROVE reads[i].op = OnWire(ops[i])
      <3>1. reads[i] = [op |-> OnWire(ops[i]), pos |-> start[i + 1]]
        BY <2>1
      <3>2. [op |-> OnWire(ops[i]), pos |-> start[i + 1]].op = OnWire(ops[i])
        OBVIOUS
      <3>. QED
        BY <3>1, <3>2, Zenon
    <2>. QED
      BY <2>2
  <1>17. [i \in 1..n |-> reads[i].op] = [i \in DOMAIN ops |-> OnWire(ops[i])]
    BY <1>1, <1>16
  <1>18. m = [type |-> m.type, sender_id |-> m.sender_id, sender_clock |-> m.sender_clock,
              operations |-> m.operations]
    BY DEF Sendable
  <1>19. [m EXCEPT !.operations = [i \in DOMAIN ops |-> OnWire(ops[i])]] =
            [type |-> m.type, sender_id |-> m.sender_id, sender_clock |-> m.sender_clock,
             operations |-> [i \in DOMAIN ops |-> OnWire(ops[i])]]
    <2>1. PICK a, b, c, d : m = [type |-> a, sender_id |-> b, sender_clock |-> c, operations |-> d]
      BY <1>18
    <2>2. a = m.type /\ b = m.sender_id /\ c = m.sender_clock
      BY <2>1
    <2>3. ASSUME NEW e PROVE [m EXCEPT !.operations = e] =
                [type |-> a, sender_id |-> b, sender_clock |-> c, operations |-> e]
      BY <2>1
    <2>. QED
      BY <2>2, <2>3
  <1>. QED
    BY <1>3, <1>4, <1>8, <1>17, <1>19

\* Every node's clock has its own key.
OwnKeys == \A n \in Node : n \in DOMAIN clock[n]

\* No step takes a key from a clock.
LEMMA OwnKeysPreserved ==
    ASSUME Shape, IdsIssued, OwnKeys, [Next]_vars
    PROVE  OwnKeys'
  <1>0. TypeOK
    BY TypesFromShape
  <1>1. CASE UNCHANGED vars
    BY <1>1 DEF vars, OwnKeys
  <1>2. ASSUME NEW n \in Node, NEW c, clock' = [clock EXCEPT ![n] = c], n \in DOMAIN c PROVE OwnKeys'
    BY <1>2 DEF OwnKeys, Shape
  <1>3. \A n \in Node : \A d : n \in DOMAIN tick(clock[n], n) /\ n \in DOMAIN merge(clock[n], d)
    BY DEF OwnKeys, tick, merge
  <1>4. ASSUME NEW n \in Node, NEW op \in Operation, Issues(n, op) PROVE OwnKeys'
    BY <1>2, <1>3, <1>4 DEF Issues
  <1>5. ASSUME NEW n \in Node, NEW b, OnlyTicks(n, b) PROVE OwnKeys'
    BY <1>2, <1>3, <1>5 DEF OnlyTicks
  <1>6. ASSUME NEW n \in Node, NEW m \in Node \ {n}, NEW i \in DOMAIN op_log[m], Receives(n, m, i)
        PROVE  OwnKeys'
    BY <1>2, <1>3, <1>6 DEF Receives
  <1>. QED
    BY <1>0, <1>1, <1>4, <1>5, <1>6, StepCases

\* Whatever clocks of different sizes and operations of both kinds a log holds, serialize
\* and deserialize give it back, but for the prices: OnWire is all that the wire does.
THEOREM WireIsFaithful == Spec => []WireKeepsMessages
  <1>1. Init => OwnKeys
    BY DEF Init, OwnKeys, new_clock
  <1>2. Shape /\ IdsIssued /\ OwnKeys /\ [Next]_vars => OwnKeys'
    BY OwnKeysPreserved
  <1>3. Shape /\ CausalInv /\ OwnKeys => WireKeepsMessages
    <2>. SUFFICES ASSUME Shape, CausalInv, OwnKeys, NEW n \in Node
                  PROVE  deserialize(serialize(FullDelta(n))) =
                            [FullDelta(n) EXCEPT !.operations =
                                [i \in DOMAIN op_log[n] |-> OnWire(op_log[n][i])]]
      BY DEF WireKeepsMessages
    <2>1. /\ clock[n] \in Clock /\ n \in DOMAIN clock[n]
          /\ op_log[n] \in Seq(Operation) /\ "ANTI_ENTROPY_RES" \in Value
      BY DEF Shape, OwnKeys, Value
    <2>2. ASSUME NEW i \in DOMAIN op_log[n]
          PROVE  op_log[n][i].origin_node \in DOMAIN op_log[n][i].clock
      <3>. DEFINE op == op_log[n][i]
      <3>1. op \in Ops(n)
        BY DEF Ops
      <3>2. Stamp(op) \in Stamps
        BY <3>1 DEF Stamps, StampsOf
      <3>3. at(op.clock, op.origin_node) >= 1
        BY <3>2 DEF CausalInv, Stamp
      <3>. QED
        BY <3>3 DEF at
    <2>3. Sendable(FullDelta(n))
      BY <2>1, <2>2 DEF Sendable, FullDelta
    <2>4. FullDelta(n).operations = op_log[n]
      BY DEF FullDelta
    <2>. QED
      BY <2>3, <2>4, MessageReadBack
  <1>. QED
    BY <1>1, <1>2, <1>3, CausalInvariant, PTL DEF Spec

=============================================================================
