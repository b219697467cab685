--------------------------- MODULE CRDTOrderBook ---------------------------
(***************************************************************************)
(* The replicated order book (src/crdt): every node keeps an order book, a *)
(* vector clock, the log of operations it has issued or applied, and the   *)
(* ids of those operations.                                                *)
(*                                                                         *)
(* The network is any at all: a node may apply an operation from another   *)
(* node's log at any time, in any order, any number of times, or never.    *)
(* Logs only grow, so this includes every message that could be in flight. *)
(*                                                                         *)
(* Each public method holds mutex_ for its whole body and is one action.   *)
(* The book is a LimitBook value; OrderBook implements its operations.     *)
(*                                                                         *)
(* A definition named x_slip is x with a plausible mistake in it, to be    *)
(* put in place of x.                                                      *)
(***************************************************************************)
EXTENDS LimitBook, VectorClock, Sequences, Functions

CONSTANTS Node,       \* node ids
          Price,      \* prices, in ticks of 1/10000
          Lossy,      \* the prices whose v * 10000.0 rounds to just below a whole tick
          Quantity,   \* quantities of limit orders
          MarketQuantity, \* quantities of market orders
          MaxOps,     \* bound: operations issued by all nodes together
          MaxClock    \* bound: a node's count of its own operations

ASSUME NodeAssumption == IsFiniteSet(Node)
ASSUME PriceAssumption == Price \subseteq Nat \ {0}
ASSUME LossyAssumption == Lossy \subseteq Price /\ \A p \in Lossy : p - 1 \in Price
ASSUME QuantityAssumption == Quantity \subseteq Nat \ {0} /\ MarketQuantity \subseteq Nat \ {0}
ASSUME BoundAssumption == MaxOps \in Nat /\ MaxClock \in Nat

VARIABLES book,      \* book_
          clock,     \* clock_
          op_log,    \* op_log_
          seen_ops,  \* seen_ops_
          issued     \* the ids generate_uuid has given out are 1..issued

vars == <<book, clock, op_log, seen_ops, issued>>

-----------------------------------------------------------------------------

Init ==
    /\ book = [n \in Node |-> NewBook]
    /\ clock = [n \in Node |-> new_clock(n)]
    /\ op_log = [n \in Node |-> <<>>]
    /\ seen_ops = [n \in Node |-> {}]
    /\ issued = 0

MayTick(n) == at(clock[n], n) < MaxClock

\* One uuid names the order and the operation that adds it.
AddOp(n, id, side, price, quantity, c) ==
    [type |-> "ADD_ORDER",
     order |-> [order_id |-> id, side |-> side, price |-> price, quantity |-> quantity],
     origin_node |-> n, clock |-> c, op_id |-> id]

\* The operation is given no id of its own.
CancelOp_slip(n, id, op_id, c) ==
    [type |-> "CANCEL_ORDER", cancel_order_id |-> id, origin_node |-> n, clock |-> c, op_id |-> 0]

CancelOp(n, id, op_id, c) ==
    [type |-> "CANCEL_ORDER", cancel_order_id |-> id,
     origin_node |-> n, clock |-> c, op_id |-> op_id]

\* op_log_.push_back(op); seen_ops_.insert(op.op_id)
Record(n, op) ==
    /\ op_log' = [op_log EXCEPT ![n] = Append(@, op)]
    /\ seen_ops' = [seen_ops EXCEPT ![n] = @ \cup {op.op_id}]

\* The operation carries the clock from before the tick.
local_add_order_slip(n, side, price, quantity) ==
    /\ MayTick(n) /\ issued < MaxOps
    /\ LET id == issued + 1
       IN  /\ clock' = [clock EXCEPT ![n] = tick(@, n)]
           /\ book' = [book EXCEPT ![n] = Rest(@, id, side, price, quantity)]
           /\ Record(n, AddOp(n, id, side, price, quantity, clock[n]))
           /\ issued' = id

local_add_order(n, side, price, quantity) ==
    /\ MayTick(n) /\ issued < MaxOps
    /\ LET id == issued + 1
           c  == tick(clock[n], n)
       IN  /\ clock' = [clock EXCEPT ![n] = c]
           /\ book' = [book EXCEPT ![n] = Rest(@, id, side, price, quantity)]
           /\ Record(n, AddOp(n, id, side, price, quantity, c))
           /\ issued' = id

\* A cancel of an order that is already gone still ticks the clock.
local_cancel_order(n, id) ==
    IF ~has_order(book[n], id) THEN UNCHANGED vars
    ELSE /\ MayTick(n) /\ issued < MaxOps
         /\ clock' = [clock EXCEPT ![n] = tick(@, n)]
         /\ IF id \notin Resting(book[n]) THEN UNCHANGED <<book, op_log, seen_ops, issued>>
            ELSE /\ book' = [book EXCEPT ![n] = Withdraw(@, id)]
                 /\ Record(n, CancelOp(n, id, issued + 1, tick(clock[n], n)))
                 /\ issued' = issued + 1

\* The loop over the fills, which come by priority, publishes a cancel for each filled
\* order that the book no longer has.  The book forgets no order, so there is none.
local_market_order(n, side, quantity) ==
    /\ MayTick(n)
    /\ LET c     == tick(clock[n], n)
           after == Execute(book[n], side, quantity)
           gone  == {id \in Hit(book[n], side, quantity) : ~has_order(after, id)}
           count == Cardinality(gone)
       IN  /\ clock' = [clock EXCEPT ![n] = c]
           /\ book' = [book EXCEPT ![n] = after]
           /\ op_log' = [op_log EXCEPT ![n] = @ \o
                [i \in 1..count |-> CancelOp(n, ByPriority(book[n], gone)[i], issued + i, c)]]
           /\ seen_ops' = [seen_ops EXCEPT ![n] = @ \cup (issued + 1)..(issued + count)]
           /\ issued' = issued + count

\* A replicated cancel leaves the order in the book.
Apply_slip(b, op) ==
    IF op.type = "ADD_ORDER"
    THEN RestReplicated(b, op.order.order_id, op.order.side, op.order.price, op.order.quantity)
    ELSE b

\* What the operation does to a book.
Apply(b, op) ==
    IF op.type = "ADD_ORDER"
    THEN RestReplicated(b, op.order.order_id, op.order.side, op.order.price, op.order.quantity)
    ELSE Withdraw(b, op.cancel_order_id)

\* A duplicate is logged again.
apply_remote_operation_slip(n, op) ==
    /\ clock' = [clock EXCEPT ![n] = merge(@, op.clock)]
    /\ book' = [book EXCEPT ![n] = Apply(@, op)]
    /\ Record(n, op)
    /\ UNCHANGED issued

apply_remote_operation(n, op) ==
    IF op.op_id \in seen_ops[n] THEN UNCHANGED vars
    ELSE /\ clock' = [clock EXCEPT ![n] = merge(@, op.clock)]
         /\ book' = [book EXCEPT ![n] = Apply(@, op)]
         /\ Record(n, op)
         /\ UNCHANGED issued

-----------------------------------------------------------------------------
(* The wire.                                                               *)

\* Each node on the way takes a tick off every price.
Rewire_slip(price) == price - 2

\* write_double truncates price * 10000.0 to an integer and read_double divides
\* it by 10000.0 again.
Rewire(price) == IF price \in Lossy THEN price - 1 ELSE price

\* The operation as its receiver reads it.
OnWire(op) == IF op.type = "ADD_ORDER" THEN [op EXCEPT !.order.price = Rewire(@)] ELSE op

Deliver(m, n) == \E i \in DOMAIN op_log[m] : apply_remote_operation(n, OnWire(op_log[m][i]))

\* Operations that are merely concurrent with the peer's clock are left out.
Missing_slip(op, peer_clock) == happens_before(peer_clock, op.clock)

Missing(op, peer_clock) == ~happens_before(op.clock, peer_clock) /\ op.clock # peer_clock

\* The entries of a sequence at these positions, in their order.
Entries(s, positions) ==
    LET rank(p) == Cardinality({q \in positions : q <= p})
    IN  [i \in 1..Cardinality(positions) |-> s[CHOOSE p \in positions : rank(p) = i]]

get_operations_since(n, peer_clock) ==
    Entries(op_log[n], {i \in DOMAIN op_log[n] : Missing(op_log[n][i], peer_clock)})

-----------------------------------------------------------------------------

\* A client of n trades.
LocalOperation(n) ==
    \/ \E side \in Side, price \in Price, quantity \in Quantity :
          local_add_order(n, side, price, quantity)
    \/ \E id \in 1..MaxOps : local_cancel_order(n, id)
    \/ \E side \in Side, quantity \in MarketQuantity : local_market_order(n, side, quantity)

Next == \E n \in Node : LocalOperation(n) \/ \E m \in Node \ {n} : Deliver(m, n)

Spec == Init /\ [][Next]_vars

-----------------------------------------------------------------------------
(* Properties.                                                             *)

LimitOrder == [order_id : Nat, side : Side, price : Price, quantity : Quantity]

IsOperation(op) ==
    /\ op.origin_node \in Node /\ IsClock(op.clock, Node) /\ op.op_id \in 1..issued
    /\ \/ op.type = "ADD_ORDER" /\ op.order \in LimitOrder
       \/ op.type = "CANCEL_ORDER" /\ op.cancel_order_id \in 1..issued

\* The type invariant.
TypeOK ==
    /\ DOMAIN book = Node
    /\ DOMAIN clock = Node /\ \A n \in Node : IsClock(clock[n], Node)
    /\ DOMAIN op_log = Node /\ \A n \in Node : \A i \in DOMAIN op_log[n] : IsOperation(op_log[n][i])
    /\ seen_ops \in [Node -> SUBSET (1..issued)]
    /\ issued \in Nat
    /\ \A n \in Node : Resting(book[n]) \subseteq book[n].known /\ book[n].known \subseteq 1..issued

Ops(n) == {op_log[n][i] : i \in DOMAIN op_log[n]}

\* Replication is idempotent: seen_ops_ is exactly the ids in the log, and no
\* operation is in the log, or was applied to the book, twice.
NoOperationTwice ==
    \A n \in Node :
        /\ seen_ops[n] = {op.op_id : op \in Ops(n)}
        /\ \A i, j \in DOMAIN op_log[n] : op_log[n][i].op_id = op_log[n][j].op_id => i = j

\* Vector clocks measure causality although operations arrive in any order and
\* some never do: a clock, of a node or of an operation, that counts the a-th
\* operation of a node also counts everything that operation came after, and no
\* node counts more of another's operations than that one has made.
ClocksMeasureCausality ==
    /\ \A n, m \in Node : at(clock[n], m) <= at(clock[m], m)
    /\ \A m \in Node : \A a \in Ops(m) :
          LET counts(c) == at(c, a.origin_node) >= at(a.clock, a.origin_node)
          IN  /\ \A n \in Node : counts(clock[n]) => Dominates(clock[n], a.clock)
              /\ \A n \in Node : \A b \in Ops(n) : counts(b.clock) => Dominates(b.clock, a.clock)

\* n has every operation that happened before one it has.
CausallyClosed(n) ==
    \A a \in Ops(n) : \A m \in Node : \A b \in Ops(m) :
        happens_before(b.clock, a.clock) => b.op_id \in seen_ops[n]

\* Anti-entropy answers a node that has no causal gap with everything it lacks:
\* get_operations_since sends the operations that are Missing.
AntiEntropyComplete ==
    \A n, m \in Node : CausallyClosed(m) =>
        \A op \in Ops(n) : op.op_id \notin seen_ops[m] => Missing(op, clock[m])

\* An order whose add and cancel a node has applied in this order is gone for
\* good, and every order it holds or held came with an add in its log.
BookFollowsLog ==
    \A n \in Node :
        /\ book[n].known = {op.order.order_id : op \in {o \in Ops(n) : o.type = "ADD_ORDER"}}
        /\ \A i, j \in DOMAIN op_log[n] :
              /\ i < j
              /\ op_log[n][i].type = "ADD_ORDER" /\ op_log[n][j].type = "CANCEL_ORDER"
              /\ op_log[n][i].order.order_id = op_log[n][j].cancel_order_id
              => op_log[n][j].cancel_order_id \notin Resting(book[n])

\* n applied every operation after those that happened before it.
AppliedInCausalOrder(n) ==
    \A i \in DOMAIN op_log[n] : \A m \in Node : \A b \in Ops(m) :
        happens_before(b.clock, op_log[n][i].clock) =>
            \E j \in 1..(i - 1) : op_log[n][j].op_id = b.op_id

\* Every tick of n's clock stands for an operation in its log: n has executed no
\* market order, and no cancel of an order that was gone.
PublishedAll(n) ==
    at(clock[n], n) = Cardinality({op \in Ops(n) : op.origin_node = n})

\* The same orders, with as much left of each, at prices the wire can have set apart.
SameOrders(b, d) ==
    /\ Resting(b) = Resting(d)
    /\ \A id \in Resting(b) :
          /\ b.resting[id].side = d.resting[id].side
          /\ b.resting[id].remaining = d.resting[id].remaining
          /\ b.resting[id].price - d.resting[id].price \in
                (1 - Cardinality(Node))..(Cardinality(Node) - 1)

\* Two nodes that have applied operations of the same ids, each in some causal order,
\* and published all they did, hold the same orders; and they show the same levels and
\* totals, unless the wire has given them different prices.
CausalNodesAgree ==
    \A n, m \in Node :
        /\ seen_ops[n] = seen_ops[m]
        /\ AppliedInCausalOrder(n) /\ AppliedInCausalOrder(m)
        /\ PublishedAll(n) /\ PublishedAll(m)
        => /\ SameOrders(book[n], book[m])
           /\ Ops(n) = Ops(m) => Depth(book[n]) = Depth(book[m])

\* A node takes an order once, from a node that has it, so the ticks the wire takes
\* off a price do not add up beyond the number of nodes it can have passed through.
PriceDriftBounded ==
    \A n, m \in Node : \A a \in Ops(n), b \in Ops(m) :
        a.type = "ADD_ORDER" /\ a.op_id = b.op_id /\ a.origin_node = n =>
            b.order.price \in (a.order.price - Cardinality(Node) + 1)..a.order.price

=============================================================================
