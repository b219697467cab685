----------------------------- MODULE OrderBook -----------------------------
(***************************************************************************)
(* The limit order book of one node (src/orderbook): the order table       *)
(* orders_, and the two ladders bids_ and asks_ of price levels, each a    *)
(* FIFO queue of orders with a cached total quantity.                      *)
(*                                                                         *)
(* Every public operation holds mutex_ for its whole body.  All but one    *)
(* are a single action here; match_market_order is its loop, one action    *)
(* per iteration, during which no other operation is enabled.              *)
(*                                                                         *)
(* A definition named x_slip is x with a plausible mistake in it.  Nothing *)
(* uses it: put in place of x, it shows that some property would notice.   *)
(***************************************************************************)
EXTENDS Integers, Sequences, FiniteSets, Functions

CONSTANTS OrderId,   \* order ids, as produced by generate_uuid
          Price,     \* prices, in ticks of 1/10000
          Quantity   \* order quantities clients submit

\* The client handler lets through positive prices and quantities only.
ASSUME PriceAssumption == Price \subseteq Nat \ {0}
ASSUME QuantityAssumption == Quantity \subseteq Nat \ {0}

VARIABLES orders,    \* orders_: order id -> Order
          levels,    \* levels["BUY"] is bids_, levels["SELL"] is asks_: price -> PriceLevel
          call,      \* match_market_order's arguments and locals, under mutex_
          fills,     \* its local vector of fills
          answer,    \* the last change of the book, if a market order, with its fills
          arrivals,  \* history: the order ids in the order they were inserted
          before     \* history: orders_ when the current match began

vars == <<orders, levels, call, fills, answer, arrivals, before>>

Side == {"BUY", "SELL"}

Opposite(side) == IF side = "BUY" THEN "SELL" ELSE "BUY"

\* end() of a ladder: no price is 0.
END == 0

\* call.side is the ladder being walked, not the aggressor's side.
Idle == [running |-> FALSE, side |-> "BUY", quantity |-> 0, remaining |-> 0, it |-> END]

NoAnswer == [side |-> "BUY", quantity |-> 0, fills |-> <<>>]

-----------------------------------------------------------------------------
(* Maps and queues.                                                        *)

Put(map, key, value) ==
    [k \in DOMAIN map \cup {key} |-> IF k = key THEN value ELSE map[k]]

Erase(map, key) == [k \in DOMAIN map \ {key} |-> map[k]]

\* std::deque::erase
EraseAt(queue, i) ==
    [j \in 1..(Len(queue) - 1) |-> IF j < i THEN queue[j] ELSE queue[j + 1]]

-----------------------------------------------------------------------------
(* Ladders.                                                                *)

\* bids_ runs from the highest price down, asks_ from the lowest up.
Better(side, p, q) == IF side = "BUY" THEN p > q ELSE p < q

\* The first price of a set in the ladder's order, END when there is none.
First(side, prices) ==
    IF prices = {} THEN END
    ELSE CHOOSE p \in prices : \A q \in prices \ {p} : Better(side, p, q)

\* The iterator that erase(it) returns is dropped.
NextPrice_slip(side, ladder, p) == END

\* ++it, and the iterator that erase(it) returns.
NextPrice(side, ladder, p) == First(side, {q \in DOMAIN ladder : Better(side, p, q)})

NewOrder(side, price, quantity) ==
    [side |-> side, price |-> price, quantity |-> quantity,
     remaining |-> quantity, is_cancelled |-> FALSE]

\* The order goes to the front of its queue.
Enqueue_slip(ladder, id, order) ==
    LET level == IF order.price \in DOMAIN ladder
                 THEN ladder[order.price]
                 ELSE [total_quantity |-> 0, orders |-> <<>>]
    IN  Put(ladder, order.price,
            [total_quantity |-> level.total_quantity + order.remaining,
             orders         |-> <<id>> \o level.orders])

\* level = ladder[price]; level.total_quantity += remaining; level.orders.push_back
Enqueue(ladder, id, order) ==
    LET level == IF order.price \in DOMAIN ladder
                 THEN ladder[order.price]
                 ELSE [total_quantity |-> 0, orders |-> <<>>]
    IN  Put(ladder, order.price,
            [total_quantity |-> level.total_quantity + order.remaining,
             orders         |-> Append(level.orders, id)])

\* The position std::find_if stops at, given that the queue holds the order.
Find(queue, id) ==
    CHOOSE i \in DOMAIN queue : queue[i] = id /\ \A j \in 1..(i - 1) : queue[j] # id

\* The cached total keeps the removed order's quantity.
remove_order_from_level_slip(ladder, id, price, remaining) ==
    IF price \notin DOMAIN ladder THEN ladder
    ELSE LET level == ladder[price]
             rest  == [level EXCEPT !.orders = EraseAt(@, Find(@, id))]
         IN  IF rest.orders = <<>> THEN Erase(ladder, price) ELSE Put(ladder, price, rest)

remove_order_from_level(ladder, id, price, remaining) ==
    IF price \notin DOMAIN ladder THEN ladder
    ELSE LET level == ladder[price]
             rest  == IF \E i \in DOMAIN level.orders : level.orders[i] = id
                      THEN [total_quantity |-> level.total_quantity - remaining,
                            orders |-> EraseAt(level.orders, Find(level.orders, id))]
                      ELSE level
         IN  IF rest.orders = <<>> THEN Erase(ladder, price) ELSE Put(ladder, price, rest)

-----------------------------------------------------------------------------
(* Queries.                                                                *)

has_order(id) == id \in DOMAIN orders

Live(id) == has_order(id) /\ ~orders[id].is_cancelled

get_all_orders == {id \in DOMAIN orders : ~orders[id].is_cancelled /\ orders[id].remaining > 0}

\* One level too many.
get_snapshot_slip(side, depth) ==
    {<<p, levels[side][p].total_quantity>> :
        p \in {q \in DOMAIN levels[side] :
                 Cardinality({r \in DOMAIN levels[side] : Better(side, r, q)}) <= depth}}

\* The first `depth` levels of a ladder, as the price and total clients see.
get_snapshot(side, depth) ==
    {<<p, levels[side][p].total_quantity>> :
        p \in {q \in DOMAIN levels[side] :
                 Cardinality({r \in DOMAIN levels[side] : Better(side, r, q)}) < depth}}

-----------------------------------------------------------------------------
(* Operations.                                                             *)

Init ==
    /\ orders = <<>>
    /\ levels = [side \in Side |-> <<>>]
    /\ call = Idle
    /\ fills = <<>>
    /\ answer = NoAnswer
    /\ arrivals = <<>>
    /\ before = <<>>

Insert(id, order) ==
    /\ orders' = Put(orders, id, order)
    /\ levels' = [levels EXCEPT ![order.side] = Enqueue(@, id, order)]
    /\ arrivals' = Append(arrivals, id)
    /\ answer' = NoAnswer
    /\ UNCHANGED <<call, fills, before>>

\* Called with a fresh uuid.
add_order(id, side, price, quantity) ==
    /\ ~call.running
    /\ ~has_order(id)
    /\ Insert(id, NewOrder(side, price, quantity))

\* The check for a known id is missing.
insert_replicated_order_slip(id, side, price, quantity) ==
    /\ ~call.running
    /\ Insert(id, NewOrder(side, price, quantity))

\* Called with whatever order a peer sent; a known id is ignored.
insert_replicated_order(id, side, price, quantity) ==
    /\ ~call.running
    /\ IF has_order(id) THEN UNCHANGED vars
       ELSE Insert(id, NewOrder(side, price, quantity))

Cancel(id) ==
    /\ orders' = [orders EXCEPT ![id].is_cancelled = TRUE]
    /\ levels' = [levels EXCEPT ![orders[id].side] =
                    remove_order_from_level(@, id, orders[id].price, orders[id].remaining)]
    /\ answer' = NoAnswer
    /\ UNCHANGED <<call, fills, arrivals, before>>

\* Returns false, changing nothing, for an unknown or cancelled order.
cancel_order(id) ==
    /\ ~call.running
    /\ IF ~has_order(id) \/ orders[id].is_cancelled THEN UNCHANGED vars ELSE Cancel(id)

\* A cancel that overtakes its order is dropped, not remembered.
apply_replicated_cancel(id) ==
    /\ ~call.running
    /\ IF Live(id) THEN Cancel(id) ELSE UNCHANGED vars

match_market_order(side, quantity) ==
    /\ ~call.running
    /\ call' = [running   |-> TRUE,
                side      |-> Opposite(side),
                quantity  |-> quantity,
                remaining |-> quantity,
                it        |-> First(Opposite(side), DOMAIN levels[Opposite(side)])]
    /\ fills' = <<>>
    /\ before' = orders
    /\ UNCHANGED <<orders, levels, answer, arrivals>>

\* The front order is filled beyond what it has remaining.
fill_qty_slip(order) == IF order.is_cancelled THEN 0 ELSE call.remaining

\* What the loop does with the front order: a cancelled one it would only skip,
\* a live one it fills as far as both quantities go.
fill_qty(order) ==
    IF order.is_cancelled THEN 0
    ELSE IF order.remaining < call.remaining THEN order.remaining ELSE call.remaining

\* An order that is used up stays at the front.
popped_slip(order) == order.is_cancelled

popped(order) == order.is_cancelled \/ order.remaining = fill_qty(order)

\* One iteration of the inner loop on the front order of the level the
\* iterator is at and, when that was the inner loop's last one, the code after
\* it that erases the level if it is empty and moves to the next.  No level is
\* empty between two iterations (IndexConsistent), so there is a front order.
match_iteration ==
    /\ call.running /\ call.it # END /\ call.remaining > 0
    /\ LET ladder == levels[call.side]
           level  == ladder[call.it]
           id     == Head(level.orders)
           order  == orders[id]
           qty    == fill_qty(order)
           queue  == IF popped(order) THEN Tail(level.orders) ELSE level.orders
       IN  /\ orders' = [orders EXCEPT ![id].remaining = @ - qty,
                                       ![id].is_cancelled = popped(order)]
           /\ levels' = [levels EXCEPT ![call.side] =
                           IF queue = <<>> THEN Erase(@, call.it)
                           ELSE Put(@, call.it, [total_quantity |-> level.total_quantity - qty,
                                                 orders |-> queue])]
           /\ fills' = IF order.is_cancelled THEN fills
                       ELSE Append(fills, [order_id |-> id, price |-> order.price,
                                           quantity |-> qty])
           /\ call' = [call EXCEPT !.remaining = @ - qty,
                                   !.it = IF queue = <<>> \/ call.remaining = qty
                                          THEN NextPrice(call.side, ladder, @) ELSE @]
    /\ UNCHANGED <<answer, arrivals, before>>

match_return ==
    /\ call.running
    /\ call.it = END \/ call.remaining = 0
    /\ answer' = [side |-> Opposite(call.side), quantity |-> call.quantity, fills |-> fills]
    /\ call' = Idle
    /\ fills' = <<>>
    /\ before' = <<>>
    /\ UNCHANGED <<orders, levels, arrivals>>

Next ==
    \/ \E id \in OrderId, side \in Side, price \in Price, quantity \in Quantity :
          \/ add_order(id, side, price, quantity)
          \/ insert_replicated_order(id, side, price, quantity)
    \/ \E id \in OrderId : cancel_order(id) \/ apply_replicated_cancel(id)
    \/ \E side \in Side, quantity \in Quantity : match_market_order(side, quantity)
    \/ match_iteration
    \/ match_return

Spec == Init /\ [][Next]_vars

-----------------------------------------------------------------------------
(* Properties.                                                             *)

Order == [side : Side, price : Price, quantity : Quantity, remaining : Nat,
          is_cancelled : BOOLEAN]

PriceLevel == [total_quantity : Int, orders : Seq(OrderId)]

Fill == [order_id : OrderId, price : Price, quantity : Nat]

\* The type invariant.  Also: no order has more remaining than its quantity.
TypeOK ==
    /\ DOMAIN orders \subseteq OrderId
    /\ orders \in [DOMAIN orders -> Order]
    /\ \A id \in DOMAIN orders : orders[id].remaining <= orders[id].quantity
    /\ DOMAIN levels = Side
    /\ \A side \in Side : /\ DOMAIN levels[side] \subseteq Price
                          /\ levels[side] \in [DOMAIN levels[side] -> PriceLevel]
    /\ call \in [running : BOOLEAN, side : Side, quantity : Nat, remaining : Nat,
                 it : Price \cup {END}]
    /\ fills \in Seq(Fill)
    /\ answer \in [side : Side, quantity : Nat, fills : Seq(Fill)]
    /\ arrivals \in Seq(OrderId)

Queue(side, price) == levels[side][price].orders

\* Everything in a queue is a live order of that side and price, once.
QueuesHoldLiveOrders ==
    \A side \in Side : \A price \in DOMAIN levels[side] :
        /\ Queue(side, price) # <<>>
        /\ \A i \in 1..Len(Queue(side, price)) :
              LET id == Queue(side, price)[i]
              IN  /\ Live(id)
                  /\ orders[id].side = side
                  /\ orders[id].price = price
                  /\ orders[id].remaining > 0
                  /\ \A j \in 1..Len(Queue(side, price)) :
                        Queue(side, price)[j] = id => j = i

\* Every live order is in the queue of its side and price.
LiveOrdersAreQueued ==
    \A id \in DOMAIN orders : Live(id) =>
        /\ orders[id].price \in DOMAIN levels[orders[id].side]
        /\ \E i \in 1..Len(Queue(orders[id].side, orders[id].price)) :
              Queue(orders[id].side, orders[id].price)[i] = id

\* The order table and the two ladders describe the same set of live orders at
\* every step, inside a match too: remove_order_from_level always finds what it
\* looks for, no Order* in a queue is stale, and the branch of the match loop
\* that skips "cancelled orders that haven't been cleaned up"
\* (orderbook.cpp:57-61) is never taken.
IndexConsistent == QueuesHoldLiveOrders /\ LiveOrdersAreQueued

\* The total_quantity a level caches, adjusted by += and -= in four places, is
\* the sum of what its orders have remaining.
TotalsExact ==
    \A side \in Side : \A price \in DOMAIN levels[side] :
        levels[side][price].total_quantity =
            SumFunctionOnSet([id \in DOMAIN orders |-> orders[id].remaining],
                             Range(Queue(side, price)))

Arrived(id) == CHOOSE i \in 1..Len(arrivals) : arrivals[i] = id

\* y may not trade while x, on the same side of the book, is live.
HasPriority(x, y) ==
    \/ Better(orders[x].side, orders[x].price, orders[y].price)
    \/ orders[x].price = orders[y].price /\ Arrived(x) < Arrived(y)

Trade ==
    LET hit == fills'[Len(fills')].order_id
    IN  /\ Live(hit)
        /\ \A x \in DOMAIN orders :
              Live(x) /\ orders[x].side = orders[hit].side => ~HasPriority(x, hit)

\* Price-time priority: each fill of a market order goes to a live order that no
\* other live order of its side precedes in price or, at one price, in arrival,
\* however cancels, replicated orders and partial fills have reshaped the queues.
FillsRespectPriority == [][Len(fills') > Len(fills) => Trade]_vars

\* An order that has left the book, cancelled or filled, never trades or rests
\* again, and a resting one only shrinks; a replicated copy of it changes nothing.
OrdersNeverComeBack ==
    [][\A id \in DOMAIN orders :
          /\ id \in DOMAIN orders'
          /\ orders'[id].remaining <= orders[id].remaining
          /\ ~Live(id) => orders'[id] = orders[id]]_vars

-----------------------------------------------------------------------------
(* What the book promises.  While a market order is being matched mutex_ is *)
(* held, so clients still see the book as it was before; the whole match    *)
(* takes effect when it returns.                                            *)

Table == IF call.running THEN before ELSE orders

LiveIn(table) == {id \in DOMAIN table : ~table[id].is_cancelled}

BookValue ==
    [known   |-> DOMAIN Table,
     resting |-> [id \in LiveIn(Table) |->
                    [side |-> Table[id].side, price |-> Table[id].price,
                     quantity |-> Table[id].quantity, remaining |-> Table[id].remaining,
                     time |-> Arrived(id)]]]

Promise == INSTANCE PriceTimePriority
           WITH book <- BookValue

\* Every call of the book's interface, the whole match loop included, has the
\* effect and the fills that price-time priority gives it.
ImplementsPriceTimePriority == Promise!Spec

\* What a client reads from get_snapshot is the best levels of each side with
\* the quantity resting there: a truncated snapshot drops the worst levels.
SnapshotShowsTheBook ==
    ~call.running => \A side \in Side, depth \in 0..Cardinality(Price) :
        LET best == {p \in Promise!Prices(BookValue, side) :
                       Cardinality({r \in Promise!Prices(BookValue, side) :
                                      Promise!Better(side, r, p)}) < depth}
        IN  get_snapshot(side, depth) =
               {<<p, Promise!Total(BookValue, side, p)>> : p \in best}

=============================================================================
