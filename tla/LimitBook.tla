----------------------------- MODULE LimitBook -----------------------------
(***************************************************************************)
(* What a limit order book promises, without price levels, queues or       *)
(* cached totals.  A book value records which order ids it has ever been   *)
(* given (known) and the orders still resting in it; a resting order       *)
(* carries the position at which it arrived (time).                        *)
(*                                                                         *)
(* OrderBook is the C++ data structure and is shown to implement this.     *)
(* CRDTOrderBook and Gossip keep one such value per node.                  *)
(***************************************************************************)
EXTENDS Integers, FiniteSets, FiniteSetsExt, Functions

Side == {"BUY", "SELL"}

Opposite(side) == IF side = "BUY" THEN "SELL" ELSE "BUY"

\* std::greater<double> orders bids_, std::less<double> orders asks_.
Better(side, p, q) == IF side = "BUY" THEN p > q ELSE p < q

NewBook == [known |-> {}, resting |-> [id \in {} |-> id]]

has_order(b, id) == id \in b.known

Resting(b) == DOMAIN b.resting

\* An accepted order joins the back of the book.
Rest(b, id, side, price, quantity) ==
    [known   |-> b.known \cup {id},
     resting |-> [x \in Resting(b) \cup {id} |->
                    IF x = id
                    THEN [side |-> side, price |-> price, quantity |-> quantity,
                          remaining |-> quantity, time |-> Cardinality(b.known) + 1]
                    ELSE b.resting[x]]]

\* A replicated order is ignored when its id is already known, resting or not.
RestReplicated(b, id, side, price, quantity) ==
    IF has_order(b, id) THEN b ELSE Rest(b, id, side, price, quantity)

\* Cancelling an unknown or finished order changes nothing.
Withdraw(b, id) == [b EXCEPT !.resting = Restrict(@, DOMAIN @ \ {id})]

-----------------------------------------------------------------------------
(* Market orders: price-time priority.                                     *)

Precedes(b, x, y) ==
    LET ox == b.resting[x]
        oy == b.resting[y]
    IN  \/ Better(ox.side, ox.price, oy.price)
        \/ ox.price = oy.price /\ ox.time < oy.time

\* The orders a market order of this side trades against.
Counter(b, side) == {id \in Resting(b) : b.resting[id].side = Opposite(side)}

Ahead(b, side, id) ==
    LET prior == {x \in Counter(b, side) : Precedes(b, x, id)}
    IN  SumFunction([x \in prior |-> b.resting[x].remaining])

\* Each order receives what those with priority over it have left, up to its
\* own remaining quantity.
Filled(b, side, quantity, id) ==
    Max({0, Min({b.resting[id].remaining, quantity - Ahead(b, side, id)})})

Hit(b, side, quantity) ==
    {id \in Counter(b, side) : Filled(b, side, quantity, id) > 0}

\* These orders, the one with the highest priority first.
ByPriority(b, ids) ==
    [i \in 1..Cardinality(ids) |->
        CHOOSE x \in ids : Cardinality({y \in ids : Precedes(b, y, x)}) = i - 1]

Fills(b, side, quantity) ==
    [i \in 1..Cardinality(Hit(b, side, quantity)) |->
        LET id == ByPriority(b, Hit(b, side, quantity))[i]
        IN  [order_id |-> id, price |-> b.resting[id].price,
             quantity |-> Filled(b, side, quantity, id)]]

Exhausted(b, side, quantity) ==
    {id \in Hit(b, side, quantity) :
        Filled(b, side, quantity, id) = b.resting[id].remaining}

Execute(b, side, quantity) ==
    [b EXCEPT !.resting =
        [id \in Resting(b) \ Exhausted(b, side, quantity) |->
            IF id \in Hit(b, side, quantity)
            THEN [b.resting[id] EXCEPT !.remaining = @ - Filled(b, side, quantity, id)]
            ELSE b.resting[id]]]

-----------------------------------------------------------------------------
(* What clients can see: price levels and their total quantity.            *)

Prices(b, side) == {b.resting[id].price : id \in {x \in Resting(b) : b.resting[x].side = side}}

Total(b, side, price) ==
    LET level == {id \in Resting(b) : b.resting[id].side = side /\ b.resting[id].price = price}
    IN  SumFunction([id \in level |-> b.resting[id].remaining])

Depth(b) ==
    [side \in Side |-> {<<p, Total(b, side, p)>> : p \in Prices(b, side)}]

=============================================================================
