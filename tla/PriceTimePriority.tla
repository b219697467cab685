------------------------- MODULE PriceTimePriority -------------------------
(***************************************************************************)
(* What clients of one node's order book rely on: each operation takes     *)
(* effect at once, and a market order's fills are the ones price-time      *)
(* priority gives.  There are no levels, no queues and no cached totals.   *)
(* An order or a cancel that has no effect is a stuttering step.           *)
(***************************************************************************)
EXTENDS LimitBook

CONSTANTS OrderId, Price, Quantity

VARIABLES book,   \* a LimitBook value
          answer  \* the last change of the book, if a market order, with its fills

NoAnswer == [side |-> "BUY", quantity |-> 0, fills |-> <<>>]

Init ==
    /\ book = NewBook
    /\ answer = NoAnswer

Limit(id, side, price, quantity) ==
    /\ ~has_order(book, id)
    /\ book' = Rest(book, id, side, price, quantity)
    /\ answer' = NoAnswer

Cancel(id) ==
    /\ id \in Resting(book)
    /\ book' = Withdraw(book, id)
    /\ answer' = NoAnswer

Market(side, quantity) ==
    /\ answer' = [side |-> side, quantity |-> quantity,
                  fills |-> Fills(book, side, quantity)]
    /\ book' = Execute(book, side, quantity)

Next ==
    \/ \E id \in OrderId, side \in Side, price \in Price, quantity \in Quantity :
          Limit(id, side, price, quantity)
    \/ \E id \in OrderId : Cancel(id)
    \/ \E side \in Side, quantity \in Quantity : Market(side, quantity)

Spec == Init /\ [][Next]_<<book, answer>>

=============================================================================
