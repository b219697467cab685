-------------------------- MODULE MCCRDTOrderBook --------------------------
(* CRDTOrderBook, and the format of its operations, on small instances.    *)
EXTENDS MessageCodec, TLC

Symmetry == Permutations(Node)

\* Bounds on the clients: they act three times in all, markets included, and buy at
\* the one price that can lose a tick twice.
FewActs == FoldFunction(+, 0, [n \in Node |-> at(clock[n], n)]) <= 3

OnlyTopBids ==
    \A n \in Node : \A op \in Ops(n) :
        op.type = "ADD_ORDER" /\ op.origin_node = n => op.order.side = "BUY" /\ op.order.price = 3

=============================================================================
