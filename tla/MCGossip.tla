------------------------------ MODULE MCGossip ------------------------------
(* Gossip on small instances.                                              *)
EXTENDS Gossip, TLC

Symmetry == Permutations(Node)

\* Bounds on the clients: they only buy, or act a few times.
OnlyBids == \A n \in Node : \A op \in Ops(n) : op.type = "ADD_ORDER" => op.order.side = "BUY"

FewActs == FoldFunction(+, 0, [n \in Node |-> at(clock[n], n)]) <= MaxOps

\* Some operation has yet to be issued or to arrive somewhere. Afterwards no node
\* applies anything, so no property of the order of arrival can break.
Unsettled == issued < MaxOps \/ \E n \in Node : Len(op_log[n]) < issued

\* One node at a time takes the other for dead.
OneSuspects == Cardinality({n \in Node : alive[n] # Peers(n)}) <= 1

\* One gossip thread at a time is between the clock and the log.
OneRound == Cardinality({n \in Node : round[n] # <<>>}) <= 1

\* Clients of one node trade; which one is a matter of symmetry.
OneTrader == Cardinality({n \in Node : at(clock[n], n) > 0}) <= 1

\* Every message revives its sender, as a heartbeat does.
NoHeartbeats == \A m \in network : m.type # "HEARTBEAT"

=============================================================================
