---------------------------- MODULE CRDTRestart ----------------------------
(***************************************************************************)
(* The replicated order book with nodes that stop and start again.         *)
(* Nothing is persisted: main constructs a CRDTOrderBook with an empty     *)
(* book, log and clock under the node id of the configuration, which is    *)
(* the one it had before.  Datagrams the process has sent are still under  *)
(* way, and those it has not sent never will be.                           *)
(***************************************************************************)
EXTENDS CRDTOrderBook

CONSTANT MaxRestarts  \* bound: restarts of all nodes together

VARIABLES restarts,   \* how many there were
          recovering, \* the nodes that have started again
          afloat      \* the operations of logs a node has lost that its datagrams still carry

restart_vars == <<restarts, recovering, afloat>>

RestartInit == Init /\ restarts = 0 /\ recovering = {} /\ afloat = [n \in Node |-> {}]

\* The process ends, and main runs again.  The uuids it gave out are not reused.
restart(n) ==
    /\ restarts < MaxRestarts
    /\ book' = [book EXCEPT ![n] = NewBook]
    /\ clock' = [clock EXCEPT ![n] = new_clock(n)]
    /\ op_log' = [op_log EXCEPT ![n] = <<>>]
    /\ seen_ops' = [seen_ops EXCEPT ![n] = {}]
    /\ restarts' = restarts + 1
    /\ recovering' = recovering \cup {n}
    /\ \E sent \in SUBSET Ops(n) : afloat' = [afloat EXCEPT ![n] = @ \cup sent]
    /\ UNCHANGED issued

\* A datagram from before m's end arrives; it may arrive again.
Arrives(m, n) ==
    /\ \E op \in afloat[m] : apply_remote_operation(n, OnWire(op))
    /\ UNCHANGED restart_vars

\* The last datagram with this operation of m is gone.
Lost(m) ==
    /\ \E op \in afloat[m] : afloat' = [afloat EXCEPT ![m] = @ \ {op}]
    /\ UNCHANGED <<vars, restarts, recovering>>

RestartNext ==
    \/ Next /\ UNCHANGED restart_vars
    \/ \E n \in Node : restart(n) \/ Lost(n)
    \/ \E m \in Node : \E n \in Node \ {m} : Arrives(m, n)

RestartSpec == RestartInit /\ [][RestartNext]_<<vars, restart_vars>>

-----------------------------------------------------------------------------

\* README.md:79, "the recovering node requests the full operation delta from its
\* neighbors": the delta that answers it (get_operations_since) has every operation
\* of the neighbour that it lacks, for as long as it has applied them without gaps.
DeltaIsFull ==
    \A m \in recovering, n \in Node : CausallyClosed(m) =>
        \A op \in Ops(n) : op.op_id \notin seen_ops[m] => Missing(op, clock[m])

\* n counts every tick of its own that anything there is counts.
CaughtUp(n) ==
    \A m \in Node : \A op \in Ops(m) \cup afloat[m] : at(op.clock, n) <= at(clock[n], n)

\* No node trades before it has caught up with itself.
TradesCaughtUp == \A n \in Node : LocalOperation(n) => CaughtUp(n)

=============================================================================
