---------------------------- MODULE VectorClock ----------------------------
(***************************************************************************)
(* The vector clocks of src/crdt: maps from node ids to counters in which  *)
(* a missing key counts as 0.  A node's own clock holds its own key from   *)
(* the start, at 0; two maps can therefore count the same and still differ *)
(* as maps, which is how get_operations_since compares them.               *)
(***************************************************************************)
EXTENDS Integers

IsClock(c, Node) == DOMAIN c \subseteq Node /\ c \in [DOMAIN c -> Nat]

\* VectorClock(node_id)
new_clock(node) == [k \in {node} |-> 0]

at(c, k) == IF k \in DOMAIN c THEN c[k] ELSE 0

tick(c, node) == [k \in DOMAIN c \cup {node} |-> IF k = node THEN at(c, k) + 1 ELSE c[k]]

\* The merge forgets the entries only the other clock has.
merge_slip(c, d) ==
    [k \in DOMAIN c |-> IF at(c, k) >= at(d, k) THEN at(c, k) ELSE at(d, k)]

merge(c, d) ==
    [k \in DOMAIN c \cup DOMAIN d |-> IF at(c, k) >= at(d, k) THEN at(c, k) ELSE at(d, k)]

\* A key the other clock lacks is skipped instead of counting as 0.
happens_before_slip(c, d) ==
    /\ \A k \in DOMAIN c : k \in DOMAIN d => c[k] <= d[k]
    /\ \/ \E k \in DOMAIN c : k \in DOMAIN d /\ c[k] < d[k]
       \/ \E k \in DOMAIN d \ DOMAIN c : d[k] > 0

happens_before(c, d) ==
    /\ \A k \in DOMAIN c : c[k] <= at(d, k)
    /\ \/ \E k \in DOMAIN c : c[k] < at(d, k)
       \/ \E k \in DOMAIN d \ DOMAIN c : d[k] > 0

is_concurrent(c, d) == ~happens_before(c, d) /\ ~happens_before(d, c)

\* Counting the same or less at every node, whatever keys are stored.
Dominates(d, c) == \A k \in DOMAIN c : c[k] <= at(d, k)

=============================================================================
