-------------------------- MODULE WythoffScheduler --------------------------
(***************************************************************************)
(* The Wythoff schedule (wythoff_scheduler in src/gossip), as one node's   *)
(* gossip thread goes through it: round after round it computes a pair of  *)
(* nodes and a mode, and acts if it is the sender of the pair.             *)
(*                                                                         *)
(* The code multiplies by the golden ratio in doubles.  Here PHI is a      *)
(* quotient of Fibonacci numbers, with which every floor and ceiling below *)
(* is that of the irrational number for rounds below the denominator.      *)
(* Doubles agree with it far longer; round 102334155 is one at which they  *)
(* no longer do.                                                           *)
(***************************************************************************)
EXTENDS Integers, FiniteSets

CONSTANTS NumNodes,   \* the sizes of cluster to look at
          MaxRound,   \* bound: rounds
          MaxLaps,    \* the longest wait for a pair and mode, in laps of one round per pair
          MaxSpread   \* how far the number of visits of a pair may be from the mean

PHI_NUM == 17711
PHI_DEN == 10946

ASSUME RoundAssumption == MaxRound \in Nat /\ MaxRound < PHI_DEN
ASSUME NumNodesAssumption == NumNodes \subseteq 2..46
ASSUME LimitAssumption == MaxLaps \in Nat /\ MaxSpread \in Nat

VARIABLES num_nodes,  \* num_nodes_
          round,      \* round_
          pulled,     \* the last round in which the sender pulled, for every pair
          pushed,     \* the same for pushes
          coverage    \* coverage_matrix(round)

vars == <<num_nodes, round, pulled, pushed, coverage>>

-----------------------------------------------------------------------------

\* The ratio has lost its digits.
FloorPhi_slip(n) == (n * 3) \div 2

\* floor(n * PHI)
FloorPhi(n) == (n * PHI_NUM) \div PHI_DEN

\* ceil(n * INV_PHI)
CeilOverPhi(n) == (n * PHI_DEN + PHI_NUM - 1) \div PHI_NUM

NumPairs == num_nodes * (num_nodes - 1)

\* The receiver that is the sender itself is not skipped.
get_pair_slip(r) ==
    LET pair_idx == FloorPhi(r) % NumPairs
        receiver == pair_idx % (num_nodes - 1)
        sender   == pair_idx \div (num_nodes - 1)
    IN  [sender |-> sender, receiver |-> IF receiver > sender THEN receiver + 1 ELSE receiver]

get_pair(r) ==
    LET pair_idx == FloorPhi(r) % NumPairs
        receiver == pair_idx % (num_nodes - 1)
        sender   == pair_idx \div (num_nodes - 1)
    IN  [sender |-> sender, receiver |-> IF receiver >= sender THEN receiver + 1 ELSE receiver]

\* The candidate is rounded down.
is_in_beatty_phi_slip(n) == FloorPhi((n * PHI_DEN) \div PHI_NUM) = n

\* Whether n is floor(k * PHI) for some k: the only candidate is the k tried here.
is_in_beatty_phi(n) == FloorPhi(CeilOverPhi(n)) = n

\* The two sequences are swapped.
get_sync_mode_slip(r) == IF is_in_beatty_phi(r) THEN "PUSH" ELSE "PULL"

get_sync_mode(r) == IF is_in_beatty_phi(r) THEN "PULL" ELSE "PUSH"

-----------------------------------------------------------------------------

Nodes == 0..(num_nodes - 1)

Pairs == {p \in [sender : Nodes, receiver : Nodes] : p.sender # p.receiver}

Init ==
    /\ num_nodes \in NumNodes
    /\ round = 0
    /\ pulled = [p \in Pairs |-> 0]
    /\ pushed = [p \in Pairs |-> 0]
    /\ coverage = [p \in Pairs |-> 0]

\* select_wythoff_peer's part in a round.
NextRound ==
    /\ round < MaxRound
    /\ round' = round + 1
    /\ LET pair == get_pair(round + 1)
           pull == get_sync_mode(round + 1) = "PULL"
       IN  /\ coverage' = [coverage EXCEPT ![pair] = @ + 1]
           /\ pulled' = IF pull THEN [pulled EXCEPT ![pair] = round + 1] ELSE pulled
           /\ pushed' = IF pull THEN pushed ELSE [pushed EXCEPT ![pair] = round + 1]
    /\ UNCHANGED num_nodes

Spec == Init /\ [][NextRound]_vars

-----------------------------------------------------------------------------
(* Properties.                                                             *)

\* The type invariant: every visit is one of a pair of different nodes.
TypeOK ==
    /\ num_nodes \in NumNodes /\ round \in 0..MaxRound
    /\ pulled \in [Pairs -> 0..round] /\ pushed \in [Pairs -> 0..round]
    /\ coverage \in [Pairs -> 0..round]
    /\ round > 0 => get_pair(round) \in Pairs

\* No pair waits: every node pulls from and pushes to every other node again
\* within MaxLaps laps, although the round decides the pair and the mode at once
\* and could well have given some pairs the same mode for ever.
EveryPairBothWays ==
    \A p \in Pairs : /\ round - pulled[p] <= MaxLaps * NumPairs
                     /\ round - pushed[p] <= MaxLaps * NumPairs

\* README.md:98, "Over any window, every node pair gets uniform coverage": no pair
\* is ever MaxSpread visits from the mean, in the rounds so far and therefore, up
\* to twice that, in any window of them.
UniformCoverage ==
    \A p \in Pairs : LET deviation == coverage[p] * NumPairs - round
                     IN  deviation \in (-MaxSpread * NumPairs)..(MaxSpread * NumPairs)

\* The two Beatty sequences fit together, computed as they are by a floor in
\* get_pair and by a ceiling and a floor in is_in_beatty_phi: after a pull the
\* schedule skips one pair, after a push none.
PullsSkipAPair ==
    [][round > 0 => FloorPhi(round') - FloorPhi(round)
                        = IF get_sync_mode(round) = "PULL" THEN 2 ELSE 1]_vars

=============================================================================
