---------------------- MODULE WythoffScheduler_proofs ----------------------
(***************************************************************************)
(* Proofs about WythoffScheduler, for every size of cluster and every      *)
(* number of rounds that its rational number stands for the golden ratio.  *)
(***************************************************************************)
EXTENDS WythoffScheduler, TLAPS

-----------------------------------------------------------------------------
(* Pairs.                                                                  *)

\* A number below n * d has a quotient by d below n.
LEMMA QuotientBelow ==
    ASSUME NEW n \in Nat, NEW d \in Nat \ {0}, NEW x \in 0..(n * d - 1)
    PROVE  x \div d \in 0..(n - 1) /\ x % d \in 0..(d - 1)
  <1>. DEFINE q == x \div d
  <1>1. n * d \in Int /\ x \in Nat /\ x < n * d
    OBVIOUS
  <1>2. q \in Int /\ x % d \in 0..(d - 1) /\ x = d * q + (x % d)
    BY <1>1
  <1>. HIDE DEF q
  <1>3. q >= 0
    <2>1. ASSUME q < 0 PROVE d * q <= -d
      BY <1>2, <2>1
    <2>. QED
      BY <1>1, <1>2, <2>1
  <1>4. q < n
    <2>1. ASSUME q >= n PROVE d * q >= n * d
      BY <1>2, <2>1
    <2>. QED
      BY <1>1, <1>2, <2>1
  <1>. QED
    BY <1>2, <1>3, <1>4 DEF q

\* The schedule never pairs a node with itself, nor with a node that is not there.
LEMMA PairsArePairs ==
    ASSUME num_nodes \in NumNodes, NEW r \in Nat
    PROVE  get_pair(r) \in Pairs
  <1>. DEFINE x == FloorPhi(r) % NumPairs
              receiver == x % (num_nodes - 1)
              sender   == x \div (num_nodes - 1)
  <1>1. num_nodes \in Nat /\ num_nodes >= 2 /\ num_nodes - 1 \in Nat \ {0}
    BY NumNodesAssumption
  <1>2. NumPairs \in Nat \ {0}
    BY <1>1 DEF NumPairs
  <1>3. FloorPhi(r) \in Nat
    BY DEF FloorPhi, PHI_NUM, PHI_DEN
  <1>4. x \in 0..(num_nodes * (num_nodes - 1) - 1)
    BY <1>2, <1>3 DEF NumPairs
  <1>. HIDE DEF x
  <1>5. sender \in 0..(num_nodes - 1) /\ receiver \in 0..(num_nodes - 2)
    <2>. DEFINE d == num_nodes - 1
    <2>1. sender \in 0..(num_nodes - 1) /\ receiver \in 0..(d - 1)
      <3>1. d \in Nat \ {0} /\ x \in 0..(num_nodes * d - 1) /\ num_nodes \in Nat
        BY <1>1, <1>4
      <3>. HIDE DEF d
      <3>2. x \div d \in 0..(num_nodes - 1) /\ x % d \in 0..(d - 1)
        BY <3>1, QuotientBelow
      <3>. QED
        BY <3>2 DEF d
    <2>. QED
      BY <1>1, <2>1
  <1>6. get_pair(r) = [sender |-> sender,
                       receiver |-> IF receiver >= sender THEN receiver + 1 ELSE receiver]
    BY DEF get_pair, x
  <1>. HIDE DEF sender, receiver
  <1>. QED
    BY <1>1, <1>5, <1>6 DEF Pairs, Nodes

-----------------------------------------------------------------------------
(* Types.                                                                  *)

\* The schedule keeps its types: every round visits a pair of different nodes.
THEOREM ScheduleTypeCorrect == Spec => []TypeOK
  <1>1. Init => TypeOK
    BY RoundAssumption DEF Init, TypeOK
  <1>2. ASSUME TypeOK, NextRound PROVE TypeOK'
    <2>. DEFINE pair == get_pair(round + 1)
                pull == get_sync_mode(round + 1) = "PULL"
    <2>1. /\ num_nodes' = num_nodes /\ num_nodes \in NumNodes
          /\ round \in Nat /\ round' = round + 1 /\ round' \in 0..MaxRound
      BY <1>2, RoundAssumption DEF NextRound, TypeOK
    <2>2. pair \in Pairs
      BY <2>1, PairsArePairs
    <2>6. Pairs' = Pairs
      BY <2>1 DEF Pairs, Nodes
    <2>7. get_pair(round)' = pair
      BY <2>1 DEF get_pair, NumPairs
    <2>3. /\ coverage' = [coverage EXCEPT ![pair] = @ + 1]
          /\ pulled' = IF pull THEN [pulled EXCEPT ![pair] = round + 1] ELSE pulled
          /\ pushed' = IF pull THEN pushed ELSE [pushed EXCEPT ![pair] = round + 1]
      BY <1>2, Zenon DEF NextRound
    <2>4. /\ pulled \in [Pairs -> 0..round] /\ pushed \in [Pairs -> 0..round]
          /\ coverage \in [Pairs -> 0..round]
      BY <1>2 DEF TypeOK
    <2>. HIDE DEF pair, pull
    <2>5. /\ pulled' \in [Pairs -> 0..round'] /\ pushed' \in [Pairs -> 0..round']
          /\ coverage' \in [Pairs -> 0..round']
      BY <2>1, <2>2, <2>3, <2>4, <2>6
    <2>. QED
      BY <2>1, <2>2, <2>5, <2>6, <2>7 DEF TypeOK
  <1>3. TypeOK /\ UNCHANGED vars => TypeOK'
    BY DEF TypeOK, vars, Pairs, Nodes, get_pair, NumPairs
  <1>. QED
    BY <1>1, <1>2, <1>3, PTL DEF Spec

-----------------------------------------------------------------------------
(* The Beatty sequences.                                                   *)

\* The floor is a number,
LEMMA FloorsAreNumbers ==
    ASSUME NEW n \in Nat
    PROVE  FloorPhi(n) \in Nat
  BY DEF FloorPhi, PHI_NUM, PHI_DEN

\* namely this one,
LEMMA Floors ==
    ASSUME NEW n \in Nat
    PROVE  /\ FloorPhi(n) \in Nat
           /\ 10946 * FloorPhi(n) <= 17711 * n /\ 17711 * n < 10946 * FloorPhi(n) + 10946
  BY DEF FloorPhi, PHI_NUM, PHI_DEN

\* and the ceiling.
LEMMA Ceilings ==
    ASSUME NEW n \in Nat
    PROVE  /\ CeilOverPhi(n) \in Nat
           /\ 17711 * CeilOverPhi(n) >= 10946 * n /\ 17711 * CeilOverPhi(n) < 10946 * n + 17711
  BY DEF CeilOverPhi, PHI_NUM, PHI_DEN

\* The two fractions on either side of 1 / PHI, neighbours in the sequence of those of
\* Fibonacci numbers, have the same whole numbers above them, in as many multiples as
\* there are rounds: 10946 * 10946 = 17711 * 6765 + 1.
LEMMA Neighbours ==
    ASSUME NEW r \in 1..17710, NEW k \in Nat
    PROVE  10946 * k > 6765 * r <=> 17711 * k >= 10946 * r
  OBVIOUS

\* A round pulls if some multiple of 1 / PHI rounded up lies in its interval.
LEMMA PullsAreBeatty ==
    ASSUME NEW r \in Nat
    PROVE  (get_sync_mode(r) = "PULL")
             <=> 17711 * CeilOverPhi(r) < 10946 * (r + 1)
  <1>. DEFINE k == CeilOverPhi(r)
              f == FloorPhi(k)
  <1>1. k \in Nat /\ 17711 * k >= 10946 * r
    BY Ceilings
  <1>2. f \in Nat /\ 10946 * f <= 17711 * k /\ 17711 * k < 10946 * f + 10946
    BY <1>1, Floors
  <1>3. (get_sync_mode(r) = "PULL") <=> f = r
    BY DEF get_sync_mode, is_in_beatty_phi
  <1>. HIDE DEF f, k
  <1>4. f = r <=> 17711 * k < 10946 * (r + 1)
    BY <1>1, <1>2
  <1>. QED
    BY <1>3, <1>4 DEF k

\* is_in_beatty_phi looks at one candidate k, and finds that n is floor(k * PHI) for some k
\* whenever it is: the reference definition, for every round.
THEOREM OneCandidateIsEnough ==
    ASSUME NEW n \in Nat
    PROVE  is_in_beatty_phi(n) <=> \E k \in Nat : FloorPhi(k) = n
  <1>. DEFINE c == CeilOverPhi(n)
  <1>1. c \in Nat /\ 17711 * c >= 10946 * n /\ 17711 * c < 10946 * n + 17711
    BY Ceilings
  <1>2. is_in_beatty_phi(n) <=> FloorPhi(c) = n
    BY DEF is_in_beatty_phi
  <1>. HIDE DEF c
  <1>3. ASSUME NEW k \in Nat, FloorPhi(k) = n PROVE FloorPhi(c) = n
    <2>1. 10946 * n <= 17711 * k /\ 17711 * k < 10946 * n + 10946
      BY <1>3, Floors
    <2>2. c <= k
      BY <1>1, <2>1
    <2>3. /\ FloorPhi(c) \in Nat
          /\ 10946 * FloorPhi(c) <= 17711 * c /\ 17711 * c < 10946 * FloorPhi(c) + 10946
      BY <1>1, Floors
    <2>. HIDE DEF FloorPhi
    <2>. QED
      BY <1>1, <2>1, <2>2, <2>3
  <1>. QED
    BY <1>1, <1>2, <1>3

\* The schedule moves on by one pair, and by two where a multiple of the other fraction
\* has a whole number in the round's interval.
LEMMA PairsMoveOn ==
    ASSUME NEW r \in Nat, 0 < r, r < PHI_DEN
    PROVE  FloorPhi(r + 1) - FloorPhi(r) = IF get_sync_mode(r) = "PULL" THEN 2 ELSE 1
  <1>. DEFINE a == FloorPhi(r)
              b == FloorPhi(r + 1)
              c == CeilOverPhi(r)
              k == a - r + 1  \* the least number above 6765 * r / 10946
  <1>0. r \in 1..10945
    BY DEF PHI_DEN
  <1>1. /\ a \in Nat /\ 10946 * a <= 17711 * r /\ 17711 * r < 10946 * a + 10946
        /\ c \in Nat /\ 17711 * c >= 10946 * r /\ 17711 * c < 10946 * r + 17711
    <2>1. r \in Nat
      BY <1>0
    <2>2. a \in Nat /\ 10946 * a <= 17711 * r /\ 17711 * r < 10946 * a + 10946
      BY <2>1, Floors
    <2>3. c \in Nat /\ 17711 * c >= 10946 * r /\ 17711 * c < 10946 * r + 17711
      BY <2>1, Ceilings
    <2>. QED
      BY <2>2, <2>3
  <1>2. /\ b \in Nat /\ 10946 * b <= 17711 * (r + 1) /\ 17711 * (r + 1) < 10946 * b + 10946
    <2>1. PICK s \in Nat : s = r + 1
      BY <1>0
    <2>2. FloorPhi(s) \in Nat
      BY FloorsAreNumbers
    <2>3. 10946 * FloorPhi(s) <= 17711 * s
      BY Floors
    <2>4. 17711 * s < 10946 * FloorPhi(s) + 10946
      BY Floors
    <2>. QED
      BY <2>1, <2>2, <2>3, <2>4
  <1>3. (get_sync_mode(r) = "PULL") <=> 17711 * c < 10946 * (r + 1)
    BY PullsAreBeatty
  <1>. HIDE DEF a, b, c
  <1>4. k \in Nat /\ 10946 * k > 6765 * r /\ 10946 * (k - 1) <= 6765 * r
    BY <1>1
  <1>. HIDE DEF k
  <1>5. c = k
    <2>1. 17711 * k >= 10946 * r
      BY <1>0, <1>4, Neighbours
    <2>2. ~(17711 * (k - 1) >= 10946 * r)
      <3>1. CASE k = 0
        BY <3>1
      <3>2. CASE k - 1 \in Nat
        BY <1>0, <1>4, <3>2, Neighbours
      <3>. QED
        BY <1>4, <3>1, <3>2
    <2>. QED
      BY <1>1, <1>4, <2>1, <2>2
  <1>6. 10946 * k > 6765 * (r + 1) <=> 17711 * k >= 10946 * (r + 1)
    BY <1>0, <1>4, Neighbours
  <1>7. b - a \in {1, 2} /\ (b - a = 2 <=> 10946 * k <= 6765 * (r + 1))
    BY <1>1, <1>2 DEF k
  <1>8. b - a = IF get_sync_mode(r) = "PULL" THEN 2 ELSE 1
    BY <1>3, <1>4, <1>5, <1>6, <1>7
  <1>. QED
    BY <1>8 DEF a, b

\* After a pull the schedule skips a pair and after a push none, so that the ceiling by
\* which the mode is computed and the floor by which the pair is never disagree.
THEOREM PullsAlwaysSkip == Spec => PullsSkipAPair
  <1>1. ASSUME TypeOK, NextRound, round > 0
        PROVE  FloorPhi(round') - FloorPhi(round) = IF get_sync_mode(round) = "PULL" THEN 2 ELSE 1
    <2>1. round \in Nat /\ round < PHI_DEN /\ round' = round + 1
      BY <1>1, RoundAssumption DEF TypeOK, NextRound, PHI_DEN
    <2>2. FloorPhi(round + 1) - FloorPhi(round) = IF get_sync_mode(round) = "PULL" THEN 2 ELSE 1
      BY <1>1, <2>1, PairsMoveOn, Zenon
    <2>. QED
      BY <2>1, <2>2, Zenon
  <1>2. TypeOK /\ [NextRound]_vars =>
           [round > 0 => FloorPhi(round') - FloorPhi(round)
                            = IF get_sync_mode(round) = "PULL" THEN 2 ELSE 1]_vars
    BY <1>1
  <1>. QED
    BY <1>2, ScheduleTypeCorrect, PTL DEF Spec, PullsSkipAPair

=============================================================================
