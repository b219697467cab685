----------------------------- MODULE Membership -----------------------------
(***************************************************************************)
(* The peer tables of the gossip engine (peers_ in src/gossip): whom each  *)
(* node takes for alive, whom it therefore talks to, and whether an update *)
(* still reaches everyone after links have failed and nodes restarted.     *)
(*                                                                         *)
(* An exchange, that is a round, a heartbeat or a request for the delta    *)
(* with the answer it gets, is one step here, and passes over every link   *)
(* that is not cut; single lost or late datagrams are the subject of       *)
(* Gossip.  Of the books, only who has one given update is kept, and the   *)
(* delta is taken to be complete.                                          *)
(***************************************************************************)
EXTENDS Integers, Sequences, FiniteSetsExt

CONSTANTS Node,       \* node ids, as numbers that sort as the ids do
          Configs,    \* the environments the nodes may be started in
          Cuts,       \* the sets of links that may fail together
          EarlyTimeouts, \* whether a peer may seem silent although its link is up
          MaxFaults,  \* bound: failures of links, and restarts
          MaxRequests \* bound: requests for the delta in flight

Links == {{n, m} : n, m \in Node} \ {{n} : n \in Node}

\* Config::from_env: the strategy, the name by which the seed lists call each
\* node's host, and the address from which its datagrams come.
Config == [strategy : {"RANDOM", "ROUND_ROBIN", "WYTHOFF"},
           seed_host : [Node -> Int], source_host : [Node -> Int]]

ASSUME NodeAssumption == Node \subseteq Int /\ IsFiniteSet(Node) /\ Cardinality(Node) > 1
ASSUME CutsAssumption == Cuts \subseteq SUBSET Links /\ {MaxFaults, MaxRequests} \subseteq Nat
ASSUME TimeoutsAssumption == EarlyTimeouts \in BOOLEAN
ASSUME ConfigsAssumption == Configs \subseteq Config

\* Nodes may share a host.  SEED_PEERS gives them different ports then.
SameHost(c, n, m) == c.source_host[n] = c.source_host[m]

\* A name leads to one host: it is not that of another host or of a node elsewhere,
\* nor the address of another host.
ASSUME HostsAssumption ==
    \A c \in Configs : \A n, m \in Node :
        c.seed_host[n] \in {m, c.source_host[m], c.seed_host[m]} => SameHost(c, n, m)

VARIABLES config,    \* what main read from the environment, the same on all nodes
          peers,     \* peers_
          rr_index,  \* rr_index_, counted from 1
          cut,       \* the links that are down
          has,       \* the nodes that have the update
          requests,  \* the ANTI_ENTROPY_REQ in flight: who asks whom
          faults     \* failures and restarts so far

vars == <<config, peers, rr_index, cut, has, requests, faults>>

PeerInfo == [node_id : Int, addr : Node, is_alive : BOOLEAN]

-----------------------------------------------------------------------------

\* The seed list names the nodes in their order.
Sorted(ids) ==
    [i \in 1..Cardinality(ids) |-> CHOOSE x \in ids : Cardinality({y \in ids : y <= x}) = i]

\* A node's own address is among its seeds.
SeedPeers_slip(c, n) ==
    LET seeds == Sorted(Node)
    IN  [i \in DOMAIN seeds |->
            [node_id |-> c.seed_host[seeds[i]], addr |-> seeds[i], is_alive |-> TRUE]]

\* main gives every seed its host's name for an id until it is heard from.
SeedPeers(c, n) ==
    LET seeds == Sorted(Node \ {n})
    IN  [i \in DOMAIN seeds |->
            [node_id |-> c.seed_host[seeds[i]], addr |-> seeds[i], is_alive |-> TRUE]]

Init ==
    /\ config \in Configs
    /\ peers = [n \in Node |-> SeedPeers(config, n)]
    /\ rr_index = [n \in Node |-> 1]
    /\ cut = {}
    /\ has \in {{n} : n \in Node}
    /\ requests = {}
    /\ faults = 0

-----------------------------------------------------------------------------
(* Whom a node talks to: sets of indices into peers[n].                    *)

Alive(n) == {i \in DOMAIN peers[n] : peers[n][i].is_alive}

\* Without a peer that is alive there is nobody to talk to.
select_random_peer_slip(n) == Alive(n)

select_random_peer(n) == IF Alive(n) = {} THEN DOMAIN peers[n] ELSE Alive(n)

\* The next alive peer after rr_index_, which comes last; rr_index_ itself when
\* none is alive.
select_round_robin_peer(n) ==
    LET size == Len(peers[n])
        After(k) == 1 + ((rr_index[n] + k - 1) % size)
        steps == {k \in 1..size : peers[n][After(k)].is_alive}
    IN  IF steps = {} THEN {rr_index[n]}
        ELSE {After(CHOOSE k \in steps : \A j \in steps : k <= j)}

\* The position of an id among the ids, counted from 0.
Rank(id, ids) == Cardinality({x \in ids : x < id})

\* The constructor ranks the node among the ids its peers have at the start.
my_node_index(n) == Rank(n, {n} \cup {config.seed_host[m] : m \in Node \ {n}})

\* Some round of the schedule has this node for its sender and any other index for
\* its receiver; the receiver is looked up among the ids the peers have by now.
select_wythoff_peer(n) ==
    LET ids   == {n} \cup {peers[n][i].node_id : i \in DOMAIN peers[n]}
        index == my_node_index(n)
    IN  {i \in DOMAIN peers[n] :
            /\ Rank(peers[n][i].node_id, ids) # index
            /\ \A j \in 1..(i - 1) : peers[n][j].node_id # peers[n][i].node_id}

Selected(n) ==
    CASE config.strategy = "RANDOM"      -> select_random_peer(n)
      [] config.strategy = "ROUND_ROBIN" -> select_round_robin_peer(n)
      [] config.strategy = "WYTHOFF"     -> select_wythoff_peer(n)

\* The types of message a round may send, and those it may send under its strategy.
GossipTypes == {"GOSSIP_PUSH", "GOSSIP_PULL", "GOSSIP_PUSH_PULL"}

RoundTypes ==
    IF config.strategy = "WYTHOFF" THEN {"GOSSIP_PUSH", "GOSSIP_PULL"} ELSE {"GOSSIP_PUSH_PULL"}

-----------------------------------------------------------------------------
(* Hearing from a peer.                                                    *)

\* The entry whose id or host is that of the sender m; the first one that fits.
Entries(n, m) ==
    {i \in DOMAIN peers[n] : \/ peers[n][i].node_id = m
                             \/ config.seed_host[peers[n][i].addr] = config.source_host[m]}

Entry(n, m) == Min(Entries(n, m))

IsDead(n, m) == Entries(n, m) # {} /\ ~peers[n][Entry(n, m)].is_alive

\* The id goes to the entry that was silent, whoever it is.
Heard_slip(n, m) ==
    [i \in DOMAIN peers[n] |-> IF i \in Entries(n, m) \/ ~peers[n][i].is_alive
                               THEN [peers[n][i] EXCEPT !.is_alive = TRUE, !.node_id = m]
                               ELSE peers[n][i]]

\* n's table after a message from m.
Heard(n, m) ==
    IF Entries(n, m) = {} THEN peers[n]
    ELSE [peers[n] EXCEPT ![Entry(n, m)] = [@ EXCEPT !.is_alive = TRUE, !.node_id = m]]

\* n, when a message from m comes from an entry taken for dead, asks for the delta at
\* the address of the entry, which is m's if no other node is at its host.
Asks(n, m) == IF IsDead(n, m) THEN {<<n, peers[n][Entry(n, m)].addr>>} ELSE {}

\* Each request is on its way or lost.
InFlight(asked) == {kept \in SUBSET asked : Cardinality(kept) <= MaxRequests}

\* n sends p a message, and p handles it and answers a pull if it has something new.
Exchange(n, p, type) ==
    LET pushes   == type \in {"GOSSIP_PUSH", "GOSSIP_PUSH_PULL"}
        pulls    == type \in {"GOSSIP_PULL", "GOSSIP_PUSH_PULL"}
        answered == pulls /\ p \in has /\ n \notin has
    IN  /\ peers' = [peers EXCEPT ![p] = Heard(p, n), ![n] = IF answered THEN Heard(n, p) ELSE @]
        /\ has' = has \cup (IF n \in has /\ pushes THEN {p} ELSE {}) \cup (IF answered THEN {n} ELSE {})
        /\ requests' \in InFlight(requests \cup Asks(p, n) \cup (IF answered THEN Asks(n, p) ELSE {}))

Send(n, i, type) ==
    IF {n, peers[n][i].addr} \in cut THEN UNCHANGED <<peers, has, requests>>
    ELSE Exchange(n, peers[n][i].addr, type)

\* p handles n's request for the delta, and n the answer.
anti_entropy(n, p) ==
    /\ <<n, p>> \in requests
    /\ IF {n, p} \in cut
       THEN requests' \in InFlight(requests \ {<<n, p>>}) /\ UNCHANGED <<peers, has>>
       ELSE /\ peers' = [peers EXCEPT ![p] = Heard(p, n), ![n] = Heard(n, p)]
            /\ has' = has \cup (IF p \in has THEN {n} ELSE {})
            /\ requests' \in InFlight((requests \ {<<n, p>>}) \cup Asks(p, n) \cup Asks(n, p))
    /\ UNCHANGED <<config, rr_index, cut, faults>>

-----------------------------------------------------------------------------

do_gossip_round(n, i, type) ==
    /\ type \in RoundTypes /\ i \in Selected(n)
    /\ Send(n, i, type)
    /\ rr_index' = IF config.strategy = "ROUND_ROBIN" THEN [rr_index EXCEPT ![n] = i] ELSE rr_index
    /\ UNCHANGED <<config, cut, faults>>

heartbeat(n, i) ==
    /\ i \in select_random_peer(n)
    /\ Send(n, i, "HEARTBEAT")
    /\ UNCHANGED <<config, rr_index, cut, faults>>

\* Nothing was heard from a peer for peer_timeout_ms, 20 rounds: its link is down, its
\* messages are matched to another entry, or nobody happened to send it any.
peer_timeout(n, i) ==
    /\ i \in Alive(n)
    /\ LET p == peers[n][i].addr
       IN  {n, p} \in cut \/ Entries(n, p) = {} \/ i # Entry(n, p) \/ EarlyTimeouts
    /\ peers' = [peers EXCEPT ![n][i].is_alive = FALSE]
    /\ UNCHANGED <<config, rr_index, cut, has, requests, faults>>

\* The process ends and main starts it again: nothing is kept.
restart(n) ==
    /\ faults < MaxFaults
    /\ peers' = [peers EXCEPT ![n] = SeedPeers(config, n)]
    /\ rr_index' = [rr_index EXCEPT ![n] = 1]
    /\ has' = has \ {n}
    /\ faults' = faults + 1
    /\ UNCHANGED <<config, cut, requests>>

\* scripts/inject_partition.sh, a lost route or an overloaded network.
partition ==
    /\ cut = {} /\ faults < MaxFaults
    /\ cut' \in Cuts
    /\ faults' = faults + 1
    /\ UNCHANGED <<config, peers, rr_index, has, requests>>

heal ==
    /\ cut # {}
    /\ cut' = {}
    /\ UNCHANGED <<config, peers, rr_index, has, requests, faults>>

Next ==
    \/ \E n \in Node :
          \/ \E i \in DOMAIN peers[n] : \/ \E type \in GossipTypes : do_gossip_round(n, i, type)
                                       \/ heartbeat(n, i) \/ peer_timeout(n, i)
          \/ \E p \in Node : anti_entropy(n, p)
          \/ restart(n)
    \/ partition
    \/ heal

Spec == Init /\ [][Next]_vars

\* gossip_loop takes a round every interval for as long as the node runs; the random
\* choice picks a peer it may pick again and again, and the Wythoff schedule gives every
\* peer it may pick a push (WythoffScheduler's EveryPairBothWays); and every partition
\* ends.  A request for the delta need not arrive.
Fairness ==
    /\ WF_vars(heal)
    /\ \A n \in Node :
          /\ WF_vars(\E i \in DOMAIN peers[n], type \in GossipTypes : do_gossip_round(n, i, type))
          /\ \A i \in 1..(Cardinality(Node) - 1) :
                WF_vars(/\ config.strategy # "ROUND_ROBIN"
                        /\ \E type \in GossipTypes \ {"GOSSIP_PULL"} : do_gossip_round(n, i, type))

FairSpec == Spec /\ Fairness

-----------------------------------------------------------------------------
(* Properties.                                                             *)

\* The type invariant.
TypeOK ==
    /\ config \in Configs
    /\ peers \in [Node -> Seq(PeerInfo)]
    /\ \A n \in Node : /\ Len(peers[n]) = Cardinality(Node) - 1
                       /\ \A i \in DOMAIN peers[n] : peers[n][i].addr # n
    /\ rr_index \in [Node -> 1..(Cardinality(Node) - 1)]
    /\ cut \subseteq Links /\ has \subseteq Node /\ faults \in 0..MaxFaults
    /\ requests \subseteq Node \X Node /\ Cardinality(requests) <= MaxRequests

\* Messages are matched to table entries by id or by host, the first that fits, and
\* overwrite the entry's id: whatever comes in which order, an entry goes by the name of
\* the host its address is at or by the id of a node at that host.  It need not be the
\* node at the address: where nodes share a host (host:7001 and host:7002), the first
\* entry for it takes the messages of all of them (gossip_engine.cpp:191).
EntriesNameTheirHost ==
    \A n \in Node : \A i \in DOMAIN peers[n] :
        LET p == peers[n][i].addr
        IN  peers[n][i].node_id \in {config.seed_host[p]} \cup {m \in Node : SameHost(config, m, p)}

\* The peers n will turn to sooner or later if nothing changes.
Contacts(n) ==
    CASE config.strategy = "RANDOM"      -> select_random_peer(n)
      [] config.strategy = "ROUND_ROBIN" -> IF Alive(n) = {} THEN {rr_index[n]} ELSE Alive(n)
      [] config.strategy = "WYTHOFF"     -> select_wythoff_peer(n)

\* However links have failed, timed out and come back, the nodes never fall apart
\* into groups in which nobody will turn to the other group any more.  Under the
\* Wythoff strategy four nodes do not, as it passes over no dead peers; under the
\* others they do (MCMembershipHalves.cfg).
NoLastingSplit ==
    \A group \in (SUBSET Node) \ {{}, Node} :
        \E n \in Node : \E i \in Contacts(n) : (n \in group) # (peers[n][i].addr \in group)

\* README.md:3, "Updates propagate through the network until all nodes converge to the
\* same book": once links stop failing, an update that some node has reaches all nodes.
\* It is lost only if every node that has it restarts.
PartitionsHeal == (has # {}) ~> (has = Node \/ has = {})

=============================================================================
