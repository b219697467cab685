-------------------------- MODULE Membership_proofs --------------------------
(***************************************************************************)
(* Proofs about Membership, for any number of nodes, every configuration   *)
(* and every set of links that may fail.                                   *)
(***************************************************************************)
EXTENDS Membership, SetLemmas

\* The places of a peer table.
Places == 1..(Cardinality(Node) - 1)

\* What an entry for the address p may go by: the name of its host, or the id of a node at
\* that host.
HostIds(p) == {config.seed_host[p]} \cup {m \in Node : SameHost(config, m, p)}

\* t is a peer table of n: it keeps the addresses of the seeds, and no entry goes by the
\* name of another host or by the id of a node elsewhere.
IsTable(n, t) ==
    /\ t \in Seq(PeerInfo) /\ Len(t) = Cardinality(Node) - 1
    /\ \A i \in Places : /\ t[i].addr = Sorted(Node \ {n})[i]
                         /\ t[i].node_id \in HostIds(t[i].addr)

\* The inductive invariant.
MembershipInv ==
    /\ TypeOK
    /\ \A n \in Node : IsTable(n, peers[n])

-----------------------------------------------------------------------------
(* Tables.                                                                 *)

\* There are places, and they are counted from 1.
LEMMA PlacesFromOne ==
    /\ 1 \in Places /\ Places \subseteq Nat
    /\ \A k \in Places : \A l \in 1..(k - 1) : l \in Places /\ l # k
  <1>1. Cardinality(Node) \in Nat /\ Cardinality(Node) > 1
    BY NodeAssumption, FS_CardinalityType
  <1>. QED
    BY <1>1 DEF Places

\* The seeds of a node are all the other nodes, each once.
LEMMA SeedsAreTheOthers ==
    ASSUME NEW n \in Node
    PROVE  /\ Cardinality(Node) - 1 \in Nat \ {0}
           /\ Cardinality(Node \ {n}) = Cardinality(Node) - 1
           /\ DOMAIN Sorted(Node \ {n}) = Places
           /\ \A i \in Places : Sorted(Node \ {n})[i] \in Node \ {n}
           /\ \A i, j \in Places : i # j => Sorted(Node \ {n})[i] # Sorted(Node \ {n})[j]
           /\ \A m \in Node \ {n} : \E i \in Places : Sorted(Node \ {n})[i] = m
  <1>. DEFINE others  == Node \ {n}
              rank(p) == Cardinality({q \in others : q <= p})
  <1>1. IsFiniteSet(others) /\ others \in SUBSET Int /\ Cardinality(others) = Cardinality(Node) - 1
    BY NodeAssumption, FS_RemoveElement
  <1>2. Cardinality(Node) - 1 \in Nat \ {0}
    BY NodeAssumption, FS_CardinalityType
  <1>3. Cardinality(others) \in Nat /\ 1..Cardinality(others) = Places
    BY <1>1, <1>2 DEF Places
  <1>. HIDE DEF others
  <1>4. /\ \A p \in others : rank(p) \in 1..Cardinality(others)
        /\ \A p, r \in others : p < r => rank(p) < rank(r)
        /\ \A i \in 1..Cardinality(others) : \E p \in others : rank(p) = i
    BY <1>1, RanksAreOneToOne
  <1>5. Sorted(others) = [i \in Places |-> CHOOSE x \in others : rank(x) = i]
    BY <1>3 DEF Sorted
  <1>. HIDE DEF rank
  <1>6. ASSUME NEW i \in Places
        PROVE  Sorted(others)[i] \in others /\ rank(Sorted(others)[i]) = i
    BY <1>3, <1>4, <1>5
  <1>7. ASSUME NEW m \in others PROVE \E i \in Places : Sorted(others)[i] = m
    <2>1. rank(m) \in Places /\ Sorted(others)[rank(m)] \in others
          /\ rank(Sorted(others)[rank(m)]) = rank(m)
      BY <1>3, <1>4, <1>6
    <2>2. \A p, r \in others : rank(p) = rank(r) => p = r
      <3>1. \A p, r \in others : rank(p) \in Int /\ p \in Int
        BY <1>1, <1>3, <1>4
      <3>2. \A p, r \in others : p # r => p < r \/ r < p
        BY <3>1
      <3>. QED
        BY <1>4, <3>1, <3>2
    <2>. QED
      BY <2>1, <2>2
  <1>8. DOMAIN Sorted(others) = Places
    BY <1>5
  <1>9. \A i, j \in Places : i # j => Sorted(others)[i] # Sorted(others)[j]
    BY <1>6
  <1>. QED
    BY <1>1, <1>2, <1>6, <1>7, <1>8, <1>9 DEF others

\* What main fills a table with.
LEMMA SeedPeersAreATable ==
    ASSUME NEW n \in Node, config \in Configs
    PROVE  IsTable(n, SeedPeers(config, n))
  <1>. DEFINE seeds == Sorted(Node \ {n})
              entry(i) == [node_id |-> config.seed_host[seeds[i]], addr |-> seeds[i],
                           is_alive |-> TRUE]
  <1>1. /\ Cardinality(Node) - 1 \in Nat /\ DOMAIN seeds = Places
        /\ \A i \in Places : seeds[i] \in Node
    BY SeedsAreTheOthers
  <1>2. SeedPeers(config, n) = [i \in Places |-> entry(i)]
    BY <1>1, Zenon DEF SeedPeers
  <1>3. config.seed_host \in [Node -> Int]
    BY ConfigsAssumption DEF Config
  <1>. HIDE DEF seeds
  <1>4. \A i \in Places : entry(i) \in PeerInfo
    BY <1>1, <1>3 DEF PeerInfo
  <1>5. \A i \in Places : entry(i).addr = seeds[i] /\ entry(i).node_id = config.seed_host[seeds[i]]
    OBVIOUS
  <1>. HIDE DEF entry
  <1>. DEFINE t == SeedPeers(config, n)
  <1>6. t \in Seq(PeerInfo) /\ Len(t) = Cardinality(Node) - 1
    BY <1>1, <1>2, <1>4 DEF Places
  <1>7. \A i \in Places : t[i].addr = seeds[i] /\ t[i].node_id = config.seed_host[seeds[i]]
    BY <1>2, <1>5
  <1>. QED
    BY <1>6, <1>7 DEF IsTable, HostIds, seeds

\* What the entries of a table are.
LEMMA TableEntries ==
    ASSUME NEW n \in Node, NEW t, IsTable(n, t)
    PROVE  /\ DOMAIN t = Places /\ t \in Seq(PeerInfo) /\ Len(t) = Cardinality(Node) - 1
           /\ \A i \in Places : t[i] \in PeerInfo /\ t[i].addr \in Node \ {n}
           /\ \A i, j \in Places : i # j => t[i].addr # t[j].addr
           /\ \A m \in Node \ {n} : \E i \in Places : t[i].addr = m
  <1>1. /\ DOMAIN t = Places /\ t \in Seq(PeerInfo) /\ Len(t) = Cardinality(Node) - 1
        /\ \A i \in Places : t[i] \in PeerInfo
    BY SeedsAreTheOthers DEF IsTable, Places
  <1>. DEFINE seeds == Sorted(Node \ {n})
  <1>2. \A i \in Places : t[i].addr = seeds[i]
    BY DEF IsTable
  <1>3. /\ \A i \in Places : seeds[i] \in Node \ {n}
        /\ \A i, j \in Places : i # j => seeds[i] # seeds[j]
        /\ \A m \in Node \ {n} : \E i \in Places : seeds[i] = m
    BY SeedsAreTheOthers
  <1>. HIDE DEF seeds
  <1>4. \A i, j \in Places : i # j => t[i].addr # t[j].addr
    BY <1>2, <1>3
  <1>5. \A m \in Node \ {n} : \E i \in Places : t[i].addr = m
    BY <1>2, <1>3
  <1>6. \A i \in Places : t[i].addr \in Node \ {n}
    BY <1>2, <1>3
  <1>. QED
    BY <1>1, <1>4, <1>5, <1>6

\* The entry a message is matched to is one of the table.
LEMMA EntryIsAPlace ==
    ASSUME MembershipInv, NEW n \in Node, NEW m \in Node, Entries(n, m) # {}
    PROVE  Entry(n, m) \in Entries(n, m) /\ Entry(n, m) \in Places
  <1>1. DOMAIN peers[n] = Places
    <2>1. IsTable(n, peers[n])
      BY DEF MembershipInv
    <2>. QED
      BY <2>1, TableEntries
  <1>2. Entries(n, m) \subseteq Places
    BY <1>1 DEF Entries
  <1>3. Places \subseteq Int /\ IsFiniteSet(Places)
    <2>1. Cardinality(Node) - 1 \in Nat
      BY SeedsAreTheOthers
    <2>2. Places \subseteq Int
      BY <2>1 DEF Places
    <2>3. IsFiniteSet(Places)
      BY <2>1, FS_Interval DEF Places
    <2>. QED
      BY <2>2, <2>3
  <1>4. Entries(n, m) \in SUBSET Int /\ IsFiniteSet(Entries(n, m))
    BY <1>2, <1>3, FS_Subset
  <1>5. Min(Entries(n, m)) \in Entries(n, m)
    BY <1>4, MinOfSet
  <1>. QED
    BY <1>2, <1>5 DEF Entry

\* A message from m leaves n's table a table: the entry it is matched to, by id or by
\* host, is for an address at m's host.
LEMMA HeardIsATable ==
    ASSUME MembershipInv, NEW n \in Node, NEW m \in Node
    PROVE  IsTable(n, Heard(n, m))
  <1>. DEFINE t == peers[n]
              e == Entry(n, m)
              h == Heard(n, m)
              revived == [t[e] EXCEPT !.is_alive = TRUE, !.node_id = m]
  <1>1. IsTable(n, t) /\ config \in Configs /\ m \in Int
    BY NodeAssumption DEF MembershipInv, TypeOK
  <1>2. CASE Entries(n, m) = {}
    BY <1>1, <1>2 DEF Heard
  <1>3. CASE Entries(n, m) # {}
    <2>1. e \in Entries(n, m) /\ e \in Places
      BY <1>3, EntryIsAPlace
    <2>2. /\ DOMAIN t = Places /\ t \in Seq(PeerInfo) /\ Len(t) = Cardinality(Node) - 1
          /\ \A i \in Places : t[i] \in PeerInfo /\ t[i].addr \in Node
      BY <1>1, TableEntries
    <2>3. \A i \in Places : /\ t[i].addr = Sorted(Node \ {n})[i]
                            /\ t[i].node_id \in HostIds(t[i].addr)
      BY <1>1 DEF IsTable
    <2>4. t[e].node_id = m \/ config.seed_host[t[e].addr] = config.source_host[m]
      BY <2>1 DEF Entries
    <2>5. SameHost(config, m, t[e].addr)
      <3>. DEFINE a == t[e].addr
      <3>1. a \in Node /\ t[e].node_id \in HostIds(a)
        BY <2>1, <2>2, <2>3
      <3>2. config.seed_host[a] \in {m, config.source_host[m]} => SameHost(config, m, a)
        BY <1>1, <3>1, HostsAssumption DEF SameHost
      <3>3. t[e].node_id = m => config.seed_host[a] = m \/ SameHost(config, m, a)
        BY <3>1 DEF HostIds
      <3>. HIDE DEF a
      <3>. QED
        BY <2>4, <3>2, <3>3 DEF a
    <2>6. h = [t EXCEPT ![e] = revived]
      BY <1>3 DEF Heard
    <2>7. /\ revived \in PeerInfo /\ revived.addr = t[e].addr /\ revived.node_id = m
      BY <1>1, <2>1, <2>2 DEF PeerInfo
    <2>8. m \in HostIds(t[e].addr)
      BY <2>5 DEF HostIds
    <2>. HIDE DEF t, e, h, revived
    <2>9. h \in Seq(PeerInfo) /\ Len(h) = Cardinality(Node) - 1
      BY <2>1, <2>2, <2>6, <2>7
    <2>10. \A i \in Places : h[i] = IF i = e THEN revived ELSE t[i]
      BY <2>1, <2>2, <2>6
    <2>11. \A i \in Places : /\ h[i].addr = Sorted(Node \ {n})[i]
                             /\ h[i].node_id \in HostIds(h[i].addr)
      BY <2>1, <2>3, <2>7, <2>8, <2>10
    <2>. QED
      BY <2>9, <2>11 DEF IsTable, h
  <1>. QED
    BY <1>2, <1>3

\* Requests are from nodes to nodes.
LEMMA AsksNodes ==
    ASSUME MembershipInv, NEW n \in Node, NEW m \in Node
    PROVE  Asks(n, m) \subseteq Node \X Node
  <1>1. CASE IsDead(n, m)
    <2>1. Entry(n, m) \in Places
      BY <1>1, EntryIsAPlace DEF IsDead
    <2>2. IsTable(n, peers[n])
      BY DEF MembershipInv
    <2>3. peers[n][Entry(n, m)].addr \in Node
      BY <2>1, <2>2, TableEntries
    <2>. QED
      BY <1>1, <2>3 DEF Asks
  <1>2. CASE ~IsDead(n, m)
    BY <1>2 DEF Asks
  <1>. QED
    BY <1>1, <1>2

\* What may be on its way of them is within the bound.
LEMMA FlightIsBounded ==
    ASSUME NEW asked, asked \subseteq Node \X Node, NEW kept \in InFlight(asked)
    PROVE  kept \subseteq Node \X Node /\ Cardinality(kept) <= MaxRequests
    BY DEF InFlight

\* What is a table does not change with time: the configuration never does.
LEMMA TablesLast ==
    ASSUME UNCHANGED config, \A k \in Node : IsTable(k, peers'[k])
    PROVE  \A k \in Node : IsTable(k, peers[k])'
  <1>. TAKE k \in Node
  <1>1. IsTable(k, peers'[k])
    OBVIOUS
  <1>2. \A i \in Places : HostIds(peers[k][i].addr)' = HostIds(peers'[k][i].addr)
    BY DEF HostIds, SameHost
  <1>. QED
    BY <1>1, <1>2 DEF IsTable

\* Messages heard by two nodes leave all tables tables.
LEMMA HeardKeepTables ==
    ASSUME MembershipInv, NEW n \in Node, NEW p \in Node, n # p, NEW answered \in BOOLEAN,
           peers' = [peers EXCEPT ![p] = Heard(p, n), ![n] = IF answered THEN Heard(n, p) ELSE @],
           UNCHANGED config
    PROVE  peers' \in [Node -> Seq(PeerInfo)] /\ \A k \in Node : IsTable(k, peers[k])'
  <1>1. peers \in [Node -> Seq(PeerInfo)] /\ \A k \in Node : IsTable(k, peers[k])
    BY DEF MembershipInv, TypeOK
  <1>2. IsTable(p, Heard(p, n)) /\ IsTable(n, Heard(n, p))
    BY HeardIsATable
  <1>3. \A k, t : IsTable(k, t) => t \in Seq(PeerInfo)
    BY DEF IsTable
  <1>4. /\ DOMAIN peers' = Node /\ peers'[p] = Heard(p, n)
        /\ peers'[n] \in {Heard(n, p), peers[n]}
        /\ \A k \in Node \ {n, p} : peers'[k] = peers[k]
    BY <1>1
  <1>5. \A k \in Node : IsTable(k, peers'[k])
    BY <1>1, <1>2, <1>4
  <1>6. peers' \in [Node -> Seq(PeerInfo)]
    <2>1. \A k \in Node : peers'[k] \in Seq(PeerInfo)
      BY <1>3, <1>5
    <2>2. peers' = [k \in Node |-> peers'[k]]
      BY <1>1
    <2>. QED
      BY <2>1, <2>2
  <1>7. \A k \in Node : IsTable(k, peers[k])'
    BY <1>5, TablesLast
  <1>. QED
    BY <1>6, <1>7

\* An exchange leaves both tables tables.
LEMMA SendKeepsTables ==
    ASSUME MembershipInv, NEW n \in Node, NEW i \in Places, NEW type, Send(n, i, type),
           UNCHANGED config
    PROVE  /\ peers' \in [Node -> Seq(PeerInfo)] /\ \A k \in Node : IsTable(k, peers[k])'
           /\ has' \subseteq Node
           /\ requests' \subseteq Node \X Node /\ Cardinality(requests') <= MaxRequests
  <1>. DEFINE p == peers[n][i].addr
  <1>1. /\ peers \in [Node -> Seq(PeerInfo)] /\ has \subseteq Node
        /\ requests \subseteq Node \X Node /\ Cardinality(requests) <= MaxRequests
        /\ \A k \in Node : IsTable(k, peers[k])
    BY DEF MembershipInv, TypeOK
  <1>2. p \in Node \ {n}
    BY <1>1, TableEntries
  <1>3. CASE UNCHANGED <<peers, has, requests>>
    BY <1>1, <1>3, TablesLast
  <1>4. CASE Exchange(n, p, type)
    <2>1. has' \subseteq Node
      BY <1>1, <1>2, <1>4 DEF Exchange
    <2>2. PICK answered \in BOOLEAN :
             /\ peers' = [peers EXCEPT ![p] = Heard(p, n),
                                       ![n] = IF answered THEN Heard(n, p) ELSE @]
             /\ requests' \in InFlight(requests \cup Asks(p, n)
                                                \cup (IF answered THEN Asks(n, p) ELSE {}))
      BY <1>4, Zenon DEF Exchange
    <2>. HIDE DEF p
    <2>3. peers' \in [Node -> Seq(PeerInfo)] /\ \A k \in Node : IsTable(k, peers[k])'
      BY <1>2, <2>2, HeardKeepTables
    <2>. DEFINE asked == requests \cup Asks(p, n) \cup (IF answered THEN Asks(n, p) ELSE {})
    <2>4. Asks(p, n) \subseteq Node \X Node /\ Asks(n, p) \subseteq Node \X Node
      BY <1>2, AsksNodes
    <2>5. asked \subseteq Node \X Node /\ requests' \in InFlight(asked)
      BY <1>1, <2>2, <2>4
    <2>. HIDE DEF asked
    <2>6. requests' \subseteq Node \X Node /\ Cardinality(requests') <= MaxRequests
      BY <2>5, FlightIsBounded
    <2>. QED
      BY <2>1, <2>3, <2>6
  <1>. QED
    BY <1>3, <1>4 DEF Send

-----------------------------------------------------------------------------
(* The inductive invariant.                                                *)

\* One step per action.  No action touches the addresses of a table, and only hearing
\* from a peer changes an id.
LEMMA MembershipStep ==
    ASSUME MembershipInv, [Next]_vars
    PROVE  MembershipInv'
  <1>1. /\ config \in Configs /\ cut \subseteq Links /\ has \subseteq Node
        /\ faults \in 0..MaxFaults /\ MaxFaults \in Nat
        /\ requests \subseteq Node \X Node /\ Cardinality(requests) <= MaxRequests
        /\ peers \in [Node -> Seq(PeerInfo)] /\ rr_index \in [Node -> Places]
        /\ \A n \in Node : IsTable(n, peers[n])
    BY CutsAssumption DEF MembershipInv, TypeOK, Places
  <1>2. \A n \in Node : DOMAIN peers[n] = Places /\ Places # {} /\ 1 \in Places
    <2>. TAKE n \in Node
    <2>. QED
      BY <1>1, TableEntries, SeedsAreTheOthers DEF Places
  \* The parts from which the next state's invariant follows.
  <1>3. ASSUME config' = config, peers' \in [Node -> Seq(PeerInfo)],
               \A n \in Node : IsTable(n, peers[n])', rr_index' \in [Node -> Places],
               cut' \subseteq Links, has' \subseteq Node, faults' \in 0..MaxFaults,
               requests' \subseteq Node \X Node, Cardinality(requests') <= MaxRequests
        PROVE  MembershipInv'
    <2>1. ASSUME NEW n \in Node
          PROVE  Len(peers'[n]) = Cardinality(Node) - 1
                 /\ \A i \in DOMAIN peers'[n] : peers'[n][i].addr # n
      <3>1. IsTable(n, peers'[n])
        BY <1>3 DEF IsTable, HostIds, SameHost
      <3>2. /\ DOMAIN peers'[n] = Places /\ Len(peers'[n]) = Cardinality(Node) - 1
            /\ \A i \in Places : peers'[n][i].addr \in Node \ {n}
        BY <3>1, TableEntries
      <3>. QED
        BY <3>2
    <2>. QED
      BY <1>1, <1>3, <2>1 DEF MembershipInv, TypeOK, Places
  <1>4. ASSUME NEW n \in Node, NEW i \in Places, NEW type, do_gossip_round(n, i, type)
        PROVE  MembershipInv'
    <2>1. UNCHANGED <<config, cut, faults>> /\ Send(n, i, type)
      BY <1>4 DEF do_gossip_round
    <2>2. /\ peers' \in [Node -> Seq(PeerInfo)] /\ \A k \in Node : IsTable(k, peers[k])'
          /\ has' \subseteq Node
          /\ requests' \subseteq Node \X Node /\ Cardinality(requests') <= MaxRequests
      BY <2>1, SendKeepsTables
    <2>3. rr_index' \in [Node -> Places]
      BY <1>1, <1>4 DEF do_gossip_round
    <2>. QED
      BY <1>1, <1>3, <2>1, <2>2, <2>3
  <1>5. ASSUME NEW n \in Node, NEW i \in Places, heartbeat(n, i) PROVE MembershipInv'
    <2>1. UNCHANGED <<config, rr_index, cut, faults>> /\ Send(n, i, "HEARTBEAT")
      BY <1>5 DEF heartbeat
    <2>2. /\ peers' \in [Node -> Seq(PeerInfo)] /\ \A k \in Node : IsTable(k, peers[k])'
          /\ has' \subseteq Node
          /\ requests' \subseteq Node \X Node /\ Cardinality(requests') <= MaxRequests
      BY <2>1, SendKeepsTables
    <2>. QED
      BY <1>1, <1>3, <2>1, <2>2
  <1>6. ASSUME NEW n \in Node, NEW i \in Places, peer_timeout(n, i) PROVE MembershipInv'
    <2>. DEFINE silent == [peers[n] EXCEPT ![i].is_alive = FALSE]
    <2>1. UNCHANGED <<config, rr_index, cut, has, requests, faults>> /\ peers' = [peers EXCEPT ![n] = silent]
      BY <1>6 DEF peer_timeout
    <2>2. IsTable(n, silent)
      <3>1. /\ peers[n] \in Seq(PeerInfo) /\ peers[n][i] \in PeerInfo /\ IsTable(n, peers[n])
            /\ DOMAIN peers[n] = Places /\ Len(peers[n]) = Cardinality(Node) - 1
        BY <1>1, <1>2, TableEntries DEF IsTable
      <3>2. silent \in Seq(PeerInfo) /\ Len(silent) = Len(peers[n])
        <4>1. [peers[n][i] EXCEPT !.is_alive = FALSE] \in PeerInfo
          BY <3>1 DEF PeerInfo
        <4>2. silent = [peers[n] EXCEPT ![i] = [peers[n][i] EXCEPT !.is_alive = FALSE]]
          OBVIOUS
        <4>3. \A e \in PeerInfo : /\ [peers[n] EXCEPT ![i] = e] \in Seq(PeerInfo)
                                  /\ Len([peers[n] EXCEPT ![i] = e]) = Len(peers[n])
          BY <3>1
        <4>. QED
          BY <4>1, <4>2, <4>3
      <3>3. \A j \in Places : /\ silent[j].addr = peers[n][j].addr
                              /\ silent[j].node_id = peers[n][j].node_id
        BY <1>1, <3>1 DEF PeerInfo
      <3>. HIDE DEF silent
      <3>. QED
        BY <3>1, <3>2, <3>3 DEF IsTable
    <2>. HIDE DEF silent
    <2>3. \A k \in Node : IsTable(k, peers'[k])
      BY <1>1, <2>1, <2>2
    <2>4. peers' \in [Node -> Seq(PeerInfo)] /\ \A k \in Node : IsTable(k, peers[k])'
      <3>1. peers' = [k \in Node |-> peers'[k]] /\ \A k \in Node : peers'[k] \in Seq(PeerInfo)
        BY <1>1, <2>1, <2>3 DEF IsTable
      <3>. QED
        BY <2>1, <2>3, <3>1, TablesLast
    <2>. QED
      BY <1>1, <1>3, <2>1, <2>4
  <1>7. ASSUME NEW n \in Node, restart(n) PROVE MembershipInv'
    <2>. DEFINE fresh == SeedPeers(config, n)
    <2>1. /\ UNCHANGED <<config, cut, requests>> /\ peers' = [peers EXCEPT ![n] = fresh]
          /\ rr_index' \in [Node -> Places] /\ has' \subseteq Node /\ faults' \in 0..MaxFaults
      BY <1>1, <1>2, <1>7 DEF restart
    <2>2. IsTable(n, fresh)
      BY <1>1, SeedPeersAreATable
    <2>. HIDE DEF fresh
    <2>3. \A k \in Node : IsTable(k, peers'[k])
      BY <1>1, <2>1, <2>2
    <2>4. peers' \in [Node -> Seq(PeerInfo)] /\ \A k \in Node : IsTable(k, peers[k])'
      <3>1. peers' = [k \in Node |-> peers'[k]] /\ \A k \in Node : peers'[k] \in Seq(PeerInfo)
        BY <1>1, <2>1, <2>3 DEF IsTable
      <3>. QED
        BY <2>1, <2>3, <3>1, TablesLast
    <2>. QED
      BY <1>1, <1>3, <2>1, <2>4
  <1>8. CASE partition
    <2>1. /\ UNCHANGED <<config, peers, rr_index, has, requests>> /\ cut' \subseteq Links
          /\ faults' \in 0..MaxFaults
      BY <1>1, <1>8, CutsAssumption DEF partition
    <2>. QED
      BY <1>1, <1>3, <2>1, TablesLast
  <1>9. CASE heal
    <2>1. UNCHANGED <<config, peers, rr_index, has, requests, faults>> /\ cut' \subseteq Links
      BY <1>9 DEF heal
    <2>. QED
      BY <1>1, <1>3, <2>1, TablesLast
  <1>10. CASE UNCHANGED vars
    BY <1>1, <1>3, <1>10, TablesLast DEF vars
  <1>11. ASSUME NEW n \in Node, NEW p \in Node, anti_entropy(n, p) PROVE MembershipInv'
    <2>. DEFINE left == requests \ {<<n, p>>}
    <2>1. UNCHANGED <<config, rr_index, cut, faults>> /\ left \subseteq Node \X Node
      BY <1>1, <1>11 DEF anti_entropy
    <2>2. CASE {n, p} \in cut
      <3>1. UNCHANGED <<peers, has>> /\ requests' \in InFlight(left)
        BY <1>11, <2>2 DEF anti_entropy
      <3>. HIDE DEF left
      <3>2. requests' \subseteq Node \X Node /\ Cardinality(requests') <= MaxRequests
        BY <2>1, <3>1, FlightIsBounded
      <3>. QED
        BY <1>1, <1>3, <2>1, <3>1, <3>2, TablesLast
    <2>3. CASE {n, p} \notin cut
      <3>1. /\ peers' = [peers EXCEPT ![p] = Heard(p, n), ![n] = Heard(n, p)]
            /\ has' \subseteq Node /\ requests' \in InFlight(left \cup Asks(p, n) \cup Asks(n, p))
        BY <1>1, <1>11, <2>3 DEF anti_entropy
      <3>. DEFINE asked == left \cup Asks(p, n) \cup Asks(n, p)
      <3>2. asked \subseteq Node \X Node /\ requests' \in InFlight(asked)
        BY <2>1, <3>1, AsksNodes
      <3>. HIDE DEF asked, left
      <3>3. requests' \subseteq Node \X Node /\ Cardinality(requests') <= MaxRequests
        BY <3>2, FlightIsBounded
      <3>4. \A k \in Node : IsTable(k, peers'[k])
        BY <1>1, <3>1, HeardIsATable
      <3>5. peers' \in [Node -> Seq(PeerInfo)]
        <4>1. \A k \in Node : peers'[k] \in Seq(PeerInfo)
          BY <3>4 DEF IsTable
        <4>2. peers' = [k \in Node |-> peers'[k]]
          BY <1>1, <3>1
        <4>. QED
          BY <4>1, <4>2
      <3>6. \A k \in Node : IsTable(k, peers[k])'
        BY <2>1, <3>4, TablesLast
      <3>. QED
        BY <1>1, <1>3, <2>1, <3>1, <3>3, <3>5, <3>6
    <2>. QED
      BY <2>2, <2>3
  <1>. QED
    BY <1>2, <1>4, <1>5, <1>6, <1>7, <1>8, <1>9, <1>10, <1>11 DEF Next

LEMMA MembershipInit ==
    Init => MembershipInv
  <1>. SUFFICES ASSUME Init PROVE MembershipInv
    OBVIOUS
  <1>1. config \in Configs /\ peers = [n \in Node |-> SeedPeers(config, n)]
        /\ rr_index = [n \in Node |-> 1] /\ cut = {} /\ has \subseteq Node /\ faults = 0
        /\ requests = {} /\ Cardinality(requests) = 0
    BY FS_EmptySet DEF Init
  <1>2. \A n \in Node : IsTable(n, peers[n]) /\ 1 \in Places
    <2>. TAKE n \in Node
    <2>1. peers[n] = SeedPeers(config, n) /\ IsTable(n, SeedPeers(config, n))
      BY <1>1, SeedPeersAreATable
    <2>2. 1 \in Places
      BY PlacesFromOne
    <2>. QED
      BY <2>1, <2>2
  <1>3. peers \in [Node -> Seq(PeerInfo)]
    <2>1. \A n \in Node : SeedPeers(config, n) \in Seq(PeerInfo)
      BY <1>1, <1>2 DEF IsTable
    <2>. QED
      BY <1>1, <2>1
  <1>4. \A n \in Node : /\ Len(peers[n]) = Cardinality(Node) - 1
                        /\ \A i \in DOMAIN peers[n] : peers[n][i].addr # n
    <2>. TAKE n \in Node
    <2>1. /\ DOMAIN peers[n] = Places /\ Len(peers[n]) = Cardinality(Node) - 1
          /\ \A i \in Places : peers[n][i].addr \in Node \ {n}
      BY <1>2, TableEntries
    <2>. QED
      BY <2>1
  <1>5. rr_index \in [Node -> 1..(Cardinality(Node) - 1)]
    BY <1>1, <1>2 DEF Places
  <1>. QED
    BY <1>1, <1>2, <1>3, <1>4, <1>5, CutsAssumption DEF MembershipInv, TypeOK

LEMMA MembershipInvariant == Spec => []MembershipInv
  BY MembershipInit, MembershipStep, PTL DEF Spec

\* The tables keep their types: every node has the same number of entries for ever, for
\* addresses other than its own, and the round-robin index stays within them.
THEOREM MembershipTypeCorrect == Spec => []TypeOK
  <1>1. MembershipInv => TypeOK
    BY DEF MembershipInv
  <1>. QED
    BY <1>1, MembershipInvariant, PTL

\* Matching messages to entries by id or by host, the first that fits, never gives an entry
\* the name of another host or the id of a node elsewhere, whichever nodes share a host.
THEOREM EntriesStayAtTheirHost == Spec => []EntriesNameTheirHost
  <1>1. MembershipInv => EntriesNameTheirHost
    <2>. SUFFICES ASSUME MembershipInv, NEW n \in Node PROVE
           \A i \in DOMAIN peers[n] : peers[n][i].node_id \in HostIds(peers[n][i].addr)
      BY DEF EntriesNameTheirHost, HostIds
    <2>1. IsTable(n, peers[n])
      BY DEF MembershipInv
    <2>2. DOMAIN peers[n] = Places
      BY <2>1, TableEntries
    <2>. QED
      BY <2>1, <2>2 DEF IsTable
  <1>. QED
    BY <1>1, MembershipInvariant, PTL

-----------------------------------------------------------------------------
(* No lasting split.                                                       *)

\* Every node has a host of its own.
OwnHosts(c) == \A n, m \in Node : n # m => ~SameHost(c, n, m)

\* Of different ids one comes before the other.
LEMMA RanksDiffer ==
    ASSUME NEW ids \in SUBSET Int, IsFiniteSet(ids), NEW x \in ids, NEW y \in ids, x # y
    PROVE  Rank(x, ids) # Rank(y, ids)
  <1>. DEFINE below(z) == {w \in ids : w < z}
  <1>1. ASSUME NEW a \in ids, NEW b \in ids, a < b
        PROVE  Cardinality(below(a)) # Cardinality(below(b))
    <2>1. a \in below(b) /\ a \notin below(a)
      BY <1>1
    <2>2. below(a) \in SUBSET below(b)
      <3>1. ASSUME NEW c \in ids, c < a PROVE c < b
        <4>1. a \in Int /\ b \in Int /\ c \in Int
          OBVIOUS
        <4>. QED
          BY <1>1, <3>1, <4>1
      <3>. QED
        BY <3>1
    <2>3. IsFiniteSet(below(b))
      BY FS_Subset
    <2>. HIDE DEF below
    <2>. QED
      BY <2>1, <2>2, <2>3, FS_Subset
  <1>2. x < y \/ y < x
    <2>1. x \in Int /\ y \in Int
      OBVIOUS
    <2>. QED
      BY <2>1
  <1>3. Rank(x, ids) = Cardinality(below(x)) /\ Rank(y, ids) = Cardinality(below(y))
    BY DEF Rank
  <1>. HIDE DEF below
  <1>. QED
    BY <1>1, <1>2, <1>3

\* The ids in a table are different: the ids and the names at different hosts are.
LEMMA IdsDiffer ==
    ASSUME MembershipInv, OwnHosts(config),
           NEW n \in Node, NEW i \in Places, NEW j \in Places, i # j
    PROVE  peers[n][i].node_id # peers[n][j].node_id
  <1>. DEFINE a == peers[n][i].addr
              b == peers[n][j].addr
  <1>1. config \in Configs /\ IsTable(n, peers[n])
    BY DEF MembershipInv, TypeOK
  <1>2. a \in Node /\ b \in Node /\ a # b
    BY <1>1, TableEntries
  <1>3. peers[n][i].node_id \in HostIds(a) /\ peers[n][j].node_id \in HostIds(b)
    BY <1>1 DEF IsTable
  <1>. HIDE DEF a, b
  <1>4. /\ HostIds(a) \subseteq {a, config.seed_host[a]}
        /\ HostIds(b) \subseteq {b, config.seed_host[b]}
    BY <1>2 DEF HostIds, OwnHosts
  <1>5. ~SameHost(config, a, b) /\ ~SameHost(config, b, a)
    BY <1>2 DEF OwnHosts
  <1>6. /\ config.seed_host[a] # config.seed_host[b]
        /\ config.seed_host[a] # b /\ config.seed_host[b] # a
    BY <1>1, <1>2, <1>5, HostsAssumption
  <1>. QED
    BY <1>2, <1>3, <1>4, <1>6

\* The Wythoff schedule leaves out at most one peer, the one that has the rank that the
\* node takes for its own.
LEMMA WythoffLeavesOutOne ==
    ASSUME MembershipInv, OwnHosts(config),
           NEW n \in Node, NEW i \in Places, NEW j \in Places, i # j
    PROVE  i \in select_wythoff_peer(n) \/ j \in select_wythoff_peer(n)
  <1>. DEFINE id(k) == peers[n][k].node_id
              peerIds == {id(k) : k \in Places}
              ids == {n} \cup peerIds
  <1>1. IsTable(n, peers[n]) /\ n \in Int
    BY NodeAssumption DEF MembershipInv
  <1>2. DOMAIN peers[n] = Places /\ \A k \in Places : id(k) \in Int
    BY <1>1, TableEntries DEF PeerInfo
  <1>3. ids \in SUBSET Int /\ IsFiniteSet(ids)
    <2>1. IsFiniteSet(Places)
      <3>1. Cardinality(Node) - 1 \in Nat
        BY SeedsAreTheOthers
      <3>. QED
        BY <3>1, FS_Interval DEF Places
    <2>2. IsFiniteSet(peerIds)
      <3>. DEFINE f == [k \in Places |-> id(k)]
      <3>1. f \in Surjection(Places, peerIds)
        BY Zenon DEF Surjection
      <3>. QED
        BY <2>1, <3>1, FS_Surjection
    <2>3. IsFiniteSet({n}) /\ peerIds \in SUBSET Int
      BY <1>2, FS_Singleton
    <2>. HIDE DEF peerIds
    <2>. QED
      BY <1>1, <2>2, <2>3, FS_Union
  <1>4. Rank(id(i), ids) # Rank(id(j), ids)
    <2>1. id(i) # id(j) /\ id(i) \in ids /\ id(j) \in ids
      BY IdsDiffer
    <2>. HIDE DEF ids, id
    <2>. QED
      BY <1>3, <2>1, RanksDiffer
  <1>5. \A k \in Places : \A l \in 1..(k - 1) : id(l) # id(k)
    BY PlacesFromOne, IdsDiffer
  <1>6. select_wythoff_peer(n) =
          {k \in Places : /\ Rank(id(k), ids) # my_node_index(n)
                          /\ \A l \in 1..(k - 1) : id(l) # id(k)}
    BY <1>2, Zenon DEF select_wythoff_peer
  <1>. HIDE DEF id, ids
  <1>. QED
    BY <1>4, <1>5, <1>6

\* The schedule leaves out at most one peer, so whoever has two nodes or more on the other
\* side of a split turns to one of them, and a node alone on its side to one of its two
\* peers, however many are taken for dead.
LEMMA InvImpliesNoSplit ==
    ASSUME MembershipInv, Cardinality(Node) > 2, OwnHosts(config), config.strategy = "WYTHOFF"
    PROVE  NoLastingSplit
  <1>. SUFFICES ASSUME NEW group \in (SUBSET Node) \ {{}, Node}
                PROVE  \E n \in Node : \E i \in Contacts(n) :
                          (n \in group) # (peers[n][i].addr \in group)
    BY DEF NoLastingSplit
  <1>. DEFINE others == Node \ group
              Crosses(n) == \E i \in Contacts(n) : (n \in group) # (peers[n][i].addr \in group)
  <1>1. Cardinality(Node) \in Nat /\ \A n \in Node : IsTable(n, peers[n])
    BY NodeAssumption, FS_CardinalityType DEF MembershipInv
  <1>2. \A n \in Node : DOMAIN peers[n] = Places
                        /\ \A i \in Places : peers[n][i].addr \in Node \ {n}
    BY <1>1, TableEntries
  <1>3. \A n \in Node : \A m \in Node \ {n} : \E i \in Places : peers[n][i].addr = m
    BY <1>1, TableEntries
  <1>4. \A n \in Node : Contacts(n) = select_wythoff_peer(n) /\ Contacts(n) \subseteq Places
    BY <1>2 DEF Contacts, select_wythoff_peer
  \* With two nodes on the other side, one of them is turned to.
  <1>5. ASSUME NEW n \in Node, NEW a \in Node, NEW b \in Node, a # b, a # n, b # n,
               (a \in group) # (n \in group), (b \in group) # (n \in group)
        PROVE  Crosses(n)
    <2>1. PICK i \in Places : peers[n][i].addr = a
      BY <1>3, <1>5
    <2>2. PICK j \in Places : peers[n][j].addr = b
      BY <1>3, <1>5
    <2>3. i # j
      BY <1>5, <2>1, <2>2
    <2>4. i \in Contacts(n) \/ j \in Contacts(n)
      BY <1>4, <2>3, WythoffLeavesOutOne
    <2>. QED
      BY <1>5, <2>1, <2>2, <2>4
  \* A node alone on its side turns to somebody, who is on the other.
  <1>6. ASSUME NEW n \in Node, others = {n} PROVE Crosses(n)
    <2>1. 1 \in Places /\ 2 \in Places /\ 1 # 2
      BY <1>1 DEF Places
    <2>2. PICK i \in Contacts(n) : TRUE
      BY <1>4, <2>1, WythoffLeavesOutOne
    <2>3. peers[n][i].addr \in Node \ {n}
      BY <1>2, <1>4
    <2>. QED
      BY <1>6, <2>3
  <1>7. PICK n \in group : TRUE
    OBVIOUS
  <1>8. PICK a \in others : TRUE
    OBVIOUS
  <1>9. CASE others = {a}
    BY <1>6, <1>9
  <1>10. CASE others # {a}
    <2>1. PICK b \in others : b # a
      BY <1>8, <1>10
    <2>. QED
      BY <1>5, <1>7, <1>8, <2>1
  <1>. QED
    BY <1>9, <1>10

\* However links fail, peers time out and nodes restart, a cluster of three nodes or more
\* on hosts of their own never falls apart under the Wythoff strategy into groups of
\* which none turns to the other any more.
THEOREM NeverSplitForGood ==
    ASSUME Cardinality(Node) > 2,
           \A c \in Configs : OwnHosts(c) /\ c.strategy = "WYTHOFF"
    PROVE  Spec => []NoLastingSplit
  <1>1. MembershipInv => NoLastingSplit
    <2>1. MembershipInv => config \in Configs
      BY DEF MembershipInv, TypeOK
    <2>. QED
      BY <2>1, InvImpliesNoSplit
  <1>. QED
    BY <1>1, MembershipInvariant, PTL

=============================================================================
