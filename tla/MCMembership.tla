---------------------------- MODULE MCMembership ----------------------------
(* Membership on small instances.                                          *)
EXTENDS Membership

\* docker-compose.yml: seeds are called by names, which are the node ids; datagrams
\* come from addresses, and addresses sort before names.
Names == [n \in Node |-> n]

Addresses == [n \in Node |-> n - 100]

Compose(strategy) == [strategy |-> strategy, seed_host |-> Names, source_host |-> Addresses]

\* One node, the third by name, is given by its address instead, which sorts first:
\* those before it take themselves for one index further up than they are later.
OneByAddress(strategy) ==
    [Compose(strategy) EXCEPT !.seed_host[3] = Addresses[3]]

\* The first two nodes share a host, given by its address (host:7001 and host:7002).
SharedHost(strategy) ==
    LET host == [Addresses EXCEPT ![2] = Addresses[1]]
    IN  [strategy |-> strategy, seed_host |-> host, source_host |-> host]

MCConfigs ==
    {Compose("RANDOM"), Compose("ROUND_ROBIN"), Compose("WYTHOFF"), OneByAddress("WYTHOFF")}

RandomConfig == {Compose("RANDOM")}

HostConfigs == {SharedHost("RANDOM"), OneByAddress("WYTHOFF")}

\* Every way to lose links.
AnyLinks == (SUBSET Links) \ {{}}

\* The network falls into two halves.
Halves == {{l \in Links : Cardinality(l \cap half) = 1} : half \in {s \in SUBSET Node : 2 * Cardinality(s) = Cardinality(Node)}}

=============================================================================
