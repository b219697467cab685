------------------------------- MODULE Gossip -------------------------------
(***************************************************************************)
(* The gossip engine of every node (src/gossip) over a UDP network that    *)
(* loses, duplicates and reorders datagrams.                               *)
(*                                                                         *)
(* Each node runs three kinds of thread against its replicated book:       *)
(* client threads (the local operations of CRDTOrderBook), the gossip      *)
(* thread (do_gossip_round, send_round, heartbeat, peer_timeout) and the   *)
(* receive thread, which handles one message at a time: it takes it from   *)
(* the socket (receive), applies its operations one by one, taking the     *)
(* book's lock for each (apply_next), and answers (reply).  Any thread may *)
(* run between two steps of another.                                       *)
(***************************************************************************)
EXTENDS CRDTOrderBook

CONSTANTS Strategy,      \* "RANDOM", "ROUND_ROBIN" or "WYTHOFF"
          MaxGossipOps,  \* operations a push, or the answer to one, carries (20)
          MaxInFlight    \* bound: datagrams in the network; more are lost

ASSUME StrategyAssumption == Strategy \in {"RANDOM", "ROUND_ROBIN", "WYTHOFF"}
ASSUME GossipBoundAssumption == MaxGossipOps \in Nat \ {0} /\ MaxInFlight \in Nat \ {0}

VARIABLES alive,     \* the peers with is_alive set
          network,   \* the datagrams in flight
          handling,  \* the message the receive thread is handling: <<m>>, or <<>>
          round      \* the round the gossip thread has begun: <<peer and clock>>, or <<>>

engine == <<alive, network, handling, round>>

\* A node's own address is among its seeds.
Peers_slip(n) == Node

Peers(n) == Node \ {n}

GossipInit ==
    /\ Init
    /\ alive = [n \in Node |-> Peers(n)]
    /\ network = {}
    /\ handling = [n \in Node |-> <<>>]
    /\ round = [n \in Node |-> <<>>]

-----------------------------------------------------------------------------
(* Sending.                                                                *)

\* Every message carries the sender's clock; it is read in those that want an
\* answer, and left out of the others here.
Asks == {"GOSSIP_PULL", "GOSSIP_PUSH_PULL", "ANTI_ENTROPY_REQ"}

Message(type, n, p, operations) ==
    [type |-> type, sender_id |-> n, to |-> p,
     sender_clock |-> IF type \in Asks THEN clock[n] ELSE <<>>,
     operations |-> [i \in DOMAIN operations |-> OnWire(operations[i])]]

\* What may become of the network when m is sent: m is lost (send_message ignores
\* failure), or it is in flight and, in a full network, another datagram is lost.
Sent(net, m) ==
    {net} \cup {kept \cup {m} : kept \in
        IF Cardinality(net) < MaxInFlight THEN {net} ELSE {net \ {d} : d \in net}}

\* One operation fewer.
Recent_slip(log) == SubSeq(log, Max({1, Len(log) - MaxGossipOps + 2}), Len(log))

\* The last MaxGossipOps operations of the log.
Recent(log) == SubSeq(log, Max({1, Len(log) - MaxGossipOps + 1}), Len(log))

First20(operations) == SubSeq(operations, 1, Min({MaxGossipOps, Len(operations)}))

\* select_random_peer: an alive peer, any peer when all are marked dead.
select_random_peer(n) == IF alive[n] = {} THEN Peers(n) ELSE alive[n]

\* A round robin visits the alive peers in turn; the Wythoff schedule ignores
\* is_alive.  Which of them is next is left open.
select_peer(n) == IF Strategy = "WYTHOFF" THEN Peers(n) ELSE select_random_peer(n)

\* The gossip thread takes the book's lock for the clock and again for the log.  In
\* the Wythoff schedule no message needs both, and the round is one step.
do_gossip_round(n, p) ==
    /\ round[n] = <<>> /\ p \in select_peer(n)
    /\ IF Strategy = "WYTHOFF"
       THEN /\ \E m \in {Message("GOSSIP_PULL", n, p, <<>>),
                         Message("GOSSIP_PUSH", n, p, Recent(op_log[n]))} : network' \in Sent(network, m)
            /\ UNCHANGED round
       ELSE /\ round' = [round EXCEPT ![n] = <<[to |-> p, clock |-> clock[n]]>>]
            /\ UNCHANGED network
    /\ UNCHANGED <<vars, alive, handling>>

\* The message carries the clock of before, and the log of now.
send_round(n) ==
    /\ round[n] # <<>>
    /\ network' \in Sent(network,
          [Message("GOSSIP_PUSH_PULL", n, round[n][1].to, Recent(op_log[n]))
              EXCEPT !.sender_clock = round[n][1].clock])
    /\ round' = [round EXCEPT ![n] = <<>>]
    /\ UNCHANGED <<vars, alive, handling>>

heartbeat(n, p) ==
    /\ round[n] = <<>> /\ p \in select_random_peer(n)
    /\ network' \in Sent(network, Message("HEARTBEAT", n, p, <<>>))
    /\ UNCHANGED <<vars, alive, handling, round>>

\* Nothing was heard from p for peer_timeout_ms, be it down, cut off or slow.
peer_timeout(n, p) ==
    /\ round[n] = <<>> /\ p \in alive[n]
    /\ alive' = [alive EXCEPT ![n] = @ \ {p}]
    /\ UNCHANGED <<vars, network, handling, round>>

-----------------------------------------------------------------------------
(* Receiving.                                                              *)

\* What is left to do of m.
Pending(m) == IF m.operations = <<>> /\ m.type \notin Asks THEN <<>> ELSE <<m>>

\* A peer marked dead is alive again, and is asked for what this node lacks.
\* left is what remains of the network, which may keep a copy of m.
\* The slip takes over the sender's clock at once, before its operations.
handle_message_slip(n, m, left) ==
    /\ handling[n] = <<>>
    /\ alive' = [alive EXCEPT ![n] = @ \cup {m.sender_id}]
    /\ network' \in IF m.sender_id \in alive[n] THEN {left}
                   ELSE Sent(left, Message("ANTI_ENTROPY_REQ", n, m.sender_id, <<>>))
    /\ handling' = [handling EXCEPT ![n] = Pending(m)]
    /\ clock' = [clock EXCEPT ![n] = merge(@, m.sender_clock)]
    /\ UNCHANGED <<book, op_log, seen_ops, issued, round>>

handle_message(n, m, left) ==
    /\ handling[n] = <<>>
    /\ alive' = [alive EXCEPT ![n] = @ \cup {m.sender_id}]
    /\ network' \in IF m.sender_id \in alive[n] THEN {left}
                   ELSE Sent(left, Message("ANTI_ENTROPY_REQ", n, m.sender_id, <<>>))
    /\ handling' = [handling EXCEPT ![n] = Pending(m)]
    /\ UNCHANGED <<vars, round>>

receive(n) ==
    \E m \in {d \in network : d.to = n} : \E left \in {network, network \ {m}} :
        handle_message(n, m, left)

apply_next(n) ==
    /\ handling[n] # <<>>
    /\ LET m == handling[n][1]
       IN  /\ m.operations # <<>>
           /\ apply_remote_operation(n, Head(m.operations))
           /\ handling' = [handling EXCEPT ![n] = Pending([m EXCEPT !.operations = Tail(@)])]
    /\ UNCHANGED <<alive, network, round>>

\* The answer to m, if it needs one.
Answers(n, m) ==
    LET lacking == get_operations_since(n, m.sender_clock)
        To(type, operations) == {Message(type, n, m.sender_id, operations)}
    IN  CASE m.type = "GOSSIP_PUSH_PULL" ->
                IF lacking = <<>> THEN {} ELSE To("GOSSIP_PUSH", First20(lacking))
          [] m.type = "GOSSIP_PULL" ->
                IF lacking = <<>> THEN {} ELSE To("GOSSIP_PUSH", lacking)
          [] m.type = "ANTI_ENTROPY_REQ" -> To("ANTI_ENTROPY_RES", lacking)
          [] OTHER -> {}

reply(n) ==
    /\ handling[n] # <<>>
    /\ LET m == handling[n][1]
       IN  /\ m.operations = <<>>
           /\ IF Answers(n, m) = {} THEN network' = network
              ELSE \E answer \in Answers(n, m) : network' \in Sent(network, answer)
    /\ handling' = [handling EXCEPT ![n] = <<>>]
    /\ UNCHANGED <<vars, alive, round>>

-----------------------------------------------------------------------------

Client(n) == LocalOperation(n) /\ UNCHANGED engine

GossipNext ==
    \E n \in Node :
        \/ Client(n)
        \/ \E p \in Peers(n) : do_gossip_round(n, p) \/ heartbeat(n, p) \/ peer_timeout(n, p)
        \/ send_round(n)
        \/ receive(n)
        \/ apply_next(n)
        \/ reply(n)

GossipSpec == GossipInit /\ [][GossipNext]_<<vars, engine>>

Rounds == {"GOSSIP_PUSH", "GOSSIP_PUSH_PULL"}

\* The receive thread goes on for as long as the node runs, and no link fails for
\* ever: p hears rounds of n again and again.  Nothing makes a client act, a
\* heartbeat go out, a peer time out or a request for the delta arrive.
Fairness ==
    \A n \in Node :
        /\ WF_<<vars, engine>>(apply_next(n))
        /\ WF_<<vars, engine>>(reply(n))
        /\ \A p \in Peers(n) : []<><<\E m \in network :
              /\ m.sender_id = n /\ m.to = p /\ m.type \in Rounds
              /\ handle_message(p, m, network \ {m})>>_<<vars, engine>>

FairGossipSpec == GossipSpec /\ Fairness

-----------------------------------------------------------------------------
(* Properties.                                                             *)

MessageTypes == {"GOSSIP_PUSH", "GOSSIP_PULL", "GOSSIP_PUSH_PULL", "HEARTBEAT",
                 "ANTI_ENTROPY_REQ", "ANTI_ENTROPY_RES"}

IsMessage(m) ==
    /\ m.type \in MessageTypes /\ m.sender_id \in Node /\ m.to \in Peers(m.sender_id)
    /\ IF m.type \in Asks THEN IsClock(m.sender_clock, Node) ELSE m.sender_clock = <<>>
    /\ \A i \in DOMAIN m.operations : IsOperation(m.operations[i])

\* The type invariant: no node gossips with itself, and what is on the wire is well formed.
GossipTypeOK ==
    /\ TypeOK
    /\ alive \in [Node -> SUBSET Node] /\ \A n \in Node : n \notin alive[n]
    /\ \A m \in network : IsMessage(m)
    /\ \A n \in Node : handling[n] # <<>> => Len(handling[n]) = 1 /\ IsMessage(handling[n][1])
                                            /\ handling[n][1].to = n
    /\ \A n \in Node : round[n] # <<>> => Len(round[n]) = 1 /\ round[n][1].to \in Peers(n)
                                         /\ IsClock(round[n][1].clock, Node)

\* Whatever the network and the peers do, the books see nothing but operations
\* of other nodes' logs, one at a time.
ImplementsReplication == Spec

\* When the push window covers the log, no node ever applies an operation
\* before one it depends on, so no clock ever counts an operation its node lacks.
OperationsArriveInOrder == \A n \in Node : AppliedInCausalOrder(n)

\* README.md:3, "Updates propagate through the network until all nodes converge
\* to the same book": whatever the network loses, delays and repeats, every
\* operation reaches every node.  The push window has to cover the log.
UpdatesPropagate ==
    \A id \in 1..MaxOps :
        (\E n \in Node : id \in seen_ops[n]) ~> (\A n \in Node : id \in seen_ops[n])

=============================================================================
