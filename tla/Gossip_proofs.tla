--------------------------- MODULE Gossip_proofs ---------------------------
(***************************************************************************)
(* Proofs about Gossip, for every finite set of nodes, every strategy, and *)
(* a network that loses, duplicates and reorders as it likes.              *)
(***************************************************************************)
EXTENDS Gossip, CRDTOrderBook_proofs, SequenceTheorems

-----------------------------------------------------------------------------
(* Sequences of operations.                                                *)

\* The push window is the log from some position on, and leaves out nothing that fits in it.
LEMMA RecentPositions ==
    ASSUME NEW log \in Seq(Operation)
    PROVE  /\ Recent(log) \in Seq(Operation)
           /\ \E from \in Nat \ {0} :
                 /\ from = 1 \/ from - 1 = Len(log) - MaxGossipOps
                 /\ \A i \in DOMAIN Recent(log) : /\ i \in Nat \ {0} /\ from + i - 1 \in DOMAIN log
                                                  /\ Recent(log)[i] = log[from + i - 1]
                 /\ \A g \in DOMAIN log : g >= from => g - from + 1 \in DOMAIN Recent(log)
  <1>. DEFINE from == IF 1 >= Len(log) - MaxGossipOps + 1 THEN 1 ELSE Len(log) - MaxGossipOps + 1
              tail == SubSeq(log, from, Len(log))
  <1>1. Len(log) \in Nat /\ MaxGossipOps \in Nat /\ DOMAIN log = 1..Len(log)
    BY GossipBoundAssumption
  <1>2. Recent(log) = tail
    <2>1. Max({1, Len(log) - MaxGossipOps + 1}) = from
      BY <1>1, MaxOfTwo
    <2>. QED
      BY <2>1, Zenon DEF Recent
  <1>3. from \in Nat \ {0} /\ (from = 1 \/ from - 1 = Len(log) - MaxGossipOps)
    BY <1>1
  <1>4. \A i \in from..Len(log) : log[i] \in Operation
    BY <1>1, <1>3
  <1>. HIDE DEF from
  <1>5. /\ tail \in Seq(Operation)
        /\ Len(tail) = IF from <= Len(log) THEN Len(log) - from + 1 ELSE 0
        /\ \A i \in 1..(Len(log) - from + 1) : tail[i] = log[from + i - 1]
    BY <1>1, <1>3, <1>4, SubSeqProperties
  <1>. HIDE DEF tail
  <1>6. DOMAIN tail = 1..Len(tail)
    BY <1>5
  <1>7. ASSUME NEW i \in DOMAIN tail
        PROVE  i \in Nat \ {0} /\ from + i - 1 \in DOMAIN log /\ tail[i] = log[from + i - 1]
    <2>1. i \in 1..(Len(log) - from + 1)
      BY <1>1, <1>3, <1>5, <1>6
    <2>. QED
      BY <1>1, <1>3, <1>5, <2>1
  <1>8. ASSUME NEW g \in DOMAIN log, g >= from PROVE g - from + 1 \in DOMAIN tail
    BY <1>1, <1>3, <1>5, <1>6, <1>8
  <1>. QED
    BY <1>2, <1>3, <1>5, <1>7, <1>8

\* Its operations are of the log.
LEMMA RecentIsTail ==
    ASSUME NEW log \in Seq(Operation)
    PROVE  /\ Recent(log) \in Seq(Operation)
           /\ \A i \in DOMAIN Recent(log) : \E j \in DOMAIN log : Recent(log)[i] = log[j]
    BY RecentPositions

\* A cut answer is a beginning of the answer.
LEMMA First20IsPrefix ==
    ASSUME NEW s \in Seq(Operation)
    PROVE  /\ First20(s) \in Seq(Operation)
           /\ Len(First20(s)) <= Len(s)
           /\ \A i \in DOMAIN First20(s) : i \in DOMAIN s /\ First20(s)[i] = s[i]
  <1>. DEFINE to == IF MaxGossipOps <= Len(s) THEN MaxGossipOps ELSE Len(s)
              cut == SubSeq(s, 1, to)
  <1>1. Len(s) \in Nat /\ MaxGossipOps \in Nat
    BY GossipBoundAssumption
  <1>2. First20(s) = cut
    <2>1. Min({MaxGossipOps, Len(s)}) = to
      BY <1>1, MinOfTwo
    <2>. QED
      BY <2>1, Zenon DEF First20
  <1>3. to \in Nat /\ to <= Len(s)
    BY <1>1
  <1>4. \A i \in 1..to : s[i] \in Operation
    BY <1>1, <1>3
  <1>. HIDE DEF to
  <1>5. /\ cut \in Seq(Operation)
        /\ Len(cut) = IF 1 <= to THEN to - 1 + 1 ELSE 0
        /\ \A i \in 1..(to - 1 + 1) : cut[i] = s[1 + i - 1]
    BY <1>1, <1>3, <1>4, SubSeqProperties
  <1>. HIDE DEF cut
  <1>6. Len(cut) = to /\ \A i \in 1..to : cut[i] = s[i]
    BY <1>3, <1>5
  <1>. QED
    BY <1>1, <1>2, <1>3, <1>5, <1>6

-----------------------------------------------------------------------------
(* Messages.                                                               *)

Msg == [type : MessageTypes, sender_id : Node, to : Node, sender_clock : Clock,
        operations : Seq(Operation)]

\* A message is on its way from being sent to having been handled.
InTransit(m) == m \in network \/ \E n \in Node : handling[n] = <<m>>

\* A message goes to another node, and brings operations of its sender's log.
Proper(m) ==
    /\ m \in Msg /\ m.to # m.sender_id
    /\ m.type \notin Asks => m.sender_clock = <<>>
    /\ \A i \in DOMAIN m.operations : \E o \in Ops(m.sender_id) : m.operations[i] = OnWire(o)

\* Every variable of the engine is a function of the nodes; messages are proper.
GossipShape ==
    /\ alive \in [Node -> SUBSET Node] /\ \A n \in Node : n \notin alive[n]
    /\ handling \in [Node -> {<<>>} \cup {<<m>> : m \in Msg}]
    /\ \A n \in Node : \A m : handling[n] = <<m>> => m.to = n
    /\ round \in [Node -> {<<>>} \cup {<<r>> : r \in [to : Node, clock : Clock]}]
    /\ \A n \in Node : \A r : round[n] = <<r>> => r.to # n
    /\ \A m : InTransit(m) => Proper(m)

\* What n may send p: a message without operations,
Plain(n, p, m) ==
    \E type \in {"GOSSIP_PULL", "HEARTBEAT", "ANTI_ENTROPY_REQ"} : m = Message(type, n, p, <<>>)

\* its latest operations,
Pushes(n, p, m) == m = Message("GOSSIP_PUSH", n, p, Recent(op_log[n]))

\* the same with the clock of when the round began,
PushPulls(n, p, m) ==
    \E c \in Clock :
        /\ round[n] = <<[to |-> p, clock |-> c]>>
        /\ m = [Message("GOSSIP_PUSH_PULL", n, p, Recent(op_log[n])) EXCEPT !.sender_clock = c]

\* or the answer to a request it is handling.
Responds(n, p, m) ==
    \E q, type, operations :
        /\ handling[n] = <<q>> /\ q.sender_id = p /\ q.type \in Asks
        /\ type \in {"GOSSIP_PUSH", "ANTI_ENTROPY_RES"}
        /\ operations \in {get_operations_since(n, q.sender_clock),
                           First20(get_operations_since(n, q.sender_clock))}
        /\ m = Message(type, n, p, operations)

Composes(n, m) ==
    \E p \in Peers(n) : Plain(n, p, m) \/ Pushes(n, p, m) \/ PushPulls(n, p, m) \/ Responds(n, p, m)

\* A step of n's threads that touches no book.
EngineStep(n) ==
    /\ UNCHANGED vars
    /\ alive' \in [Node -> SUBSET Node] /\ \A k \in Node : k \notin alive'[k]
    /\ network' \subseteq network \/ \E m : Composes(n, m) /\ network' \subseteq network \cup {m}
    /\ \/ handling' = handling
       \/ handling' = [handling EXCEPT ![n] = <<>>]
       \/ \E m \in network : m.to = n /\ handling' = [handling EXCEPT ![n] = <<m>>]
    /\ \/ round' = round
       \/ round' = [round EXCEPT ![n] = <<>>]
       \/ \E p \in Peers(n) : round' = [round EXCEPT ![n] = <<[to |-> p, clock |-> clock[n]]>>]

\* Sending puts nothing in the network but the message.
LEMMA SentAddsOne ==
    ASSUME NEW net, NEW m, NEW after \in Sent(net, m)
    PROVE  after \subseteq net \cup {m}
    BY DEF Sent

\* What is left to do of a message is the message, or nothing.
LEMMA PendingCases == \A m : Pending(m) \in {<<>>, <<m>>}
    BY DEF Pending

\* The gossip thread touches no book: a round,
LEMMA RoundIsEngineStep ==
    ASSUME Shape, GossipShape, NEW n \in Node, NEW p \in Peers(n), do_gossip_round(n, p)
    PROVE  EngineStep(n)
  <1>1. UNCHANGED <<vars, alive, handling>>
    BY DEF do_gossip_round
  <1>2. alive' \in [Node -> SUBSET Node] /\ \A k \in Node : k \notin alive'[k]
    BY <1>1 DEF GossipShape
  <1>3. CASE Strategy = "WYTHOFF"
    <2>1. PICK m \in {Message("GOSSIP_PULL", n, p, <<>>),
                      Message("GOSSIP_PUSH", n, p, Recent(op_log[n]))} : network' \in Sent(network, m)
      BY <1>3 DEF do_gossip_round
    <2>2. Composes(n, m)
      BY <2>1, Zenon DEF Composes, Plain, Pushes
    <2>3. round' = round
      BY <1>3 DEF do_gossip_round
    <2>. QED
      BY <1>1, <1>2, <2>1, <2>2, <2>3, SentAddsOne DEF EngineStep
  <1>4. CASE Strategy # "WYTHOFF"
    <2>1. /\ round' = [round EXCEPT ![n] = <<[to |-> p, clock |-> clock[n]]>>]
          /\ network' = network
      BY <1>4 DEF do_gossip_round
    <2>. QED
      BY <1>1, <1>2, <2>1 DEF EngineStep
  <1>. QED
    BY <1>3, <1>4

\* its message,
LEMMA SendIsEngineStep ==
    ASSUME Shape, GossipShape, NEW n \in Node, send_round(n)
    PROVE  EngineStep(n)
  <1>1. /\ UNCHANGED <<vars, alive, handling>> /\ round' = [round EXCEPT ![n] = <<>>]
        /\ round[n] # <<>>
    BY DEF send_round
  <1>2. alive' \in [Node -> SUBSET Node] /\ \A k \in Node : k \notin alive'[k]
    BY <1>1 DEF GossipShape
  <1>3. PICK r \in [to : Node, clock : Clock] : round[n] = <<r>>
    BY <1>1 DEF GossipShape
  <1>4. r.to \in Peers(n) /\ r = [to |-> r.to, clock |-> r.clock] /\ r.clock \in Clock
    BY <1>3 DEF GossipShape, Peers
  <1>. DEFINE m == [Message("GOSSIP_PUSH_PULL", n, r.to, Recent(op_log[n]))
                      EXCEPT !.sender_clock = r.clock]
  <1>5. network' \in Sent(network, m)
    <2>1. round[n][1] = r
      BY <1>3
    <2>. QED
      BY <2>1 DEF send_round
  <1>6. Composes(n, m)
    <2>1. PushPulls(n, r.to, m)
      BY <1>3, <1>4, Zenon DEF PushPulls
    <2>. QED
      BY <1>4, <2>1 DEF Composes
  <1>. QED
    BY <1>1, <1>2, <1>5, <1>6, SentAddsOne DEF EngineStep

\* a heartbeat,
LEMMA HeartbeatIsEngineStep ==
    ASSUME Shape, GossipShape, NEW n \in Node, NEW p \in Peers(n), heartbeat(n, p)
    PROVE  EngineStep(n)
  <1>. DEFINE m == Message("HEARTBEAT", n, p, <<>>)
  <1>1. UNCHANGED <<vars, alive, handling, round>> /\ network' \in Sent(network, m)
    BY DEF heartbeat
  <1>2. alive' \in [Node -> SUBSET Node] /\ \A k \in Node : k \notin alive'[k]
    BY <1>1 DEF GossipShape
  <1>3. Composes(n, m)
    BY Zenon DEF Composes, Plain
  <1>. HIDE DEF m
  <1>. QED
    BY <1>1, <1>2, <1>3, SentAddsOne DEF EngineStep

\* and giving up on a peer.
LEMMA TimeoutIsEngineStep ==
    ASSUME Shape, GossipShape, NEW n \in Node, NEW p \in Peers(n), peer_timeout(n, p)
    PROVE  EngineStep(n)
  <1>1. /\ UNCHANGED <<vars, network, handling, round>>
        /\ alive' = [alive EXCEPT ![n] = alive[n] \ {p}]
    BY DEF peer_timeout
  <1>2. alive' \in [Node -> SUBSET Node] /\ \A k \in Node : k \notin alive'[k]
    BY <1>1 DEF GossipShape
  <1>. QED
    BY <1>1, <1>2 DEF EngineStep

\* Nor does the receive thread when it takes a message from the socket
LEMMA ReceiveIsEngineStep ==
    ASSUME Shape, GossipShape, NEW n \in Node, receive(n)
    PROVE  EngineStep(n)
  <1>1. PICK m \in network : m.to = n /\ \E left \in {network, network \ {m}} : handle_message(n, m, left)
    BY DEF receive
  <1>2. PICK left \in {network, network \ {m}} : handle_message(n, m, left)
    BY <1>1
  <1>3. /\ UNCHANGED <<vars, round>>
        /\ alive' = [alive EXCEPT ![n] = alive[n] \cup {m.sender_id}]
        /\ handling' = [handling EXCEPT ![n] = Pending(m)]
    BY <1>2 DEF handle_message
  <1>4. Proper(m)
    BY <1>1 DEF GossipShape, InTransit
  <1>5. m.sender_id \in Peers(n)
    BY <1>1, <1>4 DEF Proper, Msg, Peers
  <1>6. alive' \in [Node -> SUBSET Node] /\ \A k \in Node : k \notin alive'[k]
    BY <1>3, <1>5 DEF GossipShape, Peers
  <1>7. network' \subseteq network \/ \E a : Composes(n, a) /\ network' \subseteq network \cup {a}
    <2>. DEFINE a == Message("ANTI_ENTROPY_REQ", n, m.sender_id, <<>>)
    <2>1. Composes(n, a)
      BY <1>5, Zenon DEF Composes, Plain
    <2>2. network' = left \/ network' \in Sent(left, a)
      BY <1>2 DEF handle_message
    <2>. HIDE DEF a
    <2>3. network' \subseteq left \cup {a}
      BY <2>2, SentAddsOne
    <2>. QED
      BY <2>1, <2>3
  <1>8. \/ handling' = [handling EXCEPT ![n] = <<>>]
        \/ handling' = [handling EXCEPT ![n] = <<m>>]
    BY <1>3, PendingCases
  <1>. QED
    BY <1>1, <1>3, <1>6, <1>7, <1>8 DEF EngineStep

\* and when it answers.
LEMMA ReplyIsEngineStep ==
    ASSUME Shape, GossipShape, NEW n \in Node, reply(n)
    PROVE  EngineStep(n)
  <1>1. /\ UNCHANGED <<vars, alive, round>> /\ handling' = [handling EXCEPT ![n] = <<>>]
        /\ handling[n] # <<>>
    BY DEF reply
  <1>2. alive' \in [Node -> SUBSET Node] /\ \A k \in Node : k \notin alive'[k]
    BY <1>1 DEF GossipShape
  <1>3. PICK q \in Msg : handling[n] = <<q>>
    BY <1>1 DEF GossipShape
  <1>4. q.to = n /\ Proper(q) /\ handling[n][1] = q
    BY <1>3 DEF GossipShape, InTransit
  <1>5. q.sender_id \in Peers(n)
    BY <1>4 DEF Proper, Msg, Peers
  <1>6. IF Answers(n, q) = {} THEN network' = network
        ELSE \E answer \in Answers(n, q) : network' \in Sent(network, answer)
    BY <1>4 DEF reply
  <1>7. ASSUME NEW answer \in Answers(n, q) PROVE Composes(n, answer)
    <2>. DEFINE lacking == get_operations_since(n, q.sender_clock)
    <2>1. \/ q.type \in Asks /\ answer = Message("GOSSIP_PUSH", n, q.sender_id, First20(lacking))
          \/ q.type \in Asks /\ answer = Message("GOSSIP_PUSH", n, q.sender_id, lacking)
          \/ q.type \in Asks /\ answer = Message("ANTI_ENTROPY_RES", n, q.sender_id, lacking)
      BY <1>7, Zenon DEF Answers, Asks
    <2>2. Responds(n, q.sender_id, answer)
      BY <1>3, <2>1, Zenon DEF Responds
    <2>. QED
      BY <1>5, <2>2 DEF Composes
  <1>8. network' \subseteq network \/ \E m : Composes(n, m) /\ network' \subseteq network \cup {m}
    BY <1>6, <1>7, SentAddsOne
  <1>. QED
    BY <1>1, <1>2, <1>8 DEF EngineStep

\* What a step can do.
LEMMA GossipSteps ==
    ASSUME Shape, GossipShape, GossipNext
    PROVE  \E n \in Node : Client(n) \/ apply_next(n) \/ EngineStep(n)
  <1>1. PICK n \in Node : \/ Client(n)
                          \/ \E p \in Peers(n) : \/ do_gossip_round(n, p) \/ heartbeat(n, p)
                                                 \/ peer_timeout(n, p)
                          \/ send_round(n) \/ receive(n) \/ apply_next(n) \/ reply(n)
    BY DEF GossipNext
  <1>. QED
    BY <1>1, RoundIsEngineStep, SendIsEngineStep, HeartbeatIsEngineStep, TimeoutIsEngineStep,
       ReceiveIsEngineStep, ReplyIsEngineStep

\* No operation leaves a log.
LEMMA LogsGrow ==
    ASSUME Shape, IdsIssued, [Next]_vars
    PROVE  \A n \in Node : Ops(n) \subseteq Ops(n)'
  <1>0. TypeOK
    BY TypesFromShape
  <1>1. CASE UNCHANGED vars
    BY <1>1 DEF vars, Ops
  <1>2. ASSUME NEW n \in Node, NEW op \in Operation, Record(n, op)
        PROVE  \A k \in Node : Ops(k) \subseteq Ops(k)'
    BY <1>2, RecordEffect
  <1>3. ASSUME NEW n \in Node, NEW b, OnlyTicks(n, b) PROVE \A k \in Node : Ops(k) \subseteq Ops(k)'
    BY <1>3 DEF OnlyTicks, Ops
  <1>4. ASSUME NEW n \in Node, NEW m \in Node \ {n}, NEW i \in DOMAIN op_log[m], Receives(n, m, i)
        PROVE  \A k \in Node : Ops(k) \subseteq Ops(k)'
    <2>1. PICK op \in Operation : op = OnWire(op_log[m][i])
      BY ReceivedOperation
    <2>2. Record(n, op)
      BY <1>4, <2>1 DEF Receives
    <2>. QED
      BY <1>2, <2>2
  <1>5. ASSUME NEW n \in Node, NEW op \in Operation, Issues(n, op)
        PROVE  \A k \in Node : Ops(k) \subseteq Ops(k)'
    BY <1>2, <1>5 DEF Issues
  <1>. QED
    BY <1>0, <1>1, <1>3, <1>4, <1>5, StepCases

\* A message of operations of n's log is proper, and carries them as they are on the wire.
LEMMA MessageIsProper ==
    ASSUME Shape, NEW n \in Node, NEW p \in Peers(n), NEW type \in MessageTypes,
           NEW operations \in Seq(Operation), \A i \in DOMAIN operations : operations[i] \in Ops(n)
    PROVE  /\ Proper(Message(type, n, p, operations))
           /\ Message(type, n, p, operations).type = type
           /\ Message(type, n, p, operations).sender_id = n
           /\ Message(type, n, p, operations).to = p
           /\ Message(type, n, p, operations).sender_clock = IF type \in Asks THEN clock[n] ELSE <<>>
           /\ DOMAIN Message(type, n, p, operations).operations = DOMAIN operations
           /\ \A i \in DOMAIN operations :
                 Message(type, n, p, operations).operations[i] = OnWire(operations[i])
  <1>. DEFINE wire == [i \in DOMAIN operations |-> OnWire(operations[i])]
              c    == IF type \in Asks THEN clock[n] ELSE <<>>
              m    == Message(type, n, p, operations)
  <1>1. wire \in Seq(Operation)
    <2>1. Len(operations) \in Nat /\ DOMAIN operations = 1..Len(operations)
      OBVIOUS
    <2>2. \A i \in DOMAIN operations : OnWire(operations[i]) \in Operation
      BY OnWireKeeps
    <2>. QED
      BY <2>1, <2>2
  <1>2. c \in Clock
    <2>1. <<>> \in [{} -> Nat]
      OBVIOUS
    <2>2. <<>> \in Clock
      BY <2>1 DEF Clock
    <2>. QED
      BY <2>2 DEF Shape
  <1>3. m = [type |-> type, sender_id |-> n, to |-> p, sender_clock |-> c, operations |-> wire]
    BY Zenon DEF Message
  <1>. HIDE DEF c, m
  <1>4. m \in Msg
    BY <1>1, <1>2, <1>3 DEF Msg, Peers
  <1>5. \A i \in DOMAIN wire : \E o \in Ops(n) : wire[i] = OnWire(o)
    OBVIOUS
  <1>6. Proper(m)
    BY <1>3, <1>4, <1>5 DEF Proper, Peers, c
  <1>. QED
    BY <1>3, <1>6 DEF m, c

\* What get_operations_since returns is operations of the log.
LEMMA DeltaIsFromLog ==
    ASSUME Shape, NEW n \in Node, NEW c \in Clock
    PROVE  /\ get_operations_since(n, c) \in Seq(Operation)
           /\ \A i \in DOMAIN get_operations_since(n, c) : get_operations_since(n, c)[i] \in Ops(n)
  <1>. DEFINE L == op_log[n]
              P == {i \in DOMAIN L : Missing(L[i], c)}
  <1>1. L \in Seq(Operation) /\ P \in SUBSET (DOMAIN L)
    BY DEF Shape
  <1>2. get_operations_since(n, c) = Entries(L, P)
    BY Zenon DEF get_operations_since
  <1>. HIDE DEF L, P
  <1>3. PICK pos \in [1..Cardinality(P) -> P] :
              Entries(L, P) = [i \in 1..Cardinality(P) |-> L[pos[i]]]
    BY <1>1, EntriesKeepOrder
  <1>4. Cardinality(P) \in Nat
    <2>1. Len(L) \in Nat /\ DOMAIN L = 1..Len(L)
      BY <1>1
    <2>2. IsFiniteSet(DOMAIN L)
      BY <2>1, FS_Interval
    <2>. QED
      BY <1>1, <2>2, FS_Subset, FS_CardinalityType
  <1>5. \A i \in 1..Cardinality(P) : L[pos[i]] \in Operation /\ L[pos[i]] \in Ops(n)
    BY <1>1 DEF Ops, L
  <1>. QED
    BY <1>2, <1>3, <1>4, <1>5

\* A node composes proper messages.
LEMMA ComposesProper ==
    ASSUME Shape, GossipShape, NEW n \in Node, NEW m, Composes(n, m)
    PROVE  Proper(m)
  <1>1. PICK p \in Peers(n) : Plain(n, p, m) \/ Pushes(n, p, m) \/ PushPulls(n, p, m) \/ Responds(n, p, m)
    BY DEF Composes
  <1>2. /\ op_log[n] \in Seq(Operation) /\ \A j \in DOMAIN op_log[n] : op_log[n][j] \in Ops(n)
    BY DEF Shape, Ops
  <1>3. /\ Recent(op_log[n]) \in Seq(Operation)
        /\ \A i \in DOMAIN Recent(op_log[n]) : Recent(op_log[n])[i] \in Ops(n)
    BY <1>2, RecentIsTail
  <1>4. {"GOSSIP_PUSH", "GOSSIP_PULL", "GOSSIP_PUSH_PULL", "HEARTBEAT", "ANTI_ENTROPY_REQ",
         "ANTI_ENTROPY_RES"} = MessageTypes
    BY DEF MessageTypes
  <1>5. CASE Plain(n, p, m)
    <2>1. PICK type \in MessageTypes : m = Message(type, n, p, <<>>)
      BY <1>4, <1>5 DEF Plain
    <2>. DEFINE none == <<>>
    <2>2. none \in Seq(Operation) /\ \A i \in DOMAIN none : none[i] \in Ops(n)
      OBVIOUS
    <2>. HIDE DEF none
    <2>3. Proper(Message(type, n, p, none))
      BY <2>2, MessageIsProper
    <2>. QED
      BY <2>1, <2>3 DEF none
  <1>6. CASE Pushes(n, p, m)
    <2>1. "GOSSIP_PUSH" \in MessageTypes
      BY <1>4
    <2>. QED
      BY <1>3, <1>6, <2>1, MessageIsProper DEF Pushes
  <1>7. CASE PushPulls(n, p, m)
    <2>. DEFINE m0 == Message("GOSSIP_PUSH_PULL", n, p, Recent(op_log[n]))
    <2>1. PICK c \in Clock : m = [m0 EXCEPT !.sender_clock = c]
      BY <1>7 DEF PushPulls
    <2>2. "GOSSIP_PUSH_PULL" \in MessageTypes /\ "GOSSIP_PUSH_PULL" \in Asks
      BY <1>4 DEF Asks
    <2>3. Proper(m0) /\ m0.type = "GOSSIP_PUSH_PULL"
      BY <1>3, <2>2, MessageIsProper
    <2>. HIDE DEF m0
    <2>4. m \in Msg /\ m.to = m0.to /\ m.sender_id = m0.sender_id /\ m.type = m0.type
          /\ m.operations = m0.operations
      BY <2>1, <2>3 DEF Proper, Msg
    <2>. QED
      BY <2>2, <2>3, <2>4 DEF Proper
  <1>8. CASE Responds(n, p, m)
    <2>1. PICK q, type, operations :
               /\ handling[n] = <<q>> /\ type \in {"GOSSIP_PUSH", "ANTI_ENTROPY_RES"}
               /\ operations \in {get_operations_since(n, q.sender_clock),
                                  First20(get_operations_since(n, q.sender_clock))}
               /\ m = Message(type, n, p, operations)
      BY <1>8, Zenon DEF Responds
    <2>2. q.sender_clock \in Clock
      BY <2>1 DEF GossipShape, InTransit, Proper, Msg
    <2>3. /\ operations \in Seq(Operation)
          /\ \A i \in DOMAIN operations : operations[i] \in Ops(n)
      BY <2>1, <2>2, DeltaIsFromLog, First20IsPrefix
    <2>4. type \in MessageTypes
      BY <1>4, <2>1
    <2>. QED
      BY <2>1, <2>3, <2>4, MessageIsProper
  <1>. QED
    BY <1>1, <1>5, <1>6, <1>7, <1>8

\* What is in transit after a step that touches no book.
LEMMA TransitAfterEngineStep ==
    ASSUME GossipShape, NEW n \in Node, EngineStep(n), NEW m, InTransit(m)'
    PROVE  InTransit(m) \/ (Composes(n, m) /\ m \in network' \ network)
  <1>1. CASE m \in network'
    BY <1>1 DEF EngineStep, InTransit
  <1>2. ASSUME NEW k \in Node, handling'[k] = <<m>> PROVE InTransit(m)
    BY <1>2 DEF EngineStep, InTransit, GossipShape
  <1>. QED
    BY <1>1, <1>2 DEF InTransit

\* Applying the next operation of a message delivers an operation of the sender's log.
LEMMA ApplyIsDelivery ==
    ASSUME Shape, GossipShape, NEW n \in Node, apply_next(n)
    PROVE  \E m \in Msg :
              /\ handling[n] = <<m>> /\ m.operations # <<>> /\ m.sender_id \in Node \ {n}
              /\ Head(m.operations) = m.operations[1]
              /\ Tail(m.operations) \in Seq(Operation)
              /\ Len(Tail(m.operations)) = Len(m.operations) - 1
              /\ \A i \in 1..(Len(m.operations) - 1) : Tail(m.operations)[i] = m.operations[i + 1]
              /\ apply_remote_operation(n, m.operations[1])
              /\ \E i \in DOMAIN op_log[m.sender_id] : m.operations[1] = OnWire(op_log[m.sender_id][i])
              /\ \/ handling' = [handling EXCEPT ![n] = <<>>]
                 \/ handling' = [handling EXCEPT ![n] = <<[m EXCEPT !.operations = Tail(m.operations)]>>]
              /\ UNCHANGED <<alive, network, round>>
  <1>1. handling[n] # <<>>
    BY DEF apply_next
  <1>2. PICK m \in Msg : handling[n] = <<m>>
    BY <1>1 DEF GossipShape
  <1>3. Proper(m) /\ m.to = n /\ handling[n][1] = m
    BY <1>2 DEF GossipShape, InTransit
  <1>4. m.sender_id \in Node \ {n} /\ m.operations \in Seq(Operation)
    BY <1>3 DEF Proper, Msg
  <1>5. /\ m.operations # <<>> /\ apply_remote_operation(n, Head(m.operations))
        /\ handling' = [handling EXCEPT ![n] = Pending([m EXCEPT !.operations = Tail(m.operations)])]
        /\ UNCHANGED <<alive, network, round>>
    BY <1>3 DEF apply_next
  <1>6. /\ Head(m.operations) = m.operations[1]
        /\ Tail(m.operations) \in Seq(Operation)
        /\ Len(Tail(m.operations)) = Len(m.operations) - 1
        /\ \A i \in 1..(Len(m.operations) - 1) : Tail(m.operations)[i] = m.operations[i + 1]
    BY <1>4, <1>5
  <1>7. \E i \in DOMAIN op_log[m.sender_id] : m.operations[1] = OnWire(op_log[m.sender_id][i])
    <2>1. 1 \in DOMAIN m.operations
      BY <1>4, <1>5
    <2>. QED
      BY <1>3, <2>1 DEF Proper, Ops
  <1>. QED
    BY <1>2, <1>4, <1>5, <1>6, <1>7, PendingCases

\* Every step of the engine is a step of the replicated book, or none, and keeps the types.
LEMMA GossipShapePreserved ==
    ASSUME Shape, IdsIssued, GossipShape, [GossipNext]_<<vars, engine>>
    PROVE  [Next]_vars /\ GossipShape'
  <1>1. ASSUME [Next]_vars PROVE \A m : Proper(m) => Proper(m)'
    <2>1. \A n \in Node : Ops(n) \subseteq Ops(n)'
      BY <1>1, LogsGrow
    <2>2. \A m \in Msg : m.sender_id \in Node
      BY DEF Msg
    <2>. QED
      BY <2>1, <2>2 DEF Proper
  <1>2. ASSUME [Next]_vars, UNCHANGED engine PROVE GossipShape'
    <2>1. \A m : InTransit(m)' => InTransit(m)
      BY <1>2 DEF engine, InTransit
    <2>2. \A m : InTransit(m)' => Proper(m)'
      BY <1>1, <1>2, <2>1 DEF GossipShape
    <2>. QED
      BY <1>2, <2>2 DEF engine, GossipShape
  <1>3. CASE UNCHANGED <<vars, engine>>
    BY <1>2, <1>3
  <1>4. ASSUME NEW n \in Node, Client(n) PROVE [Next]_vars /\ GossipShape'
    <2>1. Next
      BY <1>4 DEF Client, Next
    <2>. QED
      BY <1>2, <1>4, <2>1 DEF Client
  <1>5. ASSUME NEW n \in Node, apply_next(n) PROVE [Next]_vars /\ GossipShape'
    <2>1. PICK m \in Msg :
              /\ handling[n] = <<m>> /\ m.sender_id \in Node \ {n}
              /\ m.operations # <<>>
              /\ Tail(m.operations) \in Seq(Operation)
              /\ Len(Tail(m.operations)) = Len(m.operations) - 1
              /\ \A i \in 1..(Len(m.operations) - 1) : Tail(m.operations)[i] = m.operations[i + 1]
              /\ apply_remote_operation(n, m.operations[1])
              /\ \E i \in DOMAIN op_log[m.sender_id] : m.operations[1] = OnWire(op_log[m.sender_id][i])
              /\ \/ handling' = [handling EXCEPT ![n] = <<>>]
                 \/ handling' = [handling EXCEPT ![n] = <<[m EXCEPT !.operations = Tail(m.operations)]>>]
              /\ UNCHANGED <<alive, network, round>>
      BY <1>5, ApplyIsDelivery
    <2>2. Next
      BY <2>1 DEF Next, Deliver
    <2>. DEFINE rest == [m EXCEPT !.operations = Tail(m.operations)]
    <2>3. Proper(m) /\ m.to = n
      BY <2>1 DEF GossipShape, InTransit
    <2>4. Proper(rest) /\ rest.to = n /\ rest \in Msg
      <3>1. /\ rest \in Msg /\ rest.to = m.to /\ rest.sender_id = m.sender_id
            /\ rest.type = m.type /\ rest.sender_clock = m.sender_clock
            /\ rest.operations = Tail(m.operations)
        BY <2>1 DEF Msg
      <3>2. m.operations \in Seq(Operation) /\ Len(m.operations) \in Nat
        BY DEF Msg
      <3>3. \A i \in DOMAIN rest.operations : /\ i + 1 \in DOMAIN m.operations
                                              /\ rest.operations[i] = m.operations[i + 1]
        BY <2>1, <3>1, <3>2
      <3>. HIDE DEF rest
      <3>. QED
        BY <2>3, <3>1, <3>3 DEF Proper
    <2>. HIDE DEF rest
    <2>5. handling' = [handling EXCEPT ![n] = <<>>] \/ handling' = [handling EXCEPT ![n] = <<rest>>]
      BY <2>1 DEF rest
    <2>6. \A x : InTransit(x)' => InTransit(x) \/ x = rest
      BY <2>1, <2>5 DEF InTransit, GossipShape
    <2>7. \A x : InTransit(x)' => Proper(x)'
      BY <1>1, <2>2, <2>4, <2>6 DEF GossipShape
    <2>8. /\ handling' \in [Node -> {<<>>} \cup {<<x>> : x \in Msg}]
          /\ \A k \in Node : \A x : handling'[k] = <<x>> => x.to = k
      BY <2>4, <2>5 DEF GossipShape
    <2>. QED
      BY <2>1, <2>2, <2>7, <2>8 DEF GossipShape
  <1>6. ASSUME NEW n \in Node, EngineStep(n) PROVE [Next]_vars /\ GossipShape'
    <2>1. UNCHANGED vars
      BY <1>6 DEF EngineStep
    <2>2. \A m : Proper(m) => Proper(m)'
      BY <1>1, <2>1
    <2>3. \A m : InTransit(m)' => Proper(m)'
      BY <1>6, <2>2, TransitAfterEngineStep, ComposesProper DEF GossipShape
    <2>4. /\ handling' \in [Node -> {<<>>} \cup {<<x>> : x \in Msg}]
          /\ \A k \in Node : \A x : handling'[k] = <<x>> => x.to = k
      <3>1. \A m \in network : m \in Msg
        BY DEF GossipShape, InTransit, Proper
      <3>. QED
        BY <1>6, <3>1 DEF EngineStep, GossipShape
    <2>5. /\ round' \in [Node -> {<<>>} \cup {<<r>> : r \in [to : Node, clock : Clock]}]
          /\ \A k \in Node : \A r : round'[k] = <<r>> => r.to # k
      <3>1. \A p \in Peers(n) : [to |-> p, clock |-> clock[n]] \in [to : Node, clock : Clock] /\ p # n
        BY DEF Peers, Shape
      <3>. QED
        BY <1>6, <3>1 DEF EngineStep, GossipShape
    <2>. QED
      BY <1>6, <2>1, <2>3, <2>4, <2>5 DEF EngineStep, GossipShape
  <1>. QED
    BY <1>3, <1>4, <1>5, <1>6, GossipSteps

\* It starts with the types.
LEMMA GossipShapeInitially == GossipInit => GossipShape
    BY DEF GossipInit, GossipShape, InTransit, Peers

\* The shapes are inductive.
LEMMA GossipShapes == GossipSpec => [](Shape /\ IdsIssued /\ GossipShape)
  <1>1. GossipInit => Init
    BY DEF GossipInit
  <1>2. /\ Shape /\ IdsIssued /\ GossipShape /\ [GossipNext]_<<vars, engine>>
        => (Shape /\ IdsIssued /\ GossipShape)'
    BY GossipShapePreserved, TypesPreserved
  <1>. QED
    BY <1>1, <1>2, GossipShapeInitially, TypesInitially, PTL DEF GossipSpec

\* The engine implements replication over any network: whatever a node does with what
\* it is sent, its book sees only local operations and operations of other nodes' logs
\* as the wire leaves them, one at a time.
THEOREM GossipReplicates == GossipSpec => ImplementsReplication
  <1>1. GossipInit => Init
    BY DEF GossipInit
  <1>2. Shape /\ IdsIssued /\ GossipShape /\ [GossipNext]_<<vars, engine>> => [Next]_vars
    BY GossipShapePreserved
  <1>. QED
    BY <1>1, <1>2, GossipShapes, PTL DEF GossipSpec, ImplementsReplication, Spec

\* Every reachable state of the engine has its types: no node gossips with itself, and
\* every message in the network or in a receive thread is whole.
THEOREM GossipTypeCorrect == GossipSpec => []GossipTypeOK
  <1>1. ASSUME Shape, IdsIssued, GossipShape PROVE GossipTypeOK
    <2>0. TypeOK
      BY <1>1, TypesFromShape
    <2>1. ASSUME NEW m, Proper(m) PROVE IsMessage(m)
      <3>1. /\ m.type \in MessageTypes /\ m.sender_id \in Node /\ m.to \in Peers(m.sender_id)
            /\ m.sender_clock \in Clock /\ m.operations \in Seq(Operation)
        BY <2>1 DEF Proper, Msg, Peers
      <3>2. IsClock(m.sender_clock, Node)
        BY <3>1, ClockType
      <3>3. ASSUME NEW i \in DOMAIN m.operations PROVE IsOperation(m.operations[i])
        <4>1. PICK o \in Ops(m.sender_id) : m.operations[i] = OnWire(o)
          BY <2>1 DEF Proper
        <4>2. PICK op \in Operation : op = m.operations[i]
          BY <3>1
        <4>3. o \in Operation
          BY <1>1, <3>1, StampType
        <4>4. /\ op.op_id \in 1..issued
              /\ op.type = "ADD_ORDER" => op.order.order_id \in 1..issued
              /\ op.type = "CANCEL_ORDER" => op.cancel_order_id \in 1..issued
          BY <1>1, <3>1, <4>1, <4>2, <4>3, OnWireKeeps DEF IdsIssued, IdsGiven
        <4>5. IsClock(op.clock, Node)
          BY ClockType DEF Operation, AddOperation, CancelOperation
        <4>6. IsOperation(op)
          BY <4>4, <4>5 DEF IsOperation, Operation, AddOperation, CancelOperation
        <4>. QED
          BY <4>2, <4>6
      <3>. QED
        BY <2>1, <3>1, <3>2, <3>3 DEF IsMessage, Proper
    <2>2. \A m \in network : IsMessage(m)
      BY <1>1, <2>1 DEF GossipShape, InTransit
    <2>3. ASSUME NEW n \in Node, handling[n] # <<>>
          PROVE  Len(handling[n]) = 1 /\ IsMessage(handling[n][1]) /\ handling[n][1].to = n
      <3>1. PICK m : handling[n] = <<m>>
        BY <1>1, <2>3 DEF GossipShape
      <3>2. Proper(m) /\ m.to = n
        BY <1>1, <3>1 DEF GossipShape, InTransit
      <3>. QED
        BY <2>1, <3>1, <3>2
    <2>4. ASSUME NEW n \in Node, round[n] # <<>>
          PROVE  /\ Len(round[n]) = 1 /\ round[n][1].to \in Peers(n)
                 /\ IsClock(round[n][1].clock, Node)
      <3>1. PICK r \in [to : Node, clock : Clock] : round[n] = <<r>>
        BY <1>1, <2>4 DEF GossipShape
      <3>2. r.to # n /\ IsClock(r.clock, Node)
        BY <1>1, <3>1, ClockType DEF GossipShape
      <3>. QED
        BY <3>1, <3>2 DEF Peers
    <2>. QED
      BY <1>1, <2>0, <2>2, <2>3, <2>4 DEF GossipTypeOK, GossipShape
  <1>. QED
    BY <1>1, GossipShapes, PTL

-----------------------------------------------------------------------------
(* The order of arrival.                                                   *)

\* n applied every operation after those before it.
InOrder(n) ==
    \A i \in DOMAIN op_log[n] : \A s \in Stamps :
        happens_before(s.clock, op_log[n][i].clock) =>
            \E j \in 1..(i - 1) : op_log[n][j].op_id = s.op_id

\* What comes before an operation of m comes before it in m, or has arrived already.
Carries(m) ==
    \A i \in DOMAIN m.operations : \A s \in Stamps :
        happens_before(s.clock, m.operations[i].clock) =>
            \/ s.op_id \in seen_ops[m.to]
            \/ \E j \in 1..(i - 1) : m.operations[j].op_id = s.op_id

\* A request's clock counts nothing its sender does not count.
Asked(m) == m.type \in Asks => Below(m.sender_clock, clock[m.sender_id])

\* Logs are in causal order, and so is whatever may yet be added to them.
OrderedInv ==
    /\ \A n \in Node : InOrder(n)
    /\ \A m : InTransit(m) => Carries(m) /\ Asked(m)
    /\ \A n \in Node : \A r : round[n] = <<r>> => Below(r.clock, clock[n])

\* Below is a preorder on clocks.
LEMMA BelowTransitive ==
    ASSUME NEW c \in Clock, NEW d \in Clock, NEW e \in Clock
    PROVE  Below(c, c) /\ (Below(c, d) /\ Below(d, e) => Below(c, e))
    BY CountIsNat DEF Below

\* What happens before a clock is below it.
LEMMA BeforeIsBelow ==
    ASSUME NEW c \in Clock, NEW d \in Clock
    PROVE  happens_before(c, d) => Below(c, d)
  <1>1. IsClock(c, Node) /\ IsClock(d, Node)
    BY ClockType
  <1>. QED
    BY <1>1, BeforeCounts, DominatesBelow

\* Clocks, and the sets of seen operations, only grow.
LEMMA ClocksGrow ==
    ASSUME Shape, IdsIssued, CausalInv, [Next]_vars
    PROVE  /\ \A n \in Node : Below(clock[n], clock'[n]) /\ seen_ops[n] \subseteq seen_ops'[n]
           /\ issued <= MaxOps => issued' <= MaxOps
  <1>0. TypeOK
    BY TypesFromShape
  <1>1. \A n \in Node : Below(clock[n], clock[n]) /\ \A k \in Node : at(clock[n], k) \in Nat
    BY BelowTransitive, CountIsNat DEF Shape
  <1>2. CASE UNCHANGED vars
    BY <1>1, <1>2 DEF vars
  <1>3. ASSUME NEW n \in Node, clock' = [clock EXCEPT ![n] = tick(clock[n], n)]
        PROVE  \A k \in Node : Below(clock[k], clock'[k])
    <2>1. /\ \A k \in Node \ {n} : clock'[k] = clock[k]
          /\ at(clock'[n], n) = at(clock[n], n) + 1
          /\ \A k \in Node \ {n} : at(clock'[n], k) = at(clock[n], k)
      BY <1>3, TickEffect
    <2>2. Below(clock[n], clock'[n])
      BY <1>1, <2>1 DEF Below
    <2>. QED
      BY <1>1, <2>1, <2>2
  <1>4. ASSUME NEW n \in Node, NEW op \in Operation, Record(n, op)
        PROVE  \A k \in Node : seen_ops[k] \subseteq seen_ops'[k]
    BY <1>4, RecordEffect
  <1>5. ASSUME NEW n \in Node, NEW op \in Operation, Issues(n, op)
        PROVE  /\ \A k \in Node : Below(clock[k], clock'[k]) /\ seen_ops[k] \subseteq seen_ops'[k]
               /\ issued <= MaxOps => issued' <= MaxOps
    <2>1. /\ clock' = [clock EXCEPT ![n] = tick(clock[n], n)] /\ Record(n, op)
          /\ issued' = issued + 1 /\ issued < MaxOps
      BY <1>5 DEF Issues
    <2>2. issued' <= MaxOps
      BY <2>1, BoundAssumption DEF Shape
    <2>. QED
      BY <1>3, <1>4, <2>1, <2>2
  <1>6. ASSUME NEW n \in Node, NEW b, OnlyTicks(n, b)
        PROVE  /\ \A k \in Node : Below(clock[k], clock'[k]) /\ seen_ops[k] \subseteq seen_ops'[k]
               /\ issued <= MaxOps => issued' <= MaxOps
    BY <1>3, <1>6 DEF OnlyTicks
  <1>7. ASSUME NEW n \in Node, NEW m \in Node \ {n}, NEW i \in DOMAIN op_log[m], Receives(n, m, i)
        PROVE  /\ \A k \in Node : Below(clock[k], clock'[k]) /\ seen_ops[k] \subseteq seen_ops'[k]
               /\ issued <= MaxOps => issued' <= MaxOps
    <2>1. PICK op \in Operation : op = OnWire(op_log[m][i])
      BY ReceivedOperation
    <2>2. Record(n, op) /\ clock' = [clock EXCEPT ![n] = merge(clock[n], op.clock)] /\ issued' = issued
      BY <1>7, <2>1 DEF Receives
    <2>3. /\ clock[n] \in Clock /\ op.clock \in Clock
          /\ IsClock(clock[n], Node) /\ IsClock(op.clock, Node)
      BY ClockType DEF Shape, Operation, AddOperation, CancelOperation
    <2>4. \A k : at(merge(clock[n], op.clock), k) =
                   IF at(clock[n], k) >= at(op.clock, k) THEN at(clock[n], k) ELSE at(op.clock, k)
      BY <2>3, MergeCounts
    <2>5. \A k \in Node : at(op.clock, k) \in Nat
      BY <2>3, CountIsNat
    <2>6. Below(clock[n], merge(clock[n], op.clock))
      BY <1>1, <2>4, <2>5 DEF Below
    <2>7. \A k \in Node : Below(clock[k], clock'[k])
      BY <1>1, <2>2, <2>6 DEF Shape
    <2>. QED
      BY <1>4, <2>2, <2>7
  <1>. QED
    BY <1>0, <1>2, <1>5, <1>6, <1>7, StepCases

\* No step puts an operation before one that there is.
LEMMA NothingNewBefore ==
    ASSUME Shape, IdsIssued, CausalInv, [Next]_vars
    PROVE  /\ Stamps \subseteq Stamps'
           /\ \A a \in Stamps : \A s \in Stamps' : happens_before(s.clock, a.clock) => s \in Stamps
  <1>0. TypeOK
    BY TypesFromShape
  <1>1. CASE UNCHANGED vars
    BY <1>1 DEF vars, Stamps, StampsOf, Ops
  <1>2. ASSUME NEW n \in Node, NEW op \in Operation, Issues(n, op)
        PROVE  /\ Stamps \subseteq Stamps'
               /\ \A a \in Stamps : \A s \in Stamps' : happens_before(s.clock, a.clock) => s \in Stamps
    <2>1. clock' = [clock EXCEPT ![n] = tick(clock[n], n)] /\ Record(n, op) /\ op.clock = tick(clock[n], n)
      BY <1>2 DEF Issues
    <2>2. Stamps' = Stamps \cup {Stamp(op)} /\ Stamp(op).clock = op.clock
      BY <2>1, StampRecorded DEF Stamp
    <2>3. /\ op.clock = clock'[n] /\ clock'[n] \in Clock
          /\ \A s \in Stamps : at(s.clock, n) < at(clock'[n], n)
      BY <2>1, TickEffect
    <2>4. ASSUME NEW a \in Stamps, happens_before(op.clock, a.clock) PROVE FALSE
      <3>1. a.clock \in Clock /\ op.clock \in Clock
        BY <2>3, StampType
      <3>2. at(op.clock, n) <= at(a.clock, n) /\ at(a.clock, n) < at(op.clock, n)
        BY <2>3, <2>4, <3>1, BeforeIsBelow DEF Below
      <3>3. at(op.clock, n) \in Nat /\ at(a.clock, n) \in Nat
        BY <3>1, CountIsNat
      <3>. QED
        BY <3>2, <3>3
    <2>. QED
      BY <2>2, <2>4
  <1>3. ASSUME NEW n \in Node, NEW b, OnlyTicks(n, b) PROVE Stamps' = Stamps
    BY <1>3 DEF OnlyTicks, Stamps, StampsOf, Ops
  <1>4. ASSUME NEW n \in Node, NEW m \in Node \ {n}, NEW i \in DOMAIN op_log[m], Receives(n, m, i)
        PROVE  Stamps' = Stamps
    <2>1. PICK op \in Operation : op = OnWire(op_log[m][i])
      BY ReceivedOperation
    <2>2. Record(n, op)
      BY <1>4, <2>1 DEF Receives
    <2>3. Stamp(op) \in Stamps
      BY <2>1, ReceivedOperation, OnWireKeeps DEF Stamps, StampsOf, Stamp
    <2>. QED
      BY <2>2, <2>3, StampRecorded
  <1>. QED
    BY <1>0, <1>1, <1>2, <1>3, <1>4, StepCases

\* The operations of a message are issued ones.
LEMMA MessageStamps ==
    ASSUME Shape, NEW m, Proper(m), NEW i \in DOMAIN m.operations
    PROVE  /\ m.operations[i] \in Operation /\ m.operations[i].clock \in Clock
           /\ \E a \in Stamps : a.clock = m.operations[i].clock /\ a.op_id = m.operations[i].op_id
  <1>1. PICK o \in Ops(m.sender_id) : m.operations[i] = OnWire(o)
    BY DEF Proper
  <1>2. m.sender_id \in Node
    BY DEF Proper, Msg
  <1>3. Stamp(o) \in Stamps /\ o \in Operation /\ Stamp(o).clock = o.clock /\ Stamp(o).op_id = o.op_id
    BY <1>1, <1>2, OperationStamped
  <1>4. OnWire(o) \in Operation /\ OnWire(o).clock = o.clock /\ OnWire(o).op_id = o.op_id
    BY <1>3, OnWireKeeps
  <1>5. o.clock \in Clock
    BY <1>3 DEF Operation, AddOperation, CancelOperation
  <1>. QED
    BY <1>1, <1>3, <1>4, <1>5

\* A node in order is in the causal order of the property, and has no gap.
LEMMA InOrderCloses ==
    ASSUME Shape, NoOperationTwice, NEW n \in Node, InOrder(n)
    PROVE  AppliedInCausalOrder(n) /\ CausallyClosed(n)
  <1>1. ASSUME NEW i \in DOMAIN op_log[n], NEW k \in Node, NEW b \in Ops(k),
               happens_before(b.clock, op_log[n][i].clock)
        PROVE  \E j \in 1..(i - 1) : op_log[n][j].op_id = b.op_id
    <2>1. Stamp(b) \in Stamps /\ Stamp(b).clock = b.clock /\ Stamp(b).op_id = b.op_id
      BY OperationStamped
    <2>. QED
      BY <1>1, <2>1 DEF InOrder
  <1>2. AppliedInCausalOrder(n)
    BY <1>1 DEF AppliedInCausalOrder
  <1>3. ASSUME NEW a \in Ops(n), NEW k \in Node, NEW b \in Ops(k), happens_before(b.clock, a.clock)
        PROVE  b.op_id \in seen_ops[n]
    <2>1. PICK i \in DOMAIN op_log[n] : a = op_log[n][i]
      BY DEF Ops
    <2>2. PICK j \in 1..(i - 1) : op_log[n][j].op_id = b.op_id
      BY <1>1, <1>3, <2>1
    <2>3. DOMAIN op_log[n] = 1..Len(op_log[n]) /\ Len(op_log[n]) \in Nat
      BY DEF Shape
    <2>4. op_log[n][j] \in Ops(n)
      BY <2>3 DEF Ops
    <2>. QED
      BY <2>2, <2>4 DEF NoOperationTwice
  <1>. QED
    BY <1>2, <1>3 DEF CausallyClosed

\* A message in transit goes on carrying what its operations come after.
LEMMA CarriesKept ==
    ASSUME Shape, IdsIssued, CausalInv, [Next]_vars, NEW m, Proper(m), Carries(m), Asked(m)
    PROVE  Carries(m)' /\ Asked(m)'
  <1>1. /\ \A n \in Node : Below(clock[n], clock'[n]) /\ seen_ops[n] \subseteq seen_ops'[n]
        /\ \A a \in Stamps : \A s \in Stamps' : happens_before(s.clock, a.clock) => s \in Stamps
    BY ClocksGrow, NothingNewBefore
  <1>2. m.to \in Node /\ m.sender_id \in Node /\ m.sender_clock \in Clock
    BY DEF Proper, Msg
  <1>3. ASSUME NEW i \in DOMAIN m.operations, NEW s \in Stamps',
               happens_before(s.clock, m.operations[i].clock)
        PROVE  \/ s.op_id \in seen_ops'[m.to]
               \/ \E j \in 1..(i - 1) : m.operations[j].op_id = s.op_id
    <2>1. s \in Stamps
      BY <1>1, <1>3, MessageStamps
    <2>. QED
      BY <1>1, <1>2, <1>3, <2>1 DEF Carries
  <1>4. ASSUME m.type \in Asks PROVE Below(m.sender_clock, clock'[m.sender_id])
    <2>1. clock[m.sender_id] \in Clock /\ clock'[m.sender_id] \in Clock
      BY <1>2, TypesPreserved DEF Shape
    <2>. QED
      BY <1>1, <1>2, <1>4, <2>1, BelowTransitive DEF Asked
  <1>. QED
    BY <1>3, <1>4 DEF Carries, Asked

\* After its first operation is applied, so does the rest of it.
LEMMA RestCarries ==
    ASSUME NEW m \in Msg, NEW rest, Carries(m)', m.operations # <<>>,
           m.operations[1].op_id \in seen_ops'[m.to], rest.to = m.to,
           rest.operations \in Seq(Operation),
           Len(rest.operations) = Len(m.operations) - 1,
           \A i \in 1..(Len(m.operations) - 1) : rest.operations[i] = m.operations[i + 1]
    PROVE  Carries(rest)'
  <1>1. m.operations \in Seq(Operation)
    BY DEF Msg
  <1>2. /\ DOMAIN m.operations = 1..Len(m.operations) /\ Len(m.operations) \in Nat
        /\ DOMAIN rest.operations = 1..(Len(m.operations) - 1)
    BY <1>1
  <1>3. ASSUME NEW i \in DOMAIN rest.operations, NEW s \in Stamps',
               happens_before(s.clock, rest.operations[i].clock)
        PROVE  \/ s.op_id \in seen_ops'[rest.to]
               \/ \E j \in 1..(i - 1) : rest.operations[j].op_id = s.op_id
    <2>1. i + 1 \in DOMAIN m.operations /\ rest.operations[i] = m.operations[i + 1]
      BY <1>2
    <2>2. \/ s.op_id \in seen_ops'[m.to]
          \/ \E j \in 1..((i + 1) - 1) : m.operations[j].op_id = s.op_id
      BY <1>3, <2>1 DEF Carries
    <2>3. ASSUME NEW j \in 1..((i + 1) - 1), m.operations[j].op_id = s.op_id, j # 1
          PROVE  \E h \in 1..(i - 1) : rest.operations[h].op_id = s.op_id
      <3>1. j - 1 \in 1..(i - 1) /\ j - 1 \in 1..(Len(m.operations) - 1) /\ (j - 1) + 1 = j
        BY <1>2, <2>3
      <3>2. rest.operations[j - 1] = m.operations[j]
        BY <3>1
      <3>. QED
        BY <2>3, <3>1, <3>2
    <2>. QED
      BY <2>2, <2>3
  <1>. QED
    BY <1>3 DEF Carries

\* Recording an operation that comes after nothing the node lacks keeps the log in order.
LEMMA OrderRecorded ==
    ASSUME Shape, IdsIssued, CausalInv, NoOperationTwice, [Next]_vars,
           NEW n \in Node, NEW op \in Operation, Record(n, op), \A k \in Node : InOrder(k),
           \A s \in Stamps' : happens_before(s.clock, op.clock) => s.op_id \in seen_ops[n]
    PROVE  \A k \in Node : InOrder(k)'
  <1>. DEFINE len == Len(op_log[n])
  <1>1. /\ len \in Nat /\ DOMAIN op_log[n] = 1..len
        /\ DOMAIN op_log'[n] = 1..(len + 1)
        /\ \A i \in DOMAIN op_log[n] : op_log'[n][i] = op_log[n][i]
        /\ op_log'[n][len + 1] = op
        /\ \A k \in Node \ {n} : op_log'[k] = op_log[k]
    BY RecordEffect
  <1>. HIDE DEF len
  <1>2. ASSUME NEW k \in Node, NEW i \in DOMAIN op_log[k], NEW s \in Stamps',
               happens_before(s.clock, op_log[k][i].clock)
        PROVE  \E j \in 1..(i - 1) : op_log[k][j].op_id = s.op_id
    <2>1. PICK x \in Ops(k) : x = op_log[k][i]
      BY DEF Ops
    <2>2. Stamp(x) \in Stamps /\ Stamp(x).clock = x.clock
      BY OperationStamped
    <2>3. s \in Stamps
      BY <1>2, <2>1, <2>2, NothingNewBefore
    <2>. QED
      BY <1>2, <2>3 DEF InOrder
  <1>3. ASSUME NEW i \in DOMAIN op_log'[n], NEW s \in Stamps',
               happens_before(s.clock, op_log'[n][i].clock)
        PROVE  \E j \in 1..(i - 1) : op_log'[n][j].op_id = s.op_id
    <2>1. CASE i \in DOMAIN op_log[n]
      <3>1. PICK j \in 1..(i - 1) : op_log[n][j].op_id = s.op_id
        BY <1>1, <1>2, <1>3, <2>1
      <3>2. j \in DOMAIN op_log[n]
        BY <1>1, <2>1
      <3>. QED
        BY <1>1, <3>1, <3>2
    <2>2. CASE i = len + 1
      <3>1. s.op_id \in seen_ops[n]
        BY <1>1, <1>3, <2>2
      <3>2. PICK x \in Ops(n) : x.op_id = s.op_id
        BY <3>1 DEF NoOperationTwice
      <3>3. PICK j \in DOMAIN op_log[n] : op_log[n][j] = x
        BY DEF Ops
      <3>4. j \in 1..(i - 1) /\ op_log'[n][j] = x
        BY <1>1, <2>2, <3>3
      <3>. QED
        BY <3>2, <3>4
    <2>. QED
      BY <1>1, <2>1, <2>2
  <1>4. InOrder(n)'
    BY <1>3 DEF InOrder
  <1>5. \A k \in Node \ {n} : InOrder(k)'
    BY <1>1, <1>2 DEF InOrder
  <1>. QED
    BY <1>4, <1>5

\* An operation a node issues comes after operations it has.
LEMMA IssuedInOrder ==
    ASSUME Shape, IdsIssued, CausalInv, NoOperationTwice, [Next]_vars,
           NEW n \in Node, NEW op \in Operation, Issues(n, op), \A k \in Node : InOrder(k)
    PROVE  \A k \in Node : InOrder(k)'
  <1>1. /\ clock' = [clock EXCEPT ![n] = tick(clock[n], n)] /\ Record(n, op)
        /\ op.clock = tick(clock[n], n)
    BY DEF Issues
  <1>2. Stamps' = Stamps \cup {Stamp(op)} /\ Stamp(op).clock = op.clock
    BY <1>1, StampRecorded DEF Stamp
  <1>3. /\ op.clock = clock'[n] /\ clock'[n] \in Clock
        /\ at(clock'[n], n) = at(clock[n], n) + 1
        /\ \A k \in Node \ {n} : at(clock'[n], k) = at(clock[n], k)
        /\ \A s \in Stamps : at(s.clock, n) < at(clock'[n], n)
    BY <1>1, TickEffect
  <1>4. ASSUME NEW s \in Stamps', happens_before(s.clock, op.clock) PROVE s.op_id \in seen_ops[n]
    <2>1. op.clock \in Clock /\ IsClock(op.clock, Node) /\ \A k : at(op.clock, k) \in Nat
      BY <1>3, ClockType, CountIsNat
    <2>2. s \in Stamps
      <3>1. ~happens_before(op.clock, op.clock)
        BY <2>1, BeforeCounts
      <3>. QED
        BY <1>2, <1>4, <3>1
    <2>3. s.clock \in Clock
      BY <2>2, StampType
    <2>4. Below(s.clock, op.clock) /\ \A k : at(s.clock, k) \in Nat /\ at(clock[n], k) \in Nat
      BY <1>4, <2>1, <2>3, BeforeIsBelow, CountIsNat DEF Shape
    <2>5. Below(s.clock, clock[n])
      BY <1>3, <2>2, <2>4 DEF Below
    <2>6. PICK k \in Node : s \in StampsOf(k)
      BY <2>2 DEF Stamps
    <2>7. PICK x \in Ops(k) : s = Stamp(x)
      BY <2>6 DEF StampsOf
    <2>8. s.clock = x.clock /\ s.op_id = x.op_id
      BY <2>7 DEF Stamp
    <2>9. CausallyClosed(n)
      BY InOrderCloses
    <2>. QED
      BY <2>5, <2>8, <2>9, CountedIsSeen
  <1>. QED
    BY <1>1, <1>4, OrderRecorded

\* A client keeps every log in order.
LEMMA ClientInOrder ==
    ASSUME Shape, IdsIssued, CausalInv, NoOperationTwice, NEW n \in Node, Client(n),
           \A k \in Node : InOrder(k)
    PROVE  [Next]_vars /\ \A k \in Node : InOrder(k)'
  <1>0. TypeOK
    BY TypesFromShape
  <1>1. [Next]_vars
    BY DEF Client, Next
  <1>2. ASSUME UNCHANGED vars PROVE \A k \in Node : InOrder(k)'
    BY <1>2 DEF vars, InOrder, Stamps, StampsOf, Ops
  <1>3. ASSUME NEW b, OnlyTicks(n, b) PROVE \A k \in Node : InOrder(k)'
    BY <1>3 DEF OnlyTicks, InOrder, Stamps, StampsOf, Ops
  <1>4. ASSUME NEW op \in Operation, Issues(n, op) PROVE \A k \in Node : InOrder(k)'
    BY <1>1, <1>4, IssuedInOrder
  <1>5. ASSUME NEW side \in Side, NEW price \in Price, NEW quantity \in Quantity,
               local_add_order(n, side, price, quantity)
        PROVE  \A k \in Node : InOrder(k)'
    BY <1>0, <1>4, <1>5, AddIssues
  <1>6. ASSUME NEW id \in 1..MaxOps, local_cancel_order(n, id) PROVE \A k \in Node : InOrder(k)'
    <2>1. id \in Nat
      BY BoundAssumption
    <2>. QED
      BY <1>0, <1>2, <1>3, <1>4, <1>6, <2>1, CancelIssues
  <1>7. ASSUME NEW side \in Side, NEW quantity \in MarketQuantity,
               local_market_order(n, side, quantity)
        PROVE  \A k \in Node : InOrder(k)'
    BY <1>0, <1>3, <1>7, MarketOrderOnlyTicks
  <1>. QED
    BY <1>1, <1>5, <1>6, <1>7 DEF Client, LocalOperation

\* p has of n's log all that a push leaves out.
WithinWindow(n, p) ==
    \A i \in DOMAIN op_log[n] : i <= Len(op_log[n]) - MaxGossipOps => op_log[n][i].op_id \in seen_ops[p]

\* Whoever a push goes out to lacks nothing that it leaves out.
PushesSuffice ==
    \A n \in Node : \A p \in Peers(n) :
        (\E m \in network' \ network : Pushes(n, p, m) \/ PushPulls(n, p, m)) => WithinWindow(n, p)

\* A part of n's log that leaves out, of what precedes an operation in it, only what p has.
Follows(n, p, s) ==
    \A i \in DOMAIN s : \E g \in DOMAIN op_log[n] :
        /\ s[i] = op_log[n][g]
        /\ \A h \in 1..(g - 1) : \/ op_log[n][h].op_id \in seen_ops[p]
                                 \/ \E j \in 1..(i - 1) : j \in DOMAIN s /\ s[j] = op_log[n][h]

\* Of a log in order, such a part arrives in order.
LEMMA FollowingCarries ==
    ASSUME Shape, NEW n \in Node, InOrder(n), NEW m, NEW s, Follows(n, m.to, s),
           DOMAIN m.operations = DOMAIN s,
           \A i \in DOMAIN s : m.operations[i] = OnWire(s[i])
    PROVE  Carries(m)
  <1>1. ASSUME NEW i \in DOMAIN s
        PROVE  s[i] \in Ops(n) /\ m.operations[i].clock = s[i].clock /\ m.operations[i].op_id = s[i].op_id
    <2>1. s[i] \in Ops(n)
      BY DEF Follows, Ops
    <2>2. s[i] \in Operation
      BY <2>1, OperationStamped
    <2>. QED
      BY <2>1, <2>2, OnWireKeeps
  <1>2. ASSUME NEW i \in DOMAIN m.operations, NEW a \in Stamps,
               happens_before(a.clock, m.operations[i].clock)
        PROVE  \/ a.op_id \in seen_ops[m.to]
               \/ \E j \in 1..(i - 1) : m.operations[j].op_id = a.op_id
    <2>1. PICK g \in DOMAIN op_log[n] :
              /\ s[i] = op_log[n][g]
              /\ \A h \in 1..(g - 1) : \/ op_log[n][h].op_id \in seen_ops[m.to]
                                       \/ \E j \in 1..(i - 1) : j \in DOMAIN s /\ s[j] = op_log[n][h]
      BY <1>2 DEF Follows
    <2>2. happens_before(a.clock, op_log[n][g].clock)
      BY <1>1, <1>2, <2>1
    <2>3. PICK h \in 1..(g - 1) : op_log[n][h].op_id = a.op_id
      BY <2>2 DEF InOrder
    <2>4. CASE op_log[n][h].op_id \in seen_ops[m.to]
      BY <2>3, <2>4
    <2>5. CASE \E j \in 1..(i - 1) : j \in DOMAIN s /\ s[j] = op_log[n][h]
      <3>1. PICK j \in 1..(i - 1) : j \in DOMAIN s /\ s[j] = op_log[n][h]
        BY <2>5
      <3>2. m.operations[j].op_id = a.op_id
        BY <1>1, <2>3, <3>1
      <3>. QED
        BY <3>2
    <2>. QED
      BY <2>1, <2>4, <2>5
  <1>. QED
    BY <1>2 DEF Carries

\* The push window is such a part if it leaves out only what p has,
LEMMA RecentFollows ==
    ASSUME Shape, NEW n \in Node, NEW p \in Node, WithinWindow(n, p)
    PROVE  Follows(n, p, Recent(op_log[n]))
  <1>. DEFINE L == op_log[n]
              s == Recent(L)
  <1>1. L \in Seq(Operation) /\ DOMAIN L = 1..Len(L) /\ Len(L) \in Nat /\ MaxGossipOps \in Nat
    BY GossipBoundAssumption DEF Shape
  <1>2. PICK from \in Nat \ {0} :
            /\ from = 1 \/ from - 1 = Len(L) - MaxGossipOps
            /\ \A i \in DOMAIN s : /\ i \in Nat \ {0} /\ from + i - 1 \in DOMAIN L
                                   /\ s[i] = L[from + i - 1]
            /\ \A g \in DOMAIN L : g >= from => g - from + 1 \in DOMAIN s
    BY <1>1, RecentPositions
  <1>3. \A h \in DOMAIN L : h < from => L[h].op_id \in seen_ops[p]
    BY <1>1, <1>2 DEF WithinWindow
  <1>. HIDE DEF L, s
  <1>4. ASSUME NEW i \in DOMAIN s
        PROVE  \E g \in DOMAIN L :
                  /\ s[i] = L[g]
                  /\ \A h \in 1..(g - 1) : \/ L[h].op_id \in seen_ops[p]
                                           \/ \E j \in 1..(i - 1) : j \in DOMAIN s /\ s[j] = L[h]
    <2>. DEFINE g == from + i - 1
    <2>1. g \in DOMAIN L /\ s[i] = L[g] /\ i \in Nat \ {0}
      BY <1>2
    <2>2. ASSUME NEW h \in 1..(g - 1), ~(h < from)
          PROVE  \E j \in 1..(i - 1) : j \in DOMAIN s /\ s[j] = L[h]
      <3>. DEFINE j == h - from + 1
      <3>1. h \in DOMAIN L /\ h >= from /\ j \in 1..(i - 1) /\ from + j - 1 = h
        BY <1>1, <2>1, <2>2
      <3>2. j \in DOMAIN s /\ s[j] = L[h]
        <4>1. j \in DOMAIN s
          BY <1>2, <3>1
        <4>. QED
          BY <1>2, <3>1, <4>1
      <3>. QED
        BY <3>1, <3>2
    <2>3. \A h \in 1..(g - 1) : h \in DOMAIN L
      BY <1>1, <2>1
    <2>. QED
      BY <1>3, <2>1, <2>2, <2>3
  <1>5. Follows(n, p, s)
    BY <1>4, Zenon DEF Follows, L
  <1>. QED
    BY <1>5 DEF s, L

\* and so is a beginning of one,
LEMMA PrefixFollows ==
    ASSUME NEW n \in Node, NEW p \in Node, NEW s \in Seq(Operation), Follows(n, p, s)
    PROVE  Follows(n, p, First20(s))
  <1>. DEFINE t == First20(s)
  <1>1. /\ DOMAIN t = 1..Len(t) /\ Len(t) \in Nat /\ DOMAIN s = 1..Len(s) /\ Len(s) \in Nat
        /\ \A i \in DOMAIN t : i \in DOMAIN s /\ t[i] = s[i]
    BY First20IsPrefix
  <1>. HIDE DEF t
  <1>2. ASSUME NEW i \in DOMAIN t
        PROVE  \E g \in DOMAIN op_log[n] :
                  /\ t[i] = op_log[n][g]
                  /\ \A h \in 1..(g - 1) : \/ op_log[n][h].op_id \in seen_ops[p]
                                           \/ \E j \in 1..(i - 1) : j \in DOMAIN t /\ t[j] = op_log[n][h]
    <2>1. PICK g \in DOMAIN op_log[n] :
              /\ s[i] = op_log[n][g]
              /\ \A h \in 1..(g - 1) : \/ op_log[n][h].op_id \in seen_ops[p]
                                       \/ \E j \in 1..(i - 1) : j \in DOMAIN s /\ s[j] = op_log[n][h]
      BY <1>1 DEF Follows
    <2>2. \A j \in 1..(i - 1) : j \in DOMAIN t /\ t[j] = s[j]
      BY <1>1
    <2>. QED
      BY <1>1, <2>1, <2>2
  <1>3. Follows(n, p, t)
    BY <1>2, Zenon DEF Follows
  <1>. QED
    BY <1>3 DEF t

\* and what get_operations_since leaves of it for a clock that p's covers.
LEMMA DeltaFollows ==
    ASSUME Shape, CausalInv, NoOperationTwice, NEW n \in Node, NEW p \in Node, CausallyClosed(p),
           NEW c \in Clock, Below(c, clock[p])
    PROVE  Follows(n, p, get_operations_since(n, c))
  <1>. DEFINE L == op_log[n]
              P == {i \in DOMAIN L : Missing(L[i], c)}
              N == Cardinality(P)
              s == get_operations_since(n, c)
  <1>1. L \in Seq(Operation) /\ P \in SUBSET (DOMAIN L)
    BY DEF Shape
  <1>2. s = Entries(L, P)
    BY Zenon DEF get_operations_since
  <1>3. \A h \in DOMAIN L : h \in P \/ ~Missing(L[h], c)
    OBVIOUS
  <1>4. ASSUME NEW h \in DOMAIN L, ~Missing(L[h], c) PROVE L[h].op_id \in seen_ops[p]
    <2>1. PICK x \in Ops(n) : x = L[h]
      BY DEF Ops
    <2>2. x.clock \in Clock /\ clock[p] \in Clock
      BY OperationStamped DEF Shape
    <2>3. Below(x.clock, c)
      BY <1>4, <2>1, <2>2, UncoveredIsMissing
    <2>4. Below(x.clock, clock[p])
      BY <2>2, <2>3, BelowTransitive
    <2>. QED
      BY <2>1, <2>4, CountedIsSeen
  <1>. HIDE DEF P, s
  <1>5. PICK pos \in [1..N -> P] :
              /\ Entries(L, P) = [i \in 1..N |-> L[pos[i]]]
              /\ \A q \in P : \E i \in 1..N : pos[i] = q
              /\ \A i, j \in 1..N : i < j => pos[i] < pos[j]
    <2>. HIDE DEF L
    <2>. QED
      BY <1>1, EntriesKeepOrder
  <1>6. DOMAIN L = 1..Len(L) /\ Len(L) \in Nat
    BY <1>1
  <1>. HIDE DEF L, N
  <1>7. ASSUME NEW i \in DOMAIN s
        PROVE  \E g \in DOMAIN L :
                  /\ s[i] = L[g]
                  /\ \A h \in 1..(g - 1) : \/ L[h].op_id \in seen_ops[p]
                                           \/ \E j \in 1..(i - 1) : j \in DOMAIN s /\ s[j] = L[h]
    <2>1. i \in 1..N /\ pos[i] \in DOMAIN L /\ s[i] = L[pos[i]]
      BY <1>1, <1>2, <1>5
    <2>2. ASSUME NEW h \in 1..(pos[i] - 1), h \in P
          PROVE  \E j \in 1..(i - 1) : j \in DOMAIN s /\ s[j] = L[h]
      <3>1. PICK j \in 1..N : pos[j] = h
        BY <1>5, <2>2
      <3>2. h < pos[i] /\ h \in Int /\ pos[i] \in Int /\ i \in Int /\ j \in Int
        BY <1>6, <2>1
      <3>5. ~(i < j)
        BY <1>5, <2>1, <3>1, <3>2
      <3>3. j < i
        BY <3>1, <3>2, <3>5
      <3>4. j \in 1..(i - 1)
        BY <2>1, <3>3
      <3>. QED
        BY <1>2, <1>5, <3>1, <3>4
    <2>3. \A h \in 1..(pos[i] - 1) : h \in DOMAIN L
      BY <1>6, <2>1
    <2>4. \A h \in 1..(pos[i] - 1) : \/ L[h].op_id \in seen_ops[p]
                                     \/ \E j \in 1..(i - 1) : j \in DOMAIN s /\ s[j] = L[h]
      BY <1>3, <1>4, <2>2, <2>3
    <2>. QED
      BY <2>1, <2>4
  <1>8. Follows(n, p, s)
    BY <1>7, Zenon DEF Follows, L
  <1>. QED
    BY <1>8 DEF s

\* Whatever a node sends arrives in order, unless the push window is too small for it.
LEMMA ComposesCarries ==
    ASSUME Shape, IdsIssued, GossipShape, CausalInv, NoOperationTwice, OrderedInv,
           NEW n \in Node, NEW m, Composes(n, m),
           \A p \in Peers(n) : Pushes(n, p, m) \/ PushPulls(n, p, m) => WithinWindow(n, p)
    PROVE  Carries(m) /\ Asked(m)
  <1>1. PICK p \in Peers(n) : Plain(n, p, m) \/ Pushes(n, p, m) \/ PushPulls(n, p, m) \/ Responds(n, p, m)
    BY DEF Composes
  <1>2. p \in Node /\ InOrder(n) /\ CausallyClosed(p) /\ op_log[n] \in Seq(Operation)
        /\ clock[n] \in Clock /\ Below(clock[n], clock[n])
    BY InOrderCloses, BelowTransitive DEF Peers, OrderedInv, Shape
  <1>. DEFINE recent == Recent(op_log[n])
  <1>3. recent \in Seq(Operation) /\ \A i \in DOMAIN recent : recent[i] \in Ops(n)
    BY <1>2, RecentIsTail DEF Ops
  <1>4. WithinWindow(n, p) => Follows(n, p, recent)
    BY <1>2, RecentFollows
  <1>. HIDE DEF recent
  <1>5. {"GOSSIP_PUSH", "GOSSIP_PULL", "GOSSIP_PUSH_PULL", "HEARTBEAT", "ANTI_ENTROPY_REQ",
         "ANTI_ENTROPY_RES"} = MessageTypes
    BY DEF MessageTypes
  <1>6. ASSUME NEW type \in MessageTypes, NEW s \in Seq(Operation), \A i \in DOMAIN s : s[i] \in Ops(n),
               Follows(n, p, s), NEW x, x = Message(type, n, p, s)
        PROVE  Carries(x) /\ Asked(x)
    <2>1. /\ x.type = type /\ x.sender_id = n /\ x.to = p
          /\ x.sender_clock = IF type \in Asks THEN clock[n] ELSE <<>>
          /\ DOMAIN x.operations = DOMAIN s
          /\ \A i \in DOMAIN s : x.operations[i] = OnWire(s[i])
      BY <1>6, MessageIsProper
    <2>2. Carries(x)
      BY <1>2, <1>6, <2>1, FollowingCarries
    <2>. QED
      BY <1>2, <2>1, <2>2 DEF Asked
  <1>7. CASE Plain(n, p, m)
    <2>1. PICK type \in MessageTypes : m = Message(type, n, p, <<>>)
      BY <1>5, <1>7 DEF Plain
    <2>. DEFINE none == <<>>
    <2>2. none \in Seq(Operation) /\ (\A i \in DOMAIN none : none[i] \in Ops(n)) /\ Follows(n, p, none)
      BY DEF Follows
    <2>3. m = Message(type, n, p, none)
      BY <2>1
    <2>. HIDE DEF none
    <2>. QED
      BY <1>6, <2>2, <2>3
  <1>8. CASE Pushes(n, p, m)
    <2>1. "GOSSIP_PUSH" \in MessageTypes /\ m = Message("GOSSIP_PUSH", n, p, recent)
      BY <1>5, <1>8 DEF Pushes, recent
    <2>. QED
      BY <1>3, <1>4, <1>6, <1>8, <2>1
  <1>9. CASE PushPulls(n, p, m)
    <2>1. PICK c \in Clock : /\ round[n] = <<[to |-> p, clock |-> c]>>
                             /\ m = [Message("GOSSIP_PUSH_PULL", n, p, recent) EXCEPT !.sender_clock = c]
      BY <1>9 DEF PushPulls, recent
    <2>2. PICK x : x = Message("GOSSIP_PUSH_PULL", n, p, recent)
      OBVIOUS
    <2>3. "GOSSIP_PUSH_PULL" \in MessageTypes
      BY <1>5
    <2>4. Proper(x) /\ x.sender_id = n
      BY <1>3, <2>2, <2>3, MessageIsProper
    <2>5. Carries(x)
      BY <1>3, <1>4, <1>6, <1>9, <2>2, <2>3
    <2>6. x \in Msg /\ m = [x EXCEPT !.sender_clock = c]
      BY <2>1, <2>2, <2>4 DEF Proper
    <2>7. m.to = x.to /\ m.operations = x.operations /\ m.sender_clock = c /\ m.sender_id = n
      BY <2>4, <2>6 DEF Msg
    <2>8. Carries(m)
      BY <2>5, <2>7 DEF Carries
    <2>9. Below(c, clock[n])
      <3>1. PICK r : r = [to |-> p, clock |-> c]
        OBVIOUS
      <3>. QED
        BY <2>1, <3>1 DEF OrderedInv
    <2>. QED
      BY <2>7, <2>8, <2>9 DEF Asked
  <1>10. CASE Responds(n, p, m)
    <2>1. PICK q, type, operations :
               /\ handling[n] = <<q>> /\ q.sender_id = p /\ q.type \in Asks
               /\ type \in {"GOSSIP_PUSH", "ANTI_ENTROPY_RES"}
               /\ operations \in {get_operations_since(n, q.sender_clock),
                                  First20(get_operations_since(n, q.sender_clock))}
               /\ m = Message(type, n, p, operations)
      BY <1>10, Zenon DEF Responds
    <2>2. q.sender_clock \in Clock /\ Below(q.sender_clock, clock[p])
      BY <2>1 DEF GossipShape, InTransit, Proper, Msg, OrderedInv, Asked
    <2>3. /\ operations \in Seq(Operation)
          /\ \A i \in DOMAIN operations : operations[i] \in Ops(n)
          /\ Follows(n, p, operations)
      <3>. DEFINE s == get_operations_since(n, q.sender_clock)
      <3>1. s \in Seq(Operation) /\ (\A i \in DOMAIN s : s[i] \in Ops(n)) /\ Follows(n, p, s)
        BY <1>2, <2>2, DeltaIsFromLog, DeltaFollows
      <3>2. operations \in {s, First20(s)}
        BY <2>1
      <3>. HIDE DEF s
      <3>. QED
        BY <1>2, <3>1, <3>2, First20IsPrefix, PrefixFollows
    <2>4. type \in MessageTypes
      BY <1>5, <2>1
    <2>. QED
      BY <1>6, <2>1, <2>3, <2>4
  <1>. QED
    BY <1>1, <1>7, <1>8, <1>9, <1>10

\* Order is kept by every step of the engine.
LEMMA OrderedPreserved ==
    ASSUME Shape, IdsIssued, GossipShape, CausalInv, NoOperationTwice, OrderedInv,
           [GossipNext]_<<vars, engine>>, [PushesSuffice]_<<vars, engine>>
    PROVE  OrderedInv'
  <1>1. [Next]_vars
    BY GossipShapePreserved
  <1>2. \A n \in Node : Below(clock[n], clock'[n])
    BY <1>1, ClocksGrow
  <1>3. \A m : InTransit(m) => Carries(m)' /\ Asked(m)'
    BY <1>1, CarriesKept DEF GossipShape, OrderedInv
  <1>4. \A n \in Node : clock[n] \in Clock /\ clock'[n] \in Clock
    BY <1>1, TypesPreserved DEF Shape
  <1>5. \A n \in Node : \A r : round[n] = <<r>> => Below(r.clock, clock'[n])
    <2>. SUFFICES ASSUME NEW n \in Node, NEW r, round[n] = <<r>> PROVE Below(r.clock, clock'[n])
      OBVIOUS
    <2>1. r.clock \in Clock
      BY DEF GossipShape
    <2>. QED
      BY <1>2, <1>4, <2>1, BelowTransitive DEF OrderedInv
  <1>6. ASSUME UNCHANGED engine, \A n \in Node : InOrder(n)' PROVE OrderedInv'
    <2>1. \A m : InTransit(m)' => InTransit(m)
      BY <1>6 DEF engine, InTransit
    <2>. QED
      BY <1>2, <1>3, <1>5, <1>6, <2>1 DEF OrderedInv, engine
  <1>7. ASSUME UNCHANGED vars PROVE \A n \in Node : InOrder(n)'
    BY <1>7 DEF vars, InOrder, Stamps, StampsOf, Ops, OrderedInv
  <1>8. CASE UNCHANGED <<vars, engine>>
    BY <1>6, <1>7, <1>8
  <1>9. ASSUME NEW n \in Node, Client(n) PROVE OrderedInv'
    BY <1>6, <1>9, ClientInOrder DEF Client, OrderedInv
  <1>10. ASSUME NEW n \in Node, apply_next(n) PROVE OrderedInv'
    <2>1. PICK m \in Msg :
              /\ handling[n] = <<m>> /\ m.sender_id \in Node \ {n}
              /\ m.operations # <<>>
              /\ Tail(m.operations) \in Seq(Operation)
              /\ Len(Tail(m.operations)) = Len(m.operations) - 1
              /\ \A i \in 1..(Len(m.operations) - 1) : Tail(m.operations)[i] = m.operations[i + 1]
              /\ apply_remote_operation(n, m.operations[1])
              /\ \/ handling' = [handling EXCEPT ![n] = <<>>]
                 \/ handling' = [handling EXCEPT ![n] = <<[m EXCEPT !.operations = Tail(m.operations)]>>]
              /\ UNCHANGED <<alive, network, round>>
      BY <1>10, ApplyIsDelivery
    <2>2. Proper(m) /\ m.to = n /\ Carries(m) /\ InTransit(m)
      BY <2>1 DEF GossipShape, InTransit, OrderedInv
    <2>3. 1 \in DOMAIN m.operations
      BY <2>1 DEF Msg
    <2>4. PICK op \in Operation : op = m.operations[1]
      BY <2>2, <2>3, MessageStamps
    <2>5. /\ \A k \in Node : InOrder(k)'
          /\ op.op_id \in seen_ops'[n]
      <3>1. CASE op.op_id \in seen_ops[n]
        <4>1. UNCHANGED vars
          BY <2>1, <2>4, <3>1 DEF apply_remote_operation
        <4>. QED
          BY <1>7, <3>1, <4>1 DEF vars
      <3>2. CASE op.op_id \notin seen_ops[n]
        <4>1. Record(n, op)
          BY <2>1, <2>4, <3>2 DEF apply_remote_operation
        <4>2. PICK a \in Stamps : a.clock = op.clock
          BY <2>2, <2>3, <2>4, MessageStamps
        <4>3. ASSUME NEW s \in Stamps', happens_before(s.clock, op.clock) PROVE s.op_id \in seen_ops[n]
          <5>1. s \in Stamps
            BY <1>1, <4>2, <4>3, NothingNewBefore
          <5>. QED
            BY <2>2, <2>3, <2>4, <4>3, <5>1 DEF Carries
        <4>. QED
          BY <1>1, <4>1, <4>3, OrderRecorded, RecordEffect DEF OrderedInv
      <3>. QED
        BY <3>1, <3>2
    <2>. DEFINE rest == [m EXCEPT !.operations = Tail(m.operations)]
    <2>6. /\ rest.to = m.to /\ rest.sender_id = m.sender_id /\ rest.type = m.type
          /\ rest.sender_clock = m.sender_clock /\ rest.operations = Tail(m.operations)
      BY DEF Msg
    <2>7. handling' = [handling EXCEPT ![n] = <<>>] \/ handling' = [handling EXCEPT ![n] = <<rest>>]
      BY <2>1
    <2>. HIDE DEF rest
    <2>8. Carries(m)' /\ Asked(m)'
      BY <1>3, <2>2
    <2>9. Carries(rest)'
      BY <2>1, <2>2, <2>4, <2>5, <2>6, <2>8, RestCarries
    <2>10. Asked(rest)'
      BY <2>6, <2>8 DEF Asked
    <2>11. \A x : InTransit(x)' => InTransit(x) \/ x = rest
      BY <2>1, <2>7 DEF InTransit, GossipShape
    <2>. QED
      BY <1>2, <1>3, <1>5, <2>1, <2>5, <2>9, <2>10, <2>11 DEF OrderedInv
  <1>11. ASSUME NEW n \in Node, EngineStep(n) PROVE OrderedInv'
    <2>1. UNCHANGED vars
      BY <1>11 DEF EngineStep
    <2>2. ASSUME NEW m, InTransit(m)' PROVE Carries(m)' /\ Asked(m)'
      <3>1. InTransit(m) \/ (Composes(n, m) /\ m \in network' \ network)
        BY <1>11, <2>2, TransitAfterEngineStep
      <3>2. ASSUME Composes(n, m), m \in network' \ network PROVE Carries(m)' /\ Asked(m)'
        <4>1. PushesSuffice
          BY <3>2 DEF engine
        <4>2. \A p \in Peers(n) : Pushes(n, p, m) \/ PushPulls(n, p, m) => WithinWindow(n, p)
          BY <3>2, <4>1 DEF PushesSuffice
        <4>. QED
          BY <1>1, <3>2, <4>2, ComposesCarries, ComposesProper, CarriesKept
      <3>. QED
        BY <1>3, <3>1, <3>2
    <2>3. \A k \in Node : \A r : round'[k] = <<r>> => Below(r.clock, clock'[k])
      <3>1. Below(clock[n], clock'[n])
        BY <1>2
      <3>2. \A p : [to |-> p, clock |-> clock[n]].clock = clock[n]
        OBVIOUS
      <3>. QED
        BY <1>5, <1>11, <3>1, <3>2 DEF EngineStep, GossipShape
    <2>. QED
      BY <1>2, <1>7, <2>1, <2>2, <2>3 DEF OrderedInv
  <1>. QED
    BY <1>8, <1>9, <1>10, <1>11, GossipSteps

\* No node applies an operation before one it depends on, as long as no push goes out to
\* a node that lacks what the push leaves out, although the network loses, repeats and
\* reorders, peers are given up and found again, and the clock and the log of a message
\* are read at different times.  A node that was away may lack any number of operations
\* of any log: it only has to be asked, or to ask, before it is pushed to.
THEOREM ArrivalWithinWindow ==
    GossipSpec /\ [][PushesSuffice]_<<vars, engine>> => []OperationsArriveInOrder
  <1>1. GossipInit => OrderedInv
    <2>. SUFFICES ASSUME GossipInit PROVE OrderedInv
      OBVIOUS
    <2>1. \A n \in Node : DOMAIN op_log[n] = {} /\ handling[n] = <<>> /\ round[n] = <<>>
      BY DEF GossipInit, Init
    <2>2. network = {}
      BY DEF GossipInit
    <2>. QED
      BY <2>1, <2>2 DEF OrderedInv, InOrder, InTransit
  <1>2. /\ Shape /\ IdsIssued /\ GossipShape /\ CausalInv /\ NoOperationTwice /\ OrderedInv
        /\ [GossipNext]_<<vars, engine>> /\ [PushesSuffice]_<<vars, engine>>
       => OrderedInv'
    BY OrderedPreserved
  <1>3. Shape /\ NoOperationTwice /\ OrderedInv => OperationsArriveInOrder
    BY InOrderCloses DEF OrderedInv, OperationsArriveInOrder
  <1>4. Spec => [](CausalInv /\ NoOperationTwice)
    BY CausalInvariant, AppliedOnce, PTL
  <1>. QED
    BY <1>1, <1>2, <1>3, <1>4, GossipShapes, GossipReplicates, PTL DEF GossipSpec, ImplementsReplication

\* Two nodes that know the same operations and have published all they did hold the
\* same orders, and show the same levels and totals where the wire loses no tick.
BooksAgree ==
    \A n, m \in Node :
        seen_ops[n] = seen_ops[m] /\ PublishedAll(n) /\ PublishedAll(m) =>
            /\ SameOrders(book[n], book[m])
            /\ Ops(n) = Ops(m) \/ Lossy = {} => Depth(book[n]) = Depth(book[m])

\* The engines converge: whatever is lost, repeated and reordered, and whoever is given
\* up, two nodes that have come to know the same operations show the same book
\* (README.md:3).  That they come to know them is UpdatesPropagate.
THEOREM EnginesConverge ==
    GossipSpec /\ [][PushesSuffice]_<<vars, engine>> => []BooksAgree
  <1>1. Convergence /\ OperationsArriveInOrder => BooksAgree
    BY SameIdsSameOrders DEF OperationsArriveInOrder, BooksAgree
  <1>2. Spec => []Convergence
    BY ConvergenceInvariant
  <1>3. GossipSpec => []Convergence
    BY <1>2, GossipReplicates, PTL DEF ImplementsReplication
  <1>. QED
    BY <1>1, <1>3, ArrivalWithinWindow, PTL

=============================================================================
