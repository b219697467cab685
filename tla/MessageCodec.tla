---------------------------- MODULE MessageCodec ----------------------------
(***************************************************************************)
(* The binary format of gossip messages (src/gossip/message.cpp, and the   *)
(* vector clock's part of it in src/crdt): what a node writes, and what    *)
(* the reader at the other end makes of it.                                *)
(*                                                                         *)
(* A buffer is the sequence of values written, each with the number of     *)
(* bytes it takes, because clocks are skipped by counting bytes.  A field  *)
(* of Order that the models do not have is written as 0.                   *)
(***************************************************************************)
EXTENDS CRDTOrderBook, SequencesExt

StringBytes == 10   \* a length-prefixed id; they are all taken to be of one length

u8(v) == <<[bytes |-> 1, value |-> v]>>
u32(v) == <<[bytes |-> 4, value |-> v]>>
u64(v) == <<[bytes |-> 8, value |-> v]>>
write_string(s) == <<[bytes |-> StringBytes, value |-> s]>>

Bytes(buf) ==
    LET upto[i \in 0..Len(buf)] == IF i = 0 THEN 0 ELSE upto[i - 1] + buf[i].bytes
    IN  upto[Len(buf)]

\* write_double truncates to ticks; read_double turns them into a price again.
write_double(price) == u64(Rewire(price))

-----------------------------------------------------------------------------
(* Writing.                                                                *)

\* The node's own entry, which the reader makes by itself, is left out.
WriteClock_slip(node, c) ==
    LET keys == SetToSeq(DOMAIN c \ {node})
    IN  write_string(node) \o u32(Len(keys))
            \o FlattenSeq([i \in DOMAIN keys |-> write_string(keys[i]) \o u64(c[keys[i]])])

\* VectorClock::serialize, of the clock of this node: the map comes in any order.
WriteClock(node, c) ==
    LET keys == SetToSeq(DOMAIN c)
    IN  write_string(node) \o u32(Len(keys))
            \o FlattenSeq([i \in DOMAIN keys |-> write_string(keys[i]) \o u64(c[keys[i]])])

\* A clock, after the number of bytes it takes.
SizedClock(node, c) ==
    LET clock_bytes == WriteClock(node, c) IN u32(Bytes(clock_bytes)) \o clock_bytes

\* An order; the one of a cancel was never filled in.
write_order(node, o) ==
    write_string(o.order_id) \o write_string(node) \o u8(o.side) \o write_double(o.price)
        \o u64(o.quantity) \o u64(o.quantity) \o u64(0) \o u8(0)

NoOrder == [order_id |-> 0, side |-> 0, price |-> 0, quantity |-> 0]

write_operation(op) ==
    LET add == op.type = "ADD_ORDER"
    IN  u8(op.type) \o write_order(op.origin_node, IF add THEN op.order ELSE NoOrder)
            \o write_string(IF add THEN 0 ELSE op.cancel_order_id)
            \o write_string(op.origin_node) \o SizedClock(op.origin_node, op.clock)
            \o write_string(op.op_id)

\* msg_len, the second field, is filled in at the end.
serialize(m) ==
    LET body == write_string(m.sender_id) \o SizedClock(m.sender_id, m.sender_clock)
                    \o u32(Len(m.operations))
                    \o FlattenSeq([i \in DOMAIN m.operations |-> write_operation(m.operations[i])])
    IN  u8(m.type) \o u32(Bytes(body) + 5) \o body

-----------------------------------------------------------------------------
(* Reading: from a position in the buffer.                                 *)

\* The position so many bytes further on.
Skip(buf, pos, bytes) ==
    CHOOSE p \in pos..(Len(buf) + 1) : Bytes(SubSeq(buf, pos, p - 1)) = bytes

\* VectorClock::deserialize: the node's own entry is there from the start.
ReadClock(buf, pos) ==
    LET entries == 1..buf[pos + 1].value
        Key(i)  == buf[pos + 2 * i].value
    IN  [k \in {buf[pos].value} \cup {Key(i) : i \in entries} |->
            IF \E i \in entries : Key(i) = k
            THEN buf[pos + 2 * (CHOOSE i \in entries : Key(i) = k) + 1].value ELSE 0]

\* An operation, and the position after it.
read_operation(buf, pos) ==
    LET order    == [order_id |-> buf[pos + 1].value, side |-> buf[pos + 3].value,
                     price |-> buf[pos + 4].value, quantity |-> buf[pos + 5].value]
        after    == Skip(buf, pos + 12, buf[pos + 11].value)
        origin   == buf[pos + 10].value
        op_clock == ReadClock(buf, pos + 12)
    IN  [op  |-> IF buf[pos].value = "ADD_ORDER"
                 THEN [type |-> "ADD_ORDER", order |-> order, origin_node |-> origin,
                       clock |-> op_clock, op_id |-> buf[after].value]
                 ELSE CancelOp(origin, buf[pos + 9].value, buf[after].value, op_clock),
         pos |-> after + 1]

deserialize(buf) ==
    LET after    == Skip(buf, 5, buf[4].value)
        op_count == buf[after].value
        reads[i \in 1..op_count] ==
            read_operation(buf, IF i = 1 THEN after + 1 ELSE reads[i - 1].pos)
    IN  [type |-> buf[1].value, sender_id |-> buf[3].value, sender_clock |-> ReadClock(buf, 5),
         operations |-> [i \in 1..op_count |-> reads[i].op]]

-----------------------------------------------------------------------------
(* Properties.                                                             *)

\* n's whole log, as the answer to a request for the delta carries it.
FullDelta(n) ==
    [type |-> "ANTI_ENTROPY_RES", sender_id |-> n, sender_clock |-> clock[n], operations |-> op_log[n]]

\* Whatever clocks of different sizes and operations of both kinds a message holds,
\* the reader finds every field in its place: it gets the message that was sent, but
\* for the prices.  OnWire is all that the wire does.
WireKeepsMessages ==
    \A n \in Node :
        deserialize(serialize(FullDelta(n))) =
            [FullDelta(n) EXCEPT !.operations = [i \in DOMAIN op_log[n] |-> OnWire(op_log[n][i])]]

=============================================================================
