------------------------------ MODULE Loopback ------------------------------
(***************************************************************************)
(* The loopback backend: one port whose sends are queued for its own       *)
(* receives, in two rings of fixed depth, one of packets and one of time   *)
(* codes.  A ring keeps a head, a tail and a count over an array of slots  *)
(* and overwrites a slot only when it is used again.                       *)
(*                                                                         *)
(* No call waits: timeout_us is ignored.  A call that is refused (port not *)
(* started, packet too long, queue full or empty, receive buffer too       *)
(* small) changes nothing and is no step.  A packet is its payload with    *)
(* its terminator, and its length; of the counters, those of packets are   *)
(* kept.                                                                   *)
(***************************************************************************)
EXTENDS Naturals, Sequences

CONSTANTS
    Packet,                     \* records with a field length
    TimeCode,                   \* time codes with time_count <= 63, no flags
    Capacity,                   \* sizes of the application's receive buffers
    Zero,                       \* what memset leaves in a slot
    MAX_PACKET_SIZE,
    PACKET_QUEUE_DEPTH,
    TIME_CODE_QUEUE_DEPTH,
    COUNTER_MODULUS             \* 2^64

ASSUME LoopbackAssumption ==
    /\ PACKET_QUEUE_DEPTH \in Nat \ {0}
    /\ TIME_CODE_QUEUE_DEPTH \in Nat \ {0}
    /\ COUNTER_MODULUS \in Nat \ {0}
    /\ Zero \notin Packet /\ Zero \notin TimeCode
    /\ \A p \in Packet : p.length \in Nat

VARIABLES
    port,           \* "closed", or the link state the backend is in
    locally_started,
    packets, time_codes,        \* the rings
    statistics,
    packet, time_code           \* what the last successful receives gave out

vars == <<port, locally_started, packets, time_codes, statistics, packet,
          time_code>>

-----------------------------------------------------------------------------
(* Rings                                                                    *)

Ring(Item, depth) ==
    [slots : [0 .. depth - 1 -> Item \cup {Zero}], head : 0 .. depth - 1,
     tail : 0 .. depth - 1, count : 0 .. depth]

empty(depth) ==
    [slots |-> [i \in 0 .. depth - 1 |-> Zero], head |-> 0, tail |-> 0,
     count |-> 0]

wrap(i, depth) == i % depth

put(q, x, depth) ==
    [slots |-> [q.slots EXCEPT ![q.tail] = x], head |-> q.head,
     tail |-> wrap(q.tail + 1, depth), count |-> q.count + 1]

take(q, depth) ==
    [slots |-> q.slots, head |-> wrap(q.head + 1, depth), tail |-> q.tail,
     count |-> q.count - 1]

bump(counter) == [statistics EXCEPT ![counter] = (@ + 1) % COUNTER_MODULUS]

NoStatistics == [tx_packets |-> 0, rx_packets |-> 0]

-----------------------------------------------------------------------------
(* The calls                                                                *)

Init ==
    /\ port = "closed" /\ locally_started = FALSE
    /\ packets = empty(PACKET_QUEUE_DEPTH)
    /\ time_codes = empty(TIME_CODE_QUEUE_DEPTH)
    /\ statistics = NoStatistics
    /\ packet = Zero /\ time_code = Zero

loopback_construct ==
    /\ port = "closed"
    /\ port' = "ERROR_RESET"
    /\ UNCHANGED <<locally_started, packets, time_codes, statistics, packet,
                   time_code>>

\* The port's storage is gone; the next open zeroes it.
loopback_destroy ==
    /\ port # "closed"
    /\ port' = "closed" /\ locally_started' = FALSE
    /\ packets' = empty(PACKET_QUEUE_DEPTH)
    /\ time_codes' = empty(TIME_CODE_QUEUE_DEPTH)
    /\ statistics' = NoStatistics
    /\ UNCHANGED <<packet, time_code>>

loopback_start ==
    /\ port # "closed"
    /\ port' = "RUN" /\ locally_started' = TRUE
    /\ UNCHANGED <<packets, time_codes, statistics, packet, time_code>>

\* Stopping keeps what is queued.
loopback_stop ==
    /\ port # "closed"
    /\ port' = "READY" /\ locally_started' = FALSE
    /\ UNCHANGED <<packets, time_codes, statistics, packet, time_code>>

loopback_reset ==
    /\ port # "closed"
    /\ packets' = empty(PACKET_QUEUE_DEPTH)
    /\ time_codes' = empty(TIME_CODE_QUEUE_DEPTH)
    /\ port' = "ERROR_RESET" /\ locally_started' = FALSE
    /\ UNCHANGED <<statistics, packet, time_code>>

Running == locally_started /\ port = "RUN"

loopback_send(p) ==
    /\ Running
    /\ p.length <= MAX_PACKET_SIZE
    /\ packets.count # PACKET_QUEUE_DEPTH
    /\ packets' = put(packets, p, PACKET_QUEUE_DEPTH)
    /\ statistics' = bump("tx_packets")
    /\ UNCHANGED <<port, locally_started, time_codes, packet, time_code>>

\* The slot before the tail is copied out.
ReceivesNewest(capacity) ==
    LET newest == wrap(packets.head + packets.count - 1, PACKET_QUEUE_DEPTH) IN
    /\ Running
    /\ packets.count # 0
    /\ packets.slots[newest].length <= capacity
    /\ packet' = packets.slots[newest]
    /\ packets' = take(packets, PACKET_QUEUE_DEPTH)
    /\ statistics' = bump("rx_packets")
    /\ UNCHANGED <<port, locally_started, time_codes, time_code>>

loopback_receive(capacity) ==
    /\ Running
    /\ packets.count # 0
    /\ packets.slots[packets.head].length <= capacity
    /\ packet' = packets.slots[packets.head]
    /\ packets' = take(packets, PACKET_QUEUE_DEPTH)
    /\ statistics' = bump("rx_packets")
    /\ UNCHANGED <<port, locally_started, time_codes, time_code>>

loopback_send_time_code(t) ==
    /\ Running
    /\ time_codes.count # TIME_CODE_QUEUE_DEPTH
    /\ time_codes' = put(time_codes, t, TIME_CODE_QUEUE_DEPTH)
    /\ UNCHANGED <<port, locally_started, packets, statistics, packet, time_code>>

loopback_receive_time_code ==
    /\ Running
    /\ time_codes.count # 0
    /\ time_code' = time_codes.slots[time_codes.head]
    /\ time_codes' = take(time_codes, TIME_CODE_QUEUE_DEPTH)
    /\ UNCHANGED <<port, locally_started, packets, statistics, packet>>

loopback_clear_statistics ==
    /\ port # "closed"
    /\ statistics' = NoStatistics
    /\ UNCHANGED <<port, locally_started, packets, time_codes, packet, time_code>>

Next ==
    \/ loopback_construct \/ loopback_destroy
    \/ loopback_start \/ loopback_stop \/ loopback_reset
    \/ \E p \in Packet : loopback_send(p)
    \/ \E c \in Capacity : loopback_receive(c)
    \/ \E t \in TimeCode : loopback_send_time_code(t)
    \/ loopback_receive_time_code
    \/ loopback_clear_statistics

Spec == Init /\ [][Next]_vars

-----------------------------------------------------------------------------
(* Properties                                                               *)

\* The items a ring holds, from its head on.
Contents(q, depth) ==
    [i \in 1 .. q.count |-> q.slots[wrap(q.head + i - 1, depth)]]

PacketFifo ==
    INSTANCE BoundedFifo WITH
        Item <- Packet, Depth <- PACKET_QUEUE_DEPTH, NoItem <- Zero,
        queue <- Contents(packets, PACKET_QUEUE_DEPTH), given <- packet

TimeCodeFifo ==
    INSTANCE BoundedFifo WITH
        Item <- TimeCode, Depth <- TIME_CODE_QUEUE_DEPTH, NoItem <- Zero,
        queue <- Contents(time_codes, TIME_CODE_QUEUE_DEPTH), given <- time_code

\* The packet ring is a bounded FIFO: across any number of wraps of head and
\* tail, stops and restarts, loopback_receive gives out exactly the packets
\* loopback_send accepted, in order, and only loopback_reset and close lose any.
ImplementsPacketFifo == PacketFifo!FSpec

\* The same for loopback_send_time_code and loopback_receive_time_code.
ImplementsTimeCodeFifo == TimeCodeFifo!FSpec

Balance ==
    (statistics.tx_packets + COUNTER_MODULUS - statistics.rx_packets) % COUNTER_MODULUS

\* head, tail and count say the same thing three times: the tail is count
\* slots after the head, and every slot in between holds an item that was sent.
RingsConsistent ==
    /\ packets \in Ring(Packet, PACKET_QUEUE_DEPTH)
    /\ time_codes \in Ring(TimeCode, TIME_CODE_QUEUE_DEPTH)
    /\ packets.tail = wrap(packets.head + packets.count, PACKET_QUEUE_DEPTH)
    /\ time_codes.tail =
           wrap(time_codes.head + time_codes.count, TIME_CODE_QUEUE_DEPTH)
    /\ \A i \in 1 .. packets.count :
           Contents(packets, PACKET_QUEUE_DEPTH)[i] \in Packet
    /\ \A i \in 1 .. time_codes.count :
           Contents(time_codes, TIME_CODE_QUEUE_DEPTH)[i] \in TimeCode

\* The rings of the loopback backend implement bounded FIFO queues: packets,
\* and time codes, come back in the order they were sent, however the heads
\* and tails wrap (loopback_send, loopback_receive and the time-code pair).
ImplementsFifos == ImplementsPacketFifo /\ ImplementsTimeCodeFifo
=============================================================================
