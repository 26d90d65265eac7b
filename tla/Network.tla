------------------------------ MODULE Network ------------------------------
(***************************************************************************)
(* The datagram substrate between the sender and the receiver (UDP over   *)
(* IPv6, src/common/net.c) and the data both ends agree on.               *)
(*                                                                         *)
(* The input file is NData non-empty chunks followed by end of file.      *)
(* Chunk k (0 .. NData) is sent with sequence number k mod SeqSpace; its   *)
(* payload is abstracted to the value k + 1, and the end-of-file chunk    *)
(* NData has length 0 (payload value 0).  A payload value stands for the  *)
(* bytes of that chunk: two chunks never have equal payloads.              *)
(*                                                                         *)
(* Each direction is a set of datagrams in flight.  A datagram may be     *)
(* delivered any number of times (duplication), in any order, lost, or    *)
(* corrupted (it then fails pkt_decode_inline's CRC check); a DATA may be *)
(* truncated by a middlebox (tr set, payload stripped).  A datagram sent  *)
(* into a direction already holding NetCap datagrams may be dropped, like *)
(* a full socket buffer does.                                             *)
(*                                                                         *)
(* Every datagram carries, besides its wire fields, the ghost field n:    *)
(* the true index of the chunk it carries or acknowledges.  It is never   *)
(* read by the endpoints; it expresses the one assumption the protocol    *)
(* needs with an 8-bit sequence space: a datagram does not outlive        *)
(* Lifetime newer chunks (a bounded packet lifetime, like TCP's MSL).     *)
(***************************************************************************)
EXTENDS Integers, FiniteSets

CONSTANTS
    SeqSpace,   \* 256: the seq field is 8 bits
    MaxWindow,  \* receiver's max_window, MAX_WINDOW_SIZE = 31 by default
    NData,      \* number of non-empty chunks of the input file
    NetCap,     \* datagrams in flight per direction
    Lifetime,   \* bounded packet lifetime, in chunks
    CounterWrap \* modulus of the packet buffers' counters, see PktBuf

ASSUME /\ MaxWindow \in 1 .. 31 /\ MaxWindow < SeqSpace
       /\ NData \in Nat /\ NetCap \in Nat \ {0}
       /\ Lifetime \in 1 .. SeqSpace - MaxWindow

VARIABLES
    dataNet,  \* DATA datagrams from the sender to the receiver
    ackNet    \* ACK and NACK datagrams from the receiver to the sender

SeqNums == 0 .. SeqSpace - 1
Chunks  == 0 .. NData
EOFChunk == NData

\* Payload value of chunk k; 0 is the empty payload of the end-of-file chunk.
Payload(k) == IF k < NData THEN k + 1 ELSE 0

\* The content the receiver must write: payloads 1 .. NData in order.
Input == [i \in 1 .. NData |-> i]

DataMsg == [seq : SeqNums, n : Chunks]
AckMsg  == [type : {"ACK", "NACK"}, seq : SeqNums, win : 0 .. MaxWindow,
            n : 0 .. NData + 1]

\* How a delivered datagram arrives: intact, failing decode, or (DATA only)
\* truncated by the middlebox.
DeliveryModes == {"ok", "corrupt", "trunc"}

\* A datagram is still alive while fewer than Lifetime chunks newer than the
\* one it refers to have been sent; sentN is the number of chunks sent.
Alive(m, sentN) == m.n + Lifetime > sentN

\* Sending the datagrams msgs into net: all of them when they fit, otherwise
\* any that fit (the others are dropped by the full socket buffer).
Transmit(net, msgs) ==
    IF Cardinality(net \cup msgs) <= NetCap THEN {net \cup msgs}
    ELSE {net \cup S : S \in {S \in SUBSET msgs : Cardinality(net \cup S) <= NetCap}}

\* The window test of net_recv_pkt: (uint8_t)(seq - expected_seq) <= win.
InRecvWindow(seq, expected, win) == (seq - expected) % SeqSpace <= win

NetTypeOK ==
    /\ dataNet \subseteq DataMsg /\ Cardinality(dataNet) <= NetCap
    /\ ackNet \subseteq AckMsg /\ Cardinality(ackNet) <= NetCap

=============================================================================
