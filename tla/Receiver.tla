------------------------------ MODULE Receiver ------------------------------
(***************************************************************************)
(* The receiver of src/receiver/receive.c and net_wait_and_connect of     *)
(* src/common/net.c.  Its file-scope globals are the fields of the record *)
(* rcv; output is the content of the output file; pc is "wait" (in        *)
(* net_wait_and_connect), "run" (the main loop), "linger" (the final-ACK  *)
(* loop), "done" (returned 0), "failed" (returned -ECONNABORTED), "assert" *)
(* (exit in an ASSERT_ALWAYS) or "crashed" (NULL dereference).            *)
(* The ghost fields expN and nackN are the true chunk indices of          *)
(* expected_seq and nack_seq; they only label the ACKs for Network.       *)
(*                                                                         *)
(* oos_mask (uint32) is the set of its set bits.  A slot is [seq, pl]:    *)
(* pl is the payload value of the datagram last written into it, 0 for a  *)
(* length-0 packet, Garbage for bytes that are no chunk's payload.        *)
(***************************************************************************)
EXTENDS Network, FiniteSetsExt, Sequences

CONSTANTS
    RcvCap,          \* receive buffer capacity (pktbuf_new(32) in main.c)
    MaskBits,        \* width of oos_mask (32)
    MaxRetries,      \* MAX_RETRIES = 5, datagrams tried by the handshake
    MaxLinger,       \* MAX_LINGER_RETRY = 5
    OutputMayBlock   \* a write to the output may fail with EAGAIN

VARIABLE rcv

RB == INSTANCE PktBuf WITH Cap <- RcvCap

Garbage == -1
Payloads == {Garbage} \cup {Payload(k) : k \in Chunks}
RcvSlot == [seq : SeqNums, pl : Payloads]
RcvPcs == {"wait", "run", "linger", "done", "failed", "assert", "crashed"}

RcvInit ==
    rcv = [buf |-> RB!Enqueue(RB!New([seq |-> 0, pl |-> 0])),  \* receive()'s slot
           oos_mask |-> {}, expected_seq |-> 0,
           need_ack |-> FALSE, need_nack |-> FALSE, nack_seq |-> 0,
           last_written_len |-> -1,    \* -1 nothing yet, 0 EOF, 1 non-empty
           hs_retry |-> 0, linger_retry |-> 0,
           pollFile |-> TRUE,          \* pfds_count = 2
           output |-> <<>>, pc |-> "wait", expN |-> 0, nackN |-> 0]

\* window_size: max_window minus the trailing ones of oos_mask.
TrailingOnes(mask) == Min({k \in 0 .. MaskBits : k \notin mask})
WindowSize(mask) == MaxWindow - TrailingOnes(mask)

\* oos_mask |= 1 << k; k >= 32 is undefined in C, x86 masks the count.
SetBit(mask, k) == mask \cup {k % MaskBits}

\* Mutant: bit 0 is cleared instead of the mask being shifted.
ShiftRightClear(mask) == mask \ {0}

\* oos_mask >>= 1
ShiftRight(mask) == {k - 1 : k \in mask \ {0}}

\* rbuf_full: as many out-of-sequence packets as the window allows.
RbufFull(r) == Cardinality(r.oos_mask) >= MaxWindow

\* What recvfrom leaves in the slot for datagram m arriving as mode: a
\* truncated DATA keeps its length field but not its payload.
Received(m, mode) ==
    [seq |-> m.seq,
     pl  |-> CASE mode = "ok"      -> Payload(m.n)
               [] mode = "trunc"   -> IF Payload(m.n) = 0 THEN 0 ELSE Garbage
               [] mode = "corrupt" -> Garbage]

(***************************************************************************)
(* process_incoming_pkt for the packet of chunk n (seq, truncated iff tr)  *)
(* that recvfrom wrote into the slot at absolute index idx.               *)
(***************************************************************************)
ProcessIncomingPkt(r, idx, seq, tr, n) ==
    LET distance == IF 0 \in r.oos_mask
                    THEN (r.expected_seq - RB!First(r.buf).seq - 1) % SeqSpace
                    ELSE 0
        gap  == (seq - r.expected_seq) % SeqSpace
        mask == SetBit(r.oos_mask, distance + gap)
        b1   == RB!SetSeqAt(r.buf, idx, r.expected_seq)  \* restore the seqnum
        st   == RB!SlotForSeq(b1, seq)
    IN  IF tr
        THEN [r EXCEPT !.need_nack = TRUE, !.nack_seq = seq, !.nackN = n,
                       !.buf = IF gap > 0 THEN b1 ELSE @]
        ELSE IF gap > 0
        THEN IF ~st.ok THEN [r EXCEPT !.pc = "assert"]
             ELSE [r EXCEPT !.oos_mask = mask,
                            !.buf = RB!SetAt(st.buf, st.idx,
                                             [RB!At(st.buf, idx) EXCEPT !.seq = seq])]
        ELSE [r EXCEPT !.oos_mask = mask,
                       !.expected_seq = (@ + MaxWindow - WindowSize(mask)) % SeqSpace,
                       !.expN = @ + MaxWindow - WindowSize(mask)]

\* Mutant: the decode failure is not checked (the CRC is ignored).
DoReceiveDataNoCrc(r, st, m, mode) ==
    IF ~st.ok THEN [r EXCEPT !.pc = "assert"]
    ELSE IF ~InRecvWindow(m.seq, r.expected_seq, WindowSize(r.oos_mask))
    THEN [r EXCEPT !.buf = RB!SetAt(st.buf, st.idx,
                                     [Received(m, mode) EXCEPT !.seq = r.expected_seq])]
    ELSE ProcessIncomingPkt([r EXCEPT !.buf = RB!SetAt(st.buf, st.idx, Received(m, mode))],
                            st.idx, m.seq, mode = "trunc", m.n)

(***************************************************************************)
(* do_receive_data: the datagram is read into the slot reserved for       *)
(* expected_seq, st = pktbuf_slotfor_seq(rbuf, expected_seq); a decode    *)
(* failure or an out-of-window seq restores the slot's seqnum and drops   *)
(* it (the reservation stays enqueued).                                   *)
(***************************************************************************)
DoReceiveData(r, st, m, mode) ==
    LET rec == Received(m, mode) IN
    IF ~st.ok THEN [r EXCEPT !.pc = "assert"]
    ELSE IF mode = "corrupt" \/ ~InRecvWindow(m.seq, r.expected_seq, WindowSize(r.oos_mask))
    THEN [r EXCEPT !.buf = RB!SetAt(st.buf, st.idx, [rec EXCEPT !.seq = r.expected_seq])]
    ELSE ProcessIncomingPkt([r EXCEPT !.buf = RB!SetAt(st.buf, st.idx, rec)],
                            st.idx, m.seq, mode = "trunc", m.n)

(***************************************************************************)
(* do_empty_rbuf: the set of states it can end in.  Each write of a       *)
(* non-empty payload may return EAGAIN (the loop then returns without     *)
(* dequeuing, last_written_len already updated); with oos_mask & 1 but an *)
(* empty buffer pktbuf_first returns NULL and pkt->length crashes.        *)
(***************************************************************************)
RECURSIVE EmptyRbuf(_)
EmptyRbuf(r) ==
    IF 0 \notin r.oos_mask THEN {r}
    ELSE IF RB!IsEmpty(r.buf) THEN {[r EXCEPT !.pc = "crashed"]}
    ELSE LET pkt  == RB!First(r.buf)
             r1   == [r EXCEPT !.last_written_len = IF pkt.pl = 0 THEN 0 ELSE 1]
             Next1(o) == [r1 EXCEPT !.output = o, !.buf = RB!Dequeue(r.buf),
                                    !.oos_mask = ShiftRight(r.oos_mask)]
         IN  IF pkt.pl = 0 THEN EmptyRbuf(Next1(r.output))
             ELSE (IF OutputMayBlock THEN {r1} ELSE {})
                  \cup EmptyRbuf(Next1(Append(r.output, pkt.pl)))

\* can_empty_rbuf
CanEmptyRbuf(r) == ~RB!IsEmpty(r.buf) /\ 0 \in r.oos_mask

\* Mutant: the ACK names the chunk after expected_seq.
AckOfAhead(r) == [type |-> "ACK", seq |-> (r.expected_seq + 1) % SeqSpace,
                  win |-> WindowSize(r.oos_mask), n |-> r.expN + 1]

\* send_ack and send_nack (ts is not modelled: no decision depends on it)
AckOf(r)  == [type |-> "ACK", seq |-> r.expected_seq,
              win |-> WindowSize(r.oos_mask), n |-> r.expN]
NackOf(r) == [type |-> "NACK", seq |-> r.nack_seq,
              win |-> WindowSize(r.oos_mask), n |-> r.nackN]

(***************************************************************************)
(* net_wait_and_connect, then the start of receive(): datagram m arrives  *)
(* as mode.  A decoded seq-0 packet connects the socket and is processed; *)
(* anything else uses up one of the MaxRetries attempts.                  *)
(***************************************************************************)
RcvConnect(m, mode) ==
    LET idx == rcv.buf.first
        r0  == [rcv EXCEPT !.buf = RB!SetAt(rcv.buf, idx, Received(m, mode))]
    IN  /\ rcv.pc = "wait"
        /\ IF mode # "corrupt" /\ m.seq = 0
           THEN rcv' = [ProcessIncomingPkt(r0, idx, m.seq, mode = "trunc", m.n)
                          EXCEPT !.need_ack = TRUE, !.pc = "run"]
           ELSE rcv' = [r0 EXCEPT !.hs_retry = @ + 1,
                                  !.pc = IF rcv.hs_retry + 1 = MaxRetries
                                         THEN "failed" ELSE "wait"]
        /\ UNCHANGED ackNet

(***************************************************************************)
(* One iteration of receive()'s main loop after poll returned > 0: the    *)
(* datagram m (empty set: the socket was not ready) arriving as mode,     *)
(* with fileRdy whether the output file was polled and writable;          *)
(* do_read_sock, do_empty_rbuf (when the file is writable or              *)
(* can_empty_rbuf), the ACK and NACK, the poll set and the loop condition.*)
(***************************************************************************)
\* discard_incoming_data: the datagram is read into a stack buffer and
\* dropped; the receiver's state is left as it was.
DiscardIncomingData(r) == r

\* do_read_sock: a full buffer discards the datagram, else do_receive_data.
DoReadSock(r, st, d, mode) ==
    IF RbufFull(r) THEN DiscardIncomingData(r) ELSE DoReceiveData(r, st, d, mode)

RcvWakeup(m, mode, fileRdy) ==
    /\ rcv.pc = "run"
    /\ m # {} \/ fileRdy
    /\ fileRdy => rcv.pollFile
    \* st: do_receive_data's slot; r1, r2: the state after do_read_sock
    \* (each value bound once)
    /\ \E st \in {RB!SlotForSeq(rcv.buf, rcv.expected_seq)} :
       \E r1 \in {IF m = {} THEN rcv
                  ELSE DoReadSock(rcv, st, CHOOSE d \in m : TRUE, mode)} :
       \E r2 \in {IF m # {} /\ ~r1.need_nack THEN [r1 EXCEPT !.need_ack = TRUE] ELSE r1} :
         IF r1.pc # "run"
         THEN rcv' = r1 /\ UNCHANGED ackNet
         ELSE \E r3 \in IF fileRdy \/ CanEmptyRbuf(r2) THEN EmptyRbuf(r2) ELSE {r2} :
                IF r3.pc # "run" THEN rcv' = r3 /\ UNCHANGED ackNet
                ELSE
                /\ ackNet' \in Transmit(ackNet,
                                 (IF r3.need_ack THEN {AckOf(r3)} ELSE {})
                                 \cup (IF r3.need_nack THEN {NackOf(r3)} ELSE {}))
                /\ rcv' = [r3 EXCEPT !.pollFile = CanEmptyRbuf(r3),
                                     !.need_ack = FALSE, !.need_nack = FALSE,
                                     !.pc = IF r3.last_written_len = 0
                                               /\ RB!IsEmpty(r3.buf)
                                            THEN "linger" ELSE "run"]

\* poll returned 0 after IDLE_TIME: the transfer is aborted.
RcvIdleTimeout ==
    /\ rcv.pc = "run"
    /\ rcv' = [rcv EXCEPT !.pc = "failed"]
    /\ UNCHANGED ackNet

(***************************************************************************)
(* The linger loop: while poll finds the socket readable (it never reads   *)
(* it) and retry < MAX_LINGER_RETRY, send the final ACK again.            *)
(***************************************************************************)
\* Mutant: the linger loop resends without counting its retries.
RcvLingerAckNoCount ==
    /\ rcv.pc = "linger"
    /\ ackNet' \in Transmit(ackNet, {AckOf(rcv)})
    /\ UNCHANGED rcv

RcvLingerAck ==
    /\ rcv.pc = "linger"
    /\ ackNet' \in Transmit(ackNet, {AckOf(rcv)})
    /\ rcv' = [rcv EXCEPT !.linger_retry = @ + 1,
                          !.pc = IF rcv.linger_retry + 1 = MaxLinger
                                    THEN "done" ELSE "linger"]

\* poll returned 0 after LINGER: receive() returns 0.
RcvLingerQuiet ==
    /\ rcv.pc = "linger"
    /\ rcv' = [rcv EXCEPT !.pc = "done"]
    /\ UNCHANGED ackNet

RcvTypeOK ==
    rcv \in [buf : [slots : [RB!Slots -> RcvSlot],
                    first : 0 .. CounterWrap - 1, last : 0 .. CounterWrap - 1],
             oos_mask : SUBSET (0 .. MaskBits - 1), expected_seq : SeqNums,
             need_ack : BOOLEAN, need_nack : BOOLEAN, nack_seq : SeqNums,
             last_written_len : {-1, 0, 1},
             hs_retry : 0 .. MaxRetries, linger_retry : 0 .. MaxLinger,
             pollFile : BOOLEAN, output : Seq(Payloads), pc : RcvPcs,
             expN : 0 .. NData + 1, nackN : Chunks]

=============================================================================
