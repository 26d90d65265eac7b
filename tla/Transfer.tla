------------------------------ MODULE Transfer ------------------------------
(***************************************************************************)
(* The whole transfer: the sender (Sender), the receiver (Receiver) and   *)
(* the two directions of the network between them (Network).  Each step   *)
(* is one loop iteration of one endpoint, with the datagram it reads, or  *)
(* one fault of the network.                                              *)
(*                                                                         *)
(* Timers.  Without TimingFaults, a timer only expires when nothing that   *)
(* would wake its endpoint is in flight: the sender's 4 s retransmission  *)
(* timer and the receiver's 3 s linger when no live datagram is on its way *)
(* (the round trip is far shorter than either), the receiver's 10 s idle *)
(* timer only when the sender will not send again by itself (it stopped, *)
(* or has nothing unacknowledged to retransmit).  With TimingFaults, any  *)
(* timer may expire whenever its poll could still be waiting.             *)
(***************************************************************************)
EXTENDS Sender, Receiver

CONSTANT TimingFaults

vars == <<snd, rcv, dataNet, ackNet>>

Init == SndInit /\ RcvInit /\ dataNet = {} /\ ackNet = {}

\* Datagrams that can still arrive (see Network's Alive).
LiveData == {m \in dataNet : Alive(m, SentN(snd))}

\* The receiver still polls its socket: a DATA in flight wakes it.
RcvListens == rcv.pc \in {"wait", "run", "linger"}
LiveAcks == {m \in ackNet : Alive(m, SentN(snd))}

\* Delivering m from net leaves it there (a duplicate may follow) or not.
Consume(net, m) == {net \ {m}, net}

-----------------------------------------------------------------------------
(* The sender's iterations.  A regular input file is always ready when    *)
(* polled; a pipe may not be.                                             *)

InputReady == IF InputIsPipe THEN BOOLEAN ELSE {snd.pollInput}

SndRecvAck ==
    \E m \in LiveAcks, valid \in BOOLEAN, inReady \in InputReady :
        /\ UNCHANGED rcv
        /\ ackNet' \in Consume(ackNet, m)
        /\ SndWakeup({m}, valid, inReady)

SndReadInput ==
    /\ UNCHANGED <<ackNet, rcv>>
    /\ SndWakeup({}, TRUE, TRUE)

SndTimerExpires ==
    /\ ~snd.pollInput \/ InputIsPipe
    /\ TimingFaults \/ /\ LiveAcks = {}
                       /\ LiveData = {} \/ ~RcvListens
                       /\ ~(rcv.pc = "run" /\ rcv.need_ack)
    /\ SndTimeout
    /\ UNCHANGED <<ackNet, rcv>>

-----------------------------------------------------------------------------
(* The receiver's iterations.                                             *)

RcvHandshake ==
    \E m \in LiveData, mode \in DeliveryModes :
        /\ UNCHANGED snd
        /\ dataNet' \in Consume(dataNet, m)
        /\ RcvConnect(m, mode)

\* A regular file or a terminal is always writable when polled; with
\* OutputMayBlock the output may not be.
FileReady == IF OutputMayBlock THEN BOOLEAN ELSE {rcv.pollFile}

RcvRecvData ==
    \E m \in LiveData, mode \in DeliveryModes, fileRdy \in FileReady :
        /\ UNCHANGED snd
        /\ dataNet' \in Consume(dataNet, m)
        /\ RcvWakeup({m}, mode, fileRdy)

RcvWriteOutput ==
    /\ UNCHANGED <<dataNet, snd>>
    /\ RcvWakeup({}, "ok", TRUE)

\* The sender has nothing it would retransmit on its own.
SndQuiet ==
    \/ snd.pc # "run"
    \/ (snd.last_sent + 1) % SeqSpace = snd.last_ack

RcvIdleExpires ==
    /\ LiveData = {}
    /\ ~rcv.pollFile \/ OutputMayBlock
    /\ TimingFaults \/ SndQuiet
    /\ RcvIdleTimeout
    /\ UNCHANGED <<snd, dataNet>>

RcvLingerReadable ==
    /\ LiveData # {}
    /\ RcvLingerAck
    /\ UNCHANGED <<snd, dataNet>>

RcvLingerExpires ==
    /\ TimingFaults \/ LiveData = {}
    /\ RcvLingerQuiet
    /\ UNCHANGED <<snd, dataNet, ackNet>>

-----------------------------------------------------------------------------
(* Network faults (delivery modes, duplication and reordering are part of *)
(* the delivering steps above).                                           *)

LoseData ==
    /\ \E m \in dataNet : dataNet' = dataNet \ {m}
    /\ UNCHANGED <<snd, rcv, ackNet>>

LoseAck ==
    /\ \E m \in ackNet : ackNet' = ackNet \ {m}
    /\ UNCHANGED <<snd, rcv, dataNet>>

-----------------------------------------------------------------------------
(* Both programs have returned, or the receiver blocks for ever in the    *)
(* recvfrom of net_wait_and_connect, which has no timeout.                *)
Terminated ==
    /\ snd.pc # "run"
    /\ \/ rcv.pc \in {"done", "failed", "assert", "crashed"}
       \/ rcv.pc = "wait" /\ LiveData = {}
    /\ dataNet = {} /\ ackNet = {}

Next ==
    \/ SndRecvAck \/ SndReadInput \/ SndTimerExpires
    \/ RcvHandshake \/ RcvRecvData \/ RcvWriteOutput
    \/ RcvIdleExpires \/ RcvLingerReadable \/ RcvLingerExpires
    \/ LoseData \/ LoseAck
    \/ Terminated /\ UNCHANGED vars

Spec == Init /\ [][Next]_vars

-----------------------------------------------------------------------------
(* Fairness.  Each program is one thread blocked in poll, which returns as *)
(* soon as a descriptor is ready or the timer expires: a step of a program *)
(* that stays possible is eventually taken.  The network loses, corrupts  *)
(* and truncates, but a datagram is read only finitely often (duplicates   *)
(* are finite), and a fair network delivers intact, infinitely often, a    *)
(* kind of datagram that is in flight infinitely often (fair loss).  A    *)
(* full socket buffer (Transmit) may still drop a datagram at every send. *)

SndStep == SndRecvAck \/ SndReadInput \/ SndTimerExpires
RcvStep == RcvHandshake \/ RcvRecvData \/ RcvWriteOutput \/ RcvIdleExpires
           \/ RcvLingerReadable \/ RcvLingerExpires

\* The sender reads an ACK or NACK and the network keeps no copy of it.
SndConsumesAck ==
    \E m \in LiveAcks, valid \in BOOLEAN, inReady \in InputReady :
        UNCHANGED rcv /\ ackNet' = ackNet \ {m} /\ SndWakeup({m}, valid, inReady)

\* The sender reads an intact ACK or NACK for chunk k.
SndGetsAckIntact(k) ==
    \E m \in LiveAcks, inReady \in InputReady :
        /\ m.n = k
        /\ UNCHANGED rcv /\ ackNet' = ackNet \ {m} /\ SndWakeup({m}, TRUE, inReady)

\* The receiver reads chunk k intact, in the handshake or the main loop.
RcvGetsDataIntact(k) ==
    \E m \in LiveData, fileRdy \in FileReady :
        /\ m.n = k
        /\ UNCHANGED snd
        /\ dataNet' = dataNet \ {m}
        /\ RcvConnect(m, "ok") \/ RcvWakeup({m}, "ok", fileRdy)

\* Both programs are fair and the network is fair in both directions.
FairSpec ==
    /\ Spec /\ WF_vars(SndStep) /\ WF_vars(RcvStep)
    /\ \A k \in 0 .. NData + 1 : SF_vars(SndGetsAckIntact(k))
    /\ \A k \in Chunks : SF_vars(RcvGetsDataIntact(k))

\* As FairSpec, but every ACK may arrive corrupted.
CorruptAckSpec ==
    /\ Spec /\ WF_vars(SndStep) /\ WF_vars(RcvStep)
    /\ WF_vars(SndConsumesAck) /\ \A k \in Chunks : SF_vars(RcvGetsDataIntact(k))

-----------------------------------------------------------------------------
(* Properties                                                              *)

TypeOK == NetTypeOK /\ SndTypeOK /\ RcvTypeOK

\* Chunks the receiver has taken out of its buffer (written, or the EOF).
DequeuedN(r) == Len(r.output) + (IF r.last_written_len = 0 THEN 1 ELSE 0)

\* The receiver's buffer invariant (process_incoming_pkt, do_empty_rbuf):
\* every set bit k of oos_mask marks the slot k places from the head, which
\* holds the chunk that follows the DequeuedN already written, and
\* expected_seq is the seq of the first unmarked place.  A wrong bit index
\* or a wrong expected_seq advance makes do_empty_rbuf write the wrong
\* bytes or makes the receiver acknowledge a chunk it never received.
RcvBufferConsistent ==
    rcv.pc \in {"run", "linger"} =>
        LET d == DequeuedN(rcv) IN
        /\ rcv.expected_seq = (d + TrailingOnes(rcv.oos_mask)) % SeqSpace
        /\ \A k \in rcv.oos_mask :
              /\ k < RB!Used(rcv.buf)
              /\ RB!At(rcv.buf, rcv.buf.first + k)
                    = [seq |-> (d + k) % SeqSpace, pl |-> Payload(d + k)]

\* Cumulative ACKs are sound (process_ack against send_ack): every chunk the
\* sender has dequeued from its buffer, never to send again, is held in
\* order by the receiver, written or marked in oos_mask.  In particular the
\* sender only returns 0 once the receiver has the whole file.
AckedIsReceived ==
    rcv.pc \notin {"wait", "assert", "crashed"} =>
        AckedN(snd) <= DequeuedN(rcv) + TrailingOnes(rcv.oos_mask)

\* The output file is only ever extended by the next chunk of the input
\* (do_empty_rbuf's writes), so it is always a prefix of the input.
Stream == INSTANCE ReliableStream WITH In <- Input, out <- rcv.output
StreamRefined == Stream!Spec

\* Chunks sent and not yet acknowledged, seqs last_ack .. last_sent.
InFlight(s) == (s.last_sent + 1 - s.last_ack) % SeqSpace

\* A NACK is answered (spec.md S4 and section 4.3): a NACK in flight for a
\* chunk the sender has sent and not yet seen acknowledged makes
\* process_nack retransmit exactly that chunk when it is read.
NackServed ==
    snd.pc = "run" =>
      \A m \in ackNet :
        m.type = "NACK" /\ (m.seq - snd.last_ack) % SeqSpace < InFlight(snd)
          => ProcessNack(snd, m.seq).out
               = {SB!At(snd.buf, snd.buf.first + ((m.seq - snd.last_ack) % SeqSpace))}

\* The sender has been told window 0, everything it sent is acknowledged,
\* chunks are queued, and nothing is in flight either way: only a window
\* update from the receiver can make it send again.
ZeroWindowStall ==
    /\ snd.pc = "run" /\ rcv.pc = "run"
    /\ snd.last_win = 0 /\ InFlight(snd) = 0 /\ ~SB!IsEmpty(snd.buf)
    /\ LiveData = {} /\ LiveAcks = {}

\* The zero window reopens (spec.md section 4: EAGAIN only suspends the
\* drain until the output is writable; the comment at receive.c:284, "Send
\* an ACK with the updated window size").  From a stall, the receiver
\* eventually sends an ACK or NACK with an open window, unless it returns
\* with its window still closed (its output blocked for IDLE_TIME).  The
\* code sets need_ack only after reading the socket, so a drain that frees
\* the buffer sends nothing, and both ends time out.
ZeroWindowReopens ==
    ZeroWindowStall ~> \/ \E m \in LiveAcks : m.win > 0
                       \/ rcv.pc # "run" /\ WindowSize(rcv.oos_mask) = 0

\* Neither program dies: no NULL dereference, no failed ASSERT_ALWAYS.
NoCrash ==
    /\ snd.pc \notin {"crashed", "assert"}
    /\ rcv.pc \notin {"crashed", "assert"}

\* The sender eventually returns (spec.md 4.3 and section 7): transmit
\* ends with the file acknowledged, or aborts after MAX_RETRANSMISSION
\* timeouts without a valid response.  Its loop must not be kept alive
\* for ever by retransmissions that are answered, or not, forever.
SenderTerminates == <>(snd.pc # "run")

\* When transmit returns 0, receive eventually returns 0 having written the
\* whole input: the sender's loop test (EOF read, buffer empty) and the
\* receiver's linger exit agree on the end of the transfer.
DoneDelivers == snd.pc = "done" ~> (rcv.pc = "done" /\ rcv.output = Input)

\* A receiver that has connected eventually returns (spec.md section 5):
\* in the main loop its idle timer aborts a transfer that stalls, and the
\* linger loop ends after LINGER of silence or MAX_LINGER_RETRY final ACKs,
\* even while a retransmission it never reads keeps the socket readable.
\* Before the first DATA, net_wait_and_connect blocks in recvfrom with no
\* timeout, so the property says nothing of rcv.pc = "wait".
ReceiverTerminates ==
    rcv.pc # "wait" ~> rcv.pc \in {"done", "failed", "assert", "crashed"}

=============================================================================
