------------------------------- MODULE Sender -------------------------------
(***************************************************************************)
(* The sender of src/sender/transmit.c.  Its file-scope globals are the    *)
(* fields of the record snd; inPos is the input file's offset (in chunks) *)
(* and pc says whether transmit() still loops ("run"), returned 0         *)
(* ("done"), returned -ECONNABORTED ("failed"), died in an ASSERT_ALWAYS  *)
(* ("assert") or dereferenced NULL ("crashed").                           *)
(*                                                                         *)
(* One iteration of the do-while loop of transmit() is one step: the poll *)
(* returns, the socket is handled, then the input, then do_send_sbuf, the *)
(* poll set is recomputed and the loop condition tested.  The steps are   *)
(* SndWakeup (poll returned > 0) and SndTimeout (poll returned 0).  The   *)
(* operators below return [st |-> new state, out |-> DATA sent].          *)
(***************************************************************************)
EXTENDS Network, FiniteSetsExt

CONSTANTS
    SndCap,       \* send buffer capacity, -b option (32 by default)
    MaxDupAck,    \* MAX_DUP_ACK = 3
    MaxRetrans,   \* MAX_RETRANSMISSION = 5
    InputIsPipe   \* the input may be not ready when polled (stdin pipe)

VARIABLE snd

SB == INSTANCE PktBuf WITH Cap <- SndCap

SndPcs == {"run", "done", "failed", "assert", "crashed"}

\* The zero packet of calloc: seq 0, length 0.
SndZeroSlot == [seq |-> 0, n |-> EOFChunk]

SndInit ==
    snd = [buf |-> SB!New(SndZeroSlot),
           last_ack |-> 0, last_win |-> 1,
           last_sent |-> SeqSpace - 1, last_chunk_read |-> SeqSpace - 1,
           dup_ack |-> 0, retry_count |-> 0,
           last_in_read |-> -1,     \* -1 none yet, 0 EOF, 1 a non-empty chunk
           pollInput |-> TRUE,      \* pfds_count = 2
           inPos |-> 0, pc |-> "run"]

\* Ghost: chunks dequeued (acknowledged), and chunks sent at least once.
AckedN(s) == s.inPos - SB!Used(s.buf)
SentN(s)  == AckedN(s) + ((s.last_sent + 1 - s.last_ack) % SeqSpace)

\* process_nack: scans pktbuf_at(send_buf, i) for i in 0 .. used - 1 and
\* resends the first slot whose seq is nack.
ProcessNack(s, nack) ==
    LET hits == {i \in 0 .. SB!Used(s.buf) - 1 : SB!At(s.buf, i).seq = nack}
    IN  [st |-> s, out |-> IF hits = {} THEN {} ELSE {SB!At(s.buf, Min(hits))}]

\* Mutant: one slot too many is dequeued.
ProcessAckOver(s, ack) ==
    [st |-> [s EXCEPT !.buf = SB!DequeueN(s.buf, ((ack - s.last_ack) % SeqSpace) + 1),
                      !.last_ack = ack, !.dup_ack = 0],
     out |-> {}]

\* process_ack: dequeue until last_ack reaches ack.
ProcessAck(s, ack) ==
    [st |-> [s EXCEPT !.buf = SB!DequeueN(s.buf, (ack - s.last_ack) % SeqSpace),
                      !.last_ack = ack, !.dup_ack = 0],
     out |-> {}]

\* Mutant: dup_ack is not reset after the fast retransmission.
ProcessDupAckNoReset(s) ==
    LET d == s.dup_ack + 1 IN
    IF d # MaxDupAck THEN [st |-> [s EXCEPT !.dup_ack = d], out |-> {}]
    ELSE IF SB!IsEmpty(s.buf) THEN [st |-> [s EXCEPT !.pc = "crashed"], out |-> {}]
    ELSE [st |-> [s EXCEPT !.dup_ack = d], out |-> {SB!First(s.buf)}]

\* process_dup_ack: the MAX_DUP_ACK-th duplicate resends pktbuf_first, which
\* is NULL when the buffer is empty (net_send then dereferences it).
ProcessDupAck(s) ==
    LET d == s.dup_ack + 1 IN
    IF d # MaxDupAck THEN [st |-> [s EXCEPT !.dup_ack = d], out |-> {}]
    ELSE IF SB!IsEmpty(s.buf) THEN [st |-> [s EXCEPT !.pc = "crashed"], out |-> {}]
    ELSE [st |-> [s EXCEPT !.dup_ack = 0], out |-> {SB!First(s.buf)}]

\* handle_socket_read for datagram m, decoded iff valid: retry_count is
\* reset first; net_recv_pkt drops what fails decode or lies outside
\* [last_ack, last_ack + last_sent - last_ack + 1].
HandleSocketRead(s, m, valid) ==
    LET s0  == [s EXCEPT !.retry_count = 0]
        win == (s.last_sent - s.last_ack + 1) % SeqSpace
        s1  == [s0 EXCEPT !.last_win = m.win]
    IN  IF ~valid \/ ~InRecvWindow(m.seq, s.last_ack, win)
        THEN [st |-> s0, out |-> {}]
        ELSE IF m.type = "NACK" THEN ProcessNack(s1, m.seq)
        ELSE IF s.last_ack = m.seq THEN ProcessDupAck(s1)
        ELSE ProcessAck(s1, m.seq)

\* handle_input_read: the next chunk of the input goes into a new slot.
HandleInputRead(s) ==
    LET c == (s.last_chunk_read + 1) % SeqSpace IN
    [s EXCEPT !.last_chunk_read = c,
              !.buf = SB!SetAt(SB!Enqueue(s.buf), s.buf.last, [seq |-> c, n |-> s.inPos]),
              !.last_in_read = IF s.inPos = EOFChunk THEN 0 ELSE 1,
              !.inPos = s.inPos + 1]

\* can_send
CanSend(s) ==
    /\ ~SB!IsEmpty(s.buf)
    /\ (s.last_sent + 1 - s.last_ack) % SeqSpace < s.last_win

\* do_send_sbuf: send the next queued chunks while the window allows.
RECURSIVE SendLoop(_, _)
SendLoop(s, out) ==
    IF s.last_sent # s.last_chunk_read /\ CanSend(s)
    THEN LET ls == (s.last_sent + 1) % SeqSpace
             r  == SB!SlotForSeq(s.buf, ls)
         IN  IF ~r.ok THEN [st |-> [s EXCEPT !.pc = "assert"], out |-> out]
             ELSE SendLoop([s EXCEPT !.last_sent = ls, !.buf = r.buf],
                           out \cup {SB!At(r.buf, r.idx)})
    ELSE [st |-> s, out |-> out]

\* The loop of handle_retransmission: resend last_ack .. last_sent.
RECURSIVE Resend(_, _, _)
Resend(s, sseq, out) ==
    IF sseq # (s.last_sent + 1) % SeqSpace
    THEN LET r == SB!SlotForSeq(s.buf, sseq)
         IN  IF ~r.ok THEN [st |-> [s EXCEPT !.pc = "assert"], out |-> out]
             ELSE Resend([s EXCEPT !.buf = r.buf], (sseq + 1) % SeqSpace,
                         out \cup {SB!At(r.buf, r.idx)})
    ELSE [st |-> s, out |-> out]

\* Mutant: the input is polled again even when the buffer is full.
PollInputNoFull(s) == s.last_in_read # 0

\* The poll set of transmit(): poll the input until EOF, unless the buffer
\* is full.
PollInput(s) == s.last_in_read # 0 /\ ~SB!IsFull(s.buf)

\* Mutant: the loop stops at EOF without waiting for the buffer to drain.
LoopTestEarly(s) ==
    IF s.pc = "run" /\ s.last_in_read = 0 THEN [s EXCEPT !.pc = "done"] ELSE s

\* The loop condition of transmit(): stop at EOF with nothing left to ack.
LoopTest(s) ==
    IF s.pc = "run" /\ s.last_in_read = 0 /\ SB!IsEmpty(s.buf)
    THEN [s EXCEPT !.pc = "done"] ELSE s

(***************************************************************************)
(* poll returned > 0.  sock is the datagram read from the socket (or the   *)
(* empty set if the socket was not ready), valid whether it decoded, and   *)
(* inReady whether the input was polled and ready.                        *)
(***************************************************************************)
SndWakeup(sock, valid, inReady) ==
    /\ snd.pc = "run"
    /\ sock # {} \/ inReady
    /\ inReady => snd.pollInput
    \* r1, s2, r3: the results of the three handlers (each bound once)
    /\ \E r1 \in {IF sock = {} THEN [st |-> snd, out |-> {}]
                   ELSE HandleSocketRead(snd, CHOOSE m \in sock : TRUE, valid)} :
       \E s2 \in {IF inReady /\ r1.st.pc = "run" THEN HandleInputRead(r1.st) ELSE r1.st} :
       \E r3 \in {IF s2.pc = "run" THEN SendLoop(s2, {}) ELSE [st |-> s2, out |-> {}]} :
         /\ snd' = LoopTest([r3.st EXCEPT !.pollInput = PollInput(r3.st)])
         /\ dataNet' \in Transmit(dataNet, r1.out \cup r3.out)

\* Mutant: the timeout is not counted (++retry_count dropped).
SndTimeoutNoCount ==
    /\ snd.pc = "run"
    /\ ~SB!IsEmpty(snd.buf)
    /\ \E r \in {Resend(snd, snd.last_ack, {})} :
         /\ snd' = LoopTest([r.st EXCEPT !.dup_ack = 0])
         /\ dataNet' \in Transmit(dataNet, r.out)

(***************************************************************************)
(* poll returned 0: handle_retransmission when the buffer is not empty    *)
(* (with an empty buffer the iteration changes nothing).                  *)
(***************************************************************************)
SndTimeout ==
    /\ snd.pc = "run"
    /\ ~SB!IsEmpty(snd.buf)
    /\ \E s1 \in {[snd EXCEPT !.retry_count = @ + 1]} :
         IF s1.retry_count > MaxRetrans
         THEN /\ snd' = [s1 EXCEPT !.pc = "failed"]
              /\ UNCHANGED dataNet
         ELSE \E r \in {Resend(s1, snd.last_ack, {})} :
                /\ snd' = LoopTest([r.st EXCEPT !.dup_ack = 0])
                /\ dataNet' \in Transmit(dataNet, r.out)

SndTypeOK ==
    snd \in [buf : [slots : [SB!Slots -> DataMsg],
                    first : 0 .. CounterWrap - 1, last : 0 .. CounterWrap - 1],
             last_ack : SeqNums, last_win : 0 .. MaxWindow,
             last_sent : SeqNums, last_chunk_read : SeqNums,
             dup_ack : 0 .. MaxDupAck - 1, retry_count : 0 .. MaxRetrans + 1,
             last_in_read : {-1, 0, 1}, pollInput : BOOLEAN,
             inPos : 0 .. NData + 1, pc : SndPcs]

=============================================================================
