# TLA+ models of the CNP3 transport protocol

This directory models the reference implementation in
`src/reference-implementation/src`. It is a sender and a receiver that move a
file over UDP with a sliding window, cumulative and duplicate ACKs, selective
NACKs for truncated packets and go-back-N on timeout. The modules are checked
with TLC.

## 1. The system

| Part | Source | State | Operations |
|------|--------|-------|------------|
| Packet buffer | `common/pktbuf.c`, `pktbuf.h` | array of `capacity` slots, uint32 counters `first`, `last` | new, first, at, enqueue, dequeue, slotfor_seq |
| Sender engine | `sender/transmit.c` | `last_ack`, `last_win`, `last_sent`, `last_chunk_read`, `dup_ack`, `retry_count`, `last_in_read`, the send buffer, the poll set | handle_socket_read (ACK / duplicate ACK / NACK), handle_input_read, do_send_sbuf, handle_retransmission, the loop of `transmit` |
| Receiver engine | `receiver/receive.c` | `oos_mask`, `expected_seq`, `need_ack`, `need_nack`, `nack_seq`, `last_written_len`, the receive buffer, the poll set | do_receive_data, process_incoming_pkt, do_empty_rbuf, discard_incoming_data, send_ack/nack, the main loop, the linger loop |
| Network | `common/net.c` | the UDP socket | net_wait_and_connect (handshake), net_recv_pkt (decode + window test), net_send |
| Codec | `common/packet_implem.c` | none | pkt_encode_inline, pkt_decode_inline (CRC1, CRC2, length, tr); the library API (pkt_new, setters, pkt_encode, pkt_decode), which neither program calls |
| Front ends | `sender/main.c`, `receiver/main.c`, `net_open_socket` | `err`, `buf_size` / `max_window`, the socket | parse_options, pktbuf_new's `ASSERT_ALWAYS`, net_open_socket's address loop, the clean-up chain, the exit status |

**How the parts interact.** Each program is one thread running a poll loop,
and one loop iteration runs without interruption.
- The sender handles the socket first, then reads one input chunk into its
  buffer, then sends what the window `last_win` allows.
- The receiver reads one datagram into the slot reserved for `expected_seq`,
  then drains the in-sequence head of its buffer into the output, then sends
  an ACK and/or a NACK with its window.
- The only shared thing is the network: datagrams can be lost, duplicated,
  reordered, corrupted (decode fails) or truncated by a middlebox (`tr` set,
  payload gone).
- Sequence numbers are 8 bits. The receiver tracks the out-of-sequence
  packets in the 32-bit `oos_mask`, whose bit k is the slot k places from the
  buffer head.

**Where it is hard.**
- The receiver keeps three encodings of one fact in agreement: the mask, the
  slots and `expected_seq`.
- A drain can stop half-way (EAGAIN).
- ACKs and DATA arrive late, duplicated and across sequence-number wrap.
- Timers race the answers.
- The send buffer's enqueue does not check fullness, because the `ASSERT`s
  are compiled out (`macros.h`); only `ASSERT_ALWAYS` stays.

## 2. Modules

| Module | Models | State and actions |
|--------|--------|-------------------|
| `PktBuf` | `pktbuf.c` | Pure operators on a buffer record `[slots, first, last]`. The counters wrap at `CounterWrap`, a multiple of `Cap`; every use is a difference or a value masked by `Cap-1`, so this changes nothing. `SlotForSeq` returns the new buffer, the slot index and whether the `ASSERT_ALWAYS` holds. |
| `Network` | `net.c`, the data | `dataNet`, `ackNet`: sets of datagrams in flight, at most `NetCap` each. `Transmit` adds datagrams and may drop any that do not fit. `InRecvWindow` is net_recv_pkt's uint8 window test. Chunk k has seq `k % SeqSpace` and payload value `k+1`; the EOF chunk has payload 0. |
| `Sender` | `transmit.c` | Variable `snd` holds the globals, plus `inPos` (input offset) and `pc` (run/done/failed/assert/crashed). There is one operator per C function. `SndWakeup(sock, valid, inReady)` is one iteration after poll returned > 0; `SndTimeout` is one after poll returned 0. |
| `Receiver` | `receive.c`, `net_wait_and_connect` | Variable `rcv` holds the globals, plus `output` (the output file's content) and `pc` (wait/run/linger/done/failed/assert/crashed). `RcvConnect` is the handshake plus the first process_incoming_pkt. `RcvWakeup(m, mode, fileRdy)` is one main-loop iteration; it reads the socket through `DoReadSock`, which drops the datagram (`DiscardIncomingData`) when `rbuf_full`. `RcvIdleTimeout`, `RcvLingerAck` and `RcvLingerQuiet` are the rest. `EmptyRbuf` returns the set of states do_empty_rbuf can end in (EAGAIN at any write when `OutputMayBlock`). |
| `Codec` | `packet_implem.c`, `pkt_len_serial` | Variables `sent` (the packet built), `wire` (its memory fields and the byte count), `faults`, `decoded`. `Encode` is pkt_encode_inline followed by net_send's byte count. `Decode` is pkt_decode_inline, check by check in the code's order. `htons` is a byte swap (little-endian host), and `payload_len` wraps as a `size_t`. A CRC is the tuple of what it covers. The middlebox actions are `Truncate`, `Alter` (one field, the payload or a CRC) and `Cut` (bytes lost or padded). `Receive` is net_recvfrom. `Transfer` uses only the decode outcome (`DeliveryModes`). Variable `api` marks a packet built through the library: from `PktNew`, `Set` applies one setter (`PktSetType` ... `PktSetPayload`, each storing only when its check passes, `tr` kept to one bit), `Send` is `pkt_encode` with its buffer-size check, and `Receive` then uses `PktDecode`. |
| `ReliableStream` | the abstract promise | `out` grows only by the next chunks of the input `In`. |
| `Transfer` | both programs and the network | The actions pick the inputs of one iteration with `\E`: `SndRecvAck`, `SndReadInput`, `SndTimerExpires`, `RcvHandshake`, `RcvRecvData`, `RcvWriteOutput`, `RcvIdleExpires`, `RcvLingerReadable`, `RcvLingerExpires`. The network faults are `LoseData` and `LoseAck`. `Terminated` is stuttering once both programs have stopped. It states the properties and the refinement `Stream == INSTANCE ReliableStream WITH In <- Input, out <- rcv.output`. |
| `MCTransfer` | TLC instance | The scaled-down constants. |
| `FrontEnd` | both `main.c`, `net_open_socket`, `ASSERT_ALWAYS` | Functions over `Progs = {"sender", "receiver"}`: `pc` (the stage of main), `argv` (options left), `bsize` (the sender's int `buf_size`, the receiver's unsigned `max_window`), `err`, `socks` (open sockets), `netfd`, `status` (exit status, `main`'s return value mod 256) and the ghost `delivered`. Actions: `ParseOption` (one getopt_long turn: `-f` with fopen failing or not, `-b`, an unknown option calling `usage()`; `OpenFile` and `Usage` are those two cases), `ParseDone`, `Alloc` (pktbuf_new's assertions, then calloc), `OpenSocket` (getaddrinfo, then `TryAddrs`, the loop over addresses, where a socket whose setsockopt or bind/connect fails is opened and closed), `RunTransfer` (transmit/receive returns 0 or `-ECONNABORTED`, then net_close_socket). `ErrAfterOpen` is what `err` holds after net_open_socket: the sender stores the result, the receiver does not. The two processes do not interact; one state space checks both. TLC integers are 32-bit, so the unsigned conversions are modelled by their effect on the comparisons that follow (`SetWindow`, `CapacityOK`). |
| `MCFrontEnd` | TLC instance | The command lines (up to one `-f`, one `-b` from `{4, 3, 0, -1, INT_MIN, 40}`, one unknown option, in any order) and address lists (up to two addresses, each failing at socket, setsockopt or bind/connect, or working). |

Each handler operator models the whole C function, including the calls it
makes. For example, `SndWakeup` includes the socket read, the input read, the
send loop, the poll-set recomputation and the loop test, in the code's order.
Loops are `RECURSIVE` operators: `SendLoop`, `Resend`, `EmptyRbuf`.

**Ghost state.** Datagrams carry a ghost field `n`, the true chunk index,
which the programs never read. It expresses the one assumption the protocol
needs with 8-bit sequence numbers: a datagram does not outlive `Lifetime`
newer chunks (`Alive`), like TCP's MSL. `Lifetime = SeqSpace - MaxWindow` is
the largest value for which an old duplicate can never fall into a current
window.

**Timers** (the constant `TimingFaults`). The sender's 4 s timer and the
receiver's 3 s linger are far longer than a round trip. So when
`TimingFaults` is FALSE:
- they expire only when no live datagram that would wake their program is in
  flight;
- the receiver's 10 s idle timer expires only when the sender will not send
  by itself again.

When `TimingFaults` is TRUE, a timer may expire at any time its poll could
still be waiting.

**Environment inputs.**
- A regular input file is always ready when polled. A pipe may not be
  (`InputIsPipe`).
- A regular or blocking output never returns EAGAIN. `unblock_out_file`
  calls `F_SETFD` with a pointer, so it never sets `O_NONBLOCK` (see the
  hazards). EAGAIN is therefore possible only when the inherited descriptor
  is already non-blocking (`OutputMayBlock`).

## 3. Properties

- `TypeOK`: every variable is in its type.
- `RcvBufferConsistent`: the receiver's invariant that every set bit k of
  `oos_mask` lies within the used slots, and that slot holds exactly the
  chunk `DequeuedN + k`, with `expected_seq` the first unmarked place.
  `DequeuedN` is the number of chunks already taken out of the buffer.
- `AckedIsReceived`: a chunk the sender dequeued on an ACK is held by the
  receiver, written or marked in order. In particular `transmit` returns 0
  only when the receiver has the whole file.
- `StreamRefined`: the output refines `ReliableStream`, so it is always a
  prefix of the input.
- `NoCrash`: no NULL dereference and no failed `ASSERT_ALWAYS`, in either
  program.
- `CodecTypeOK`: among the types, net_send never writes more than
  `PKT_MAX_LEN` bytes (the receiver's recvfrom buffer).
- `DecodeComplete`: spec.md 8.1. For every packet satisfying the spec.md
  section 3 invariants, built in place or by any order of setter calls, an
  intact datagram decodes to the packet built, and a truncated DATA decodes
  with `tr` set and its header intact.
- `DecodeSound`: spec.md 8.2. Whatever was built and whatever the middlebox
  did, an accepted datagram carries the sent header (up to `tr`), and the
  sent payload unless it is marked truncated.
- `SenderTerminates`: spec.md 4.3 and section 7. `transmit` eventually
  returns, with the file acknowledged or after MAX_RETRANSMISSION timeouts.
- `DoneDelivers`: when the sender returns 0, the receiver eventually returns
  0 with the whole input written.
- `ZeroWindowReopens`: from a stall (`ZeroWindowStall`: the sender last saw
  window 0, has everything it sent acknowledged and data queued, and nothing
  is in flight either way), the receiver eventually sends an ACK or NACK
  with an open window, unless it returns with its window still closed.
- `ReceiverTerminates`: spec.md section 5. A receiver that has received its
  first DATA eventually returns: on its idle timer, or when the linger loop
  ends. Before the first DATA it blocks in `net_wait_and_connect`'s
  `recvfrom` with no timeout, and it never returns if its sender gave up.
- `ExitReportsFailure`: spec.md section 6. A process exits with 0 exactly
  when its transfer succeeded.
- `NackServed`: spec.md S4. A NACK in flight for a sent, unacknowledged chunk
  makes `process_nack` resend exactly that chunk.

## 4. Runs

| Run | cfg | Expect | What it shows |
|-----|-----|--------|---------------|
| main | `MCTransfer.cfg` | pass | SeqSpace 8, window 3, buffers of 4, 3 chunks + EOF, 2 datagrams in flight per direction, all network faults, and `TimingFaults` TRUE, so every timer may fire while answers are still in flight (a superset of the behaviours with it FALSE). About 1.4M states and 2 min. All five safety properties hold and the output refines `ReliableStream`. Windows and send buffers of 1, 2 and 4 (`-b`) were also checked with these properties and pass. |
| wrap | `MCWrap.cfg` | pass | SeqSpace 4, window 2, 5 chunks + EOF: seq numbers wrap and the send buffer fills (the input stops being polled). About 800k states. With `Lifetime` 2, the largest `SeqSpace - MaxWindow` allows, a chunk's datagrams die once the chunk after next is sent, so this run checks wrap with in-order recovery only; reordering recovery is checked by main. |
| codec | `MCCodec.cfg` | pass | Every packet shape the programs build, with lengths 0, 3, 256 (byte-swap asymmetric) and 512, two seqs, stamps and windows, and up to two middlebox faults; and every sequence of setter calls from pkt_new with arguments on both sides of each check (type 0, tr 2, window 32, length 513), encoded into a 12- or 528-byte buffer. About 183k states. Every decode error is reached. |
| live | `MCLive.cfg` | pass | `FairSpec`, 1 chunk + EOF, all network faults. About 16k states and about 1 min. The sender always terminates, so does a receiver that has connected, and a sender's success implies the receiver's. |
| corrupt_ack | `MCCorruptAck.cfg` | violation | `CorruptAckSpec`: every ACK may arrive corrupted. The sender loops for ever: timeout, go-back-N, a corrupt ACK resets `retry_count`, and again. |
| eagain | `MCEagain.cfg` | violation | `OutputMayBlock` TRUE. In 7 states: one EAGAIN, then an out-of-order chunk 2, and the output becomes `<<1, 3>>`: chunk 1 lost, chunk 2 written in its place. |
| pipe | `MCPipe.cfg` | violation | `InputIsPipe` TRUE. The sender dies on the third duplicate ACK with an empty buffer. |
| nack | `MCNack.cfg` | violation | After the first ACK, chunk 1 arrives truncated, and the receiver's NACK for it finds no slot in `process_nack`. |
| zero_window | `MCZeroWin.cfg` | violation | `FairSpec` with `OutputMayBlock` TRUE, a one-slot window (`-b 1`, SeqSpace 4, buffers of 2), 2 chunks + EOF, one datagram in flight per direction; about 5k states. The drain after the handshake hits EAGAIN and the ACK says window 0; the sender, with everything acknowledged, stalls; the next drain frees the slot and sends no ACK; the receiver idles out with its window open and the sender's timer, with nothing to resend, aborts it. A receiver that sent the update on that drain would satisfy the property. |
| exit_status | `MCExitStatus.cfg` | violation | In 2 states an unknown option makes `usage()` exit with `EXIT_SUCCESS`. Without one, the sender's `pktbuf_new` can return NULL and main returns `err`, still 0 from parse_options; the receiver's failed `net_open_socket` does the same. |

**Bounds.**
- The code's proportions are kept: receive buffer = window + 1, mask width =
  buffer size, send buffer = receive buffer, sequence space several windows
  wide.
- Windows of 3 allow every reordering of 3 in-flight chunks.
- `NetCap = 2` allows a duplicate next to a fresh datagram.
- `MaxRetrans`, `MaxRetries` and `MaxLinger` are 2 rather than 5. Each
  retry path and its exhaustion is reached, and a third retry adds only
  repetitions.

**Fairness.** The safety runs assume none and check deadlock. The only
states without a successor are the ones where both programs have stopped,
or where the receiver waits for ever in the handshake's `recvfrom`.

`FairSpec` (the live and zero_window runs) assumes:
- Weak fairness of each program's steps (`SndStep`, `RcvStep`). Each is one
  thread blocked in `poll`, which returns as soon as a descriptor is ready or
  its timer expires.
- Strong fairness of the intact delivery of each chunk (`RcvGetsDataIntact(k)`)
  and of each ACK label (`SndGetsAckIntact(k)`). This is fair loss: a
  datagram that is in flight infinitely often is eventually received intact.
  It promises nothing about a datagram sent finitely often, such as the
  final ACK.
- Nothing about the send. A full socket buffer (`Transmit`) may drop the
  same datagram at every send. With one data chunk the properties hold even
  so. With two chunks they do not: every go-back-N resend of chunk 0 can be
  dropped while the EOF chunk gets through. A larger liveness run would
  therefore also need fairness of the send, and it is beyond the 5-minute
  budget anyway (over 5 minutes for the first 30k states).

`CorruptAckSpec` replaces the ACK half by "the sender eventually reads the
ACKs in flight", which may all be corrupted.

Liveness needs the timers of `TimingFaults = FALSE`. With timers that can
fire at any time, the idle timer could abort every transfer.

TLC does not cache `LET` values when it evaluates a fairness condition. The
handlers therefore bind each intermediate result once, with
`\E x \in {e} : ...`, which means the same as `LET x == e`.

Every property of every passing run has a mutant in `PROJECT.json`: a
plausible bug in a mapped operator that TLC must catch.

## 5. What is not modelled, and the plan

- **Codec details.** CRC32 is taken to be collision-free, and payload bytes
  are one model value per chunk.
- **Packet library API, in part.** `pkt_del`, the accessors,
  `pkt_set_crc1`/`pkt_set_crc2` (pkt_encode recomputes both CRCs) and the
  text of `pkt_err_code`/`pkt_type_descr` change no state the model keeps.
  The setters check each field alone, so `pkt_set_type(ACK)` then
  `pkt_set_length(3)` both return `PKT_OK` and `pkt_encode` encodes a
  packet that `pkt_decode` refuses: `DecodeComplete` is therefore stated
  for packets satisfying spec.md section 3, the caller's obligation
  (hazard packet_implem.c:171). Weakening that premise makes TLC report
  exactly this sequence.
- **Addresses.** The network has one peer. `net_wait_and_connect` sets
  `addr_len = sizeof(addr_len)` (net.c:103), so recvfrom keeps only the
  family and port and `connect` targets the unspecified address. The model
  cannot show this; its effect would be that every ACK is lost.
- **Blocking output.** `unblock_out_file` uses `F_GETFD`/`F_SETFD` with a
  pointer, so `O_NONBLOCK` is never set and a write to a slow pipe blocks
  the whole loop. A write completes at once in the model; EAGAIN is the
  constant `OutputMayBlock`.
- **I/O errors.** Failed `read`, `write`, `poll` and `sendto` calls and
  short writes inside the transfer are not modelled: they only abort, with
  `-ECONNABORTED`, which `FrontEnd`'s `RunTransfer` covers.
- **Logging.** `LOG`, `ERROR`, `trace` and `DEBUG` only write to stderr.
  Host and port strings reach only getaddrinfo, whose outcome stands for
  them, and the `FILE` handles matter only through fopen's outcome.
- **Window 0.** `-b 0` gives `max_window = 0`, inside the clamp. Every
  transfer run uses a window of at least 1, so what the receiver does with a
  zero window (where `window_size` underflows) is not checked.
- **Liveness beyond the live run.** The live run is kept to one chunk so
  that it finishes in about a minute; the zero_window run reaches the stall
  with a one-slot window.
- **Linger against the retransmission timer.** The linger loop waits
  LINGER = 3 s, the sender's timer RETRANSMISSION_DELAY = 4 s, so a lost
  final ACK is never answered by the linger loop (hazard receive.c:312). The
  model puts no order between the two timers: under unbounded loss any
  bounded linger lets the sender abort after the receiver returned 0, so a
  run could not single out the 3 s < 4 s choice. Showing it needs a loss
  budget (at most one lost ACK), which the network model does not count.
- **Front ends.** `FrontEnd` is sequential and is checked by the exit_status
  run. Its other obligations (the clamp of `-b N`, closing each socket
  `net_open_socket` gives up on) are single statements of the code, and a
  property of them would restate the statement.
- **Lifetime.** Old duplicates beyond the lifetime bound are not explored.
