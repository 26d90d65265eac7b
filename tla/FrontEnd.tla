------------------------------ MODULE FrontEnd ------------------------------
(***************************************************************************)
(* The two programs' main() (src/sender/main.c, src/receiver/main.c):     *)
(* parse_options, pktbuf_new's ASSERT_ALWAYS, net_open_socket of          *)
(* src/common/net.c, the transfer itself, and the clean-up.  Each program *)
(* is sequential; its steps are the stages of main, and what the          *)
(* environment decides (fopen, calloc, getaddrinfo, each address's        *)
(* socket/setsockopt/bind or connect, the transfer's result) is chosen    *)
(* with \E.  The transfer is Transfer's business: here only its return   *)
(* value, 0 or -ECONNABORTED, matters.                                    *)
(*                                                                         *)
(* An option is [o |-> "f"] (-f FILE), [o |-> "b", v |-> atoi(N)] (-b N) *)
(* or [o |-> "?"] (an option getopt_long does not know).  Host and port   *)
(* are strings that only reach getaddrinfo: its outcome stands for them.  *)
(***************************************************************************)
EXTENDS Integers, Sequences

CONSTANTS
    Args,    \* command lines: sequences of options
    Addrs    \* address lists getaddrinfo may return: sequences of outcomes

Progs == {"sender", "receiver"}
AddrOutcomes == {"nosock", "optfail", "testfail", "ok"}

MaxWindowSize == 31
EXIT_SUCCESS == 0
EXIT_FAILURE == 1
ENOENT == 2
ENOMEM == 12
ECONNABORTED == 103
NetOK == 0
NetError == 1

VARIABLES
    pc,         \* stage of main: parse, alloc, socket, transfer, exit
    argv,       \* options getopt_long has not returned yet
    bsize,      \* sender: int buf_size; receiver: unsigned max_window
    err,        \* main's err
    socks,      \* sockets the process holds open
    netfd,      \* net_fd: an address index, or -1
    status,     \* exit status of the process, -1 while it runs
    delivered   \* ghost: the transfer returned 0

fvars == <<pc, argv, bsize, err, socks, netfd, status, delivered>>

\* The exit status the shell sees for main's return value v.
ExitStatus(v) == v % 256

\* pktbuf_new's two ASSERT_ALWAYS on the int buf_size converted to uint32_t:
\* popcount(capacity) == 1 and capacity <= UINT32_MAX >> 1.  A negative int
\* converts to at least 2^31, which the second one refuses.
CapacityOK(v) == v > 0 /\ \E k \in 0 .. 30 : v = 2^k

\* case 'b' of the receiver: max_window = atoi(optarg) is an unsigned int,
\* so a negative value converts to at least 2^31 and is clamped too.
SetWindow(v) == IF v < 0 \/ v > MaxWindowSize THEN MaxWindowSize ELSE v

\* The address loop of net_open_socket: a failed socket() is skipped; a
\* failed setsockopt or test_addr (bind or connect) closes the socket and
\* tries the next address; the first that works is kept.
RECURSIVE TryAddrs(_, _, _)
TryAddrs(outs, i, open) ==
    IF i > Len(outs) THEN [fd |-> -1, open |-> open]
    ELSE CASE outs[i] = "nosock" -> TryAddrs(outs, i + 1, open)
           [] outs[i] = "ok"     -> [fd |-> i, open |-> open \cup {i}]
           [] OTHER              -> TryAddrs(outs, i + 1, (open \cup {i}) \ {i})

\* ASSERT_ALWAYS(x, ...): unless x holds, exit(EXIT_FAILURE); else go on.
AssertAlways(p, x, next) ==
    IF x THEN next
    ELSE /\ pc' = [pc EXCEPT ![p] = "exit"]
         /\ status' = [status EXCEPT ![p] = EXIT_FAILURE]

\* main returns v: the process exits with v's status.
Exit(p, v) ==
    /\ pc' = [pc EXCEPT ![p] = "exit"]
    /\ status' = [status EXCEPT ![p] = ExitStatus(v)]

\* usage(): print the help and exit(EXIT_SUCCESS).
Usage(p) == Exit(p, EXIT_SUCCESS)

\* case 'f': fopen(optarg); on failure parse_options returns errno.
OpenFile(p) ==
    \E opened \in BOOLEAN :
      IF opened THEN UNCHANGED <<pc, status>> ELSE Exit(p, ENOENT)

\* err after net_open_socket returned res: the sender stores the result,
\* the receiver only tests it and keeps parse_options' 0.
ErrAfterOpen(p, res) == IF p = "sender" THEN res ELSE err[p]

FInit ==
    /\ pc = [p \in Progs |-> "parse"]
    /\ argv \in [Progs -> Args]
    /\ bsize = [p \in Progs |-> IF p = "sender" THEN 32 ELSE MaxWindowSize]
    /\ err = [p \in Progs |-> -ENOMEM]
    /\ socks = [p \in Progs |-> {}]
    /\ netfd = [p \in Progs |-> -1]
    /\ status = [p \in Progs |-> -1]
    /\ delivered = [p \in Progs |-> FALSE]

\* One turn of parse_options' getopt_long loop.
ParseOption(p) ==
    /\ pc[p] = "parse" /\ argv[p] # <<>>
    /\ LET o == Head(argv[p]) IN
       CASE o.o = "f" -> OpenFile(p) /\ UNCHANGED bsize
         [] o.o = "b" ->
              /\ bsize' = [bsize EXCEPT ![p] = IF p = "sender" THEN o.v
                                                ELSE SetWindow(o.v)]
              /\ UNCHANGED <<pc, status>>
         [] o.o = "?" -> Usage(p) /\ UNCHANGED bsize
    /\ argv' = [argv EXCEPT ![p] = Tail(@)]
    /\ UNCHANGED <<err, socks, netfd, delivered>>

\* getopt_long returned -1: parse_options returns 0 into err.
ParseDone(p) ==
    /\ pc[p] = "parse" /\ argv[p] = <<>>
    /\ pc' = [pc EXCEPT ![p] = "alloc"]
    /\ err' = [err EXCEPT ![p] = 0]
    /\ UNCHANGED <<argv, bsize, socks, netfd, status, delivered>>

\* pktbuf_new(buf_size) (sender) or pktbuf_new(32) (receiver): its
\* ASSERT_ALWAYS exits with EXIT_FAILURE; a failed calloc returns NULL and
\* main returns err.
Alloc(p) ==
    /\ pc[p] = "alloc"
    /\ AssertAlways(p, CapacityOK(IF p = "sender" THEN bsize[p] ELSE 32),
         \E allocated \in BOOLEAN :
           IF allocated THEN pc' = [pc EXCEPT ![p] = "socket"] /\ UNCHANGED status
           ELSE Exit(p, err[p]))
    /\ UNCHANGED <<argv, bsize, err, socks, netfd, delivered>>

\* net_open_socket; on failure main frees the buffer and returns err.
OpenSocket(p) ==
    /\ pc[p] = "socket"
    /\ \E resolved \in BOOLEAN, outs \in Addrs :
         LET r   == IF resolved THEN TryAddrs(outs, 1, socks[p])
                    ELSE [fd |-> -1, open |-> socks[p]]
             res == IF r.fd = -1 THEN NetError ELSE NetOK
             e   == ErrAfterOpen(p, res)
         IN  /\ socks' = [socks EXCEPT ![p] = r.open]
             /\ netfd' = [netfd EXCEPT ![p] = r.fd]
             /\ err' = [err EXCEPT ![p] = e]
             /\ IF res = NetOK THEN pc' = [pc EXCEPT ![p] = "transfer"] /\ UNCHANGED status
                ELSE Exit(p, e)
    /\ UNCHANGED <<argv, bsize, delivered>>

\* transmit() or receive() returns, then net_close_socket closes net_fd.
RunTransfer(p) ==
    /\ pc[p] = "transfer"
    /\ \E res \in {0, -ECONNABORTED} :
         /\ err' = [err EXCEPT ![p] = res]
         /\ delivered' = [delivered EXCEPT ![p] = (res = 0)]
         /\ Exit(p, res)
    /\ socks' = [socks EXCEPT ![p] = @ \ {netfd[p]}]
    /\ UNCHANGED <<argv, bsize, netfd>>

\* Both processes have exited.
Exited == \A p \in Progs : pc[p] = "exit"

FNext ==
    \/ \E p \in Progs :
         ParseOption(p) \/ ParseDone(p) \/ Alloc(p) \/ OpenSocket(p) \/ RunTransfer(p)
    \/ Exited /\ UNCHANGED fvars

FSpec == FInit /\ [][FNext]_fvars

-----------------------------------------------------------------------------
\* spec.md section 6: the exit status is 0 on success only, non-zero on any
\* I/O, parse or protocol abort.  A process that exits with 0 delivered
\* the file, and one that delivered it exits with 0.
ExitReportsFailure ==
    \A p \in Progs : pc[p] = "exit" => (status[p] = 0 <=> delivered[p])

=============================================================================
