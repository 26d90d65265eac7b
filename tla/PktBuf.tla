------------------------------- MODULE PktBuf -------------------------------
(***************************************************************************)
(* The packet buffer of src/common/pktbuf.c: a fixed array of Cap packet   *)
(* slots addressed through two free-running uint32 counters first and     *)
(* last.  A buffer is the record [slots, first, last]; a slot is any      *)
(* record with a seq field (the other fields are the users' business).    *)
(* The operators are pure: each returns the new buffer, and the caller     *)
(* (the sender or the receiver) writes it back into its own state.        *)
(*                                                                         *)
(* The counters are uint32 in the code; here they wrap at CounterWrap, a   *)
(* multiple of Cap.  Every use of them is either their difference or their *)
(* value masked by Cap - 1, both of which only depend on them modulo any   *)
(* multiple of Cap, so the smaller wrap changes nothing observable.       *)
(*                                                                         *)
(* The ASSERT(...) of pktbuf.c are compiled out unless _DEBUG is defined,  *)
(* so Enqueue and Dequeue do not check fullness or emptiness;             *)
(* ASSERT_ALWAYS is kept: SlotForSeq reports it in its ok field, and the   *)
(* caller turns a failed one into the exit(EXIT_FAILURE) of the process.  *)
(***************************************************************************)
EXTENDS Integers, FiniteSetsExt

CONSTANTS
    Cap,          \* capacity, a power of two (pktbuf_new's ASSERT_ALWAYS)
    CounterWrap,  \* modulus of the first/last counters (2^32 in the code)
    SeqSpace      \* size of the 8-bit sequence-number space (256)

ASSUME /\ Cap \in {2^k : k \in 0..8}
       /\ CounterWrap % Cap = 0 /\ CounterWrap > 2 * Cap
       /\ SeqSpace \in Nat \ {0}

Slots == 0 .. Cap - 1

\* mask_index(i, buf)
Mask(i) == i % Cap

\* pktbuf_used, pktbuf_empty, pktbuf_full
Used(b)    == (b.last - b.first) % CounterWrap
IsEmpty(b) == b.first = b.last
IsFull(b)  == Used(b) >= Cap

\* pktbuf_new: calloc'd, every slot holds the zero packet.
New(zero) == [slots |-> [p \in Slots |-> zero], first |-> 0, last |-> 0]

\* pktbuf_first (callers must check emptiness: the code returns NULL) and
\* pktbuf_at, whose idx is an absolute counter value, masked by the buffer.
First(b)   == b.slots[Mask(b.first)]
At(b, idx) == b.slots[Mask(idx)]

\* Writes through the pointer the code gets from pktbuf_at/pktbuf_enqueue.
SetAt(b, idx, pkt) == [b EXCEPT !.slots[Mask(idx)] = pkt]
SetSeqAt(b, idx, s) == [b EXCEPT !.slots[Mask(idx)].seq = s]

\* pktbuf_enqueue: the new slot is b.last (its old contents are kept).
Enqueue(b) == [b EXCEPT !.last = (@ + 1) % CounterWrap]

\* pktbuf_dequeue, and k of them in a row.
Dequeue(b)     == [b EXCEPT !.first = (@ + 1) % CounterWrap]
DequeueN(b, k) == [b EXCEPT !.first = (@ + k) % CounterWrap]

(***************************************************************************)
(* pktbuf_slotfor_seq(buf, s).  An empty buffer first gets one slot        *)
(* stamped s.  Then offset = (s - first().seq) mod 256 must be <= Cap      *)
(* (ASSERT_ALWAYS: the result's ok field), and slots are enqueued, each    *)
(* stamped first_seq + used - 1, until offset < used.  Stamping the j-th   *)
(* slot from the head writes physical slot Mask(first + j): for offset =   *)
(* Cap (which the assertion lets through) that is the head slot itself.    *)
(* The result is the new buffer and the absolute index of the slot.       *)
(***************************************************************************)
SlotForSeq(b, s) ==
    LET b0   == IF IsEmpty(b) THEN SetSeqAt(Enqueue(b), b.last, s) ELSE b
        fseq == First(b0).seq
        off  == (s - fseq) % SeqSpace
        u    == Used(b0)
        Stamped(p) == {j \in u .. off : Mask(b0.first + j) = p}
        grown ==
          [b0 EXCEPT
             !.last  = IF off < u THEN @ ELSE (b0.first + off + 1) % CounterWrap,
             !.slots = [p \in Slots |->
                          IF Stamped(p) = {} THEN b0.slots[p]
                          ELSE [b0.slots[p] EXCEPT
                                  !.seq = (fseq + Max(Stamped(p))) % SeqSpace]]]
    IN  [buf |-> grown,
         idx |-> (b0.first + off) % CounterWrap,
         ok  |-> off <= Cap]

=============================================================================
