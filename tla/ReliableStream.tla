--------------------------- MODULE ReliableStream ---------------------------
(***************************************************************************)
(* What the transfer promises (spec.md section 1 and property 8.6): the   *)
(* receiver's output only ever grows, by the next chunks of the sender's  *)
(* input (one drain of the buffer may write several), so it is always a  *)
(* prefix of the input.                                                   *)
(* Whether it ever becomes the whole input is a liveness question the     *)
(* detailed modules answer under their own fairness.                      *)
(***************************************************************************)
EXTENDS Naturals, Sequences

CONSTANT In          \* the input, a sequence of chunk payloads
VARIABLE out         \* what has been written to the output

Init == out = <<>>

\* The next chunks of the input, at least one, are written.
Deliver ==
    \E k \in Len(out) + 1 .. Len(In) : out' = SubSeq(In, 1, k)

Spec == Init /\ [][Deliver]_out

=============================================================================
