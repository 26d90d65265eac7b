----------------------------- MODULE MCTransfer -----------------------------
(***************************************************************************)
(* Transfer instantiated for TLC.  The code's constants are scaled down   *)
(* keeping their relations: the receive buffer holds max_window + 1       *)
(* slots (32 for 31), the mask is as wide as the buffer (32 bits), the    *)
(* send buffer is as large as the receive buffer (-b 32), and the         *)
(* sequence space is several windows wide (256 for 31).  These are the    *)
(* values of MCTransfer.cfg; MCWrap.cfg gives its own, with a sequence    *)
(* space smaller than the file so that sequence numbers wrap.             *)
(***************************************************************************)
EXTENDS Transfer

MCSeqSpace    == 8
MCMaxWindow   == 3
MCCap         == 4
MCCounterWrap == 16
MCLifetime    == MCSeqSpace - MCMaxWindow

\* MCZeroWin.cfg: a one-slot window (receiver/main.c's -b 1), so that one
\* chunk the blocked output has not taken closes it.
MCZWSeqSpace    == 4
MCZWMaxWindow   == 1
MCZWCap         == 2
MCZWCounterWrap == 8
MCZWLifetime    == MCZWSeqSpace - MCZWMaxWindow

=============================================================================
