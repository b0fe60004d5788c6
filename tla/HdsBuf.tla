------------------------------- MODULE HdsBuf -------------------------------
(***************************************************************************)
(* hds_buf.v, the handshake of one pipeline stage: a one-slot FIFO whose   *)
(* slot is the data register beside it (loaded by p_ce).  A slot is a      *)
(* sequence of length at most one.                                         *)
(***************************************************************************)
EXTENDS Naturals, Sequences

Empty == <<>>
BVALID(buf) == buf # Empty

\* BYPASS lets the slot be refilled at the edge that empties it.
AREADY(buf, BYPASS, BREADY) == buf = Empty \/ (BYPASS /\ BREADY)

HdsNext(buf, push, d, pop, flush) ==
    IF flush THEN Empty ELSE IF push THEN <<d>> ELSE IF pop THEN Empty ELSE buf
=============================================================================
