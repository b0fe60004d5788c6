----------------------------- MODULE MCCrossbar -----------------------------
(* The caches, the fabric and the memory with a line of a few beats and two *)
(* contents of it.                                                         *)
EXTENDS Crossbar

\* Every aligned byte, halfword and word.
AllAccess == {<<l, s>> \in (0 .. 7) \X (0 .. 2) : l % (2 ^ s) = 0}
=============================================================================
