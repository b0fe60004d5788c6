--------------------------------- MODULE MCIrq ---------------------------------
(* An instance of Irq: a counter of two bits.                                *)
EXTENDS Irq

\* TCR values: a running timer with and without its interrupt, a stopped one that
\* still compares, and one that leaves P set.
MCTcrs ==
    {[cnt |-> 2, en |-> TRUE, i |-> TRUE, p |-> FALSE],
     [cnt |-> 0, en |-> TRUE, i |-> FALSE, p |-> FALSE],
     [cnt |-> 0, en |-> FALSE, i |-> TRUE, p |-> FALSE],
     [cnt |-> 0, en |-> TRUE, i |-> FALSE, p |-> TRUE]}

================================================================================
