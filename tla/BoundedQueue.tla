---------------------------- MODULE BoundedQueue ----------------------------
(***************************************************************************)
(* What the users of fifo_fwft_ctrl_rp_wp.v rely on: a bounded queue in    *)
(* which one clock edge may push, pop and flush at once.                   *)
(***************************************************************************)
EXTENDS Naturals, Sequences

CONSTANTS Capacity, Data

VARIABLE q

Init == q = <<>>

Rest(pop) == IF pop THEN Tail(q) ELSE q

\* A push needs room before the edge: a pop at the same edge makes none.
Step(push, din, pop) ==
    /\ push => Len(q) < Capacity
    /\ pop => q # <<>>
    /\ q' = IF push THEN Append(Rest(pop), din) ELSE Rest(pop)

Flush == q' = <<>>

Next == (\E push, pop \in BOOLEAN, din \in Data : Step(push, din, pop)) \/ Flush

Spec == Init /\ [][Next]_q
=============================================================================
