---------------------------- MODULE InOrderBuffer ----------------------------
(***************************************************************************)
(* What rob.v promises the rest of the core: instructions enter in program *)
(* order, are completed in any order, and leave in program order, each     *)
(* after it was completed.                                                 *)
(***************************************************************************)
EXTENDS Naturals, Sequences

CONSTANTS Capacity, Data, Width

VARIABLE q      \* sequence of [dat, done]

Fresh(ds) == [k \in 1 .. Len(ds) |-> [dat |-> ds[k], done |-> FALSE]]

Init == q = <<>>

\* A clock edge: n oldest leave, those in W are completed, ds enter.
Step(ds, W, n) ==
    LET marked == [k \in 1 .. Len(q) |-> [q[k] EXCEPT !.done = @ \/ k \in W]]
    IN  /\ n <= Len(q) /\ \A k \in 1 .. n : q[k].done
        /\ Len(q) + Len(ds) <= Capacity
        /\ q' = SubSeq(marked, n + 1, Len(q)) \o Fresh(ds)

Pushes == UNION {[1 .. n -> Data] : n \in 0 .. Width}

Next ==
    \/ \E ds \in Pushes, W \in SUBSET (1 .. Len(q)), n \in 0 .. Width : Step(ds, W, n)
    \/ q' = <<>>

Spec == Init /\ [][Next]_q
=============================================================================
