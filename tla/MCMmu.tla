--------------------------------- MODULE MCMmu ---------------------------------
(* An instance of Mmu: upper halves that tell the permissions apart.         *)
EXTENDS Mmu

\* An entry for each of two pages that share a set, one in either half of the space.
MCTlbLs == {[v |-> TRUE, vpn |-> 0], [v |-> TRUE, vpn |-> 8]}
MCItlbLs == {[v |-> TRUE, vpn |-> 0]}

MCItlbHs ==
    {[ppn |-> 0, unc |-> FALSE, ux |-> TRUE, rx |-> FALSE],
     [ppn |-> 8, unc |-> TRUE, ux |-> FALSE, rx |-> TRUE]}

MCDtlbHs ==
    {[ppn |-> 0, unc |-> FALSE, uw |-> FALSE, ur |-> TRUE, rw |-> TRUE, rr |-> FALSE],
     [ppn |-> 8, unc |-> TRUE, uw |-> TRUE, ur |-> FALSE, rw |-> TRUE, rr |-> TRUE],
     [ppn |-> 8, unc |-> FALSE, uw |-> TRUE, ur |-> TRUE, rw |-> FALSE, rr |-> TRUE]}

\* The switches of the two sides are thrown together.
MCPsrs ==
    {[rm |-> rm, imme |-> mme, dmme |-> mme, ice |-> ce, dce |-> ce] :
        rm \in BOOLEAN, mme \in BOOLEAN, ce \in BOOLEAN}

================================================================================
