----------------------------- MODULE MCRenameRob -----------------------------
(* Renaming (four physical registers) and the reorder buffer (two banks of  *)
(* two entries, one instruction of which asks for a flush).  The modules    *)
(* share no state, so one of them is explored while the other is in reset.  *)
EXTENDS Rename, Rob

VARIABLE running    \* the component out of reset

MCInit == RnInit /\ Init /\ running \in {"rename", "rob"}

MCNext ==
    /\ UNCHANGED running
    /\ \/ running = "rename" /\ RnNext /\ UNCHANGED vars
       \/ running = "rob" /\ Next /\ UNCHANGED rn_vars

MCSpec == MCInit /\ [][MCNext]_<<rn_vars, vars, running>>
=============================================================================
