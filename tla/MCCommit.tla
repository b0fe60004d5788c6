------------------------------ MODULE MCCommit ------------------------------
(***************************************************************************)
(* Commit for TLC.  Addresses 0 and 1 hold the program, 2 the handler of   *)
(* the exceptions of the EPU, 3 that of the LSU's.                         *)
(***************************************************************************)
EXTENDS Commit

CONSTANTS Ops, Handler      \* the instructions of the program and of the handlers

\* The instructions, before there is a program.
CPU == INSTANCE Isa WITH Vector <- <<>>, Programs <- {}, pc <- fetch_pc

MCVector == [c \in CPU!Causes |-> IF c \in {"EDTM", "EDPF", "EALIGN"} THEN 3 ELSE 2]

On == [ire |-> TRUE, mme |-> TRUE, ce |-> FALSE]

Instrs(ops) ==
    {i \in CPU!Instr : /\ i.op \in ops
                       /\ i.op \in {"b", "epc"} => i.arg = 0
                       /\ i.op = "psr" => i.arg \in {On, CPU!ResetPsr}
                       /\ i.op = "epsr" => i.arg = On}

MCPrograms == {p \in [0 .. 3 -> Instrs(Ops \cup Handler)] :
                  {p[0], p[1]} \subseteq Instrs(Ops) /\ p[2] = p[3] /\ p[2] \in Instrs(Handler)}

MCPredictions == {NotTaken, 0}
=============================================================================
