------------------------------ MODULE MCExec ------------------------------
(* Model-checking instance of Exec: five kinds of programs.                 *)
EXTENDS Exec, TLC

MCPredictions == {NotTaken, 1}

MCVector == [c \in FetchFaults \cup DataFaults \cup {"ESYSCALL"} |-> 4]
            @@ [c \in {"EINSN", "EIRQ"} |-> 0]

Li(rd, imms) == [op : {"mhi"}, rd : {rd}, rs1 : {0}, rs2 : {0}, imm : imms]
Odd(rd) == [op : {"or_i"}, rd : {rd}, rs1 : {0, rd}, rs2 : {0}, imm : {1}]
MsrOp(op, names) == [op : {op}, rd : {1}, msr : names]
Byte0(op, rd, rs1) == [op : {op}, rd : {rd}, rs1 : {rs1}, rs2 : {0}, imm : {0}]

MCMixes ==
    [alu |-> [insns |-> {i \in PlainInsns : i.op \notin Loads \cup Stores},
              area |-> {}, dce |-> FALSE],
     memory |-> [insns |-> {i \in PlainInsns : i.op \in Loads \cup Stores /\ i.rs1 # 2 /\ i.rd # 1}
                           \cup Li(1, {0, 1}) \cup Li(2, {0, 4, 5}) \cup Odd(1) \cup Odd(2),
                 area |-> 0..3, dce |-> FALSE],
     modes |-> [insns |-> Li(1, {0, 4, 7}) \cup Odd(1) \cup Byte0("ldbu", 2, 0)
                          \cup MsrOp("wmsr", {"PSR", "EPSR"}) \cup MsrOp("rmsr", {"PSR", "EPSR"})
                          \cup [op : {"syscall", "undef", "rete"}],
                area |-> 0..3, dce |-> FALSE],
     traps |-> [insns |-> Li(1, {2, 6})
                          \cup MsrOp("wmsr", {"EPC", "ELSA", "EVECT"} \cup SRs)
                          \cup MsrOp("rmsr", {"EPC", "ELSA"} \cup SRs)
                          \cup [op : {"syscall", "undef", "rete"}],
                area |-> {}, dce |-> FALSE],
     cached |-> [insns |-> Li(1, {0, 1, 2}) \cup Odd(2)
                           \cup Byte0("ldbu", 2, 1) \cup Byte0("stb", 2, 1)
                           \cup Byte0("stb", 0, 1) \cup MsrOp("wmsr", {"DCFLS"}),
                 area |-> {0, 2, 4}, dce |-> TRUE]]
============================================================================
