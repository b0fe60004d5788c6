------------------------------- MODULE Commit -------------------------------
(***************************************************************************)
(* The commit stage: cmt.v with its load/store unit cmt_lsu.v, exception   *)
(* unit cmt_epu.v, state registers cmt_psr.v and the output registers of   *)
(* dmmu.v.  Loads, stores and privileged instructions are executed here,   *)
(* in order, at the head of the reorder buffer.  A step is a clock edge.   *)
(* The front end fetches along predictions that may be wrong for any       *)
(* instruction; the D$ stalls as it likes; instructions become ready to    *)
(* commit after any delay.                                                 *)
(***************************************************************************)
EXTENDS Integers, Sequences

CONSTANTS
    PCS, Vector, Programs, Width,
    ROBMax,         \* bound on the instructions between decoder and commit
    Predictions,    \* what the branch predictor may say: a set of PCs and NotTaken
    LsuFaults       \* the sets of faults an access may meet

NotTaken == -1
Mixed == -1         \* the OR of two exception vectors

VARIABLES
    prog,
    fetch_pc,           \* the front end's pc
    rob, nready,        \* decoded instructions in order, and how many are ready to commit
    fsm,                \* fsm_state_ff
    se,                 \* s1o_se_fls, s1o_se_tgt
    l1, l2,             \* stages 1 and 2 of the LSU: s1o_valid, s1o_EALIGN; s2o_valid and faults
    tlb,                \* the faults the DMMU's registers say
    e1, e1_pc,          \* stage 1 of the EPU: s1o_wb_valid, s1o_commit_*; s1o_commit_epc
    psr, epsr, epc,
    sent                \* D$ requests of the instruction at the head (only to state properties)

fetch_vars == <<prog, fetch_pc, rob, nready>>
vars == <<fetch_vars, fsm, se, l1, l2, tlb, e1, e1_pc, psr, epsr, epc, sent>>

\* The address of the next instruction to take effect.
arch_pc == IF se.fls THEN se.tgt ELSE IF rob # <<>> THEN rob[1].pc ELSE fetch_pc

ISA == INSTANCE Isa WITH pc <- arch_pc

ASSUME Parameters ==
    /\ PCS \in Nat \ {0} /\ Width = 2 /\ ROBMax \in Nat \ {0}
    /\ Vector \in [ISA!Causes -> 0 .. PCS - 1]
    /\ \A p \in Programs : DOMAIN p = 0 .. PCS - 1 /\ \A a \in DOMAIN p : p[a] \in ISA!Instr
    /\ Predictions \subseteq {NotTaken} \cup 0 .. PCS - 1
    /\ \A f \in LsuFaults : f \subseteq {"EALIGN", "EDTM", "EDPF"}

PC == 0 .. PCS - 1
npc(a) == (a + 1) % PCS

NoLsu == [valid |-> FALSE, exc |-> {}]
NoEpu == [wb_valid |-> FALSE, exc |-> "no", op |-> "no"]

Init ==
    /\ prog \in Programs /\ fetch_pc = 0 /\ rob = <<>> /\ nready = 0
    /\ fsm = "IDLE" /\ se = [fls |-> FALSE, tgt |-> 0]
    /\ l1 = NoLsu /\ l2 = NoLsu /\ tlb = {}
    /\ e1 = NoEpu /\ e1_pc = 0
    /\ psr = ISA!ResetPsr /\ epsr = psr /\ epc = 0
    /\ sent = 0

\* The instruction x of the ROB as the decoder gave it: one that is interrupted
\* or could not be fetched (fe) is a NOP with an exception.
opc(x) == IF x.fe = "no" THEN prog[x.pc].op ELSE "alu"
exc(x) == IF x.fe # "no" THEN x.fe
          ELSE CASE prog[x.pc].op = "syscall" -> "ESYSCALL"
                 [] prog[x.pc].op = "rete" -> "ERET"
                 [] prog[x.pc].op = "undef" -> "EINSN"
                 [] OTHER -> "no"

\* Any instruction may have been predicted taken: what the BRU found is compared
\* with the prediction for every one.

\* mutant: the prediction is checked for branches only
fls_BranchOnly(x) == opc(x) = "b" /\ x.act # x.pred
fls(x) == x.act # x.pred
fls_tgt(x) == IF x.act = NotTaken THEN npc(x.pc) ELSE x.act

lsu_req(x) == ~se.fls /\ opc(x) \in {"ls", "barr"}
epu_req(x) == ~se.fls /\ (exc(x) # "no" \/ opc(x) \in {"rmsr", "tlb", "icinv", "dcop", "psr", "epsr", "epc"})
single_fu(x) == lsu_req(x) \/ epu_req(x) \/ fls(x) \/ opc(x) = "b"

\* How many instructions may fire together: the second only if both are plain.
cmt_ready_2_fire ==
    IF nready >= 2 /\ ~single_fu(rob[1]) /\ ~single_fu(rob[2]) THEN 2 ELSE IF nready >= 1 THEN 1 ELSE 0

pipe_req == nready > 0 /\ (lsu_req(rob[1]) \/ epu_req(rob[1]))

\* mutant: the request is repeated until it is answered
lsu_req_valid_Held == pipe_req
lsu_req_valid == fsm = "IDLE" /\ pipe_req

epu_req_valid == fsm = "IDLE" /\ nready > 0 /\ epu_req(rob[1])

\* The LSU takes loads, stores and D$ operations: a barrier is none of them.
s1i_dcop == epu_req_valid /\ opc(rob[1]) = "dcop"

\* mutant: D$ operations are left to the EPU
s1i_valid_NoDcop == lsu_req_valid /\ opc(rob[1]) = "ls"
s1i_valid == lsu_req_valid /\ (opc(rob[1]) = "ls" \/ s1i_dcop)

\* What is in the last stages finishes when the D$ does not stall.
excs == (IF l2.valid THEN l2.exc ELSE {}) \cup ({e1.exc} \ {"no"})
exc_flush(p_ce) == p_ce /\ excs # {}
pipe_finish(p_ce) == p_ce /\ (l2.valid \/ e1.wb_valid)

refetch(p_ce) == p_ce /\ e1.op \in {"psr", "tlb"}

exc_flush_tgt == IF \E c, d \in excs : c # d THEN Mixed
                 ELSE IF excs = {"ERET"} THEN epc ELSE Vector[CHOOSE c \in excs : TRUE]

flush(p_ce) == se.fls \/ exc_flush(p_ce)
flush_tgt == IF se.fls THEN se.tgt ELSE exc_flush_tgt

cmt_fire(p_ce) ==
    IF (pipe_req => pipe_finish(p_ce)) /\ ~flush(p_ce) THEN cmt_ready_2_fire ELSE 0

fsm_nxt(p_ce, p_ce_s1) ==
    CASE fsm = "IDLE" -> IF pipe_req /\ p_ce_s1 THEN "PENDING" ELSE "IDLE"
      [] fsm = "PENDING" -> IF pipe_finish(p_ce) THEN "IDLE" ELSE "PENDING"

se_nxt(p_ce) ==
    IF cmt_fire(p_ce) > 0 /\ (fls(rob[1]) \/ refetch(p_ce))
    THEN [fls |-> TRUE, tgt |-> IF fls(rob[1]) THEN fls_tgt(rob[1]) ELSE npc(rob[1].pc)]
    ELSE [fls |-> FALSE, tgt |-> 0]

\* cmt_psr.v: save, restore or write.  A restore leaves ICE and DCE alone.
psr_nxt(p_ce) ==
    CASE p_ce /\ excs \ {"ERET"} # {} -> [psr EXCEPT !.ire = FALSE, !.mme = FALSE]
      [] p_ce /\ e1.exc = "ERET" -> [psr EXCEPT !.ire = epsr.ire, !.mme = epsr.mme]
      [] p_ce /\ e1.op = "psr" -> prog[e1_pc].arg
      [] OTHER -> psr
epsr_nxt(p_ce) ==
    CASE p_ce /\ excs \ {"ERET"} # {} -> psr
      [] p_ce /\ e1.op = "epsr" -> prog[e1_pc].arg
      [] OTHER -> epsr
epc_nxt(p_ce) ==
    CASE p_ce /\ e1.op = "epc" -> prog[e1_pc].arg
      [] p_ce /\ excs \ {"ERET"} # {} -> IF e1.exc = "ESYSCALL" THEN npc(e1_pc) ELSE e1_pc
      [] OTHER -> epc

\* What the decoder may make of the instruction at fetch_pc: with interrupts
\* enabled it may be interrupted, with the IMMU on it may fault.
Decoded ==
    [pc : {fetch_pc}, pred : Predictions, act : {NotTaken},
     fe : (IF psr'.ire THEN {"EIRQ"} ELSE {}) \cup (IF psr'.mme THEN {"EITM", "EIPF"} ELSE {})]
    \cup [pc : {fetch_pc}, pred : Predictions, fe : {"no"},
          act : {NotTaken} \cup IF prog[fetch_pc].op = "b" THEN {prog[fetch_pc].arg} ELSE {}]

\* The instructions in flight after an edge at which n fire.
Advance(n) ==
    \E new \in {<<>>} \cup (IF Len(rob) < ROBMax THEN {<<x>> : x \in Decoded} ELSE {}) :
        /\ rob' = SubSeq(rob, n + 1, Len(rob)) \o new
        /\ nready' \in nready - n .. Len(rob) - n
        /\ fetch_pc' = IF new = <<>> THEN fetch_pc
                       ELSE IF new[1].pred = NotTaken THEN npc(fetch_pc) ELSE new[1].pred

\* An edge: the D$ stalls or not, the I$ is ready for an ICINV or not, and an
\* access that enters meets the faults fault.
Clock(stall, icinv_ready, fault) ==
    LET p_ce == ~stall
        icinv_stall_req == epu_req_valid /\ opc(rob[1]) = "icinv" /\ p_ce /\ ~icinv_ready
        p_ce_s1 == p_ce /\ ~icinv_stall_req
        dc_req == p_ce_s1 /\ s1i_valid
    IN  /\ fsm' = fsm_nxt(p_ce, p_ce_s1)
        /\ se' = se_nxt(p_ce)
        /\ l1' = IF p_ce_s1
                 THEN [valid |-> s1i_valid, exc |-> IF dc_req /\ ~s1i_dcop THEN fault \cap {"EALIGN"} ELSE {}]
                 ELSE l1
        /\ tlb' = IF dc_req /\ ~s1i_dcop THEN fault \ {"EALIGN"} ELSE tlb
        /\ l2' = IF p_ce THEN [valid |-> l1.valid, exc |-> l1.exc \cup tlb] ELSE l2
        /\ e1' = IF ~p_ce_s1 THEN e1
                 ELSE IF epu_req_valid THEN [wb_valid |-> ~s1i_dcop, exc |-> exc(rob[1]), op |-> opc(rob[1])]
                 ELSE NoEpu
        /\ e1_pc' = IF p_ce_s1 /\ rob # <<>> THEN rob[1].pc ELSE e1_pc
        /\ psr' = psr_nxt(p_ce) /\ epsr' = epsr_nxt(p_ce) /\ epc' = epc_nxt(p_ce)
        /\ sent' = IF flush(p_ce) \/ cmt_fire(p_ce) > 0 THEN 0 ELSE IF dc_req THEN sent + 1 ELSE sent
        /\ UNCHANGED prog
        /\ IF flush(p_ce) THEN rob' = <<>> /\ nready' = 0 /\ fetch_pc' = flush_tgt
                          ELSE Advance(cmt_fire(p_ce))

\* The D$ stalls only for the access in its stage 2.  TLB faults need the DMMU
\* on.  An input nothing looks at is given one value.
Stalls == IF l2.valid THEN BOOLEAN ELSE {FALSE}
IcinvReady == IF epu_req_valid /\ opc(rob[1]) = "icinv" THEN BOOLEAN ELSE {TRUE}
Faults == IF s1i_valid /\ ~s1i_dcop THEN {f \in LsuFaults : f \subseteq {"EALIGN"} \/ psr.mme} ELSE {{}}

Next == \E stall \in Stalls, icinv_ready \in IcinvReady, fault \in Faults : Clock(stall, icinv_ready, fault)

\* The clock runs; the D$ answers and the I$ is ready again and again, and what
\* has been decoded is executed.
Ready == \E fault \in Faults : Clock(FALSE, TRUE, fault) /\ (~flush(TRUE) => nready' = Len(rob) - cmt_fire(TRUE))
Fairness == WF_vars(Ready)

Spec == Init /\ [][Next]_vars /\ Fairness
-----------------------------------------------------------------------------

\* The commit stage implements the architecture: whatever was predicted, however
\* long the D$ stalls, instructions take effect in program order, one exception
\* at a time, an interrupt only while IRE is set, and EPC, EPSR and PSR are those
\* of the instruction that trapped.
ImplementsIsa == ISA!IsaSpec

\* The LSU asks the D$ exactly once for each load, store or D$ operation that
\* commits, and never for an instruction that is thrown away.
AccessOnce == sent = IF l1.valid \/ l2.valid THEN 1 ELSE 0

\* Only an instruction that is pending finishes, so that the port of the LSU and
\* the EPU is never used at two edges in a row.
FinishesPending == pipe_finish(TRUE) => fsm = "PENDING"

\* The differences between the RTL and the emulator that ImplementsIsa does not
\* look at: two faults of one access (cmt_lsu.v:398), the caches switched by a
\* RETE (cmt_psr.v:138), and a D$ operation that finds the fault of an earlier
\* access in the DMMU's registers (cmt_lsu.v:261).
SingleFaults == \A f \in LsuFaults : \A x, y \in f : x = y
CachesFixed == \A p \in Programs : \A a \in DOMAIN p : p[a].op \in {"psr", "epsr"} => ~p[a].arg.ce
NoStaleFault == s1i_dcop => tlb = {}

\* An instruction handed to the LSU or the EPU is finished at last.
Finishes == fsm = "PENDING" ~> fsm = "IDLE"
=============================================================================
