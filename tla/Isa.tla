-------------------------------- MODULE Isa --------------------------------
(***************************************************************************)
(* What the architecture promises of control flow and of the exception     *)
(* state, as the reference emulator defines it: CPU::step and              *)
(* CPU::raise_exception in em/csrc/cpu.cc.  A step executes one            *)
(* instruction of the program, or a run of at most Width that only advance *)
(* the PC.  General registers, memory and the privilege level are left     *)
(* out: a branch may be taken or not, an access may fault or not.          *)
(***************************************************************************)
EXTENDS Naturals

CONSTANTS
    PCS,        \* number of instruction addresses
    Vector,     \* [Causes -> PC]: the handler of each exception
    Programs,   \* the programs: functions from PC to Instr
    Width       \* instructions retired at once

PC == 0 .. PCS - 1
Causes == {"EIRQ", "EITM", "EIPF", "EINSN", "ESYSCALL", "EDTM", "EDPF", "EALIGN"}
Psr == [ire : BOOLEAN, mme : BOOLEAN, ce : BOOLEAN]     \* IRE, IMME and DMME, ICE and DCE

\* ls is a load or store, tlb a WMSR of the TLBs; arg is the target of a branch
\* and the value a WMSR writes.
Plain == {"alu", "barr", "rmsr", "tlb", "icinv", "dcop"}
Instr == [op : Plain \cup {"ls", "syscall", "rete", "undef"}, arg : {0}]
         \cup [op : {"b", "epc"}, arg : PC] \cup [op : {"psr", "epsr"}, arg : Psr]

VARIABLES prog, pc, psr, epsr, epc

isa_vars == <<prog, pc, psr, epsr, epc>>

npc(a) == (a + 1) % PCS
ResetPsr == [ire |-> FALSE, mme |-> FALSE, ce |-> FALSE]

InitIsa == prog \in Programs /\ pc = 0 /\ epc = 0 /\ psr = ResetPsr /\ epsr = ResetPsr

\* The PSR is saved; interrupts and the MMUs are turned off.
raise_exception(c, resume) ==
    /\ epc' = resume
    /\ epsr' = psr
    /\ psr' = [psr EXCEPT !.ire = FALSE, !.mme = FALSE]
    /\ pc' = Vector[c]

Interrupt == psr.ire /\ raise_exception("EIRQ", pc)

FetchFault == psr.mme /\ \E c \in {"EITM", "EIPF"} : raise_exception(c, pc)

Straight ==
    \E n \in 1 .. Width :
        /\ IF n = 1 THEN prog[pc].op \in Plain \cup {"ls"}
                    ELSE \A i \in 0 .. n - 1 : prog[(pc + i) % PCS].op = "alu"
        /\ pc' = (pc + n) % PCS
        /\ UNCHANGED <<psr, epsr, epc>>

Branch == prog[pc].op = "b" /\ pc' \in {npc(pc), prog[pc].arg} /\ UNCHANGED <<psr, epsr, epc>>

DataFault ==
    /\ prog[pc].op = "ls"
    /\ \E c \in {"EALIGN", "EDTM", "EDPF"} : (c # "EALIGN" => psr.mme) /\ raise_exception(c, pc)

Wmsr ==
    /\ prog[pc].op \in {"psr", "epsr", "epc"}
    /\ psr' = IF prog[pc].op = "psr" THEN prog[pc].arg ELSE psr
    /\ epsr' = IF prog[pc].op = "epsr" THEN prog[pc].arg ELSE epsr
    /\ epc' = IF prog[pc].op = "epc" THEN prog[pc].arg ELSE epc
    /\ pc' = npc(pc)

Syscall == prog[pc].op = "syscall" /\ raise_exception("ESYSCALL", npc(pc))

Undefined == prog[pc].op = "undef" /\ raise_exception("EINSN", pc)

Rete == prog[pc].op = "rete" /\ psr' = epsr /\ pc' = epc /\ UNCHANGED <<epsr, epc>>

NextIsa ==
    /\ Interrupt \/ FetchFault \/ Straight \/ Branch \/ DataFault \/ Wmsr \/ Syscall \/ Undefined \/ Rete
    /\ UNCHANGED prog

IsaSpec == InitIsa /\ [][NextIsa]_isa_vars
=============================================================================
