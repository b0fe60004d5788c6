-------------------------------- MODULE Msr ---------------------------------
(***************************************************************************)
(* The special registers behind WMSR, RMSR, exceptions and RETE, twice: as *)
(* the flip-flops of cmt_psr.v driven by cmt_epu.v, and as the fields of   *)
(* the emulator's msr_s (msr.cc, raise_exception of cpu.cc).               *)
(*                                                                         *)
(* Of the PSR the four bits that exceptions and RETE change are kept.  The *)
(* timer and interrupt registers are in Irq, the TLBs in Mmu.              *)
(***************************************************************************)
EXTENDS Integers

CONSTANTS W,         \* bits of a word
          VECT_W,    \* EXCP_VECT_W: bits of an address below EVECT
          Vector,    \* cause -> vector, a byte address below 2^VECT_W
          RM, IRE, IMME, DMME,   \* positions of the bits in the PSR
          SRs        \* the scratch registers

Word == 0..(2^W - 1)
PC_W == W - 2

ASSUME MsrAssumption ==
    /\ VECT_W \in 2..W
    /\ \A c \in DOMAIN Vector : Vector[c] \in 0..(2^VECT_W - 1) /\ Vector[c] % 4 = 0
    /\ \A x, y \in {<<1, RM>>, <<2, IRE>>, <<3, IMME>>, <<4, DMME>>} :
           x[2] \in 0..(W - 1) /\ (x # y => x[2] # y[2])

Msrs == {"PSR", "EPSR", "EPC", "ELSA", "EVECT"} \cup SRs

bit(a, n) == (a \div 2^n) % 2
unpack(a) == [rm |-> bit(a, RM), ire |-> bit(a, IRE),
              imme |-> bit(a, IMME), dmme |-> bit(a, DMME)]
pack(p) == p.rm * 2^RM + p.ire * 2^IRE + p.imme * 2^IMME + p.dmme * 2^DMME

FetchFaults == {"EITM", "EIPF"}
DataFaults == {"EDTM", "EDPF"}

-----------------------------------------------------------------------------
(* The core.  x holds the registers; EPSR is kept as a word, of EVECT the   *)
(* bits from VECT_W up.                                                     *)

psr_reset == [psr |-> unpack(2^RM), epsr |-> 0, epc |-> 0, elsa |-> 0, evect |-> 0,
              sr |-> [n \in SRs |-> 0]]

(* dout_ps and dout_sr; EVECT is not among the registers read out.          *)
s1i_wb_dout(x, n) ==
    CASE n = "PSR" -> pack(x.psr)
      [] n = "EPSR" -> x.epsr
      [] n = "EPC" -> x.epc
      [] n = "ELSA" -> x.elsa
      [] n = "EVECT" -> 0
      [] OTHER -> x.sr[n]

commit_wmsr(x, n, dat) ==
    CASE n = "PSR" -> [x EXCEPT !.psr = unpack(dat)]
      [] n = "EPSR" -> [x EXCEPT !.epsr = dat]
      [] n = "EPC" -> [x EXCEPT !.epc = dat]
      [] n = "ELSA" -> [x EXCEPT !.elsa = dat]
      [] n = "EVECT" -> [x EXCEPT !.evect = dat \div 2^VECT_W]
      [] OTHER -> [x EXCEPT !.sr[n] = dat]

set_elsa_as_pc(cause) == cause \in FetchFaults \cup {"EINSN"}

\* Mutant: a system call returns to itself.
msr_epc_nxt_Pc(cause, pc) == 4 * pc
(* EPC stores the next address of the syscall instruction.                  *)
msr_epc_nxt(cause, pc) ==
    IF cause = "ESYSCALL" THEN 4 * ((pc + 1) % 2^PC_W) ELSE 4 * pc

psr_save(x, cause, pc, vaddr) ==
    [x EXCEPT !.epsr = pack(x.psr),
              !.psr = [rm |-> 1, ire |-> 0, imme |-> 0, dmme |-> 0],
              !.epc = msr_epc_nxt(cause, pc),
              !.elsa = IF set_elsa_as_pc(cause) THEN 4 * pc
                       ELSE IF cause \in DataFaults THEN vaddr ELSE @]
psr_restore(x) == [x EXCEPT !.psr = unpack(x.epsr)]

exc_flush_tgt(x, cause) ==
    IF cause = "ERET" THEN x.epc \div 4
    ELSE x.evect * 2^(VECT_W - 2) + Vector[cause] \div 4

-----------------------------------------------------------------------------
(* The emulator.  msr_s::reset sets PSR and EVECT and nothing else of these. *)

msr_reset(junk) ==
    [PSR |-> [rm |-> 1, ire |-> 0, imme |-> 0, dmme |-> 0], EVECT |-> 0,
     EPSR |-> unpack(junk), EPC |-> junk, ELSA |-> junk, SR |-> [n \in SRs |-> junk]]

rmsr(x, n) ==
    IF x.PSR.rm = 0 THEN 0
    ELSE CASE n = "PSR" -> pack(x.PSR)
           [] n = "EPSR" -> pack(x.EPSR)
           [] n = "EPC" -> x.EPC
           [] n = "ELSA" -> x.ELSA
           [] n = "EVECT" -> x.EVECT
           [] OTHER -> x.SR[n]

wmsr(x, n, val) ==
    IF x.PSR.rm = 0 THEN x
    ELSE CASE n = "PSR" -> [x EXCEPT !.PSR = unpack(val)]
           [] n = "EPSR" -> [x EXCEPT !.EPSR = unpack(val)]
           [] n = "EPC" -> [x EXCEPT !.EPC = val]
           [] n = "ELSA" -> [x EXCEPT !.ELSA = val]
           [] n = "EVECT" -> [x EXCEPT !.EVECT = val]
           [] OTHER -> [x EXCEPT !.SR[n] = val]

raise_exception(x, pc, cause, lsa) ==
    [msr |-> [x EXCEPT !.ELSA = IF cause \in FetchFaults \cup DataFaults \cup {"EINSN"}
                                THEN lsa ELSE @,
                       !.EPC = (pc + (IF cause = "ESYSCALL" THEN 4 ELSE 0)) % 2^W,
                       !.EPSR = x.PSR,
                       !.PSR = [rm |-> 1, ire |-> 0, imme |-> 0, dmme |-> 0]],
     pc |-> (x.EVECT - (x.EVECT % 2^VECT_W)) + Vector[cause]]
=============================================================================
