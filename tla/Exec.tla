-------------------------------- MODULE Exec --------------------------------
(***************************************************************************)
(* What one instruction does, twice: by the pipeline (the decoder id_dec.v,*)
(* the shared adder of ex_pipe.v, ex_alu.v, ex_bru.v, ex_agu.v and the byte *)
(* lanes of cmt_lsu.v) and by the reference emulator (CPU::step of cpu.cc). *)
(* Both run the same instruction from their own state; the emulator is what *)
(* the difference test of dpi-c.cc compares the pipeline with.              *)
(*                                                                         *)
(* Words have W bits, a byte W / 4 of them.  The short immediate has K bits *)
(* (15 in the source), the one of MHI W - K (17), the long displacement J   *)
(* (25).  The program counter of the pipeline counts instructions, the      *)
(* emulator's counts bytes.  The special registers are those of Msr, the    *)
(* emulator's data cache is that of EmuCache; the pipeline's, which DCache  *)
(* shows to be transparent, is plain memory here.                           *)
(***************************************************************************)
EXTENDS Msr, EmuCache, FiniteSets, Bitwise

CONSTANTS K, J,          \* bits of imm15/rel15, of rel25
          LNK,           \* the link register
          Regs,          \* register numbers in use, 0 and LNK among them
          Predictions,   \* what the branch predictor says: NotTaken or a pc
          NotTaken,
          MemBytes,      \* byte addresses backed by memory, whole words
          Mixes,         \* the programs: the instructions a program is made of,
                         \* the bytes it uses, whether boot code set PSR.DCE
          Junk           \* what is left in memory that nobody initialised

Pcs == 0..(2^PC_W - 1)

RegReg == {"and", "or", "xor", "lsl", "lsr", "asr", "add", "sub"}
RegImm == {"and_i", "or_i", "xor_i", "lsl_i", "lsr_i", "asr_i", "add_i"}
Bcc == {"beq", "bne", "bgt", "bgtu", "ble", "bleu"}
Jumps == {"jmp", "jmp_i", "jmp_lnk_i"}
Loads == {"ldb", "ldbu", "ldh", "ldhu", "ldwu"}
Stores == {"stb", "sth", "stw"}

(* The instructions, a field that the operation has not being 0.  A JMP     *)
(* that links into its own target register is left out: emu_jmp goes to the *)
(* new value of that register, b_tgt to the old one.  WMSR and RMSR name    *)
(* their register; DCFLS is a WMSR, "undef" any opcode nobody decodes.      *)
ImmBits(op) == CASE op \in RegReg \cup {"jmp"} -> 0
                 [] op = "mhi" -> W - K
                 [] op \in {"jmp_i", "jmp_lnk_i"} -> J
                 [] OTHER -> K
Plain == RegReg \cup RegImm \cup {"mhi"} \cup Bcc \cup Jumps \cup Loads \cup Stores
PlainInsns == {i \in [op : Plain, rd : Regs, rs1 : Regs, rs2 : Regs, imm : Word] :
            /\ i.imm < 2^ImmBits(i.op)
            /\ i.op \notin RegReg => i.rs2 = 0
            /\ i.op \in {"mhi", "jmp_i", "jmp_lnk_i"} => i.rs1 = 0
            /\ i.op \in {"jmp_i", "jmp_lnk_i"} => i.rd = 0
            /\ i.op = "jmp" /\ i.rd = i.rs1 => i.rd = 0}
Insns == PlainInsns \cup [op : {"rmsr"}, rd : Regs, msr : Msrs]
                    \cup [op : {"wmsr"}, rd : Regs, msr : Msrs \cup {"DCFLS"}]
                    \cup [op : {"syscall", "undef", "rete"}]

ASSUME ExecAssumption ==
    /\ W \in {4, 8, 16, 32} /\ K \in 1..(W - 2) /\ J \in 1..(W - 2)
    /\ {0, LNK} \subseteq Regs /\ LNK # 0
    /\ Predictions \subseteq Pcs \cup {NotTaken}
    /\ Junk \subseteq Word
    /\ \A n \in DOMAIN Mixes : Mixes[n].area \subseteq MemBytes /\ Mixes[n].insns \subseteq Insns

VARIABLES rtl,   \* pipeline: pc in instructions, registers, memory, MSRs
          emu,   \* emulator: pc in bytes, registers, memory, MSRs, data cache
          mix,   \* the program that runs, an element of DOMAIN Mixes
          known  \* the MSRs that have been written since reset

vars == <<rtl, emu, mix, known>>

msb(a) == bit(a, W - 1)
signed(a) == a - msb(a) * 2^W
sign_ext(a, n) == IF a >= 2^(n - 1) THEN a + 2^W - 2^n ELSE a

-----------------------------------------------------------------------------
(* id_dec.v: the operands an operation takes and the register it writes.   *)

use_simm15(op) == op \in {"xor_i", "add_i"} \cup Loads \cup Stores

imm(i) ==
    CASE i.op \in RegImm \cup Loads \cup Stores ->
             IF use_simm15(i.op) THEN sign_ext(i.imm, K) ELSE i.imm
      [] i.op \in Bcc -> (4 * sign_ext(i.imm, K)) % 2^W
      [] i.op \in {"jmp_i", "jmp_lnk_i"} -> (4 * sign_ext(i.imm, J)) % 2^W
      [] i.op = "mhi" -> i.imm
      [] OTHER -> 0

insn_no_rops(op) == op \in {"mhi", "jmp_i", "jmp_lnk_i", "syscall", "rete"}
read_rd_as_rs2(op) == op \in Stores \cup Bcc \cup {"wmsr"}
rf_rs2_re(op) == \/ op \notin RegImm \cup Loads \cup {"rmsr"} /\ ~insn_no_rops(op)
                 \/ read_rd_as_rs2(op)
rf_waddr(i) == IF i.op = "jmp_lnk_i" THEN LNK ELSE i.rd
not_wb(op) == op \in {"jmp_i", "wmsr", "syscall", "undef", "rete"} \cup Bcc \cup Stores
rf_we(i) == ~not_wb(i.op) /\ rf_waddr(i) # 0

ex_operand1(s, i) == IF insn_no_rops(i.op) THEN imm(i) ELSE s.r[i.rs1]
ex_operand2(s, i) ==
    IF rf_rs2_re(i.op)
    THEN s.r[IF read_rd_as_rs2(i.op) THEN i.rd ELSE i.rs2]
    ELSE imm(i)

-----------------------------------------------------------------------------
(* ex_pipe.v: the one adder of the stage, which the ALU, the address unit   *)
(* and the comparisons of the branch unit share.                            *)

add_c_o(a, b, s) ==
    LET op2 == IF s THEN 2^W - 1 - b ELSE b
        full == a + op2 + (IF s THEN 1 ELSE 0)
        sum == full % 2^W
    IN  [sum |-> sum, carry |-> full >= 2^W,
         overflow |-> msb(a) = msb(op2) /\ msb(a) # msb(sum)]

agu_en(op) == op \in Loads \cup Stores

adder(s, i) == add_c_o(ex_operand1(s, i),
                       IF agu_en(i.op) THEN imm(i) ELSE ex_operand2(s, i),
                       i.op \in Bcc \cup {"sub"})

(* ex_alu.v.  A left shift is a right shift between two bit reversals, an   *)
(* arithmetic one a shift of twice the width.                               *)
reverse_bits(a) ==
    LET rev[n \in 0..W] == IF n = 0 THEN 0 ELSE 2 * rev[n - 1] + bit(a, n - 1)
    IN  rev[W]

dat_shifter(op, a, b) ==
    LET lsl == op \in {"lsl", "lsl_i"}
        shift_lsw == IF lsl THEN reverse_bits(a) ELSE a
        shift_msw == IF op \in {"asr", "asr_i"} THEN msb(a) * (2^W - 1) ELSE 0
        shift_right == ((shift_msw * 2^W + shift_lsw) \div 2^(b % W)) % 2^W
    IN  IF lsl THEN reverse_bits(shift_right) ELSE shift_right

alu_result(s, i) ==
    LET a == ex_operand1(s, i)
        b == ex_operand2(s, i)
    IN  CASE i.op \in {"add", "add_i", "sub"} -> adder(s, i).sum
          [] i.op \in {"and", "and_i"} -> a & b
          [] i.op \in {"or", "or_i"} -> a | b
          [] i.op \in {"xor", "xor_i"} -> a ^^ b
          [] i.op \in {"lsl", "lsl_i", "lsr", "lsr_i", "asr", "asr_i"} ->
                 dat_shifter(i.op, a, b)
          [] i.op = "mhi" -> ((b % 2^(W - K)) * 2^K) % 2^W
          [] OTHER -> 0

(* ex_bru.v.                                                                *)
bcc_taken(s, i) ==
    LET cmp_eq == ex_operand1(s, i) = ex_operand2(s, i)
        cmp_lt_s == (msb(adder(s, i).sum) = 1) # adder(s, i).overflow
        cmp_lt_u == ~adder(s, i).carry
    IN  \/ i.op = "beq" /\ cmp_eq
        \/ i.op = "bne" /\ ~cmp_eq
        \/ i.op = "bgtu" /\ ~cmp_lt_u /\ ~cmp_eq
        \/ i.op = "bgt" /\ ~cmp_lt_s /\ ~cmp_eq
        \/ i.op = "bleu" /\ (cmp_lt_u \/ cmp_eq)
        \/ i.op = "ble" /\ (cmp_lt_s \/ cmp_eq)

b_taken(s, i) == bcc_taken(s, i) \/ i.op \in Jumps

b_tgt(s, i) ==
    CASE bcc_taken(s, i) -> (s.pc + (imm(i) \div 4)) % 2^PC_W
      [] i.op \in {"jmp_i", "jmp_lnk_i"} ->
             (s.pc + (ex_operand2(s, i) \div 4)) % 2^PC_W
      [] i.op = "jmp" -> ex_operand1(s, i) \div 4
      [] OTHER -> 0

npc(s) == (s.pc + 1) % 2^PC_W

\* Mutant: only the direction of a prediction is checked, not its target.
se_fail_Direction(s, i, pred) == b_taken(s, i) # (pred # NotTaken)
(* Whether the prediction the instruction was fetched with failed, and the  *)
(* pc that runs next: the front end went where the prediction said.         *)
se_fail(s, i, pred) ==
    \/ b_taken(s, i) # (pred # NotTaken)
    \/ b_taken(s, i) /\ b_tgt(s, i) # pred
se_tgt(s, i) == IF b_taken(s, i) THEN b_tgt(s, i) ELSE npc(s)
next_pc(s, i, pred) == IF se_fail(s, i, pred) THEN se_tgt(s, i)
                       ELSE IF pred = NotTaken THEN npc(s) ELSE pred

rf_dout(s, i) ==
    IF i.op \in Jumps /\ rf_we(i) THEN 4 * npc(s) ELSE alu_result(s, i)

-----------------------------------------------------------------------------
(* cmt_lsu.v: byte lanes of a word, lane 0 the lowest byte.                 *)

size(op) == CASE op \in {"ldb", "ldbu", "stb"} -> 0
              [] op \in {"ldh", "ldhu", "sth"} -> 1
              [] OTHER -> 2
ByteW == W \div 4
lane(w, n) == (w \div 2^(n * ByteW)) % 2^ByteW

misalign(op, va) == \/ size(op) = 2 /\ va % 4 # 0
                    \/ size(op) = 1 /\ va % 2 # 0

(* Data replicated over the lanes, and the mask of the lanes to write.      *)
dc_wdat(op, w, n) == lane(w, CASE size(op) = 2 -> n
                               [] size(op) = 1 -> n % 2
                               [] OTHER -> 0)
dc_wmsk(op, va) == CASE size(op) = 2 -> 0..3
                     [] size(op) = 1 -> IF bit(va, 1) = 1 THEN {2, 3} ELSE {0, 1}
                     [] OTHER -> {va % 4}

dc_write(s, i, va) ==
    [a \in MemBytes |-> IF /\ a \div 4 = va \div 4
                           /\ (a % 4) \in dc_wmsk(i.op, va)
                        THEN dc_wdat(i.op, ex_operand2(s, i), a % 4)
                        ELSE s.mem[a]]

dout_32b(s, va) == LET base == va - (va % 4)
                       word[n \in 0..4] ==
                           IF n = 0 THEN 0
                           ELSE word[n - 1] + s.mem[base + n - 1] * 2^((n - 1) * ByteW)
                   IN  word[4]

lsu_wb_dout(s, i, va) ==
    LET dout == dout_32b(s, va)
        half == (dout \div (IF bit(va, 1) = 1 THEN 2^(W \div 2) ELSE 1)) % 2^(W \div 2)
        extend(v, n) == IF i.op \in {"ldb", "ldh"} THEN sign_ext(v, n) ELSE v
    IN  CASE size(i.op) = 2 -> dout
          [] size(i.op) = 1 -> extend(half, W \div 2)
          [] OTHER -> extend(lane(dout, va % 4), ByteW)

(* The exception an instruction raises by itself.                           *)
fe(op) == CASE op = "syscall" -> "ESYSCALL" [] op = "undef" -> "EINSN"
            [] op = "rete" -> "ERET" [] OTHER -> "none"

(* The pipeline takes instruction i, fetched with prediction pred, from     *)
(* state s; fault is what the MMUs and the interrupt controller say of it.  *)
rtl_step(s, i, pred, fault) ==
    LET cause == IF fault = "none" THEN fe(i.op) ELSE fault
        lsa == adder(s, i).sum
        result == CASE i.op \in Loads -> lsu_wb_dout(s, i, lsa)
                    [] i.op = "rmsr" -> s1i_wb_dout(s.msr, i.msr)
                    [] OTHER -> rf_dout(s, i)
    IN  CASE cause = "none" ->
                 [pc |-> next_pc(s, i, pred),
                  r |-> IF rf_we(i) THEN [s.r EXCEPT ![rf_waddr(i)] = result] ELSE s.r,
                  mem |-> IF i.op \in Stores /\ ~misalign(i.op, lsa)
                          THEN dc_write(s, i, lsa) ELSE s.mem,
                  msr |-> IF i.op = "wmsr" /\ i.msr # "DCFLS"
                          THEN commit_wmsr(s.msr, i.msr, ex_operand2(s, i)) ELSE s.msr]
          [] cause = "ERET" ->
                 [s EXCEPT !.pc = exc_flush_tgt(s.msr, cause), !.msr = psr_restore(@)]
          [] OTHER ->
                 [s EXCEPT !.pc = exc_flush_tgt(s.msr, cause),
                           !.msr = psr_save(@, cause, s.pc, lsa)]

-----------------------------------------------------------------------------
(* cpu.cc: CPU::step.  A C shift takes the host's amount, modulo the width. *)

get_reg(s, n) == IF n = 0 THEN 0 ELSE s.r[n]
set_reg(s, n, x) == IF n = 0 THEN s ELSE [s EXCEPT !.r[n] = x % 2^W]
simm15(i) == sign_ext(i.imm, K)
arith_shift(a, n) ==
    (signed(a) \div 2^(n % W)) % 2^W
va_of(s, i) == (get_reg(s, i.rs1) + simm15(i)) % 2^W
bytes_of(i) == CASE i.op \in {"ldb", "ldbu", "stb"} -> 1
                 [] i.op \in {"ldh", "ldhu", "sth"} -> 2
                 [] OTHER -> 4
check_vma_align(va, n) == va % n = 0

emu_alu(s, i) ==
    LET a == get_reg(s, i.rs1)
        b == get_reg(s, i.rs2)
    IN  CASE i.op = "and" -> a & b       [] i.op = "and_i" -> a & i.imm
          [] i.op = "or" -> a | b        [] i.op = "or_i" -> a | i.imm
          [] i.op = "xor" -> a ^^ b      [] i.op = "xor_i" -> a ^^ simm15(i)
          [] i.op = "lsl" -> a * 2^(b % W)
          [] i.op = "lsl_i" -> a * 2^(i.imm % W)
          [] i.op = "lsr" -> a \div 2^(b % W)
          [] i.op = "lsr_i" -> a \div 2^(i.imm % W)
          [] i.op = "asr" -> arith_shift(a, b)
          [] i.op = "asr_i" -> arith_shift(a, i.imm)
          [] i.op = "add" -> a + b       [] i.op = "add_i" -> a + simm15(i)
          [] i.op = "sub" -> a - b       [] i.op = "mhi" -> i.imm * 2^K

emu_cc(s, i) ==
    LET a == get_reg(s, i.rs1)
        d == get_reg(s, i.rd)
    IN  CASE i.op = "beq" -> a = d
          [] i.op = "bne" -> a # d
          [] i.op = "bgt" -> signed(a) > signed(d)
          [] i.op = "bgtu" -> a > d
          [] i.op = "ble" -> signed(a) <= signed(d)
          [] i.op = "bleu" -> a <= d

(* An access goes through the data cache when PSR.DCE is set.               *)
fields(pa) == [tag |-> pa \div (OFFS * SETS), set |-> (pa \div OFFS) % SETS,
               off |-> pa % OFFS]
phy_readm(s, va, n) ==
    IF Mixes[mix].dce THEN cache_readm(s.dc, s.mem, fields(va), n)
    ELSE [c |-> s.dc, m |-> s.mem,
          bytes |-> [k \in 0..(n - 1) |-> s.mem[fields(va + k)]]]
phy_writem(s, va, n, x) ==
    LET bytes == [k \in 0..(n - 1) |-> lane(x, k)]
    IN  IF Mixes[mix].dce THEN cache_writem(s.dc, s.mem, fields(va), n, bytes)
        ELSE [c |-> s.dc,
              m |-> [a \in Addr |-> IF \E k \in 0..(n - 1) : a = fields(va + k)
                                    THEN bytes[CHOOSE k \in 0..(n - 1) : a = fields(va + k)]
                                    ELSE s.mem[a]]]

emu_load(s, i) ==
    LET n == bytes_of(i)
        x == phy_readm(s, va_of(s, i), n)
        v[k \in 0..n] == IF k = 0 THEN 0 ELSE v[k - 1] + x.bytes[k - 1] * 2^((k - 1) * ByteW)
    IN  set_reg([s EXCEPT !.dc = x.c, !.mem = x.m], i.rd,
                IF i.op \in {"ldb", "ldh"} THEN sign_ext(v[n], n * ByteW) ELSE v[n])
emu_store(s, i) ==
    LET x == phy_writem(s, va_of(s, i), bytes_of(i), get_reg(s, i.rd))
    IN  [s EXCEPT !.dc = x.c, !.mem = x.m]
emu_wmsr(s, i) ==
    LET x == flush(s.dc, s.mem, fields(get_reg(s, i.rd)))
    IN  IF i.msr = "DCFLS" THEN [s EXCEPT !.dc = x.c, !.mem = x.m]
        ELSE [s EXCEPT !.msr = wmsr(@, i.msr, get_reg(s, i.rd))]

(* The link is written before the target register is read (JMP).            *)
emu_jmp(s, i) ==
    LET linked == set_reg(s, i.rd, s.pc + 4)
    IN  [linked EXCEPT !.pc = get_reg(linked, i.rs1)]

raise(s, cause, lsa) ==
    LET x == raise_exception(s.msr, s.pc, cause, lsa)
    IN  [s EXCEPT !.msr = x.msr, !.pc = x.pc]

emu_step(s, i, fault) ==
    LET seq == [s EXCEPT !.pc = (s.pc + 4) % 2^W]
        goto(d, n) == (s.pc + 4 * sign_ext(d, n)) % 2^W
    IN  CASE fault = "EIRQ" -> raise(s, fault, 0)
          [] fault \in FetchFaults -> raise(s, fault, s.pc)
          [] fault \in DataFaults -> raise(s, fault, va_of(s, i))
          [] OTHER ->
        CASE i.op \in RegReg \cup RegImm \cup {"mhi"} ->
                 set_reg(seq, i.rd, emu_alu(s, i))
          [] i.op = "jmp" -> emu_jmp(s, i)
          [] i.op = "jmp_i" -> [seq EXCEPT !.pc = goto(i.imm, J)]
          [] i.op = "jmp_lnk_i" ->
                 [set_reg(seq, LNK, s.pc + 4) EXCEPT !.pc = goto(i.imm, J)]
          [] i.op \in Bcc ->
                 IF emu_cc(s, i) THEN [seq EXCEPT !.pc = goto(i.imm, K)] ELSE seq
          [] i.op \in Loads -> emu_load(seq, i)
          [] i.op \in Stores -> emu_store(seq, i)
          [] i.op = "rmsr" -> set_reg(seq, i.rd, rmsr(s.msr, i.msr))
          [] i.op = "wmsr" -> emu_wmsr(seq, i)
          [] i.op = "syscall" -> raise(s, "ESYSCALL", 0)
          [] i.op = "undef" -> raise(s, "EINSN", s.pc)
          [] i.op = "rete" -> [s EXCEPT !.msr.PSR = s.msr.EPSR, !.pc = s.msr.EPC]

-----------------------------------------------------------------------------
Init ==
    /\ rtl = [pc |-> 0, r |-> [n \in Regs |-> 0], mem |-> [a \in MemBytes |-> 0],
              msr |-> psr_reset]
    /\ \E c \in Constructed, junk \in Junk :
           emu = [pc |-> 0, r |-> [n \in Regs |-> 0], mem |-> [a \in Addr |-> 0],
                  msr |-> msr_reset(junk), dc |-> c]
    /\ mix \in DOMAIN Mixes
    /\ known = {"PSR", "EVECT"}

(* What a program may do next.  An access goes where there is memory, to an *)
(* aligned address (the emulator panics on others), and so does a jump.     *)
(* WMSR, RMSR and RETE are for root mode: the emulator ignores the first    *)
(* two elsewhere, the pipeline does not.  EVECT is written only, and a      *)
(* register that reset leaves alone is not read before it is written.       *)
Runs(i) ==
    /\ i.op \in Loads \cup Stores =>
           /\ check_vma_align(va_of(emu, i), bytes_of(i))
           /\ va_of(emu, i)..(va_of(emu, i) + bytes_of(i) - 1) \subseteq Mixes[mix].area
    /\ i.op = "jmp" => check_vma_align(emu_jmp(emu, i).pc, 4)
    /\ i.op \in {"rmsr", "wmsr", "rete"} => emu.msr.PSR.rm = 1
    /\ i.op = "rmsr" => i.msr \in known \ {"EVECT"}
    /\ i.op = "wmsr" /\ i.msr = "DCFLS" => get_reg(emu, i.rd) \in Mixes[mix].area
    /\ i.op = "rete" => {"EPSR", "EPC"} \subseteq known /\ check_vma_align(emu.msr.EPC, 4)

(* The faults that can meet i: translation faults while the MMU is on,      *)
(* interrupts while they are enabled (Mmu and Irq show that the pipeline    *)
(* and the emulator agree on them).  Pages are mapped to themselves.        *)
Faults(i) ==
    {"none"} \cup (IF emu.msr.PSR.ire = 1 THEN {"EIRQ"} ELSE {})
             \cup (IF emu.msr.PSR.imme = 1 THEN FetchFaults ELSE {})
             \cup (IF emu.msr.PSR.dmme = 1 /\ i.op \in Loads \cup Stores
                   THEN DataFaults ELSE {})

Defined(i, fault) ==
    LET cause == IF fault = "none" THEN fe(i.op) ELSE fault
    IN  CASE cause = "none" -> IF i.op = "wmsr" THEN {i.msr} ELSE {}
          [] cause = "ERET" -> {}
          [] cause \in {"ESYSCALL", "EIRQ"} -> {"EPSR", "EPC"}
          [] OTHER -> {"EPSR", "EPC", "ELSA"}

Step(i, pred, fault) ==
    /\ Runs(i)
    /\ rtl' = rtl_step(rtl, i, pred, fault)
    /\ emu' = emu_step(emu, i, fault)
    /\ known' = known \cup Defined(i, fault)
    /\ UNCHANGED mix

Next == \E i \in Mixes[mix].insns, pred \in Predictions :
            \E fault \in Faults(i) : Step(i, pred, fault)

Spec == Init /\ [][Next]_vars

-----------------------------------------------------------------------------
(* The pipeline and the emulator hold the same registers after the same    *)
(* instructions: the difference test's register comparison                 *)
(* (difftest_compare_reg, dpi-c.cc) never fails, whatever decoding,        *)
(* adder sharing, bit-reversed shifts and lane selection do, and each      *)
(* special register reads alike after any nesting of traps and RETEs.      *)
SameRegs ==
    /\ rtl.r = emu.r
    /\ rtl.msr.psr = emu.msr.PSR
    /\ rtl.msr.evect = emu.msr.EVECT \div 2^VECT_W
    /\ emu.msr.PSR.rm = 1 =>
           \A n \in known \ {"EVECT", "DCFLS"} : s1i_wb_dout(rtl.msr, n) = rmsr(emu.msr, n)

(* The pipeline goes where the emulator goes, whatever was predicted: an   *)
(* instruction that does not raise the flush was fetched along the right   *)
(* path, and one that does names the right pc, a trap and a RETE too       *)
(* (ex_bru.v, ex_pipe.v, cmt_epu.v against the PC comparison of dpi-c.cc). *)
SamePc == emu.pc = 4 * rtl.pc

(* Memory as the emulator's program sees it, through a write-back cache    *)
(* that evicts and flushes, is what the store lanes of cmt_lsu.v write:    *)
(* replicated data and byte masks put every byte in its place, and no      *)
(* dirty line is lost or written to the wrong address (cache.cc).          *)
SameMem == \A a \in MemBytes : rtl.mem[a] = View(emu.dc, emu.mem, fields(a))
=============================================================================
