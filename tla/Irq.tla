---------------------------------- MODULE Irq ----------------------------------
(***************************************************************************)
(* The timer interrupt from the counter to the emulator: the timer         *)
(* (cmt_tsc.v), the interrupt controller (cmt_irqc.v), the decoder that    *)
(* turns an instruction into an interrupt (id_dec.v), the commit stage     *)
(* that takes it (cmt_epu.v), and the co-simulation that makes the         *)
(* emulator take it at the same instruction (difftest.v, dpi-c.cc,         *)
(* irqc.cc, tsc.cc, cpu.cc).                                               *)
(*                                                                         *)
(* The request is sampled when an instruction is DECODED; instructions     *)
(* that are older and still in flight may change IMR, TCR and PSR.  In     *)
(* co-simulation the emulator has no clock of its own: it learns of a      *)
(* request from the committed interrupt.  The timer is the only source     *)
(* (simtop.v ties the other one low).                                      *)
(***************************************************************************)
EXTENDS Naturals, Sequences

CONSTANTS
    CntMod,      \* 1 << NCPU_TSC_CNT_DW; TSR is kept modulo it
    InFlight,    \* instructions between the decoder and the commit stage
    Tcrs,        \* values written to TCR
    FreeOps,     \* operations among "imr", "tcr", "rete" that software also
                 \* performs with interrupts enabled
    Refill,      \* cycles after a flush before an instruction can be decoded
    Returns      \* for a RETE: whether the low byte of its target is that of
                 \* the interrupt vector

VARIABLES
    tsr, tcr, tsc_irq,     \* cmt_tsc
    irr_0, irr, imr,       \* cmt_irqc, for the channel of the timer
    ire, epsr_ire,         \* PSR.IRE, EPSR.IRE
    epsr_set,              \* EPSR has been written since reset
    refill,                \* cycles until the fetch stages deliver again
    pipe,                  \* decoded instructions, oldest first: TRUE for an interrupt
    epu,                   \* the request pending in the EPU
    s1o_se_fls,            \* the flush of a refetch
    dft,                   \* the commit that the next dpic_step handles
    rtl_irqc_irr,          \* the last IRR the co-simulation was told of
    emu                    \* the emulator's IRR, IMR, PSR.IRE and EPSR.IRE

rtl == <<tsr, tcr, tsc_irq, irr_0, irr, imr, ire, epsr_ire, epsr_set, refill, pipe, epu, s1o_se_fls>>
irq_vars == <<rtl, dft, rtl_irqc_irr, emu>>

Requests ==
    [op: {"EIRQ", "exc", "rete"}] \cup [op: {"psr", "epsr", "imr"}, val: BOOLEAN]
    \cup [op: {"tcr"}, val: Tcrs] \cup [op: {"tsr"}, val: {0}]
Idle == [op |-> "none"]
NoCommit == [op |-> "none"]

--------------------------------------------------------------------------------
(* cmt_tsc.v: TCR is bypassed; its P bit reads tsc_irq.                     *)

msr_tsc_tcr == IF epu.op = "tcr" THEN epu.val ELSE [tcr EXCEPT !.p = tsc_irq]

irq_set == tsr = msr_tsc_tcr.cnt /\ msr_tsc_tcr.i

\* Mutant: every write of TCR withdraws the request.
irq_clr_Any == epu.op = "tcr"

irq_clr == epu.op = "tcr" /\ ~msr_tsc_tcr.p

Timer ==
    /\ tcr' = IF epu.op = "tcr" THEN epu.val ELSE tcr
    /\ tsr' = IF epu.op = "tsr" THEN epu.val
              ELSE IF msr_tsc_tcr.en THEN (tsr + 1) % CntMod ELSE tsr
    /\ tsc_irq' = IF irq_set \/ irq_clr THEN irq_set /\ ~irq_clr ELSE tsc_irq

--------------------------------------------------------------------------------
(* cmt_irqc.v and the PSR, both with the write of this cycle bypassed.      *)

msr_irqc_imr == IF epu.op = "imr" THEN epu.val ELSE imr

msr_psr_ire ==
    CASE epu.op \in {"EIRQ", "exc"} -> FALSE
      [] epu.op = "rete"            -> epsr_ire
      [] epu.op = "psr"             -> epu.val
      [] OTHER                      -> ire

\* Mutant: a request is only looked at in the cycle in which PSR is written.
irq_async_AtWrite == irr /\ ~msr_irqc_imr /\ msr_psr_ire /\ epu.op = "psr"

irq_async == irr /\ ~msr_irqc_imr /\ msr_psr_ire

msr_epsr_ire ==
    CASE epu.op \in {"EIRQ", "exc"} -> ire
      [] epu.op = "epsr"            -> epu.val
      [] OTHER                      -> epsr_ire

Irqc ==
    /\ irr_0' = tsc_irq
    /\ irr' = irr_0
    /\ imr' = msr_irqc_imr
    /\ ire' = msr_psr_ire
    /\ epsr_ire' = msr_epsr_ire
    /\ epsr_set' = (epsr_set \/ epu.op \in {"EIRQ", "exc", "epsr"})

--------------------------------------------------------------------------------
(* Decode and commit                                                        *)

exc_flush == epu.op \in {"EIRQ", "exc", "rete"}

refetch == epu.op = "psr"

flush == s1o_se_fls \/ exc_flush

\* One cycle of the stages between decode and commit; `stall' when the decoder
\* has no instruction or no room for one.
Decode(stall, fire) ==
    /\ ~stall => Len(pipe) < InFlight /\ refill = 0
    /\ refill' = IF flush THEN Refill ELSE IF refill = 0 THEN 0 ELSE refill - 1
    /\ pipe' = IF flush THEN <<>>
               ELSE (IF fire THEN Tail(pipe) ELSE pipe) \o (IF stall THEN <<>> ELSE <<irq_async>>)

\* Mutant: the commit stage is not held back during the flush of a refetch.
Ready_InFlush == pipe # <<>> /\ epu = Idle

Ready == pipe # <<>> /\ epu = Idle /\ ~s1o_se_fls

\* Software performs the operation with interrupts disabled, unless it is free
\* to do otherwise, and returns only through an EPSR that was written (the
\* emulator does not reset its EPSR).
Allowed(r) ==
    /\ r.op \in {"imr", "tcr", "rete"} \ FreeOps => ~ire
    /\ r.op = "rete" => epsr_set

\* No instruction commits.
Wait(wait) ==
    /\ epu = Idle
    /\ wait \/ ~Ready
    /\ s1o_se_fls' = FALSE
    /\ dft' = NoCommit
    /\ UNCHANGED epu

\* An instruction without a request to the EPU commits; a mispredicted branch
\* leaves a flush for the next cycle.
Commit ==
    /\ Ready /\ ~pipe[1]
    /\ s1o_se_fls' \in BOOLEAN
    /\ dft' = [op |-> "insn", sync |-> FALSE]
    /\ UNCHANGED epu

EpuRequest ==
    /\ Ready
    /\ epu' \in {r \in Requests : pipe[1] = (r.op = "EIRQ") /\ Allowed(r)}
    /\ dft' = NoCommit
    /\ UNCHANGED s1o_se_fls

\* The value a WMSR writes.
Operand == IF epu.op \in {"EIRQ", "exc", "rete"} THEN FALSE ELSE epu.val

\* The request is performed.  The co-simulation is told the low byte of the
\* address of an exception, by which it recognises an interrupt; a RETE may
\* return to an address with that low byte.
EpuFinish ==
    /\ epu # Idle
    /\ epu' = Idle
    /\ s1o_se_fls' = refetch
    /\ \E sync \in (IF epu.op = "rete" THEN Returns ELSE {epu.op = "EIRQ"}) :
           dft' = [op |-> epu.op, sync |-> sync, val |-> Operand]

--------------------------------------------------------------------------------
(* The emulator, in co-simulation.                                          *)

\* irqc_handle_irqs, at the beginning of CPU::step.
irqc_handle_irqs(e) == e.ire /\ e.irr /\ ~e.imr

raise_exception(e) == [e EXCEPT !.epsr_ire = e.ire, !.ire = FALSE]

\* Mutant: a write of TCR does not update the request.
tsc_update_tcr_None(e, t) == e

tsc_update_tcr(e, t) == [e EXCEPT !.irr = t.p /\ t.i]

step(e) ==
    CASE irqc_handle_irqs(e)       -> raise_exception(e)
      [] dft.op = "exc"            -> raise_exception(e)
      [] dft.op = "rete"           -> [e EXCEPT !.ire = e.epsr_ire]
      [] dft.op = "psr"            -> [e EXCEPT !.ire = dft.val]
      [] dft.op = "epsr"           -> [e EXCEPT !.epsr_ire = dft.val]
      [] dft.op = "imr"            -> [e EXCEPT !.imr = dft.val]
      [] dft.op = "tcr"            -> tsc_update_tcr(e, dft.val)
      [] OTHER                     -> e

\* The state in which CPU::step runs: the IRR is set first if the commit looks
\* like an interrupt.
Synced(seen) == IF dft.sync THEN [emu EXCEPT !.irr = seen] ELSE emu

\* dpic_step and dpic_sync_irqc run at the same clock edge, in an order the
\* simulator chooses: the IRR seen is that of this cycle or of the last one.
dpic_step ==
    /\ rtl_irqc_irr' = irr
    /\ IF dft = NoCommit THEN UNCHANGED emu
       ELSE \E seen \in {irr, rtl_irqc_irr} : emu' = step(Synced(seen))

--------------------------------------------------------------------------------
IrqInit ==
    /\ tsr = 0
    /\ tcr = [cnt |-> 0, en |-> FALSE, i |-> FALSE, p |-> FALSE]
    /\ tsc_irq = FALSE /\ irr_0 = FALSE /\ irr = FALSE
    /\ imr = TRUE /\ ire = FALSE /\ epsr_ire = FALSE /\ epsr_set = FALSE
    /\ refill = Refill /\ pipe = <<>> /\ epu = Idle /\ s1o_se_fls = FALSE
    /\ dft = NoCommit /\ rtl_irqc_irr = FALSE
    /\ emu \in [irr: {FALSE}, imr: {TRUE}, ire: {FALSE}, epsr_ire: BOOLEAN]

\* One clock cycle; the commit stage may wait for another pipe.
IrqClock(stall, wait) ==
    /\ Timer /\ Irqc /\ dpic_step
    /\ \/ Wait(wait) /\ Decode(stall, FALSE)
       \/ Commit /\ Decode(stall, TRUE)
       \/ EpuRequest /\ Decode(stall, FALSE)
       \/ EpuFinish /\ Decode(stall, TRUE)

IrqNext == \E stall, wait \in BOOLEAN : IrqClock(stall, wait)

\* The fetch stages deliver instructions and the commit stage is not held up.
Progress == \E stall \in BOOLEAN :
                (stall => Len(pipe) = InFlight \/ refill > 0) /\ IrqClock(stall, FALSE)

IrqSpec == IrqInit /\ [][IrqNext]_irq_vars /\ WF_irq_vars(Progress)

--------------------------------------------------------------------------------

\* The emulator takes an interrupt at exactly the commits at which the pipeline
\* does, whichever IRR the co-simulation happens to see: the comparison of
\* exceptions in dpi-c.cc:247 reports no difference.
InterruptsAgree ==
    dft # NoCommit =>
        \A seen \in {irr, rtl_irqc_irr} : irqc_handle_irqs(Synced(seen)) = (dft.op = "EIRQ")

\* A request that is synchronised, unmasked and enabled is taken, unless software
\* withdraws it, masks it or disables interrupts first.
Served == (irr /\ ~imr /\ ire) ~> (epu.op = "EIRQ" \/ ~irr \/ imr \/ ~ire)

\* Software writes a TCR with P clear: it has seen the request.
Acknowledged == epu.op = "tcr" /\ ~epu.val.p

\* No match of the timer is forgotten (cmt_tsc.v:85-91): if software does not
\* acknowledge it in that very cycle, which would drop it, an interrupt is taken or
\* software acknowledges it, unless software masks the timer or disables
\* interrupts over and over.  Neither another write of TCR nor the counter that
\* runs on withdraws the request.
MatchTaken ==
    [](irq_set /\ ~Acknowledged =>
          \/ <>(epu.op = "EIRQ" \/ Acknowledged)
          \/ []<>(imr \/ ~ire))

================================================================================
