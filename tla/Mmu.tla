---------------------------------- MODULE Mmu ----------------------------------
(***************************************************************************)
(* Address translation: the two software-filled TLBs (immu.v, dmmu.v), the *)
(* registers that stand between a TLB and the fetch or the access that     *)
(* uses it, the writes of TLB entries and of the PSR at commit             *)
(* (cmt_epu.v, cmt_psr.v) and the refetch that follows them (cmt.v),       *)
(* against the emulator's translation (em/csrc/mmu.cc).                    *)
(*                                                                         *)
(* Instructions are translated when they are FETCHED, many cycles before   *)
(* an older WMSR that changes the translation commits.  An instruction is  *)
(* its virtual page; what it does is chosen when it reaches the head of    *)
(* the ROB.  The emulator executes an instruction when it commits, so its  *)
(* TLB and PSR are those of this model at that moment.                     *)
(***************************************************************************)
EXTENDS Naturals, Sequences

CONSTANTS
    ISets, DSets,  \* 1 << CONFIG_ITLB_P_SETS, 1 << CONFIG_DTLB_P_SETS
    Pages,         \* pages of the address space: 1 << (AW - P_PAGE_SIZE)
    UncachedSeg,   \* CONFIG_?MMU_ENABLE_UNCACHED_SEG
    FetchVpns,     \* pages instructions are fetched from
    DataVpns,      \* pages loads and stores refer to
    ItlbLs, DtlbLs,\* values WMSR writes to the lower half of an entry
    ItlbHs, DtlbHs,\* values WMSR writes to the upper half of an entry
    Psrs,          \* values WMSR writes to the PSR
    Depth          \* instructions between the IMMU and the commit stage

VARIABLES
    itlb_l, itlb_h,  \* U_TLB_L, U_TLB_H of the IMMU
    dtlb_l, dtlb_h,  \* those of the DMMU
    psr, epsr,
    s1o,             \* registers of the IMMU, and whether they hold a fetch
    iq,              \* fetched instructions up to the ROB, oldest first
    epu,             \* the request pending in the EPU
    lsu,             \* the registers of the DMMU, and whether an access is pending
    s1o_se_fls       \* the flush of a refetch

mmu_vars == <<itlb_l, itlb_h, dtlb_l, dtlb_h, psr, epsr, s1o, iq, epu, lsu, s1o_se_fls>>

IIdx == 0 .. ISets - 1
DIdx == 0 .. DSets - 1
Psr == [rm: BOOLEAN, imme: BOOLEAN, dmme: BOOLEAN, ice: BOOLEAN, dce: BOOLEAN]

\* The two halves of an entry: valid bit and page; frame, UNC bit and permissions.
Page == 0 .. Pages - 1
TlbL == [v: BOOLEAN, vpn: Page]
ItlbH == [ppn: Page, unc: BOOLEAN, ux: BOOLEAN, rx: BOOLEAN]
DtlbH == [ppn: Page, unc: BOOLEAN, uw: BOOLEAN, ur: BOOLEAN, rw: BOOLEAN, rr: BOOLEAN]

ASSUME MmuParameters ==
    /\ ISets \in Nat \ {0} /\ DSets \in Nat \ {0} /\ Pages \in Nat \ {0} /\ Depth \in Nat
    /\ UncachedSeg \in BOOLEAN
    /\ FetchVpns \subseteq Page /\ DataVpns \subseteq Page
    /\ ItlbLs \subseteq TlbL /\ DtlbLs \subseteq TlbL
    /\ ItlbHs \subseteq ItlbH /\ DtlbHs \subseteq DtlbH
    /\ Psrs \subseteq Psr

tgt_index(vpn, sets) == vpn % sets
Upper(ppn) == ppn >= Pages \div 2    \* the most significant bit of the address

--------------------------------------------------------------------------------
(* immu.v and dmmu.v: r holds the registers loaded by `re'.                 *)

tlb_miss(r) == ~(r.l.v /\ r.l.vpn = r.vpn)

uncached_by(mme, miss, denied, unc, ppn) ==
    \/ mme /\ ~miss /\ ~denied /\ unc
    \/ UncachedSeg /\ ~(mme /\ (miss \/ denied)) /\ ~Upper(ppn)

i_perm_denied(r) == (r.rm /\ ~r.h.rx) \/ (~r.rm /\ ~r.h.ux)

immu(r) ==
    LET ppn == IF r.imme THEN r.h.ppn ELSE r.vpn
    IN  [ETM |-> tlb_miss(r) /\ r.imme,
         EPF |-> i_perm_denied(r) /\ ~tlb_miss(r) /\ r.imme,
         ppn |-> ppn,
         uncached |-> \/ uncached_by(r.imme, tlb_miss(r), i_perm_denied(r), r.h.unc, ppn)
                      \/ ~r.ice]

\* Mutant: a load needs the permission to write.
d_perm_denied_Swap(r) ==
    \/ r.rm  /\ ~r.h.rw
    \/ ~r.rm /\ ((r.we /\ ~r.h.uw) \/ (~r.we /\ ~r.h.ur))

d_perm_denied(r) ==
    \/ r.rm  /\ ((r.we /\ ~r.h.rw) \/ (~r.we /\ ~r.h.rr))
    \/ ~r.rm /\ ((r.we /\ ~r.h.uw) \/ (~r.we /\ ~r.h.ur))

dmmu(r) ==
    LET ppn == IF r.dmme THEN r.h.ppn ELSE r.vpn
    IN  [ETM |-> tlb_miss(r) /\ r.dmme,
         EPF |-> d_perm_denied(r) /\ ~tlb_miss(r) /\ r.dmme,
         ppn |-> ppn,
         uncached |-> \/ uncached_by(r.dmme, tlb_miss(r), d_perm_denied(r), r.h.unc, ppn)
                      \/ ~r.dce]

--------------------------------------------------------------------------------
(* em/csrc/mmu.cc                                                           *)

translate(mme, vpn, l, h, denied, cache_enable) ==
    LET hit == l.v /\ l.vpn = vpn
        ok == ~mme \/ (hit /\ ~denied)
        ppn == IF mme THEN h.ppn ELSE vpn
    IN  [ret |-> IF ok THEN "ok" ELSE IF hit THEN "EM_PAGE_FAULT" ELSE "EM_TLB_MISS",
         ppn |-> ppn,
         uncached |-> \/ ok /\ ((mme /\ h.unc) \/ (UncachedSeg /\ ~Upper(ppn)))
                      \/ ~cache_enable]

immu_translate_vma(vpn) ==
    LET h == itlb_h[tgt_index(vpn, ISets)]
    IN  translate(psr.imme, vpn, itlb_l[tgt_index(vpn, ISets)], h,
                  IF psr.rm THEN ~h.rx ELSE ~h.ux, psr.ice)

dmmu_translate_vma(vpn, store_insn) ==
    LET h == dtlb_h[tgt_index(vpn, DSets)]
    IN  translate(psr.dmme, vpn, dtlb_l[tgt_index(vpn, DSets)], h,
                  IF psr.rm THEN IF store_insn THEN ~h.rw ELSE ~h.rr
                            ELSE IF store_insn THEN ~h.uw ELSE ~h.ur, psr.dce)

\* The hardware's answer r is the emulator's answer e.
Same(r, e) ==
    /\ r.ETM = (e.ret = "EM_TLB_MISS")
    /\ r.EPF = (e.ret = "EM_PAGE_FAULT")
    /\ e.ret = "ok" => r.ppn = e.ppn /\ r.uncached = e.uncached

--------------------------------------------------------------------------------
(* The commit stage                                                         *)

Idle == [op |-> "none"]

Requests ==
    [op: {"itlbl"}, idx: IIdx, val: ItlbLs] \cup [op: {"itlbh"}, idx: IIdx, val: ItlbHs]
    \cup [op: {"dtlbl"}, idx: DIdx, val: DtlbLs] \cup [op: {"dtlbh"}, idx: DIdx, val: DtlbHs]
    \cup [op: {"psr"}, val: Psrs]
    \cup [op: {"epsr"}, val: {[rm |-> p.rm, imme |-> p.imme, dmme |-> p.dmme] : p \in Psrs}]
    \cup [op: {"exc", "rete"}]

exc_flush == epu.op \in {"exc", "rete"}

\* Mutant: a write of the upper half of an entry is not followed by a refetch.
refetch_NoUpper == epu.op \in {"psr", "itlbl", "dtlbl", "dtlbh"}

refetch == epu.op \in {"psr", "itlbl", "itlbh", "dtlbl", "dtlbh"}

flush == s1o_se_fls \/ exc_flush

\* The PSR with the writes of this cycle: what the bypass shows to the MMUs
\* now, and what the register holds from the next cycle on.
psr_nxt ==
    CASE epu.op = "exc"  -> [psr EXCEPT !.rm = TRUE, !.imme = FALSE, !.dmme = FALSE]
      [] epu.op = "rete" -> [psr EXCEPT !.rm = epsr.rm, !.imme = epsr.imme, !.dmme = epsr.dmme]
      [] epu.op = "psr"  -> epu.val
      [] OTHER           -> psr

\* mRF_nwnr_r: the write port of a TLB half.
Written(tlb, op) == IF epu.op = op THEN [tlb EXCEPT ![epu.idx] = epu.val] ELSE tlb

--------------------------------------------------------------------------------
NoStage1 == [valid |-> FALSE]
NoAccess == [valid |-> FALSE]

\* The registers of the IMMU after a fetch from vpn: the PSR is bypassed, the
\* TLB is read before the write of the same cycle.
immu_ff(vpn) ==
    [valid |-> TRUE, vpn |-> vpn, rm |-> psr_nxt.rm, imme |-> psr_nxt.imme, ice |-> psr_nxt.ice,
     l |-> itlb_l[tgt_index(vpn, ISets)], h |-> itlb_h[tgt_index(vpn, ISets)]]

dmmu_ff(vpn, we) ==
    [valid |-> TRUE, vpn |-> vpn, we |-> we,
     rm |-> psr_nxt.rm, dmme |-> psr_nxt.dmme, dce |-> psr_nxt.dce,
     l |-> dtlb_l[tgt_index(vpn, DSets)], h |-> dtlb_h[tgt_index(vpn, DSets)]]

\* What the prefetch buffer, the ROB and the commit stage hold of a fetch; the
\* page of one that faulted is not used.
Fetched(r) ==
    LET t == immu(r) IN
    IF t.ETM \/ t.EPF THEN [vpn |-> r.vpn, ETM |-> t.ETM, EPF |-> t.EPF, ppn |-> 0, uncached |-> FALSE]
    ELSE [vpn |-> r.vpn, ETM |-> FALSE, EPF |-> FALSE, ppn |-> t.ppn, uncached |-> t.uncached]

\* The fetch stages for one cycle, `fire' telling whether the oldest instruction commits.
FetchStage(p_ce, vpn, fire) ==
    /\ p_ce => Len(iq) < Depth
    /\ s1o' = IF flush THEN NoStage1 ELSE IF p_ce THEN immu_ff(vpn) ELSE s1o
    /\ iq' = IF flush THEN <<>>
             ELSE (IF fire THEN Tail(iq) ELSE iq)
                  \o (IF p_ce /\ s1o.valid THEN <<Fetched(s1o)>> ELSE <<>>)

MmuInit ==
    /\ itlb_l = [i \in IIdx |-> [v |-> FALSE, vpn |-> 0]]
    /\ itlb_h = [i \in IIdx |-> [ppn |-> 0, unc |-> FALSE, ux |-> FALSE, rx |-> FALSE]]
    /\ dtlb_l = [i \in DIdx |-> [v |-> FALSE, vpn |-> 0]]
    /\ dtlb_h = [i \in DIdx |-> [ppn |-> 0, unc |-> FALSE, uw |-> FALSE, ur |-> FALSE,
                                rw |-> FALSE, rr |-> FALSE]]
    /\ psr = [rm |-> TRUE, imme |-> FALSE, dmme |-> FALSE, ice |-> FALSE, dce |-> FALSE]
    /\ epsr = [rm |-> FALSE, imme |-> FALSE, dmme |-> FALSE]
    /\ s1o = NoStage1
    /\ iq = <<>>
    /\ epu = Idle
    /\ lsu = NoAccess
    /\ s1o_se_fls = FALSE

\* Mutant: the commit stage is not held back during the flush of a refetch.
Ready_InFlush == iq # <<>> /\ epu = Idle /\ ~lsu.valid

\* Nothing is pending and the oldest instruction has reached the commit stage.
Ready == iq # <<>> /\ epu = Idle /\ ~lsu.valid /\ ~s1o_se_fls
Faulted == iq[1].ETM \/ iq[1].EPF

NoWrites == UNCHANGED <<itlb_l, itlb_h, dtlb_l, dtlb_h, psr, epsr>>

\* No instruction commits: none is ready, the LSU is busy, or this is the flush of a refetch.
Wait ==
    /\ epu = Idle
    /\ s1o_se_fls' = FALSE
    /\ NoWrites /\ UNCHANGED <<epu, lsu>>

\* An instruction without a request to the LSU or the EPU commits; a mispredicted
\* branch leaves a flush for the next cycle.
Commit ==
    /\ Ready /\ ~Faulted
    /\ s1o_se_fls' \in BOOLEAN
    /\ NoWrites /\ UNCHANGED <<epu, lsu>>

\* A request to the EPU: a WMSR, an exception (a faulted fetch is nothing else) or a RETE.
EpuRequest ==
    /\ Ready
    /\ epu' \in {r \in Requests : Faulted => r.op = "exc"}
    /\ NoWrites /\ UNCHANGED <<lsu, s1o_se_fls>>

\* The request is performed and the instruction commits or is flushed.
EpuFinish ==
    /\ epu # Idle
    /\ itlb_l' = Written(itlb_l, "itlbl")
    /\ itlb_h' = Written(itlb_h, "itlbh")
    /\ dtlb_l' = Written(dtlb_l, "dtlbl")
    /\ dtlb_h' = Written(dtlb_h, "dtlbh")
    /\ psr' = psr_nxt
    /\ epsr' = CASE epu.op = "exc"  -> [rm |-> psr.rm, imme |-> psr.imme, dmme |-> psr.dmme]
                 [] epu.op = "epsr" -> epu.val
                 [] OTHER           -> epsr
    /\ epu' = Idle
    /\ s1o_se_fls' = refetch
    /\ UNCHANGED lsu

LsuRequest ==
    /\ Ready /\ ~Faulted
    /\ \E vpn \in DataVpns, we \in BOOLEAN : lsu' = dmmu_ff(vpn, we)
    /\ NoWrites /\ UNCHANGED <<epu, s1o_se_fls>>

\* The access commits, or raises its exception in the next stage.
LsuFinish ==
    /\ lsu.valid
    /\ lsu' = NoAccess
    /\ epu' = IF dmmu(lsu).ETM \/ dmmu(lsu).EPF THEN [op |-> "exc"] ELSE Idle
    /\ NoWrites /\ UNCHANGED s1o_se_fls

\* One clock cycle; p_ce is low while the I$ stalls the fetch.
MmuClock ==
    \E p_ce \in BOOLEAN, vpn \in FetchVpns :
        \/ Wait /\ FetchStage(p_ce, vpn, FALSE)
        \/ Commit /\ FetchStage(p_ce, vpn, TRUE)
        \/ EpuRequest /\ FetchStage(p_ce, vpn, FALSE)
        \/ EpuFinish /\ FetchStage(p_ce, vpn, TRUE)
        \/ LsuRequest /\ FetchStage(p_ce, vpn, FALSE)
        \/ LsuFinish /\ FetchStage(p_ce, vpn, epu' = Idle)

MmuNext == MmuClock

MmuSpec == MmuInit /\ [][MmuNext]_mmu_vars

--------------------------------------------------------------------------------

\* The oldest instruction, which was translated when it was fetched, has the
\* physical page, the cacheability and the exceptions that the TLB and the PSR
\* give it now, when the emulator executes it: what older instructions wrote in
\* between (cmt_epu.v:386) has caused it to be fetched again.
FetchTranslated ==
    iq # <<>> /\ ~s1o_se_fls => Same(iq[1], immu_translate_vma(iq[1].vpn))

\* The pending load or store sees, through the registers of the DMMU, what the
\* emulator's dmmu_translate_vma returns for it.
AccessTranslated ==
    lsu.valid => Same(dmmu(lsu), dmmu_translate_vma(lsu.vpn, lsu.we))

================================================================================
