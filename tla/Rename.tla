------------------------------- MODULE Rename -------------------------------
(***************************************************************************)
(* Register renaming: rn.v, rn_fl.v (free list and architectural free      *)
(* list), rn_rat.v (alias table and architectural alias table) and         *)
(* rn_busytable.v.  One step is one clock edge.  What the rest of the core *)
(* does to this stage is an input of the step: the decoded window, whether *)
(* issue can take it, how many instructions commit, which physical         *)
(* registers are written back, and flush.  The instructions between rename *)
(* and commit are kept in program order in renamed, as rob.v promises.     *)
(***************************************************************************)
EXTENDS Naturals, Sequences

CONSTANTS N_PRF,        \* number of physical registers, 1<<`NCPU_PRF_AW
          N_LRF,        \* number of logical registers, 1<<`NCPU_LRF_AW
          SrcPorts,     \* source operands of an instruction (rs1, rs2)
          MaxInflight   \* bound: instructions between rename and commit

ASSUME RenameConstants ==
    /\ N_PRF \in Nat \ {0}
    /\ N_LRF \in Nat \ {0}
    /\ MaxInflight \in Nat

PR == 0 .. N_PRF - 1
LR == 0 .. N_LRF - 1
AllPR == PR \ {0}        \* physical register 0 is hard-wired and never listed
Slots == 0 .. 1          \* the issue window, IW = 2; commit is 2 wide as well

VARIABLES
    fl_ff,       \* free list, a bit vector held as a set
    afl_ff,      \* architectural free list
    rat_ff,      \* alias table of the newest renamed instruction
    arat_ff,     \* alias table of the last committed instruction
    busytable,   \* physical registers whose value is not written yet
    renamed,         \* renamed instructions not committed, oldest first
    pending      \* destinations in flight that were not written back

rn_vars == <<fl_ff, afl_ff, rat_ff, arat_ff, busytable, renamed, pending>>

\* A decoded instruction of the window.  id_dec.v drops writes to register 0.
Slot == [valid : BOOLEAN, lrd_we : BOOLEAN, lrd : LR, lrs : [SrcPorts -> LR]]

\* What id.v may present: a prefix of valid slots.  An invalid slot keeps a stale
\* lrd_we and lrd, which the stage looks at; fields nothing looks at are 0.
Window == {w \in [Slots -> Slot] :
              /\ w[1].valid => w[0].valid
              /\ \A i \in Slots : /\ w[i].lrd_we <=> w[i].lrd # 0
                                  /\ w[i].valid \/ w[i].lrs = [s \in SrcPorts |-> 0]}

\* An instruction in flight.
Entry == [we : BOOLEAN, lrd : LR, prd : PR, pfree : PR, prs : [SrcPorts -> PR]]

Writes(e, l) == e.we /\ e.lrd = l
-----------------------------------------------------------------------------
(* The free list, rn_fl.v.                                                 *)

\* The priority encoder gives 0 for an empty vector.
LowestOf(S) == IF S = {} THEN 0 ELSE CHOOSE x \in S : \A y \in S : x <= y
HighestOf(S) == IF S = {} THEN 0 ELSE CHOOSE x \in S : \A y \in S : y <= x

fl_prd == [i \in Slots |-> IF i = 0 THEN LowestOf(fl_ff) ELSE HighestOf(fl_ff)]

gs(i) == fl_ff # {} /\ (i = 1 => fl_prd[1] # fl_prd[0])

fl_stall_req(win) == \E i \in Slots : win[i].lrd_we /\ ~gs(i)

\* Mutant: a stalled window takes its registers as well.
Allocated_Stalled(win, pop) == {fl_prd[i] : i \in {j \in Slots : win[j].lrd_we}}

Allocated(win, pop) == {fl_prd[i] : i \in {j \in Slots : pop[j] /\ win[j].lrd_we}}

\* The commit ports: the first n instructions of renamed, when they write.
cmt_prd_we(n) == {i \in 1 .. n : renamed[i].we}
cmt_pfree(n) == {renamed[i].pfree : i \in cmt_prd_we(n)}

\* Mutant: the hard-wired register is not masked out.
fl_nxt_Zero(win, pop, n) == (fl_ff \ Allocated(win, pop)) \cup cmt_pfree(n)

fl_nxt(win, pop, n) == ((fl_ff \ Allocated(win, pop)) \cup cmt_pfree(n)) \ {0}

\* One commit port at a time: allocate cmt_prd, then free cmt_pfree.
AflStep(afl, e) == IF e.we THEN ((afl \ {e.prd}) \cup {e.pfree}) \ {0} ELSE afl

afl_nxt(n) == IF n = 0 THEN afl_ff
              ELSE IF n = 1 THEN AflStep(afl_ff, renamed[1])
              ELSE AflStep(AflStep(afl_ff, renamed[1]), renamed[2])
-----------------------------------------------------------------------------
(* The alias tables, rn_rat.v.                                             *)

\* Mutant: no RAW bypass inside the window.
rat_prs_NoRaw(win, i, l) == rat_ff[l]

\* Source of slot i for logical register l, with the RAW bypass.
rat_prs(win, i, l) == IF i = 1 /\ win[0].lrd_we /\ win[0].lrd = l
                      THEN fl_prd[0] ELSE rat_ff[l]

\* The mapping slot i overwrites, with the WAW bypass.
rat_pfree(win, i) == IF i = 1 /\ win[0].lrd_we /\ win[1].lrd_we /\ win[0].lrd = win[1].lrd
                     THEN fl_prd[0] ELSE rat_ff[win[i].lrd]

\* Mutant: the earlier write port wins.
rat_nxt_FirstWins(win, pop) ==
    [l \in LR |-> IF pop[0] /\ win[0].lrd_we /\ win[0].lrd = l THEN fl_prd[0]
                  ELSE IF pop[1] /\ win[1].lrd_we /\ win[1].lrd = l THEN fl_prd[1]
                  ELSE rat_ff[l]]

\* Write ports in order: the later one wins.
rat_nxt(win, pop) ==
    [l \in LR |-> IF pop[1] /\ win[1].lrd_we /\ win[1].lrd = l THEN fl_prd[1]
                  ELSE IF pop[0] /\ win[0].lrd_we /\ win[0].lrd = l THEN fl_prd[0]
                  ELSE rat_ff[l]]

AratStep(arat, e) == IF e.we THEN [arat EXCEPT ![e.lrd] = e.prd] ELSE arat

arat_nxt(n) == IF n = 0 THEN arat_ff
               ELSE IF n = 1 THEN AratStep(arat_ff, renamed[1])
               ELSE AratStep(AratStep(arat_ff, renamed[1]), renamed[2])
-----------------------------------------------------------------------------
(* The busy table: cleared by writebacks, then set by rename.  The set     *)
(* port is the decoded lrd_we, gated neither by rn_valid nor by the stall. *)

\* Mutant: only the first slot sets its bit.
busytable_nxt_OneSlot(win, W) ==
    (busytable \ W) \cup (IF win[0].lrd_we THEN {fl_prd[0]} ELSE {})

busytable_nxt(win, W) == (busytable \ W) \cup {fl_prd[i] : i \in {j \in Slots : win[j].lrd_we}}
-----------------------------------------------------------------------------
(* The stage, rn.v.                                                        *)

rn_stall_req(win, issue_ready) == fl_stall_req(win) \/ ~issue_ready

fl_pop(win, issue_ready) ==
    [i \in Slots |-> win[i].valid /\ ~rn_stall_req(win, issue_ready)]

\* What slot i becomes downstream.  Nothing looks at the prd of an instruction
\* that does not write; it is 0 here.
Renamed(win, i) ==
    [we |-> win[i].lrd_we, lrd |-> win[i].lrd,
     prd |-> IF win[i].lrd_we THEN fl_prd[i] ELSE 0,
     pfree |-> rat_pfree(win, i),
     prs |-> [s \in SrcPorts |-> rat_prs(win, i, win[i].lrs[s])]]

RenamedSeq(win, pop) ==
    IF pop[1] THEN <<Renamed(win, 0), Renamed(win, 1)>>
    ELSE IF pop[0] THEN <<Renamed(win, 0)>>
    ELSE <<>>

\* The state after reset.
RnInit ==
    /\ fl_ff = AllPR
    /\ afl_ff = AllPR
    /\ rat_ff = [l \in LR |-> 0]
    /\ arat_ff = [l \in LR |-> 0]
    /\ busytable = {}
    /\ renamed = <<>>
    /\ pending = {}

\* A clock edge without flush: rename, writeback of W, commit of the n oldest.
\* An instruction commits only when its result is written, at the latest in
\* the same cycle.
RnClock(win, issue_ready, n, W) ==
    LET pop == fl_pop(win, issue_ready)
        new == RenamedSeq(win, pop)
    IN  /\ issue_ready => Len(renamed) + 2 <= MaxInflight
        /\ n <= Len(renamed)
        /\ \A i \in cmt_prd_we(n) : renamed[i].prd \notin pending \ W
        /\ fl_ff' = fl_nxt(win, pop, n)
        /\ afl_ff' = afl_nxt(n)
        /\ rat_ff' = rat_nxt(win, pop)
        /\ arat_ff' = arat_nxt(n)
        /\ busytable' = busytable_nxt(win, W)
        /\ renamed' = SubSeq(renamed, n + 1, Len(renamed)) \o new
        /\ pending' = (pending \ W) \cup Allocated(win, pop)

\* A clock edge with flush: cmt.v suppresses every cmt_fire, the tables are
\* reloaded from the architectural ones, everything in flight is dropped.
Flush ==
    /\ fl_ff' = afl_ff
    /\ rat_ff' = arat_ff
    /\ busytable' = {}
    /\ renamed' = <<>>
    /\ pending' = {}
    /\ UNCHANGED <<afl_ff, arat_ff>>

RnNext ==
    \/ \E win \in Window, issue_ready \in BOOLEAN, n \in 0 .. 2, W \in SUBSET pending :
          RnClock(win, issue_ready, n, W)
    \/ Flush

RnSpec == RnInit /\ [][RnNext]_rn_vars
-----------------------------------------------------------------------------
(* Properties.                                                             *)

\* Every register of the stage holds a value of its width (rn_fl.v, rn_rat.v).
TypeOK ==
    /\ fl_ff \in SUBSET AllPR
    /\ afl_ff \in SUBSET AllPR
    /\ rat_ff \in [LR -> PR]
    /\ arat_ff \in [LR -> PR]
    /\ busytable \in SUBSET PR
    /\ renamed \in Seq(Entry)
    /\ pending \in SUBSET PR

Holds(e, p) == e.we /\ e.prd = p

InArat(arat, p) == \E l \in LR : arat[l] = p

Partitioned(fl, arat, q) ==
    \A p \in AllPR :
        /\ p \in fl <=> /\ ~InArat(arat, p)
                        /\ \A i \in 1 .. Len(q) : ~Holds(q[i], p)
        /\ \A i \in 1 .. Len(q) : Holds(q[i], p) =>
              /\ ~InArat(arat, p)
              /\ \A j \in 1 .. Len(q) : Holds(q[j], p) => i = j
        /\ \A l, m \in LR : arat[l] = p /\ arat[m] = p => l = m

\* Every physical register but 0 is in exactly one place: free, the
\* destination of exactly one instruction in flight, or the committed home of
\* exactly one logical register.  So rn_fl.v never hands out a register that
\* is in use, and none is lost across commits and rollbacks.
PhysicalRegistersPartitioned == Partitioned(fl_ff, arat_ff, renamed)

ComplementOf(afl, arat) == \A p \in AllPR : p \in afl <=> ~InArat(arat, p)

\* The architectural free list, which rollback copies into the free list, is
\* the complement of the architectural alias table.
ArchFreeListExact == ComplementOf(afl_ff, arat_ff)

\* The register that logical register l maps to just before instruction i: the
\* destination of the youngest older writer in flight, else the committed one.
MappedBefore(arat, q, i, l, p) ==
    \/ /\ \A j \in 1 .. i - 1 : ~Writes(q[j], l)
       /\ p = arat[l]
    \/ \E j \in 1 .. i - 1 :
          /\ Writes(q[j], l)
          /\ \A k \in j + 1 .. i - 1 : ~Writes(q[k], l)
          /\ p = q[j].prd

Replays(rat, arat, q) == \A l \in LR : MappedBefore(arat, q, Len(q) + 1, l, rat[l])

\* The alias table is the architectural one with the instructions in flight
\* applied in program order (what a commit or a rollback must keep true).
RatIsReplay == Replays(rat_ff, arat_ff, renamed)

FreesPrevious(arat, q) ==
    \A i \in 1 .. Len(q) : q[i].we => MappedBefore(arat, q, i, q[i].lrd, q[i].pfree)

\* Each instruction frees exactly the mapping it replaced (pfree, with the WAW
\* bypass of rn_rat.v).
FreesPreviousMapping == FreesPrevious(arat_ff, renamed)

\* No register an instruction in flight reads is on the free list, and none is
\* the destination of that instruction or of a younger one: it can be neither
\* reallocated nor overwritten under the reader.
SourcesStayLive ==
    \A i \in 1 .. Len(renamed) : \A s \in SrcPorts :
        LET p == renamed[i].prs[s]
        IN  p # 0 => /\ p \notin fl_ff
                     /\ \A j \in i .. Len(renamed) : ~Holds(renamed[j], p)

\* A register whose value is still to be written is busy, so that issue_rs.v
\* never picks an instruction before its operand exists.
UnwrittenIsBusy == pending \subseteq busytable

\* A register that has its value is not busy: the ungated set port of the busy
\* table only ever hits free registers, so no reader waits for a writeback
\* that has already happened.
WrittenIsNotBusy ==
    \A p \in AllPR : p \in busytable => p \in fl_ff \cup pending
=============================================================================
