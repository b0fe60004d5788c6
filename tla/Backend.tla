------------------------------ MODULE Backend ------------------------------
(***************************************************************************)
(* From rename to commit: the issue register of rn.v, the reservation      *)
(* stations issue_rs.v, the operand stage ro.v, the pipes ex_pipe.v, the   *)
(* writeback arbiter wb_mux.v and the busy table, around a reorder buffer  *)
(* that keeps its order (Rob) and a rename stage whose registers are       *)
(* distinct (Rename).  A step is a clock edge; lane i of a pair goes to    *)
(* reservation station i and pipe i.  Late instructions, those of the LSU  *)
(* and the EPU, get their result only at commit, when pipe_finish says so: *)
(* never at two edges in a row (Commit!FinishesPending).                   *)
(*                                                                         *)
(* Of a physical register the model knows whether it holds the value of    *)
(* the instruction it is allocated to ("good").                            *)
(***************************************************************************)
EXTENDS Integers, Sequences, FiniteSets, FiniteSetsExt

CONSTANTS
    Depth,          \* entries of a reservation station
    N,              \* places of the reorder buffer
    LRegs,          \* logical registers
    Kinds           \* what may be issued: [srcs, lrd, late]

Lanes == 0 .. 1
Addr == 0 .. Depth - 1
None == -1

\* Enough registers for a free list that never runs dry.
PRegs == 0 .. Cardinality(LRegs) + N + 2

ASSUME Parameters ==
    /\ Depth \in Nat \ {0} /\ N \in Nat \ {0} /\ N % 2 = 0
    /\ IsFiniteSet(LRegs) /\ None \notin LRegs
    /\ Kinds \subseteq [srcs : SUBSET LRegs, lrd : LRegs \cup {None}, late : BOOLEAN]

Nothing == [slot |-> None, srcs |-> {}, lrd |-> None, prd |-> None, late |-> FALSE, rdy |-> FALSE]

NotRdy == [addr |-> None, ins |-> Nothing]

VARIABLES
    issue,          \* issue_push and its instructions, renamed
    rob, next,      \* the reorder buffer, oldest first; the next place
    arat,           \* the committed mapping
    rs,             \* per lane, the entries (Nothing: its bit of free_vec_ff is set)
    ro,             \* per lane, rdy_addr_ff and what was read there (None: has_rdy_ff is clear)
    ex, wb,         \* per lane, what ro.v and ex_pipe.v hold
    busytable, good,
    finished        \* pipe_finish at the last edge

vars == <<issue, rob, next, arat, rs, ro, ex, wb, busytable, good, finished>>

Init ==
    /\ issue = <<>> /\ rob = <<>> /\ next = 0
    /\ arat = [l \in LRegs |-> 0]
    /\ rs = [i \in Lanes |-> [a \in Addr |-> Nothing]]
    /\ ro = [i \in Lanes |-> NotRdy]
    /\ ex = [i \in Lanes |-> Nothing]
    /\ wb = [i \in Lanes |-> Nothing]
    /\ busytable = {} /\ good = {0}
    /\ finished = FALSE

valid(x) == x # Nothing
-----------------------------------------------------------------------------
(* Rename, as its own module has it: sources from the youngest instruction *)
(* that writes them, destinations from the free registers.                 *)

Youngest(xs, l, older) ==
    LET ws == {k \in DOMAIN xs : xs[k].lrd = l}
    IN  IF ws = {} THEN older ELSE xs[Max(ws)].prd

rat == [l \in LRegs |-> Youngest(rob \o issue, l, arat[l])]

\* fl_ff: register 0, the value of every register at reset, is never in it.
FreeList == PRegs \ ({0} \cup {arat[l] : l \in LRegs} \cup {x.prd : x \in Range(rob \o issue)})

\* rn_fl.v takes the lowest and the highest free register (module Rename).
\* Registers are only compared for equality here, so which one is taken shows
\* nowhere; the model takes them in turn, the first one after p.
FreeAfter(p, used) ==
    LET d(r) == (r - p) % Cardinality(PRegs)
    IN  CHOOSE r \in FreeList \ used : \A r2 \in FreeList \ used : d(r) <= d(r2)

LastTaken ==
    LET ws == {k \in DOMAIN (rob \o issue) : (rob \o issue)[k].prd # None}
    IN  IF ws = {} THEN Max({0} \cup {arat[l] : l \in LRegs}) ELSE (rob \o issue)[Max(ws)].prd

renamed(kind, map, prd) ==
    [Nothing EXCEPT !.srcs = {map[l] : l \in kind.srcs}, !.lrd = kind.lrd,
                    !.prd = IF kind.lrd = None THEN None ELSE prd, !.late = kind.late]

Renamed(kinds) ==
    LET p0 == FreeAfter(LastTaken, {})
        p1 == FreeAfter(p0, {p0})
        x0 == renamed(kinds[1], rat, p0)
        map == [l \in LRegs |-> Youngest(<<x0>>, l, rat[l])]
    IN  CASE Len(kinds) = 0 -> <<>>
          [] Len(kinds) = 1 -> <<x0>>
          [] OTHER -> <<x0, renamed(kinds[2], map, p1)>>
-----------------------------------------------------------------------------
(* Issue: issue.v and issue_rs.v. *)

rob_ready == Len(rob) <= N - 2
free_vec(i) == {a \in Addr : ~valid(rs[i][a])}
issue_rs_full(i) == free_vec(i) = {}
rn_stall_req == ~rob_ready \/ \E i \in Lanes : issue_rs_full(i)

place(x, k) == [x EXCEPT !.slot = (next + k) % N]
pushed == IF rn_stall_req THEN <<>> ELSE [k \in DOMAIN issue |-> place(issue[k], k - 1)]

\* Mutants: sources are not waited for; the entry that leaves may be chosen again;
\* the destination is waited for as well.
rdy_vec_NoBusy(i, pop) == {a \in Addr \ free_vec(i) : ~(pop /\ a = ro[i].addr)}
rdy_vec_NoByp(i, pop) == {a \in Addr \ free_vec(i) : rs[i][a].srcs \cap busytable = {}}
rdy_vec_OwnBusy(i, pop) ==
    {a \in Addr \ free_vec(i) : ~(pop /\ a = ro[i].addr)
                               /\ (rs[i][a].srcs \cup {rs[i][a].prd}) \cap busytable = {}}

\* The entry that leaves is no candidate any more, although its bit is still clear.
rdy_vec(i, pop) ==
    {a \in Addr \ free_vec(i) : ~(pop /\ a = ro[i].addr) /\ rs[i][a].srcs \cap busytable = {}}

\* free_addr is taken from the bits before the entry that leaves is freed.
rs_nxt(i, pop) ==
    [a \in Addr |->
        IF i + 1 \in DOMAIN pushed /\ a = Min(free_vec(i)) THEN pushed[i + 1]
        ELSE IF pop /\ a = ro[i].addr THEN Nothing
        ELSE rs[i][a]]

ro_nxt(i, pop) ==
    LET rdy == rdy_vec(i, pop) IN IF rdy = {} THEN NotRdy ELSE [addr |-> Min(rdy), ins |-> rs[i][Min(rdy)]]
-----------------------------------------------------------------------------
(* Writeback: wb_mux.v, and the banks of rob.v. *)

bank(x) == x.slot % 2
head == rob[1]

wb_rob_ready(i) == i = 0 \/ ~valid(wb[0]) \/ bank(wb[0]) # bank(wb[1])

\* Mutant: pipe 0 does not notice that the write port is taken.
wb_ready_Free(i, lsu_we) == wb_rob_ready(i)

wb_ready(i, lsu_we) == wb_rob_ready(i) /\ ~(i = 0 /\ lsu_we)
wb_rob_fire == {wb[i].slot : i \in {j \in Lanes : valid(wb[j]) /\ wb_rob_ready(j)}}

\* What moves on at an edge: out of a pipe, into it, out of the station.
pop_wb(i, lsu_we) == valid(wb[i]) /\ wb_ready(i, lsu_we)
pop_ex(i, lsu_we) == valid(ex[i]) /\ (~valid(wb[i]) \/ pop_wb(i, lsu_we))
pop_ro(i, lsu_we) == ro[i] # NotRdy /\ (~valid(ex[i]) \/ pop_ex(i, lsu_we))

prf_we_ex(i) == valid(wb[i]) /\ wb[i].prd # None /\ ~wb[i].late

\* The write ports, as the instructions that write.
prf_write(lsu_we) ==
    (IF lsu_we THEN {head} ELSE IF prf_we_ex(0) THEN {wb[0]} ELSE {}) \cup
    (IF prf_we_ex(1) THEN {wb[1]} ELSE {})

Owns(x) == \E k \in DOMAIN rob : rob[k].slot = x.slot /\ rob[k].prd = x.prd
-----------------------------------------------------------------------------
(* Commit: a late instruction at the head needs pipe_finish and leaves     *)
(* alone; otherwise the head leaves as soon as it is ready, with the next  *)
(* one unless one of them must leave alone (alone).                        *)

cmt_valid(k) == k \in DOMAIN rob /\ \A j \in 1 .. k : rob[j].rdy
pipe_req == cmt_valid(1) /\ head.late
cmt_pop_size(finish, alone, flush) ==
    CASE flush \/ ~cmt_valid(1) \/ (pipe_req /\ ~finish) -> 0
      [] OTHER -> IF cmt_valid(2) /\ ~alone /\ ~head.late /\ ~rob[2].late THEN 2 ELSE 1

\* commit_prf_we: the late instruction at the head takes the write port of pipe 0.
prf_we_lsu(finish, flush) == finish /\ ~flush /\ head.prd # None

Clock(kinds, finish, alone, flush) ==
    LET lsu_we == prf_we_lsu(finish, flush)
        written == prf_write(lsu_we)
        n == cmt_pop_size(finish, alone, flush)
        news == IF rn_stall_req THEN <<>> ELSE Renamed(kinds)
        marked == [k \in DOMAIN rob |-> [rob[k] EXCEPT !.rdy = @ \/ rob[k].slot \in wb_rob_fire]]
    IN  /\ finish => pipe_req /\ ~finished
        /\ finished' = finish
        /\ issue' = IF flush THEN <<>> ELSE IF rn_stall_req THEN issue ELSE news
        /\ rob' = IF flush THEN <<>> ELSE SubSeq(marked, n + 1, Len(rob)) \o pushed
        /\ next' = IF flush THEN 0 ELSE (next + Len(pushed)) % N
        /\ arat' = [l \in LRegs |-> Youngest(SubSeq(rob, 1, n), l, arat[l])]
        /\ rs' = [i \in Lanes |-> IF flush THEN [a \in Addr |-> Nothing] ELSE rs_nxt(i, pop_ro(i, lsu_we))]
        /\ ro' = [i \in Lanes |-> IF flush THEN NotRdy ELSE ro_nxt(i, pop_ro(i, lsu_we))]
        /\ ex' = [i \in Lanes |-> CASE flush -> Nothing
                                    [] ~flush /\ pop_ro(i, lsu_we) -> ro[i].ins
                                    [] OTHER -> IF pop_ex(i, lsu_we) THEN Nothing ELSE ex[i]]
        /\ wb' = [i \in Lanes |-> CASE flush -> Nothing
                                    [] ~flush /\ pop_ex(i, lsu_we) -> ex[i]
                                    [] OTHER -> IF pop_wb(i, lsu_we) THEN Nothing ELSE wb[i]]
        /\ busytable' = IF flush THEN {}
                        ELSE (busytable \ {x.prd : x \in written}) \cup ({x.prd : x \in Range(news)} \ {None})
        /\ good' = ((good \ {x.prd : x \in {y \in written : ~Owns(y)}}) \cup {x.prd : x \in {y \in written : Owns(y)}})
                       \ {x.prd : x \in Range(news)}

\* An input nothing looks at is given one value.
Pairs == IF rn_stall_req THEN {<<>>} ELSE {<<>>} \cup {<<k>> : k \in Kinds} \cup (Kinds \X Kinds)

Next ==
    \/ \E kinds \in Pairs, finish, alone \in BOOLEAN :
            (alone => cmt_valid(2)) /\ Clock(kinds, finish, alone, FALSE)
    \/ \E finish \in BOOLEAN : Clock(<<>>, finish, FALSE, TRUE)

\* The clock runs, and the LSU and the EPU finish what they are asked for.
Progress == \E kinds \in Pairs : Clock(kinds, pipe_req /\ ~finished, FALSE, FALSE)

Spec == Init /\ [][Next]_vars /\ WF_vars(Progress)
-----------------------------------------------------------------------------

\* An instruction that goes to the operand stage finds in the register file what
\* its producers, and nobody else, wrote: wake-up by the busy table is never early.
OperandsWritten ==
    \A i \in Lanes : ro[i].ins.srcs \subseteq good

\* What has left the reorder buffer has written its register, even when the LSU
\* or the EPU took the write port away from it at the edge before.
CommittedWritten == \A l \in LRegs : arat[l] \in good

\* Where an instruction can be on its way from the reservation station.
Places == ({"rs"} \X Lanes \X Addr) \cup ({"ex", "wb"} \X Lanes \X {0})
Content(p) == CASE p[1] = "rs" -> rs[p[2]][p[3]]
                [] p[1] = "ex" -> ex[p[2]]
                [] OTHER       -> wb[p[2]]
Copies(s) == {p \in Places : Content(p).slot = s}

\* An instruction is executed exactly once: while its entry in the reorder buffer
\* waits, it is in exactly one place; once the entry is ready, it is nowhere, unless it
\* must write its register again because the write port was taken.
ExecutedOnce ==
    /\ \A p \in Places : valid(Content(p)) => Owns(Content(p))
    /\ \A k \in DOMAIN rob :
          IF ~rob[k].rdy THEN \E p \in Places : Copies(rob[k].slot) = {p}
          ELSE Copies(rob[k].slot) = {} \/ (finished /\ Copies(rob[k].slot) = {<<"wb", 0, 0>>})

\* No instruction waits for ever, though the stations pick by position and not by
\* age: again and again the reorder buffer is empty or its oldest place is given up,
\* and as it gives them up in order, each instruction in it leaves.
Leaves ==
    \/ []<>(rob = <<>>)
    \/ []<><<rob # <<>> /\ (rob' = <<>> \/ rob'[1].slot # rob[1].slot)>>_vars
=============================================================================
