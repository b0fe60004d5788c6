------------------------------ MODULE Frontend ------------------------------
(***************************************************************************)
(* The front end: frontend.v with the prefetch buffer prefetch_buf.v, up   *)
(* to the instructions the decoder id.v hands to the rename stage.  A step *)
(* is a clock edge.  The I$ is what ICache shows of it: it delivers the    *)
(* window asked for two enabled edges before, and stalls as it likes.  The *)
(* branch predictor may predict any instruction taken, to anywhere; the    *)
(* IMMU may refuse a window.  Each bank of the prefetch buffer is the    *)
(* bounded queue that Fifo implements.                                     *)
(***************************************************************************)
EXTENDS Integers, Sequences, FiniteSets

CONSTANTS
    PCS,            \* number of instruction addresses
    FW, IW,         \* instructions of a fetch window; instructions decoded at once
    Depth,          \* entries of a bank
    Predictions,    \* what the predictor may say: a set of PCs and NotTaken
    Refusable,      \* the addresses at which the IMMU may refuse a fetch
    Targets,        \* where the commit stage may redirect to
    MaxFlush        \* bound on the redirections

NotTaken == -1
None == -1
PC == 0 .. PCS - 1
Lanes == 0 .. FW - 1

ASSUME Parameters ==
    /\ FW \in Nat \ {0} /\ IW \in 1 .. FW /\ PCS \in Nat \ {0} /\ PCS % FW = 0
    /\ Depth \in Nat \ {0} /\ MaxFlush \in Nat
    /\ Predictions \subseteq PC \cup {NotTaken} /\ Targets \subseteq PC /\ Refusable \subseteq PC

VARIABLES
    pc,
    s1,             \* s1o_fetch_aligned, s1o_pc, s1o_exc, what the BPU says, s1o_push_offset
    s2,             \* s2o_push_cnt, s2o_pc, s2o_exc, s2o_bpu_upd, s2o_push_offset
    ic,             \* the windows in the two stages of the I$
    q, head, tail,  \* the prefetch buffer: banks, head_ff, tail_ff
    rn,             \* what the decoder registered for the rename stage
    expect,         \* the PC that must be decoded next
    flushes

vars == <<pc, s1, s2, ic, q, head, tail, rn, expect, flushes>>

Init ==
    /\ pc = 0
    /\ s1 = [aligned |-> {}, pcs |-> [i \in Lanes |-> 0], pred |-> [i \in Lanes |-> NotTaken], exc |-> FALSE, offset |-> 0]
    /\ s2 = [cnt |-> 0, pcs |-> [i \in Lanes |-> 0], pred |-> [i \in Lanes |-> NotTaken], exc |-> FALSE, offset |-> 0]
    /\ ic = <<None, None>>
    /\ q = [b \in Lanes |-> <<>>] /\ head = 0 /\ tail = 0
    /\ rn = <<>> /\ expect = 0 /\ flushes = 0

window(a) == a - (a % FW)
\* Mutant: the lane pc itself is in is left out.
fetch_aligned_Strict(a) == {i \in Lanes : a % FW < i}
fetch_aligned(a) == {i \in Lanes : a % FW <= i}
push_offset(a) == Cardinality(Lanes \ fetch_aligned(a))
s1i_pc(a) == [i \in Lanes |-> (a + i - push_offset(a)) % PCS]

\* The predictions for lanes of the window that are before pc do not count.
bpu_taken == {i \in s1.aligned : s1.pred[i] # NotTaken}
valid_msk == {i \in Lanes : \A j \in bpu_taken : i <= j}
push_cnt == Cardinality(s1.aligned \cap valid_msk)
pred_tgt == s1.pred[CHOOSE i \in bpu_taken : \A j \in bpu_taken : i <= j]

iq_ready == \A b \in Lanes : Len(q[b]) < Depth

pc_nxt(p_ce, flush, flush_tgt) ==
    CASE flush -> flush_tgt
      [] ~flush /\ ~p_ce -> pc
      [] OTHER -> IF bpu_taken # {} THEN pred_tgt ELSE (pc + push_cnt) % PCS

\* Instruction i of the window that leaves the I$.  If the fetch was killed
\* there is no instruction.
iq(i) == [ins |-> IF s2.exc THEN None ELSE ic[2] + i, pc |-> s2.pcs[i], exc |-> s2.exc, pred |-> s2.pred[i]]
iq_push_cnt(p_ce) == IF ic[2] # None /\ p_ce THEN s2.cnt ELSE 0

que_push(b, n) == (b - tail) % FW < n
\* Mutant: the lanes before pc are not skipped.
que_din_NoOffset(b) == iq((b - tail) % FW)
que_din(b) == iq((b - tail + s2.offset) % FW)
que_pop(b, n) == (b - head) % FW < n

id_valid == {i \in 0 .. IW - 1 : q[(i + head) % FW] # <<>>}
id_pop_cnt(stall) == IF stall THEN 0 ELSE Cardinality(id_valid)
id(i) == Head(q[(i + head) % FW])
id_out(n) == [i \in 1 .. n |-> id(i - 1)]

q_nxt(push, pop) ==
    [b \in Lanes |->
        LET rest == IF que_pop(b, pop) THEN Tail(q[b]) ELSE q[b]
        IN  IF que_push(b, push) THEN Append(rest, que_din(b)) ELSE rest]

follow(x) == IF x.pred # NotTaken THEN x.pred ELSE (x.pc + 1) % PCS

\* An edge: the I$ stalls or not, the rename stage stalls or not, the commit
\* stage redirects to flush_tgt or not; the window that enters is predicted
\* pred and refused or not.
Clock(ic_stall, rn_stall, flush, flush_tgt, pred, exc) ==
    LET p_ce == ~ic_stall /\ iq_ready
        a == pc_nxt(p_ce, flush, flush_tgt)
        push == iq_push_cnt(p_ce)
        pop == id_pop_cnt(rn_stall)
    IN  /\ pc' = a
        /\ s1' = [aligned |-> IF flush THEN {} ELSE IF p_ce THEN fetch_aligned(a) ELSE s1.aligned,
                  pcs |-> IF p_ce THEN s1i_pc(a) ELSE s1.pcs,
                  pred |-> IF p_ce THEN pred ELSE s1.pred,
                  exc |-> IF p_ce THEN exc ELSE s1.exc,
                  offset |-> IF p_ce THEN push_offset(a) ELSE s1.offset]
        /\ s2' = [cnt |-> IF flush THEN 0 ELSE IF p_ce THEN push_cnt ELSE s2.cnt,
                  pcs |-> IF p_ce THEN s1.pcs ELSE s2.pcs,
                  pred |-> IF p_ce THEN [i \in Lanes |-> IF i \in bpu_taken THEN s1.pred[i] ELSE NotTaken] ELSE s2.pred,
                  exc |-> IF p_ce THEN s1.exc ELSE s2.exc,
                  offset |-> IF p_ce THEN s1.offset ELSE s2.offset]
        /\ ic' = IF p_ce THEN <<window(a), ic[1]>> ELSE ic
        /\ q' = IF flush THEN [b \in Lanes |-> <<>>] ELSE q_nxt(push, pop)
        /\ head' = IF flush THEN 0 ELSE (head + pop) % FW
        /\ tail' = IF flush THEN 0 ELSE (tail + push) % FW
        /\ rn' = IF flush THEN <<>> ELSE IF rn_stall THEN rn ELSE id_out(pop)
        /\ expect' = IF flush THEN flush_tgt ELSE IF pop = 0 THEN expect ELSE follow(id(pop - 1))
        /\ flushes' = IF flush THEN flushes + 1 ELSE flushes

\* An input nothing looks at is given one value.
Preds(ic_stall, flush) ==
    IF ic_stall \/ ~iq_ready \/ flush THEN {[i \in Lanes |-> NotTaken]} ELSE [Lanes -> Predictions]
Excs(ic_stall, flush) ==
    IF ic_stall \/ ~iq_ready \/ flush \/ pc_nxt(TRUE, FALSE, 0) \notin Refusable THEN {FALSE} ELSE BOOLEAN

Flushing(rn_stall) ==
    \E ic_stall \in BOOLEAN, flush_tgt \in Targets, pred \in Preds(TRUE, TRUE), exc \in Excs(TRUE, TRUE) :
        flushes < MaxFlush /\ Clock(ic_stall, rn_stall, TRUE, flush_tgt, pred, exc)

Fetching(ic_stall, rn_stall) ==
    \E pred \in Preds(ic_stall, FALSE), exc \in Excs(ic_stall, FALSE) :
        Clock(ic_stall, rn_stall, FALSE, 0, pred, exc)

Next == \E rn_stall \in BOOLEAN : Flushing(rn_stall) \/ \E ic_stall \in BOOLEAN : Fetching(ic_stall, rn_stall)

\* The clock runs; the I$ and the rename stage are ready again and again.
Fairness == WF_vars(Fetching(FALSE, FALSE))

Spec == Init /\ [][Next]_vars /\ Fairness
-----------------------------------------------------------------------------

\* The decoder gets the instructions along the predicted path and no other: the
\* first one after a redirection is its target, and each is followed by where
\* its own prediction leads, however the I$, the decoder and redirections meet.
DecodesPath ==
    \A n \in id_valid : id(n).pc = IF n = 0 THEN expect ELSE follow(id(n - 1))

\* While nothing redirects the front end, it keeps the rename stage supplied.
Supplies == []<>(rn # <<>>)
=============================================================================
