--------------------------------- MODULE Rob ---------------------------------
(***************************************************************************)
(* The reorder buffer rob.v: two banks, each a FIFO of instructions with   *)
(* tables of ready and flush tags written back out of order by bank and    *)
(* index.  A bank keeps the pointers of FifoCtrl and, in place of its RAM  *)
(* and bypass registers, the queue they implement (Fifo!ImplementsQueue).  *)
(* The result table is written at the ports of the flush tags, so the tag  *)
(* stands for both.  What the rest of the core does is an input of the     *)
(* clock edge; inflight remembers which places were handed out (rob_free_id and  *)
(* rob_free_bank) and are still to be written back.                        *)
(***************************************************************************)
EXTENDS FifoCtrl, Sequences, FiniteSets

CONSTANT Flushing       \* the instructions that will ask for a flush

ASSUME FlushingData == Flushing \subseteq Data

BANKS == 2              \* also the width of push, writeback and commit
Banks == 0 .. BANKS - 1
Ports == 0 .. 1

VARIABLES
    que,        \* the FIFO of each bank: [w_ptr, r_ptr, words]
    head, tail, \* the banks of the oldest and of the next instruction
    tag_rdy, tag_fls,
    inflight,   \* places issued and not written back: [bank, id, dat]
    again       \* the place port 0 writes again because wb_mux.v refused it

vars == <<que, head, tail, tag_rdy, tag_fls, inflight, again>>

NoPlace == [bank |-> 0, id |-> 0, dat |-> NoData]

Init ==
    /\ que = [b \in Banks |-> [w_ptr |-> 0, r_ptr |-> 0, words |-> <<>>]]
    /\ head = 0 /\ tail = 0
    /\ tag_rdy = [b \in Banks |-> [a \in Addr |-> FALSE]]
    /\ tag_fls = [b \in Banks |-> [a \in Addr |-> FALSE]]
    /\ inflight = {}
    /\ again = NoPlace

BankNext(s, push, din, pop, flush) ==
    LET rest == IF pop THEN Tail(s.words) ELSE s.words
    IN  [w_ptr |-> IF push \/ flush THEN PtrNxt(s.w_ptr, flush) ELSE s.w_ptr,
         r_ptr |-> IF pop \/ flush THEN PtrNxt(s.r_ptr, flush) ELSE s.r_ptr,
         words |-> IF flush THEN <<>> ELSE IF push THEN Append(rest, din) ELSE rest]

\* The bank of the i-th slot counted from p, and the slot of bank b.
BankOf(p, i) == (p + i) % BANKS

SlotOf(p, b) == (b + BANKS - p) % BANKS

\* Mutant: room in one bank is enough.
rob_ready_OneBank == \E b \in Banks : FifoReady(que[b])

rob_ready == \A b \in Banks : FifoReady(que[b])

rob_free(i) == LET b == BankOf(tail, i) IN [bank |-> b, id |-> Low(que[b].w_ptr)]

rptr(b) == Low(que[b].r_ptr)

ent_valid(i) == LET b == BankOf(head, i) IN FifoValid(que[b]) /\ tag_rdy[b][rptr(b)]
cmt_valid(i) == \A j \in 0 .. i : ent_valid(j)

cmt_dat(i) == Head(que[BankOf(head, i)].words)
cmt_fls(i) == LET b == BankOf(head, i) IN tag_fls[b][rptr(b)]

\* Mutant: two ports write one bank in the same cycle.
wb_ready_Conflict(wb, i) == TRUE

\* Not allowed to write to a bank at the same time: the lower port wins.
wb_ready(wb, i) == \A j \in Ports : j < i => wb[j] = NoPlace \/ wb[j].bank # wb[i].bank
wb_fire(wb, i) == wb[i] # NoPlace /\ wb_ready(wb, i)

\* The write port of bank b: the ports that fire into it are OR-ed together,
\* which by wb_ready is the place of the only one.
que_wb(wb, b) == {wb[i] : i \in {j \in Ports : wb_fire(wb, j) /\ wb[j].bank = b}}
que_wb_id(wb, b) == (CHOOSE p \in que_wb(wb, b) : TRUE).id
que_wb_fls(wb, b) == \E p \in que_wb(wb, b) : p.dat \in Flushing

\* One tag table after the push port, then the writeback port: the latter wins.
TagNxt(tag, b, wb, push, written) ==
    [a \in Addr |->
        IF que_wb(wb, b) # {} /\ a = que_wb_id(wb, b) THEN written
        ELSE (~push \/ a # Low(que[b].w_ptr)) /\ tag[b][a]]

\* What writeback may present: distinct places, and port 0 again what wb_mux.v
\* refused at the edge before.
Writebacks ==
    {wb \in [Ports -> inflight \cup {NoPlace}] :
        /\ again # NoPlace => wb[0] = again
        /\ wb[0] = wb[1] => wb[0] = NoPlace}

\* A clock edge: ds enter, wb are written back, n leave.  refused: the LSU/EPU
\* holds the write port, so port 0 keeps its instruction although rob.v took it.
Clock(ds, wb, refused, n, flush) ==
    LET push(b) == SlotOf(tail, b) < Len(ds)
        pop(b) == SlotOf(head, b) < n
        din(b) == IF push(b) THEN ds[SlotOf(tail, b) + 1] ELSE NoData
        accepted == {i \in Ports : wb_fire(wb, i) /\ ~(i = 0 /\ refused)}
    IN  /\ Len(ds) > 0 => rob_ready
        /\ n > 0 => cmt_valid(n - 1)
        /\ refused => again = NoPlace /\ wb[0] # NoPlace
        /\ que' = [b \in Banks |-> BankNext(que[b], push(b), din(b), pop(b), flush)]
        /\ head' = IF flush THEN 0 ELSE (head + n) % BANKS
        /\ tail' = IF flush THEN 0 ELSE (tail + Len(ds)) % BANKS
        /\ tag_rdy' = [b \in Banks |-> TagNxt(tag_rdy, b, wb, push(b), TRUE)]
        /\ tag_fls' = [b \in Banks |-> TagNxt(tag_fls, b, wb, push(b), que_wb_fls(wb, b))]
        /\ inflight' = IF flush THEN {}
                       ELSE (inflight \ {wb[i] : i \in accepted}) \cup
                            {[bank |-> rob_free(k - 1).bank, id |-> rob_free(k - 1).id,
                              dat |-> ds[k]] : k \in 1 .. Len(ds)}
        /\ again' = IF refused /\ ~flush THEN wb[0] ELSE NoPlace

Pushes == UNION {[1 .. n -> Data] : n \in 0 .. BANKS}

Next == \E ds \in Pushes, wb \in Writebacks, refused, flush \in BOOLEAN, n \in 0 .. BANKS :
            Clock(ds, wb, refused, n, flush)

Spec == Init /\ [][Next]_vars
-----------------------------------------------------------------------------

Occupied == FifoCount(que[0]) + FifoCount(que[1])

\* Instruction k, counted from 0 at the oldest: its bank, its place and its data.
EntryBank(k) == BankOf(head, k)
EntryAddr(k) == Low(que[EntryBank(k)].r_ptr + k \div BANKS)
EntryDat(k) == que[EntryBank(k)].words[k \div BANKS + 1]

\* An instruction ready to commit shows its own flush request (and result), never
\* those of another instruction that used its place or shared its writeback cycle.
CommitsOwnResult ==
    \A i \in Ports : cmt_valid(i) => (cmt_fls(i) <=> cmt_dat(i) \in Flushing)

\* The banked buffer behaves as one in-order buffer.
Buffer == INSTANCE InOrderBuffer WITH
    Capacity <- BANKS * Depth, Width <- BANKS,
    q <- [k \in 1 .. Occupied |-> [dat |-> EntryDat(k - 1),
                                   done |-> tag_rdy[EntryBank(k - 1)][EntryAddr(k - 1)]]]
ImplementsInOrder == Buffer!Spec
=============================================================================
