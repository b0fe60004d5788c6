--------------------------------- MODULE Axi ---------------------------------
(***************************************************************************)
(* The AXI4 fabric between the caches and the memory port: the arbiters    *)
(* axi4_arbiter_r.v and axi4_arbiter_w.v, the multiplexers axi4_mux_r.v    *)
(* and axi4_mux_w.v, the register slices axi4_buf_r.v and axi4_buf_w.v,    *)
(* and the AXI registers of the I$ (port 0) and of the D$ (port 1).  The   *)
(* edge actions are parameterised by what the memory side drives; module   *)
(* Crossbar supplies it.                                                   *)
(*                                                                         *)
(* A cache reads or writes one line of the DRAM, or one uncached beat of   *)
(* the DRAM or of a device, the content of which is not followed.          *)
(* The field by of a request names the cache that made it; it is not on    *)
(* the wires and only the properties look at it.                           *)
(***************************************************************************)
EXTENDS HdsBuf, Integers

CONSTANTS
    Line,       \* the beats of a line of the D$, of four bytes each
    Vals,       \* what a line can be filled with
    Access      \* the uncached stores: the byte offset and log2 of the size

ASSUME LineEven == Line \in Nat \ {0} /\ Line % 2 = 0

\* cmt_lsu.v kills the request of an access that is not aligned.
ASSUME AccessAligned == \A a \in Access : a[1] \in 0 .. 7 /\ a[2] \in 0 .. 2 /\ a[1] % (2 ^ a[2]) = 0

Caches == {0, 1}
other(i) == 1 - i
Beats == 0 .. Line - 1

VARIABLES
    rd,                     \* the AR and R registers of each cache
    dc,                     \* the AW, W and B registers of the D$ and its line
    grant_r, pending_r,     \* fsm_state_ff, s0_pending and s1_pending of the
    grant_w, pending_w,     \* arbiters
    ar, r, aw, w, b         \* the slots of the register slices

readers == <<rd, grant_r, pending_r, ar, r>>
writers == <<dc, grant_w, pending_w, aw, w, b>>

\* The requests.  size is log2 of the bytes in a beat, lane the byte lane of the
\* first.  The I$ refills eight bytes a beat, the D$ four.  mmio: the address is
\* that of a device, not of the DRAM.
nullptr == [by |-> 0, uncached |-> FALSE, mmio |-> FALSE, len |-> 0, lane |-> 0, size |-> 0]
LineReq(i) == [by |-> i, uncached |-> FALSE, mmio |-> FALSE,
               len |-> IF i = 0 THEN Line \div 2 ELSE Line,
               lane |-> 0, size |-> IF i = 0 THEN 3 ELSE 2]
UncachedRead(i, mmio) ==
    [by |-> i, uncached |-> TRUE, mmio |-> mmio, len |-> 1, lane |-> 0, size |-> 2]
UncachedWrite(a, mmio) ==
    [by |-> 1, uncached |-> TRUE, mmio |-> mmio, len |-> 1, lane |-> a[1], size |-> a[2]]

Reads(i) == {LineReq(i)} \cup {UncachedRead(i, mmio) : mmio \in BOOLEAN}
Writes == {LineReq(1)} \cup {UncachedWrite(a, mmio) : a \in Access, mmio \in BOOLEAN}

NotReading == [busy |-> FALSE, ARVALID |-> FALSE, req |-> nullptr, got |-> 0]
NotWriting(v) == [busy |-> FALSE, AWVALID |-> FALSE, req |-> nullptr, wleft |-> 0, line |-> v]

FabricInit ==
    /\ rd = [i \in Caches |-> NotReading]
    /\ \E v \in Vals : dc = NotWriting(v)
    /\ grant_r = 0 /\ grant_w = 0
    /\ pending_r = [i \in Caches |-> FALSE] /\ pending_w = [i \in Caches |-> FALSE]
    /\ ar = Empty /\ r = Empty /\ aw = Empty /\ w = Empty /\ b = Empty
-----------------------------------------------------------------------------
(* The read half.                                                          *)

ARVALID(i) == rd[i].ARVALID

\* The multiplexer: what the granted cache exchanges with the slice.
push_ar == ARVALID(grant_r) /\ AREADY(ar, FALSE, FALSE)
pop_r == BVALID(r) /\ rd[grant_r].busy

\* The last beat of a burst reaches cache i.
hds_axi_R_last(i) == grant_r = i /\ pop_r /\ r[1].last

r_pending_clr(i) == hds_axi_R_last(i)

r_pending_set(i) ==
    /\ ARVALID(i)
    /\ grant_r # i => ~ARVALID(grant_r) /\ ~pending_r[grant_r]

\* Mutant: the bus stays where it was when a burst ends.
r_grant_nxt_Sticky ==
    IF ARVALID(grant_r) \/ pending_r[grant_r] \/ ~ARVALID(other(grant_r))
    THEN grant_r ELSE other(grant_r)

r_grant_nxt ==
    IF ARVALID(grant_r) THEN grant_r
    ELSE IF pending_r[grant_r]
    THEN IF r_pending_clr(grant_r) THEN other(grant_r) ELSE grant_r
    ELSE IF ARVALID(other(grant_r)) THEN other(grant_r) ELSE grant_r

\* Mutant: the address handshake is counted as a beat.
rd_nxt_Counts(i, want) ==
    IF ~rd[i].busy \/ hds_axi_R_last(i)
    THEN IF want = nullptr THEN NotReading
         ELSE [busy |-> TRUE, ARVALID |-> TRUE, req |-> want, got |-> 0]
    ELSE [rd[i] EXCEPT !.ARVALID = @ /\ ~(grant_r = i /\ push_ar),
                       !.got = IF grant_r = i /\ (pop_r \/ push_ar) THEN @ + 1 ELSE @]

\* The registers of cache i after the edge; want is the read it starts, if any.
rd_nxt(i, want) ==
    IF ~rd[i].busy \/ hds_axi_R_last(i)
    THEN IF want = nullptr THEN NotReading
         ELSE [busy |-> TRUE, ARVALID |-> TRUE, req |-> want, got |-> 0]
    ELSE [rd[i] EXCEPT !.ARVALID = @ /\ ~(grant_r = i /\ push_ar),
                       !.got = IF grant_r = i /\ pop_r THEN @ + 1 ELSE @]

\* An edge of the read half.
ReadEdge(want, arready, rvalid, beat) ==
    /\ rd' = [i \in Caches |-> rd_nxt(i, want[i])]
    /\ grant_r' = r_grant_nxt
    /\ pending_r' = [i \in Caches |-> r_pending_set(i) \/ (pending_r[i] /\ ~r_pending_clr(i))]
    /\ ar' = HdsNext(ar, push_ar, rd[grant_r].req, BVALID(ar) /\ arready, FALSE)
    /\ r' = HdsNext(r, rvalid /\ AREADY(r, FALSE, FALSE), beat, pop_r, FALSE)
-----------------------------------------------------------------------------
(* The write half: the AW, W and B channels of port 0 are tied off.        *)

AWVALID(i) == i = 1 /\ dc.AWVALID
WVALID(i) == i = 1 /\ dc.wleft > 0
BREADY(i) == i = 1 /\ dc.busy

push_aw == AWVALID(grant_w) /\ AREADY(aw, FALSE, FALSE)
push_w == WVALID(grant_w) /\ AREADY(w, FALSE, FALSE)
pop_b == BVALID(b) /\ BREADY(grant_w)

w_pending_clr(i) == grant_w = i /\ pop_b

\* s1_pending_set defaults to 1, whatever the state.
w_pending_set(i) ==
    \/ i = 1
    \/ AWVALID(i) /\ (grant_w # i => ~AWVALID(grant_w) /\ ~pending_w[grant_w])

w_grant_nxt ==
    IF AWVALID(grant_w) THEN grant_w
    ELSE IF pending_w[grant_w]
    THEN IF w_pending_clr(grant_w) THEN other(grant_w) ELSE grant_w
    ELSE IF AWVALID(other(grant_w)) THEN other(grant_w) ELSE grant_w

\* Mutant: the strobe of a halfword ignores the upper bit of the address.
axi_uncached_wstrb_LowHalf(lane, size) ==
    CASE size = 0 -> {i \in 0 .. 7 : i = lane}
      [] size = 1 -> {i \in 0 .. 7 : i \div 2 = (lane \div 2) % 2}
      [] OTHER -> {i \in 0 .. 7 : i \div 4 = lane \div 4}

\* The byte lanes of an uncached store.
axi_uncached_wstrb(lane, size) ==
    CASE size = 0 -> {i \in 0 .. 7 : i = lane}
      [] size = 1 -> {i \in 0 .. 7 : i \div 2 = lane \div 2}
      [] OTHER -> {i \in 0 .. 7 : i \div 4 = lane \div 4}

\* The byte lanes of a beat of a written-back line: align_w puts the word of
\* four bytes in the half of the bus its address selects.
axi_align_be(beat) == {i \in 0 .. 7 : i \div 4 = beat % 2}

WSTRB == IF dc.req.uncached THEN axi_uncached_wstrb(dc.req.lane, dc.req.size)
         ELSE axi_align_be(dc.req.len - dc.wleft)

\* The D$ starts a write of v, takes the response, or goes on with the burst.
dc_nxt(want, v) ==
    IF ~dc.busy
    THEN IF want = nullptr THEN dc
         ELSE [busy |-> TRUE, AWVALID |-> TRUE, req |-> want, wleft |-> want.len,
               line |-> IF want.uncached THEN dc.line ELSE v]
    ELSE IF pop_b THEN NotWriting(dc.line)
    ELSE [dc EXCEPT !.AWVALID = @ /\ ~push_aw, !.wleft = IF push_w THEN @ - 1 ELSE @]

\* An edge of the write half.
WriteEdge(want, v, awready, wready, bvalid) ==
    /\ dc' = dc_nxt(want, v)
    /\ grant_w' = w_grant_nxt
    /\ pending_w' = [i \in Caches |-> w_pending_set(i) \/ (pending_w[i] /\ ~w_pending_clr(i))]
    /\ aw' = HdsNext(aw, push_aw, dc.req, BVALID(aw) /\ awready, FALSE)
    /\ w' = HdsNext(w, push_w, [val |-> dc.line, strb |-> WSTRB], BVALID(w) /\ wready, FALSE)
    /\ b' = HdsNext(b, bvalid /\ AREADY(b, FALSE, FALSE), TRUE, pop_b, FALSE)
-----------------------------------------------------------------------------
(* What the caches may start at this edge.                                 *)

\* The I$ starts from its idle state; its uncached path asks for the next word
\* of the fetch window at the edge that brings the last one.
IReads ==
    {nullptr} \cup
    IF ~rd[0].busy THEN Reads(0)
    ELSE IF hds_axi_R_last(0) /\ rd[0].req.uncached
    THEN {UncachedRead(0, rd[0].req.mmio)} ELSE {}

\* The D$ does one access at a time.  A writeback that makes room for a refill is
\* followed by the read at the edge of the response.
DReads ==
    {nullptr} \cup
    IF ~dc.busy /\ ~rd[1].busy THEN Reads(1)
    ELSE IF pop_b /\ ~dc.req.uncached THEN {LineReq(1)} ELSE {}

DWrites ==
    {<<nullptr, dc.line>>} \cup
    IF dc.busy \/ rd[1].busy THEN {}
    ELSE ({LineReq(1)} \X Vals) \cup ((Writes \ {LineReq(1)}) \X {dc.line})
=============================================================================
