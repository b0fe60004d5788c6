------------------------------ MODULE Crossbar ------------------------------
(***************************************************************************)
(* Axi4Crossbar, the memory side of the simulated AXI port, composed with  *)
(* the fabric and the caches of module Axi.  A step is one Emu::clk:       *)
(* clk_rising with the handshakes settled before the edge, the edge of the *)
(* core, and clk_falling, which sets the ready and valid signals for the   *)
(* next one.  DRAMsim3 is what its cosimulation.cc promises: it may refuse *)
(* a request, and takes any number of ticks over one.                      *)
(***************************************************************************)
EXTENDS Axi

VARIABLES
    aw_ready, w_ready, b_valid,     \* what clk_falling last drove
    ar_ready, r_valid,
    wait_req_w, wait_resp_b,
    wait_req_r, wait_resp_r,
    dram_w, dram_r, \* a request is in DRAMsim3
    mem             \* the line in the memory, in words of four bytes

vars == <<readers, writers, aw_ready, w_ready, b_valid, ar_ready, r_valid,
          wait_req_w, wait_resp_b, wait_req_r, wait_resp_r, dram_w, dram_r, mem>>

NoWrite == [req |-> nullptr, offset |-> 0, resp_inflight |-> FALSE]
NoRead == [req |-> nullptr, offset |-> 0, data |-> <<>>]

Init ==
    /\ FabricInit
    /\ mem = [i \in Beats |-> dc.line]
    /\ aw_ready = FALSE /\ w_ready = FALSE /\ b_valid = FALSE
    /\ ar_ready = FALSE /\ r_valid = FALSE
    /\ wait_req_w = NoWrite /\ wait_resp_b = FALSE
    /\ wait_req_r = NoRead /\ wait_resp_r = FALSE
    /\ dram_w = FALSE /\ dram_r = FALSE

-----------------------------------------------------------------------------
(* Axi4Crossbar, the write half.                                           *)

\* The strobe check_wstrb asks for.
excp_wstrb(lane, size) == {i \in 0 .. 7 : i >= lane /\ i < lane + 2 ^ size}

wack_fire == b_valid /\ AREADY(b, FALSE, FALSE)
waddr_fire == aw_ready /\ BVALID(aw)
wdata_fire == w_ready /\ BVALID(w)

\* wait_req_w after the acknowledgement and the address of clk_rising.
AcceptedWrite ==
    IF waddr_fire THEN [req |-> aw[1], offset |-> 0, resp_inflight |-> FALSE]
    ELSE IF wack_fire THEN NoWrite ELSE wait_req_w

\* ... and after its data: a request whose last beat is in goes to the DRAM as
\* soon as the DRAM accepts it.
RisenWrite(accept) ==
    LET q == IF wdata_fire THEN [AcceptedWrite EXCEPT !.offset = @ + 1] ELSE AcceptedWrite
    IN  [q EXCEPT !.resp_inflight =
            @ \/ (q.req # nullptr /\ q.offset = q.req.len /\ (q.req.mmio \/ accept))]

\* pwrite of the beat of clk_rising, into the line if it is a beat of it.
StoredBeat ==
    IF wdata_fire /\ ~AcceptedWrite.req.uncached
    THEN [mem EXCEPT ![AcceptedWrite.offset] = w[1].val] ELSE mem

\* clk_falling: the first beat is accepted together with the address.
aw_w_ready(q, accept) ==
    LET first == q.req = nullptr /\ aw' # Empty /\ (aw'[1].mmio \/ accept)
    IN  [aw |-> first,
         w |-> first \/ (q.req # nullptr /\ (q.req.mmio \/ accept) /\ q.offset # q.req.len)]

\* clk_falling: there is a response to give.  Nothing asks whether the data of
\* an MMIO write has arrived.
wack_ready(q, done) == q.req # nullptr /\ (q.req.mmio \/ done)

\* One Emu::clk of the write channels.  accept1 and accept2 are will_accept at
\* the rising and at the falling edge, done is check_write_response.
Write(want, v, accept1, accept2, done) ==
    LET q == RisenWrite(accept1)
        add == ~q.req.mmio /\ q.resp_inflight /\ ~AcceptedWrite.resp_inflight
        ready == aw_w_ready(q, accept2)
        resp == (wait_resp_b /\ ~wack_fire) \/ wack_ready(q, dram_w /\ done)
    IN  /\ WriteEdge(want, v, aw_ready, w_ready, b_valid)
        /\ wait_req_w' = q
        /\ wait_resp_b' = resp
        /\ mem' = StoredBeat
        /\ aw_ready' = ready.aw /\ w_ready' = ready.w /\ b_valid' = resp
        /\ dram_w' = (add \/ (dram_w /\ ~done))

-----------------------------------------------------------------------------
(* The read half.                                                          *)

rdata_fire == r_valid /\ AREADY(r, FALSE, FALSE)
raddr_fire == ar_ready /\ BVALID(ar)

\* All the beats of a line, or an uncached beat, whose content is not followed.
axi_read_data(req) ==
    [k \in 0 .. req.len - 1 |->
        IF req.uncached THEN <<>> ELSE IF req.size = 3 THEN <<mem[2 * k], mem[2 * k + 1]>>
        ELSE <<mem[k]>>]

\* wait_req_r after clk_rising: all the data of a read is fetched from the
\* memory when its address is accepted, before the write half of the same
\* clk_rising stores a beat.
RisenRead ==
    IF raddr_fire THEN [req |-> ar[1], offset |-> 0, data |-> axi_read_data(ar[1])]
    ELSE IF rdata_fire
    THEN IF wait_req_r.offset + 1 = wait_req_r.req.len THEN NoRead
         ELSE [wait_req_r EXCEPT !.offset = @ + 1]
    ELSE wait_req_r

\* Mutant: RLAST compares with the length, not with the last beat.
rdata_Last == [by |-> wait_req_r.req.by, val |-> wait_req_r.data[wait_req_r.offset],
               last |-> wait_req_r.offset = wait_req_r.req.len]

\* The beat axi_put_rdata drives.
rdata == [by |-> wait_req_r.req.by, val |-> wait_req_r.data[wait_req_r.offset],
          last |-> wait_req_r.offset = wait_req_r.req.len - 1]

\* One Emu::clk of the read channels.
Read(want, accept, done) ==
    LET q == RisenRead
        resp == q.req # nullptr /\ (wait_resp_r \/ q.req.mmio \/ (dram_r /\ done))
    IN  /\ ReadEdge(want, ar_ready, r_valid, rdata)
        /\ wait_req_r' = q
        /\ wait_resp_r' = resp
        /\ r_valid' = resp
        /\ ar_ready' = (q.req = nullptr /\ ar' # Empty /\ (ar'[1].mmio \/ accept))
        /\ dram_r' = ((raddr_fire /\ ~ar[1].mmio) \/ (dram_r /\ ~done))

-----------------------------------------------------------------------------

\* Emu::clk.
clk(wants, accept1, accept2, accept3, done_w, done_r) ==
    /\ Write(wants.write, wants.val, accept1, accept2, done_w)
    /\ Read(wants.read, accept3, done_r)

\* The D$ starts a read or a write, not both.
Wants ==
    {[read |-> [i \in Caches |-> t[i + 1]], write |-> t[3][1], val |-> t[3][2]] :
        t \in {t \in IReads \X DReads \X DWrites : t[2] = nullptr \/ t[3][1] = nullptr}}

Next ==
    \E wants \in Wants, accept1, accept2, accept3, done_w, done_r \in BOOLEAN :
        clk(wants, accept1, accept2, accept3, done_w, done_r)

\* The queues of DRAMsim3 drain: will_accept and check_response do not say no for
\* ever.
Fairness == WF_vars(\E wants \in Wants : clk(wants, TRUE, TRUE, TRUE, TRUE, TRUE))

Spec == Init /\ [][Next]_vars /\ Fairness
-----------------------------------------------------------------------------
(* The properties.                                                         *)

\* The beats of reads of cache i that are beyond the arbiter.
inflight(i) ==
    (IF BVALID(ar) /\ ar[1].by = i THEN ar[1].len ELSE 0)
    + (IF wait_req_r # NoRead /\ wait_req_r.req.by = i THEN wait_req_r.req.len - wait_req_r.offset ELSE 0)
    + (IF BVALID(r) /\ r[1].by = i THEN 1 ELSE 0)

\* No beat is lost or duplicated: once the address of a read is sent, what the
\* cache still waits for is what is on its way.
BeatsConserved ==
    \A i \in Caches : inflight(i) = IF rd[i].busy /\ ~rd[i].ARVALID THEN rd[i].req.len - rd[i].got ELSE 0

\* None of the assertions of clk_rising fails: a response is only taken, and a
\* beat only offered, for the request in flight, no request displaces another,
\* no burst is longer than announced, and each strobe is the one check_wstrb
\* expects of the address and size of the request.
AssertionsHold ==
    /\ rdata_fire => wait_resp_r
    /\ wack_fire => wait_resp_b
    /\ waddr_fire => wait_req_w = NoWrite \/ wack_fire
    /\ wdata_fire =>
          LET q == AcceptedWrite
          IN  /\ q # NoWrite /\ q.offset < q.req.len
              /\ w[1].strb = excp_wstrb((q.req.lane + q.offset * 2 ^ q.req.size) % 8, q.req.size)

\* The D$ reads back the line it last wrote, whatever the I$ reads meanwhile, and
\* each cache sees RLAST on the last beat it asked for and on no other.
ReadsBack ==
    BVALID(r) => LET c == rd[grant_r]
                 IN  /\ r[1].last <=> c.got = c.req.len - 1
                     /\ grant_r = 1 /\ ~c.req.uncached => r[1].val = <<dc.line>>

\* Every access to the memory ends, however often the other cache asks: a write
\* is answered, and a read gets the bus and then all its beats.
AccessesEnd ==
    /\ dc.busy ~> ~dc.busy
    /\ \A i \in Caches : /\ ARVALID(i) ~> ~ARVALID(i)
                         /\ rd[i].busy /\ ~ARVALID(i) ~> ~rd[i].busy \/ ARVALID(i)
=============================================================================
