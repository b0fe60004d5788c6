--------------------------- MODULE CrossbarProofs ---------------------------
(***************************************************************************)
(* The memory port of Crossbar, for every even length of a line, every     *)
(* content of it and every set of aligned uncached stores: the fabric      *)
(* neither loses nor repeats a beat, no assertion of clk_rising fails, and *)
(* the D$ reads back what it wrote.                                        *)
(***************************************************************************)
EXTENDS Crossbar, TLAPS

\* The registers of a cache that reads nothing, or that reads something.
Reader(c, i) ==
    \/ c = NotReading
    \/ c \in [busy : {TRUE}, ARVALID : BOOLEAN, req : Reads(i), got : Nat]

\* ... and of one that starts a read, or none.
Fresh(c, i) ==
    \/ c = NotReading
    \/ \E q \in Reads(i) : c = [busy |-> TRUE, ARVALID |-> TRUE, req |-> q, got |-> 0]

\* The registers of the cache that has the bus.
cur == rd[grant_r]

ReadTyped ==
    /\ grant_r \in Caches
    /\ \A i \in Caches : Reader(rd[i], i)
    /\ pending_r \in [Caches -> BOOLEAN]

\* A cache without the bus has sent nothing.  The bus is held from the request
\* to the last beat.
Arbiter ==
    /\ ~pending_r[other(grant_r)]
    /\ rd[other(grant_r)].busy => rd[other(grant_r)].ARVALID
    /\ pending_r[grant_r] => cur.busy
    /\ cur.busy /\ ~cur.ARVALID => pending_r[grant_r]
    /\ \A i \in Caches : rd[i].ARVALID => rd[i].got = 0

\* What the D$ gets of a line is the line.
OfLine(x) == grant_r = 1 /\ ~cur.req.uncached => x = <<dc.line>>

\* Beat k of the read is in the slice of the R channel.
Beat(k) ==
    /\ r = <<r[1]>> /\ r[1].by = grant_r
    /\ r[1].last <=> k = cur.req.len - 1
    /\ OfLine(r[1].val)

\* The read is in the slice of the AR channel; it is at the memory; its last
\* beat is on its way; there is none.
Sent == ar = <<cur.req>> /\ r = Empty /\ wait_req_r = NoRead /\ cur.got = 0

Served ==
    /\ ar = Empty
    /\ wait_req_r.req = cur.req /\ wait_req_r.offset \in 0 .. cur.req.len - 1
    /\ wait_req_r = [req |-> wait_req_r.req, offset |-> wait_req_r.offset, data |-> wait_req_r.data]
    /\ \A k \in 0 .. cur.req.len - 1 : OfLine(wait_req_r.data[k])
    /\ \/ r = Empty /\ cur.got = wait_req_r.offset
       \/ Beat(wait_req_r.offset - 1) /\ cur.got = wait_req_r.offset - 1

Ending == ar = Empty /\ wait_req_r = NoRead /\ Beat(cur.req.len - 1) /\ cur.got = cur.req.len - 1

Quiet == ar = Empty /\ r = Empty /\ wait_req_r = NoRead

Reading == IF cur.busy /\ ~cur.ARVALID THEN Sent \/ Served \/ Ending ELSE Quiet

\* What clk_falling drove goes with what is in flight.
ReadSignals ==
    /\ r_valid \in BOOLEAN /\ ar_ready \in BOOLEAN
    /\ r_valid = wait_resp_r
    /\ wait_resp_r => wait_req_r.req # nullptr
    /\ ar_ready => ar # Empty /\ wait_req_r.req = nullptr

ReadInv == ReadTyped /\ Arbiter /\ Reading /\ ReadSignals

\* The beats of a line are numbered.
LEMMA BeatsWhole == Beats \subseteq Int
  BY LineEven DEF Beats

-----------------------------------------------------------------------------
\* The requests of a cache for a read.
LEMMA ReadFacts ==
    ASSUME NEW i \in Caches, NEW q \in Reads(i)
    PROVE  /\ q # nullptr /\ q.by = i /\ q.len \in Nat \ {0}
           /\ q.mmio \in BOOLEAN /\ q.uncached \in BOOLEAN
           /\ i = 1 /\ ~q.uncached => q.len = Line /\ q.size = 2
  <1>1. Line \in Nat \ {0} /\ Line \div 2 \in Nat \ {0} /\ nullptr.len = 0
    BY LineEven DEF nullptr
  <1>2. CASE q = LineReq(i)
    BY <1>1, <1>2 DEF LineReq, Caches
  <1>3. CASE q \in {UncachedRead(i, mmio) : mmio \in BOOLEAN}
    <2>1. PICK mmio \in BOOLEAN : q = UncachedRead(i, mmio)
      BY <1>3
    <2>2. /\ q.by = i /\ q.len = 1 /\ q.mmio = mmio /\ q.uncached = TRUE
      BY <2>1 DEF UncachedRead
    <2>3. q # nullptr /\ 1 \in Nat \ {0}
      BY <1>1, <2>2
    <2> QED
      BY <2>2, <2>3, Zenon
  <1> QED
    BY <1>2, <1>3 DEF Reads

\* The registers of a cache, field by field.
LEMMA ReaderFacts ==
    ASSUME NEW i \in Caches, NEW c, Reader(c, i)
    PROVE  /\ c.busy \in BOOLEAN /\ c.ARVALID \in BOOLEAN /\ c.got \in Nat
           /\ c.ARVALID => c.busy
           /\ c.busy => c.req \in Reads(i)
           /\ ~c.busy => c = NotReading
           /\ c = [busy |-> c.busy, ARVALID |-> c.ARVALID, req |-> c.req, got |-> c.got]
  <1>1. CASE c = NotReading
    BY <1>1 DEF NotReading
  <1>2. CASE c \in [busy : {TRUE}, ARVALID : BOOLEAN, req : Reads(i), got : Nat]
    BY <1>2, Zenon
  <1> QED
    BY <1>1, <1>2, Zenon DEF Reader

\* A cache that starts a read has asked for nothing yet.
LEMMA FreshFacts ==
    ASSUME NEW i \in Caches, NEW c, Fresh(c, i)
    PROVE  /\ Reader(c, i) /\ (c.busy => c.ARVALID) /\ c.got = 0
           /\ c.busy \in BOOLEAN /\ c.ARVALID \in BOOLEAN /\ (c.ARVALID => c.busy)
  <1>1. CASE c = NotReading
    BY <1>1 DEF NotReading, Reader
  <1>2. CASE c # NotReading
    <2>1. PICK q \in Reads(i) : c = [busy |-> TRUE, ARVALID |-> TRUE, req |-> q, got |-> 0]
      BY <1>2 DEF Fresh
    <2> QED
      BY <2>1 DEF Reader
  <1> QED
    BY <1>1, <1>2

\* The other cache.
LEMMA OtherFacts ==
    ASSUME NEW i \in Caches
    PROVE  /\ other(i) \in Caches /\ other(i) # i /\ other(other(i)) = i
           /\ \A j \in Caches : j # i => j = other(i)
  BY DEF Caches, other

\* What the caches may ask for.
Asks(want) == \A i \in Caches : want[i] = nullptr \/ want[i] \in Reads(i)

\* A cache that has nothing in flight, or gets its last beat, may start a read.
LEMMA Starts ==
    ASSUME NEW want, Asks(want), NEW i \in Caches, ~rd[i].busy \/ hds_axi_R_last(i)
    PROVE  Fresh(rd_nxt(i, want[i]), i)
  BY Zenon DEF Asks, rd_nxt, Fresh

\* The cache without the bus keeps its request, or may make one.
LEMMA OtherMoves ==
    ASSUME ReadTyped, Arbiter, NEW want, Asks(want), NEW arready, NEW rvalid, NEW beat,
           ReadEdge(want, arready, rvalid, beat), NEW o, o = other(grant_r)
    PROVE  IF rd[o].busy THEN rd'[o] = rd[o] ELSE Fresh(rd'[o], o)
  <1>1. o \in Caches /\ o # grant_r
    BY OtherFacts DEF ReadTyped
  <1>2. rd'[o] = rd_nxt(o, want[o])
    BY <1>1 DEF ReadEdge
  <1>3. CASE ~rd[o].busy
    BY <1>1, <1>2, <1>3, Starts
  <1>4. CASE rd[o].busy
    <2>1. ~hds_axi_R_last(o) /\ ~(grant_r = o /\ push_ar) /\ ~(grant_r = o /\ pop_r)
      BY <1>1 DEF hds_axi_R_last
    <2>2. rd'[o] = [rd[o] EXCEPT !.ARVALID = @ /\ TRUE, !.got = @]
      BY <1>2, <1>4, <2>1, Zenon DEF rd_nxt
    <2>3. /\ rd[o].ARVALID \in BOOLEAN
          /\ rd[o] = [busy |-> rd[o].busy, ARVALID |-> rd[o].ARVALID, req |-> rd[o].req, got |-> rd[o].got]
      BY <1>1, ReaderFacts, Zenon DEF ReadTyped
    <2> QED
      BY <1>4, <2>2, <2>3, Zenon
  <1> QED
    BY <1>3, <1>4

\* What clk_falling drives goes with what it found.
LEMMA ReadSignalsNext ==
    ASSUME NEW want, NEW accept \in BOOLEAN, NEW done, Read(want, accept, done)
    PROVE  ReadSignals'
  BY Zenon DEF Read, ReadSignals

\* The cache with the bus goes on with its read,
LEMMA GrantedKeeps ==
    ASSUME ReadTyped, NEW want, NEW arready, NEW rvalid, NEW beat, ReadEdge(want, arready, rvalid, beat),
           cur.busy, ~hds_axi_R_last(grant_r)
    PROVE  rd'[grant_r] = [busy |-> TRUE, ARVALID |-> cur.ARVALID /\ ~push_ar, req |-> cur.req,
                           got |-> IF pop_r THEN cur.got + 1 ELSE cur.got]
  <1>1. grant_r \in Caches /\ rd'[grant_r] = rd_nxt(grant_r, want[grant_r])
    BY DEF ReadTyped, ReadEdge
  <1>2. rd'[grant_r] = [cur EXCEPT !.ARVALID = @ /\ ~(grant_r = grant_r /\ push_ar),
                                   !.got = IF grant_r = grant_r /\ pop_r THEN @ + 1 ELSE @]
    BY <1>1, Zenon DEF rd_nxt, cur
  <1>3. cur = [busy |-> cur.busy, ARVALID |-> cur.ARVALID, req |-> cur.req, got |-> cur.got]
    BY <1>1, ReaderFacts, Zenon DEF ReadTyped, cur
  <1>4. cur.busy = TRUE
    BY <1>1, ReaderFacts, Zenon DEF ReadTyped, cur
  <1> DEFINE a == cur.ARVALID /\ ~push_ar
             n == IF pop_r THEN cur.got + 1 ELSE cur.got
  <1>5. rd'[grant_r] = [cur EXCEPT !.ARVALID = a, !.got = n]
    BY <1>2, Zenon
  <1> HIDE DEF a, n
  <1>6. rd'[grant_r] = [busy |-> cur.busy, ARVALID |-> a, req |-> cur.req, got |-> n]
    BY <1>3, <1>5, Zenon
  <1> QED
    BY <1>4, <1>6, Zenon DEF a, n

\* ... or may start one.
LEMMA GrantedStarts ==
    ASSUME ReadTyped, NEW want, Asks(want), NEW arready, NEW rvalid, NEW beat, ReadEdge(want, arready, rvalid, beat),
           ~cur.busy \/ hds_axi_R_last(grant_r)
    PROVE  Fresh(rd'[grant_r], grant_r)
  BY Starts DEF ReadTyped, ReadEdge, cur

\* The invariant when the bus changes hands: the new holder has sent nothing.
LEMMA ChangesHands ==
    ASSUME ReadTyped, NEW o, o = other(grant_r), grant_r' = o, Fresh(rd'[grant_r], grant_r),
           Reader(rd'[o], o), rd'[o].busy => rd'[o].ARVALID, rd'[o].ARVALID => rd'[o].got = 0,
           pending_r' \in [Caches -> BOOLEAN], ~pending_r'[grant_r], pending_r'[o] => rd'[o].busy, Quiet'
    PROVE  ReadTyped' /\ Arbiter' /\ Reading'
  <1>1. /\ o \in Caches /\ grant_r \in Caches /\ other(o) = grant_r
        /\ \A j \in Caches : j = o \/ j = grant_r
    BY OtherFacts DEF ReadTyped
  <1>2. /\ Reader(rd'[grant_r], grant_r) /\ (rd'[grant_r].busy => rd'[grant_r].ARVALID) /\ rd'[grant_r].got = 0
    BY <1>1, FreshFacts
  <1>3. ReadTyped'
    BY <1>1, <1>2 DEF ReadTyped
  <1>4. \A i \in Caches : rd'[i].ARVALID => rd'[i].got = 0
    BY <1>1, <1>2
  <1>5. other(grant_r)' = grant_r /\ cur' = rd'[o]
    BY <1>1 DEF other, cur
  <1>6. Arbiter'
    BY <1>1, <1>2, <1>4, <1>5 DEF Arbiter, other, cur
  <1>7. Reading'
    BY <1>5 DEF Reading
  <1> QED
    BY <1>3, <1>6, <1>7

\* ... and when the holder keeps it.
LEMMA KeepsBus ==
    ASSUME ReadTyped, NEW o, o = other(grant_r), grant_r' = grant_r, Reader(rd'[grant_r], grant_r),
           Reader(rd'[o], o), rd'[o].busy => rd'[o].ARVALID,
           \A i \in Caches : rd'[i].ARVALID => rd'[i].got = 0,
           pending_r' \in [Caches -> BOOLEAN], ~pending_r'[o],
           pending_r'[grant_r] => rd'[grant_r].busy,
           rd'[grant_r].busy /\ ~rd'[grant_r].ARVALID => pending_r'[grant_r]
    PROVE  ReadTyped' /\ Arbiter'
  <1>1. /\ o \in Caches /\ grant_r \in Caches
        /\ \A j \in Caches : j = o \/ j = grant_r
    BY OtherFacts DEF ReadTyped
  <1>2. other(grant_r)' = o /\ cur' = rd'[grant_r]
    BY DEF other, cur
  <1>3. ReadTyped'
    BY <1>1 DEF ReadTyped
  <1>4. Arbiter'
    BY <1>2 DEF Arbiter
  <1> QED
    BY <1>3, <1>4

\* The registers of the cache without the bus after an edge.
LEMMA OtherNext ==
    ASSUME ReadTyped, Arbiter, NEW want, Asks(want), NEW arready, NEW rvalid, NEW beat,
           ReadEdge(want, arready, rvalid, beat), NEW o, o = other(grant_r)
    PROVE  /\ Reader(rd'[o], o) /\ (rd'[o].busy => rd'[o].ARVALID) /\ (rd'[o].ARVALID => rd'[o].got = 0)
           /\ ~rd[o].busy => Fresh(rd'[o], o)
           /\ rd[o].busy => rd'[o] = rd[o]
  <1>1. o \in Caches
    BY OtherFacts DEF ReadTyped
  <1>2. CASE rd[o].busy
    <2>1. rd'[o] = rd[o]
      BY <1>2, OtherMoves
    <2> QED
      BY <1>1, <1>2, <2>1 DEF ReadTyped, Arbiter
  <1>3. CASE ~rd[o].busy
    <2>1. Fresh(rd'[o], o)
      BY <1>3, OtherMoves
    <2> QED
      BY <1>1, <1>3, <2>1, FreshFacts
  <1> QED
    BY <1>2, <1>3

\* The pending flags after an edge.
LEMMA PendingNext ==
    ASSUME NEW want, NEW arready, NEW rvalid, NEW beat, ReadEdge(want, arready, rvalid, beat)
    PROVE  /\ pending_r' \in [Caches -> BOOLEAN]
           /\ \A i \in Caches : pending_r'[i] = (r_pending_set(i) \/ (pending_r[i] /\ ~r_pending_clr(i)))
  BY Zenon DEF ReadEdge

\* No read in flight: the other cache may take the bus.
LEMMA BusFree ==
    ASSUME ReadInv, NEW want, Asks(want), NEW accept \in BOOLEAN, NEW done, Read(want, accept, done), ~cur.busy
    PROVE  ReadTyped' /\ Arbiter' /\ Reading'
  <1> DEFINE o == other(grant_r)
  <1> USE DEF ReadInv
  <1>1. ReadEdge(want, ar_ready, r_valid, rdata) /\ wait_req_r' = RisenRead
    BY DEF Read
  <1>2. grant_r \in Caches /\ o \in Caches /\ o # grant_r /\ other(o) = grant_r
    BY OtherFacts DEF ReadTyped
  <1>3. /\ rd[o].ARVALID \in BOOLEAN /\ rd[o].busy \in BOOLEAN /\ (rd[o].ARVALID => rd[o].busy) /\ ~cur.ARVALID
        /\ (rd[o].busy => rd[o].ARVALID)
    BY <1>2, ReaderFacts, Zenon DEF ReadTyped, Arbiter, cur
  <1>4. ar = Empty /\ r = Empty /\ wait_req_r = NoRead
    BY DEF Reading, Quiet
  <1>5. ~push_ar /\ ~pop_r /\ ~pending_r[grant_r] /\ ~pending_r[o]
    BY <1>3, <1>4, Zenon DEF push_ar, pop_r, BVALID, Arbiter, ARVALID, cur
  <1>6. NoRead.req = nullptr
    BY DEF NoRead
  <1>7. r_valid = FALSE /\ ar_ready = FALSE
    BY <1>4, <1>6 DEF ReadSignals
  <1>8. Quiet'
    <2>1. ar' = Empty /\ r' = Empty
      BY <1>1, <1>4, <1>5, <1>7 DEF ReadEdge, HdsNext, BVALID
    <2>2. wait_req_r' = NoRead
      BY <1>1, <1>4, <1>7 DEF RisenRead, raddr_fire, rdata_fire
    <2> QED
      BY <2>1, <2>2 DEF Quiet
  <1>9. Fresh(rd'[grant_r], grant_r)
    BY <1>1, GrantedStarts
  <1>10. /\ Reader(rd'[o], o) /\ (rd'[o].busy => rd'[o].ARVALID) /\ (rd'[o].ARVALID => rd'[o].got = 0)
         /\ rd[o].busy => rd'[o] = rd[o]
    BY <1>1, OtherNext
  <1>11. /\ pending_r' \in [Caches -> BOOLEAN]
         /\ ~pending_r'[grant_r] /\ (pending_r'[o] <=> rd[o].ARVALID)
    <2>1. ~r_pending_set(grant_r) /\ (r_pending_set(o) <=> rd[o].ARVALID)
      BY <1>2, <1>3, <1>5, Zenon DEF r_pending_set, ARVALID, cur
    <2> QED
      BY <1>1, <1>2, <1>5, <2>1, PendingNext, Zenon
  <1>12. grant_r' = IF rd[o].ARVALID THEN o ELSE grant_r
    BY <1>1, <1>3, <1>5, Zenon DEF ReadEdge, r_grant_nxt, ARVALID, cur
  <1>13. CASE rd[o].ARVALID
    <2>1. rd'[o].busy
      BY <1>3, <1>10, <1>13
    <2> HIDE DEF o
    <2> QED
      BY <1>8, <1>9, <1>10, <1>11, <1>12, <1>13, <2>1, ChangesHands DEF o
  <1>14. CASE ~rd[o].ARVALID
    <2>1. /\ Reader(rd'[grant_r], grant_r) /\ (rd'[grant_r].busy => rd'[grant_r].ARVALID)
          /\ (rd'[grant_r].ARVALID => rd'[grant_r].got = 0)
      BY <1>2, <1>9, FreshFacts
    <2>2. \A i \in Caches : rd'[i].ARVALID => rd'[i].got = 0
      BY <1>2, <1>10, <2>1, OtherFacts
    <2>3. ReadTyped' /\ Arbiter'
      BY <1>10, <1>11, <1>12, <1>14, <2>1, <2>2, KeepsBus
    <2>4. Reading'
      BY <1>8, <1>12, <1>14, <2>1 DEF Reading, cur
    <2> QED
      BY <2>3, <2>4
  <1> QED
    BY <1>13, <1>14

\* The holder of the bus waits for something: the bus stays with it, and the
\* other cache with its request.
LEMMA BusHeld ==
    ASSUME ReadInv, NEW want, Asks(want), NEW accept \in BOOLEAN, NEW done, Read(want, accept, done),
           cur.busy, ~hds_axi_R_last(grant_r)
    PROVE  /\ ReadTyped' /\ Arbiter' /\ grant_r' = grant_r
           /\ cur' = [busy |-> TRUE, ARVALID |-> cur.ARVALID /\ ~push_ar, req |-> cur.req,
                      got |-> IF pop_r THEN cur.got + 1 ELSE cur.got]
  <1> DEFINE o == other(grant_r)
  <1> USE DEF ReadInv
  <1>1. ReadEdge(want, ar_ready, r_valid, rdata)
    BY DEF Read
  <1>2. grant_r \in Caches /\ o \in Caches /\ o # grant_r
    BY OtherFacts DEF ReadTyped
  <1>3. /\ cur.ARVALID \in BOOLEAN /\ cur.req \in Reads(grant_r) /\ cur.got \in Nat
        /\ (cur.ARVALID => cur.got = 0)
    BY <1>2, ReaderFacts, Zenon DEF ReadTyped, Arbiter, cur
  <1>4. cur.ARVALID \/ pending_r[grant_r]
    BY DEF Arbiter
  <1>5. grant_r' = grant_r
    BY <1>1, <1>4, Zenon DEF ReadEdge, r_grant_nxt, r_pending_clr, ARVALID, cur
  <1>6. pending_r' \in [Caches -> BOOLEAN] /\ pending_r'[grant_r] /\ ~pending_r'[o]
    <2>1. r_pending_set(grant_r) \/ (pending_r[grant_r] /\ ~r_pending_clr(grant_r))
      BY <1>4 DEF r_pending_set, r_pending_clr, ARVALID, cur
    <2>2. ~r_pending_set(o) /\ ~pending_r[o]
      BY <1>2, <1>4 DEF r_pending_set, ARVALID, cur, Arbiter
    <2> QED
      BY <1>1, <1>2, <2>1, <2>2, PendingNext, Zenon
  <1>7. rd'[grant_r] = [busy |-> TRUE, ARVALID |-> cur.ARVALID /\ ~push_ar, req |-> cur.req,
                        got |-> IF pop_r THEN cur.got + 1 ELSE cur.got]
    BY <1>1, GrantedKeeps, Zenon
  <1>8. /\ Reader(rd'[o], o) /\ (rd'[o].busy => rd'[o].ARVALID) /\ (rd'[o].ARVALID => rd'[o].got = 0)
    BY <1>1, OtherNext
  <1>9. cur.ARVALID => ~pop_r
    BY DEF Reading, Quiet, pop_r, BVALID
  <1>10. Reader(rd'[grant_r], grant_r) /\ rd'[grant_r].busy /\ (rd'[grant_r].ARVALID => rd'[grant_r].got = 0)
    <2> DEFINE a == cur.ARVALID /\ ~push_ar
               n == IF pop_r THEN cur.got + 1 ELSE cur.got
    <2>1. a \in BOOLEAN /\ n \in Nat /\ (a => n = 0)
      BY <1>3, <1>9
    <2>2. rd'[grant_r] = [busy |-> TRUE, ARVALID |-> a, req |-> cur.req, got |-> n]
      BY <1>7
    <2> HIDE DEF a, n
    <2> QED
      BY <1>3, <2>1, <2>2 DEF Reader
  <1>11. \A i \in Caches : rd'[i].ARVALID => rd'[i].got = 0
    BY <1>2, <1>8, <1>10, OtherFacts
  <1>12. ReadTyped' /\ Arbiter'
    BY <1>5, <1>6, <1>8, <1>10, <1>11, KeepsBus
  <1> QED
    BY <1>5, <1>7, <1>12 DEF cur

\* The request of the holder goes into the slice of the AR channel.
LEMMA RequestSent ==
    ASSUME ReadInv, NEW want, Asks(want), NEW accept \in BOOLEAN, NEW done, Read(want, accept, done),
           cur.busy, cur.ARVALID
    PROVE  ReadTyped' /\ Arbiter' /\ Reading'
  <1> USE DEF ReadInv
  <1>1. ReadEdge(want, ar_ready, r_valid, rdata) /\ wait_req_r' = RisenRead
    BY DEF Read
  <1>2. ar = Empty /\ r = Empty /\ wait_req_r = NoRead
    BY DEF Reading, Quiet
  <1>3. NoRead.req = nullptr
    BY DEF NoRead
  <1>4. r_valid = FALSE /\ ar_ready = FALSE
    BY <1>2, <1>3 DEF ReadSignals
  <1>5. push_ar /\ ~pop_r /\ ~hds_axi_R_last(grant_r)
    BY <1>2 DEF push_ar, pop_r, BVALID, AREADY, ARVALID, cur, hds_axi_R_last
  <1>6. /\ ReadTyped' /\ Arbiter' /\ grant_r' = grant_r
        /\ cur' = [busy |-> TRUE, ARVALID |-> cur.ARVALID /\ ~push_ar, req |-> cur.req,
                   got |-> IF pop_r THEN cur.got + 1 ELSE cur.got]
    BY <1>5, BusHeld
  <1>7. cur'.busy /\ ~cur'.ARVALID /\ cur'.req = cur.req /\ cur'.got = cur.got
    BY <1>5, <1>6, Zenon
  <1>8. cur.got = 0
    BY DEF Arbiter, ReadTyped, cur
  <1>9. ar' = <<cur.req>> /\ r' = Empty
    BY <1>1, <1>2, <1>4, <1>5 DEF ReadEdge, HdsNext, BVALID, cur
  <1>10. wait_req_r' = NoRead
    BY <1>1, <1>2, <1>4 DEF RisenRead, raddr_fire, rdata_fire
  <1>11. Sent'
    BY <1>7, <1>8, <1>9, <1>10 DEF Sent
  <1> QED
    BY <1>6, <1>7, <1>11 DEF Reading

\* The line of the D$ and the memory while the D$ reads.
LineRead ==
    rd[1].busy => /\ dc'.line = dc.line
                  /\ ~rd[1].req.uncached => \A k \in Beats : mem[k] = dc.line

\* The data of a read of the D$ is its line.
LEMMA DataRead ==
    ASSUME ReadTyped, cur.busy, LineRead, NEW k \in 0 .. cur.req.len - 1
    PROVE  OfLine(axi_read_data(cur.req)[k])
  <1> SUFFICES ASSUME grant_r = 1, ~cur.req.uncached
               PROVE  axi_read_data(cur.req)[k] = <<dc.line>>
    BY DEF OfLine
  <1>1. cur.req \in Reads(1)
    BY ReaderFacts DEF ReadTyped, cur, Caches
  <1>2. cur.req.len = Line /\ cur.req.size = 2
    BY <1>1, ReadFacts DEF Caches
  <1>3. k \in Beats /\ mem[k] = dc.line
    BY <1>2 DEF Beats, LineRead, cur
  <1> QED
    BY <1>2, <1>3 DEF axi_read_data

\* What is the line stays the line.
LEMMA LineStays ==
    ASSUME ReadTyped, cur.busy, LineRead, grant_r' = grant_r, cur'.req = cur.req, NEW x, OfLine(x)
    PROVE  grant_r' = 1 /\ ~cur'.req.uncached => x = <<dc'.line>>
  BY DEF OfLine, LineRead, cur, ReadTyped

\* A read in the slice of the AR channel reaches the memory.
LEMMA ReachesMemory ==
    ASSUME ReadInv, NEW want, Asks(want), NEW accept \in BOOLEAN, NEW done, Read(want, accept, done), LineRead,
           cur.busy, ~cur.ARVALID, Sent
    PROVE  ReadTyped' /\ Arbiter' /\ Reading'
  <1> USE DEF ReadInv
  <1>1. ReadEdge(want, ar_ready, r_valid, rdata) /\ wait_req_r' = RisenRead
    BY DEF Read
  <1>2. ar = <<cur.req>> /\ ar[1] = cur.req /\ ar # Empty /\ r = Empty /\ wait_req_r = NoRead /\ cur.got = 0
    BY DEF Sent, Empty
  <1>3. NoRead.req = nullptr
    BY DEF NoRead
  <1>4. r_valid = FALSE
    BY <1>2, <1>3 DEF ReadSignals
  <1>5. ~push_ar /\ ~pop_r /\ ~hds_axi_R_last(grant_r)
    BY <1>2, Zenon DEF push_ar, pop_r, BVALID, ARVALID, cur, hds_axi_R_last
  <1>6. /\ ReadTyped' /\ Arbiter' /\ grant_r' = grant_r
        /\ cur' = [busy |-> TRUE, ARVALID |-> cur.ARVALID /\ ~push_ar, req |-> cur.req,
                   got |-> IF pop_r THEN cur.got + 1 ELSE cur.got]
    BY <1>5, BusHeld
  <1>7. cur'.busy /\ ~cur'.ARVALID /\ cur'.req = cur.req /\ cur'.got = 0
    BY <1>2, <1>5, <1>6, Zenon
  <1>8. r' = Empty
    BY <1>1, <1>2, <1>4, <1>5 DEF ReadEdge, HdsNext
  <1>9. CASE ar_ready
    <2>1. ar' = Empty
      BY <1>1, <1>2, <1>5, <1>9 DEF ReadEdge, HdsNext, BVALID
    <2>2. wait_req_r' = [req |-> cur.req, offset |-> 0, data |-> axi_read_data(cur.req)]
      BY <1>1, <1>2, <1>9 DEF RisenRead, raddr_fire, BVALID
    <2>3. cur.req.len \in Nat \ {0}
      BY ReaderFacts, ReadFacts DEF ReadTyped, cur
    <2> DEFINE d == axi_read_data(cur.req)
    <2>4. \A k \in 0 .. cur.req.len - 1 : grant_r' = 1 /\ ~cur'.req.uncached => d[k] = <<dc'.line>>
      <3> TAKE k \in 0 .. cur.req.len - 1
      <3>1. OfLine(d[k])
        BY DataRead
      <3> HIDE DEF d
      <3> QED
        BY <1>6, <1>7, <3>1, LineStays
    <2> HIDE DEF d
    <2>5. wait_req_r' = [req |-> cur.req, offset |-> 0, data |-> d]
      BY <2>2 DEF d
    <2>6. Served'
      BY <1>6, <1>7, <1>8, <2>1, <2>3, <2>4, <2>5 DEF Served, OfLine
    <2> QED
      BY <1>6, <1>7, <2>6 DEF Reading
  <1>10. CASE ~ar_ready
    <2>1. ar' = ar
      BY <1>1, <1>2, <1>5, <1>10 DEF ReadEdge, HdsNext, BVALID
    <2>2. wait_req_r' = NoRead
      BY <1>1, <1>2, <1>4, <1>10 DEF RisenRead, raddr_fire, rdata_fire
    <2>3. Sent'
      BY <1>2, <1>7, <1>8, <2>1, <2>2 DEF Sent
    <2> QED
      BY <1>6, <1>7, <2>3 DEF Reading
  <1> QED
    BY <1>9, <1>10 DEF ReadSignals

\* A read at the memory: no beat is in the slice of the R channel.
LEMMA GivesBeat ==
    ASSUME ReadInv, NEW want, Asks(want), NEW accept \in BOOLEAN, NEW done, Read(want, accept, done), LineRead,
           cur.busy, ~cur.ARVALID, Served, r = Empty
    PROVE  ReadTyped' /\ Arbiter' /\ Reading'
  <1> USE DEF ReadInv
  <1>1. ReadEdge(want, ar_ready, r_valid, rdata) /\ wait_req_r' = RisenRead
    BY DEF Read
  <1>2. grant_r \in Caches /\ cur.req \in Reads(grant_r) /\ cur.req.len \in Nat \ {0} /\ cur.req.by = grant_r
    BY ReaderFacts, ReadFacts DEF ReadTyped, cur
  <1>3. PICK l : l = cur.req.len
    OBVIOUS
  <1>4. PICK m : m = wait_req_r.offset
    OBVIOUS
  <1>5. PICK d : d = wait_req_r.data
    OBVIOUS
  <1>6. /\ ar = Empty /\ wait_req_r.req = cur.req /\ m \in 0 .. l - 1 /\ l \in Nat \ {0}
        /\ wait_req_r = [req |-> cur.req, offset |-> m, data |-> d]
        /\ \A k \in 0 .. l - 1 : OfLine(d[k])
    BY <1>2, <1>3, <1>4, <1>5, Zenon DEF Served
  <1>7. r # <<r[1]>>
    BY DEF Empty
  <1>8. cur.got = m
    BY <1>4, <1>7 DEF Served, Beat
  <1>9. ~push_ar /\ ~pop_r /\ ~hds_axi_R_last(grant_r)
    BY Zenon DEF push_ar, pop_r, BVALID, ARVALID, cur, hds_axi_R_last
  <1>10. /\ ReadTyped' /\ Arbiter' /\ grant_r' = grant_r
         /\ cur' = [busy |-> TRUE, ARVALID |-> cur.ARVALID /\ ~push_ar, req |-> cur.req,
                    got |-> IF pop_r THEN cur.got + 1 ELSE cur.got]
    BY <1>9, BusHeld
  <1>11. cur'.busy /\ ~cur'.ARVALID /\ cur'.req = cur.req /\ cur'.got = m
    BY <1>8, <1>9, <1>10, Zenon
  <1>12. ar' = Empty /\ ~raddr_fire
    BY <1>1, <1>6, <1>9 DEF ReadEdge, HdsNext, BVALID, raddr_fire
  <1>13. \A k \in 0 .. l - 1 : grant_r' = 1 /\ ~cur'.req.uncached => d[k] = <<dc'.line>>
    BY <1>6, <1>10, <1>11, LineStays
  <1>14. CASE r_valid
    <2>1. r' = <<rdata>> /\ rdata_fire
      BY <1>1, <1>14 DEF ReadEdge, HdsNext, AREADY, rdata_fire
    <2>2. rdata.by = grant_r /\ rdata.val = d[m] /\ (rdata.last <=> m = l - 1)
      BY <1>2, <1>3, <1>6, Zenon DEF rdata
    <2>3. r'[1] = rdata /\ r' = <<r'[1]>>
      BY <2>1
    <2>4. Beat(m)'
      BY <1>3, <1>6, <1>10, <1>11, <1>13, <2>2, <2>3 DEF Beat, OfLine
    <2>5. CASE m + 1 = l
      <3>1. wait_req_r' = NoRead
        BY <1>1, <1>3, <1>4, <1>6, <1>12, <2>1, <2>5 DEF RisenRead
      <3>2. m = cur'.req.len - 1
        BY <1>3, <1>6, <1>11, <2>5
      <3>3. Ending'
        BY <1>11, <1>12, <2>4, <3>1, <3>2 DEF Ending
      <3> QED
        BY <1>10, <1>11, <3>3 DEF Reading
    <2>6. CASE m + 1 # l
      <3>1. wait_req_r' = [wait_req_r EXCEPT !.offset = @ + 1]
        BY <1>1, <1>3, <1>4, <1>6, <1>12, <2>1, <2>6, Zenon DEF RisenRead
      <3>2. wait_req_r' = [req |-> cur.req, offset |-> m + 1, data |-> d]
        BY <1>4, <1>6, <3>1
      <3>3. PICK n \in 0 .. l - 1 : n = m + 1
        BY <1>6, <2>6
      <3>4. wait_req_r' = [req |-> cur.req, offset |-> n, data |-> d] /\ n - 1 = m
        BY <1>6, <3>2, <3>3
      <3>5. Beat(n - 1)'
        BY <2>4, <3>4
      <3>6. Served'
        BY <1>3, <1>10, <1>11, <1>12, <1>13, <3>4, <3>5 DEF Served, OfLine
      <3> QED
        BY <1>10, <1>11, <3>6 DEF Reading
    <2> QED
      BY <2>5, <2>6
  <1>15. CASE ~r_valid
    <2>1. r' = Empty /\ ~rdata_fire
      BY <1>1, <1>9, <1>15, Zenon DEF ReadEdge, HdsNext, rdata_fire
    <2>2. wait_req_r' = [req |-> cur.req, offset |-> m, data |-> d]
      BY <1>1, <1>6, <1>12, <2>1 DEF RisenRead
    <2>3. Served'
      BY <1>3, <1>6, <1>10, <1>11, <1>12, <1>13, <2>1, <2>2 DEF Served, OfLine
    <2> QED
      BY <1>10, <1>11, <2>3, SMTT(30) DEF Reading
  <1> QED
    BY <1>14, <1>15 DEF ReadSignals

\* A read at the memory: the cache takes the beat in the slice.
LEMMA TakesBeat ==
    ASSUME ReadInv, NEW want, Asks(want), NEW accept \in BOOLEAN, NEW done, Read(want, accept, done), LineRead,
           cur.busy, ~cur.ARVALID, Served, r # Empty
    PROVE  ReadTyped' /\ Arbiter' /\ Reading'
  <1> USE DEF ReadInv
  <1>1. ReadEdge(want, ar_ready, r_valid, rdata) /\ wait_req_r' = RisenRead
    BY DEF Read
  <1>2. grant_r \in Caches /\ cur.req \in Reads(grant_r) /\ cur.req.len \in Nat \ {0}
    BY ReaderFacts, ReadFacts DEF ReadTyped, cur
  <1>3. PICK l : l = cur.req.len
    OBVIOUS
  <1>4. PICK m : m = wait_req_r.offset
    OBVIOUS
  <1>5. PICK d : d = wait_req_r.data
    OBVIOUS
  <1>6. /\ ar = Empty /\ wait_req_r.req = cur.req /\ m \in 0 .. l - 1 /\ l \in Nat \ {0}
        /\ wait_req_r = [req |-> cur.req, offset |-> m, data |-> d]
        /\ \A k \in 0 .. l - 1 : OfLine(d[k])
    BY <1>2, <1>3, <1>4, <1>5, Zenon DEF Served
  <1>7. Beat(m - 1) /\ cur.got = m - 1
    BY <1>4 DEF Served
  <1>8. ~r[1].last
    BY <1>3, <1>6, <1>7 DEF Beat
  <1>9. ~push_ar /\ pop_r /\ ~hds_axi_R_last(grant_r)
    BY <1>8, Zenon DEF push_ar, pop_r, BVALID, ARVALID, cur, hds_axi_R_last
  <1>10. /\ ReadTyped' /\ Arbiter' /\ grant_r' = grant_r
         /\ cur' = [busy |-> TRUE, ARVALID |-> cur.ARVALID /\ ~push_ar, req |-> cur.req,
                    got |-> IF pop_r THEN cur.got + 1 ELSE cur.got]
    BY <1>9, BusHeld
  <1>11. cur'.busy /\ ~cur'.ARVALID /\ cur'.req = cur.req /\ cur'.got = m
    <2>1. cur'.got = (m - 1) + 1
      BY <1>7, <1>9, <1>10
    <2>2. (m - 1) + 1 = m
      BY <1>6
    <2>3. cur'.busy /\ ~cur'.ARVALID /\ cur'.req = cur.req
      BY <1>9, <1>10, Zenon
    <2> QED
      BY <2>1, <2>2, <2>3
  <1>12. ar' = Empty /\ ~raddr_fire
    BY <1>1, <1>6, <1>9 DEF ReadEdge, HdsNext, BVALID, raddr_fire
  <1>13. \A k \in 0 .. l - 1 : grant_r' = 1 /\ ~cur'.req.uncached => d[k] = <<dc'.line>>
    BY <1>6, <1>10, <1>11, LineStays
  <1>14. r' = Empty /\ ~rdata_fire
    BY <1>1, <1>9 DEF ReadEdge, HdsNext, rdata_fire, AREADY
  <1>15. wait_req_r' = [req |-> cur.req, offset |-> m, data |-> d]
    BY <1>1, <1>6, <1>12, <1>14 DEF RisenRead
  <1>16. Served'
    BY <1>3, <1>6, <1>10, <1>11, <1>12, <1>13, <1>14, <1>15 DEF Served, OfLine
  <1> QED
    BY <1>10, <1>11, <1>16 DEF Reading

\* The cache takes the last beat, and the bus changes hands.
LEMMA TakesLast ==
    ASSUME ReadInv, NEW want, Asks(want), NEW accept \in BOOLEAN, NEW done, Read(want, accept, done),
           cur.busy, ~cur.ARVALID, Ending
    PROVE  ReadTyped' /\ Arbiter' /\ Reading'
  <1> DEFINE o == other(grant_r)
  <1> USE DEF ReadInv
  <1>1. ReadEdge(want, ar_ready, r_valid, rdata) /\ wait_req_r' = RisenRead
    BY DEF Read
  <1>2. grant_r \in Caches /\ o \in Caches /\ o # grant_r
    BY OtherFacts DEF ReadTyped
  <1>3. ar = Empty /\ r # Empty /\ r[1].last /\ wait_req_r = NoRead
    <2>1. r = <<r[1]>> /\ r[1].last
      BY Zenon DEF Ending, Beat
    <2>2. r # Empty
      <3>1. Empty # <<r[1]>>
        BY DEF Empty
      <3> QED
        BY <2>1, <3>1, Zenon
    <2> QED
      BY <2>1, <2>2, Zenon DEF Ending
  <1>4. NoRead.req = nullptr
    BY DEF NoRead
  <1>5. r_valid = FALSE /\ ~raddr_fire
    BY <1>3, <1>4 DEF ReadSignals, raddr_fire, BVALID
  <1>6. ~push_ar /\ pop_r /\ hds_axi_R_last(grant_r)
    BY <1>3, Zenon DEF push_ar, pop_r, BVALID, ARVALID, cur, hds_axi_R_last
  <1>7. Quiet'
    <2>1. ar' = Empty /\ r' = Empty
      BY <1>1, <1>3, <1>5, <1>6 DEF ReadEdge, HdsNext, BVALID
    <2>2. wait_req_r' = NoRead
      BY <1>1, <1>3, <1>5 DEF RisenRead, rdata_fire
    <2> QED
      BY <2>1, <2>2 DEF Quiet
  <1>8. Fresh(rd'[grant_r], grant_r)
    BY <1>1, <1>6, GrantedStarts
  <1>9. Reader(rd'[o], o) /\ (rd'[o].busy => rd'[o].ARVALID) /\ (rd'[o].ARVALID => rd'[o].got = 0)
    BY <1>1, OtherNext
  <1>10. pending_r[grant_r] /\ ~pending_r[o]
    BY DEF Arbiter
  <1>11. pending_r' \in [Caches -> BOOLEAN] /\ ~pending_r'[grant_r] /\ ~pending_r'[o]
    <2>1. ~r_pending_set(grant_r) /\ ~r_pending_set(o) /\ r_pending_clr(grant_r)
      BY <1>2, <1>6, <1>10, Zenon DEF r_pending_set, ARVALID, cur, r_pending_clr
    <2> QED
      BY <1>1, <1>2, <1>10, <2>1, PendingNext, Zenon
  <1>12. grant_r' = o
    BY <1>1, <1>6, <1>10, Zenon DEF ReadEdge, r_grant_nxt, ARVALID, cur, r_pending_clr
  <1> HIDE DEF o
  <1> QED
    BY <1>7, <1>8, <1>9, <1>11, <1>12, ChangesHands DEF o

\* An Emu::clk keeps the read half.
LEMMA ReadNext ==
    ASSUME ReadInv, NEW want, Asks(want), NEW accept \in BOOLEAN, NEW done, Read(want, accept, done), LineRead
    PROVE  ReadInv'
  <1>1. ReadSignals'
    BY ReadSignalsNext
  <1>2. cur.busy /\ ~cur.ARVALID => Sent \/ Served \/ Ending
    BY DEF ReadInv, Reading
  <1>3. ReadTyped' /\ Arbiter' /\ Reading'
    BY <1>2, BusFree, RequestSent, ReachesMemory, GivesBeat, TakesBeat, TakesLast, Zenon
  <1> QED
    BY <1>1, <1>3 DEF ReadInv

-----------------------------------------------------------------------------
(* The write half.                                                          *)

\* The registers of the D$ for writing.
Writer(c) ==
    \/ c = NotWriting(c.line)
    \/ /\ c = [busy |-> TRUE, AWVALID |-> c.AWVALID, req |-> c.req, wleft |-> c.wleft, line |-> c.line]
       /\ c.AWVALID \in BOOLEAN /\ c.req \in Writes /\ c.wleft \in Nat

WriteTyped ==
    /\ grant_w \in Caches /\ pending_w \in [Caches -> BOOLEAN]
    /\ Writer(dc) /\ DOMAIN mem = Beats

\* The strobe of beat k of a write, and the beat in the slice of the W channel.
strobe(q, k) == IF q.uncached THEN axi_uncached_wstrb(q.lane, q.size) ELSE axi_align_be(k)
BeatOut(k) == w = <<[val |-> dc.line, strb |-> strobe(dc.req, k)]>>

\* The first n words of the line are in the memory, all of them while the
\* write is not one of the line.
Holds(n) == \A k \in Beats : k < n \/ dc.req.uncached => mem[k] = dc.line

NoResponse == wait_req_w = NoWrite /\ wait_resp_b = FALSE /\ dram_w = FALSE

\* A write that the D$ asks for; whose address and first beat are in the slices;
\* whose beats go to the memory; whose response is in the slice of the B channel.
Asking ==
    /\ dc.AWVALID /\ dc.wleft = dc.req.len
    /\ aw = Empty /\ w = Empty /\ b = Empty /\ NoResponse /\ Holds(0)

Asked ==
    /\ ~dc.AWVALID /\ dc.wleft = dc.req.len - 1
    /\ aw = <<dc.req>> /\ BeatOut(0) /\ b = Empty /\ NoResponse /\ Holds(0)
    /\ aw_ready = w_ready

Sending ==
    /\ ~dc.AWVALID /\ aw = Empty /\ b = Empty
    /\ wait_req_w = [req |-> dc.req, offset |-> wait_req_w.offset, resp_inflight |-> wait_req_w.resp_inflight]
    /\ wait_req_w.offset \in 1 .. dc.req.len /\ wait_req_w.resp_inflight \in BOOLEAN
    /\ \/ w = Empty /\ dc.wleft = dc.req.len - wait_req_w.offset
       \/ BeatOut(wait_req_w.offset) /\ dc.wleft = dc.req.len - wait_req_w.offset - 1
    /\ Holds(wait_req_w.offset)
    /\ wait_resp_b \/ wait_req_w.resp_inflight => wait_req_w.offset = dc.req.len
    /\ dram_w => wait_req_w.resp_inflight /\ ~wait_resp_b /\ ~dc.req.mmio

Answered ==
    /\ ~dc.AWVALID /\ dc.wleft = 0
    /\ aw = Empty /\ w = Empty /\ b # Empty /\ NoResponse /\ Holds(dc.req.len)

\* No write: the memory holds the line.
Written ==
    /\ aw = Empty /\ w = Empty /\ b = Empty /\ NoResponse
    /\ \A k \in Beats : mem[k] = dc.line

Writing == IF dc.busy THEN Asking \/ Asked \/ Sending \/ Answered ELSE Written

WriteSignals ==
    /\ aw_ready \in BOOLEAN /\ w_ready \in BOOLEAN
    /\ wait_resp_b \in BOOLEAN /\ dram_w \in BOOLEAN /\ b_valid = wait_resp_b
    /\ dc.busy /\ ~dc.AWVALID => grant_w = 1
    /\ ~pending_w[0]

WriteInv == WriteTyped /\ Writing /\ WriteSignals

-----------------------------------------------------------------------------
\* The writes of the D$.
LEMMA WriteFacts ==
    ASSUME NEW q \in Writes
    PROVE  /\ q # nullptr /\ q.len \in Nat \ {0}
           /\ q.mmio \in BOOLEAN /\ q.uncached \in BOOLEAN /\ (q.mmio => q.uncached)
           /\ ~q.uncached => q.len = Line /\ q.lane = 0 /\ q.size = 2
           /\ q.uncached => /\ q.len = 1 /\ q.lane \in 0 .. 7 /\ q.size \in 0 .. 2
                            /\ q.lane % (2 ^ q.size) = 0
  <1>1. CASE q = LineReq(1)
    <2>1. Line \in Nat \ {0} /\ nullptr.len = 0
      BY LineEven DEF nullptr
    <2> QED
      BY <1>1, <2>1 DEF LineReq
  <1>2. CASE q \in {UncachedWrite(a, mmio) : a \in Access, mmio \in BOOLEAN}
    <2>1. PICK a \in Access, mmio \in BOOLEAN : q = UncachedWrite(a, mmio)
      BY <1>2
    <2>2. a[1] \in 0 .. 7 /\ a[2] \in 0 .. 2 /\ a[1] % (2 ^ a[2]) = 0
      BY AccessAligned
    <2>3. /\ q.len = 1 /\ q.mmio = mmio /\ q.uncached = TRUE
          /\ q.lane = a[1] /\ q.size = a[2] /\ nullptr.len = 0
      BY <2>1 DEF UncachedWrite, nullptr
    <2>4. q # nullptr
      BY <2>3
    <2>5. q.lane \in 0 .. 7 /\ q.size \in 0 .. 2 /\ q.lane % (2 ^ q.size) = 0
      BY <2>2, <2>3, Zenon
    <2>6. q.mmio \in BOOLEAN /\ q.uncached \in BOOLEAN /\ q.uncached
      BY <2>3, Zenon
    <2>7. 1 \in Nat \ {0}
      OBVIOUS
    <2> QED
      BY <2>3, <2>4, <2>5, <2>6, <2>7, Zenon
  <1> QED
    BY <1>1, <1>2 DEF Writes

\* The halves of the bus that the words of a line use in turn.
LEMMA HalfOfBus ==
    ASSUME NEW n \in Nat
    PROVE  (0 + n * 2 ^ 2) % 8 = 4 * (n % 2)
  <1>1. 2 ^ 2 = 4
    OBVIOUS
  <1>2. n = 2 * (n \div 2) + (n % 2) /\ n \div 2 \in Nat /\ n % 2 \in 0 .. 1
    OBVIOUS
  <1>3. PICK h \in Nat : h = n \div 2
    BY <1>2
  <1>4. PICK e \in 0 .. 1 : e = n % 2
    BY <1>2
  <1>5. n * 4 = 8 * h + 4 * e
    BY <1>2, <1>3, <1>4
  <1>6. (8 * h + 4 * e) % 8 = 4 * e
    BY <1>3, <1>4
  <1> QED
    BY <1>1, <1>4, <1>5, <1>6

\* Every beat has the strobe that check_wstrb expects.
LEMMA StrobeExpected ==
    ASSUME NEW q \in Writes, NEW n \in 0 .. q.len - 1
    PROVE  strobe(q, n) = excp_wstrb((q.lane + n * 2 ^ q.size) % 8, q.size)
  <1>1. 2 ^ 0 = 1 /\ 2 ^ 1 = 2 /\ 2 ^ 2 = 4
    OBVIOUS
  <1>2. CASE ~q.uncached
    <2>1. q.lane = 0 /\ q.size = 2 /\ n \in Nat
      BY <1>2, WriteFacts
    <2>2. (q.lane + n * 2 ^ q.size) % 8 = 4 * (n % 2) /\ n % 2 \in 0 .. 1
      BY <2>1, HalfOfBus
    <2>3. PICK e \in 0 .. 1 : e = n % 2
      BY <2>2
    <2>4. axi_align_be(n) = {i \in 0 .. 7 : i \div 4 = e}
      BY <2>3 DEF axi_align_be
    <2>5. excp_wstrb(4 * e, 2) = {i \in 0 .. 7 : i >= 4 * e /\ i < 4 * e + 4}
      BY <1>1 DEF excp_wstrb
    <2>6. {i \in 0 .. 7 : i \div 4 = e} = {i \in 0 .. 7 : i >= 4 * e /\ i < 4 * e + 4}
      <3>1. \A i \in 0 .. 7 : i \div 4 = e <=> i >= 4 * e /\ i < 4 * e + 4
        BY <2>3
      <3> QED
        BY <3>1
    <2> QED
      BY <1>2, <2>1, <2>2, <2>3, <2>4, <2>5, <2>6 DEF strobe
  <1>3. CASE q.uncached
    <2>1. q.len = 1 /\ n = 0 /\ q.lane \in 0 .. 7 /\ q.size \in 0 .. 2 /\ q.lane % (2 ^ q.size) = 0
      BY <1>3, WriteFacts
    <2>2. PICK l \in 0 .. 7 : l = q.lane
      BY <2>1
    <2>3. PICK s \in 0 .. 2 : s = q.size
      BY <2>1
    <2>4. (q.lane + n * 2 ^ q.size) % 8 = l
      <3>1. 2 ^ s \in Int
        BY <1>1, <2>3
      <3>2. 0 * 2 ^ s = 0
        BY <3>1
      <3> QED
        BY <2>1, <2>2, <2>3, <3>2
    <2>5. strobe(q, n) = axi_uncached_wstrb(l, s)
      BY <1>3, <2>2, <2>3 DEF strobe
    <2>6. axi_uncached_wstrb(l, s) = excp_wstrb(l, s)
      <3>1. CASE s = 0
        <4>1. \A i \in 0 .. 7 : i = l <=> i >= l /\ i < l + 1
          BY <2>2
        <4> QED
          BY <1>1, <3>1, <4>1 DEF axi_uncached_wstrb, excp_wstrb
      <3>2. CASE s = 1
        <4>1. l % 2 = 0
          BY <1>1, <2>1, <2>2, <2>3, <3>2
        <4>2. \A i \in 0 .. 7 : i \div 2 = l \div 2 <=> i >= l /\ i < l + 2
          <5>1. l = 0 \/ l = 2 \/ l = 4 \/ l = 6
            BY <2>2, <4>1
          <5> QED
            BY <5>1
        <4> QED
          BY <1>1, <3>2, <4>2 DEF axi_uncached_wstrb, excp_wstrb
      <3>3. CASE s = 2
        <4>1. l % 4 = 0
          BY <1>1, <2>1, <2>2, <2>3, <3>3
        <4>2. \A i \in 0 .. 7 : i \div 4 = l \div 4 <=> i >= l /\ i < l + 4
          BY <2>2, <4>1
        <4> QED
          BY <1>1, <3>3, <4>2 DEF axi_uncached_wstrb, excp_wstrb
      <3> QED
        BY <2>3, <3>1, <3>2, <3>3
    <2> QED
      BY <2>3, <2>4, <2>5, <2>6
  <1> QED
    BY <1>2, <1>3, WriteFacts

\* The registers of the D$, field by field.
LEMMA WriterFacts ==
    ASSUME Writer(dc)
    PROVE  /\ dc.busy \in BOOLEAN /\ dc.AWVALID \in BOOLEAN /\ dc.wleft \in Nat
           /\ dc.busy => /\ dc.req \in Writes
                         /\ dc = [busy |-> TRUE, AWVALID |-> dc.AWVALID, req |-> dc.req, wleft |-> dc.wleft,
                                  line |-> dc.line]
           /\ ~dc.busy => /\ ~dc.AWVALID /\ dc.wleft = 0 /\ dc = NotWriting(dc.line)
  <1>1. CASE dc = NotWriting(dc.line)
    <2>1. dc.busy = FALSE /\ dc.AWVALID = FALSE /\ dc.wleft = 0 /\ 0 \in Nat
      BY <1>1 DEF NotWriting
    <2> QED
      BY <1>1, <2>1, Zenon
  <1>2. CASE dc # NotWriting(dc.line)
    <2>1. /\ dc = [busy |-> TRUE, AWVALID |-> dc.AWVALID, req |-> dc.req, wleft |-> dc.wleft, line |-> dc.line]
          /\ dc.AWVALID \in BOOLEAN /\ dc.req \in Writes /\ dc.wleft \in Nat
      BY <1>2, Zenon DEF Writer
    <2>2. dc.busy = TRUE
      BY <2>1
    <2> QED
      BY <2>1, <2>2, Zenon
  <1> QED
    BY <1>1, <1>2

\* The registers of the D$ while no response comes.
LEMMA DcKeeps ==
    ASSUME Writer(dc), dc.busy, ~pop_b, NEW want, NEW v
    PROVE  dc_nxt(want, v) = [busy |-> TRUE, AWVALID |-> dc.AWVALID /\ ~push_aw, req |-> dc.req,
                              wleft |-> IF push_w THEN dc.wleft - 1 ELSE dc.wleft, line |-> dc.line]
  <1> DEFINE a == dc.AWVALID /\ ~push_aw
             n == IF push_w THEN dc.wleft - 1 ELSE dc.wleft
  <1>1. dc_nxt(want, v) = [dc EXCEPT !.AWVALID = a, !.wleft = n]
    BY Zenon DEF dc_nxt
  <1>2. dc = [busy |-> TRUE, AWVALID |-> dc.AWVALID, req |-> dc.req, wleft |-> dc.wleft, line |-> dc.line]
    BY WriterFacts
  <1> HIDE DEF a, n
  <1>3. dc_nxt(want, v) = [busy |-> TRUE, AWVALID |-> a, req |-> dc.req, wleft |-> n, line |-> dc.line]
    BY <1>1, <1>2, Zenon
  <1> QED
    BY <1>3, Zenon DEF a, n

\* The bus is given to the D$ when it asks, and stays with it to the response.
LEMMA GrantNext ==
    ASSUME WriteInv, NEW want, NEW v, NEW awready, NEW wready, NEW bvalid,
           WriteEdge(want, v, awready, wready, bvalid)
    PROVE  /\ grant_w' \in Caches /\ pending_w' \in [Caches -> BOOLEAN] /\ ~pending_w'[0]
           /\ dc.AWVALID => grant_w' = 1
           /\ grant_w = 1 /\ ~pop_b => grant_w' = 1
  <1> USE DEF WriteInv
  <1>1. grant_w \in {0, 1} /\ ~pending_w[0] /\ other(0) = 1 /\ other(1) = 0
    BY DEF WriteTyped, WriteSignals, Caches, other
  <1>2. /\ pending_w' \in [Caches -> BOOLEAN]
        /\ pending_w'[0] = (w_pending_set(0) \/ (pending_w[0] /\ ~w_pending_clr(0)))
    BY Zenon DEF WriteEdge, Caches
  <1>3. ~AWVALID(0) /\ (AWVALID(1) <=> dc.AWVALID)
    BY DEF AWVALID
  <1>4. ~pending_w'[0]
    <2>1. ~w_pending_set(0)
      BY <1>3 DEF w_pending_set
    <2> QED
      BY <1>1, <1>2, <2>1, Zenon
  <1>5. grant_w' = w_grant_nxt
    BY DEF WriteEdge
  <1>6. grant_w' \in {0, 1}
    BY <1>1, <1>5 DEF w_grant_nxt
  <1>7. dc.AWVALID => grant_w' = 1
    BY <1>1, <1>3, <1>5 DEF w_grant_nxt
  <1>8. grant_w = 1 /\ ~pop_b => grant_w' = 1
    BY <1>1, <1>3, <1>5 DEF w_grant_nxt, w_pending_clr
  <1> QED
    BY <1>2, <1>4, <1>6, <1>7, <1>8 DEF Caches

\* What clk_falling drives.
LEMMA WriteSignalsNext ==
    ASSUME WriteInv, NEW want, NEW v, NEW accept1 \in BOOLEAN, NEW accept2 \in BOOLEAN, NEW done \in BOOLEAN,
           Write(want, v, accept1, accept2, done),
           dc'.busy /\ ~dc'.AWVALID => dc.AWVALID \/ (grant_w = 1 /\ ~pop_b)
    PROVE  WriteSignals'
  <1>1. WriteEdge(want, v, aw_ready, w_ready, b_valid)
    BY DEF Write
  <1>2. aw_ready' \in BOOLEAN /\ w_ready' \in BOOLEAN /\ wait_resp_b' \in BOOLEAN /\ dram_w' \in BOOLEAN /\ b_valid' = wait_resp_b'
    BY Zenon DEF Write, aw_w_ready
  <1>3. ~pending_w'[0] /\ (dc'.busy /\ ~dc'.AWVALID => grant_w' = 1)
    BY <1>1, GrantNext, Zenon
  <1> QED
    BY <1>2, <1>3 DEF WriteSignals

\* clk_rising and clk_falling when no request is at the memory and none arrives.
LEMMA NothingArrives ==
    ASSUME NoResponse, b_valid = FALSE, ~waddr_fire, ~wdata_fire, NEW want, NEW v,
           NEW accept1 \in BOOLEAN, NEW accept2 \in BOOLEAN, NEW done \in BOOLEAN,
           Write(want, v, accept1, accept2, done)
    PROVE  NoResponse' /\ mem' = mem /\ aw_ready' = w_ready' /\ (aw' = Empty => ~aw_ready')
  <1>1. AcceptedWrite = NoWrite
    BY DEF AcceptedWrite, wack_fire, NoResponse
  <1>2. RisenWrite(accept1) = NoWrite
    <2>1. NoWrite.req = nullptr /\ NoWrite.resp_inflight = FALSE
      BY DEF NoWrite
    <2>2. RisenWrite(accept1) = [NoWrite EXCEPT !.resp_inflight = FALSE]
      BY <1>1, <2>1, Zenon DEF RisenWrite
    <2> QED
      BY <2>2, Zenon DEF NoWrite
  <1>3. NoWrite.req = nullptr /\ NoWrite.resp_inflight = FALSE
    BY DEF NoWrite
  <1>4. wait_req_w' = NoWrite
    BY <1>2 DEF Write
  <1>5. wait_resp_b' = FALSE
    BY <1>2, <1>3, Zenon DEF Write, NoResponse, wack_ready
  <1>6. dram_w' = FALSE
    BY <1>2, <1>3, Zenon DEF Write, NoResponse
  <1>7. mem' = mem
    BY DEF Write, StoredBeat
  <1>8. aw_ready' = w_ready' /\ (aw' = Empty => ~aw_ready')
    BY <1>2, <1>3, Zenon DEF Write, aw_w_ready
  <1> QED
    BY <1>4, <1>5, <1>6, <1>7, <1>8 DEF NoResponse

\* No write: the D$ may start one.
LEMMA MayWrite ==
    ASSUME WriteInv, NEW want, want = nullptr \/ want \in Writes, NEW v,
           NEW accept1 \in BOOLEAN, NEW accept2 \in BOOLEAN, NEW done \in BOOLEAN,
           Write(want, v, accept1, accept2, done), ~dc.busy
    PROVE  Writer(dc)' /\ Writing' /\ WriteSignals'
  <1> USE DEF WriteInv
  <1>1. WriteEdge(want, v, aw_ready, w_ready, b_valid)
    BY DEF Write
  <1>2. aw = Empty /\ w = Empty /\ b = Empty /\ NoResponse /\ (\A k \in Beats : mem[k] = dc.line)
    BY DEF Writing, Written
  <1>3. ~dc.AWVALID /\ dc.wleft = 0 /\ dc = NotWriting(dc.line)
    BY WriterFacts DEF WriteTyped
  <1>4. b_valid = FALSE
    BY <1>2 DEF NoResponse, WriteSignals
  <1>5. ~push_aw /\ ~push_w /\ ~pop_b /\ ~waddr_fire /\ ~wdata_fire
    <2>1. ~(dc.wleft > 0)
      BY <1>3
    <2>2. ~push_aw /\ ~push_w
      BY <1>3, <2>1, Zenon DEF push_aw, push_w, AWVALID, WVALID
    <2> QED
      BY <1>2, <2>2, Zenon DEF pop_b, BVALID, waddr_fire, wdata_fire
  <1>6. aw' = Empty /\ w' = Empty /\ b' = Empty
    BY <1>1, <1>2, <1>4, <1>5, SMTT(30) DEF WriteEdge, HdsNext, BVALID
  <1>7. NoResponse' /\ mem' = mem
    BY <1>2, <1>4, <1>5, NothingArrives, Zenon
  <1>8. CASE want = nullptr
    <2>1. dc' = dc
      BY <1>1, <1>8 DEF WriteEdge, dc_nxt
    <2>2. Writer(dc)' /\ ~dc'.busy
      BY <2>1 DEF Writer, WriteTyped
    <2>3. Written'
      BY <1>2, <1>6, <1>7, <2>1 DEF Written
    <2>4. WriteSignals'
      BY <2>2, WriteSignalsNext
    <2> QED
      BY <2>2, <2>3, <2>4 DEF Writing
  <1>9. CASE want # nullptr
    <2>1. want \in Writes /\ want.len \in Nat
      BY <1>9, WriteFacts
    <2> DEFINE l == IF want.uncached THEN dc.line ELSE v
    <2>2. dc' = [busy |-> TRUE, AWVALID |-> TRUE, req |-> want, wleft |-> want.len, line |-> l]
      BY <1>1, <1>9 DEF WriteEdge, dc_nxt
    <2>3. want.uncached => l = dc.line
      OBVIOUS
    <2> HIDE DEF l
    <2>4. dc'.busy /\ dc'.AWVALID /\ dc'.req = want /\ dc'.wleft = want.len /\ dc'.line = l /\ dc'.AWVALID = TRUE
      BY <2>2
    <2>5. Writer(dc)'
      <3>1. dc' = [busy |-> TRUE, AWVALID |-> dc'.AWVALID, req |-> dc'.req, wleft |-> dc'.wleft, line |-> dc'.line]
        BY <2>2, <2>4, Zenon
      <3> QED
        BY <2>1, <2>4, <3>1 DEF Writer
    <2>6. Holds(0)'
      BY <1>2, <1>7, <2>3, <2>4 DEF Holds, Beats
    <2>7. Asking'
      BY <1>6, <1>7, <2>4, <2>6 DEF Asking
    <2>8. WriteSignals'
      BY <2>4, WriteSignalsNext
    <2> QED
      BY <2>4, <2>5, <2>7, <2>8 DEF Writing
  <1> QED
    BY <1>8, <1>9

\* The registers of the D$ after an edge without a response.
LEMMA WriterKeeps ==
    ASSUME WriteInv, NEW want, NEW v, NEW awready, NEW wready, NEW bvalid,
           WriteEdge(want, v, awready, wready, bvalid), dc.busy, ~pop_b
    PROVE  /\ Writer(dc)' /\ dc'.busy /\ dc'.req = dc.req /\ dc'.line = dc.line
           /\ dc'.AWVALID = (dc.AWVALID /\ ~push_aw)
           /\ dc'.wleft = IF push_w THEN dc.wleft - 1 ELSE dc.wleft
  <1> DEFINE a == dc.AWVALID /\ ~push_aw
             n == IF push_w THEN dc.wleft - 1 ELSE dc.wleft
  <1>1. dc' = [busy |-> TRUE, AWVALID |-> a, req |-> dc.req, wleft |-> n, line |-> dc.line]
    BY DcKeeps DEF WriteInv, WriteTyped, WriteEdge
  <1>2. a \in BOOLEAN /\ n \in Nat
    <2>1. dc.wleft \in Nat
      BY WriterFacts DEF WriteInv, WriteTyped
    <2>2. push_w => dc.wleft > 0
      BY DEF push_w, WVALID
    <2> QED
      BY <2>1, <2>2
  <1> HIDE DEF a, n
  <1>3. dc'.busy /\ dc'.req = dc.req /\ dc'.line = dc.line /\ dc'.AWVALID = a /\ dc'.wleft = n
    BY <1>1
  <1>4. dc' = [busy |-> TRUE, AWVALID |-> dc'.AWVALID, req |-> dc'.req, wleft |-> dc'.wleft, line |-> dc'.line]
    BY <1>1, <1>3, Zenon
  <1>5. dc.req \in Writes
    BY WriterFacts DEF WriteInv, WriteTyped
  <1>6. Writer(dc)'
    BY <1>2, <1>3, <1>4, <1>5 DEF Writer
  <1> QED
    BY <1>3, <1>6, ZenonT(40) DEF a, n

\* What the memory holds of a write that goes on.
LEMMA HoldsStill ==
    ASSUME mem' = mem, dc'.req = dc.req, dc'.line = dc.line, NEW n, Holds(n)
    PROVE  Holds(n)'
  BY DEF Holds

\* The D$ waits for the bus, or its address and first beat go into the slices.
LEMMA WriteAsks ==
    ASSUME WriteInv, NEW want, NEW v, NEW accept1 \in BOOLEAN, NEW accept2 \in BOOLEAN, NEW done \in BOOLEAN,
           Write(want, v, accept1, accept2, done), dc.busy, Asking
    PROVE  Writer(dc)' /\ Writing' /\ WriteSignals'
  <1> USE DEF WriteInv
  <1>1. WriteEdge(want, v, aw_ready, w_ready, b_valid)
    BY DEF Write
  <1>2. /\ aw = Empty /\ w = Empty /\ b = Empty /\ NoResponse /\ Holds(0)
        /\ dc.AWVALID /\ dc.wleft = dc.req.len
    BY DEF Asking
  <1>3. dc.req \in Writes /\ dc.req.len \in Nat \ {0}
    BY WriterFacts, WriteFacts DEF WriteTyped
  <1>4. b_valid = FALSE
    BY <1>2 DEF NoResponse, WriteSignals
  <1>5. ~pop_b /\ ~waddr_fire /\ ~wdata_fire
    BY <1>2 DEF pop_b, BVALID, waddr_fire, wdata_fire
  <1>6. NoResponse' /\ mem' = mem /\ aw_ready' = w_ready'
    BY <1>2, <1>4, <1>5, NothingArrives, Zenon
  <1>7. /\ Writer(dc)' /\ dc'.busy /\ dc'.req = dc.req /\ dc'.line = dc.line
        /\ dc'.AWVALID = (dc.AWVALID /\ ~push_aw)
        /\ dc'.wleft = IF push_w THEN dc.wleft - 1 ELSE dc.wleft
    BY <1>1, <1>5, WriterKeeps
  <1>8. WriteSignals'
    BY <1>2, WriteSignalsNext
  <1>9. Holds(0)'
    BY <1>2, <1>6, <1>7, HoldsStill
  <1>10. b' = Empty
    BY <1>1, <1>2, <1>4, <1>5 DEF WriteEdge, HdsNext
  <1>11. CASE grant_w = 1
    <2>1. push_aw /\ push_w
      BY <1>2, <1>3, <1>11 DEF push_aw, push_w, AWVALID, WVALID, AREADY
    <2>2. ~dc'.AWVALID /\ dc'.wleft = dc.req.len - 1
      BY <1>2, <1>7, <2>1, Zenon
    <2>3. aw' = <<dc.req>> /\ w' = <<[val |-> dc.line, strb |-> WSTRB]>>
      BY <1>1, <2>1 DEF WriteEdge, HdsNext
    <2>4. WSTRB = strobe(dc.req, 0)
      <3>1. dc.req.len - dc.wleft = 0
        BY <1>2, <1>3
      <3> QED
        BY <3>1 DEF WSTRB, strobe
    <2>5. BeatOut(0)'
      BY <1>7, <2>3, <2>4 DEF BeatOut
    <2>6. Asked'
      BY <1>6, <1>7, <1>9, <1>10, <2>2, <2>3, <2>5 DEF Asked
    <2> QED
      BY <1>7, <1>8, <2>6 DEF Writing
  <1>12. CASE grant_w # 1
    <2>1. ~push_aw /\ ~push_w
      BY <1>12, Zenon DEF push_aw, push_w, AWVALID, WVALID
    <2>2. dc'.AWVALID /\ dc'.wleft = dc.req.len
      BY <1>2, <1>7, <2>1, Zenon
    <2>3. aw' = Empty /\ w' = Empty
      BY <1>1, <1>2, <2>1 DEF WriteEdge, HdsNext, BVALID
    <2>4. Asking'
      BY <1>6, <1>7, <1>9, <1>10, <2>2, <2>3 DEF Asking
    <2> QED
      BY <1>7, <1>8, <2>4 DEF Writing
  <1> QED
    BY <1>11, <1>12

\* A request q at the memory: before the data of clk_rising n beats are in,
\* after it m; p and f say that it is on its way to the response.
Accepted(q, n, p) == AcceptedWrite = [req |-> q, offset |-> n, resp_inflight |-> p]
TakesIn(n, m) == m = IF wdata_fire THEN n + 1 ELSE n
Due(q, m, p, f, accept) == f = (p \/ (m = q.len /\ (q.mmio \/ accept)))

Outcome(q, m, p, f, done) ==
    /\ wait_req_w' = [req |-> q, offset |-> m, resp_inflight |-> f]
    /\ wait_resp_b' = ((wait_resp_b /\ ~wack_fire) \/ q.mmio \/ (dram_w /\ done))
    /\ dram_w' = ((~q.mmio /\ f /\ ~p) \/ (dram_w /\ ~done))

\* What an Emu::clk does to a request at the memory.
LEMMA AtMemory ==
    ASSUME NEW want, NEW v, NEW accept1 \in BOOLEAN, NEW accept2 \in BOOLEAN, NEW done \in BOOLEAN,
           Write(want, v, accept1, accept2, done),
           NEW q \in Writes, NEW n, NEW p \in BOOLEAN, NEW m, NEW f,
           Accepted(q, n, p), TakesIn(n, m), Due(q, m, p, f, accept1)
    PROVE  Outcome(q, m, p, f, done)
  <1> USE DEF Accepted, TakesIn, Due
  <1>1. q # nullptr /\ q.mmio \in BOOLEAN
    BY WriteFacts
  <1> DEFINE x == IF wdata_fire THEN [AcceptedWrite EXCEPT !.offset = @ + 1] ELSE AcceptedWrite
  <1>2. x = [req |-> q, offset |-> m, resp_inflight |-> p]
    BY Zenon
  <1>3. RisenWrite(accept1) = [x EXCEPT !.resp_inflight =
                                 @ \/ (x.req # nullptr /\ x.offset = x.req.len /\ (x.req.mmio \/ accept1))]
    BY Zenon DEF RisenWrite
  <1> HIDE DEF x
  <1>4. x.req = q /\ x.offset = m /\ x.resp_inflight = p
    BY <1>2
  <1>5. (x.resp_inflight \/ (x.req # nullptr /\ x.offset = x.req.len /\ (x.req.mmio \/ accept1))) = f
    BY <1>1, <1>4, Zenon
  <1>6. RisenWrite(accept1) = [x EXCEPT !.resp_inflight = f]
    BY <1>3, <1>5, Zenon
  <1>7. RisenWrite(accept1) = [req |-> q, offset |-> m, resp_inflight |-> f]
    BY <1>2, <1>6, Zenon
  <1>8. RisenWrite(accept1).req = q /\ RisenWrite(accept1).resp_inflight = f /\ AcceptedWrite.resp_inflight = p
    BY <1>7
  <1>9. wait_req_w' = RisenWrite(accept1)
    BY DEF Write
  <1>10. wait_resp_b' = ((wait_resp_b /\ ~wack_fire) \/ wack_ready(RisenWrite(accept1), dram_w /\ done))
    BY Zenon DEF Write
  <1>11. wack_ready(RisenWrite(accept1), dram_w /\ done) <=> q.mmio \/ (dram_w /\ done)
    BY <1>1, <1>8, Zenon DEF wack_ready
  <1>12. dram_w' = (\/ ~RisenWrite(accept1).req.mmio /\ RisenWrite(accept1).resp_inflight /\ ~AcceptedWrite.resp_inflight
                    \/ dram_w /\ ~done)
    BY Zenon DEF Write
  <1>13. dram_w' = ((~q.mmio /\ f /\ ~p) \/ (dram_w /\ ~done))
    BY <1>8, <1>12, Zenon
  <1>14. wait_resp_b' = ((wait_resp_b /\ ~wack_fire) \/ q.mmio \/ (dram_w /\ done))
    BY <1>10, <1>11, Zenon
  <1> QED
    BY <1>7, <1>9, <1>13, <1>14, Zenon DEF Outcome

\* The address and the first beat reach the memory together.
LEMMA WriteArrives ==
    ASSUME WriteInv, NEW want, NEW v, NEW accept1 \in BOOLEAN, NEW accept2 \in BOOLEAN, NEW done \in BOOLEAN,
           Write(want, v, accept1, accept2, done), dc.busy, Asked
    PROVE  Writer(dc)' /\ Writing' /\ WriteSignals'
  <1> USE DEF WriteInv
  <1>1. WriteEdge(want, v, aw_ready, w_ready, b_valid)
    BY DEF Write
  <1>2. /\ aw = <<dc.req>> /\ w = <<[val |-> dc.line, strb |-> strobe(dc.req, 0)]>> /\ b = Empty /\ NoResponse
        /\ Holds(0) /\ ~dc.AWVALID /\ dc.wleft = dc.req.len - 1 /\ aw_ready = w_ready
    BY DEF Asked, BeatOut
  <1>3. aw # Empty /\ w # Empty /\ aw[1] = dc.req /\ w[1].val = dc.line
    BY <1>2 DEF Empty
  <1>4. PICK q : q = dc.req
    OBVIOUS
  <1>5. /\ q \in Writes /\ q # nullptr /\ q.len \in Nat \ {0}
        /\ q.mmio \in BOOLEAN /\ q.uncached \in BOOLEAN
        /\ (~q.uncached => q.len = Line) /\ (q.mmio => q.len = 1)
    BY <1>4, WriterFacts, WriteFacts DEF WriteTyped
  <1>6. b_valid = FALSE
    BY <1>2 DEF NoResponse, WriteSignals
  <1>7. ~pop_b /\ ~push_aw /\ ~push_w /\ ~wack_fire
    BY <1>2, <1>3, <1>6 DEF pop_b, BVALID, push_aw, push_w, AWVALID, AREADY, wack_fire
  <1>8. /\ Writer(dc)' /\ dc'.busy /\ dc'.req = q /\ dc'.line = dc.line
        /\ dc'.AWVALID = (dc.AWVALID /\ ~push_aw)
        /\ dc'.wleft = IF push_w THEN dc.wleft - 1 ELSE dc.wleft
    BY <1>1, <1>4, <1>7, WriterKeeps
  <1>9. ~dc'.AWVALID /\ dc'.wleft = q.len - 1
    BY <1>2, <1>4, <1>7, <1>8, ZenonT(40)
  <1>10. WriteSignals'
    BY <1>2, <1>7, WriteSignalsNext, Zenon DEF WriteSignals
  <1>11. b' = Empty
    BY <1>1, <1>2, <1>6, <1>7, Zenon DEF WriteEdge, HdsNext
  <1>12. CASE aw_ready
    <2>1. waddr_fire /\ wdata_fire /\ aw' = Empty /\ w' = Empty
      BY <1>1, <1>2, <1>3, <1>7, <1>12, Zenon DEF WriteEdge, HdsNext, BVALID, waddr_fire, wdata_fire
    <2>2. AcceptedWrite = [req |-> q, offset |-> 0, resp_inflight |-> FALSE]
      BY <1>3, <1>4, <2>1 DEF AcceptedWrite
    <2>3. PICK f : f = (FALSE \/ (1 = q.len /\ (q.mmio \/ accept1)))
      OBVIOUS
    <2>4. /\ wait_req_w' = [req |-> q, offset |-> 1, resp_inflight |-> f]
          /\ wait_resp_b' = ((wait_resp_b /\ ~wack_fire) \/ q.mmio \/ (dram_w /\ done))
          /\ dram_w' = ((~q.mmio /\ f /\ ~FALSE) \/ (dram_w /\ ~done))
      <3>1. PICK p \in BOOLEAN : p = FALSE
        BY Zenon
      <3>2. PICK n : n = 0
        OBVIOUS
      <3>3. PICK m : m = 1
        OBVIOUS
      <3>4. TakesIn(n, m)
        BY <2>1, <3>2, <3>3 DEF TakesIn
      <3>5. Accepted(q, n, p)
        BY <2>2, <3>1, <3>2, Zenon DEF Accepted
      <3>6. Due(q, m, p, f, accept1)
        BY <2>3, <3>1, <3>3, Zenon DEF Due
      <3>7. Outcome(q, m, p, f, done)
        BY <1>5, <3>4, <3>5, <3>6, AtMemory, ZenonT(40)
      <3> QED
        BY <3>1, <3>3, <3>7, Zenon DEF Outcome
    <2>5. wait_resp_b' = q.mmio /\ (dram_w' => f /\ ~q.mmio)
      BY <1>2, <1>5, <2>4, Zenon DEF NoResponse
    <2>6. f \in BOOLEAN /\ (f => q.len = 1)
      BY <2>3, Zenon
    <2>8. Holds(1)'
      <3>1. mem' = IF ~q.uncached THEN [mem EXCEPT ![0] = dc.line] ELSE mem
        BY <1>3, <2>1, <2>2 DEF Write, StoredBeat
      <3> SUFFICES ASSUME NEW k \in Beats, k < 1 \/ q.uncached
                   PROVE  mem'[k] = dc.line
        BY <1>8, Zenon DEF Holds
      <3>2. CASE q.uncached
        BY <1>2, <1>4, <3>1, <3>2 DEF Holds
      <3>3. CASE ~q.uncached
        <4>1. k = 0
          BY <3>3 DEF Beats
        <4> QED
          BY <3>1, <3>3, <4>1 DEF WriteTyped
      <3> QED
        BY <3>2, <3>3
    <2>9. Sending'
      <3>1. /\ wait_req_w'.offset = 1 /\ wait_req_w'.resp_inflight = f
            /\ wait_req_w' = [req |-> dc'.req, offset |-> wait_req_w'.offset, resp_inflight |-> wait_req_w'.resp_inflight]
        BY <1>8, <2>4, Zenon
      <3>2. 1 \in 1 .. q.len
        BY <1>5
      <3>3. wait_resp_b' \/ f => 1 = q.len
        BY <1>5, <2>5, <2>6, Zenon
      <3> QED
        BY <1>8, <1>9, <1>11, <2>1, <2>5, <2>6, <2>8, <3>1, <3>2, <3>3, SMTT(30) DEF Sending
    <2> QED
      BY <1>8, <1>10, <2>9 DEF Writing
  <1>13. CASE ~aw_ready
    <2>1. ~waddr_fire /\ ~wdata_fire /\ aw' = aw /\ w' = w
      BY <1>1, <1>2, <1>3, <1>7, <1>13, SMTT(30) DEF WriteEdge, HdsNext, BVALID, waddr_fire, wdata_fire
    <2>2. NoResponse' /\ mem' = mem /\ aw_ready' = w_ready'
      BY <1>2, <1>6, <2>1, NothingArrives, Zenon
    <2>3. Holds(0)'
      BY <1>2, <1>4, <1>8, <2>2, HoldsStill, Zenon
    <2>4. BeatOut(0)'
      BY <1>2, <1>4, <1>8, <2>1, Zenon DEF BeatOut
    <2>5. Asked'
      BY <1>2, <1>4, <1>8, <1>9, <1>11, <2>1, <2>2, <2>3, <2>4 DEF Asked
    <2> QED
      BY <1>8, <1>10, <2>5, Zenon DEF Writing
  <1> QED
    BY <1>12, <1>13, Zenon DEF WriteSignals

\* A write at the memory, field by field.
Underway(q, n, p) ==
    /\ dc.busy /\ dc.req = q /\ q \in Writes /\ n \in 1 .. q.len /\ p \in BOOLEAN
    /\ wait_req_w = [req |-> q, offset |-> n, resp_inflight |-> p]
    /\ ~dc.AWVALID /\ aw = Empty /\ b = Empty /\ Holds(n)
    /\ \/ w = Empty /\ dc.wleft = q.len - n
       \/ w = <<[val |-> dc.line, strb |-> strobe(q, n)]>> /\ dc.wleft = q.len - n - 1
    /\ wait_resp_b \/ p => n = q.len
    /\ dram_w => p /\ ~wait_resp_b /\ ~q.mmio

\* Sending says so, and is what it says.
LEMMA SendingIs ==
    ASSUME WriteInv, dc.busy, Sending
    PROVE  \E q, n, p : Underway(q, n, p)
  <1>1. dc.req \in Writes
    BY WriterFacts DEF WriteInv, WriteTyped
  <1>2. Underway(dc.req, wait_req_w.offset, wait_req_w.resp_inflight)
    BY <1>1, Zenon DEF Sending, Underway, BeatOut
  <1> QED
    BY <1>2, Zenon

LEMMA IsSending ==
    ASSUME NEW q, NEW n, NEW p, Underway(q, n, p)'
    PROVE  dc'.busy /\ Sending'
  <1>1. dc'.busy /\ wait_req_w'.offset = n /\ wait_req_w'.resp_inflight = p /\ dc'.req = q
    BY DEF Underway
  <1>2. w' = <<[val |-> dc.line, strb |-> strobe(q, n)]>>' => BeatOut(n)'
    BY <1>1, SMTT(30) DEF BeatOut
  <1> QED
    BY <1>1, <1>2, SMTT(30) DEF Underway, Sending

\* The registers and the bus while the beats go to the memory.
LEMMA SendingEdge ==
    ASSUME WriteInv, NEW q, NEW n, NEW p, Underway(q, n, p),
           NEW want, NEW v, NEW accept1 \in BOOLEAN, NEW accept2 \in BOOLEAN, NEW done \in BOOLEAN,
           Write(want, v, accept1, accept2, done)
    PROVE  /\ Writer(dc)' /\ WriteSignals'
           /\ dc'.busy /\ dc'.req = q /\ dc'.line = dc.line /\ ~dc'.AWVALID
           /\ dc'.wleft = IF push_w THEN dc.wleft - 1 ELSE dc.wleft
           /\ push_w <=> w = Empty /\ dc.wleft > 0
           /\ ~pop_b /\ ~waddr_fire /\ (wack_fire <=> wait_resp_b)
           /\ aw' = Empty /\ b' = IF wait_resp_b THEN <<TRUE>> ELSE Empty
           /\ w' = IF push_w THEN <<[val |-> dc.line, strb |-> WSTRB]>> ELSE IF wdata_fire THEN Empty ELSE w
  <1>1. WriteEdge(want, v, aw_ready, w_ready, b_valid)
    BY DEF Write
  <1>2. dc.busy /\ dc.req = q /\ ~dc.AWVALID /\ aw = Empty /\ b = Empty
    BY DEF Underway
  <1>3. ~pop_b /\ ~waddr_fire /\ ~push_aw
    BY <1>2, Zenon DEF pop_b, waddr_fire, BVALID, push_aw, AWVALID
  <1>4. grant_w = 1 /\ b_valid = wait_resp_b /\ wait_resp_b \in BOOLEAN
    BY <1>2 DEF WriteInv, WriteSignals
  <1>5. wack_fire <=> wait_resp_b
    BY <1>2, <1>4 DEF wack_fire, AREADY
  <1>6. push_w <=> w = Empty /\ dc.wleft > 0
    BY <1>4, Zenon DEF push_w, WVALID, AREADY
  <1>7. /\ Writer(dc)' /\ dc'.busy /\ dc'.req = dc.req /\ dc'.line = dc.line
        /\ dc'.AWVALID = (dc.AWVALID /\ ~push_aw)
        /\ dc'.wleft = IF push_w THEN dc.wleft - 1 ELSE dc.wleft
    BY <1>1, <1>2, <1>3, WriterKeeps
  <1>8. WriteSignals'
    BY <1>3, <1>4, WriteSignalsNext, SMTT(30)
  <1>9. aw' = Empty
    BY <1>1, <1>2, <1>3, Zenon DEF WriteEdge, HdsNext, BVALID
  <1>10. b' = IF wait_resp_b THEN <<TRUE>> ELSE Empty
    BY <1>1, <1>2, <1>3, <1>4 DEF WriteEdge, HdsNext, AREADY
  <1>11. w' = IF push_w THEN <<[val |-> dc.line, strb |-> WSTRB]>> ELSE IF wdata_fire THEN Empty ELSE w
    <2>1. BVALID(w) /\ w_ready <=> wdata_fire
      BY Zenon DEF wdata_fire
    <2> QED
      BY <1>1, <2>1, Zenon DEF WriteEdge, HdsNext
  <1> QED
    BY <1>2, <1>3, <1>5, <1>6, <1>7, <1>8, <1>9, <1>10, <1>11, Zenon

\* The response goes into the slice of the B channel.
LEMMA ResponseGiven ==
    ASSUME WriteInv, NEW q, NEW n, NEW p, Underway(q, n, p), wait_resp_b,
           NEW want, NEW v, NEW accept1 \in BOOLEAN, NEW accept2 \in BOOLEAN, NEW done \in BOOLEAN,
           Write(want, v, accept1, accept2, done)
    PROVE  Writer(dc)' /\ Writing' /\ WriteSignals'
  <1>1. /\ Writer(dc)' /\ WriteSignals'
        /\ dc'.busy /\ dc'.req = q /\ dc'.line = dc.line /\ ~dc'.AWVALID
        /\ dc'.wleft = IF push_w THEN dc.wleft - 1 ELSE dc.wleft
        /\ push_w <=> w = Empty /\ dc.wleft > 0
        /\ ~waddr_fire /\ wack_fire /\ aw' = Empty /\ b' = <<TRUE>>
        /\ w' = IF push_w THEN <<[val |-> dc.line, strb |-> WSTRB]>> ELSE IF wdata_fire THEN Empty ELSE w
    BY SendingEdge, Zenon
  <1>2. /\ n = q.len /\ q.len \in Nat /\ dc.wleft \in Nat /\ ~dram_w /\ Holds(q.len) /\ dc.req = q
    BY WriterFacts, WriteFacts DEF Underway, WriteInv, WriteTyped
  <1>3. w = Empty /\ dc.wleft = 0
    BY <1>2 DEF Underway
  <1>4. w' = Empty /\ dc'.wleft = 0 /\ ~wdata_fire
    BY <1>1, <1>3 DEF wdata_fire, BVALID
  <1>5. b' # Empty
    BY <1>1 DEF Empty
  <1>6. RisenWrite(accept1) = NoWrite /\ NoWrite.req = nullptr /\ NoWrite.resp_inflight = FALSE
    <2>1. NoWrite.req = nullptr /\ NoWrite.resp_inflight = FALSE
      BY DEF NoWrite
    <2>2. AcceptedWrite = NoWrite
      BY <1>1 DEF AcceptedWrite
    <2>3. RisenWrite(accept1) = [NoWrite EXCEPT !.resp_inflight = FALSE]
      BY <1>4, <2>1, <2>2, Zenon DEF RisenWrite
    <2> QED
      BY <2>1, <2>3, ZenonT(40) DEF NoWrite
  <1>7. NoResponse'
    <2>1. wait_req_w' = NoWrite
      BY <1>6 DEF Write
    <2>2. wait_resp_b' = FALSE
      BY <1>1, <1>6, Zenon DEF Write, wack_ready
    <2>3. dram_w' = FALSE
      BY <1>2, <1>6, Zenon DEF Write
    <2> QED
      BY <2>1, <2>2, <2>3 DEF NoResponse
  <1>8. mem' = mem
    BY <1>4, SMTT(30) DEF Write, StoredBeat
  <1>9. Holds(q.len)'
    <2>1. PICK l : l = q.len
      BY SMTT(30)
    <2> QED
      BY <1>1, <1>2, <1>8, <2>1, HoldsStill
  <1>10. Answered'
    BY <1>1, <1>4, <1>5, <1>7, <1>9, Zenon DEF Answered
  <1> QED
    BY <1>1, <1>10, SMTT(30) DEF Writing

\* How many beats are left after one more.
LEMMA Differences ==
    ASSUME NEW a \in Int, NEW k \in Int
    PROVE  a - (a - k) = k /\ a - k - 1 = a - (k + 1)
  OBVIOUS

\* The next beat goes into the slice of the W channel, if there is one.
LEMMA BeatLeaves ==
    ASSUME WriteInv, NEW q, NEW n, NEW p, Underway(q, n, p), ~wait_resp_b, w = Empty,
           NEW want, NEW v, NEW accept1 \in BOOLEAN, NEW accept2 \in BOOLEAN, NEW done \in BOOLEAN,
           Write(want, v, accept1, accept2, done)
    PROVE  Writer(dc)' /\ Writing' /\ WriteSignals'
  <1>1. /\ Writer(dc)' /\ WriteSignals'
        /\ dc'.busy /\ dc'.req = q /\ dc'.line = dc.line /\ ~dc'.AWVALID
        /\ dc'.wleft = IF push_w THEN dc.wleft - 1 ELSE dc.wleft
        /\ push_w <=> w = Empty /\ dc.wleft > 0
        /\ ~waddr_fire /\ ~wack_fire /\ aw' = Empty /\ b' = Empty
        /\ w' = IF push_w THEN <<[val |-> dc.line, strb |-> WSTRB]>> ELSE IF wdata_fire THEN Empty ELSE w
    BY SendingEdge
  <1>2. /\ q \in Writes /\ n \in 1 .. q.len /\ p \in BOOLEAN /\ dc.req = q /\ Holds(n)
        /\ wait_req_w = [req |-> q, offset |-> n, resp_inflight |-> p]
        /\ (p => n = q.len) /\ (dram_w => p /\ ~q.mmio)
    BY SMTT(30) DEF Underway
  <1>3. q.len \in Nat /\ q.mmio \in BOOLEAN /\ (q.mmio => q.len = 1)
    BY <1>2, WriteFacts, SMTT(30)
  <1>4. dc.wleft = q.len - n
    <2>1. \A x : w # <<x>>
      BY DEF Empty
    <2> QED
      BY <2>1 DEF Underway
  <1>5. ~wdata_fire
    BY DEF wdata_fire, BVALID
  <1>6. PICK f : f = (p \/ (n = q.len /\ (q.mmio \/ accept1)))
    OBVIOUS
  <1>7. f \in BOOLEAN /\ (f => n = q.len) /\ (p => f)
    BY <1>2, <1>6
  <1>8. Outcome(q, n, p, f, done)
    <2>1. Accepted(q, n, p)
      BY <1>1, <1>2 DEF Accepted, AcceptedWrite
    <2>2. TakesIn(n, n)
      BY <1>5 DEF TakesIn
    <2>3. Due(q, n, p, f, accept1)
      BY <1>6 DEF Due
    <2> QED
      BY <1>2, <2>1, <2>2, <2>3, AtMemory, ZenonT(40)
  <1>9. /\ wait_req_w' = [req |-> q, offset |-> n, resp_inflight |-> f]
        /\ wait_resp_b' => q.mmio \/ dram_w
        /\ dram_w' => ~q.mmio /\ f /\ ~wait_resp_b'
    BY <1>2, <1>7, <1>8, ZenonT(40) DEF Outcome
  <1>10. wait_resp_b' => n = q.len
    BY <1>2, <1>3, <1>9
  <1>11. mem' = mem
    BY <1>5, SMTT(30) DEF Write, StoredBeat
  <1>12. Holds(n)'
    BY <1>1, <1>2, <1>11, HoldsStill, Zenon
  <1>13. \/ w' = Empty /\ dc'.wleft = q.len - n
         \/ w' = <<[val |-> dc'.line, strb |-> strobe(q, n)]>> /\ dc'.wleft = q.len - n - 1
    <2>1. CASE push_w
      <3>1. WSTRB = strobe(q, n)
        <4>1. q.len \in Int /\ n \in Int
          BY <1>2, <1>3
        <4>2. q.len - (q.len - n) = n
          BY <4>1, Differences
        <4>3. dc.req.len - dc.wleft = n
          BY <1>2, <1>4, <4>2, Zenon
        <4> QED
          BY <1>2, <4>3 DEF WSTRB, strobe
      <3> QED
        BY <1>1, <1>4, <2>1, <3>1, ZenonT(40)
    <2>2. CASE ~push_w
      BY <1>1, <1>4, <1>5, <2>2
    <2> QED
      BY <2>1, <2>2, SMTT(30)
  <1>14. Underway(q, n, f)'
    BY <1>1, <1>2, <1>7, <1>9, <1>10, <1>12, <1>13, SMTT(30) DEF Underway, strobe, axi_uncached_wstrb, axi_align_be
  <1> QED
    BY <1>1, <1>14, IsSending DEF Writing

\* A beat is stored.
LEMMA BeatStored ==
    ASSUME WriteInv, NEW q, NEW n, NEW p, Underway(q, n, p), w # Empty,
           NEW want, NEW v, NEW accept1 \in BOOLEAN, NEW accept2 \in BOOLEAN, NEW done \in BOOLEAN,
           Write(want, v, accept1, accept2, done)
    PROVE  Writer(dc)' /\ Writing' /\ WriteSignals'
  <1>1. /\ q \in Writes /\ n \in 1 .. q.len /\ p \in BOOLEAN /\ dc.req = q /\ Holds(n)
        /\ wait_req_w = [req |-> q, offset |-> n, resp_inflight |-> p]
        /\ w = <<[val |-> dc.line, strb |-> strobe(q, n)]>> /\ dc.wleft = q.len - n - 1
        /\ (wait_resp_b \/ p => n = q.len) /\ (dram_w => p /\ ~q.mmio)
    BY DEF Underway
  <1>2. /\ q.len \in Nat /\ q.mmio \in BOOLEAN /\ q.uncached \in BOOLEAN /\ dc.wleft \in Nat
        /\ (q.mmio => q.len = 1) /\ (q.uncached => q.len = 1) /\ (~q.uncached => q.len = Line)
    BY <1>1, WriteFacts, WriterFacts, Zenon DEF WriteInv, WriteTyped
  <1>3. n < q.len /\ n + 1 \in 1 .. q.len
    BY <1>1, <1>2, SMTT(30)
  <1>4. ~wait_resp_b /\ p = FALSE /\ ~q.mmio /\ ~q.uncached /\ ~dram_w
    BY <1>1, <1>2, <1>3, SMTT(30)
  <1>5. /\ Writer(dc)' /\ WriteSignals'
        /\ dc'.busy /\ dc'.req = q /\ dc'.line = dc.line /\ ~dc'.AWVALID
        /\ dc'.wleft = IF push_w THEN dc.wleft - 1 ELSE dc.wleft
        /\ push_w <=> w = Empty /\ dc.wleft > 0
        /\ ~waddr_fire /\ ~wack_fire /\ aw' = Empty /\ b' = Empty
        /\ w' = IF push_w THEN <<[val |-> dc.line, strb |-> WSTRB]>> ELSE IF wdata_fire THEN Empty ELSE w
    BY <1>4, SendingEdge, Zenon
  <1>6. ~push_w /\ dc'.wleft = q.len - n - 1 /\ w' = IF wdata_fire THEN Empty ELSE w
    BY <1>1, <1>5
  <1>7. PICK m : m = IF wdata_fire THEN n + 1 ELSE n
    OBVIOUS
  <1>8. PICK f : f = (p \/ (m = q.len /\ (q.mmio \/ accept1)))
    BY Zenon
  <1>9. f \in BOOLEAN /\ (f => m = q.len) /\ m \in 1 .. q.len
    BY <1>1, <1>3, <1>4, <1>7, <1>8, ZenonT(40)
  <1>10. Accepted(q, n, p)
    BY <1>1, <1>5, Zenon DEF Accepted, AcceptedWrite
  <1>11. Outcome(q, m, p, f, done)
    <2>1. TakesIn(n, m)
      BY <1>7 DEF TakesIn
    <2>2. Due(q, m, p, f, accept1)
      BY <1>8 DEF Due
    <2> QED
      BY <1>1, <1>10, <2>1, <2>2, AtMemory, ZenonT(40)
  <1>12. /\ wait_req_w' = [req |-> q, offset |-> m, resp_inflight |-> f]
         /\ ~wait_resp_b' /\ (dram_w' => f)
    BY <1>4, <1>11, Zenon DEF Outcome
  <1>13. Holds(m)' /\ (\/ w' = Empty /\ dc'.wleft = q.len - m
                       \/ w' = <<[val |-> dc'.line, strb |-> strobe(q, m)]>> /\ dc'.wleft = q.len - m - 1)
    <2>1. CASE wdata_fire
      <3>1. m = n + 1 /\ w' = Empty /\ dc'.wleft = q.len - m
        <4>1. n \in 1 .. q.len /\ q.len \in Nat
          BY <1>1, <1>2, Zenon
        <4>2. q.len \in Int /\ n \in Int
          BY <4>1
        <4>3. q.len - n - 1 = q.len - (n + 1)
          BY <4>2, Differences, Zenon
        <4> QED
          BY <1>6, <1>7, <2>1, <4>3, Zenon
      <3>2. w[1].val = dc.line
        BY <1>1
      <3>3. AcceptedWrite.req = q /\ AcceptedWrite.offset = n
        BY <1>10, SMTT(30) DEF Accepted
      <3>4. mem' = [mem EXCEPT ![n] = dc.line]
        BY <1>4, <2>1, <3>2, <3>3, Zenon DEF Write, StoredBeat
      <3>5. ASSUME NEW k \in Beats, k < m
            PROVE  mem'[k] = dc.line
        <4>1. k \in Int /\ n \in Int /\ DOMAIN mem = Beats
          <5>1. DOMAIN mem = Beats
            BY Zenon DEF WriteInv, WriteTyped
          <5>2. k \in Int
            BY BeatsWhole, Zenon
          <5>3. n \in Int
            BY <1>1
          <5> QED
            BY <5>1, <5>2, <5>3, Zenon
        <4>2. CASE k = n
          BY <3>4, <4>1, <4>2
        <4>3. CASE k # n
          <5>1. k < n
            BY <3>1, <3>5, <4>1, <4>3, SMTT(30)
          <5>2. mem[k] = dc.line
            BY <1>1, <5>1, Zenon DEF Holds
          <5> QED
            BY <3>4, <4>1, <4>3, <5>2
        <4> QED
          BY <4>2, <4>3, ZenonT(40)
      <3>6. Holds(m)'
        BY <1>4, <1>5, <3>5, Zenon DEF Holds
      <3> QED
        BY <3>1, <3>6
    <2>2. CASE ~wdata_fire
      <3>1. m = n /\ w' = w /\ mem' = mem
        BY <1>6, <1>7, <2>2, Zenon DEF Write, StoredBeat
      <3>2. Holds(n)'
        BY <1>1, <1>5, <3>1, HoldsStill, Zenon
      <3> QED
        BY <1>1, <1>5, <1>6, <3>1, <3>2
    <2> QED
      BY <2>1, <2>2
  <1>14. Underway(q, m, f)'
    BY <1>1, <1>4, <1>5, <1>9, <1>12, <1>13 DEF Underway, strobe, axi_uncached_wstrb, axi_align_be
  <1> QED
    BY <1>5, <1>14, IsSending, SMTT(30) DEF Writing

\* The D$ takes the response.
LEMMA WriteEnds ==
    ASSUME WriteInv, dc.busy, Answered,
           NEW want, NEW v, NEW accept1 \in BOOLEAN, NEW accept2 \in BOOLEAN, NEW done \in BOOLEAN,
           Write(want, v, accept1, accept2, done)
    PROVE  Writer(dc)' /\ Writing' /\ WriteSignals'
  <1>1. WriteEdge(want, v, aw_ready, w_ready, b_valid)
    BY DEF Write
  <1>2. /\ ~dc.AWVALID /\ dc.wleft = 0 /\ aw = Empty /\ w = Empty /\ b # Empty
        /\ NoResponse /\ Holds(dc.req.len) /\ grant_w = 1 /\ b_valid = FALSE
    BY DEF Answered, WriteInv, WriteSignals, NoResponse
  <1>3. dc.req \in Writes
    BY WriterFacts DEF WriteInv, WriteTyped
  <1>4. pop_b /\ ~push_aw /\ ~push_w
    <2>1. pop_b /\ ~push_aw
      BY <1>2, Zenon DEF pop_b, BVALID, BREADY, push_aw, AWVALID
    <2>2. ~(dc.wleft > 0)
      BY <1>2
    <2> QED
      BY <2>1, <2>2, Zenon DEF push_w, WVALID
  <1>5. ~waddr_fire /\ ~wdata_fire
    BY <1>2 DEF waddr_fire, wdata_fire, BVALID
  <1>6. NoResponse' /\ mem' = mem
    BY <1>2, <1>5, NothingArrives, Zenon
  <1>7. dc' = NotWriting(dc.line)
    BY <1>1, <1>4 DEF WriteEdge, dc_nxt
  <1>8. dc'.busy = FALSE /\ dc'.line = dc.line /\ dc' = NotWriting(dc'.line)
    BY <1>7, Zenon DEF NotWriting
  <1>9. aw' = Empty /\ w' = Empty /\ b' = Empty
    BY <1>1, <1>2, <1>4 DEF WriteEdge, HdsNext, BVALID
  <1>10. \A k \in Beats : mem[k] = dc.line
    <2>1. dc.req.uncached \in BOOLEAN /\ (~dc.req.uncached => dc.req.len = Line)
      BY <1>3, WriteFacts
    <2>2. \A k \in Beats : k < Line
      BY LineEven DEF Beats
    <2> QED
      BY <1>2, <2>1, <2>2 DEF Holds
  <1>11. Written'
    BY <1>6, <1>8, <1>9, <1>10 DEF Written
  <1>12. WriteSignals'
    BY <1>8, WriteSignalsNext, SMTT(30)
  <1> QED
    BY <1>8, <1>11, <1>12 DEF Writer, Writing

\* The write half keeps its invariant.
LEMMA WriteNext ==
    ASSUME WriteInv, NEW want, want = nullptr \/ want \in Writes, NEW v,
           NEW accept1 \in BOOLEAN, NEW accept2 \in BOOLEAN, NEW done \in BOOLEAN,
           Write(want, v, accept1, accept2, done)
    PROVE  WriteInv'
  <1>1. Writer(dc)' /\ Writing' /\ WriteSignals'
    <2>1. CASE ~dc.busy
      BY <2>1, MayWrite
    <2>2. CASE dc.busy /\ Asking
      BY <2>2, WriteAsks
    <2>3. CASE dc.busy /\ Asked
      BY <2>3, WriteArrives
    <2>4. CASE dc.busy /\ Sending
      <3>1. PICK q, n, p : Underway(q, n, p)
        BY <2>4, SendingIs
      <3>2. CASE wait_resp_b
        BY <3>1, <3>2, ResponseGiven
      <3>3. CASE ~wait_resp_b /\ w = Empty
        BY <3>1, <3>3, BeatLeaves
      <3>4. CASE w # Empty
        BY <3>1, <3>4, BeatStored
      <3> QED
        BY <3>2, <3>3, <3>4
    <2>5. CASE dc.busy /\ Answered
      BY <2>5, WriteEnds
    <2> QED
      BY <2>1, <2>2, <2>3, <2>4, <2>5 DEF WriteInv, Writing
  <1>2. grant_w' \in Caches /\ pending_w' \in [Caches -> BOOLEAN]
    BY GrantNext DEF Write
  <1>3. DOMAIN mem' = Beats
    BY DEF WriteInv, WriteTyped, Write, StoredBeat
  <1> QED
    BY <1>1, <1>2, <1>3, SMTT(30) DEF WriteInv, WriteTyped

-----------------------------------------------------------------------------
(* The port.                                                               *)

\* The D$ does not read and write at the same time.
Separate == ~(dc.busy /\ rd[1].busy)

IInv == ReadInv /\ WriteInv /\ Separate

\* What the caches want, request by request.
LEMMA WantsFacts ==
    ASSUME IInv, NEW wants \in Wants
    PROVE  /\ Asks(wants.read)
           /\ wants.write = nullptr \/ wants.write \in Writes
           /\ dc.busy \/ rd[1].busy => wants.write = nullptr
           /\ dc.busy /\ ~pop_b => wants.read[1] = nullptr
           /\ wants.read[1] = nullptr \/ wants.write = nullptr
  <1>1. PICK t \in IReads \X DReads \X DWrites :
            /\ t[2] = nullptr \/ t[3][1] = nullptr
            /\ wants = [read |-> [i \in Caches |-> t[i + 1]], write |-> t[3][1], val |-> t[3][2]]
    BY DEF Wants
  <1>2. /\ t[1] \in IReads /\ t[2] \in DReads /\ t[3] \in DWrites
    BY <1>1
  <1>3. /\ wants.read = [i \in Caches |-> t[i + 1]] /\ wants.write = t[3][1]
    BY <1>1
  <1>4. wants.read[0] = t[1] /\ wants.read[1] = t[2]
    BY <1>3 DEF Caches
  <1>5. t[1] = nullptr \/ t[1] \in Reads(0)
    <2>1. ASSUME hds_axi_R_last(0) PROVE rd[0].req.mmio \in BOOLEAN
      <3>1. rd[0].busy
        BY <2>1, Zenon DEF hds_axi_R_last, pop_r
      <3>2. rd[0].req \in Reads(0)
        BY <3>1, ReaderFacts, Zenon DEF IInv, ReadInv, ReadTyped, Caches
      <3> QED
        BY <3>2, ReadFacts, Zenon DEF Caches
    <2>2. ASSUME hds_axi_R_last(0) PROVE UncachedRead(0, rd[0].req.mmio) \in Reads(0)
      BY <2>1, <2>2, Zenon DEF Reads
    <2> QED
      BY <1>2, <2>2, Zenon DEF IReads
  <1>6. t[2] = nullptr \/ t[2] \in Reads(1)
    BY <1>2 DEF DReads, Reads
  <1>7. dc.busy /\ ~pop_b => t[2] = nullptr
    BY <1>2, SMTT(30) DEF DReads
  <1>8. /\ t[3][1] = nullptr \/ t[3][1] \in Writes
        /\ dc.busy \/ rd[1].busy => t[3][1] = nullptr
    BY <1>2 DEF DWrites, Writes
  <1> QED
    BY <1>1, <1>3, <1>4, <1>5, <1>6, <1>7, <1>8 DEF Asks, Caches

\* A step of the port keeps the invariant.
LEMMA PortNext ==
    ASSUME IInv, NEW wants \in Wants, NEW accept1 \in BOOLEAN, NEW accept2 \in BOOLEAN, NEW accept3 \in BOOLEAN,
           NEW done_w \in BOOLEAN, NEW done_r \in BOOLEAN,
           clk(wants, accept1, accept2, accept3, done_w, done_r)
    PROVE  IInv'
  <1>1. /\ Write(wants.write, wants.val, accept1, accept2, done_w)
        /\ Read(wants.read, accept3, done_r)
    BY DEF clk
  <1>2. /\ Asks(wants.read)
        /\ wants.write = nullptr \/ wants.write \in Writes
        /\ dc.busy \/ rd[1].busy => wants.write = nullptr
        /\ dc.busy /\ ~pop_b => wants.read[1] = nullptr
        /\ wants.read[1] = nullptr \/ wants.write = nullptr
    BY WantsFacts, SMTT(30)
  <1>3. dc' = dc_nxt(wants.write, wants.val) /\ rd'[1] = rd_nxt(1, wants.read[1])
    BY <1>1, Zenon DEF Write, WriteEdge, Read, ReadEdge, Caches
  <1>4. ReadInv /\ WriteInv /\ dc.busy \in BOOLEAN /\ rd[1].busy \in BOOLEAN /\ ~(dc.busy /\ rd[1].busy)
    BY WriterFacts, ReaderFacts DEF IInv, Separate, WriteInv, WriteTyped, ReadInv, ReadTyped, Caches
  <1>5. LineRead
    <2>1. CASE ~rd[1].busy
      BY <2>1 DEF LineRead
    <2>2. CASE rd[1].busy
      <3>1. ~dc.busy /\ wants.write = nullptr
        BY <1>2, <1>4, <2>2
      <3>2. dc' = dc
        BY <1>3, <3>1, SMTT(30) DEF dc_nxt
      <3>3. \A k \in Beats : mem[k] = dc.line
        BY <1>4, <3>1, Zenon DEF WriteInv, Writing, Written
      <3> QED
        BY <3>2, <3>3, SMTT(30) DEF LineRead
    <2> QED
      BY <2>1, <2>2
  <1>6. ReadInv'
    BY <1>1, <1>2, <1>4, <1>5, ReadNext, Zenon
  <1>7. WriteInv'
    BY <1>1, <1>2, <1>4, WriteNext, SMTT(30)
  <1>8. ~dc'.busy \/ ~rd'[1].busy
    <2>1. CASE rd[1].busy
      <3>1. dc' = dc
        BY <1>2, <1>3, <1>4, <2>1 DEF dc_nxt
      <3> QED
        BY <1>4, <2>1, <3>1
    <2>2. CASE dc.busy /\ pop_b
      BY <1>3, <2>2 DEF dc_nxt, NotWriting
    <2>3. CASE ~rd[1].busy /\ wants.read[1] = nullptr
      BY <1>3, <2>3 DEF rd_nxt, NotReading
    <2>4. CASE ~dc.busy /\ wants.write = nullptr
      BY <1>3, <2>4 DEF dc_nxt
    <2> QED
      BY <1>2, <1>4, <2>1, <2>2, <2>3, <2>4
  <1> QED
    BY <1>6, <1>7, <1>8 DEF IInv, Separate

\* The port starts with nothing in flight.
LEMMA PortInit ==
    ASSUME Init
    PROVE  IInv
  <1>1. PICK v \in Vals : dc = NotWriting(v)
    BY DEF Init, FabricInit
  <1>2. dc.busy = FALSE /\ dc.AWVALID = FALSE /\ dc.line = v /\ dc = NotWriting(dc.line)
    BY <1>1 DEF NotWriting
  <1>3. \A i \in Caches : /\ rd[i] = NotReading /\ rd[i].busy = FALSE /\ rd[i].ARVALID = FALSE /\ rd[i].got = 0
                          /\ pending_r[i] = FALSE /\ pending_w[i] = FALSE
    BY DEF Init, FabricInit, NotReading
  <1>4. grant_r = 0 /\ grant_w = 0 /\ 0 \in Caches /\ 1 \in Caches /\ other(0) = 1
    BY DEF Init, FabricInit, Caches, other
  <1>5. ReadTyped
    BY <1>3, <1>4 DEF ReadTyped, Reader, Init, FabricInit
  <1>6. Arbiter
    BY <1>3, <1>4 DEF Arbiter, cur
  <1>7. Reading /\ ReadSignals
    BY <1>3, <1>4, Zenon DEF Reading, Quiet, ReadSignals, cur, Init, FabricInit
  <1>8. DOMAIN mem = Beats /\ \A k \in Beats : mem[k] = dc.line
    BY DEF Init
  <1>9. WriteTyped
    BY <1>2, <1>4, <1>8 DEF WriteTyped, Writer, Init, FabricInit
  <1>10. Writing
    BY <1>2, <1>8 DEF Writing, Written, NoResponse, Init, FabricInit
  <1>11. WriteSignals
    BY <1>2, <1>3, <1>4, Zenon DEF WriteSignals, Init
  <1>12. Separate
    BY <1>2 DEF Separate
  <1> QED
    BY <1>5, <1>6, <1>7, <1>9, <1>10, <1>11, <1>12 DEF IInv, ReadInv, WriteInv

\* Nothing changes while the port stutters.
LEMMA PortStutters ==
    ASSUME IInv, UNCHANGED vars
    PROVE  IInv'
  <1>1. /\ rd' = rd /\ dc' = dc /\ grant_r' = grant_r /\ pending_r' = pending_r
        /\ grant_w' = grant_w /\ pending_w' = pending_w
        /\ ar' = ar /\ r' = r /\ aw' = aw /\ w' = w /\ b' = b
        /\ aw_ready' = aw_ready /\ w_ready' = w_ready /\ b_valid' = b_valid
        /\ ar_ready' = ar_ready /\ r_valid' = r_valid
        /\ wait_req_w' = wait_req_w /\ wait_resp_b' = wait_resp_b
        /\ wait_req_r' = wait_req_r /\ wait_resp_r' = wait_resp_r
        /\ dram_w' = dram_w /\ dram_r' = dram_r /\ mem' = mem
    BY DEF vars, readers, writers
  <1>2. ReadInv'
    BY <1>1, Zenon DEF IInv, ReadInv, ReadTyped, Reader, Arbiter, Reading, Sent, Served, Ending, Quiet, Beat, OfLine,
        ReadSignals, cur
  <1>3. WriteTyped' /\ WriteSignals' /\ Separate'
    BY <1>1, Zenon DEF IInv, WriteInv, WriteTyped, Writer, WriteSignals, Separate
  <1>4. Writing'
    BY <1>1, Zenon DEF IInv, WriteInv, Writing, Asking, Asked, Sending, Answered, Written, NoResponse, Holds, BeatOut
  <1> QED
    BY <1>2, <1>3, <1>4 DEF IInv, WriteInv

\* For every even length of a line and every set of aligned stores, what is in the
\* slices and at the memory is the access that the cache which holds the bus has
\* under way, and outside a write the memory holds the line the D$ wrote last.
THEOREM PortInvariant == Spec => []IInv
  <1>1. ASSUME IInv, [Next]_vars
        PROVE  IInv'
    <2>1. CASE Next
      <3>1. PICK wants \in Wants, accept1 \in BOOLEAN, accept2 \in BOOLEAN, accept3 \in BOOLEAN,
                 done_w \in BOOLEAN, done_r \in BOOLEAN :
                clk(wants, accept1, accept2, accept3, done_w, done_r)
        BY <2>1, Zenon DEF Next
      <3> QED
        BY <1>1, <3>1, PortNext
    <2>2. CASE UNCHANGED vars
      BY <1>1, <2>2, PortStutters
    <2> QED
      BY <1>1, <2>1, <2>2
  <1> QED
    BY <1>1, PortInit, PTL DEF Spec

\* BeatsConserved: what a cache still waits for is what is in the AR slice, at the
\* memory and in the R slice, so no beat of axi4_buf_r and Axi4Crossbar::clk_rising
\* is lost or given twice.
THEOREM BeatsConservedHolds == Spec => []BeatsConserved
  <1>1. ASSUME IInv, NEW i \in Caches
        PROVE  inflight(i) = IF rd[i].busy /\ ~rd[i].ARVALID THEN rd[i].req.len - rd[i].got ELSE 0
    <2>1. /\ grant_r \in Caches /\ other(grant_r) \in Caches /\ other(grant_r) # grant_r
          /\ i = grant_r \/ i = other(grant_r)
          /\ ReadInv
      BY <1>1, OtherFacts DEF IInv, ReadInv, ReadTyped
    <2>2. Reader(cur, grant_r) /\ cur.busy \in BOOLEAN /\ cur.ARVALID \in BOOLEAN /\ cur.got \in Nat
      BY <2>1, ReaderFacts DEF ReadInv, ReadTyped, cur
    <2>3. CASE ~(cur.busy /\ ~cur.ARVALID)
      <3>1. ar = Empty /\ r = Empty /\ wait_req_r = NoRead
        BY <2>1, <2>3 DEF ReadInv, Reading, Quiet
      <3>2. inflight(i) = 0
        BY <3>1, SMTT(30) DEF inflight, BVALID
      <3>3. ~(rd[i].busy /\ ~rd[i].ARVALID)
        BY <2>1, <2>3 DEF ReadInv, Arbiter, cur
      <3> QED
        BY <3>2, <3>3
    <2>4. CASE cur.busy /\ ~cur.ARVALID
      <3> DEFINE q == cur.req
      <3>1. q # nullptr /\ q.by = grant_r /\ q.len \in Nat \ {0}
        BY <2>1, <2>2, <2>4, ReaderFacts, ReadFacts
      <3>2. Sent \/ Served \/ Ending
        BY <2>1, <2>4 DEF ReadInv, Reading
      <3>3. CASE i = other(grant_r)
        <4>1. ~(rd[i].busy /\ ~rd[i].ARVALID)
          BY <2>1, <3>3 DEF ReadInv, Arbiter
        <4>2. ar = Empty \/ ar[1].by # i
          BY <2>1, <3>1, <3>2, <3>3 DEF Sent, Served, Ending
        <4>3. wait_req_r = NoRead \/ wait_req_r.req.by # i
          BY <2>1, <3>1, <3>2, <3>3, SMTT(30) DEF Sent, Served, Ending
        <4>4. r = Empty \/ r[1].by # i
          BY <2>1, <3>1, <3>2, <3>3 DEF Sent, Served, Ending, Beat
        <4> QED
          BY <4>1, <4>2, <4>3, <4>4 DEF inflight, BVALID
      <3>4. CASE i = grant_r
        <4>1. rd[i].busy /\ ~rd[i].ARVALID /\ rd[i] = cur
          BY <2>4, <3>4 DEF cur
        <4>2. inflight(i) = q.len - cur.got
          <5>1. CASE Sent
            <6>1. ar # Empty /\ ar[1] = q /\ r = Empty /\ wait_req_r = NoRead /\ cur.got = 0
              BY <5>1 DEF Sent, Empty
            <6> QED
              BY <3>1, <3>4, <6>1 DEF inflight, BVALID
          <5>2. CASE Served
            <6>1. /\ ar = Empty /\ wait_req_r.req = q /\ wait_req_r.offset \in 0 .. q.len - 1
                  /\ \/ r = Empty /\ cur.got = wait_req_r.offset
                     \/ Beat(wait_req_r.offset - 1) /\ cur.got = wait_req_r.offset - 1
              BY <5>2, SMTT(30) DEF Served
            <6>2. wait_req_r # NoRead
              BY <3>1, <6>1 DEF NoRead
            <6>3. CASE r = Empty
              <7>1. cur.got = wait_req_r.offset
                BY <6>1, <6>3 DEF Beat, Empty
              <7> QED
                BY <3>1, <3>4, <6>1, <6>2, <6>3, <7>1 DEF inflight, BVALID
            <6>4. CASE r # Empty
              <7>1. r[1].by = i /\ cur.got = wait_req_r.offset - 1
                BY <3>4, <6>1, <6>4 DEF Beat
              <7> QED
                BY <3>1, <3>4, <6>1, <6>2, <6>4, <7>1 DEF inflight, BVALID
            <6> QED
              BY <6>3, <6>4
          <5>3. CASE Ending
            <6>1. ar = Empty /\ wait_req_r = NoRead /\ cur.got = q.len - 1 /\ r # Empty /\ r[1].by = i
              <7>1. Empty # <<r[1]>>
                BY DEF Empty
              <7> QED
                BY <3>4, <5>3, <7>1 DEF Ending, Beat
            <6> QED
              BY <3>1, <6>1 DEF inflight, BVALID
          <5> QED
            BY <3>2, <5>1, <5>2, <5>3, SMTT(30)
        <4> QED
          BY <4>1, <4>2
      <3> QED
        BY <2>1, <3>3, <3>4
    <2> QED
      BY <2>2, <2>3, <2>4
  <1>2. IInv => BeatsConserved
    BY <1>1 DEF BeatsConserved
  <1> QED
    BY <1>2, PortInvariant, PTL

\* AssertionsHold: no assertion of Axi4Crossbar::clk_rising fails, the one of
\* check_wstrb on the byte lanes of every beat included.
THEOREM AssertionsHoldHolds == Spec => []AssertionsHold
  <1>1. ASSUME IInv
        PROVE  AssertionsHold
    <2>1. WriteInv /\ ReadInv
      BY <1>1 DEF IInv
    <2>2. rdata_fire => wait_resp_r
      BY <2>1 DEF rdata_fire, ReadInv, ReadSignals
    <2>3. wack_fire => wait_resp_b
      BY <2>1 DEF wack_fire, WriteInv, WriteSignals
    <2>4. waddr_fire => wait_req_w = NoWrite
      <3>1. waddr_fire => aw # Empty
        BY SMTT(30) DEF waddr_fire, BVALID
      <3> QED
        BY <2>1, <3>1, Zenon DEF WriteInv, Writing, Asking, Asked, Sending, Answered, Written, NoResponse
    <2>5. ASSUME wdata_fire
          PROVE  \E q \in Writes : \E n \in 0 .. q.len - 1 :
                     /\ AcceptedWrite.req = q /\ AcceptedWrite.offset = n
                     /\ w[1].strb = strobe(q, n)
      <3>1. w # Empty /\ w_ready
        BY <2>5 DEF wdata_fire, BVALID
      <3>2. dc.busy /\ (Asked \/ Sending)
        BY <2>1, <3>1, Zenon DEF WriteInv, Writing, Asking, Answered, Written
      <3>3. CASE Asked
        <4>1. dc.req \in Writes /\ dc.req.len \in Nat \ {0} /\ aw = <<dc.req>> /\ BeatOut(0) /\ aw_ready
          BY <2>1, <3>1, <3>2, <3>3, WriterFacts, WriteFacts DEF WriteInv, WriteTyped, Asked
        <4>2. aw # Empty /\ aw[1] = dc.req
          BY <4>1 DEF Empty
        <4>3. waddr_fire
          BY <4>1, <4>2, SMTT(30) DEF waddr_fire, BVALID
        <4>4. AcceptedWrite.req = dc.req /\ AcceptedWrite.offset = 0
          BY <4>2, <4>3, Zenon DEF AcceptedWrite
        <4>5. w[1].strb = strobe(dc.req, 0)
          BY <4>1, SMTT(30) DEF BeatOut
        <4>6. 0 \in 0 .. dc.req.len - 1
          BY <4>1
        <4> QED
          BY <4>1, <4>4, <4>5, <4>6, Zenon
      <3>4. CASE Sending
        <4>1. PICK q, n, p : Underway(q, n, p)
          BY <2>1, <3>2, <3>4, SendingIs, SMTT(30)
        <4>2. /\ q \in Writes /\ n \in 1 .. q.len /\ aw = Empty
              /\ wait_req_w = [req |-> q, offset |-> n, resp_inflight |-> p]
              /\ w = <<[val |-> dc.line, strb |-> strobe(q, n)]>> /\ dc.wleft = q.len - n - 1
              /\ (wait_resp_b => n = q.len) /\ q.len \in Nat /\ dc.wleft \in Nat
          BY <2>1, <3>1, <4>1, WriteFacts, WriterFacts DEF Underway, WriteInv, WriteTyped
        <4>3. n \in 0 .. q.len - 1 /\ ~wait_resp_b
          BY <4>2
        <4>4. ~waddr_fire /\ ~wack_fire
          BY <2>3, <4>2, <4>3, ZenonT(40) DEF waddr_fire, BVALID
        <4>5. AcceptedWrite.req = q /\ AcceptedWrite.offset = n
          BY <4>2, <4>4, Zenon DEF AcceptedWrite
        <4>6. w[1].strb = strobe(q, n)
          BY <4>2
        <4> QED
          BY <4>2, <4>3, <4>5, <4>6, Zenon
      <3> QED
        BY <3>2, <3>3, <3>4
    <2>6. ASSUME wdata_fire
          PROVE  /\ AcceptedWrite # NoWrite /\ AcceptedWrite.offset < AcceptedWrite.req.len
                 /\ w[1].strb = excp_wstrb((AcceptedWrite.req.lane + AcceptedWrite.offset * 2 ^ AcceptedWrite.req.size) % 8,
                                           AcceptedWrite.req.size)
      <3>1. PICK q \in Writes : \E n \in 0 .. q.len - 1 :
                /\ AcceptedWrite.req = q /\ AcceptedWrite.offset = n
                /\ w[1].strb = strobe(q, n)
        BY <2>5, <2>6
      <3>2. PICK n \in 0 .. q.len - 1 :
                /\ AcceptedWrite.req = q /\ AcceptedWrite.offset = n
                /\ w[1].strb = strobe(q, n)
        BY <3>1
      <3>3. q # nullptr /\ q.len \in Nat
        BY WriteFacts
      <3>4. AcceptedWrite # NoWrite
        BY <3>2, <3>3 DEF NoWrite
      <3>5. n < q.len
        BY <3>3
      <3>6. strobe(q, n) = excp_wstrb((q.lane + n * 2 ^ q.size) % 8, q.size)
        BY StrobeExpected
      <3> QED
        BY <3>2, <3>4, <3>5, <3>6, Zenon
    <2> QED
      BY <2>2, <2>3, <2>4, <2>6, Zenon DEF AssertionsHold
  <1> QED
    BY <1>1, PortInvariant, PTL

\* ReadsBack: the D$ reads back the line it last wrote, whatever the I$ reads
\* meanwhile, and RLAST comes with the last beat that axi_ar_len asked for.
THEOREM ReadsBackHolds == Spec => []ReadsBack
  <1>1. ASSUME IInv
        PROVE  ReadsBack
    <2>1. SUFFICES ASSUME r # Empty
                   PROVE  /\ r[1].last <=> cur.got = cur.req.len - 1
                          /\ grant_r = 1 /\ ~cur.req.uncached => r[1].val = <<dc.line>>
      BY DEF ReadsBack, BVALID, cur
    <2>2. Beat(cur.got)
      <3>1. cur.busy /\ ~cur.ARVALID /\ (Served \/ Ending)
        BY <1>1, <2>1, Zenon DEF IInv, ReadInv, Reading, Quiet, Sent
      <3> QED
        BY <2>1, <3>1 DEF Served, Ending
    <2> QED
      BY <2>2 DEF Beat, OfLine
  <1> QED
    BY <1>1, PortInvariant, PTL
=============================================================================
