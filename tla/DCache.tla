------------------------------- MODULE DCache -------------------------------
(***************************************************************************)
(* The data cache dcache.v: write-back, write-allocate, with uncached      *)
(* accesses and the DCINV and DCFLS operations.  A step is a clock edge.   *)
(* The LSU of the commit stage has one access at a time in the two stages  *)
(* (see AccessOnce of Commit), so that the bypass of the D flags, which    *)
(* serves back-to-back accesses, never comes into play.  The bus and main  *)
(* memory are external: W and AW may be taken in either order.             *)
(* A word is known by its address and by a version for each of its bytes.  *)
(***************************************************************************)
EXTENDS Integers, FiniteSets

CONSTANTS
    Tags, SETS, WAYS,
    WORDS,      \* words of a line, each one beat of a burst
    Lanes,      \* bytes of a word
    Masks,      \* the byte masks of stores
    Watched     \* the words whose bytes have two versions

Sets == 0 .. SETS - 1
Ways == 0 .. WAYS - 1
Words == 0 .. WORDS - 1
Addr == [tag : Tags, set : Sets, word : Words]

ASSUME Parameters ==
    /\ SETS \in Nat \ {0} /\ WAYS \in Nat \ {0} /\ Tags \subseteq Nat
    /\ WORDS \in Nat \ {0} /\ WORDS % 2 = 0     \* the bus is two words wide
    /\ Watched \subseteq Addr
    /\ Masks \subseteq (SUBSET Lanes) \ {{}}

None == -1
NoAddr == [tag |-> None, set |-> 0, word |-> 0]
Junk == [at |-> NoAddr, ver |-> [l \in Lanes |-> 0]]
Datum == [at : Addr, ver : [Lanes -> 0 .. 1]]

\* An access: kill_req_s2 and uncached_s2 are part of it.
Versions(a) == IF a \in Watched THEN 0 .. 1 ELSE {0}
Access ==
    [a : Addr, op : {"load", "fls", "inv"}, kind : {"cached", "uncached", "killed"}, msk : {{}}, ver : {0}]
    \cup [a : Addr, op : {"store"}, kind : {"cached", "uncached", "killed"},
          msk : Masks, ver : 0 .. 1]
NoAccess == [a |-> NoAddr, op |-> "none", kind |-> "killed", msk |-> {}, ver |-> 0]

VARIABLES
    state, boot_cnt, refill_cnt,        \* fsm_state_ff and its counters
    free_way,                           \* fsm_free_way
    tag_v, dirty, payload,              \* the RAMs: [Ways -> [Sets -> ...]]
    rdat,                               \* the output of the payload RAM of each way
    s1, s2,                             \* the access in each stage
    victim, match,                      \* s2o_fsm_free_way; s2o_match_vec
    free_tag, free_dirty, s2o_d,        \* the victim's tag and D flag; all D flags
    wb_addr,                            \* s2o_wb_addr
    rdata,                              \* axi_aligned_rdata_ff
    rd, wr,                             \* the read and the write transaction
    mem,                                \* main memory
    golden                              \* the versions a program must see

fsm == <<state, boot_cnt, refill_cnt, free_way>>
s2o == <<s2, victim, match, free_tag, free_dirty, s2o_d>>
vars == <<fsm, tag_v, dirty, payload, rdat, s1, s2o, wb_addr, rdata, rd, wr, mem, golden>>

Init ==
    /\ state = "BOOT" /\ boot_cnt = 0 /\ refill_cnt = 0 /\ free_way = 0
    /\ tag_v = [w \in Ways |-> [s \in Sets |-> None]]
    /\ dirty = [w \in Ways |-> [s \in Sets |-> FALSE]]
    /\ payload = [w \in Ways |-> [s \in Sets |-> [k \in Words |-> Junk]]]
    /\ rdat = [w \in Ways |-> Junk] /\ rdata = Junk
    /\ s1 = NoAccess /\ s2 = NoAccess /\ victim = 0 /\ match = {}
    /\ free_tag = None /\ free_dirty = FALSE /\ s2o_d = [w \in Ways |-> FALSE] /\ wb_addr = 0
    /\ rd = [ar |-> "none", addr |-> NoAddr, beat |-> 0, last |-> 0]
    /\ wr = [aw |-> "none", addr |-> NoAddr, w |-> "none", beat |-> 0]
    /\ golden = [a \in Addr |-> [l \in Lanes |-> 0]]
    /\ mem = [a \in Addr |-> [at |-> a, ver |-> golden[a]]]

p_ce == state = "IDLE"      \* ~stall_req
line(a) == [a EXCEPT !.word = 0]

\* The word d after the bytes of the store x are written over it.
stored(d, x) == IF d = Junk THEN Junk ELSE [d EXCEPT !.ver = [l \in Lanes |-> IF l \in x.msk THEN x.ver ELSE @[l]]]

s2i_hit_vec == {w \in Ways : s1.op # "none" /\ tag_v[w][s1.a.set] = s1.a.tag}
s2i_ready == state = "IDLE" /\ s1.op \in {"load", "store"} /\ s1.kind = "cached" /\ s2i_hit_vec # {}
match_dirty == \E w \in match : s2o_d[w]

\* mutant: a flush writes back the way the clock hand pointed to
wb_way_Victim == {victim}
wb_way == IF s2.op = "fls" THEN match ELSE {victim}

\* The handshakes of the bus that may take place at this edge.
Offered ==
    (IF rd.ar = "valid" THEN {"AR"} ELSE {})
    \cup (IF rd.ar = "taken" /\ state \in {"REFILL", "UNCACHED_READ"} THEN {"R"} ELSE {})
    \cup (IF wr.aw = "valid" THEN {"AW"} ELSE {})
    \cup (IF wr.w \in {"valid", "last"} THEN {"W"} ELSE {})
    \cup (IF wr.aw = "taken" /\ wr.w = "taken" THEN {"B"} ELSE {})

state_nxt(hds) ==
    CASE state = "BOOT" -> IF boot_cnt = SETS - 1 THEN "IDLE" ELSE "BOOT"
      [] state = "IDLE" ->
           (CASE s1.op = "inv" -> "INVALIDATE"
              [] s1.op = "fls" /\ s2i_hit_vec # {} -> "FLUSH"
              [] s1.op \in {"load", "store"} /\ s1.kind = "uncached" -> "UNCACHED_BOOT"
              [] s1.op \in {"load", "store"} /\ s1.kind = "cached" /\ ~s2i_ready -> "REPLACE"
              [] OTHER -> "IDLE")
      [] state = "REPLACE" -> IF free_dirty THEN "WRITEBACK" ELSE "REFILL"
      [] state = "WRITEBACK" -> IF "B" \notin hds THEN state ELSE IF s2.op = "fls" THEN "IDLE" ELSE "REFILL"
      [] state = "REFILL" -> IF "R" \in hds /\ rd.beat = rd.last THEN "RELOAD_S1O_S2O" ELSE "REFILL"
      [] state \in {"INVALIDATE", "RELOAD_S1O_S2O"} -> "IDLE"
      [] state = "FLUSH" -> IF match_dirty THEN "WRITEBACK" ELSE "IDLE"
      [] state = "UNCACHED_BOOT" -> IF s2.msk # {} THEN "UNCACHED_WRITE" ELSE "UNCACHED_READ"
      [] state = "UNCACHED_READ" -> IF "R" \in hds THEN "IDLE" ELSE state
      [] state = "UNCACHED_WRITE" -> IF "B" \in hds THEN "IDLE" ELSE state

\* mutant: a line that was written back is not refilled
ar_set_CleanOnly(hds) == (state = "REPLACE" /\ ~free_dirty) \/ (state = "UNCACHED_BOOT" /\ s2.msk = {})

ar_set(hds) ==
    \/ state = "REPLACE" /\ ~free_dirty
    \/ state = "WRITEBACK" /\ "B" \in hds /\ s2.op # "fls"
    \/ state = "UNCACHED_BOOT" /\ s2.msk = {}
aw_set ==
    \/ state = "REPLACE" /\ free_dirty
    \/ state = "FLUSH" /\ match_dirty
    \/ state = "UNCACHED_BOOT" /\ s2.msk # {}

\* mutant: the line that is replaced is written back to where the new one comes from
axi_paddr_nxt_NewLine == IF state = "UNCACHED_BOOT" THEN s2.a ELSE line(s2.a)

axi_paddr_nxt ==
    CASE state = "UNCACHED_BOOT" -> s2.a
      [] state = "REPLACE" /\ aw_set -> [tag |-> free_tag, set |-> s2.a.set, word |-> 0]
      [] OTHER -> line(s2.a)

\* The payload RAM is read one word ahead of the write channel.

s2i_wb_re(hds) ==
    (aw_set /\ state # "UNCACHED_BOOT") \/ (state = "WRITEBACK" /\ "W" \in hds /\ refill_cnt # 0)

\* mutant: the counter does not wrap at the end of a line
refill_cnt_nxt_NoWrap(hds) ==
    IF (state = "REFILL" /\ "R" \in hds) \/ s2i_wb_re(hds) THEN refill_cnt + 1 ELSE refill_cnt

refill_cnt_nxt(hds) ==
    IF (state = "REFILL" /\ "R" \in hds) \/ s2i_wb_re(hds) THEN (refill_cnt + 1) % WORDS ELSE refill_cnt

tag_v_nxt ==
    CASE state = "BOOT" -> [w \in Ways |-> [tag_v[w] EXCEPT ![boot_cnt] = None]]
      [] state = "INVALIDATE" -> [w \in Ways |-> [tag_v[w] EXCEPT ![s2.a.set] = None]]
      [] state = "REPLACE" -> [tag_v EXCEPT ![victim][s2.a.set] = s2.a.tag]
      [] OTHER -> tag_v

\* mutant: a store that missed does not set D
dirty_nxt_NoReload ==
    CASE state = "BOOT" -> [w \in Ways |-> [dirty[w] EXCEPT ![boot_cnt] = FALSE]]
      [] state = "INVALIDATE" -> [w \in Ways |-> [dirty[w] EXCEPT ![s2.a.set] = FALSE]]
      [] state = "REPLACE" -> [dirty EXCEPT ![victim][s2.a.set] = FALSE]
      [] state = "RELOAD_S1O_S2O" -> [dirty EXCEPT ![victim][s2.a.set] = s2o_d[victim]]
      [] s2i_ready -> [w \in Ways |-> IF w \in s2i_hit_vec THEN [dirty[w] EXCEPT ![s1.a.set] = @ \/ s1.msk # {}]
                                      ELSE dirty[w]]
      [] OTHER -> dirty

dirty_nxt ==
    CASE state = "BOOT" -> [w \in Ways |-> [dirty[w] EXCEPT ![boot_cnt] = FALSE]]
      [] state = "INVALIDATE" -> [w \in Ways |-> [dirty[w] EXCEPT ![s2.a.set] = FALSE]]
      [] state = "REPLACE" -> [dirty EXCEPT ![victim][s2.a.set] = FALSE]
      [] state = "RELOAD_S1O_S2O" -> [dirty EXCEPT ![victim][s2.a.set] = s2o_d[victim] \/ s2.msk # {}]
      [] s2i_ready -> [w \in Ways |-> IF w \in s2i_hit_vec THEN [dirty[w] EXCEPT ![s1.a.set] = @ \/ s1.msk # {}]
                                      ELSE dirty[w]]
      [] OTHER -> dirty

\* The word the aligners pick from the bus: the beat says which pair of words,
\* the low bit of cnt which of the two.
beat_word(beat, cnt) == 2 * (beat \div 2) + (cnt % 2)

\* The ways whose payload RAM is written; while the refill waits for a beat,
\* whatever is on the bus is.
s2i_payload_we ==
    CASE s2i_ready /\ s1.msk # {} -> s2i_hit_vec
      [] state = "REFILL" \/ (state = "RELOAD_S1O_S2O" /\ s2.msk # {}) -> {victim}
      [] OTHER -> {}

payload_nxt(hds) ==
    LET x == IF state = "IDLE" THEN s1 ELSE s2
        k == IF state = "REFILL" THEN refill_cnt ELSE x.a.word
        din(old) == IF state # "REFILL" THEN stored(old, x)
                    ELSE IF "R" \in hds THEN mem[[rd.addr EXCEPT !.word = beat_word(rd.beat, k)]]
                    ELSE Junk
    IN  [w \in Ways |-> IF w \in s2i_payload_we THEN [payload[w] EXCEPT ![x.a.set][k] = din(@)] ELSE payload[w]]

\* The output of a RAM cell is undefined in the cycle after a write to it.
rdat_nxt(hds) ==
    LET re == p_ce \/ s2i_wb_re(hds) \/ state = "RELOAD_S1O_S2O"
        a == CASE s2i_wb_re(hds) -> [s2.a EXCEPT !.word = refill_cnt]
               [] state = "RELOAD_S1O_S2O" -> s2.a
               [] OTHER -> s1.a
    IN  [w \in Ways |->
           IF w \in s2i_payload_we THEN Junk
           ELSE IF re THEN IF a = NoAddr THEN Junk ELSE payload[w][a.set][a.word]
           ELSE rdat[w]]

wb_data == rdat[CHOOSE w \in wb_way : TRUE]

\* Main memory takes a beat of the write channel.
mem_nxt(hds) ==
    IF "W" \notin hds THEN mem
    ELSE IF state = "WRITEBACK"
    THEN [mem EXCEPT ![[wr.addr EXCEPT !.word = beat_word(wr.beat, wb_addr)]] = wb_data]
    ELSE [mem EXCEPT ![wr.addr] = stored(@, s2)]

rd_nxt(hds) ==
    IF ar_set(hds) THEN [ar |-> "valid", addr |-> axi_paddr_nxt, beat |-> 0, last |-> 0]
    ELSE CASE "AR" \in hds -> [rd EXCEPT !.ar = "taken", !.last = IF state = "UNCACHED_READ" THEN 0 ELSE WORDS - 1]
           [] "R" \in hds /\ rd.beat < rd.last -> [rd EXCEPT !.beat = @ + 1]
           [] "R" \in hds /\ rd.beat = rd.last -> [ar |-> "none", addr |-> NoAddr, beat |-> 0, last |-> 0]
           [] OTHER -> rd

w_nxt(hds) ==
    CASE aw_set -> IF state = "UNCACHED_BOOT" THEN "last" ELSE "valid"
      [] "W" \in hds -> IF wr.w = "last" THEN "taken" ELSE IF refill_cnt = WORDS - 1 THEN "last" ELSE "valid"
      [] "B" \in hds -> "none"
      [] OTHER -> wr.w
wr_nxt(hds) ==
    [aw |-> CASE aw_set -> "valid" [] "AW" \in hds -> "taken" [] "B" \in hds -> "none" [] OTHER -> wr.aw,
     addr |-> IF aw_set THEN axi_paddr_nxt ELSE IF "B" \in hds THEN NoAddr ELSE wr.addr,
     w |-> w_nxt(hds),
     beat |-> IF aw_set \/ "B" \in hds THEN 0 ELSE IF "W" \in hds THEN wr.beat + 1 ELSE wr.beat]

dout == IF s2.kind = "uncached" THEN rdata ELSE rdat[CHOOSE w \in match : TRUE]

\* What the program must see: a store takes effect, a DCINV gives up what was
\* stored in the set and not yet written back.
golden_nxt ==
    CASE p_ce /\ s1.op = "store" /\ s1.kind # "killed" ->
           [golden EXCEPT ![s1.a] = [l \in Lanes |-> IF l \in s1.msk THEN s1.ver ELSE @[l]]]
      [] state = "INVALIDATE" -> [a \in Addr |-> IF a.set = s2.a.set THEN mem[a].ver ELSE golden[a]]
      [] OTHER -> golden

\* An edge: req enters, and the handshakes hds take place.
Clock(req, hds) ==
    /\ state' = state_nxt(hds) /\ refill_cnt' = refill_cnt_nxt(hds)
    /\ boot_cnt' = (boot_cnt + 1) % SETS /\ free_way' = (free_way + 1) % WAYS
    /\ tag_v' = tag_v_nxt /\ dirty' = dirty_nxt
    /\ payload' = payload_nxt(hds) /\ rdat' = rdat_nxt(hds)
    /\ wb_addr' = IF s2i_wb_re(hds) THEN refill_cnt ELSE wb_addr
    /\ rd' = rd_nxt(hds) /\ wr' = wr_nxt(hds) /\ mem' = mem_nxt(hds)
    /\ rdata' = IF "R" \in hds /\ state = "UNCACHED_READ" THEN mem[rd.addr] ELSE rdata
    /\ golden' = golden_nxt
    /\ match' = IF state = "RELOAD_S1O_S2O" THEN {victim} ELSE IF p_ce THEN s2i_hit_vec ELSE match
    /\ IF p_ce
       THEN /\ s1' = req /\ s2' = s1 /\ victim' = free_way
            /\ s2o_d' = [w \in Ways |-> dirty[w][s1.a.set]]
            /\ free_dirty' = dirty[free_way][s1.a.set] /\ free_tag' = tag_v[free_way][s1.a.set]
       ELSE UNCHANGED <<s1, s2, victim, s2o_d, free_dirty, free_tag>>

\* The LSU asks when no access is in the stages.  Software keeps uncached
\* accesses away from lines that are in the cache.
Requests ==
    {NoAccess} \cup
    IF state # "IDLE" \/ s1 # NoAccess \/ s2 # NoAccess THEN {}
    ELSE {x \in Access :
            /\ x.ver \in Versions(x.a)
            /\ x.op \in {"inv", "fls"} => x.kind = "cached"
            /\ x.kind = "uncached" => \A w \in Ways : tag_v[w][x.a.set] # x.a.tag}

Next == \E req \in Requests, hds \in SUBSET Offered : Clock(req, hds)

\* The clock runs and the bus is ready again and again.
Fairness == WF_vars(\E req \in Requests : Clock(req, Offered))

Spec == Init /\ [][Next]_vars /\ Fairness
-----------------------------------------------------------------------------

Current(a) == [at |-> a, ver |-> golden[a]]

\* A load returns the bytes last stored at its address, whatever was refilled,
\* evicted, flushed or accessed uncached in between.
LoadsLastStore ==
    s2.op = "load" /\ s2.kind # "killed" /\ state = "IDLE" => dout = Current(s2.a)

\* Between accesses no store is lost: every byte is current in the cache, or in
\* memory if its line is not in the cache, and a line without D is in memory too.
NothingLost ==
    state = "IDLE" /\ s1 = NoAccess =>
        \A a \in Addr :
            LET ways == {w \in Ways : tag_v[w][a.set] = a.tag}
            IN  /\ \A w \in ways : payload[w][a.set][a.word] = Current(a)
                /\ (\A w \in ways : ~dirty[w][a.set]) => mem[a] = Current(a)

\* When a DCFLS is over, the line it names is in memory.
FlushReachesMemory ==
    s2.op = "fls" /\ state = "IDLE" => \A k \in Words : LET a == [s2.a EXCEPT !.word = k] IN mem[a] = Current(a)

\* The cache serves the pipeline again at last: every miss, writeback, flush or
\* uncached access comes to an end.
ReturnsToIdle == state # "IDLE" ~> state = "IDLE"
=============================================================================
