------------------------------- MODULE ICache -------------------------------
(***************************************************************************)
(* The instruction cache icache.v, and the ICINV handshake by which the    *)
(* commit stage (cmt.v) invalidates one of its sets.  A step is a clock    *)
(* edge; the fetch unit, the bus and the rest of the core choose its       *)
(* inputs.  A fetch goes through s1 (tags and words are read) and s2 (the  *)
(* word is delivered).  Main memory is external: each line has a version,  *)
(* which a store of the program raises.                                    *)
(***************************************************************************)
EXTENDS Integers, FiniteSets

CONSTANTS
    Tags, SETS, WAYS,
    WORDS,      \* fetch words of a line, each one beat of a refill
    Fetch,      \* the fetches: [tag, set, word, kind]
    Stored,     \* the lines the program stores to: <<tag, set>>
    MaxVersion  \* bound on the stores to a line

ASSUME Parameters ==
    /\ SETS \in Nat \ {0} /\ WAYS \in Nat \ {0} /\ WORDS \in Nat \ {0} /\ MaxVersion \in Nat

Sets == 0 .. SETS - 1
Ways == 0 .. WAYS - 1
Words == 0 .. WORDS - 1
Halves == {0, 1}        \* an uncached word is read in two transactions

None == -1              \* an invalid tag, no set, no line
Datum == [tag : Tags, set : Sets, word : Words, ver : 0 .. MaxVersion]
Junk == [tag |-> None, set |-> 0, word |-> 0, ver |-> 0]

ASSUME FetchType ==
    /\ Fetch \subseteq [tag : Tags, set : Sets, word : Words, kind : {"cached", "uncached", "killed"}]
    /\ Stored \subseteq Tags \X Sets
    /\ None \notin Tags

NoFetch == [tag |-> None, set |-> 0, word |-> 0, kind |-> "killed"]

VARIABLES
    state, boot_cnt, refill_cnt, uncached_cnt,  \* fsm_state_ff and its counters
    free_way,           \* fsm_free_way and s2o_fsm_free_way: <<clock hand, victim>>
    tag_v, payload,     \* the RAMs: [Ways -> [Sets -> ...]]
    s1,                 \* [fetch, tags, words]: s1o_*, what the RAMs gave
    s2,                 \* the fetch in stage 2, s2o_*
    inflight,           \* s2o_miss_inflight, s2o_uncached_inflight: "miss", "uncached", "no"
    inv_line,           \* s1o_op_inv_line
    ins,                \* the word delivered, by halves
    bus,                \* [ar, beat]: the read transaction
    mem,                \* version of each line of main memory
    icinv,              \* the set the WMSR ICINV at the head of the ROB names
    fresh               \* what fetches must not be older than (see FetchesAreFresh)

fsm == <<state, boot_cnt, refill_cnt, uncached_cnt, free_way, inflight, inv_line>>
vars == <<fsm, tag_v, payload, s1, s2, ins, bus, mem, icinv, fresh>>

Init ==
    /\ state = "BOOT" /\ boot_cnt = 0 /\ refill_cnt = 0 /\ uncached_cnt = 0
    /\ free_way = <<0, 0>> /\ inflight = "no" /\ inv_line = 0
    /\ tag_v \in [Ways -> [Sets -> Tags \cup {None}]]
    /\ payload = [w \in Ways |-> [s \in Sets |-> [k \in Words |-> Junk]]]
    /\ s1 = [fetch |-> NoFetch, tags |-> [w \in Ways |-> None], words |-> [w \in Ways |-> Junk]]
    /\ s2 = NoFetch /\ ins = [h \in Halves |-> Junk]
    /\ bus = [ar |-> "none", beat |-> 0]
    /\ mem = [t \in Tags |-> [s \in Sets |-> 0]]
    /\ icinv = None
    /\ fresh = [lines |-> mem, s1 |-> 0, s2 |-> 0]

fsm_idle == state = "IDLE"
hit_ways == {w \in Ways : s1.tags[w] = s1.fetch.tag}

\* What stage 2 starts at this edge for the fetch that enters it.
s2i_inflight ==
    CASE s1.fetch.kind = "uncached" -> "uncached"
      [] s1.fetch.kind = "cached" /\ hit_ways = {} -> "miss"
      [] OTHER -> "no"

\* ICINV is refused while the I$ is idle and let through while it is busy.
msr_icinv_ready == ~fsm_idle

reboot(kind) == CASE kind = "uncached" -> "UNCACHED_BOOT"
                  [] kind = "miss" -> "REPLACE"
                  [] OTHER -> "IDLE"

state_nxt(p_ce, icinv_we, R, last) ==
    CASE state = "BOOT" -> IF boot_cnt = SETS - 1 THEN "IDLE" ELSE "BOOT"
      [] fsm_idle -> IF icinv_we THEN "INVALIDATE" ELSE IF p_ce THEN reboot(s2i_inflight) ELSE "IDLE"
      [] state = "REPLACE" -> "REFILL"
      [] state = "REFILL" -> IF R /\ last THEN "RELOAD_S1O" ELSE "REFILL"
      [] state = "INVALIDATE" -> reboot(inflight)
      [] state = "RELOAD_S1O" -> "IDLE"
      [] state = "UNCACHED_BOOT" -> "UNCACHED_READ"
      [] state = "UNCACHED_READ" -> IF R /\ uncached_cnt = 1 THEN "IDLE" ELSE "UNCACHED_READ"

\* mutant: the counter does not wrap at the end of a line
refill_cnt_nxt_NoWrap(R) == IF state = "REFILL" /\ R THEN refill_cnt + 1 ELSE refill_cnt

refill_cnt_nxt(R) == IF state = "REFILL" /\ R THEN (refill_cnt + 1) % WORDS ELSE refill_cnt

\* mutant: only the way the clock hand points to is invalidated
tag_v_nxt_OneWay ==
    CASE state = "BOOT" -> [w \in Ways |-> [tag_v[w] EXCEPT ![boot_cnt] = None]]
      [] state = "INVALIDATE" -> [tag_v EXCEPT ![free_way[1]][inv_line] = None]
      [] state = "REPLACE" -> [tag_v EXCEPT ![free_way[1]][s2.set] = s2.tag]
      [] OTHER -> tag_v

\* The set the tag RAM is written at, and what is written, in each state.
tag_v_nxt ==
    CASE state = "BOOT" -> [w \in Ways |-> [tag_v[w] EXCEPT ![boot_cnt] = None]]
      [] state = "INVALIDATE" -> [w \in Ways |-> [tag_v[w] EXCEPT ![inv_line] = None]]
      [] state = "REPLACE" -> [tag_v EXCEPT ![free_way[1]][s2.set] = s2.tag]
      [] OTHER -> tag_v

\* A refill writes RDATA at every edge, whether or not it is valid yet.
payload_nxt(RDATA) ==
    IF state = "REFILL" THEN [payload EXCEPT ![free_way[2]][s2.set][refill_cnt] = RDATA] ELSE payload

\* Stage 1 reads the RAMs when a fetch enters, and again after a refill.
read(f) == [fetch |-> f, tags |-> [w \in Ways |-> tag_v[w][f.set]],
            words |-> [w \in Ways |-> payload[w][f.set][f.word]]]

s1_nxt(p_ce, f) ==
    IF p_ce THEN read(f) ELSE IF state = "RELOAD_S1O" THEN read(s1.fetch) ELSE s1

match_payload == IF Cardinality(hit_ways) = 1 THEN s1.words[CHOOSE w \in hit_ways : TRUE] ELSE Junk

\* mutant: the last beat of a refill is delivered, whichever word it is
ins_nxt_AnyBeat(p_ce, RDATA) ==
    CASE state = "REFILL" -> [h \in Halves |-> RDATA]
      [] state = "UNCACHED_READ" -> [ins EXCEPT ![uncached_cnt] = RDATA]
      [] p_ce -> [h \in Halves |-> match_payload]
      [] OTHER -> ins

ins_nxt(p_ce, RDATA) ==
    CASE state = "REFILL" -> IF refill_cnt = s2.word THEN [h \in Halves |-> RDATA] ELSE ins
      [] state = "UNCACHED_READ" -> [ins EXCEPT ![uncached_cnt] = RDATA]
      [] p_ce -> [h \in Halves |-> match_payload]
      [] OTHER -> ins

\* mutant: the second half of an uncached word is never asked for
ar_set_Once(R) == state \in {"REPLACE", "UNCACHED_BOOT"}

\* The bus: a refill is one burst, an uncached word two reads of one beat.
ar_set(R) ==
    \/ state \in {"REPLACE", "UNCACHED_BOOT"}
    \/ state = "UNCACHED_READ" /\ R /\ uncached_cnt = 0

rlast == state = "REFILL" => bus.beat = WORDS - 1

bus_nxt(ready, R) ==
    IF ar_set(R) THEN [ar |-> "valid", beat |-> 0]
    ELSE CASE bus.ar = "valid" /\ ready -> [bus EXCEPT !.ar = "taken"]
           [] R /\ rlast -> [ar |-> "none", beat |-> 0]
           [] R /\ ~rlast -> [bus EXCEPT !.beat = @ + 1]
           [] OTHER -> bus

\* An edge: f is the fetch the fetch unit offers, iq_ready says the prefetch
\* buffer has room, ready that the bus takes the address or gives a beat, ce that
\* the LSU does not stall the commit stage; inv is the next ICINV of the program,
\* and store the line it writes.
Clock(f, iq_ready, ready, ce, inv, store) ==
    LET p_ce == fsm_idle /\ iq_ready
        icinv_we == icinv # None /\ ce
        R == ready /\ bus.ar = "taken"
        word == IF state = "REFILL" THEN bus.beat ELSE s2.word
        RDATA == IF R THEN [tag |-> s2.tag, set |-> s2.set, word |-> word, ver |-> mem[s2.tag][s2.set]]
                 ELSE Junk
        lines == IF state = "INVALIDATE"
                 THEN [t \in Tags |-> [fresh.lines[t] EXCEPT ![inv_line] = mem[t][inv_line]]]
                 ELSE fresh.lines
    IN  /\ state' = state_nxt(p_ce, icinv_we, R, rlast)
        /\ boot_cnt' = (boot_cnt + 1) % SETS
        /\ refill_cnt' = refill_cnt_nxt(R)
        /\ uncached_cnt' = IF state = "UNCACHED_READ" /\ R THEN (uncached_cnt + 1) % 2 ELSE uncached_cnt
        /\ free_way' = <<(free_way[1] + 1) % WAYS,
                         IF state = "REPLACE" THEN free_way[1] ELSE free_way[2]>>
        /\ inflight' = IF fsm_idle THEN IF p_ce THEN s2i_inflight ELSE "no" ELSE inflight
        /\ inv_line' = IF fsm_idle /\ icinv # None THEN icinv ELSE inv_line
        /\ tag_v' = tag_v_nxt
        /\ payload' = payload_nxt(RDATA)
        /\ s1' = s1_nxt(p_ce, f)
        /\ s2' = IF p_ce THEN s1.fetch ELSE s2
        /\ ins' = ins_nxt(p_ce, RDATA)
        /\ bus' = bus_nxt(ready, R)
        /\ mem' = IF store = <<>> THEN mem ELSE [mem EXCEPT ![store[1]][store[2]] = @ + 1]
        /\ icinv' = IF icinv = None THEN inv ELSE IF icinv_we /\ msr_icinv_ready THEN None ELSE icinv
        /\ fresh' = [lines |-> lines,
                     s1 |-> IF p_ce THEN lines[f.tag][f.set] ELSE fresh.s1,
                     s2 |-> IF p_ce THEN fresh.s1 ELSE fresh.s2]

Stores == {<<>>} \cup {l \in Stored : mem[l[1]][l[2]] < MaxVersion}

\* An input nothing looks at is given one value.
Next == \E f \in IF fsm_idle THEN Fetch ELSE {NoFetch},
           iq_ready \in IF fsm_idle THEN BOOLEAN ELSE {FALSE},
           ready \in IF bus.ar # "none" THEN BOOLEAN ELSE {FALSE},
           ce \in IF icinv # None THEN BOOLEAN ELSE {FALSE},
           inv \in IF icinv = None /\ state # "BOOT" THEN Sets \cup {None} ELSE {None}, store \in Stores :
            Clock(f, iq_ready, ready, ce, inv, store)

\* The clock runs, and the bus and the LSU are ready at infinitely many edges.
Fairness == WF_vars(\E f \in IF fsm_idle THEN Fetch ELSE {NoFetch} :
                        Clock(f, fsm_idle, bus.ar # "none", icinv # None, None, <<>>))

Spec == Init /\ [][Next]_vars /\ Fairness
-----------------------------------------------------------------------------

\* The word given to the prefetch buffer is the word of memory the fetch asked
\* for: hit, refilled, or read uncached in two halves, and whatever was replaced
\* or invalidated while it was in the pipeline.
DeliversWordAsked ==
    fsm_idle /\ s2.kind # "killed" =>
        \A h \in Halves : /\ ins[h].tag = s2.tag /\ ins[h].set = s2.set /\ ins[h].word = s2.word

\* A fetch that enters after the I$ has invalidated a set never gets a word of
\* that set older than memory was at the invalidation.
FetchesAreFresh ==
    fsm_idle /\ s2.kind # "killed" => \A h \in Halves : ins[h].ver >= fresh.s2

\* The I$ always comes back to idle, so that fetching goes on.
ReturnsToIdle == []<>fsm_idle
=============================================================================
