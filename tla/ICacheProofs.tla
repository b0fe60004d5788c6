---------------------------- MODULE ICacheProofs ----------------------------
(***************************************************************************)
(* The instruction cache of ICache, for every number of sets, ways, words  *)
(* and tags, every set of fetches and of stores: it delivers the word that *)
(* was asked for, and never one older than the last invalidation of its    *)
(* set before the fetch entered.  Then address translation, Mmu, for any   *)
(* number of sets, pages and instructions in flight and any values of the  *)
(* entries: translation at fetch and at access is the emulator's.          *)
(***************************************************************************)
EXTENDS ICache, Mmu, Sequences, FiniteSetTheorems, TLAPS

States == {"BOOT", "IDLE", "REPLACE", "REFILL", "INVALIDATE", "RELOAD_S1O", "UNCACHED_BOOT", "UNCACHED_READ"}
Kinds == {"cached", "uncached", "killed"}
Fetches == [tag : Tags \cup {None}, set : Sets, word : Words, kind : Kinds]
Data == [tag : Tags \cup {None}, set : Sets, word : Words, ver : Nat]

TypeOK ==
    /\ state \in States /\ boot_cnt \in Sets /\ refill_cnt \in Words /\ uncached_cnt \in Halves
    /\ free_way \in Ways \X Ways /\ inflight \in {"miss", "uncached", "no"} /\ inv_line \in Sets
    /\ tag_v \in [Ways -> [Sets -> Tags \cup {None}]]
    /\ payload \in [Ways -> [Sets -> [Words -> Data]]]
    /\ s1 \in [fetch : Fetches, tags : [Ways -> Tags \cup {None}], words : [Ways -> Data]]
    /\ s2 \in Fetches /\ ins \in [Halves -> Data]
    /\ bus \in [ar : {"none", "valid", "taken"}, beat : Nat]
    /\ mem \in [Tags -> [Sets -> Nat]]
    /\ icinv \in Sets \cup {None}
    /\ fresh \in [lines : [Tags -> [Sets -> Nat]], s1 : Nat, s2 : Nat]

\* Only a killed fetch has no address.
Asked(f) == f.tag = None => f.kind = "killed"

\* A word of line t of set s, no older than ver.
Is(d, t, s, k, ver) == d.tag = t /\ d.set = s /\ d.word = k /\ d.ver >= ver

\* What must be fresh: nothing is newer than memory, and a fetch in the pipeline asks
\* for no more than a fetch that enters now.
Versions ==
    /\ \A t \in Tags, s \in Sets : fresh.lines[t][s] <= mem[t][s]
    /\ s1.fetch.tag # None => fresh.s1 <= fresh.lines[s1.fetch.tag][s1.fetch.set]
    /\ s2.tag # None => fresh.s2 <= fresh.lines[s2.tag][s2.set]

\* The counters, the bus and the fetch in stage 2 fit the state.
Control ==
    /\ state # "REFILL" => refill_cnt = 0
    /\ state = "REFILL" => bus.beat = refill_cnt
    /\ state # "UNCACHED_READ" => uncached_cnt = 0
    /\ Asked(s1.fetch) /\ Asked(s2)
    /\ state \in {"REPLACE", "REFILL"} \/ (state = "INVALIDATE" /\ inflight = "miss") => s2.kind = "cached"
    /\ state \in {"UNCACHED_BOOT", "UNCACHED_READ"} \/ (state = "INVALIDATE" /\ inflight = "uncached") =>
          s2.kind = "uncached"
    /\ state = "BOOT" => s2.kind = "killed" /\ s1.fetch.kind = "killed"

\* The sets whose tags are no garbage of the RAM.
Booted(s) == state = "BOOT" => s < boot_cnt

\* A line is in one way at most; the one stage 2 misses is in none, or in the victim.
Unique ==
    /\ state = "BOOT" => \A w \in Ways, s \in Sets : s < boot_cnt => tag_v[w][s] = None
    /\ \A s \in Sets : Booted(s) =>
          \A v, w \in Ways : tag_v[v][s] = tag_v[w][s] /\ tag_v[v][s] # None => v = w
    /\ state = "REPLACE" \/ (state = "INVALIDATE" /\ inflight = "miss") =>
          \A w \in Ways : tag_v[w][s2.set] # s2.tag
    /\ state = "REFILL" => tag_v[free_way[2]][s2.set] = s2.tag

\* The words of the line that is being refilled and are not there yet.
Missing(w, s, k) == state = "REFILL" /\ w = free_way[2] /\ s = s2.set /\ k >= refill_cnt

\* A valid line holds its own words, none older than the last invalidation of its set.
Filled ==
    \A w \in Ways, s \in Sets, k \in Words : Booted(s) /\ tag_v[w][s] # None /\ ~Missing(w, s, k) =>
        Is(payload[w][s][k], tag_v[w][s], s, k, fresh.lines[tag_v[w][s]][s])

\* What stage 1 read is the set as it was when the fetch entered or after the refill;
\* since then ways can only have been invalidated.
Read ==
    LET f == s1.fetch
    IN  /\ \A v, w \in Ways : s1.tags[v] = s1.tags[w] /\ s1.tags[v] # None => v = w
        /\ \A w \in Ways : s1.tags[w] = f.tag /\ f.tag # None => Is(s1.words[w], f.tag, f.set, f.word, fresh.s1)
        /\ state \notin {"BOOT", "REFILL", "RELOAD_S1O"} => \A w \in Ways : tag_v[w][f.set] \in {s1.tags[w], None}

\* The halves of the word stage 2 has by now.
Delivered ==
    CASE state = "REFILL" -> IF refill_cnt > s2.word THEN Halves ELSE {}
      [] state = "UNCACHED_READ" -> {h \in Halves : h < uncached_cnt}
      [] state \in {"IDLE", "RELOAD_S1O"} -> Halves
      [] state = "INVALIDATE" -> IF inflight = "no" THEN Halves ELSE {}
      [] OTHER -> {}

Served == s2.kind # "killed" => \A h \in Delivered : Is(ins[h], s2.tag, s2.set, s2.word, fresh.s2)

IInv == TypeOK /\ Versions /\ Control /\ Unique /\ Filled /\ Read /\ Served
-----------------------------------------------------------------------------
(* A step *)

\* A remainder is less than what it is taken by.
LEMMA Remainder == \A k \in Nat, n \in Nat \ {0} : k % n \in 0 .. n - 1
  OBVIOUS

\* The order of numbers of words and of versions.
LEMMA NotLess ==
    /\ \A n \in Nat : n <= n
    /\ \A k, n \in Nat : k < n => k # n /\ ~(k >= n)
  OBVIOUS

\* The sizes of the cache.
LEMMA Sizes ==
    /\ SETS \in Nat /\ SETS > 0 /\ WAYS \in Nat /\ WAYS > 0 /\ WORDS \in Nat /\ WORDS > 0
    /\ 0 \in Sets /\ 0 \in Ways /\ 0 \in Words /\ Halves = {0, 1} /\ None \notin Tags
    /\ Sets \subseteq Nat /\ Ways \subseteq Nat /\ Words \subseteq Nat
    /\ \A n \in Sets : n < SETS /\ (n + 1) % SETS \in Sets
    /\ \A n \in Ways : (n + 1) % WAYS \in Ways
    /\ \A n \in Words : n < WORDS /\ (n + 1) % WORDS \in Words /\ (n + 1) % WORDS = IF n = WORDS - 1 THEN 0 ELSE n + 1
  BY Parameters, FetchType DEF Sets, Ways, Words, Halves

\* What the fetch unit, the bus, the commit stage and the program do at an edge, as the
\* proofs use it: f enters if p; we lets an ICINV in; D is what the bus shows, and a
\* beat if R; L is what must be fresh from now on.
Moves(f, p, we, R, D, L) ==
    /\ p \in BOOLEAN /\ we \in BOOLEAN /\ R \in BOOLEAN
    /\ p => fsm_idle /\ f \in Fetches /\ f.tag # None
    /\ state' = state_nxt(p, we, R, rlast)
    /\ boot_cnt' = (boot_cnt + 1) % SETS
    /\ refill_cnt' = refill_cnt_nxt(R)
    /\ uncached_cnt' = IF state = "UNCACHED_READ" /\ R THEN (uncached_cnt + 1) % 2 ELSE uncached_cnt
    /\ free_way' = <<(free_way[1] + 1) % WAYS, IF state = "REPLACE" THEN free_way[1] ELSE free_way[2]>>
    /\ inflight' = IF fsm_idle THEN IF p THEN s2i_inflight ELSE "no" ELSE inflight
    /\ inv_line' = IF fsm_idle /\ icinv # None THEN icinv ELSE inv_line
    /\ tag_v' = tag_v_nxt
    /\ payload' = payload_nxt(D)
    /\ s1' = s1_nxt(p, f)
    /\ s2' = IF p THEN s1.fetch ELSE s2
    /\ ins' = ins_nxt(p, D)
    /\ state = "REFILL" => bus' \in [ar : {"none", "valid", "taken"}, beat : Nat] /\ bus'.beat = IF R THEN IF rlast THEN 0 ELSE bus.beat + 1 ELSE bus.beat
    /\ state = "REPLACE" => bus'.beat = 0
    /\ bus' \in [ar : {"none", "valid", "taken"}, beat : Nat]
    /\ mem' \in [Tags -> [Sets -> Nat]] /\ \A t \in Tags, s \in Sets : mem[t][s] <= mem'[t][s]
    /\ icinv' \in Sets \cup {None}
    /\ fresh' = [lines |-> L, s1 |-> IF p THEN L[f.tag][f.set] ELSE fresh.s1, s2 |-> IF p THEN fresh.s1 ELSE fresh.s2]
    /\ L = IF state = "INVALIDATE" THEN [t \in Tags |-> [fresh.lines[t] EXCEPT ![inv_line] = mem[t][inv_line]]]
           ELSE fresh.lines
    /\ state \in {"REFILL", "UNCACHED_READ"} => D \in Data
    /\ state = "REFILL" /\ R => Is(D, s2.tag, s2.set, refill_cnt, mem[s2.tag][s2.set])
    /\ state = "UNCACHED_READ" /\ R => Is(D, s2.tag, s2.set, s2.word, mem[s2.tag][s2.set])

\* Every edge is such a step.
LEMMA EdgeMoves ==
    ASSUME TypeOK, Control, Next
    PROVE  \E f, p, we, R, D, L : Moves(f, p, we, R, D, L)
  <1>1. PICK f \in IF fsm_idle THEN Fetch ELSE {NoFetch},
             iq_ready \in IF fsm_idle THEN BOOLEAN ELSE {FALSE},
             ready \in IF bus.ar # "none" THEN BOOLEAN ELSE {FALSE},
             ce \in IF icinv # None THEN BOOLEAN ELSE {FALSE},
             inv \in IF icinv = None /\ state # "BOOT" THEN Sets \cup {None} ELSE {None}, store \in Stores :
                Clock(f, iq_ready, ready, ce, inv, store)
    BY Zenon DEF Next
  <1> DEFINE p == fsm_idle /\ iq_ready
             we == icinv # None /\ ce
             R == ready /\ bus.ar = "taken"
             D == IF R THEN [tag |-> s2.tag, set |-> s2.set, word |-> IF state = "REFILL" THEN bus.beat ELSE s2.word,
                             ver |-> mem[s2.tag][s2.set]] ELSE Junk
             L == IF state = "INVALIDATE" THEN [t \in Tags |-> [fresh.lines[t] EXCEPT ![inv_line] = mem[t][inv_line]]]
                  ELSE fresh.lines
  <1>7. /\ state' = state_nxt(p, we, R, rlast)
        /\ boot_cnt' = (boot_cnt + 1) % SETS
        /\ refill_cnt' = refill_cnt_nxt(R)
        /\ uncached_cnt' = IF state = "UNCACHED_READ" /\ R THEN (uncached_cnt + 1) % 2 ELSE uncached_cnt
        /\ free_way' = <<(free_way[1] + 1) % WAYS, IF state = "REPLACE" THEN free_way[1] ELSE free_way[2]>>
        /\ inflight' = IF fsm_idle THEN IF p THEN s2i_inflight ELSE "no" ELSE inflight
        /\ inv_line' = IF fsm_idle /\ icinv # None THEN icinv ELSE inv_line
        /\ tag_v' = tag_v_nxt
        /\ payload' = payload_nxt(D)
        /\ s1' = s1_nxt(p, f)
        /\ s2' = IF p THEN s1.fetch ELSE s2
        /\ ins' = ins_nxt(p, D)
        /\ bus' = bus_nxt(ready, R)
        /\ mem' = IF store = <<>> THEN mem ELSE [mem EXCEPT ![store[1]][store[2]] = @ + 1]
        /\ icinv' = IF icinv = None THEN inv ELSE IF we /\ msr_icinv_ready THEN None ELSE icinv
        /\ fresh' = [lines |-> L, s1 |-> IF p THEN L[f.tag][f.set] ELSE fresh.s1, s2 |-> IF p THEN fresh.s1 ELSE fresh.s2]
    BY <1>1, Zenon DEF Clock
  <1>6. R \in BOOLEAN /\ we \in BOOLEAN
    BY <1>1
  <1>8. p \in BOOLEAN /\ (p => fsm_idle /\ f \in Fetches /\ f.tag # None)
    BY <1>1, FetchType, Sizes DEF Fetches, Kinds
  <1>9. mem' \in [Tags -> [Sets -> Nat]] /\ \A t \in Tags, s \in Sets : mem[t][s] <= mem'[t][s]
    <2> mem' = IF store = <<>> THEN mem ELSE [mem EXCEPT ![store[1]][store[2]] = @ + 1]
      BY <1>7
    <2>0. \A u \in Tags, r \in Sets : mem[u][r] \in Nat
      BY DEF TypeOK
    <2>1. CASE store = <<>>
      BY <2>0, <2>1 DEF TypeOK
    <2>2. CASE store # <<>>
      <3>1. PICK t \in Tags, s \in Sets : store[1] = t /\ store[2] = s
        BY <1>1, <2>2, FetchType DEF Stores
      <3>2. mem' = [mem EXCEPT ![t] = [mem[t] EXCEPT ![s] = mem[t][s] + 1]]
        BY <2>2, <3>1
      <3>3. mem[t] \in [Sets -> Nat] /\ mem[t][s] \in Nat
        BY DEF TypeOK
      <3>4. \A u \in Tags \ {t} : mem'[u] = mem[u]
        BY <3>2, Zenon DEF TypeOK
      <3>5. mem'[t] = [mem[t] EXCEPT ![s] = mem[t][s] + 1]
        BY <3>2, Zenon DEF TypeOK
      <3>6. \A r \in Sets : mem[t][r] <= mem'[t][r]
        BY <3>3, <3>5
      <3>7. \A u \in Tags, r \in Sets : mem[u][r] <= mem'[u][r]
        BY <2>0, <3>4, <3>6
      <3>8. mem'[t] \in [Sets -> Nat]
        BY <3>3, <3>5
      <3>9. mem' \in [Tags -> [Sets -> Nat]]
        BY <3>2, <3>4, <3>8, Zenon DEF TypeOK
      <3> QED
        BY <3>7, <3>9
    <2> QED
      BY <2>1, <2>2
  <1>10. icinv' \in Sets \cup {None}
    BY <1>1, <1>7, Zenon DEF TypeOK
  <1>11. bus' \in [ar : {"none", "valid", "taken"}, beat : Nat]
    <2>1. bus' = bus_nxt(ready, R)
      BY <1>7
    <2>2. bus.ar \in {"none", "valid", "taken"} /\ bus.beat \in Nat /\ bus = [ar |-> bus.ar, beat |-> bus.beat]
      BY DEF TypeOK
    <2>3. bus_nxt(ready, R) \in {[ar |-> "valid", beat |-> 0], [bus EXCEPT !.ar = "taken"], [ar |-> "none", beat |-> 0],
                                 [bus EXCEPT !.beat = bus.beat + 1], bus}
      BY DEF bus_nxt
    <2> QED
      BY <2>1, <2>2, <2>3
  <1>12. state = "REPLACE" => bus'.beat = 0
    BY <1>7 DEF bus_nxt, ar_set
  <1>13. state = "REFILL" => bus'.beat = IF R THEN IF rlast THEN 0 ELSE bus.beat + 1 ELSE bus.beat
    BY <1>7 DEF bus_nxt, ar_set, TypeOK
  <1>14. ASSUME state \in {"REFILL", "UNCACHED_READ"}
         PROVE  /\ D \in Data
                /\ state = "REFILL" /\ R => Is(D, s2.tag, s2.set, refill_cnt, mem[s2.tag][s2.set])
                /\ state = "UNCACHED_READ" /\ R => Is(D, s2.tag, s2.set, s2.word, mem[s2.tag][s2.set])
    <2>1. s2.tag \in Tags /\ s2.set \in Sets /\ s2.word \in Words
      BY <1>14 DEF Control, Asked, TypeOK, Fetches
    <2>2. mem[s2.tag][s2.set] \in Nat
      BY <2>1 DEF TypeOK
    <2>3. state = "REFILL" => bus.beat = refill_cnt /\ bus.beat \in Words
      BY DEF Control, TypeOK
    <2>4. Junk \in Data
      BY Sizes DEF Junk, Data
    <2> QED
      BY <2>1, <2>2, <2>3, <2>4 DEF Data, Is
  <1> QED
    <2>1. Moves(f, p, we, R, D, L)
      BY <1>7, <1>8, <1>6, <1>9, <1>10, <1>11, <1>12, <1>13, <1>14, Zenon DEF Moves
    <2> QED
      BY <2>1
-----------------------------------------------------------------------------
(* The RAMs, the lookup and what must be fresh *)

WordPut(q, w, s, k, d) == q = [payload EXCEPT ![w][s][k] = d]
TagPut(q, w, s, t) == q = [tag_v EXCEPT ![w][s] = t]

\* A write of the payload RAM changes one word.
LEMMA PayloadWritten ==
    ASSUME TypeOK, NEW w \in Ways, NEW s \in Sets, NEW k \in Words, NEW d \in Data,
           NEW q, WordPut(q, w, s, k, d)
    PROVE  /\ q \in [Ways -> [Sets -> [Words -> Data]]]
           /\ \A v \in Ways, r \in Sets, j \in Words :
                 q[v][r][j] = IF v = w /\ r = s /\ j = k THEN d ELSE payload[v][r][j]
  <1>1. payload[w] \in [Sets -> [Words -> Data]] /\ payload[w][s] \in [Words -> Data]
    BY DEF TypeOK
  <1>2. PICK l : l = [payload[w][s] EXCEPT ![k] = d]
    BY Zenon
  <1>3. PICK b : b = [payload[w] EXCEPT ![s] = l]
    BY Zenon
  <1>4. q = [payload EXCEPT ![w] = b]
    BY <1>2, <1>3 DEF WordPut
  <1>5. l \in [Words -> Data] /\ \A j \in Words : l[j] = IF j = k THEN d ELSE payload[w][s][j]
    BY <1>1, <1>2
  <1>6. b \in [Sets -> [Words -> Data]] /\ \A r \in Sets : b[r] = IF r = s THEN l ELSE payload[w][r]
    BY <1>1, <1>3, <1>5
  <1>7. payload \in [Ways -> [Sets -> [Words -> Data]]]
    BY DEF TypeOK
  <1>8. \A v \in Ways : q[v] = IF v = w THEN b ELSE payload[v]
    BY <1>4, <1>7
  <1>9. q \in [Ways -> [Sets -> [Words -> Data]]]
    BY <1>4, <1>6, <1>7
  <1> QED
    BY <1>5, <1>6, <1>8, <1>9

\* A write of the tag RAM: one way gets the tag of the miss, or every way of a set is
\* made invalid.
LEMMA TagReplaced ==
    ASSUME TypeOK, NEW w \in Ways, NEW s \in Sets, NEW t \in Tags \cup {None}, NEW q, TagPut(q, w, s, t)
    PROVE  /\ q \in [Ways -> [Sets -> Tags \cup {None}]]
           /\ \A v \in Ways, r \in Sets : q[v][r] = IF v = w /\ r = s THEN t ELSE tag_v[v][r]
  <1>1. tag_v[w] \in [Sets -> Tags \cup {None}]
    BY DEF TypeOK
  <1>2. PICK b : b = [tag_v[w] EXCEPT ![s] = t]
    BY Zenon
  <1>3. b \in [Sets -> Tags \cup {None}] /\ \A r \in Sets : b[r] = IF r = s THEN t ELSE tag_v[w][r]
    BY <1>1, <1>2
  <1>4. q = [tag_v EXCEPT ![w] = b]
    BY <1>2 DEF TagPut
  <1>5. tag_v \in [Ways -> [Sets -> Tags \cup {None}]]
    BY DEF TypeOK
  <1>6. \A v \in Ways : q[v] = IF v = w THEN b ELSE tag_v[v]
    BY <1>4, <1>5
  <1>7. q \in [Ways -> [Sets -> Tags \cup {None}]]
    BY <1>3, <1>4, <1>5
  <1> QED
    BY <1>3, <1>6, <1>7

\* Set s of the tags q is invalid, the others are unchanged.
Cleared(q, s) ==
    /\ q \in [Ways -> [Sets -> Tags \cup {None}]]
    /\ \A v \in Ways, r \in Sets : q[v][r] = IF r = s THEN None ELSE tag_v[v][r]

\* Booting and invalidating make every way of a set invalid.
LEMMA TagsCleared ==
    ASSUME TypeOK, NEW s \in Sets, NEW q, q = [w \in Ways |-> [tag_v[w] EXCEPT ![s] = None]]
    PROVE  Cleared(q, s)
  <1>1. ASSUME NEW w \in Ways
        PROVE  /\ q[w] \in [Sets -> Tags \cup {None}]
               /\ \A r \in Sets : q[w][r] = IF r = s THEN None ELSE tag_v[w][r]
    <2>1. tag_v[w] \in [Sets -> Tags \cup {None}]
      BY DEF TypeOK
    <2>2. q[w] = [tag_v[w] EXCEPT ![s] = None]
      OBVIOUS
    <2> QED
      BY <2>1, <2>2
  <1>2. DOMAIN q = Ways /\ q = [w \in Ways |-> q[w]]
    OBVIOUS
  <1>3. q \in [Ways -> [Sets -> Tags \cup {None}]]
    BY <1>1, <1>2
  <1> QED
    BY <1>1, <1>3 DEF Cleared

\* The tags after an edge, in each state.
LEMMA TagsMove ==
    ASSUME TypeOK, tag_v' = tag_v_nxt
    PROVE  /\ tag_v' \in [Ways -> [Sets -> Tags \cup {None}]]
           /\ \A v \in Ways, r \in Sets :
                 tag_v'[v][r] = CASE state = "BOOT" /\ r = boot_cnt -> None
                                  [] state = "INVALIDATE" /\ r = inv_line -> None
                                  [] state = "REPLACE" /\ v = free_way[1] /\ r = s2.set -> s2.tag
                                  [] OTHER -> tag_v[v][r]
  <1>0. boot_cnt \in Sets /\ inv_line \in Sets /\ free_way[1] \in Ways /\ s2.set \in Sets /\ s2.tag \in Tags \cup {None}
    BY DEF TypeOK, Fetches
  <1>1. CASE state = "BOOT"
    <2>1. tag_v' = [w \in Ways |-> [tag_v[w] EXCEPT ![boot_cnt] = None]]
      BY <1>1 DEF tag_v_nxt
    <2>2. Cleared(tag_v', boot_cnt)
      BY <1>0, <2>1, TagsCleared
    <2>3. /\ tag_v' \in [Ways -> [Sets -> Tags \cup {None}]]
          /\ \A v \in Ways, r \in Sets : tag_v'[v][r] = IF r = boot_cnt THEN None ELSE tag_v[v][r]
      BY <2>2 DEF Cleared
    <2> QED
      BY <1>1, <2>3
  <1>2. CASE state = "INVALIDATE"
    <2>1. tag_v' = [w \in Ways |-> [tag_v[w] EXCEPT ![inv_line] = None]]
      BY <1>2 DEF tag_v_nxt
    <2>2. Cleared(tag_v', inv_line)
      BY <1>0, <2>1, TagsCleared
    <2>3. /\ tag_v' \in [Ways -> [Sets -> Tags \cup {None}]]
          /\ \A v \in Ways, r \in Sets : tag_v'[v][r] = IF r = inv_line THEN None ELSE tag_v[v][r]
      BY <2>2 DEF Cleared
    <2> QED
      BY <1>2, <2>3
  <1>3. CASE state = "REPLACE"
    <2>1. tag_v' = [tag_v EXCEPT ![free_way[1]][s2.set] = s2.tag]
      BY <1>3 DEF tag_v_nxt
    <2>2. PICK w \in Ways, s \in Sets, t \in Tags \cup {None} : w = free_way[1] /\ s = s2.set /\ t = s2.tag
      BY <1>0
    <2>3. PICK q : q = tag_v'
      OBVIOUS
    <2>4. TagPut(q, w, s, t)
      BY <2>1, <2>2, <2>3 DEF TagPut
    <2>5. /\ q \in [Ways -> [Sets -> Tags \cup {None}]]
          /\ \A v \in Ways, r \in Sets : q[v][r] = IF v = w /\ r = s THEN t ELSE tag_v[v][r]
      BY <2>4, TagReplaced
    <2> QED
      BY <1>3, <2>2, <2>3, <2>5
  <1>4. CASE state \notin {"BOOT", "INVALIDATE", "REPLACE"}
    <2>1. tag_v' = tag_v
      BY <1>4 DEF tag_v_nxt
    <2> QED
      BY <1>4, <2>1 DEF TypeOK
  <1> QED
    BY <1>1, <1>2, <1>3, <1>4

\* The words after an edge: a refill writes one.
LEMMA WordsMove ==
    ASSUME TypeOK, NEW D, payload' = payload_nxt(D), state = "REFILL" => D \in Data
    PROVE  /\ payload' \in [Ways -> [Sets -> [Words -> Data]]]
           /\ \A v \in Ways, r \in Sets, j \in Words :
                 payload'[v][r][j] = IF state = "REFILL" /\ v = free_way[2] /\ r = s2.set /\ j = refill_cnt THEN D
                                     ELSE payload[v][r][j]
  <1>1. CASE state = "REFILL"
    <2>1. payload' = [payload EXCEPT ![free_way[2]][s2.set][refill_cnt] = D]
      BY <1>1 DEF payload_nxt
    <2>2. free_way[2] \in Ways /\ s2.set \in Sets /\ refill_cnt \in Words
      BY DEF TypeOK, Fetches
    <2>3. D \in Data
      BY <1>1
    <2>4. PICK w \in Ways, s \in Sets, k \in Words : w = free_way[2] /\ s = s2.set /\ k = refill_cnt
      BY <2>2
    <2>5. PICK q : q = payload'
      OBVIOUS
    <2>6. WordPut(q, w, s, k, D)
      BY <2>1, <2>4, <2>5 DEF WordPut
    <2>7. /\ q \in [Ways -> [Sets -> [Words -> Data]]]
          /\ \A v \in Ways, r \in Sets, j \in Words : q[v][r][j] = IF v = w /\ r = s /\ j = k THEN D ELSE payload[v][r][j]
      BY <2>3, <2>6, PayloadWritten
    <2> QED
      BY <1>1, <2>4, <2>5, <2>7
  <1>2. CASE state # "REFILL"
    BY <1>2 DEF TypeOK, payload_nxt
  <1> QED
    BY <1>1, <1>2

\* The lookup: it gives a word, and on a hit the word of the way that hits, which is
\* only one.
LEMMA LookupTyped ==
    ASSUME TypeOK
    PROVE  match_payload \in Data
  <1>1. IsFiniteSet(Ways)
    BY Sizes, FS_Interval DEF Ways
  <1>2. IsFiniteSet(hit_ways)
    BY <1>1, FS_Subset DEF hit_ways
  <1>3. ASSUME Cardinality(hit_ways) = 1
        PROVE  s1.words[CHOOSE w \in hit_ways : TRUE] \in Data
    <2>1. \E w : w \in hit_ways
      BY <1>2, <1>3, FS_EmptySet
    <2>2. (CHOOSE w \in hit_ways : TRUE) \in Ways
      BY <2>1 DEF hit_ways
    <2> QED
      BY <2>2 DEF TypeOK
  <1>4. Junk \in Data
    BY Sizes DEF Junk, Data
  <1> QED
    BY <1>3, <1>4 DEF match_payload

\* On a hit one way hits, and the lookup gives its word.
LEMMA Lookup ==
    ASSUME TypeOK, Read, state = "IDLE", s1.fetch.tag # None, NEW w \in hit_ways
    PROVE  match_payload = s1.words[w]
  <1>1. hit_ways = {w}
    BY DEF hit_ways, Read
  <1>2. Cardinality(hit_ways) = 1
    BY <1>1, FS_Singleton, Zenon
  <1>3. (CHOOSE v \in hit_ways : TRUE) = w
    BY <1>1
  <1> QED
    BY <1>2, <1>3, Zenon DEF match_payload

\* What must be fresh only grows, and no faster than memory.
LEMMA LinesMove ==
    ASSUME TypeOK, Versions, NEW f, NEW p, NEW we, NEW R, NEW D, NEW L, Moves(f, p, we, R, D, L)
    PROVE  /\ L \in [Tags -> [Sets -> Nat]]
           /\ \A t \in Tags, s \in Sets :
                 /\ fresh.lines[t][s] <= L[t][s] /\ L[t][s] <= mem'[t][s] /\ L[t][s] \in Nat
                 /\ state # "INVALIDATE" \/ s # inv_line => L[t][s] = fresh.lines[t][s]
  <1>1. /\ L = IF state = "INVALIDATE" THEN [t \in Tags |-> [fresh.lines[t] EXCEPT ![inv_line] = mem[t][inv_line]]]
               ELSE fresh.lines
        /\ mem' \in [Tags -> [Sets -> Nat]] /\ \A t \in Tags, s \in Sets : mem[t][s] <= mem'[t][s]
    BY DEF Moves
  <1>2. /\ inv_line \in Sets
        /\ \A t \in Tags : /\ fresh.lines[t] \in [Sets -> Nat] /\ mem[t] \in [Sets -> Nat]
                           /\ \A s \in Sets : fresh.lines[t][s] \in Nat /\ mem[t][s] \in Nat /\ mem'[t][s] \in Nat
    BY <1>1 DEF TypeOK
  <1>3. ASSUME NEW t \in Tags
        PROVE  /\ L[t] \in [Sets -> Nat]
               /\ \A s \in Sets : L[t][s] = IF state = "INVALIDATE" /\ s = inv_line THEN mem[t][s] ELSE fresh.lines[t][s]
    BY <1>1, <1>2
  <1>4. L \in [Tags -> [Sets -> Nat]]
    <2>1. L = [t \in Tags |-> L[t]]
      BY <1>1, Zenon DEF TypeOK
    <2> QED
      BY <1>3, <2>1
  <1>5. ASSUME NEW t \in Tags, NEW s \in Sets
        PROVE  /\ fresh.lines[t][s] <= L[t][s] /\ L[t][s] <= mem'[t][s] /\ L[t][s] \in Nat
               /\ state # "INVALIDATE" \/ s # inv_line => L[t][s] = fresh.lines[t][s]
    <2>1. L[t][s] = IF state = "INVALIDATE" /\ s = inv_line THEN mem[t][s] ELSE fresh.lines[t][s]
      BY <1>3
    <2>2. fresh.lines[t][s] <= mem[t][s] /\ mem[t][s] <= mem'[t][s]
      BY <1>1 DEF Versions
    <2> QED
      BY <1>2, <2>1, <2>2
  <1> QED
    BY <1>4, <1>5
-----------------------------------------------------------------------------
(* The invariant is preserved *)

\* Where each state comes from.
LEMMA Comes ==
    ASSUME TypeOK, NEW p \in BOOLEAN, NEW we \in BOOLEAN, NEW R \in BOOLEAN, state' = state_nxt(p, we, R, rlast)
    PROVE  /\ state' = "BOOT" <=> state = "BOOT" /\ boot_cnt # SETS - 1
           /\ state' = "REPLACE" <=> \/ state = "IDLE" /\ ~we /\ p /\ s2i_inflight = "miss"
                                     \/ state = "INVALIDATE" /\ inflight = "miss"
           /\ state' = "REFILL" <=> state = "REPLACE" \/ (state = "REFILL" /\ ~(R /\ rlast))
           /\ state' = "RELOAD_S1O" <=> state = "REFILL" /\ R /\ rlast
           /\ state' = "INVALIDATE" <=> state = "IDLE" /\ we
           /\ state' = "UNCACHED_BOOT" <=> \/ state = "IDLE" /\ ~we /\ p /\ s2i_inflight = "uncached"
                                           \/ state = "INVALIDATE" /\ inflight = "uncached"
           /\ state' = "UNCACHED_READ" <=> \/ state = "UNCACHED_BOOT"
                                           \/ state = "UNCACHED_READ" /\ ~(R /\ uncached_cnt = 1)
           /\ state' \in States
  <1>1. CASE state = "IDLE"
    BY <1>1 DEF state_nxt, fsm_idle, reboot, States, s2i_inflight
  <1>2. CASE state = "INVALIDATE"
    BY <1>2 DEF state_nxt, fsm_idle, reboot, States
  <1>3. CASE state \notin {"IDLE", "INVALIDATE"}
    <2>1. state' = CASE state = "BOOT" -> IF boot_cnt = SETS - 1 THEN "IDLE" ELSE "BOOT"
                     [] state = "REPLACE" -> "REFILL"
                     [] state = "REFILL" -> IF R /\ rlast THEN "RELOAD_S1O" ELSE "REFILL"
                     [] state = "RELOAD_S1O" -> "IDLE"
                     [] state = "UNCACHED_BOOT" -> "UNCACHED_READ"
                     [] state = "UNCACHED_READ" -> IF R /\ uncached_cnt = 1 THEN "IDLE" ELSE "UNCACHED_READ"
      BY <1>3 DEF state_nxt, fsm_idle, TypeOK, States
    <2>2. state \in {"BOOT", "REPLACE", "REFILL", "RELOAD_S1O", "UNCACHED_BOOT", "UNCACHED_READ"}
      BY <1>3 DEF TypeOK, States
    <2> QED
      BY <2>1, <2>2 DEF States
  <1> QED
    BY <1>1, <1>2, <1>3

\* What stage 2 has to do for the fetch that enters it.
LEMMA Starts ==
    /\ s2i_inflight \in {"miss", "uncached", "no"}
    /\ s2i_inflight = "miss" => s1.fetch.kind = "cached" /\ hit_ways = {}
    /\ s2i_inflight = "uncached" => s1.fetch.kind = "uncached"
    /\ s2i_inflight = "no" => s1.fetch.kind \notin {"cached", "uncached"} \/ hit_ways # {}
  BY DEF s2i_inflight

\* The types of the variables are kept.
LEMMA TypeNext ==
    ASSUME IInv, NEW f, NEW p, NEW we, NEW R, NEW D, NEW L, Moves(f, p, we, R, D, L)
    PROVE  TypeOK'
  <1> USE DEF IInv
  <1>1. state' \in States
    BY Comes DEF Moves
  <1>2. boot_cnt' \in Sets /\ refill_cnt' \in Words /\ uncached_cnt' \in Halves
    BY Sizes DEF Moves, TypeOK, refill_cnt_nxt
  <1>3. free_way' \in Ways \X Ways
    <2>1. free_way[1] \in Ways /\ free_way[2] \in Ways
      BY DEF TypeOK
    <2>2. free_way' = <<(free_way[1] + 1) % WAYS, IF state = "REPLACE" THEN free_way[1] ELSE free_way[2]>>
      BY DEF Moves
    <2> QED
      BY <2>1, <2>2, Sizes, Zenon
  <1>4. inflight' \in {"miss", "uncached", "no"}
    BY Starts DEF Moves, TypeOK
  <1>5. inv_line' \in Sets /\ icinv' \in Sets \cup {None}
    BY DEF Moves, TypeOK
  <1>6. tag_v' \in [Ways -> [Sets -> Tags \cup {None}]] /\ payload' \in [Ways -> [Sets -> [Words -> Data]]]
    <2>1. tag_v' = tag_v_nxt /\ payload' = payload_nxt(D) /\ (state = "REFILL" => D \in Data)
      BY DEF Moves
    <2> QED
      BY <2>1, TagsMove, WordsMove, Zenon
  <1>7. s1' \in [fetch : Fetches, tags : [Ways -> Tags \cup {None}], words : [Ways -> Data]]
    <2>1. ASSUME NEW g \in Fetches
          PROVE  read(g) \in [fetch : Fetches, tags : [Ways -> Tags \cup {None}], words : [Ways -> Data]]
      <3>1. g.set \in Sets /\ g.word \in Words
        BY DEF Fetches
      <3>2. \A w \in Ways : tag_v[w][g.set] \in Tags \cup {None} /\ payload[w][g.set][g.word] \in Data
        BY <3>1 DEF TypeOK
      <3> QED
        BY <3>2 DEF read
    <2>2. s1' = s1_nxt(p, f) /\ (p => f \in Fetches) /\ s1.fetch \in Fetches
      BY DEF Moves, TypeOK
    <2> QED
      BY <2>1, <2>2 DEF s1_nxt, TypeOK
  <1>8. s2' \in Fetches
    BY DEF Moves, TypeOK
  <1>9. ins' \in [Halves -> Data]
    <2>1. /\ ins' = ins_nxt(p, D) /\ (state \in {"REFILL", "UNCACHED_READ"} => D \in Data) /\ p \in BOOLEAN
          /\ (p => state = "IDLE")
      BY DEF Moves, fsm_idle
    <2>2. ins \in [Halves -> Data] /\ uncached_cnt \in Halves
      BY DEF TypeOK
    <2>3. CASE state = "REFILL"
      <3>1. ins' = IF refill_cnt = s2.word THEN [h \in Halves |-> D] ELSE ins
        BY <2>1, <2>3 DEF ins_nxt
      <3>2. [h \in Halves |-> D] \in [Halves -> Data]
        BY <2>1, <2>3
      <3> QED
        BY <2>2, <3>1, <3>2
    <2>4. CASE state = "UNCACHED_READ"
      <3>1. ins' = [ins EXCEPT ![uncached_cnt] = D] /\ D \in Data
        BY <2>1, <2>4 DEF ins_nxt
      <3> QED
        BY <2>2, <3>1
    <2>5. CASE state \notin {"REFILL", "UNCACHED_READ"}
      BY <2>1, <2>2, <2>5, LookupTyped, Zenon DEF ins_nxt
    <2> QED
      BY <2>3, <2>4, <2>5, Zenon
  <1>10. bus' \in [ar : {"none", "valid", "taken"}, beat : Nat] /\ mem' \in [Tags -> [Sets -> Nat]]
    BY Zenon DEF Moves
  <1>11. fresh' \in [lines : [Tags -> [Sets -> Nat]], s1 : Nat, s2 : Nat]
    <2>1. /\ fresh' = [lines |-> L, s1 |-> IF p THEN L[f.tag][f.set] ELSE fresh.s1, s2 |-> IF p THEN fresh.s1 ELSE fresh.s2]
          /\ p => f \in Fetches /\ f.tag # None
      BY DEF Moves
    <2>2. L \in [Tags -> [Sets -> Nat]]
      BY LinesMove
    <2>3. p => f.tag \in Tags /\ f.set \in Sets
      BY <2>1 DEF Fetches
    <2>4. p => L[f.tag][f.set] \in Nat
      BY <2>2, <2>3
    <2>5. fresh.s1 \in Nat /\ fresh.s2 \in Nat
      BY DEF TypeOK
    <2> QED
      BY <2>1, <2>2, <2>4, <2>5, Zenon
  <1> QED
    BY <1>1, <1>2, <1>3, <1>4, <1>5, <1>6, <1>7, <1>8, <1>9, <1>10, <1>11, Zenon DEF TypeOK

\* No fetch comes to ask for more than memory has.
LEMMA VersionsNext ==
    ASSUME IInv, NEW f, NEW p, NEW we, NEW R, NEW D, NEW L, Moves(f, p, we, R, D, L)
    PROVE  Versions'
  <1> USE DEF IInv
  <1>1. /\ fresh' = [lines |-> L, s1 |-> IF p THEN L[f.tag][f.set] ELSE fresh.s1, s2 |-> IF p THEN fresh.s1 ELSE fresh.s2]
        /\ s1' = s1_nxt(p, f) /\ s2' = IF p THEN s1.fetch ELSE s2
        /\ p \in BOOLEAN /\ (p => f \in Fetches /\ f.tag # None)
    BY Zenon DEF Moves
  <1>2. \A t \in Tags, s \in Sets : /\ fresh.lines[t][s] <= L[t][s] /\ L[t][s] <= mem'[t][s] /\ L[t][s] \in Nat
                                    /\ fresh.lines[t][s] \in Nat
    BY LinesMove DEF TypeOK
  <1>3. ASSUME NEW g \in Fetches, g.tag # None
        PROVE  fresh.lines[g.tag][g.set] <= L[g.tag][g.set] /\ L[g.tag][g.set] \in Nat /\ fresh.lines[g.tag][g.set] \in Nat
    BY <1>2, <1>3 DEF Fetches
  <1>4. s1.fetch \in Fetches /\ s2 \in Fetches /\ fresh.s1 \in Nat /\ fresh.s2 \in Nat
    BY DEF TypeOK
  <1>5. s1'.fetch = IF p THEN f ELSE s1.fetch
    BY <1>1 DEF s1_nxt, read
  <1>6. fresh'.lines = L /\ fresh'.s1 = (IF p THEN L[f.tag][f.set] ELSE fresh.s1) /\ fresh'.s2 = IF p THEN fresh.s1 ELSE fresh.s2
    BY <1>1
  <1>7. s1'.fetch.tag # None => fresh'.s1 <= L[s1'.fetch.tag][s1'.fetch.set]
    <2>1. CASE p
      BY <1>1, <1>3, <1>5, <1>6, <2>1
    <2>2. CASE ~p
      BY <1>3, <1>4, <1>5, <1>6, <2>2 DEF Versions
    <2> QED
      BY <2>1, <2>2
  <1>8. s2'.tag # None => fresh'.s2 <= L[s2'.tag][s2'.set]
    <2>1. CASE p
      BY <1>1, <1>3, <1>4, <1>6, <2>1 DEF Versions
    <2>2. CASE ~p
      BY <1>1, <1>3, <1>4, <1>6, <2>2 DEF Versions
    <2> QED
      BY <2>1, <2>2, Zenon
  <1> QED
    BY <1>2, <1>6, <1>7, <1>8, Zenon DEF Versions

\* The counters, the bus and the fetch in stage 2 go on fitting the state: a burst ends when
\* the counter wraps, and the second half of an uncached word ends its read.
LEMMA ControlNext ==
    ASSUME IInv, NEW f, NEW p, NEW we, NEW R, NEW D, NEW L, Moves(f, p, we, R, D, L)
    PROVE  Control'
  <1> USE DEF IInv
  <1>0. /\ p \in BOOLEAN /\ we \in BOOLEAN /\ R \in BOOLEAN /\ state' = state_nxt(p, we, R, rlast)
        /\ (p => state = "IDLE" /\ f.tag # None)
        /\ s1' = s1_nxt(p, f) /\ s2' = IF p THEN s1.fetch ELSE s2
        /\ inflight' = IF state = "IDLE" THEN IF p THEN s2i_inflight ELSE "no" ELSE inflight
        /\ refill_cnt' = IF state = "REFILL" /\ R THEN (refill_cnt + 1) % WORDS ELSE refill_cnt
        /\ uncached_cnt' = IF state = "UNCACHED_READ" /\ R THEN (uncached_cnt + 1) % 2 ELSE uncached_cnt
    BY Zenon DEF Moves, fsm_idle, refill_cnt_nxt
  <1>1. /\ state' = "BOOT" <=> state = "BOOT" /\ boot_cnt # SETS - 1
        /\ state' = "REPLACE" <=> \/ state = "IDLE" /\ ~we /\ p /\ s2i_inflight = "miss"
                                  \/ state = "INVALIDATE" /\ inflight = "miss"
        /\ state' = "REFILL" <=> state = "REPLACE" \/ (state = "REFILL" /\ ~(R /\ rlast))
        /\ state' = "INVALIDATE" <=> state = "IDLE" /\ we
        /\ state' = "UNCACHED_BOOT" <=> \/ state = "IDLE" /\ ~we /\ p /\ s2i_inflight = "uncached"
                                        \/ state = "INVALIDATE" /\ inflight = "uncached"
        /\ state' = "UNCACHED_READ" <=> \/ state = "UNCACHED_BOOT"
                                        \/ state = "UNCACHED_READ" /\ ~(R /\ uncached_cnt = 1)
    BY <1>0, Comes
  <1>2. refill_cnt \in Words /\ uncached_cnt \in Halves /\ WORDS \in Nat /\ WORDS > 0 /\ Halves = {0, 1}
        /\ (refill_cnt + 1) % WORDS = IF refill_cnt = WORDS - 1 THEN 0 ELSE refill_cnt + 1
    BY Sizes, Zenon DEF TypeOK
  <1>3. state' # "REFILL" => refill_cnt' = 0
    BY <1>0, <1>1, <1>2 DEF Control, rlast
  <1>4. state' = "REFILL" => bus'.beat = refill_cnt'
    <2>1. CASE state = "REPLACE"
      BY <1>0, <2>1, Zenon DEF Control, Moves
    <2>2. CASE state = "REFILL"
      <3>1. bus'.beat = IF R THEN IF rlast THEN 0 ELSE bus.beat + 1 ELSE bus.beat
        BY <2>2, Zenon DEF Moves
      <3> QED
        BY <1>0, <1>1, <1>2, <2>2, <3>1, Zenon DEF Control, rlast
    <2> QED
      BY <1>1, <2>1, <2>2, Zenon
  <1>5. state' # "UNCACHED_READ" => uncached_cnt' = 0
    BY <1>0, <1>1, <1>2 DEF Control
  <1>6. s1'.fetch = IF p THEN f ELSE s1.fetch
    BY <1>0, Zenon DEF s1_nxt, read
  <1>7. Asked(s1'.fetch) /\ Asked(s2')
    BY <1>0, <1>6 DEF Control, Asked
  <1>8. state' \in {"REPLACE", "REFILL"} \/ (state' = "INVALIDATE" /\ inflight' = "miss") => s2'.kind = "cached"
    BY <1>0, <1>1, Starts DEF Control
  <1>9. state' \in {"UNCACHED_BOOT", "UNCACHED_READ"} \/ (state' = "INVALIDATE" /\ inflight' = "uncached") =>
           s2'.kind = "uncached"
    BY <1>0, <1>1, Starts DEF Control
  <1>10. state' = "BOOT" => s2'.kind = "killed" /\ s1'.fetch.kind = "killed"
    BY <1>0, <1>1, <1>6 DEF Control
  <1>11. Asked(s1.fetch)' = Asked(s1'.fetch) /\ Asked(s2)' = Asked(s2')
    BY DEF Asked
  <1> QED
    BY <1>3, <1>4, <1>5, <1>7, <1>8, <1>9, <1>10, <1>11, Zenon DEF Control

\* What the boot sequence has left is none of the RAM's garbage.
LEMMA BootedMoves ==
    ASSUME TypeOK, NEW f, NEW p, NEW we, NEW R, NEW D, NEW L, Moves(f, p, we, R, D, L), NEW s \in Sets, Booted(s)',
           state # "BOOT" \/ s # boot_cnt
    PROVE  Booted(s)
  <1>1. /\ p \in BOOLEAN /\ we \in BOOLEAN /\ R \in BOOLEAN /\ state' = state_nxt(p, we, R, rlast)
        /\ boot_cnt' = (boot_cnt + 1) % SETS
    BY DEF Moves
  <1>2. state' = "BOOT" <=> state = "BOOT" /\ boot_cnt # SETS - 1
    BY <1>1, Comes
  <1>3. boot_cnt \in Nat /\ boot_cnt < SETS /\ s \in Nat /\ s < SETS /\ SETS \in Nat
    BY Sizes DEF TypeOK
  <1>4. CASE boot_cnt = SETS - 1
    BY <1>3, <1>4 DEF Booted
  <1>5. CASE boot_cnt # SETS - 1
    <2>1. boot_cnt' = boot_cnt + 1
      BY <1>1, <1>3, <1>5
    <2> QED
      BY <1>2, <1>3, <1>5, <2>1 DEF Booted
  <1> QED
    BY <1>4, <1>5, Zenon

\* The tag of a miss is written in no set that holds it: invalidating while the miss waits
\* can only remove it.
LEMMA UniqueNext ==
    ASSUME IInv, NEW f, NEW p, NEW we, NEW R, NEW D, NEW L, Moves(f, p, we, R, D, L)
    PROVE  Unique'
  <1> USE DEF IInv
  <1>0. /\ p \in BOOLEAN /\ we \in BOOLEAN /\ R \in BOOLEAN /\ state' = state_nxt(p, we, R, rlast)
        /\ tag_v' = tag_v_nxt /\ (p => state = "IDLE")
        /\ s2' = IF p THEN s1.fetch ELSE s2
        /\ inflight' = IF state = "IDLE" THEN IF p THEN s2i_inflight ELSE "no" ELSE inflight
        /\ free_way' = <<(free_way[1] + 1) % WAYS, IF state = "REPLACE" THEN free_way[1] ELSE free_way[2]>>
        /\ boot_cnt' = (boot_cnt + 1) % SETS
    BY DEF Moves, fsm_idle
  <1>1. /\ state' = "BOOT" <=> state = "BOOT" /\ boot_cnt # SETS - 1
        /\ state' = "REPLACE" <=> \/ state = "IDLE" /\ ~we /\ p /\ s2i_inflight = "miss"
                                  \/ state = "INVALIDATE" /\ inflight = "miss"
        /\ state' = "REFILL" <=> state = "REPLACE" \/ (state = "REFILL" /\ ~(R /\ rlast))
        /\ state' = "INVALIDATE" <=> state = "IDLE" /\ we
    BY <1>0, Comes
  <1>2. \A v \in Ways, r \in Sets :
           tag_v'[v][r] = CASE state = "BOOT" /\ r = boot_cnt -> None
                            [] state = "INVALIDATE" /\ r = inv_line -> None
                            [] state = "REPLACE" /\ v = free_way[1] /\ r = s2.set -> s2.tag
                            [] OTHER -> tag_v[v][r]
    BY <1>0, TagsMove
  <1>3. state' = "BOOT" => \A w \in Ways, s \in Sets : s < boot_cnt' => tag_v'[w][s] = None
    <2>1. ASSUME state' = "BOOT", NEW w \in Ways, NEW s \in Sets, s < boot_cnt'
          PROVE  tag_v'[w][s] = None
      <3>1. state = "BOOT" /\ boot_cnt \in Nat /\ boot_cnt < SETS - 1 /\ s \in Nat /\ SETS \in Nat
        BY <1>1, <2>1, Sizes DEF TypeOK
      <3>2. s < boot_cnt + 1
        BY <1>0, <2>1, <3>1
      <3>3. s = boot_cnt \/ s < boot_cnt
        BY <3>1, <3>2
      <3> QED
        BY <1>2, <3>1, <3>3 DEF Unique
    <2> QED
      BY <2>1
  <1>4. \A s \in Sets : Booted(s)' => \A v, w \in Ways : tag_v'[v][s] = tag_v'[w][s] /\ tag_v'[v][s] # None => v = w
    <2>1. ASSUME NEW s \in Sets, Booted(s)', NEW v \in Ways, NEW w \in Ways, tag_v'[v][s] = tag_v'[w][s], tag_v'[v][s] # None
          PROVE  v = w
      <3>1. state # "BOOT" \/ s # boot_cnt
        BY <1>2, <2>1
      <3>2. Booted(s)
        BY <2>1, <3>1, BootedMoves, Zenon
      <3>3. tag_v[v][s] = tag_v[w][s] /\ tag_v[v][s] # None => v = w
        BY <3>2 DEF Unique
      <3>4. CASE state = "REPLACE" /\ s = s2.set
        BY <1>2, <2>1, <3>3, <3>4 DEF Unique
      <3>5. CASE ~(state = "REPLACE" /\ s = s2.set)
        <4>1. ~(state = "INVALIDATE" /\ s = inv_line)
          BY <1>2, <2>1
        <4>2. tag_v'[v][s] = tag_v[v][s] /\ tag_v'[w][s] = tag_v[w][s]
          BY <1>2, <3>1, <3>5, <4>1
        <4> QED
          BY <2>1, <3>3, <4>2, Zenon
      <3> QED
        BY <3>4, <3>5
    <2> QED
      BY <2>1
  <1>5. state' = "REPLACE" \/ (state' = "INVALIDATE" /\ inflight' = "miss") => \A w \in Ways : tag_v'[w][s2'.set] # s2'.tag
    <2>1. CASE state = "IDLE" /\ p /\ s2i_inflight = "miss"
      <3>1. s2' = s1.fetch /\ s1.fetch.kind = "cached" /\ hit_ways = {}
        BY <1>0, <2>1, Starts
      <3>2. s1.fetch.tag # None
        BY <3>1 DEF Control, Asked
      <3>3. \A w \in Ways : s1.tags[w] # s1.fetch.tag
        BY <3>1 DEF hit_ways
      <3>4. \A w \in Ways : tag_v[w][s1.fetch.set] \in {s1.tags[w], None}
        BY <2>1 DEF Read
      <3>5. \A w \in Ways : tag_v'[w][s1.fetch.set] = tag_v[w][s1.fetch.set]
        BY <1>2, <2>1 DEF TypeOK, Fetches
      <3> QED
        BY <3>1, <3>2, <3>3, <3>4, <3>5
    <2>2. CASE state = "INVALIDATE" /\ inflight = "miss"
      <3>1. s2' = s2 /\ s2.set \in Sets /\ s2.tag # None
        BY <1>0, <2>2 DEF TypeOK, Fetches, Control, Asked
      <3>2. \A w \in Ways : tag_v'[w][s2.set] \in {tag_v[w][s2.set], None}
        BY <1>2, <2>2, <3>1
      <3> QED
        BY <2>2, <3>1, <3>2 DEF Unique
    <2> QED
      BY <1>0, <1>1, <2>1, <2>2
  <1>6. state' = "REFILL" => tag_v'[free_way'[2]][s2'.set] = s2'.tag
    <2>1. s2.set \in Sets /\ free_way[1] \in Ways /\ free_way[2] \in Ways
      BY DEF TypeOK, Fetches
    <2>2. CASE state = "REPLACE"
      BY <1>0, <1>2, <2>1, <2>2
    <2>3. CASE state = "REFILL"
      BY <1>0, <1>2, <2>1, <2>3, Zenon DEF Unique
    <2> QED
      BY <1>1, <2>2, <2>3
  <1> QED
    BY <1>3, <1>4, <1>5, <1>6, Zenon DEF Unique

\* A valid line keeps its own words: the beats of a refill are written from word 0 to the
\* last, and the line that is replaced is out of use from the first on.
LEMMA FilledNext ==
    ASSUME IInv, NEW f, NEW p, NEW we, NEW R, NEW D, NEW L, Moves(f, p, we, R, D, L)
    PROVE  Filled'
  <1> USE DEF IInv
  <1>0. /\ p \in BOOLEAN /\ we \in BOOLEAN /\ R \in BOOLEAN /\ state' = state_nxt(p, we, R, rlast)
        /\ tag_v' = tag_v_nxt /\ payload' = payload_nxt(D) /\ (state = "REFILL" => D \in Data) /\ (p => state = "IDLE")
        /\ s2' = IF p THEN s1.fetch ELSE s2
        /\ free_way' = <<(free_way[1] + 1) % WAYS, IF state = "REPLACE" THEN free_way[1] ELSE free_way[2]>>
        /\ refill_cnt' = IF state = "REFILL" /\ R THEN (refill_cnt + 1) % WORDS ELSE refill_cnt
        /\ fresh'.lines = L
        /\ state = "REFILL" /\ R => Is(D, s2.tag, s2.set, refill_cnt, mem[s2.tag][s2.set])
    BY Zenon DEF Moves, fsm_idle, refill_cnt_nxt
  <1>1. /\ state' = "REFILL" <=> state = "REPLACE" \/ (state = "REFILL" /\ ~(R /\ rlast))
        /\ state' = "BOOT" <=> state = "BOOT" /\ boot_cnt # SETS - 1
    BY <1>0, Comes, Zenon
  <1>2. \A v \in Ways, r \in Sets :
           tag_v'[v][r] = CASE state = "BOOT" /\ r = boot_cnt -> None
                            [] state = "INVALIDATE" /\ r = inv_line -> None
                            [] state = "REPLACE" /\ v = free_way[1] /\ r = s2.set -> s2.tag
                            [] OTHER -> tag_v[v][r]
    BY <1>0, TagsMove, Zenon
  <1>3. \A v \in Ways, r \in Sets, j \in Words :
           payload'[v][r][j] = IF state = "REFILL" /\ v = free_way[2] /\ r = s2.set /\ j = refill_cnt THEN D
                               ELSE payload[v][r][j]
    BY <1>0, WordsMove, Zenon
  <1>4. refill_cnt \in Words /\ WORDS \in Nat /\ Words \subseteq Nat /\ (\A k \in Words : k < WORDS)
        /\ (refill_cnt + 1) % WORDS = IF refill_cnt = WORDS - 1 THEN 0 ELSE refill_cnt + 1
    BY Sizes, Zenon DEF TypeOK
  <1>5. ASSUME NEW w \in Ways, NEW s \in Sets, NEW k \in Words, Booted(s)', tag_v'[w][s] # None, ~Missing(w, s, k)'
        PROVE  Is(payload'[w][s][k], tag_v'[w][s], s, k, L[tag_v'[w][s]][s])
    <2>1. (state # "BOOT" \/ s # boot_cnt) /\ (state # "INVALIDATE" \/ s # inv_line)
      BY <1>2, <1>5
    <2>2. Booted(s)
      BY <1>5, <2>1, BootedMoves
    <2>3. k \in Nat /\ k < WORDS
      BY <1>4
    <2>4. ~(state = "REPLACE" /\ w = free_way[1] /\ s = s2.set)
      <3>1. ASSUME state = "REPLACE", w = free_way[1], s = s2.set
            PROVE  Missing(w, s, k)'
        <4>1. state' = "REFILL" /\ free_way'[2] = w /\ s2'.set = s /\ refill_cnt' = 0
          BY <1>0, <1>1, <3>1 DEF Control
        <4>2. k >= 0
          BY <2>3
        <4> QED
          BY <4>1, <4>2, ZenonT(40) DEF Missing
      <3> QED
        BY <1>5, <3>1
    <2>5. tag_v'[w][s] = tag_v[w][s]
      BY <1>2, <2>1, <2>4, Zenon
    <2>6. PICK t \in Tags : t = tag_v[w][s]
      BY <1>5, <2>5 DEF TypeOK
    <2>7. L[t][s] = fresh.lines[t][s] /\ fresh.lines[t][s] <= mem[t][s]
      <3>1. L[t][s] = fresh.lines[t][s]
        <4>1. TypeOK /\ Versions
          BY Zenon
        <4>2. state # "INVALIDATE" \/ s # inv_line => L[t][s] = fresh.lines[t][s]
          <5> HIDE DEF IInv
          <5> QED
            BY <4>1, LinesMove
        <4> QED
          BY <2>1, <4>2, Zenon
      <3>2. fresh.lines[t][s] <= mem[t][s]
        BY Zenon DEF Versions
      <3> QED
        BY <3>1, <3>2, Zenon
    <2>8. CASE state = "REFILL" /\ w = free_way[2] /\ s = s2.set
      <3>1. s2.tag = t
        BY <2>6, <2>8, Zenon DEF Unique
      <3>2. free_way'[2] = w /\ s2'.set = s
        BY <1>0, <2>8
      <3>3. k < refill_cnt \/ (k = refill_cnt /\ R)
        <4>1. CASE R /\ rlast
          BY <1>4, <2>3, <2>8, <4>1 DEF rlast, Control
        <4>2. CASE ~(R /\ rlast)
          <5>1. state' = "REFILL"
            BY <1>1, <2>8, <4>2
          <5>2. ~(k >= refill_cnt')
            BY <1>5, <3>2, <5>1, Zenon DEF Missing
          <5>3. bus.beat = refill_cnt
            BY <2>8 DEF Control
          <5>4. R => refill_cnt # WORDS - 1
            BY <4>2, <5>3, <2>8, ZenonT(40) DEF rlast
          <5>5. refill_cnt' = (IF R THEN refill_cnt + 1 ELSE refill_cnt) /\ refill_cnt \in Nat
            BY <1>0, <1>4, <2>8, <5>4
          <5> QED
            BY <2>3, <5>2, <5>5
        <4> QED
          BY <4>1, <4>2
      <3>4. CASE k < refill_cnt
        <4>1. payload'[w][s][k] = payload[w][s][k] /\ ~Missing(w, s, k)
          <5>1. refill_cnt \in Nat
            BY <1>4
          <5>2. k # refill_cnt /\ ~(k >= refill_cnt)
            BY <2>3, <3>4, <5>1, NotLess, Zenon
          <5> QED
            BY <1>3, <5>2 DEF Missing
        <4> QED
          BY <1>5, <2>2, <2>5, <2>6, <2>7, <4>1, ZenonT(40) DEF Filled
      <3>5. CASE k = refill_cnt /\ R
        <4>1. payload'[w][s][k] = D
          BY <1>3, <2>8, <3>5, Zenon
        <4>2. Is(D, t, s, k, mem[t][s]) /\ D \in Data
          BY <1>0, <2>8, <3>1, <3>5, Zenon
        <4>3. D.ver \in Nat /\ mem[t][s] \in Nat /\ fresh.lines[t][s] \in Nat
          BY <4>2 DEF Data, TypeOK
        <4> QED
          BY <2>5, <2>6, <2>7, <4>1, <4>2, <4>3 DEF Is
      <3> QED
        BY <3>3, <3>4, <3>5, Zenon
    <2>9. CASE ~(state = "REFILL" /\ w = free_way[2] /\ s = s2.set)
      <3>1. payload'[w][s][k] = payload[w][s][k] /\ ~Missing(w, s, k)
        BY <1>3, <2>9, Zenon DEF Missing
      <3> QED
        BY <1>5, <2>2, <2>5, <2>6, <2>7, <3>1, Zenon DEF Filled
    <2> QED
      BY <2>8, <2>9, Zenon
  <1>6. \A w \in Ways, s \in Sets, k \in Words :
           Booted(s)' /\ tag_v'[w][s] # None /\ ~Missing(w, s, k)' =>
               Is(payload'[w][s][k], tag_v'[w][s], s, k, fresh'.lines[tag_v'[w][s]][s])
    <2>1. fresh'.lines = L
      BY <1>0, Zenon
    <2> QED
      BY <1>5, <2>1, Zenon
  <1> QED
    BY <1>6, ZenonT(40) DEF Filled

\* What stage 1 has read stays right: a refill changes the set, and the set is read again.
LEMMA ReadNext ==
    ASSUME IInv, NEW f, NEW p, NEW we, NEW R, NEW D, NEW L, Moves(f, p, we, R, D, L)
    PROVE  Read'
  <1> USE DEF IInv
  <1>0. /\ p \in BOOLEAN /\ we \in BOOLEAN /\ R \in BOOLEAN /\ state' = state_nxt(p, we, R, rlast)
        /\ (p => state = "IDLE" /\ f \in Fetches /\ f.tag # None)
        /\ tag_v' = tag_v_nxt /\ s1' = s1_nxt(p, f)
        /\ fresh'.s1 = IF p THEN L[f.tag][f.set] ELSE fresh.s1
    BY Zenon DEF Moves, fsm_idle
  <1>1. /\ state' = "REFILL" <=> state = "REPLACE" \/ (state = "REFILL" /\ ~(R /\ rlast))
        /\ state' = "RELOAD_S1O" <=> state = "REFILL" /\ R /\ rlast
        /\ state' = "BOOT" <=> state = "BOOT" /\ boot_cnt # SETS - 1
    BY <1>0, Comes
  <1>2. \A v \in Ways, r \in Sets :
           tag_v'[v][r] = CASE state = "BOOT" /\ r = boot_cnt -> None
                            [] state = "INVALIDATE" /\ r = inv_line -> None
                            [] state = "REPLACE" /\ v = free_way[1] /\ r = s2.set -> s2.tag
                            [] OTHER -> tag_v[v][r]
    BY <1>0, TagsMove, Zenon
  <1>3. CASE p \/ state = "RELOAD_S1O"
    <2>1. PICK g \in Fetches : g = IF p THEN f ELSE s1.fetch
      BY <1>0, Zenon DEF TypeOK
    <2>2. s1' = read(g)
      BY <1>0, <1>3, <2>1, Zenon DEF s1_nxt
    <2>3. /\ s1'.fetch = g
          /\ \A w \in Ways : s1'.tags[w] = tag_v[w][g.set] /\ s1'.words[w] = payload[w][g.set][g.word]
      BY <2>2 DEF read
    <2>4. g.set \in Sets /\ g.word \in Words /\ Booted(g.set) /\ state \in {"IDLE", "RELOAD_S1O"}
      BY <1>0, <1>3, Zenon DEF Fetches, Booted
    <2>5. \A v, w \in Ways : s1'.tags[v] = s1'.tags[w] /\ s1'.tags[v] # None => v = w
      <3> SUFFICES ASSUME NEW v \in Ways, NEW w \in Ways, s1'.tags[v] = s1'.tags[w], s1'.tags[v] # None
                   PROVE  v = w
        OBVIOUS
      <3>1. tag_v[v][g.set] = tag_v[w][g.set] /\ tag_v[v][g.set] # None
        BY <2>3, Zenon
      <3> QED
        BY <2>4, <3>1, Zenon DEF Unique
    <2>6. ASSUME NEW w \in Ways, s1'.tags[w] = g.tag, g.tag # None
          PROVE  Is(s1'.words[w], g.tag, g.set, g.word, fresh'.s1)
      <3>1. PICK t \in Tags : t = g.tag
        BY <2>6 DEF Fetches
      <3>2. tag_v[w][g.set] = t /\ t # None /\ ~Missing(w, g.set, g.word)
        BY <2>3, <2>4, <2>6, <3>1 DEF Missing
      <3>3. Is(payload[w][g.set][g.word], t, g.set, g.word, fresh.lines[t][g.set])
        BY <2>4, <3>2, Zenon DEF Filled
      <3>4. fresh'.s1 <= fresh.lines[t][g.set]
        <4>1. CASE p
          <5>1. L[t][g.set] = fresh.lines[t][g.set] /\ L[t][g.set] \in Nat
            BY <2>4, LinesMove
          <5>2. fresh'.s1 = L[t][g.set]
            BY <1>0, <2>1, <3>1, <4>1, Zenon
          <5> QED
            BY <5>1, <5>2, NotLess, Zenon
        <4>2. CASE ~p
          BY <1>0, <2>1, <2>6, <3>1, <4>2 DEF Versions
        <4> QED
          BY <4>1, <4>2
      <3>5. payload[w][g.set][g.word].ver \in Nat /\ fresh.lines[t][g.set] \in Nat
        <4>1. payload[w][g.set][g.word] \in Data
          BY <2>4 DEF TypeOK
        <4> QED
          BY <2>4, <4>1 DEF TypeOK, Data
      <3>6. fresh'.s1 \in Nat
        BY TypeNext DEF TypeOK
      <3> QED
        BY <2>3, <3>1, <3>3, <3>4, <3>5, <3>6 DEF Is
    <2>7. \A w \in Ways : tag_v'[w][g.set] = s1'.tags[w]
      BY <1>2, <2>3, <2>4
    <2> QED
      BY <2>3, <2>5, <2>6, <2>7, Zenon DEF Read, Is
  <1>4. CASE ~(p \/ state = "RELOAD_S1O")
    <2>1. s1' = s1 /\ fresh'.s1 = fresh.s1
      BY <1>0, <1>4, Zenon DEF s1_nxt
    <2>2. ASSUME state' \notin {"BOOT", "REFILL", "RELOAD_S1O"}, NEW w \in Ways
          PROVE  tag_v'[w][s1.fetch.set] \in {s1.tags[w], None}
      <3>1. s1.fetch.set \in Sets
        BY DEF TypeOK, Fetches
      <3>2. CASE state = "BOOT"
        <4>1. boot_cnt = SETS - 1
          BY <1>1, <2>2, <3>2
        <4>2. s1.fetch.set = boot_cnt \/ s1.fetch.set < boot_cnt
          <5>1. s1.fetch.set \in Nat /\ s1.fetch.set < SETS /\ SETS \in Nat
            BY <3>1, Sizes, Zenon
          <5> QED
            BY <4>1, <5>1
        <4> QED
          BY <1>2, <3>1, <3>2, <4>2 DEF Unique
      <3>3. CASE state # "BOOT"
        <4>1. state \notin {"REFILL", "REPLACE", "RELOAD_S1O"}
          BY <1>0, <1>1, <1>4, <2>2
        <4> QED
          BY <1>2, <3>1, <3>3, <4>1 DEF Read
      <3> QED
        BY <3>2, <3>3, Zenon
    <2> QED
      BY <2>1, <2>2, Zenon DEF Read, Is
  <1> QED
    BY <1>3, <1>4, Zenon

\* The word stage 2 delivers is right in each of its ways: hit, beat of a refill, two halves.
LEMMA ServedNext ==
    ASSUME IInv, NEW f, NEW p, NEW we, NEW R, NEW D, NEW L, Moves(f, p, we, R, D, L)
    PROVE  Served'
  <1> USE DEF IInv
  <1>0. /\ p \in BOOLEAN /\ we \in BOOLEAN /\ R \in BOOLEAN /\ state' = state_nxt(p, we, R, rlast)
        /\ (p => state = "IDLE")
        /\ ins' = ins_nxt(p, D) /\ s2' = (IF p THEN s1.fetch ELSE s2)
        /\ fresh'.s2 = (IF p THEN fresh.s1 ELSE fresh.s2)
        /\ inflight' = (IF state = "IDLE" THEN IF p THEN s2i_inflight ELSE "no" ELSE inflight)
        /\ refill_cnt' = (IF state = "REFILL" /\ R THEN (refill_cnt + 1) % WORDS ELSE refill_cnt)
        /\ uncached_cnt' = (IF state = "UNCACHED_READ" /\ R THEN (uncached_cnt + 1) % 2 ELSE uncached_cnt)
    BY Zenon DEF Moves, fsm_idle, refill_cnt_nxt
  <1>1. /\ state' = "BOOT" <=> state = "BOOT" /\ boot_cnt # SETS - 1
        /\ state' = "REPLACE" <=> \/ state = "IDLE" /\ ~we /\ p /\ s2i_inflight = "miss"
                                  \/ state = "INVALIDATE" /\ inflight = "miss"
        /\ state' = "REFILL" <=> state = "REPLACE" \/ (state = "REFILL" /\ ~(R /\ rlast))
        /\ state' = "RELOAD_S1O" <=> state = "REFILL" /\ R /\ rlast
        /\ state' = "INVALIDATE" <=> state = "IDLE" /\ we
        /\ state' = "UNCACHED_BOOT" <=> \/ state = "IDLE" /\ ~we /\ p /\ s2i_inflight = "uncached"
                                        \/ state = "INVALIDATE" /\ inflight = "uncached"
        /\ state' = "UNCACHED_READ" <=> \/ state = "UNCACHED_BOOT"
                                        \/ state = "UNCACHED_READ" /\ ~(R /\ uncached_cnt = 1)
        /\ state' \in States
    BY <1>0, Comes, Zenon
  <1>2. SUFFICES ASSUME s2'.kind # "killed", NEW h \in Delivered'
                 PROVE  Is(ins'[h], s2'.tag, s2'.set, s2'.word, fresh'.s2)
    BY DEF Served, Is
  <1>3. Halves = {0, 1} /\ h \in Halves /\ uncached_cnt \in Halves
    BY Sizes DEF Delivered, TypeOK
  \* A word that is there stays.
  <1>4. ASSUME ~p, ins'[h] = ins[h], h \in Delivered
        PROVE  Is(ins'[h], s2'.tag, s2'.set, s2'.word, fresh'.s2)
    BY <1>0, <1>2, <1>4, Zenon DEF Served
  <1>5. CASE state = "BOOT"
    BY <1>0, <1>2, <1>5 DEF Control
  <1>6. CASE state = "IDLE"
    <2>1. CASE p
      <3>1. s2i_inflight = "no"
        <4>1. state' \in {"IDLE", "INVALIDATE", "REPLACE", "UNCACHED_BOOT"}
          BY <1>0, <1>1, <1>6 DEF States
        <4>2. state' = "IDLE" \/ (state' = "INVALIDATE" /\ inflight' = "no")
          BY <1>2, <4>1 DEF Delivered
        <4>3. s2i_inflight \notin {"miss", "uncached"}
          BY <1>0, <1>1, <1>6, <2>1, <4>2, Zenon
        <4> QED
          BY <4>3, Starts, Zenon
      <3>2. s1.fetch.kind \in {"cached", "uncached"} /\ s1.fetch.tag # None
        <4>1. s1.fetch.kind \in Kinds /\ s1.fetch.kind # "killed"
          BY <1>0, <1>2, <2>1 DEF TypeOK, Fetches
        <4> QED
          BY <4>1 DEF Kinds, Control, Asked
      <3>3. PICK w : w \in hit_ways
        BY <3>1, <3>2, Starts
      <3>4. match_payload = s1.words[w]
        BY <1>6, <3>2, <3>3, Lookup
      <3>5. ins' = [i \in Halves |-> match_payload]
        BY <1>0, <1>6, <2>1, Zenon DEF ins_nxt
      <3>6. Is(s1.words[w], s1.fetch.tag, s1.fetch.set, s1.fetch.word, fresh.s1)
        BY <3>2, <3>3 DEF Read, hit_ways
      <3> QED
        BY <1>0, <1>3, <2>1, <3>4, <3>5, <3>6, Zenon
    <2>2. CASE ~p
      BY <1>0, <1>3, <1>4, <1>6, <2>2 DEF ins_nxt, Delivered
    <2> QED
      BY <2>1, <2>2
  <1>7. CASE state = "INVALIDATE"
    <2>1. inflight = "no"
      <3>1. state' \in {"IDLE", "REPLACE", "UNCACHED_BOOT"}
        BY <1>0, <1>1, <1>7 DEF States
      <3>2. state' = "IDLE"
        BY <1>2, <3>1 DEF Delivered
      <3> QED
        BY <1>1, <1>7, <3>2 DEF TypeOK
    <2> QED
      BY <1>0, <1>3, <1>4, <1>7, <2>1 DEF ins_nxt, Delivered
  <1>8. CASE state \in {"REPLACE", "UNCACHED_BOOT"}
    <2>1. state' = (IF state = "REPLACE" THEN "REFILL" ELSE "UNCACHED_READ") /\ refill_cnt' = 0 /\ uncached_cnt' = 0
      BY <1>0, <1>1, <1>8 DEF Control
    <2>2. s2'.word \in Nat
      BY TypeNext, Sizes, Zenon DEF TypeOK, Fetches
    <2>3. Delivered' = {}
      BY <1>3, <1>8, <2>1, <2>2 DEF Delivered
    <2> QED
      BY <1>2, <2>3, Zenon
  <1>9. CASE state = "REFILL"
    <2>1. /\ refill_cnt \in Nat /\ refill_cnt < WORDS /\ s2.word \in Nat /\ s2.word < WORDS /\ WORDS \in Nat
          /\ (refill_cnt + 1) % WORDS = IF refill_cnt = WORDS - 1 THEN 0 ELSE refill_cnt + 1
      BY Sizes, Zenon DEF TypeOK, Fetches
    <2>2. bus.beat = refill_cnt /\ (rlast <=> refill_cnt = WORDS - 1) /\ s2' = s2 /\ fresh'.s2 = fresh.s2
      BY <1>0, <1>9 DEF Control, rlast
    <2>3. refill_cnt > s2.word \/ (R /\ refill_cnt = s2.word)
      <3>1. CASE R /\ rlast
        BY <2>1, <2>2, <3>1
      <3>2. CASE ~(R /\ rlast)
        <4>1. state' = "REFILL"
          BY <1>1, <1>9, <3>2
        <4>2. refill_cnt' > s2.word
          BY <1>2, <2>2, <4>1, Zenon DEF Delivered
        <4>3. refill_cnt' = IF R THEN refill_cnt + 1 ELSE refill_cnt
          BY <1>0, <1>9, <2>1, <2>2, <3>2
        <4> QED
          BY <2>1, <4>2, <4>3
      <3> QED
        BY <3>1, <3>2
    <2>4. ins' = IF refill_cnt = s2.word THEN [i \in Halves |-> D] ELSE ins
      BY <1>0, <1>9, Zenon DEF ins_nxt
    <2>5. CASE refill_cnt > s2.word
      <3>1. ins' = ins /\ h \in Delivered
        BY <1>3, <1>9, <2>1, <2>4, <2>5 DEF Delivered
      <3> QED
        BY <1>0, <1>4, <1>9, <3>1
    <2>6. CASE R /\ refill_cnt = s2.word
      <3>1. Is(D, s2.tag, s2.set, s2.word, mem[s2.tag][s2.set]) /\ D \in Data
        BY <1>9, <2>6, Zenon DEF Moves
      <3>2. s2.tag \in Tags /\ s2.set \in Sets
        BY <1>9 DEF TypeOK, Fetches, Control, Asked
      <3>3. fresh.s2 <= fresh.lines[s2.tag][s2.set] /\ fresh.lines[s2.tag][s2.set] <= mem[s2.tag][s2.set]
        BY <3>2, Sizes, Zenon DEF Versions
      <3>4. fresh.s2 \in Nat /\ fresh.lines[s2.tag][s2.set] \in Nat /\ mem[s2.tag][s2.set] \in Nat /\ D.ver \in Nat
        <4>1. fresh.s2 \in Nat /\ fresh.lines \in [Tags -> [Sets -> Nat]] /\ mem \in [Tags -> [Sets -> Nat]]
          BY Zenon DEF TypeOK
        <4>2. D.ver \in Nat
          BY <3>1 DEF Data
        <4> QED
          BY <3>2, <4>1, <4>2
      <3>5. ins'[h] = D
        BY <1>3, <2>4, <2>6
      <3> QED
        BY <2>2, <3>1, <3>3, <3>4, <3>5 DEF Is
    <2> QED
      BY <2>3, <2>5, <2>6
  <1>10. CASE state = "RELOAD_S1O"
    BY <1>0, <1>3, <1>4, <1>10 DEF ins_nxt, Delivered
  <1>11. CASE state = "UNCACHED_READ"
    <2>1. s2' = s2 /\ fresh'.s2 = fresh.s2 /\ ~p /\ ins' = [ins EXCEPT ![uncached_cnt] = D] /\ ins \in [Halves -> Data]
      BY <1>0, <1>11 DEF ins_nxt, TypeOK
    <2>2. h < uncached_cnt \/ (R /\ h = uncached_cnt)
      <3>1. CASE R /\ uncached_cnt = 1
        BY <1>3, <3>1
      <3>2. CASE ~(R /\ uncached_cnt = 1)
        <4>1. state' = "UNCACHED_READ"
          BY <1>1, <1>11, <3>2
        <4>2. h < uncached_cnt'
          BY <1>2, <4>1, Zenon DEF Delivered
        <4>3. uncached_cnt' = IF R THEN 1 ELSE uncached_cnt
          BY <1>0, <1>3, <1>11, <3>2
        <4> QED
          BY <1>3, <3>2, <4>2, <4>3
      <3> QED
        BY <3>1, <3>2
    <2>3. CASE h < uncached_cnt
      <3>1. h # uncached_cnt
        BY <1>3, <2>3
      <3>2. ins'[h] = ins[h]
        BY <1>3, <2>1, <3>1
      <3>3. h \in Delivered
        BY <1>3, <1>11, <2>3 DEF Delivered
      <3> QED
        BY <1>4, <2>1, <3>2, <3>3
    <2>4. CASE R /\ h = uncached_cnt
      <3>1. Is(D, s2.tag, s2.set, s2.word, mem[s2.tag][s2.set]) /\ D \in Data
        BY <1>11, <2>4, Zenon DEF Moves
      <3>2. s2.tag \in Tags /\ s2.set \in Sets
        BY <1>11, Zenon DEF TypeOK, Fetches, Control, Asked
      <3>3. fresh.s2 <= fresh.lines[s2.tag][s2.set] /\ fresh.lines[s2.tag][s2.set] <= mem[s2.tag][s2.set]
        BY <3>2, Sizes, Zenon DEF Versions
      <3>4. fresh.s2 \in Nat /\ fresh.lines[s2.tag][s2.set] \in Nat /\ mem[s2.tag][s2.set] \in Nat /\ D.ver \in Nat
        <4>1. fresh.s2 \in Nat /\ fresh.lines \in [Tags -> [Sets -> Nat]] /\ mem \in [Tags -> [Sets -> Nat]]
          BY Zenon DEF TypeOK
        <4>2. D.ver \in Nat
          BY <3>1 DEF Data
        <4> QED
          BY <3>2, <4>1, <4>2
      <3>5. ins'[h] = D
        BY <1>3, <2>1, <2>4
      <3> QED
        BY <2>1, <3>1, <3>3, <3>4, <3>5 DEF Is
    <2> QED
      BY <2>2, <2>3, <2>4
  <1> QED
    BY <1>5, <1>6, <1>7, <1>8, <1>9, <1>10, <1>11 DEF TypeOK, States
-----------------------------------------------------------------------------
(* The theorems *)

\* The invariant holds after reset, whatever is in the tag RAM.
LEMMA InitIInv ==
    ASSUME Init
    PROVE  IInv
  <1>1. Junk \in Data /\ NoFetch \in Fetches
    BY Sizes DEF Junk, Data, NoFetch, Fetches, Kinds
  <1>2. mem \in [Tags -> [Sets -> Nat]] /\ \A t \in Tags, s \in Sets : mem[t][s] = 0
    BY DEF Init
  <1>3. fresh.lines = mem /\ fresh.s1 = 0 /\ fresh.s2 = 0 /\ fresh \in [lines : [Tags -> [Sets -> Nat]], s1 : Nat, s2 : Nat]
    BY <1>2, Zenon DEF Init
  <1>4. /\ s1.fetch = NoFetch /\ s2 = NoFetch /\ (\A w \in Ways : s1.tags[w] = None)
        /\ NoFetch.tag = None /\ NoFetch.kind = "killed"
    BY DEF Init, NoFetch
  <1>5. TypeOK
    <2>1. s1 \in [fetch : Fetches, tags : [Ways -> Tags \cup {None}], words : [Ways -> Data]]
      BY <1>1 DEF Init
    <2>2. payload \in [Ways -> [Sets -> [Words -> Data]]] /\ ins \in [Halves -> Data]
      BY <1>1 DEF Init
    <2>3. free_way \in Ways \X Ways /\ bus \in [ar : {"none", "valid", "taken"}, beat : Nat]
      BY Sizes, Zenon DEF Init
    <2>4. /\ state \in States /\ boot_cnt \in Sets /\ refill_cnt \in Words /\ uncached_cnt \in Halves
          /\ inflight \in {"miss", "uncached", "no"} /\ inv_line \in Sets /\ s2 \in Fetches /\ icinv \in Sets \cup {None}
          /\ tag_v \in [Ways -> [Sets -> Tags \cup {None}]]
      BY <1>1, Sizes, Zenon DEF Init, States
    <2> QED
      BY <1>2, <1>3, <2>1, <2>2, <2>3, <2>4, Zenon DEF TypeOK
  <1>6. Versions
    BY <1>2, <1>3, <1>4 DEF Versions
  <1>7. state = "BOOT" /\ boot_cnt = 0 /\ refill_cnt = 0 /\ uncached_cnt = 0
    BY DEF Init
  <1>8. Control
    BY <1>4, <1>7 DEF Control, Asked
  <1>9. \A s \in Sets : ~(s < boot_cnt)
    BY <1>7, Sizes
  <1>10. Unique /\ Filled
    BY <1>7, <1>9, Zenon DEF Unique, Filled, Booted
  <1>11. Read /\ Served
    BY <1>4, <1>7 DEF Read, Served
  <1> QED
    BY <1>5, <1>6, <1>8, <1>10, <1>11 DEF IInv

\* The inductive invariant holds at every edge, whatever is fetched, stored and
\* invalidated and however long the bus takes.
THEOREM ICacheInvariant == Spec => []IInv
  <1>1. IInv /\ [Next]_vars => IInv'
    <2> SUFFICES ASSUME IInv, [Next]_vars PROVE IInv'
      OBVIOUS
    <2>1. CASE Next
      <3>1. PICK f, p, we, R, D, L : Moves(f, p, we, R, D, L)
        BY <2>1, EdgeMoves DEF IInv
      <3> QED
        BY <3>1, TypeNext, VersionsNext, ControlNext, UniqueNext, FilledNext, ReadNext, ServedNext DEF IInv
    <2>2. CASE UNCHANGED vars
      BY <2>2 DEF vars, fsm, IInv, TypeOK, Versions, Control, Asked, Unique, Booted, Filled, Missing, Is, Read, Served, Delivered
    <2> QED
      BY <2>1, <2>2
  <1> QED
    BY <1>1, InitIInv, PTL DEF Spec

\* The word given to the prefetch buffer is the word the fetch asked for: a hit is in one
\* way only, a refill puts every beat of the burst where it belongs, and what a fetch
\* in stage 1 has read is read again after the refill.
THEOREM DeliversWordAskedHolds == Spec => []DeliversWordAsked
  <1>1. IInv => DeliversWordAsked
    BY DEF IInv, Served, Delivered, Is, DeliversWordAsked, fsm_idle
  <1> QED
    BY <1>1, ICacheInvariant, PTL

\* No fetch that enters after an invalidation of its set gets a word from before it: the
\* tags of the set are cleared, and a refill in flight or a fetch already in stage 1
\* cannot bring the old word back to it.
THEOREM FetchesAreFreshHolds == Spec => []FetchesAreFresh
  <1>1. IInv => FetchesAreFresh
    BY DEF IInv, Served, Delivered, Is, FetchesAreFresh, fsm_idle
  <1> QED
    BY <1>1, ICacheInvariant, PTL

-----------------------------------------------------------------------------
(* Address translation.                                                     *)

Psr3 == [rm : BOOLEAN, imme : BOOLEAN, dmme : BOOLEAN]

\* The registers of the IMMU and of the DMMU, and an instruction in flight.
FetchReg == [valid : {TRUE}, vpn : Page, rm : BOOLEAN, imme : BOOLEAN, ice : BOOLEAN, l : TlbL, h : ItlbH]
AccessReg == [valid : {TRUE}, vpn : Page, we : BOOLEAN, rm : BOOLEAN, dmme : BOOLEAN, dce : BOOLEAN,
              l : TlbL, h : DtlbH]
Insn == [vpn : Page, ETM : BOOLEAN, EPF : BOOLEAN, ppn : Page, uncached : BOOLEAN]

MmuTyped ==
    /\ itlb_l \in [IIdx -> TlbL] /\ itlb_h \in [IIdx -> ItlbH]
    /\ dtlb_l \in [DIdx -> TlbL] /\ dtlb_h \in [DIdx -> DtlbH]
    /\ psr \in Psr /\ epsr \in Psr3
    /\ s1o \in FetchReg \cup {NoStage1}
    /\ iq \in Seq(Insn)
    /\ epu \in Requests \cup {Idle}
    /\ lsu \in AccessReg \cup {NoAccess}
    /\ s1o_se_fls \in BOOLEAN

\* The registers of the IMMU hold what the PSR and the TLB hold now.
FetchCurrent(r) ==
    /\ r.rm = psr.rm /\ r.imme = psr.imme /\ r.ice = psr.ice
    /\ r.l = itlb_l[tgt_index(r.vpn, ISets)] /\ r.h = itlb_h[tgt_index(r.vpn, ISets)]

AccessCurrent(r) ==
    /\ r.rm = psr.rm /\ r.dmme = psr.dmme /\ r.dce = psr.dce
    /\ r.l = dtlb_l[tgt_index(r.vpn, DSets)] /\ r.h = dtlb_h[tgt_index(r.vpn, DSets)]

\* What an instruction in flight was translated to is what it would be now.
Translated(x) == Same(x, immu_translate_vma(x.vpn))

\* Everything fetched is current, unless a refetch is about to throw it away.
UpToDate ==
    ~s1o_se_fls => /\ s1o # NoStage1 => FetchCurrent(s1o)
                   /\ \A i \in 1 .. Len(iq) : Translated(iq[i])

\* A pending access and a request to the EPU exclude each other, and either a
\* flush; they belong to the oldest instruction, and the access is current.
Exclusive ==
    /\ lsu # NoAccess => epu = Idle /\ AccessCurrent(lsu)
    /\ lsu # NoAccess \/ epu # Idle => ~s1o_se_fls /\ iq # <<>>

MmuInv == MmuTyped /\ UpToDate /\ Exclusive

-----------------------------------------------------------------------------
\* The set an address selects exists (immu.v, dmmu.v: tgt_index).
LEMMA IndexFacts ==
    ASSUME NEW vpn \in Page
    PROVE  tgt_index(vpn, ISets) \in IIdx /\ tgt_index(vpn, DSets) \in DIdx
  <1>1. vpn \in Nat /\ ISets \in Nat \ {0} /\ DSets \in Nat \ {0}
    BY MmuParameters DEF Page
  <1>2. \A n \in Nat \ {0} : vpn % n \in 0 .. n - 1
    BY <1>1, Remainder, Zenon
  <1> QED
    BY <1>1, <1>2, Zenon DEF tgt_index, IIdx, DIdx

\* The IMMU answers as immu_translate_vma when its registers are current.
LEMMA ImmuTranslates ==
    ASSUME MmuTyped, NEW r \in FetchReg, FetchCurrent(r)
    PROVE  Fetched(r) \in Insn /\ Fetched(r).vpn = r.vpn /\ Same(Fetched(r), immu_translate_vma(r.vpn))
  <1> DEFINE t == immu(r)
             e == immu_translate_vma(r.vpn)
  <1>1. /\ r.vpn \in Page /\ r.rm \in BOOLEAN /\ r.imme \in BOOLEAN /\ r.ice \in BOOLEAN
        /\ r.l \in TlbL /\ r.h \in ItlbH /\ UncachedSeg \in BOOLEAN /\ 0 \in Page
    BY MmuParameters DEF FetchReg, Page
  <1>2. /\ r.l.v \in BOOLEAN /\ r.h.ppn \in Page /\ r.h.unc \in BOOLEAN /\ r.h.ux \in BOOLEAN /\ r.h.rx \in BOOLEAN
    BY <1>1, Zenon DEF TlbL, ItlbH
  <1> DEFINE hit == r.l.v /\ r.l.vpn = r.vpn
             denied == IF r.rm THEN ~r.h.rx ELSE ~r.h.ux
             ppn == IF r.imme THEN r.h.ppn ELSE r.vpn
             ok == ~r.imme \/ (hit /\ ~denied)
             unc == \/ ok /\ ((r.imme /\ r.h.unc) \/ (UncachedSeg /\ ~Upper(ppn)))
                    \/ ~r.ice
  <1>3. e = [ret |-> IF ok THEN "ok" ELSE IF hit THEN "EM_PAGE_FAULT" ELSE "EM_TLB_MISS",
             ppn |-> ppn, uncached |-> unc]
    BY Zenon DEF FetchCurrent, immu_translate_vma, translate
  <1>3a. /\ e.ret = IF ok THEN "ok" ELSE IF hit THEN "EM_PAGE_FAULT" ELSE "EM_TLB_MISS"
         /\ e.ppn = ppn /\ e.uncached = unc
    <2> HIDE DEF e, ok, hit, ppn, unc
    <2> QED
      BY <1>3
  <1>4. /\ t.ETM = (~hit /\ r.imme)
        /\ t.EPF = (denied /\ hit /\ r.imme)
        /\ t.ppn = ppn
    BY <1>1, <1>2, Zenon DEF immu, tlb_miss, i_perm_denied
  <1>5. ok => t.uncached = unc
    BY <1>1, <1>2, Zenon DEF immu, tlb_miss, i_perm_denied, uncached_by
  <1>6. t.uncached \in BOOLEAN
    BY DEF immu
  <1>7. (t.ETM \/ t.EPF) <=> ~ok
    BY <1>1, <1>2, <1>4, Zenon
  <1>8. CASE ok
    <2>1. Fetched(r) = [vpn |-> r.vpn, ETM |-> FALSE, EPF |-> FALSE, ppn |-> ppn, uncached |-> unc]
      BY <1>4, <1>5, <1>7, <1>8, Zenon DEF Fetched
    <2>2. e.ret = "ok"
      <3> HIDE DEF e, ok, hit, ppn, unc
      <3> QED
        BY <1>3a, <1>8, Zenon
    <2>3. unc \in BOOLEAN /\ ppn \in Page
      BY <1>1, <1>2, Zenon
    <2>4. Fetched(r) \in Insn /\ Fetched(r).vpn = r.vpn
      <3>1. r.vpn \in Page
        BY <1>1, Zenon
      <3> HIDE DEF ppn, unc
      <3> QED
        BY <2>1, <2>3, <3>1 DEF Insn
    <2>5. e.ppn = ppn /\ e.uncached = unc
      BY <1>3a, Zenon
    <2> HIDE DEF e, ppn, unc
    <2>6. /\ Fetched(r).ETM = FALSE /\ Fetched(r).EPF = FALSE
          /\ Fetched(r).ppn = ppn /\ Fetched(r).uncached = unc
      BY <2>1
    <2>7. Same(Fetched(r), e)
      BY <2>2, <2>5, <2>6, Zenon DEF Same
    <2> QED
      BY <2>4, <2>7, Zenon DEF e
  <1>9. CASE ~ok
    <2>1. Fetched(r) = [vpn |-> r.vpn, ETM |-> t.ETM, EPF |-> t.EPF, ppn |-> 0, uncached |-> FALSE]
      BY <1>7, <1>9, Zenon DEF Fetched
    <2>2. e.ret = IF hit THEN "EM_PAGE_FAULT" ELSE "EM_TLB_MISS"
      <3> HIDE DEF e, ok, hit, ppn, unc
      <3> QED
        BY <1>3a, <1>9, Zenon
    <2>3. t.ETM = ~hit /\ t.EPF = hit
      BY <1>1, <1>2, <1>4, <1>9, Zenon
    <2>4. hit \in BOOLEAN /\ r.vpn \in Page /\ 0 \in Page
      BY <1>1, <1>2, Zenon
    <2> HIDE DEF e, t, hit
    <2>5. t.ETM \in BOOLEAN /\ t.EPF \in BOOLEAN
      BY <2>3, <2>4, Zenon
    <2>6. Fetched(r) \in Insn /\ Fetched(r).vpn = r.vpn /\ Fetched(r).ETM = t.ETM /\ Fetched(r).EPF = t.EPF
      BY <2>1, <2>4, <2>5 DEF Insn
    <2>7. Same(Fetched(r), e)
      BY <2>2, <2>3, <2>4, <2>6, Zenon DEF Same
    <2> QED
      BY <2>6, <2>7, Zenon DEF e
  <1> QED
    BY <1>8, <1>9

\* The DMMU answers as dmmu_translate_vma when its registers are current.
LEMMA DmmuTranslates ==
    ASSUME MmuTyped, NEW r \in AccessReg, AccessCurrent(r)
    PROVE  Same(dmmu(r), dmmu_translate_vma(r.vpn, r.we))
  <1> DEFINE t == dmmu(r)
             e == dmmu_translate_vma(r.vpn, r.we)
  <1>1. /\ r.vpn \in Page /\ r.we \in BOOLEAN /\ r.rm \in BOOLEAN /\ r.dmme \in BOOLEAN /\ r.dce \in BOOLEAN
        /\ r.l \in TlbL /\ r.h \in DtlbH /\ UncachedSeg \in BOOLEAN
    BY MmuParameters, Zenon DEF AccessReg
  <1>2. /\ r.l.v \in BOOLEAN /\ r.h.unc \in BOOLEAN
        /\ r.h.uw \in BOOLEAN /\ r.h.ur \in BOOLEAN /\ r.h.rw \in BOOLEAN /\ r.h.rr \in BOOLEAN
    BY <1>1, Zenon DEF TlbL, DtlbH
  <1> DEFINE hit == r.l.v /\ r.l.vpn = r.vpn
             denied == IF r.rm THEN IF r.we THEN ~r.h.rw ELSE ~r.h.rr
                               ELSE IF r.we THEN ~r.h.uw ELSE ~r.h.ur
             ppn == IF r.dmme THEN r.h.ppn ELSE r.vpn
             ok == ~r.dmme \/ (hit /\ ~denied)
             unc == \/ ok /\ ((r.dmme /\ r.h.unc) \/ (UncachedSeg /\ ~Upper(ppn)))
                    \/ ~r.dce
  <1>3. e = [ret |-> IF ok THEN "ok" ELSE IF hit THEN "EM_PAGE_FAULT" ELSE "EM_TLB_MISS",
             ppn |-> ppn, uncached |-> unc]
    BY Zenon DEF AccessCurrent, dmmu_translate_vma, translate
  <1>3a. /\ e.ret = IF ok THEN "ok" ELSE IF hit THEN "EM_PAGE_FAULT" ELSE "EM_TLB_MISS"
         /\ e.ppn = ppn /\ e.uncached = unc
    <2> HIDE DEF e, ok, hit, ppn, unc
    <2> QED
      BY <1>3
  <1>4. d_perm_denied(r) <=> denied
    BY <1>1, <1>2, Zenon DEF d_perm_denied
  <1>5. /\ t.ETM = (~hit /\ r.dmme)
        /\ t.EPF = (denied /\ hit /\ r.dmme)
        /\ t.ppn = ppn
    BY <1>1, <1>2, <1>4, Zenon DEF dmmu, tlb_miss
  <1>6. ok => t.uncached = unc
    BY <1>1, <1>2, <1>4, Zenon DEF dmmu, tlb_miss, uncached_by
  <1>7. CASE ok
    <2>1. e.ret = "ok"
      <3> HIDE DEF e, ok, hit, ppn, unc
      <3> QED
        BY <1>3a, <1>7, Zenon
    <2>2. t.ETM = FALSE /\ t.EPF = FALSE
      BY <1>1, <1>2, <1>5, <1>7, Zenon
    <2>3. e.ppn = ppn /\ e.uncached = unc
      BY <1>3a, Zenon
    <2> HIDE DEF t, e, ppn, unc
    <2> QED
      BY <1>5, <1>6, <1>7, <2>1, <2>2, <2>3, Zenon DEF Same, t, e
  <1>8. CASE ~ok
    <2>1. e.ret = IF hit THEN "EM_PAGE_FAULT" ELSE "EM_TLB_MISS"
      <3> HIDE DEF e, ok, hit, ppn, unc
      <3> QED
        BY <1>3a, <1>8, Zenon
    <2>2. t.ETM = ~hit /\ t.EPF = hit
      BY <1>1, <1>2, <1>5, <1>8, Zenon
    <2> QED
      BY <1>1, <1>2, <2>1, <2>2, Zenon DEF Same
  <1> QED
    BY <1>7, <1>8

-----------------------------------------------------------------------------
\* The operands of a request are values of what it writes.
LEMMA RequestTyped ==
    ASSUME NEW q \in Requests
    PROVE  /\ q # Idle
           /\ q.op \in {"itlbl", "itlbh", "dtlbl", "dtlbh", "psr", "epsr", "exc", "rete"}
           /\ q.op = "itlbl" => q.idx \in IIdx /\ q.val \in TlbL
           /\ q.op = "itlbh" => q.idx \in IIdx /\ q.val \in ItlbH
           /\ q.op = "dtlbl" => q.idx \in DIdx /\ q.val \in TlbL
           /\ q.op = "dtlbh" => q.idx \in DIdx /\ q.val \in DtlbH
           /\ q.op = "psr" => q.val \in Psr
           /\ q.op = "epsr" => q.val \in Psr3
  <1>1. CASE q \in [op: {"itlbl"}, idx: IIdx, val: ItlbLs]
    BY <1>1, MmuParameters DEF Idle
  <1>2. CASE q \in [op: {"itlbh"}, idx: IIdx, val: ItlbHs]
    BY <1>2, MmuParameters DEF Idle
  <1>3. CASE q \in [op: {"dtlbl"}, idx: DIdx, val: DtlbLs]
    BY <1>3, MmuParameters DEF Idle
  <1>4. CASE q \in [op: {"dtlbh"}, idx: DIdx, val: DtlbHs]
    BY <1>4, MmuParameters DEF Idle
  <1>5. CASE q \in [op: {"psr"}, val: Psrs]
    BY <1>5, MmuParameters DEF Idle
  <1>6. CASE q \in [op: {"epsr"}, val: {[rm |-> p.rm, imme |-> p.imme, dmme |-> p.dmme] : p \in Psrs}]
    <2>1. q.op = "epsr" /\ q.val \in {[rm |-> p.rm, imme |-> p.imme, dmme |-> p.dmme] : p \in Psrs}
      BY <1>6
    <2>2. PICK p \in Psr : q.val = [rm |-> p.rm, imme |-> p.imme, dmme |-> p.dmme]
      BY <2>1, MmuParameters
    <2>3. q.val \in Psr3
      BY <2>2 DEF Psr, Psr3
    <2> QED
      BY <2>1, <2>3 DEF Idle
  <1>7. CASE q \in [op: {"exc", "rete"}]
    BY <1>7 DEF Idle
  <1> QED
    BY <1>1, <1>2, <1>3, <1>4, <1>5, <1>6, <1>7, Zenon DEF Requests

\* The bypassed PSR is a PSR, and it is the register's when nothing writes it.
LEMMA PsrNext ==
    ASSUME MmuTyped
    PROVE  psr_nxt \in Psr /\ (epu.op \notin {"exc", "rete", "psr"} => psr_nxt = psr)
  <1>1. psr \in Psr /\ epsr \in Psr3
    BY DEF MmuTyped
  <1>2. epu.op = "psr" => epu.val \in Psr
    BY RequestTyped DEF MmuTyped, Idle
  <1>3. CASE epu.op = "exc"
    BY <1>1, <1>3, Zenon DEF psr_nxt, Psr
  <1>4. CASE epu.op = "rete"
    BY <1>1, <1>4, Zenon DEF psr_nxt, Psr, Psr3
  <1>5. CASE epu.op = "psr"
    BY <1>2, <1>5 DEF psr_nxt
  <1>6. CASE epu.op \notin {"exc", "rete", "psr"}
    BY <1>1, <1>6 DEF psr_nxt
  <1> QED
    BY <1>3, <1>4, <1>5, <1>6

\* What a clock edge loads into the IMMU, and what its registers then hold.
LEMMA FetchLoads ==
    ASSUME MmuTyped, NEW vpn \in FetchVpns
    PROVE  /\ immu_ff(vpn) \in FetchReg
           /\ psr_nxt = psr => FetchCurrent(immu_ff(vpn))
  <1>1. vpn \in Page
    BY MmuParameters
  <1>2. itlb_l[tgt_index(vpn, ISets)] \in TlbL /\ itlb_h[tgt_index(vpn, ISets)] \in ItlbH
    BY <1>1, IndexFacts DEF MmuTyped
  <1>3. /\ psr_nxt.rm \in BOOLEAN /\ psr_nxt.imme \in BOOLEAN /\ psr_nxt.ice \in BOOLEAN
    BY PsrNext, Zenon DEF Psr
  <1>4. immu_ff(vpn) \in FetchReg
    BY <1>1, <1>2, <1>3, Zenon DEF immu_ff, FetchReg
  <1>5. psr_nxt = psr => FetchCurrent(immu_ff(vpn))
    BY Zenon DEF immu_ff, FetchCurrent
  <1> QED
    BY <1>4, <1>5

\* The same of the DMMU.
LEMMA AccessLoads ==
    ASSUME MmuTyped, NEW vpn \in DataVpns, NEW we \in BOOLEAN
    PROVE  /\ dmmu_ff(vpn, we) \in AccessReg
           /\ psr_nxt = psr => AccessCurrent(dmmu_ff(vpn, we))
  <1>1. vpn \in Page
    BY MmuParameters
  <1>2. dtlb_l[tgt_index(vpn, DSets)] \in TlbL /\ dtlb_h[tgt_index(vpn, DSets)] \in DtlbH
    BY <1>1, IndexFacts DEF MmuTyped
  <1>3. /\ psr_nxt.rm \in BOOLEAN /\ psr_nxt.dmme \in BOOLEAN /\ psr_nxt.dce \in BOOLEAN
    BY PsrNext, Zenon DEF Psr
  <1>4. dmmu_ff(vpn, we) \in AccessReg
    BY <1>1, <1>2, <1>3, Zenon DEF dmmu_ff, AccessReg
  <1>5. psr_nxt = psr => AccessCurrent(dmmu_ff(vpn, we))
    BY Zenon DEF dmmu_ff, AccessCurrent
  <1> QED
    BY <1>4, <1>5

\* The queue when what the IMMU held joins it.
LEMMA Joins ==
    ASSUME NEW q \in Seq(Insn), NEW x \in Insn
    PROVE  LET n == q \o <<x>> IN
           /\ n \in Seq(Insn) /\ n # <<>>
           /\ Len(n) = Len(q) + 1
           /\ \A i \in 1 .. Len(n) : n[i] = IF i <= Len(q) THEN q[i] ELSE x
  OBVIOUS

\* The queue when its oldest instruction leaves it.
LEMMA Leaves ==
    ASSUME NEW q \in Seq(Insn), q # <<>>
    PROVE  /\ Tail(q) \in Seq(Insn)
           /\ \A i \in 1 .. Len(Tail(q)) : i + 1 \in 1 .. Len(q) /\ Tail(q)[i] = q[i + 1]
  <1>1. Tail(q) \in Seq(Insn) /\ Len(Tail(q)) = Len(q) - 1 /\ Len(q) \in Nat
    OBVIOUS
  <1>2. ASSUME NEW i \in 1 .. Len(Tail(q))
        PROVE  i + 1 \in 1 .. Len(q) /\ Tail(q)[i] = q[i + 1]
    <2>1. i \in 1 .. Len(q) - 1 /\ i + 1 \in 1 .. Len(q)
      BY <1>1
    <2>2. Tail(q)[i] = q[i + 1]
      BY <1>1, <2>1
    <2> QED
      BY <2>1, <2>2
  <1> QED
    BY <1>1, <1>2

\* Registers that hold a fetch, or an access, are the ones marked valid.
LEMMA ValidFacts ==
    ASSUME MmuTyped
    PROVE  /\ s1o.valid \in BOOLEAN /\ (s1o.valid <=> s1o # NoStage1) /\ (s1o.valid => s1o \in FetchReg)
           /\ lsu.valid \in BOOLEAN /\ (lsu.valid <=> lsu # NoAccess) /\ (lsu.valid => lsu \in AccessReg)
  <1>1. s1o \in FetchReg => s1o.valid
    BY Zenon DEF FetchReg
  <1>2. lsu \in AccessReg => lsu.valid
    BY Zenon DEF AccessReg
  <1>3. NoStage1.valid = FALSE /\ NoAccess.valid = FALSE
    BY DEF NoStage1, NoAccess
  <1>4. s1o \in FetchReg \cup {NoStage1} /\ lsu \in AccessReg \cup {NoAccess}
    BY DEF MmuTyped
  <1>5. s1o.valid \in BOOLEAN /\ lsu.valid \in BOOLEAN
    BY <1>3, <1>4, Zenon DEF FetchReg, AccessReg
  <1> QED
    BY <1>1, <1>2, <1>3, <1>4, <1>5, Zenon

\* The fetch stages keep their types; without a flush an instruction that
\* does not commit stays; while translation does not change, what they hold
\* after the edge is as current as what they held before it.
LEMMA FetchKeeps ==
    ASSUME MmuTyped, UpToDate, NEW p_ce \in BOOLEAN, NEW vpn \in FetchVpns, NEW fire \in BOOLEAN,
           fire => iq # <<>>, FetchStage(p_ce, vpn, fire)
    PROVE  /\ s1o' \in FetchReg \cup {NoStage1}
           /\ iq' \in Seq(Insn)
           /\ flush => s1o' = NoStage1 /\ iq' = <<>>
           /\ ~flush /\ ~fire /\ iq # <<>> => iq' # <<>>
           /\ psr_nxt = psr => /\ s1o' # NoStage1 => FetchCurrent(s1o')
                               /\ \A i \in 1 .. Len(iq') : Translated(iq'[i])
  <1>1. CASE flush
    <2>1. s1o' = NoStage1 /\ iq' = <<>>
      BY <1>1 DEF FetchStage
    <2>2. iq' \in Seq(Insn) /\ Len(iq') = 0
      BY <2>1
    <2> QED
      BY <1>1, <2>1, <2>2
  <1>2. CASE ~flush
    <2>1. ~s1o_se_fls
      BY <1>2 DEF flush
    <2>2. s1o' = IF p_ce THEN immu_ff(vpn) ELSE s1o
      BY <1>2 DEF FetchStage
    <2>3. /\ s1o' \in FetchReg \cup {NoStage1}
          /\ psr_nxt = psr /\ s1o' # NoStage1 => FetchCurrent(s1o')
      BY <2>1, <2>2, FetchLoads DEF MmuTyped, UpToDate
    <2> DEFINE old == IF fire THEN Tail(iq) ELSE iq
               load == p_ce /\ s1o.valid
    <2>4. iq' = old \o (IF load THEN <<Fetched(s1o)>> ELSE <<>>)
      BY <1>2, Zenon DEF FetchStage
    <2>5. iq \in Seq(Insn) /\ \A j \in 1 .. Len(iq) : Translated(iq[j])
      BY <2>1 DEF MmuTyped, UpToDate
    <2>6. old \in Seq(Insn) /\ (~fire => old = iq)
      BY <2>5, Leaves
    <2>7. \A i \in 1 .. Len(old) : Translated(old[i])
      <3>1. CASE fire
        BY <2>5, <3>1, Leaves, Zenon
      <3>2. CASE ~fire
        BY <2>5, <3>2
      <3> QED
        BY <3>1, <3>2
    <2> HIDE DEF old
    <2>8. CASE load
      <3>1. s1o \in FetchReg /\ FetchCurrent(s1o)
        BY <2>1, <2>8, ValidFacts, Zenon DEF UpToDate
      <3>2. Fetched(s1o) \in Insn /\ Translated(Fetched(s1o))
        BY <3>1, ImmuTranslates, Zenon DEF Translated
      <3>3. iq' = old \o <<Fetched(s1o)>>
        BY <2>4, <2>8
      <3>4. /\ iq' \in Seq(Insn) /\ iq' # <<>>
            /\ \A i \in 1 .. Len(iq') : iq'[i] = IF i <= Len(old) THEN old[i] ELSE Fetched(s1o)
            /\ Len(old) \in Nat /\ Len(iq') = Len(old) + 1
        BY <2>6, <3>2, <3>3, Joins
      <3>5. ASSUME NEW i \in 1 .. Len(iq')
            PROVE  Translated(iq'[i])
        <4>1. CASE i <= Len(old)
          <5>1. i \in 1 .. Len(old) /\ iq'[i] = old[i]
            BY <3>4, <4>1
          <5> QED
            BY <2>7, <5>1, Zenon
        <4>2. CASE ~(i <= Len(old))
          <5>1. iq'[i] = Fetched(s1o)
            BY <3>4, <4>2
          <5> QED
            BY <3>2, <5>1, Zenon
        <4> QED
          BY <4>1, <4>2
      <3> QED
        BY <1>2, <2>3, <3>4, <3>5
    <2>9. CASE ~load
      <3>1. iq' = old \o <<>>
        BY <2>4, <2>9, Zenon
      <3>2. iq' = old
        BY <2>6, <3>1
      <3> QED
        BY <1>2, <2>3, <2>6, <2>7, <3>2
    <2> QED
      BY <2>8, <2>9
  <1> QED
    BY <1>1, <1>2

-----------------------------------------------------------------------------
\* An idle EPU neither writes the PSR nor flushes.
LEMMA IdleFacts ==
    ASSUME MmuTyped, epu = Idle
    PROVE  psr_nxt = psr /\ (flush <=> s1o_se_fls)
  BY PsrNext DEF Idle, flush, exc_flush

\* An edge at which nothing is written: what is fetched stays current.
LEMMA QuietEdge ==
    ASSUME MmuInv, NEW p_ce \in BOOLEAN, NEW vpn \in FetchVpns, NEW fire \in BOOLEAN,
           fire => iq # <<>>, FetchStage(p_ce, vpn, fire), NoWrites, epu = Idle,
           epu' \in Requests \cup {Idle}, lsu' \in AccessReg \cup {NoAccess}, s1o_se_fls' \in BOOLEAN
    PROVE  /\ MmuTyped' /\ UpToDate'
           /\ ~s1o_se_fls /\ ~fire /\ iq # <<>> => iq' # <<>>
  <1>1. psr_nxt = psr /\ (flush <=> s1o_se_fls)
    BY IdleFacts DEF MmuInv
  <1>2. /\ s1o' \in FetchReg \cup {NoStage1} /\ iq' \in Seq(Insn)
        /\ ~s1o_se_fls /\ ~fire /\ iq # <<>> => iq' # <<>>
        /\ s1o' # NoStage1 => FetchCurrent(s1o')
        /\ \A i \in 1 .. Len(iq') : Translated(iq'[i])
    BY <1>1, FetchKeeps DEF MmuInv
  <1>3. MmuTyped'
    BY <1>2, Zenon DEF MmuInv, MmuTyped, NoWrites
  <1>4. s1o' # NoStage1 => FetchCurrent(s1o)'
    BY <1>2, Zenon DEF FetchCurrent, NoWrites
  <1>5. ASSUME NEW i \in 1 .. Len(iq')
        PROVE  Translated(iq[i])'
    <2>1. Translated(iq'[i])
      BY <1>2
    <2> QED
      BY <2>1, Zenon DEF Translated, immu_translate_vma, NoWrites
  <1>6. UpToDate'
    BY <1>4, <1>5 DEF UpToDate
  <1> QED
    BY <1>2, <1>3, <1>6

\* No instruction commits.
LEMMA WaitKeeps ==
    ASSUME MmuInv, NEW p_ce \in BOOLEAN, NEW vpn \in FetchVpns, Wait, FetchStage(p_ce, vpn, FALSE)
    PROVE  MmuInv'
  <1>1. /\ epu = Idle /\ epu' = epu /\ lsu' = lsu /\ s1o_se_fls' = FALSE /\ NoWrites
    BY DEF Wait
  <1>2. MmuTyped' /\ UpToDate' /\ (~s1o_se_fls /\ iq # <<>> => iq' # <<>>)
    BY <1>1, QuietEdge, Zenon DEF MmuInv, MmuTyped
  <1>3. Exclusive'
    BY <1>1, <1>2, Zenon DEF MmuInv, Exclusive, AccessCurrent, NoWrites
  <1> QED
    BY <1>2, <1>3 DEF MmuInv

\* The registers while the oldest instruction is ready to commit.
LEMMA ReadyFacts ==
    ASSUME MmuInv, Ready
    PROVE  iq # <<>> /\ epu = Idle /\ lsu = NoAccess /\ ~s1o_se_fls
  BY ValidFacts DEF MmuInv, Ready

\* An instruction commits, and may leave the flush of a misprediction.
LEMMA CommitKeeps ==
    ASSUME MmuInv, NEW p_ce \in BOOLEAN, NEW vpn \in FetchVpns, Commit, FetchStage(p_ce, vpn, TRUE)
    PROVE  MmuInv'
  <1>1. /\ iq # <<>> /\ epu = Idle /\ epu' = epu /\ lsu = NoAccess /\ lsu' = lsu
        /\ s1o_se_fls' \in BOOLEAN /\ NoWrites
    BY ReadyFacts DEF Commit
  <1>2. MmuTyped' /\ UpToDate'
    BY <1>1, QuietEdge, Zenon
  <1>3. Exclusive'
    BY <1>1 DEF Exclusive
  <1> QED
    BY <1>2, <1>3 DEF MmuInv

\* The oldest instruction asks the EPU.
LEMMA EpuRequestKeeps ==
    ASSUME MmuInv, NEW p_ce \in BOOLEAN, NEW vpn \in FetchVpns, EpuRequest, FetchStage(p_ce, vpn, FALSE)
    PROVE  MmuInv'
  <1>1. /\ iq # <<>> /\ epu = Idle /\ epu' \in Requests /\ lsu = NoAccess /\ lsu' = lsu
        /\ ~s1o_se_fls /\ s1o_se_fls' = s1o_se_fls /\ NoWrites
    BY ReadyFacts DEF EpuRequest
  <1>2. MmuTyped' /\ UpToDate' /\ iq' # <<>>
    BY <1>1, QuietEdge, Zenon DEF MmuInv, MmuTyped
  <1>3. Exclusive'
    BY <1>1, <1>2 DEF Exclusive
  <1> QED
    BY <1>2, <1>3 DEF MmuInv

\* The oldest instruction asks the LSU.
LEMMA LsuRequestKeeps ==
    ASSUME MmuInv, NEW p_ce \in BOOLEAN, NEW vpn \in FetchVpns, LsuRequest, FetchStage(p_ce, vpn, FALSE)
    PROVE  MmuInv'
  <1>1. /\ iq # <<>> /\ epu = Idle /\ epu' = epu /\ lsu = NoAccess
        /\ ~s1o_se_fls /\ s1o_se_fls' = s1o_se_fls /\ NoWrites
    BY ReadyFacts DEF LsuRequest
  <1>2. PICK v \in DataVpns, we \in BOOLEAN : lsu' = dmmu_ff(v, we)
    BY DEF LsuRequest
  <1>3. lsu' \in AccessReg /\ AccessCurrent(lsu')
    BY <1>1, <1>2, AccessLoads, IdleFacts DEF MmuInv
  <1>4. MmuTyped' /\ UpToDate' /\ iq' # <<>>
    BY <1>1, <1>3, QuietEdge, Zenon DEF MmuInv, MmuTyped
  <1>5. AccessCurrent(lsu)'
    BY <1>1, <1>3 DEF AccessCurrent, NoWrites
  <1>6. Exclusive'
    BY <1>1, <1>4, <1>5 DEF Exclusive
  <1> QED
    BY <1>4, <1>6 DEF MmuInv

\* The access ends, with an exception or with the commit of its instruction.
LEMMA LsuFinishKeeps ==
    ASSUME MmuInv, NEW p_ce \in BOOLEAN, NEW vpn \in FetchVpns, LsuFinish, FetchStage(p_ce, vpn, epu' = Idle)
    PROVE  MmuInv'
  <1>1. lsu # NoAccess /\ lsu' = NoAccess /\ s1o_se_fls' = s1o_se_fls /\ NoWrites
    BY ValidFacts DEF LsuFinish, MmuInv
  <1>2. iq # <<>> /\ epu = Idle /\ ~s1o_se_fls
    BY <1>1, Zenon DEF MmuInv, Exclusive
  <1>3. epu' \in Requests \cup {Idle}
    BY DEF LsuFinish, Requests
  <1> DEFINE fire == epu' = Idle
  <1>4. fire \in BOOLEAN /\ FetchStage(p_ce, vpn, fire)
    BY Zenon
  <1> HIDE DEF fire
  <1>5. MmuTyped' /\ UpToDate' /\ (~fire => iq' # <<>>)
    BY <1>1, <1>2, <1>3, <1>4, QuietEdge DEF MmuInv, MmuTyped
  <1>6. Exclusive'
    BY <1>1, <1>2, <1>5 DEF Exclusive, fire
  <1> QED
    BY <1>5, <1>6 DEF MmuInv

\* The EPU performs its request.  A write of the PSR or of a TLB entry leaves
\* the flush of a refetch, an exception and a RETE flush at once.
LEMMA EpuFinishKeeps ==
    ASSUME MmuInv, NEW p_ce \in BOOLEAN, NEW vpn \in FetchVpns, EpuFinish, FetchStage(p_ce, vpn, TRUE)
    PROVE  MmuInv'
  <1> USE DEF MmuInv
  <1>1. /\ epu # Idle /\ epu \in Requests /\ epu' = Idle /\ iq # <<>> /\ ~s1o_se_fls
        /\ lsu = NoAccess /\ lsu' = lsu /\ s1o_se_fls' = refetch /\ psr' = psr_nxt
    BY DEF EpuFinish, MmuTyped, Exclusive
  <1>2. /\ s1o' \in FetchReg \cup {NoStage1} /\ iq' \in Seq(Insn)
        /\ flush => s1o' = NoStage1 /\ iq' = <<>>
        /\ psr_nxt = psr => /\ s1o' # NoStage1 => FetchCurrent(s1o')
                            /\ \A i \in 1 .. Len(iq') : Translated(iq'[i])
    BY <1>1, FetchKeeps, Zenon
  <1>3. itlb_l' \in [IIdx -> TlbL] /\ itlb_h' \in [IIdx -> ItlbH]
    BY <1>1, RequestTyped DEF EpuFinish, Written, MmuTyped
  <1>4. dtlb_l' \in [DIdx -> TlbL] /\ dtlb_h' \in [DIdx -> DtlbH]
    BY <1>1, RequestTyped DEF EpuFinish, Written, MmuTyped
  <1>5. psr' \in Psr
    BY <1>1, PsrNext
  <1>6. epsr' \in Psr3
    <2>1. psr \in Psr /\ epsr \in Psr3 /\ (epu.op = "epsr" => epu.val \in Psr3)
      BY <1>1, RequestTyped DEF MmuTyped
    <2>2. CASE epu.op = "exc"
      BY <2>1, <2>2 DEF EpuFinish, Psr, Psr3
    <2>3. CASE epu.op = "epsr"
      BY <2>1, <2>3 DEF EpuFinish
    <2>4. CASE epu.op \notin {"exc", "epsr"}
      BY <2>1, <2>4 DEF EpuFinish
    <2> QED
      BY <2>2, <2>3, <2>4
  <1>7. s1o_se_fls' \in BOOLEAN
    BY <1>1 DEF refetch
  <1>8. MmuTyped'
    BY <1>1, <1>2, <1>3, <1>4, <1>5, <1>6, <1>7 DEF MmuTyped
  <1>9. Exclusive'
    BY <1>1 DEF Exclusive
  <1>10. UpToDate'
    <2>1. CASE refetch
      BY <1>1, <2>1 DEF UpToDate
    <2>2. CASE exc_flush
      <3>1. s1o' = NoStage1 /\ iq' = <<>> /\ Len(iq') = 0
        BY <1>2, <2>2 DEF flush
      <3> QED
        BY <3>1 DEF UpToDate
    <2>3. CASE ~refetch /\ ~exc_flush
      <3>1. epu.op = "epsr"
        BY <1>1, <2>3, RequestTyped DEF refetch, exc_flush
      <3>2. psr_nxt = psr /\ psr' = psr /\ itlb_l' = itlb_l /\ itlb_h' = itlb_h
        BY <1>1, <3>1, PsrNext, Zenon DEF EpuFinish, Written
      <3>3. s1o' # NoStage1 => FetchCurrent(s1o)'
        BY <1>2, <3>2, Zenon DEF FetchCurrent
      <3>4. ASSUME NEW i \in 1 .. Len(iq')
            PROVE  Translated(iq[i])'
        <4>1. \A j \in 1 .. Len(iq') : Translated(iq'[j])
          BY <1>2, <3>2
        <4>2. Translated(iq'[i])
          BY <4>1
        <4> QED
          BY <3>2, <4>2, Zenon DEF Translated, immu_translate_vma
      <3> QED
        BY <3>3, <3>4 DEF UpToDate
    <2> QED
      BY <2>1, <2>2, <2>3
  <1> QED
    BY <1>8, <1>9, <1>10

-----------------------------------------------------------------------------
\* Out of reset nothing is fetched and no entry is valid.
LEMMA InitHolds == MmuInit => MmuInv
  <1> SUFFICES ASSUME MmuInit PROVE MmuInv
    OBVIOUS
  <1>1. 0 \in Page
    BY MmuParameters DEF Page
  <1>2. /\ itlb_l \in [IIdx -> TlbL] /\ itlb_h \in [IIdx -> ItlbH]
        /\ dtlb_l \in [DIdx -> TlbL] /\ dtlb_h \in [DIdx -> DtlbH]
    BY <1>1, Zenon DEF MmuInit, TlbL, ItlbH, DtlbH
  <1>3. psr \in Psr /\ epsr \in Psr3
    BY Zenon DEF MmuInit, Psr, Psr3
  <1>4. /\ s1o = NoStage1 /\ iq = <<>> /\ iq \in Seq(Insn) /\ Len(iq) = 0
        /\ epu = Idle /\ lsu = NoAccess /\ s1o_se_fls = FALSE
    BY DEF MmuInit
  <1>5. MmuTyped
    BY <1>2, <1>3, <1>4, Zenon DEF MmuTyped
  <1>6. UpToDate
    BY <1>4 DEF UpToDate
  <1>7. Exclusive
    BY <1>4 DEF Exclusive
  <1> QED
    BY <1>5, <1>6, <1>7 DEF MmuInv

\* A clock cycle keeps the invariant, whichever the commit stage does.
LEMMA ClockKeeps == MmuInv /\ [MmuNext]_mmu_vars => MmuInv'
  <1>1. ASSUME MmuInv, MmuNext
        PROVE  MmuInv'
    <2>1. PICK p_ce \in BOOLEAN, vpn \in FetchVpns :
              \/ Wait /\ FetchStage(p_ce, vpn, FALSE)
              \/ Commit /\ FetchStage(p_ce, vpn, TRUE)
              \/ EpuRequest /\ FetchStage(p_ce, vpn, FALSE)
              \/ EpuFinish /\ FetchStage(p_ce, vpn, TRUE)
              \/ LsuRequest /\ FetchStage(p_ce, vpn, FALSE)
              \/ LsuFinish /\ FetchStage(p_ce, vpn, epu' = Idle)
      BY <1>1, Zenon DEF MmuNext, MmuClock
    <2> QED
      BY <1>1, <2>1, WaitKeeps, CommitKeeps, EpuRequestKeeps, EpuFinishKeeps, LsuRequestKeeps, LsuFinishKeeps, Zenon
  <1>2. ASSUME MmuInv, UNCHANGED mmu_vars
        PROVE  MmuInv'
    <2>1. /\ itlb_l' = itlb_l /\ itlb_h' = itlb_h /\ dtlb_l' = dtlb_l /\ dtlb_h' = dtlb_h
          /\ psr' = psr /\ epsr' = epsr /\ s1o' = s1o /\ iq' = iq /\ epu' = epu /\ lsu' = lsu
          /\ s1o_se_fls' = s1o_se_fls
      BY <1>2 DEF mmu_vars
    <2>2. MmuTyped'
      BY <1>2, <2>1, Zenon DEF MmuInv, MmuTyped
    <2>3. Exclusive'
      BY <1>2, <2>1, Zenon DEF MmuInv, Exclusive, AccessCurrent
    <2>4. ~s1o_se_fls /\ s1o # NoStage1 => FetchCurrent(s1o)'
      BY <1>2, <2>1, Zenon DEF MmuInv, UpToDate, FetchCurrent
    <2>5. ASSUME ~s1o_se_fls, NEW i \in 1 .. Len(iq)
          PROVE  Translated(iq[i])'
      <3>1. Translated(iq[i])
        BY <1>2, <2>5 DEF MmuInv, UpToDate
      <3> QED
        BY <2>1, <3>1, Zenon DEF Translated, immu_translate_vma
    <2> QED
      BY <2>1, <2>2, <2>3, <2>4, <2>5 DEF MmuInv, UpToDate
  <1> QED
    BY <1>1, <1>2

\* The invariant implies both properties.
LEMMA InvariantImplies == MmuInv => FetchTranslated /\ AccessTranslated
  <1> SUFFICES ASSUME MmuInv PROVE FetchTranslated /\ AccessTranslated
    OBVIOUS
  <1>1. FetchTranslated
    <2> SUFFICES ASSUME iq # <<>>, ~s1o_se_fls
                 PROVE  Translated(iq[1])
      BY DEF FetchTranslated, Translated
    <2>1. 1 \in 1 .. Len(iq)
      BY DEF MmuInv, MmuTyped
    <2> QED
      BY <2>1 DEF MmuInv, UpToDate
  <1>2. AccessTranslated
    <2> SUFFICES ASSUME lsu.valid
                 PROVE  Same(dmmu(lsu), dmmu_translate_vma(lsu.vpn, lsu.we))
      BY DEF AccessTranslated
    <2>1. lsu \in AccessReg /\ AccessCurrent(lsu)
      BY ValidFacts DEF MmuInv, Exclusive
    <2> QED
      BY <2>1, DmmuTranslates DEF MmuInv
  <1> QED
    BY <1>1, <1>2

\* For any number of sets, pages and instructions in flight and any values
\* written to the TLBs and the PSR: the instruction that commits has the page,
\* the cacheability and the exceptions that mmu.cc gives it at that moment,
\* though the IMMU translated it when it was fetched (immu.v, cmt_epu.v).
THEOREM FetchTranslatedHolds == MmuSpec => []FetchTranslated
  BY InitHolds, ClockKeeps, InvariantImplies, PTL DEF MmuSpec

\* Likewise for every load and store: the registers of the DMMU answer as
\* mmu.cc does until the access ends (dmmu.v).
THEOREM AccessTranslatedHolds == MmuSpec => []AccessTranslated
  BY InitHolds, ClockKeeps, InvariantImplies, PTL DEF MmuSpec
=============================================================================
