---------------------------- MODULE DCacheProofs ----------------------------
(***************************************************************************)
(* The data cache of dcache.v loses no store, whatever its geometry and    *)
(* the widths of the masks: a load returns the bytes last stored, a word   *)
(* is current in the cache or else in memory, and a flush reaches memory.  *)
(* The invariant says of every word where it is current in each state of   *)
(* the FSM; an edge is taken apart by that state, first what it makes of   *)
(* every register (the Edge lemmas), then what it makes of the invariant.  *)
(***************************************************************************)
EXTENDS DCache, TLAPS

Word == Datum \cup {Junk}

Typed ==
    /\ state \in {"BOOT", "IDLE", "REPLACE", "WRITEBACK", "REFILL", "RELOAD_S1O_S2O", "INVALIDATE", "FLUSH",
                  "UNCACHED_BOOT", "UNCACHED_READ", "UNCACHED_WRITE"}
    /\ boot_cnt \in Sets /\ refill_cnt \in Words /\ wb_addr \in Words
    /\ free_way \in Ways /\ victim \in Ways /\ match \subseteq Ways
    /\ tag_v \in [Ways -> [Sets -> Tags \cup {None}]]
    /\ dirty \in [Ways -> [Sets -> BOOLEAN]]
    /\ payload \in [Ways -> [Sets -> [Words -> Word]]]
    /\ rdat \in [Ways -> Word]
    /\ s1 \in Access \cup {NoAccess} /\ s2 \in Access \cup {NoAccess}
    /\ free_tag \in Tags \cup {None} /\ free_dirty \in BOOLEAN /\ s2o_d \in [Ways -> BOOLEAN]
    /\ rd \in [ar : {"none", "valid", "taken"}, addr : Addr \cup {NoAddr}, beat : Nat, last : Nat]
    /\ mem \in [Addr -> Datum] /\ golden \in [Addr -> [Lanes -> 0 .. 1]]

\* The store that the program has made and the cache has not: its bytes are
\* still to be written.
Pending ==
    /\ s2.op = "store" /\ s2.kind # "killed" /\ state # "IDLE"
    /\ state = "UNCACHED_WRITE" => wr.w = "last"
pending == IF Pending THEN s2 ELSE NoAccess

\* d is the word at a as the program must see it (g), but for the bytes of the
\* store x.
Fits(g, x, d, a) ==
    /\ d \in Datum /\ d.at = a
    /\ \A l \in Lanes : d.ver[l] = g[a][l] \/ (a = x.a /\ l \in x.msk)

\* The word at a is current in the way that holds its line, and in memory unless
\* that way is dirty.
Coh(tg, dt, pl, m, g, x, a) ==
    /\ \A w \in Ways : tg[w][a.set] = a.tag => Fits(g, x, pl[w][a.set][a.word], a)
    /\ (\A w \in Ways : tg[w][a.set] = a.tag => ~dt[w][a.set]) => Fits(g, x, m[a], a)

Right(d, a) == Fits(golden, pending, d, a)
Coherent(a) == Coh(tag_v, dirty, payload, mem, golden, pending, a)
Free(tg, a) == \A w \in Ways : tg[w][a.set] # a.tag
SameLine(a, b) == a.tag = b.tag /\ a.set = b.set

Refills == s2.op \in {"load", "store"} /\ s2.kind = "cached"
Uncached == s2.op \in {"load", "store"} /\ s2.kind = "uncached"
Evicts == state = "WRITEBACK" /\ s2.op # "fls"
Flushes == state = "WRITEBACK" /\ s2.op = "fls"

\* What the stages hold in each state.
Stages ==
    /\ Pending => \A l \in s2.msk : golden[s2.a][l] = s2.ver
    /\ s1 # NoAccess => s2 = NoAccess /\ state = "IDLE"
    /\ s1.op \in {"load", "store"} /\ s1.kind = "uncached" => Free(tag_v, s1.a)
    /\ state = "BOOT" => s2 = NoAccess
    /\ state \in {"REPLACE", "REFILL", "RELOAD_S1O_S2O"} => Refills
    /\ state = "WRITEBACK" => Refills \/ s2.op = "fls"
    /\ state = "FLUSH" => s2.op = "fls"
    /\ state = "INVALIDATE" => s2.op = "inv"
    /\ state = "UNCACHED_BOOT" => Uncached
    /\ state = "UNCACHED_READ" => Uncached /\ s2.op = "load"
    /\ state = "UNCACHED_WRITE" => Uncached /\ s2.op = "store"

\* Where the transactions of the bus are, and the counters with them.
Bus ==
    /\ state \notin {"REFILL", "UNCACHED_READ"} => rd.ar = "none"
    /\ state \notin {"WRITEBACK", "UNCACHED_WRITE"} => wr.aw = "none" /\ wr.w = "none"
    /\ state \notin {"REFILL", "WRITEBACK"} => refill_cnt = 0
    /\ state = "REFILL" =>
          /\ rd.addr = line(s2.a)
          /\ \/ rd.ar = "valid" /\ rd.beat = 0 /\ refill_cnt = 0
             \/ rd.ar = "taken" /\ rd.last = WORDS - 1 /\ rd.beat = refill_cnt
    /\ state = "UNCACHED_READ" => /\ rd.addr = s2.a /\ rd.beat = 0 /\ rd.last = 0
                                  /\ rd.ar \in {"valid", "taken"}
    /\ state = "WRITEBACK" =>
          /\ wr.aw \in {"valid", "taken"}
          /\ \/ wr.w = "valid" /\ wr.beat = wb_addr /\ refill_cnt = wb_addr + 1
             \/ wr.w = "last" /\ wr.beat = wb_addr /\ wb_addr = WORDS - 1 /\ refill_cnt = 0
             \/ wr.w = "taken" /\ wr.beat = WORDS /\ refill_cnt = 0
    /\ state = "UNCACHED_WRITE" => /\ wr.addr = s2.a
                                   /\ wr.aw \in {"valid", "taken"} /\ wr.w \in {"last", "taken"}

\* A line is in one way at most, and only lines are dirty.
Unique ==
    /\ \A w, v \in Ways, s \in Sets : tag_v[w][s] = tag_v[v][s] /\ tag_v[w][s] # None => w = v
    /\ \A w \in Ways, s \in Sets : dirty[w][s] => tag_v[w][s] # None

\* Where the line of the access in hand is.
Tagged ==
    /\ state = "BOOT" => \A w \in Ways, s \in Sets : tag_v[w][s] = None
    /\ state = "REPLACE" => /\ free_tag = tag_v[victim][s2.a.set] /\ free_dirty = dirty[victim][s2.a.set]
                            /\ Free(tag_v, s2.a)
    /\ state \in {"REFILL", "RELOAD_S1O_S2O"} \/ Evicts =>
          tag_v[victim][s2.a.set] = s2.a.tag /\ ~dirty[victim][s2.a.set]
    /\ state = "FLUSH" => /\ match = {w \in Ways : tag_v[w][s2.a.set] = s2.a.tag} /\ match # {}
                          /\ \A w \in Ways : s2o_d[w] = dirty[w][s2.a.set]
    /\ Evicts => wr.addr \in Addr /\ wr.addr.set = s2.a.set /\ wr.addr.word = 0 /\ Free(tag_v, wr.addr)
    /\ Flushes => wr.addr = line(s2.a) /\ \E w \in Ways : match = {w} /\ tag_v[w][s2.a.set] = s2.a.tag
    /\ state \in {"UNCACHED_BOOT", "UNCACHED_READ", "UNCACHED_WRITE"} => Free(tag_v, s2.a)

\* The lines of which the cache has not all the words it should have.
Moving(a) ==
    \/ state \in {"REFILL", "RELOAD_S1O_S2O"} /\ SameLine(a, s2.a)
    \/ Evicts /\ (SameLine(a, s2.a) \/ SameLine(a, wr.addr))

\* A word of memory stays the word of its address.
Placed == \A a \in Addr : mem[a].at = a

\* Every other line is coherent.
Resting == \A a \in Addr : ~Moving(a) => Coherent(a)

\* The line that is refilled is in memory, and in the way it is refilled to as
\* far as the refill went.
Refilled ==
    /\ state \in {"REFILL", "RELOAD_S1O_S2O"} \/ Evicts =>
          \A a \in Addr : SameLine(a, s2.a) => Right(mem[a], a)
    /\ state = "REFILL" =>
          \A a \in Addr : SameLine(a, s2.a) /\ a.word < refill_cnt => Right(payload[victim][a.set][a.word], a)
    /\ state = "RELOAD_S1O_S2O" =>
          \A a \in Addr : SameLine(a, s2.a) => Right(payload[victim][a.set][a.word], a)

\* The line that is written back is in its way, and in memory as far as the
\* writeback went; the next word of it is on the write channel.
Writeback ==
    state = "WRITEBACK" => \A w \in wb_way :
        /\ wr.w # "taken" => rdat[w] = payload[w][s2.a.set][wb_addr]
        /\ \A a \in Addr : SameLine(a, wr.addr) =>
              /\ Right(payload[w][a.set][a.word], a)
              /\ a.word < wr.beat => Right(mem[a], a)

\* What an access that is over has brought.
Result ==
    state = "IDLE" =>
        /\ s2.op = "load" /\ s2.kind = "cached" => match # {} /\ \A w \in match : rdat[w] = Current(s2.a)
        /\ s2.op = "load" /\ s2.kind = "uncached" => rdata = Current(s2.a)
        /\ FlushReachesMemory

IInv == Typed /\ Stages /\ Bus /\ Unique /\ Tagged /\ Placed /\ Resting /\ Refilled /\ Writeback /\ Result

-----------------------------------------------------------------------------
\* The counters of the FSM wrap (dcache.v's fsm_boot_cnt, fsm_free_way and
\* fsm_refill_cnt).
LEMMA Wraps ==
    ASSUME NEW n \in Nat \ {0}, NEW k \in 0 .. n - 1
    PROVE  /\ (k + 1) % n = IF k = n - 1 THEN 0 ELSE k + 1
           /\ (k + 1) % n \in 0 .. n - 1
  <1>1. \A a, b \in Nat : b > 0 => (a < b => a % b = a) /\ (a = b => a % b = 0)
    BY SMT
  <1>2. k + 1 \in Nat /\ n > 0 /\ (k + 1 < n \/ k + 1 = n)
    OBVIOUS
  <1>3. (k + 1) % n = IF k = n - 1 THEN 0 ELSE k + 1
    BY <1>1, <1>2
  <1> QED
    BY <1>3

\* A line has two words at least, since the bus carries two at a time.
LEMMA Counters ==
    /\ WORDS \in Nat /\ WORDS >= 2
    /\ 0 \in Sets /\ 0 \in Ways /\ 0 \in Words
    /\ Sets \subseteq Nat /\ Ways \subseteq Nat /\ Words \subseteq Nat
    /\ \A k \in Sets : (k + 1) % SETS \in Sets
    /\ \A k \in Ways : (k + 1) % WAYS \in Ways
    /\ \A k \in Words : /\ (k + 1) % WORDS \in Words
                        /\ (k + 1) % WORDS = IF k = WORDS - 1 THEN 0 ELSE k + 1
                        /\ k < WORDS /\ (k # WORDS - 1 => k + 1 \in Words)
    /\ \A k \in Words : beat_word(k, k) = k
  <1>1. WORDS \in Nat /\ WORDS >= 2
    BY Parameters
  <1>2. /\ 0 \in Sets /\ 0 \in Ways /\ 0 \in Words
        /\ Sets \subseteq Nat /\ Ways \subseteq Nat /\ Words \subseteq Nat
    BY Parameters DEF Sets, Ways, Words
  <1>3. \A k \in Sets : (k + 1) % SETS \in Sets
    BY Parameters, Wraps DEF Sets
  <1>4. \A k \in Ways : (k + 1) % WAYS \in Ways
    BY Parameters, Wraps DEF Ways
  <1>5. \A k \in Words : /\ (k + 1) % WORDS \in Words
                         /\ (k + 1) % WORDS = IF k = WORDS - 1 THEN 0 ELSE k + 1
    BY Parameters, Wraps, Zenon DEF Words
  <1>6. \A k \in Words : k < WORDS /\ (k # WORDS - 1 => k + 1 \in Words)
    BY <1>1 DEF Words
  <1>7. \A k \in Words : beat_word(k, k) = k
    BY <1>2 DEF beat_word
  <1> QED
    BY <1>1, <1>2, <1>3, <1>4, <1>5, <1>6, <1>7

\* The order of the words of a line.
LEMMA WordOrder ==
    /\ \A k, m \in Words : k < m + 1 => k < m \/ k = m
    /\ \A k \in Words : ~(k < 0)
    /\ \A n \in Nat : n + 1 # 0
  BY Counters

\* An address is its tag, its set and its word.
LEMMA Addresses ==
    /\ \A a \in Addr : a.tag \in Tags /\ a.set \in Sets /\ a.word \in Words /\ a.tag # None /\ a # NoAddr
    /\ \A a, b \in Addr : a.tag = b.tag /\ a.set = b.set /\ a.word = b.word => a = b
    /\ \A a \in Addr, k \in Words : LET b == [a EXCEPT !.word = k]
                                    IN  b \in Addr /\ b.tag = a.tag /\ b.set = a.set /\ b.word = k
    /\ \A t \in Tags, s \in Sets, k \in Words :
          LET b == [tag |-> t, set |-> s, word |-> k]
          IN  b \in Addr /\ b.tag = t /\ b.set = s /\ b.word = k
    /\ \A a \in Addr : line(a) \in Addr /\ line(a).tag = a.tag /\ line(a).set = a.set /\ line(a).word = 0
  <1>1. \A t \in Tags : t # None
    BY Parameters DEF None
  <1>2. \A a \in Addr : a.tag \in Tags /\ a.set \in Sets /\ a.word \in Words /\ a.tag # None /\ a # NoAddr
    BY <1>1 DEF Addr, NoAddr
  <1>3. \A a, b \in Addr : a.tag = b.tag /\ a.set = b.set /\ a.word = b.word => a = b
    BY DEF Addr
  <1>4. \A a \in Addr, k \in Words : LET b == [a EXCEPT !.word = k]
                                     IN  b \in Addr /\ b.tag = a.tag /\ b.set = a.set /\ b.word = k
    BY DEF Addr
  <1>5. \A t \in Tags, s \in Sets, k \in Words :
          LET b == [tag |-> t, set |-> s, word |-> k]
          IN  b \in Addr /\ b.tag = t /\ b.set = s /\ b.word = k
    BY DEF Addr
  <1>6. \A a \in Addr : line(a) \in Addr /\ line(a).tag = a.tag /\ line(a).set = a.set /\ line(a).word = 0
    BY <1>4, Counters DEF line
  <1> QED
    BY <1>2, <1>3, <1>4, <1>5, <1>6

\* What an access is.
LEMMA Accesses ==
    /\ \A x \in Access : /\ x.a \in Addr /\ x.op \in {"load", "store", "fls", "inv"} /\ x # NoAccess
                         /\ x.kind \in {"cached", "uncached", "killed"}
                         /\ x.msk \subseteq Lanes /\ x.ver \in 0 .. 1
                         /\ x.msk # {} <=> x.op = "store"
    /\ NoAccess.a = NoAddr /\ NoAccess.op = "none" /\ NoAccess.kind = "killed" /\ NoAccess.msk = {}
    /\ NoAddr \notin Addr /\ NoAddr.set \in Sets
  <1>1. NoAddr \notin Addr
    BY Addresses
  <1>2. /\ NoAccess.a = NoAddr /\ NoAccess.op = "none" /\ NoAccess.kind = "killed" /\ NoAccess.msk = {}
        /\ NoAddr.set \in Sets
    BY Counters DEF NoAccess, NoAddr
  <1>3. ASSUME NEW x \in Access
        PROVE  /\ x.a \in Addr /\ x.op \in {"load", "store", "fls", "inv"}
               /\ x.kind \in {"cached", "uncached", "killed"}
               /\ x.msk \subseteq Lanes /\ x.ver \in 0 .. 1
               /\ x.msk # {} <=> x.op = "store"
    <2>1. CASE x \in [a : Addr, op : {"load", "fls", "inv"}, kind : {"cached", "uncached", "killed"},
                      msk : {{}}, ver : {0}]
      BY <2>1
    <2>2. CASE x \in [a : Addr, op : {"store"}, kind : {"cached", "uncached", "killed"},
                      msk : Masks, ver : 0 .. 1]
      <3>1. \A m \in Masks : m \subseteq Lanes /\ m # {}
        BY Parameters
      <3>2. x.msk \in Masks /\ x.a \in Addr /\ x.op = "store" /\ x.ver \in 0 .. 1
        BY <2>2
      <3>3. x.kind \in {"cached", "uncached", "killed"}
        BY <2>2
      <3> QED
        BY <3>1, <3>2, <3>3
    <2> QED
      BY <2>1, <2>2, Zenon DEF Access
  <1>4. \A x \in Access : x # NoAccess
    BY <1>2, <1>3
  <1> QED
    BY <1>1, <1>2, <1>3, <1>4

-----------------------------------------------------------------------------
\* What the program sees after the store x.
Seen(g, x) == [g EXCEPT ![x.a] = [l \in Lanes |-> IF l \in x.msk THEN x.ver ELSE @[l]]]
Golden == [Addr -> [Lanes -> 0 .. 1]]

\* Writing the bytes of x over a word (the byte enables of the payload RAM).
LEMMA StoredFacts ==
    ASSUME NEW x \in Access, NEW d \in Datum
    PROVE  /\ stored(d, x) \in Datum /\ stored(d, x).at = d.at
           /\ \A l \in Lanes : stored(d, x).ver[l] = IF l \in x.msk THEN x.ver ELSE d.ver[l]
  <1>1. d # Junk
    BY Accesses DEF Datum, Junk
  <1>2. stored(d, x) = [d EXCEPT !.ver = [l \in Lanes |-> IF l \in x.msk THEN x.ver ELSE @[l]]]
    BY <1>1 DEF stored
  <1>3. x.ver \in 0 .. 1 /\ d.ver \in [Lanes -> 0 .. 1]
    BY Accesses DEF Datum
  <1>4. [l \in Lanes |-> IF l \in x.msk THEN x.ver ELSE d.ver[l]] \in [Lanes -> 0 .. 1]
    BY <1>3
  <1> QED
    BY <1>2, <1>4 DEF Datum

\* A word that fits, with no bytes excepted, is what the program must see.
LEMMA FitsExact ==
    ASSUME NEW g \in Golden, NEW a \in Addr, NEW d, Fits(g, NoAccess, d, a)
    PROVE  d = [at |-> a, ver |-> g[a]]
  <1>1. \A l \in Lanes : l \notin NoAccess.msk
    BY Accesses
  <1>2. \A l \in Lanes : d.ver[l] = g[a][l]
    BY <1>1 DEF Fits
  <1>3. d.ver \in [Lanes -> 0 .. 1] /\ g[a] \in [Lanes -> 0 .. 1] /\ d.at = a /\ d = [at |-> d.at, ver |-> d.ver]
    BY DEF Fits, Datum, Golden
  <1>4. d.ver = g[a]
    BY <1>2, <1>3
  <1> QED
    BY <1>3, <1>4

\* When a store is seen, a word still fits but for the bytes of the store.
LEMMA FitsSeen ==
    ASSUME NEW g \in Golden, NEW x \in Access, NEW a \in Addr, NEW d, Fits(g, NoAccess, d, a)
    PROVE  Fits(Seen(g, x), x, d, a)
  <1>1. \A l \in Lanes : d.ver[l] = g[a][l]
    BY Accesses DEF Fits
  <1>2. \A l \in Lanes : Seen(g, x)[a][l] = IF a = x.a /\ l \in x.msk THEN x.ver ELSE g[a][l]
    BY Accesses DEF Seen, Golden
  <1> QED
    BY <1>1, <1>2 DEF Fits

\* What is seen is bytes again, those of x and the others as they were.
LEMMA SeenFacts ==
    ASSUME NEW g \in Golden, NEW x \in Access
    PROVE  Seen(g, x) \in Golden /\ \A l \in x.msk : Seen(g, x)[x.a][l] = x.ver
  <1>1. x.a \in Addr /\ x.ver \in 0 .. 1 /\ x.msk \subseteq Lanes
    BY Accesses
  <1> QED
    BY <1>1 DEF Seen, Golden

\* The bytes excepted are those of the address of x only.
LEMMA FitsElsewhere ==
    ASSUME NEW g, NEW x, NEW y, NEW d, NEW a
    PROVE  /\ a # x.a /\ Fits(g, x, d, a) => Fits(g, y, d, a)
           /\ x.msk = {} /\ Fits(g, x, d, a) => Fits(g, y, d, a)
           /\ Fits(g, NoAccess, d, a) => Fits(g, y, d, a)
  BY Accesses DEF Fits

\* When the bytes are written, the word fits.
LEMMA FitsStored ==
    ASSUME NEW g, NEW x \in Access, NEW d, NEW y, Fits(g, x, d, x.a), \A l \in x.msk : g[x.a][l] = x.ver
    PROVE  Fits(g, y, stored(d, x), x.a)
  <1>1. d \in Datum /\ d.at = x.a
    BY DEF Fits
  <1>2. /\ stored(d, x) \in Datum /\ stored(d, x).at = d.at
        /\ \A l \in Lanes : stored(d, x).ver[l] = IF l \in x.msk THEN x.ver ELSE d.ver[l]
    BY <1>1, StoredFacts
  <1> QED
    BY <1>1, <1>2 DEF Fits

-----------------------------------------------------------------------------
\* The handshakes an edge can have in each state.
LEMMA Handshakes ==
    ASSUME Typed, Bus, NEW hds \in SUBSET Offered
    PROVE  /\ "AR" \in hds => rd.ar = "valid" /\ state \in {"REFILL", "UNCACHED_READ"}
           /\ "R" \in hds => rd.ar = "taken" /\ state \in {"REFILL", "UNCACHED_READ"}
           /\ "AW" \in hds => wr.aw = "valid" /\ state \in {"WRITEBACK", "UNCACHED_WRITE"}
           /\ "W" \in hds => wr.w \in {"valid", "last"} /\ state \in {"WRITEBACK", "UNCACHED_WRITE"}
           /\ "B" \in hds => wr.aw = "taken" /\ wr.w = "taken" /\ state \in {"WRITEBACK", "UNCACHED_WRITE"}
  <1>1. \A h \in hds : h \in Offered
    OBVIOUS
  <1>2. "AR" \in Offered => rd.ar = "valid"
    BY DEF Offered
  <1>3. "R" \in Offered => rd.ar = "taken" /\ state \in {"REFILL", "UNCACHED_READ"}
    BY DEF Offered
  <1>4. "AW" \in Offered => wr.aw = "valid"
    BY DEF Offered
  <1>5. "W" \in Offered => wr.w \in {"valid", "last"}
    BY DEF Offered
  <1>6. "B" \in Offered => wr.aw = "taken" /\ wr.w = "taken"
    BY DEF Offered
  <1> QED
    BY <1>1, <1>2, <1>3, <1>4, <1>5, <1>6 DEF Bus

\* What an edge leaves as it is.
LEMMA Still ==
    ASSUME Typed, Bus, NEW req, NEW hds \in SUBSET Offered, Clock(req, hds)
    PROVE  /\ state # "IDLE" => /\ s1' = s1 /\ s2' = s2 /\ victim' = victim /\ s2o_d' = s2o_d
                                /\ free_dirty' = free_dirty /\ free_tag' = free_tag
           /\ state \notin {"IDLE", "RELOAD_S1O_S2O"} => match' = match
           /\ state \notin {"IDLE", "INVALIDATE"} => golden' = golden
           /\ state \notin {"BOOT", "INVALIDATE", "REPLACE"} => tag_v' = tag_v
           /\ state \notin {"BOOT", "INVALIDATE", "REPLACE", "RELOAD_S1O_S2O", "IDLE"} => dirty' = dirty
           /\ state \notin {"IDLE", "REFILL", "RELOAD_S1O_S2O"} => payload' = payload
           /\ state \notin {"WRITEBACK", "UNCACHED_WRITE"} => mem' = mem
           /\ state # "UNCACHED_READ" => rdata' = rdata
  <1>1. state # "IDLE" => /\ s1' = s1 /\ s2' = s2 /\ victim' = victim /\ s2o_d' = s2o_d
                          /\ free_dirty' = free_dirty /\ free_tag' = free_tag
    BY DEF Clock, p_ce
  <1>2. state \notin {"IDLE", "RELOAD_S1O_S2O"} => match' = match
    BY DEF Clock, p_ce
  <1>3. state \notin {"IDLE", "INVALIDATE"} => golden' = golden
    BY DEF Clock, p_ce, golden_nxt
  <1>4. state \notin {"BOOT", "INVALIDATE", "REPLACE"} => tag_v' = tag_v
    BY DEF Clock, tag_v_nxt
  <1>5. state \notin {"BOOT", "INVALIDATE", "REPLACE", "RELOAD_S1O_S2O", "IDLE"} => dirty' = dirty
    BY DEF Clock, dirty_nxt, s2i_ready
  <1>6. state \notin {"IDLE", "REFILL", "RELOAD_S1O_S2O"} => payload' = payload
    <2> SUFFICES ASSUME state \notin {"IDLE", "REFILL", "RELOAD_S1O_S2O"} PROVE payload' = payload
      OBVIOUS
    <2>1. s2i_payload_we = {}
      BY DEF s2i_payload_we, s2i_ready
    <2>2. payload' = [w \in Ways |-> payload[w]]
      BY <2>1 DEF Clock, payload_nxt
    <2> QED
      BY <2>2 DEF Typed
  <1>7. state \notin {"WRITEBACK", "UNCACHED_WRITE"} => mem' = mem
    BY Handshakes DEF Clock, mem_nxt
  <1>8. state # "UNCACHED_READ" => rdata' = rdata
    BY DEF Clock
  <1> QED
    BY <1>1, <1>2, <1>3, <1>4, <1>5, <1>6, <1>7, <1>8

\* The registers of an access in a stage.
LEMMA InStage ==
    ASSUME Typed
    PROVE  /\ s1 \in Access \/ s1 = NoAccess
           /\ s2 \in Access \/ s2 = NoAccess
           /\ s1.a.set \in Sets /\ s2.a.set \in Sets
           /\ s1.op # "none" => s1 \in Access /\ s1.a \in Addr
           /\ s2.op # "none" => s2 \in Access /\ s2.a \in Addr
           /\ s1.a = NoAddr \/ s1.a \in Addr
           /\ s2.a = NoAddr \/ s2.a \in Addr
           /\ s1.msk # {} <=> s1.op = "store"
           /\ s2.msk # {} <=> s2.op = "store"
  <1>1. (s1 \in Access \/ s1 = NoAccess) /\ (s2 \in Access \/ s2 = NoAccess)
    BY DEF Typed
  <1>2. \A a \in Addr : a.set \in Sets
    BY Addresses
  <1> QED
    BY <1>1, <1>2, Accesses

\* The way that is written back, and the line it is written to.
LEMMA WayWritten ==
    ASSUME IInv, state = "WRITEBACK"
    PROVE  /\ s2 \in Access /\ s2.a \in Addr
           /\ wr.addr \in Addr /\ wr.addr.set = s2.a.set /\ wr.addr.word = 0
           /\ \E u \in Ways : wb_way = {u} /\ wb_data = rdat[u]
  <1>1. s2 \in Access /\ s2.a \in Addr
    BY InStage DEF IInv, Stages, Refills
  <1>2. wr.addr \in Addr /\ wr.addr.set = s2.a.set /\ wr.addr.word = 0
    BY <1>1, Addresses DEF IInv, Tagged, Evicts, Flushes
  <1>3. \E u \in Ways : wb_way = {u}
    BY Zenon DEF IInv, Tagged, Evicts, Flushes, wb_way, Typed
  <1>4. PICK u \in Ways : wb_way = {u}
    BY <1>3
  <1>5. wb_data = rdat[u]
    BY <1>4 DEF wb_data
  <1> QED
    BY <1>1, <1>2, <1>4, <1>5

\* A beat of the write channel takes the word it is the turn of to memory, as
\* the program must see it.
LEMMA WriteBeat ==
    ASSUME IInv, state = "WRITEBACK", NEW req, NEW hds \in SUBSET Offered, Clock(req, hds), "W" \in hds
    PROVE  \E A \in Addr, d \in Datum :
              /\ SameLine(A, wr.addr) /\ A.word = wr.beat /\ wr.beat \in Words
              /\ mem' = [mem EXCEPT ![A] = d]
              /\ Right(d, A)
  <1>1. PICK u \in Ways : wb_way = {u} /\ wb_data = rdat[u]
    BY WayWritten
  <1>2. wr.w \in {"valid", "last"}
    BY Handshakes DEF IInv
  <1>3. wr.beat = wb_addr /\ wb_addr \in Words
    BY <1>2 DEF IInv, Bus, Typed
  <1> DEFINE A == [wr.addr EXCEPT !.word = wb_addr]
  <1>4. A \in Addr /\ A.tag = wr.addr.tag /\ A.set = wr.addr.set /\ A.word = wb_addr
    BY <1>3, WayWritten, Addresses
  <1>5. beat_word(wr.beat, wb_addr) = wb_addr
    BY <1>3, Counters
  <1>6. mem' = [mem EXCEPT ![A] = rdat[u]]
    BY <1>1, <1>5 DEF Clock, mem_nxt
  <1> HIDE DEF A
  <1>7. rdat[u] = payload[u][s2.a.set][wb_addr]
    BY <1>1, <1>2 DEF IInv, Writeback
  <1>8. SameLine(A, wr.addr)
    BY <1>4 DEF SameLine
  <1>9. Right(payload[u][A.set][A.word], A)
    BY <1>1, <1>4, <1>8 DEF IInv, Writeback
  <1>10. Right(rdat[u], A)
    BY <1>4, <1>7, <1>9, WayWritten
  <1>11. rdat[u] \in Datum
    BY <1>10 DEF Right, Fits
  <1> QED
    BY <1>3, <1>4, <1>6, <1>8, <1>10, <1>11, Zenon

\* A beat of the read channel brings the word it is the turn of.
LEMMA ReadBeat ==
    ASSUME IInv, state = "REFILL", NEW req, NEW hds \in SUBSET Offered, Clock(req, hds)
    PROVE  LET A == [s2.a EXCEPT !.word = refill_cnt]
               d == IF "R" \in hds THEN mem[A] ELSE Junk
           IN  /\ s2 \in Access /\ s2.a \in Addr
               /\ A \in Addr /\ SameLine(A, s2.a) /\ A.word = refill_cnt
               /\ payload' = [payload EXCEPT ![victim][s2.a.set][refill_cnt] = d]
               /\ d \in Word
  <1> DEFINE A == [s2.a EXCEPT !.word = refill_cnt]
             d == IF "R" \in hds THEN mem[A] ELSE Junk
  <1>1. s2 \in Access /\ s2.a \in Addr
    BY InStage DEF IInv, Stages, Refills
  <1>2. refill_cnt \in Words /\ victim \in Ways /\ s2.a.set \in Sets
    BY <1>1, Addresses DEF IInv, Typed
  <1>3. A \in Addr /\ A.tag = s2.a.tag /\ A.set = s2.a.set /\ A.word = refill_cnt
    BY <1>1, <1>2, Addresses
  <1>4. SameLine(A, s2.a)
    BY <1>3 DEF SameLine
  <1>5. "R" \in hds => rd.ar = "taken" /\ rd.beat = refill_cnt
    BY Handshakes DEF IInv, Bus
  <1>6. rd.addr = line(s2.a)
    BY DEF IInv, Bus
  <1>7. [line(s2.a) EXCEPT !.word = refill_cnt] = A
    <2>1. line(s2.a) \in Addr /\ line(s2.a).tag = s2.a.tag /\ line(s2.a).set = s2.a.set
      BY <1>1, Addresses
    <2> DEFINE B == [line(s2.a) EXCEPT !.word = refill_cnt]
    <2>2. B \in Addr /\ B.tag = s2.a.tag /\ B.set = s2.a.set /\ B.word = refill_cnt
      BY <2>1, <1>2, Addresses
    <2> HIDE DEF A, B
    <2>3. B = A
      BY <2>2, <1>3, Addresses
    <2> QED
      BY <2>3 DEF B
  <1>8. "R" \in hds => [rd.addr EXCEPT !.word = beat_word(rd.beat, refill_cnt)] = A
    BY <1>2, <1>5, <1>6, <1>7, Counters
  <1>9. s2i_payload_we = {victim}
    BY DEF s2i_payload_we, s2i_ready
  <1> HIDE DEF A
  <1>10. payload' = [w \in Ways |-> IF w \in {victim} THEN [payload[w] EXCEPT ![s2.a.set][refill_cnt] = d] ELSE payload[w]]
    BY <1>8, <1>9 DEF Clock, payload_nxt
  <1> HIDE DEF d
  <1>11. payload' = [payload EXCEPT ![victim][s2.a.set][refill_cnt] = d]
    BY <1>2, <1>10, Zenon DEF IInv, Typed
  <1>12. d \in Word
    BY <1>3 DEF d, Word, IInv, Typed
  <1> QED
    BY <1>1, <1>3, <1>4, <1>11, <1>12 DEF A, d

-----------------------------------------------------------------------------
\* The state the FSM goes to.
LEMMA Goes ==
    ASSUME Typed, NEW req, NEW hds, Clock(req, hds)
    PROVE  /\ state = "BOOT" => state' \in {"BOOT", "IDLE"}
           /\ state = "REPLACE" => state' = IF free_dirty THEN "WRITEBACK" ELSE "REFILL"
           /\ state = "WRITEBACK" =>
                 state' = IF "B" \notin hds THEN "WRITEBACK" ELSE IF s2.op = "fls" THEN "IDLE" ELSE "REFILL"
           /\ state = "REFILL" => state' = IF "R" \in hds /\ rd.beat = rd.last THEN "RELOAD_S1O_S2O" ELSE "REFILL"
           /\ state \in {"INVALIDATE", "RELOAD_S1O_S2O"} => state' = "IDLE"
           /\ state = "FLUSH" => state' = IF match_dirty THEN "WRITEBACK" ELSE "IDLE"
           /\ state = "UNCACHED_BOOT" => state' = IF s2.msk # {} THEN "UNCACHED_WRITE" ELSE "UNCACHED_READ"
           /\ state = "UNCACHED_READ" => state' = IF "R" \in hds THEN "IDLE" ELSE "UNCACHED_READ"
           /\ state = "UNCACHED_WRITE" => state' = IF "B" \in hds THEN "IDLE" ELSE "UNCACHED_WRITE"
  <1>1. state' = state_nxt(hds)
    BY DEF Clock
  <1>2. state = "BOOT" => state' \in {"BOOT", "IDLE"}
    BY <1>1 DEF state_nxt
  <1>3. /\ state = "REPLACE" => state' = IF free_dirty THEN "WRITEBACK" ELSE "REFILL"
        /\ state = "WRITEBACK" =>
              state' = IF "B" \notin hds THEN "WRITEBACK" ELSE IF s2.op = "fls" THEN "IDLE" ELSE "REFILL"
        /\ state = "REFILL" => state' = IF "R" \in hds /\ rd.beat = rd.last THEN "RELOAD_S1O_S2O" ELSE "REFILL"
    BY <1>1 DEF state_nxt
  <1>4. /\ state \in {"INVALIDATE", "RELOAD_S1O_S2O"} => state' = "IDLE"
        /\ state = "FLUSH" => state' = IF match_dirty THEN "WRITEBACK" ELSE "IDLE"
    BY <1>1 DEF state_nxt
  <1>5. /\ state = "UNCACHED_BOOT" => state' = IF s2.msk # {} THEN "UNCACHED_WRITE" ELSE "UNCACHED_READ"
        /\ state = "UNCACHED_READ" => state' = IF "R" \in hds THEN "IDLE" ELSE "UNCACHED_READ"
        /\ state = "UNCACHED_WRITE" => state' = IF "B" \in hds THEN "IDLE" ELSE "UNCACHED_WRITE"
    BY <1>1 DEF state_nxt
  <1> QED
    BY <1>2, <1>3, <1>4, <1>5

\* The state the FSM goes to from IDLE, by the access in the first stage.
LEMMA Leaves ==
    ASSUME Typed, state = "IDLE", NEW req, NEW hds, Clock(req, hds)
    PROVE  /\ s1.op = "none" => state' = "IDLE"
           /\ s1.op = "inv" => state' = "INVALIDATE"
           /\ s1.op = "fls" => state' = IF s2i_hit_vec # {} THEN "FLUSH" ELSE "IDLE"
           /\ s1.op \in {"load", "store"} =>
                 /\ s1.kind = "killed" => state' = "IDLE"
                 /\ s1.kind = "uncached" => state' = "UNCACHED_BOOT"
                 /\ s1.kind = "cached" => state' = IF s2i_hit_vec # {} THEN "IDLE" ELSE "REPLACE"
           /\ s1.op \in {"none", "inv", "fls", "load", "store"}
           /\ s1.kind \in {"killed", "uncached", "cached"}
  <1>1. state' = state_nxt(hds)
    BY DEF Clock
  <1>2. s1.op = "none" => state' = "IDLE"
    BY <1>1 DEF state_nxt, s2i_ready
  <1>3. s1.op = "inv" => state' = "INVALIDATE"
    BY <1>1 DEF state_nxt, s2i_ready
  <1>4. s1.op = "fls" => state' = IF s2i_hit_vec # {} THEN "FLUSH" ELSE "IDLE"
    BY <1>1 DEF state_nxt, s2i_ready
  <1>5. s1.op \in {"load", "store"} =>
           /\ s1.kind = "killed" => state' = "IDLE"
           /\ s1.kind = "uncached" => state' = "UNCACHED_BOOT"
           /\ s1.kind = "cached" => state' = IF s2i_hit_vec # {} THEN "IDLE" ELSE "REPLACE"
    BY <1>1 DEF state_nxt, s2i_ready
  <1>6. s1.op \in {"none", "inv", "fls", "load", "store"} /\ s1.kind \in {"killed", "uncached", "cached"}
    BY InStage, Accesses
  <1> QED
    BY <1>2, <1>3, <1>4, <1>5, <1>6

\* The transactions and the counters at an edge that starts none and has no
\* handshake.
LEMMA BusStill ==
    ASSUME IInv, NEW req, NEW hds \in SUBSET Offered, Clock(req, hds),
           state \in {"BOOT", "IDLE", "INVALIDATE", "RELOAD_S1O_S2O"}
    PROVE  rd' = rd /\ wr'.aw = "none" /\ wr'.w = "none" /\ refill_cnt' = 0 /\ wb_addr' = wb_addr
  <1>1. hds \cap {"AR", "R", "AW", "W", "B"} = {} /\ wr.aw = "none" /\ wr.w = "none" /\ refill_cnt = 0
    BY Handshakes DEF IInv, Bus
  <1>2. ~ar_set(hds) /\ ~aw_set
    BY DEF ar_set, aw_set
  <1>3. ~s2i_wb_re(hds)
    BY <1>2 DEF s2i_wb_re
  <1>4. rd' = rd
    BY <1>1, <1>2 DEF Clock, rd_nxt
  <1>5. wr'.aw = "none" /\ wr'.w = "none"
    BY <1>1, <1>2 DEF Clock, wr_nxt, w_nxt
  <1>6. refill_cnt' = 0 /\ wb_addr' = wb_addr
    BY <1>1, <1>3 DEF Clock, refill_cnt_nxt
  <1> QED
    BY <1>4, <1>5, <1>6

\* The transactions when the FSM starts one.
LEMMA BusStarts ==
    ASSUME IInv, NEW req, NEW hds \in SUBSET Offered, Clock(req, hds),
           state \in {"REPLACE", "FLUSH", "UNCACHED_BOOT"}
    PROVE  /\ aw_set <=> state' \in {"WRITEBACK", "UNCACHED_WRITE"}
           /\ ar_set(hds) <=> state' \in {"REFILL", "UNCACHED_READ"}
           /\ rd' = IF ar_set(hds) THEN [ar |-> "valid", addr |-> axi_paddr_nxt, beat |-> 0, last |-> 0] ELSE rd
           /\ ~aw_set => wr'.aw = "none" /\ wr'.w = "none" /\ refill_cnt' = 0
           /\ aw_set => /\ wr'.aw = "valid" /\ wr'.addr = axi_paddr_nxt /\ wr'.beat = 0
                        /\ wr'.w = IF state = "UNCACHED_BOOT" THEN "last" ELSE "valid"
           /\ aw_set /\ state = "UNCACHED_BOOT" => refill_cnt' = 0
           /\ aw_set /\ state # "UNCACHED_BOOT" => refill_cnt' = 1 /\ wb_addr' = 0
           /\ ~aw_set \/ state = "UNCACHED_BOOT" => wb_addr' = wb_addr
  <1>1. hds \cap {"AR", "R", "AW", "W", "B"} = {} /\ wr.aw = "none" /\ wr.w = "none" /\ refill_cnt = 0
    BY Handshakes DEF IInv, Bus
  <1>2. aw_set <=> state' \in {"WRITEBACK", "UNCACHED_WRITE"}
    BY Goes DEF aw_set, IInv
  <1>3. ar_set(hds) <=> state' \in {"REFILL", "UNCACHED_READ"}
    BY Goes DEF ar_set, IInv
  <1>4. rd' = IF ar_set(hds) THEN [ar |-> "valid", addr |-> axi_paddr_nxt, beat |-> 0, last |-> 0] ELSE rd
    BY <1>1 DEF Clock, rd_nxt
  <1>5. ~aw_set => wr'.aw = "none" /\ wr'.w = "none"
    BY <1>1 DEF Clock, wr_nxt, w_nxt
  <1>6. aw_set => /\ wr'.aw = "valid" /\ wr'.addr = axi_paddr_nxt /\ wr'.beat = 0
                  /\ wr'.w = IF state = "UNCACHED_BOOT" THEN "last" ELSE "valid"
    BY <1>1 DEF Clock, wr_nxt, w_nxt
  <1>7. s2i_wb_re(hds) <=> aw_set /\ state # "UNCACHED_BOOT"
    BY DEF s2i_wb_re
  <1>8. /\ refill_cnt' = IF aw_set /\ state # "UNCACHED_BOOT" THEN (0 + 1) % WORDS ELSE 0
        /\ wb_addr' = IF aw_set /\ state # "UNCACHED_BOOT" THEN 0 ELSE wb_addr
    BY <1>1, <1>7 DEF Clock, refill_cnt_nxt
  <1>9. (0 + 1) % WORDS = 1
    BY Counters
  <1> QED
    BY <1>2, <1>3, <1>4, <1>5, <1>6, <1>8, <1>9

\* The transactions and the counters stay in step with the FSM (the burst of a
\* refill and of a writeback).
LEMMA BusNext ==
    ASSUME IInv, NEW req, NEW hds \in SUBSET Offered, Clock(req, hds)
    PROVE  Bus'
  <1>0. /\ Typed /\ Bus /\ Stages
        /\ WORDS \in Nat /\ WORDS >= 2 /\ refill_cnt \in Words /\ wb_addr \in Words
    BY Counters DEF IInv, Typed
  <1>1. CASE state \in {"BOOT", "IDLE", "INVALIDATE", "RELOAD_S1O_S2O"}
    <2>1. state' \notin {"REFILL", "UNCACHED_READ", "WRITEBACK", "UNCACHED_WRITE"}
      BY <1>0, <1>1, Goes, Leaves
    <2>2. rd.ar = "none"
      BY <1>0, <1>1 DEF Bus
    <2> QED
      BY <1>1, <2>1, <2>2, BusStill DEF Bus
  <1>2. CASE state \in {"REPLACE", "FLUSH", "UNCACHED_BOOT"}
    <2>1. s2'.a = s2.a /\ rd.ar = "none"
      BY <1>0, <1>2, Still DEF Bus
    <2>2. ar_set(hds) => ~aw_set /\ axi_paddr_nxt = IF state = "UNCACHED_BOOT" THEN s2.a ELSE line(s2.a)
      BY <1>2 DEF axi_paddr_nxt, aw_set, ar_set
    <2>3. aw_set /\ state = "UNCACHED_BOOT" => axi_paddr_nxt = s2.a
      BY DEF axi_paddr_nxt
    <2>4. /\ state' = "REFILL" => state = "REPLACE"
          /\ state' \in {"UNCACHED_READ", "UNCACHED_WRITE"} => state = "UNCACHED_BOOT"
          /\ state' = "WRITEBACK" => state # "UNCACHED_BOOT"
      BY <1>0, <1>2, Goes
    <2>5. line(s2'.a) = line(s2.a)
      BY <2>1
    <2> QED
      BY <1>0, <1>2, <2>1, <2>2, <2>3, <2>4, <2>5, BusStarts DEF Bus
  <1>3. CASE state = "WRITEBACK"
    <2>1. ~aw_set /\ (ar_set(hds) <=> "B" \in hds /\ s2.op # "fls") /\ "AR" \notin hds /\ "R" \notin hds
      BY <1>0, <1>3, Handshakes DEF aw_set, ar_set
    <2>2. s2'.a = s2.a /\ rd.ar = "none"
      BY <1>0, <1>3, Still DEF Bus
    <2>3. line(s2'.a) = line(s2.a)
      BY <2>2
    <2>4. "W" \in hds => wr.w \in {"valid", "last"}
      BY <1>0, Handshakes
    <2>5. "B" \in hds => wr.aw = "taken" /\ wr.w = "taken" /\ "W" \notin hds /\ "AW" \notin hds
      BY <1>0, Handshakes
    <2>6. axi_paddr_nxt = line(s2.a)
      BY <1>3, <2>1 DEF axi_paddr_nxt
    <2>7. rd' = IF ar_set(hds) THEN [ar |-> "valid", addr |-> line(s2.a), beat |-> 0, last |-> 0] ELSE rd
      BY <2>1, <2>6 DEF Clock, rd_nxt
    <2>8. s2i_wb_re(hds) <=> "W" \in hds /\ refill_cnt # 0
      BY <1>3, <2>1 DEF s2i_wb_re
    <2>9. /\ refill_cnt' = IF "W" \in hds /\ refill_cnt # 0 THEN (refill_cnt + 1) % WORDS ELSE refill_cnt
          /\ wb_addr' = IF "W" \in hds /\ refill_cnt # 0 THEN refill_cnt ELSE wb_addr
      BY <1>3, <2>8 DEF Clock, refill_cnt_nxt
    <2>10. CASE "B" \in hds
      <3>1. wr'.aw = "none" /\ wr'.w = "none" /\ refill_cnt' = 0
        BY <1>0, <1>3, <2>1, <2>5, <2>9, <2>10 DEF Clock, wr_nxt, w_nxt, Bus
      <3>2. state' = IF s2.op = "fls" THEN "IDLE" ELSE "REFILL"
        BY <1>0, <1>3, <2>10, Goes
      <3> QED
        BY <3>1, <3>2, <2>1, <2>2, <2>3, <2>7, <2>10 DEF Bus
    <2>11. CASE "B" \notin hds
      <3>1. state' = "WRITEBACK" /\ rd' = rd
        BY <1>0, <1>3, <2>1, <2>7, <2>11, Goes
      <3>2. wr'.aw \in {"valid", "taken"}
        BY <1>0, <1>3, <2>1, <2>11 DEF Clock, wr_nxt, Bus
      <3>3. CASE "W" \notin hds
        <4>1. wr'.w = wr.w /\ wr'.beat = wr.beat /\ refill_cnt' = refill_cnt /\ wb_addr' = wb_addr
          BY <2>1, <2>9, <2>11, <3>3 DEF Clock, wr_nxt, w_nxt
        <4> QED
          BY <1>0, <1>3, <2>2, <3>1, <3>2, <4>1 DEF Bus
      <3>4. CASE "W" \in hds
        <4>1. wr'.w = IF wr.w = "last" THEN "taken" ELSE IF refill_cnt = WORDS - 1 THEN "last" ELSE "valid"
          BY <2>1, <2>11, <3>4 DEF Clock, wr_nxt, w_nxt
        <4>2. wr'.beat = wr.beat + 1
          BY <2>1, <2>11, <3>4 DEF Clock, wr_nxt
        <4>3. (refill_cnt + 1) % WORDS = IF refill_cnt = WORDS - 1 THEN 0 ELSE refill_cnt + 1
          BY <1>0, Counters
        <4>4. CASE wr.w = "last"
          <5>1. wr.beat = WORDS - 1 /\ refill_cnt = 0
            BY <1>0, <1>3, <4>4 DEF Bus
          <5>2. wr'.beat = WORDS /\ refill_cnt' = 0 /\ wr'.w = "taken"
            BY <1>0, <2>9, <4>1, <4>2, <4>4, <5>1
          <5> QED
            BY <5>2, <2>2, <3>1, <3>2 DEF Bus
        <4>5. CASE wr.w = "valid"
          <5>1. wr.beat = wb_addr /\ refill_cnt = wb_addr + 1 /\ wb_addr \in Nat
            BY <1>0, <1>3, <4>5, Counters DEF Bus
          <5>2. wb_addr' = refill_cnt /\ wr'.beat = refill_cnt
            BY <2>9, <3>4, <4>2, <5>1
          <5>3. CASE refill_cnt = WORDS - 1
            <6>1. wr'.w = "last" /\ refill_cnt' = 0 /\ wb_addr' = WORDS - 1
              BY <2>9, <3>4, <4>1, <4>3, <4>5, <5>1, <5>2, <5>3
            <6> QED
              BY <6>1, <5>2, <2>2, <3>1, <3>2, <5>3 DEF Bus
          <5>4. CASE refill_cnt # WORDS - 1
            <6>1. wr'.w = "valid" /\ refill_cnt' = wb_addr' + 1
              BY <2>9, <3>4, <4>1, <4>3, <4>5, <5>1, <5>2, <5>4
            <6> QED
              BY <6>1, <5>2, <2>2, <3>1, <3>2 DEF Bus
          <5> QED
            BY <5>3, <5>4
        <4> QED
          BY <2>4, <3>4, <4>4, <4>5
      <3> QED
        BY <3>3, <3>4
    <2> QED
      BY <2>10, <2>11
  <1>4. CASE state = "REFILL"
    <2>1. ~aw_set /\ ~ar_set(hds) /\ "AW" \notin hds /\ "W" \notin hds /\ "B" \notin hds
      BY <1>0, <1>4, Handshakes DEF aw_set, ar_set
    <2>2. ~s2i_wb_re(hds) /\ s2' = s2
      BY <1>0, <1>4, <2>1, Still DEF s2i_wb_re
    <2>3. wr'.aw = "none" /\ wr'.w = "none"
      BY <1>0, <1>4, <2>1 DEF Clock, wr_nxt, w_nxt, Bus
    <2>4. refill_cnt' = IF "R" \in hds THEN (refill_cnt + 1) % WORDS ELSE refill_cnt
      BY <1>4, <2>2 DEF Clock, refill_cnt_nxt
    <2>5. line(s2'.a) = line(s2.a) /\ rd.addr = line(s2.a)
      BY <1>0, <1>4, <2>2 DEF Bus
    <2>6. rd \in [ar : {"none", "valid", "taken"}, addr : Addr \cup {NoAddr}, beat : Nat, last : Nat]
      BY <1>0 DEF Typed
    <2>7. CASE "R" \in hds
      <3>1. rd.ar = "taken" /\ "AR" \notin hds /\ rd.last = WORDS - 1 /\ rd.beat = refill_cnt
        BY <1>0, <1>4, <2>7, Handshakes DEF Bus
      <3>2. refill_cnt' = IF refill_cnt = WORDS - 1 THEN 0 ELSE refill_cnt + 1
        BY <1>0, <2>4, <2>7, Counters
      <3>3. refill_cnt \in Nat /\ refill_cnt < WORDS
        BY <1>0, Counters
      <3>4. CASE refill_cnt = WORDS - 1
        <4>1. rd' = [ar |-> "none", addr |-> NoAddr, beat |-> 0, last |-> 0]
          BY <1>0, <2>1, <2>7, <3>1, <3>3, <3>4 DEF Clock, rd_nxt
        <4>2. state' = "RELOAD_S1O_S2O"
          BY <1>0, <1>4, <2>7, <3>1, <3>4, Goes
        <4> QED
          BY <2>3, <3>2, <3>4, <4>1, <4>2 DEF Bus
      <3>5. CASE refill_cnt # WORDS - 1
        <4>1. rd' = [rd EXCEPT !.beat = @ + 1]
          BY <1>0, <2>1, <2>7, <3>1, <3>3, <3>5 DEF Clock, rd_nxt
        <4>2. state' = "REFILL"
          BY <1>0, <1>4, <2>7, <3>1, <3>5, Goes
        <4>3. rd'.ar = "taken" /\ rd'.addr = line(s2.a) /\ rd'.last = WORDS - 1 /\ rd'.beat = refill_cnt + 1
          BY <2>5, <2>6, <3>1, <4>1
        <4> QED
          BY <2>3, <2>5, <3>2, <3>5, <4>2, <4>3 DEF Bus
      <3> QED
        BY <3>4, <3>5
    <2>8. CASE "R" \notin hds
      <3>1. state' = "REFILL" /\ refill_cnt' = refill_cnt
        BY <1>0, <1>4, <2>4, <2>8, Goes
      <3>2. CASE "AR" \in hds
        <4>1. rd' = [rd EXCEPT !.ar = "taken", !.last = WORDS - 1]
          BY <1>4, <2>1, <2>8, <3>2 DEF Clock, rd_nxt
        <4>2. rd.ar = "valid" /\ rd.beat = 0 /\ refill_cnt = 0
          BY <1>0, <1>4, <3>2, Handshakes DEF Bus
        <4>3. rd'.ar = "taken" /\ rd'.addr = line(s2.a) /\ rd'.last = WORDS - 1 /\ rd'.beat = refill_cnt
          BY <2>5, <2>6, <4>1, <4>2
        <4> QED
          BY <2>3, <2>5, <3>1, <4>3 DEF Bus
      <3>3. CASE "AR" \notin hds
        <4>1. rd' = rd
          BY <2>1, <2>8, <3>3 DEF Clock, rd_nxt
        <4> QED
          BY <1>0, <1>4, <2>3, <2>5, <3>1, <4>1 DEF Bus
      <3> QED
        BY <3>2, <3>3
    <2> QED
      BY <2>7, <2>8
  <1>5. CASE state = "UNCACHED_READ"
    <2>1. ~aw_set /\ ~ar_set(hds) /\ "AW" \notin hds /\ "W" \notin hds /\ "B" \notin hds
      BY <1>0, <1>5, Handshakes DEF aw_set, ar_set
    <2>2. ~s2i_wb_re(hds) /\ s2' = s2
      BY <1>0, <1>5, <2>1, Still DEF s2i_wb_re
    <2>3. wr'.aw = "none" /\ wr'.w = "none" /\ refill_cnt' = 0
      BY <1>0, <1>5, <2>1, <2>2 DEF Clock, wr_nxt, w_nxt, Bus, refill_cnt_nxt
    <2>4. rd \in [ar : {"none", "valid", "taken"}, addr : Addr \cup {NoAddr}, beat : Nat, last : Nat]
      BY <1>0 DEF Typed
    <2>5. rd.addr = s2.a /\ rd.beat = 0 /\ rd.last = 0 /\ rd.ar \in {"valid", "taken"}
      BY <1>0, <1>5 DEF Bus
    <2>6. CASE "R" \in hds
      <3>1. "AR" \notin hds
        BY <1>0, <2>6, Handshakes
      <3>2. rd'.ar = "none" /\ state' = "IDLE"
        BY <1>0, <1>5, <2>1, <2>5, <2>6, <3>1, Goes DEF Clock, rd_nxt
      <3> QED
        BY <2>3, <3>2 DEF Bus
    <2>7. CASE "R" \notin hds
      <3>1. state' = "UNCACHED_READ"
        BY <1>0, <1>5, <2>7, Goes
      <3>2. rd' = IF "AR" \in hds THEN [rd EXCEPT !.ar = "taken", !.last = 0] ELSE rd
        BY <1>5, <2>1, <2>7 DEF Clock, rd_nxt
      <3>3. rd'.addr = s2.a /\ rd'.beat = 0 /\ rd'.last = 0 /\ rd'.ar \in {"valid", "taken"}
        BY <2>4, <2>5, <3>2
      <3> QED
        BY <2>2, <2>3, <3>1, <3>3 DEF Bus
    <2> QED
      BY <2>6, <2>7
  <1>6. CASE state = "UNCACHED_WRITE"
    <2>1. ~aw_set /\ ~ar_set(hds) /\ "AR" \notin hds /\ "R" \notin hds
      BY <1>0, <1>6, Handshakes DEF aw_set, ar_set
    <2>2. ~s2i_wb_re(hds) /\ s2' = s2
      BY <1>0, <1>6, <2>1, Still DEF s2i_wb_re
    <2>3. rd' = rd /\ rd.ar = "none" /\ refill_cnt' = 0
      BY <1>0, <1>6, <2>1, <2>2 DEF Clock, rd_nxt, refill_cnt_nxt, Bus
    <2>4. wr.addr = s2.a /\ wr.aw \in {"valid", "taken"} /\ wr.w \in {"last", "taken"}
      BY <1>0, <1>6 DEF Bus
    <2>5. CASE "B" \in hds
      <3>1. "AW" \notin hds /\ "W" \notin hds
        BY <1>0, <2>5, Handshakes
      <3>2. wr'.aw = "none" /\ wr'.w = "none" /\ state' = "IDLE"
        BY <1>0, <1>6, <2>1, <2>5, <3>1, Goes DEF Clock, wr_nxt, w_nxt
      <3> QED
        BY <2>3, <3>2 DEF Bus
    <2>6. CASE "B" \notin hds
      <3>1. state' = "UNCACHED_WRITE"
        BY <1>0, <1>6, <2>6, Goes
      <3>2. "W" \in hds => wr.w = "last"
        BY <1>0, <2>4, Handshakes
      <3>3. wr'.addr = s2.a /\ wr'.aw \in {"valid", "taken"} /\ wr'.w \in {"last", "taken"}
        BY <2>1, <2>4, <2>6, <3>2 DEF Clock, wr_nxt, w_nxt
      <3> QED
        BY <2>2, <2>3, <3>1, <3>3 DEF Bus
    <2> QED
      BY <2>5, <2>6
  <1> QED
    BY <1>0, <1>1, <1>2, <1>3, <1>4, <1>5, <1>6 DEF Typed

-----------------------------------------------------------------------------
\* An access that hits: the one way that holds its line is read or written.
LEMMA Hit ==
    ASSUME IInv, state = "IDLE", NEW req, NEW hds \in SUBSET Offered, Clock(req, hds), s2i_ready
    PROVE  LET a == s1.a
           IN  /\ s1 \in Access /\ a \in Addr /\ s1.op \in {"load", "store"} /\ s1.kind = "cached"
               /\ \E u \in Ways :
                     /\ s2i_hit_vec = {u} /\ tag_v[u][a.set] = a.tag
                     /\ s1.op = "store" =>
                           /\ payload' = [payload EXCEPT ![u][a.set][a.word] = stored(payload[u][a.set][a.word], s1)]
                           /\ dirty' = [dirty EXCEPT ![u][a.set] = TRUE]
                     /\ s1.op = "load" => /\ payload' = payload /\ dirty' = dirty
                                          /\ rdat'[u] = payload[u][a.set][a.word]
  <1> DEFINE a == s1.a
  <1>1. s1.op \in {"load", "store"} /\ s1.kind = "cached" /\ s2i_hit_vec # {}
    BY DEF s2i_ready
  <1>2. s1 \in Access /\ a \in Addr
    BY <1>1, InStage DEF IInv
  <1>3. a.set \in Sets /\ a.word \in Words /\ a.tag # None /\ a # NoAddr
    BY <1>2, Addresses
  <1>4. PICK u \in Ways : u \in s2i_hit_vec
    BY <1>1 DEF s2i_hit_vec
  <1>5. tag_v[u][a.set] = a.tag
    BY <1>4 DEF s2i_hit_vec
  <1>6. s2i_hit_vec = {u}
    BY <1>3, <1>4, <1>5 DEF s2i_hit_vec, IInv, Unique
  <1>7. s1.msk # {} <=> s1.op = "store"
    BY InStage DEF IInv
  <1>8. ASSUME s1.op = "store"
        PROVE  /\ payload' = [payload EXCEPT ![u][a.set][a.word] = stored(payload[u][a.set][a.word], s1)]
               /\ dirty' = [dirty EXCEPT ![u][a.set] = TRUE]
    <2>1. s2i_payload_we = {u}
      BY <1>6, <1>7, <1>8 DEF s2i_payload_we
    <2>2. payload' = [w \in Ways |-> IF w \in {u}
                                     THEN [payload[w] EXCEPT ![a.set][a.word] = stored(@, s1)] ELSE payload[w]]
      BY <2>1 DEF Clock, payload_nxt
    <2>3. payload' = [payload EXCEPT ![u][a.set][a.word] = stored(payload[u][a.set][a.word], s1)]
      BY <2>2, <1>3, Zenon DEF IInv, Typed
    <2>4. dirty' = [w \in Ways |-> IF w \in {u} THEN [dirty[w] EXCEPT ![a.set] = @ \/ s1.msk # {}] ELSE dirty[w]]
      BY <1>6 DEF Clock, dirty_nxt
    <2>5. dirty' = [dirty EXCEPT ![u][a.set] = TRUE]
      BY <2>4, <1>3, <1>7, <1>8, Zenon DEF IInv, Typed
    <2> QED
      BY <2>3, <2>5
  <1>9. ASSUME s1.op = "load"
        PROVE  /\ payload' = payload /\ dirty' = dirty
               /\ rdat'[u] = payload[u][a.set][a.word]
    <2>1. s2i_payload_we = {}
      BY <1>7, <1>9 DEF s2i_payload_we
    <2>2. payload' = [w \in Ways |-> payload[w]]
      BY <2>1 DEF Clock, payload_nxt
    <2>3. payload' = payload
      BY <2>2 DEF IInv, Typed
    <2>4. dirty' = [w \in Ways |-> IF w \in {u} THEN [dirty[w] EXCEPT ![a.set] = @ \/ s1.msk # {}] ELSE dirty[w]]
      BY <1>6 DEF Clock, dirty_nxt
    <2>5. dirty' = dirty
      BY <2>4, <1>3, <1>7, <1>9 DEF IInv, Typed
    <2>6. ~s2i_wb_re(hds)
      BY DEF s2i_wb_re, aw_set
    <2>7. rdat'[u] = payload[u][a.set][a.word]
      BY <2>1, <2>6, <1>3 DEF Clock, rdat_nxt, p_ce
    <2> QED
      BY <2>3, <2>5, <2>7
  <1> QED
    BY <1>1, <1>2, <1>5, <1>6, <1>8, <1>9, Zenon

\* No other access writes the RAMs in its first stage.
LEMMA Miss ==
    ASSUME IInv, state = "IDLE", NEW req, NEW hds \in SUBSET Offered, Clock(req, hds), ~s2i_ready
    PROVE  payload' = payload /\ dirty' = dirty
  <1>1. s2i_payload_we = {}
    BY DEF s2i_payload_we
  <1>2. payload' = [w \in Ways |-> payload[w]]
    BY <1>1 DEF Clock, payload_nxt
  <1>3. payload' = payload
    BY <1>2 DEF IInv, Typed
  <1>4. dirty' = dirty
    BY DEF Clock, dirty_nxt
  <1> QED
    BY <1>3, <1>4

\* What else an edge of the first stage does.
LEMMA Enters ==
    ASSUME IInv, state = "IDLE", NEW req \in Requests, NEW hds \in SUBSET Offered, Clock(req, hds)
    PROVE  /\ s1' = req /\ s2' = s1 /\ victim' = free_way /\ match' = s2i_hit_vec
           /\ s2o_d' = [w \in Ways |-> dirty[w][s1.a.set]]
           /\ free_dirty' = dirty[free_way][s1.a.set] /\ free_tag' = tag_v[free_way][s1.a.set]
           /\ tag_v' = tag_v /\ mem' = mem /\ rdata' = rdata
           /\ golden' = IF s1.op = "store" /\ s1.kind # "killed" THEN Seen(golden, s1) ELSE golden
           /\ req \in Access \cup {NoAccess}
           /\ req # NoAccess => s1 = NoAccess
           /\ req.op \in {"load", "store"} /\ req.kind = "uncached" => Free(tag_v, req.a)
  <1>1. /\ s1' = req /\ s2' = s1 /\ victim' = free_way /\ match' = s2i_hit_vec
        /\ s2o_d' = [w \in Ways |-> dirty[w][s1.a.set]]
        /\ free_dirty' = dirty[free_way][s1.a.set] /\ free_tag' = tag_v[free_way][s1.a.set]
    BY DEF Clock, p_ce
  <1>2. tag_v' = tag_v /\ mem' = mem /\ rdata' = rdata
    BY Still DEF IInv
  <1>3. golden' = IF s1.op = "store" /\ s1.kind # "killed" THEN Seen(golden, s1) ELSE golden
    BY DEF Clock, golden_nxt, p_ce, Seen
  <1>4. req \in Access \cup {NoAccess} /\ (req # NoAccess => s1 = NoAccess)
    BY DEF Requests
  <1>5. req.op \in {"load", "store"} /\ req.kind = "uncached" => Free(tag_v, req.a)
    BY Accesses DEF Requests, Free
  <1> QED
    BY <1>1, <1>2, <1>3, <1>4, <1>5

\* The end of a refill: the store that missed is made in the way that was refilled.
LEMMA Reloads ==
    ASSUME IInv, state = "RELOAD_S1O_S2O", NEW req, NEW hds \in SUBSET Offered, Clock(req, hds)
    PROVE  LET a == s2.a
           IN  /\ s2 \in Access /\ a \in Addr /\ s2.op \in {"load", "store"} /\ s2.kind = "cached"
               /\ match' = {victim}
               /\ s2o_d[victim] \/ s2.op = "store" => dirty' = [dirty EXCEPT ![victim][a.set] = TRUE]
               /\ ~(s2o_d[victim] \/ s2.op = "store") => dirty' = [dirty EXCEPT ![victim][a.set] = FALSE]
               /\ s2.op = "store" =>
                     payload' = [payload EXCEPT ![victim][a.set][a.word] = stored(payload[victim][a.set][a.word], s2)]
               /\ s2.op = "load" => payload' = payload /\ rdat'[victim] = payload[victim][a.set][a.word]
  <1> DEFINE a == s2.a
  <1>1. s2.op \in {"load", "store"} /\ s2.kind = "cached"
    BY DEF IInv, Stages, Refills
  <1>2. s2 \in Access /\ a \in Addr /\ (s2.msk # {} <=> s2.op = "store")
    BY <1>1, InStage DEF IInv
  <1>3. a.set \in Sets /\ a.word \in Words /\ a # NoAddr /\ victim \in Ways
    BY <1>2, Addresses DEF IInv, Typed
  <1>4. match' = {victim}
    BY DEF Clock
  <1>5. /\ s2o_d[victim] \/ s2.op = "store" => dirty' = [dirty EXCEPT ![victim][a.set] = TRUE]
        /\ ~(s2o_d[victim] \/ s2.op = "store") => dirty' = [dirty EXCEPT ![victim][a.set] = FALSE]
    <2>1. dirty' = [dirty EXCEPT ![victim][a.set] = s2o_d[victim] \/ s2.msk # {}]
      BY DEF Clock, dirty_nxt, s2i_ready
    <2>2. s2o_d[victim] \in BOOLEAN
      BY <1>3 DEF IInv, Typed
    <2> QED
      BY <1>2, <2>1, <2>2, Zenon
  <1>6. ASSUME s2.op = "store"
        PROVE  payload' = [payload EXCEPT ![victim][a.set][a.word] = stored(payload[victim][a.set][a.word], s2)]
    <2>1. s2i_payload_we = {victim}
      BY <1>2, <1>6 DEF s2i_payload_we, s2i_ready
    <2>2. payload' = [w \in Ways |-> IF w \in {victim}
                                     THEN [payload[w] EXCEPT ![a.set][a.word] = stored(@, s2)] ELSE payload[w]]
      BY <2>1 DEF Clock, payload_nxt
    <2> QED
      BY <2>2, <1>3, Zenon DEF IInv, Typed
  <1>7. ASSUME s2.op = "load"
        PROVE  payload' = payload /\ rdat'[victim] = payload[victim][a.set][a.word]
    <2>1. s2i_payload_we = {}
      BY <1>2, <1>7 DEF s2i_payload_we, s2i_ready
    <2>2. payload' = [w \in Ways |-> payload[w]]
      BY <2>1 DEF Clock, payload_nxt
    <2>3. ~s2i_wb_re(hds)
      BY DEF s2i_wb_re, aw_set
    <2>4. rdat'[victim] = payload[victim][a.set][a.word]
      BY <2>1, <2>3, <1>3 DEF Clock, rdat_nxt
    <2> QED
      BY <2>2, <2>4 DEF IInv, Typed
  <1> QED
    BY <1>1, <1>2, <1>4, <1>5, <1>6, <1>7

\* A line makes room: the victim's tag is replaced.
LEMMA Replaces ==
    ASSUME IInv, state = "REPLACE", NEW req, NEW hds \in SUBSET Offered, Clock(req, hds)
    PROVE  /\ s2 \in Access /\ s2.a \in Addr /\ s2.op \in {"load", "store"} /\ s2.kind = "cached"
           /\ tag_v' = [tag_v EXCEPT ![victim][s2.a.set] = s2.a.tag]
           /\ dirty' = [dirty EXCEPT ![victim][s2.a.set] = FALSE]
  <1>1. s2.op \in {"load", "store"} /\ s2.kind = "cached"
    BY DEF IInv, Stages, Refills
  <1>2. s2 \in Access /\ s2.a \in Addr
    BY <1>1, InStage DEF IInv
  <1>3. tag_v' = [tag_v EXCEPT ![victim][s2.a.set] = s2.a.tag]
    BY DEF Clock, tag_v_nxt
  <1>4. dirty' = [dirty EXCEPT ![victim][s2.a.set] = FALSE]
    BY DEF Clock, dirty_nxt, s2i_ready
  <1> QED
    BY <1>1, <1>2, <1>3, <1>4

\* A DCINV gives up the lines of a set.
LEMMA Invalidates ==
    ASSUME IInv, state = "INVALIDATE", NEW req, NEW hds \in SUBSET Offered, Clock(req, hds)
    PROVE  /\ s2 \in Access /\ s2.a \in Addr /\ s2.op = "inv"
           /\ tag_v' = [w \in Ways |-> [tag_v[w] EXCEPT ![s2.a.set] = None]]
           /\ dirty' = [w \in Ways |-> [dirty[w] EXCEPT ![s2.a.set] = FALSE]]
           /\ golden' = [a \in Addr |-> IF a.set = s2.a.set THEN mem[a].ver ELSE golden[a]]
  <1>1. s2.op = "inv"
    BY DEF IInv, Stages
  <1>2. s2 \in Access /\ s2.a \in Addr
    BY <1>1, InStage DEF IInv
  <1>3. tag_v' = [w \in Ways |-> [tag_v[w] EXCEPT ![s2.a.set] = None]]
    BY DEF Clock, tag_v_nxt
  <1>4. dirty' = [w \in Ways |-> [dirty[w] EXCEPT ![s2.a.set] = FALSE]]
    BY DEF Clock, dirty_nxt, s2i_ready
  <1>5. golden' = [a \in Addr |-> IF a.set = s2.a.set THEN mem[a].ver ELSE golden[a]]
    BY DEF Clock, golden_nxt, p_ce
  <1> QED
    BY <1>1, <1>2, <1>3, <1>4, <1>5

\* After reset the tags are cleared set by set; they are clear already.
LEMMA Boots ==
    ASSUME IInv, state = "BOOT", NEW req, NEW hds \in SUBSET Offered, Clock(req, hds)
    PROVE  tag_v' = tag_v /\ dirty' = dirty
  <1>1. tag_v' = [w \in Ways |-> [tag_v[w] EXCEPT ![boot_cnt] = None]]
    BY DEF Clock, tag_v_nxt
  <1>2. dirty' = [w \in Ways |-> [dirty[w] EXCEPT ![boot_cnt] = FALSE]]
    BY Zenon DEF Clock, dirty_nxt, s2i_ready
  <1>3. /\ tag_v \in [Ways -> [Sets -> Tags \cup {None}]] /\ dirty \in [Ways -> [Sets -> BOOLEAN]]
        /\ boot_cnt \in Sets
        /\ \A w \in Ways, s \in Sets : tag_v[w][s] = None /\ ~dirty[w][s]
    BY DEF IInv, Typed, Tagged, Unique
  <1>4. \A w \in Ways : [tag_v[w] EXCEPT ![boot_cnt] = None] = tag_v[w]
    BY <1>3
  <1>5. \A w \in Ways : [dirty[w] EXCEPT ![boot_cnt] = FALSE] = dirty[w]
    BY <1>3
  <1> QED
    BY <1>1, <1>2, <1>3, <1>4, <1>5

\* An uncached store reaches memory with its beat.
LEMMA UncachedBeat ==
    ASSUME IInv, state = "UNCACHED_WRITE", NEW req, NEW hds \in SUBSET Offered, Clock(req, hds)
    PROVE  /\ s2 \in Access /\ s2.a \in Addr /\ s2.op = "store" /\ s2.kind = "uncached"
           /\ mem' = IF "W" \in hds THEN [mem EXCEPT ![s2.a] = stored(mem[s2.a], s2)] ELSE mem
           /\ stored(mem[s2.a], s2) \in Datum /\ stored(mem[s2.a], s2).at = s2.a
           /\ "W" \in hds => wr.w = "last" /\ wr'.w = "taken"
           /\ "W" \notin hds /\ state' = "UNCACHED_WRITE" => wr'.w = wr.w
           /\ state' = "IDLE" => wr.w = "taken"
  <1>1. s2.op = "store" /\ s2.kind = "uncached"
    BY DEF IInv, Stages, Uncached
  <1>2. s2 \in Access /\ s2.a \in Addr
    BY <1>1, InStage DEF IInv
  <1>3. wr.addr = s2.a /\ wr.w \in {"last", "taken"}
    BY DEF IInv, Bus
  <1>4. mem' = IF "W" \in hds THEN [mem EXCEPT ![s2.a] = stored(mem[s2.a], s2)] ELSE mem
    BY <1>3 DEF Clock, mem_nxt
  <1>5. mem[s2.a] \in Datum /\ mem[s2.a].at = s2.a
    BY <1>2 DEF IInv, Typed, Placed
  <1>6. stored(mem[s2.a], s2) \in Datum /\ stored(mem[s2.a], s2).at = s2.a
    BY <1>2, <1>5, StoredFacts
  <1>7. "W" \in hds => wr.w = "last"
    BY <1>3, Handshakes DEF IInv
  <1>8. "B" \in hds => wr.w = "taken"
    BY Handshakes DEF IInv
  <1>9. state' = IF "B" \in hds THEN "IDLE" ELSE "UNCACHED_WRITE"
    BY Goes DEF IInv
  <1>10. ~aw_set
    BY DEF aw_set
  <1>11. "W" \in hds => wr'.w = "taken"
    BY <1>7, <1>8, <1>10 DEF Clock, wr_nxt, w_nxt
  <1>12. "W" \notin hds /\ "B" \notin hds => wr'.w = wr.w
    BY <1>10 DEF Clock, wr_nxt, w_nxt
  <1> QED
    BY <1>1, <1>2, <1>4, <1>6, <1>7, <1>8, <1>9, <1>11, <1>12

\* The payload RAM is read ahead of the write channel.
LEMMA ReadsAhead ==
    ASSUME IInv, state \in {"REPLACE", "FLUSH", "WRITEBACK"},
           NEW req, NEW hds \in SUBSET Offered, Clock(req, hds)
    PROVE  /\ s2i_wb_re(hds) => \A w \in Ways : rdat'[w] = payload[w][s2.a.set][refill_cnt]
           /\ ~s2i_wb_re(hds) => rdat' = rdat
  <1>1. s2i_payload_we = {}
    BY Zenon DEF s2i_payload_we, s2i_ready
  <1>2. s2.a \in Addr /\ refill_cnt \in Words
    BY InStage DEF IInv, Typed, Stages, Refills
  <1> DEFINE a == [s2.a EXCEPT !.word = refill_cnt]
  <1>3. a \in Addr /\ a.set = s2.a.set /\ a.word = refill_cnt /\ a # NoAddr
    BY <1>2, Addresses
  <1>4. ASSUME s2i_wb_re(hds)
        PROVE  \A w \in Ways : rdat'[w] = payload[w][s2.a.set][refill_cnt]
    <2>1. rdat' = [w \in Ways |-> IF w \in {} THEN Junk ELSE IF a = NoAddr THEN Junk ELSE payload[w][a.set][a.word]]
      BY <1>1, <1>4 DEF Clock, rdat_nxt
    <2> HIDE DEF a
    <2> QED
      BY <2>1, <1>3
  <1>5. ASSUME ~s2i_wb_re(hds)
        PROVE  rdat' = rdat
    <2>1. rdat' = [w \in Ways |-> rdat[w]]
      BY <1>1, <1>5 DEF Clock, rdat_nxt, p_ce
    <2> QED
      BY <2>1 DEF IInv, Typed
  <1> QED
    BY <1>4, <1>5

-----------------------------------------------------------------------------
\* Writing a cell of a RAM: f[a][b] := v.
LEMMA Cell ==
    ASSUME NEW A, NEW B, NEW V, NEW f \in [A -> [B -> V]], NEW a \in A, NEW b \in B, NEW v \in V
    PROVE  LET g == [f EXCEPT ![a][b] = v]
           IN  /\ g \in [A -> [B -> V]]
               /\ \A x \in A, y \in B : g[x][y] = IF x = a /\ y = b THEN v ELSE f[x][y]
  <1>1. [f[a] EXCEPT ![b] = v] \in [B -> V]
    OBVIOUS
  <1>2. [f EXCEPT ![a] = [f[a] EXCEPT ![b] = v]] \in [A -> [B -> V]]
    BY <1>1
  <1> QED
    BY <1>2

\* Writing a D flag.
LEMMA FlagCell ==
    ASSUME NEW f \in [Ways -> [Sets -> BOOLEAN]], NEW a \in Ways, NEW b \in Sets
    PROVE  /\ LET g == [f EXCEPT ![a][b] = FALSE]
              IN  /\ g \in [Ways -> [Sets -> BOOLEAN]]
                  /\ \A x \in Ways, y \in Sets : g[x][y] <=> ~(x = a /\ y = b) /\ f[x][y]
           /\ LET g == [f EXCEPT ![a][b] = TRUE]
              IN  /\ g \in [Ways -> [Sets -> BOOLEAN]]
                  /\ \A x \in Ways, y \in Sets : g[x][y] <=> (x = a /\ y = b) \/ f[x][y]
  <1>1. [f[a] EXCEPT ![b] = FALSE] \in [Sets -> BOOLEAN] /\ [f[a] EXCEPT ![b] = TRUE] \in [Sets -> BOOLEAN]
    OBVIOUS
  <1>2. /\ [f EXCEPT ![a] = [f[a] EXCEPT ![b] = FALSE]] \in [Ways -> [Sets -> BOOLEAN]]
        /\ [f EXCEPT ![a] = [f[a] EXCEPT ![b] = TRUE]] \in [Ways -> [Sets -> BOOLEAN]]
    BY <1>1
  <1> QED
    BY <1>2

\* Writing a word of a line: f[a][b][c] := v.
LEMMA WordCell ==
    ASSUME NEW A, NEW B, NEW C, NEW V, NEW f \in [A -> [B -> [C -> V]]],
           NEW a \in A, NEW b \in B, NEW c \in C, NEW v \in V
    PROVE  LET g == [f EXCEPT ![a][b][c] = v]
           IN  /\ g \in [A -> [B -> [C -> V]]]
               /\ \A x \in A, y \in B, z \in C : g[x][y][z] = IF x = a /\ y = b /\ z = c THEN v ELSE f[x][y][z]
  <1>1. [f[a][b] EXCEPT ![c] = v] \in [C -> V]
    OBVIOUS
  <1>2. [f[a] EXCEPT ![b] = [f[a][b] EXCEPT ![c] = v]] \in [B -> [C -> V]]
    BY <1>1
  <1>3. [f EXCEPT ![a] = [f[a] EXCEPT ![b] = [f[a][b] EXCEPT ![c] = v]]] \in [A -> [B -> [C -> V]]]
    BY <1>2
  <1> QED
    BY <1>3

\* The RAM of the lines keeps its type, and its words theirs.
LEMMA WordTyped ==
    ASSUME Typed, NEW w \in Ways, NEW s \in Sets, NEW k \in Words
    PROVE  /\ payload[w][s][k] \in Word
           /\ \A d \in Word : \A p : p = [payload EXCEPT ![w][s][k] = d] => p \in [Ways -> [Sets -> [Words -> Word]]]
  <1>1. payload \in [Ways -> [Sets -> [Words -> Word]]]
    BY Zenon DEF Typed
  <1>2. payload[w][s][k] \in Word
    BY <1>1
  <1>3. ASSUME NEW d \in Word
        PROVE  [payload EXCEPT ![w][s][k] = d] \in [Ways -> [Sets -> [Words -> Word]]]
    BY <1>1, WordCell
  <1> QED
    BY <1>2, <1>3, Zenon

\* The registers and the RAMs keep their types.
LEMMA TypedNext ==
    ASSUME IInv, NEW req \in Requests, NEW hds \in SUBSET Offered, Clock(req, hds)
    PROVE  Typed'
  <1>0. Typed /\ Bus /\ Stages
    BY DEF IInv
  <1>1. state' \in {"BOOT", "IDLE", "REPLACE", "WRITEBACK", "REFILL", "RELOAD_S1O_S2O", "INVALIDATE", "FLUSH",
                    "UNCACHED_BOOT", "UNCACHED_READ", "UNCACHED_WRITE"}
    <2>1. CASE state = "IDLE"
      BY <1>0, <2>1, Leaves
    <2>2. CASE state # "IDLE"
      BY <1>0, <2>2, Goes, Zenon DEF Typed
    <2> QED
      BY <2>1, <2>2
  <1>2. boot_cnt' \in Sets /\ free_way' \in Ways /\ refill_cnt' \in Words /\ wb_addr' \in Words
    BY <1>0, Counters DEF Clock, refill_cnt_nxt, Typed
  <1>3. /\ victim' \in Ways /\ match' \subseteq Ways
        /\ free_tag' \in Tags \cup {None} /\ free_dirty' \in BOOLEAN /\ s2o_d' \in [Ways -> BOOLEAN]
    <2>1. CASE state = "IDLE"
      <3>1. s1.a.set \in Sets
        BY <1>0, InStage
      <3> QED
        BY <1>0, <2>1, <3>1, Enters DEF Typed, s2i_hit_vec
    <2>2. CASE state # "IDLE"
      BY <1>0, <2>2, Still, Reloads, Zenon DEF Typed
    <2> QED
      BY <2>1, <2>2
  <1>4. s1' \in Access \cup {NoAccess} /\ s2' \in Access \cup {NoAccess}
    BY <1>0, Still, Enters, Zenon DEF Typed
  <1>5. tag_v' \in [Ways -> [Sets -> Tags \cup {None}]]
    <2>0. tag_v \in [Ways -> [Sets -> Tags \cup {None}]] /\ s2.a.set \in Sets /\ victim \in Ways
      BY <1>0, InStage, ZenonT(40) DEF Typed
    <2>1. CASE state = "INVALIDATE"
      <3>1. \A w \in Ways : [tag_v[w] EXCEPT ![s2.a.set] = None] \in [Sets -> Tags \cup {None}]
        BY <2>0
      <3> QED
        BY <2>1, <3>1, Invalidates
    <2>2. CASE state = "REPLACE"
      <3>1. s2.a.tag \in Tags \cup {None}
        BY <2>2, Replaces, Addresses
      <3>2. [tag_v EXCEPT ![victim][s2.a.set] = s2.a.tag] \in [Ways -> [Sets -> Tags \cup {None}]]
        BY <2>0, <3>1, Cell
      <3> QED
        BY <2>2, <3>2, Replaces
    <2>3. CASE state \notin {"INVALIDATE", "REPLACE"}
      BY <1>0, <2>3, Still, Boots, Zenon DEF Typed
    <2> QED
      BY <2>1, <2>2, <2>3, Zenon
  <1>6. dirty' \in [Ways -> [Sets -> BOOLEAN]]
    <2>0. dirty \in [Ways -> [Sets -> BOOLEAN]]
      BY <1>0, Zenon DEF Typed
    <2>a. s2.a.set \in Sets /\ victim \in Ways
      BY <1>0, InStage DEF Typed
    <2>b. ASSUME NEW w \in Ways, NEW s \in Sets
          PROVE  /\ [dirty EXCEPT ![w][s] = FALSE] \in [Ways -> [Sets -> BOOLEAN]]
                 /\ [dirty EXCEPT ![w][s] = TRUE] \in [Ways -> [Sets -> BOOLEAN]]
      BY <2>0, FlagCell, Zenon
    <2>c. /\ [dirty EXCEPT ![victim][s2.a.set] = FALSE] \in [Ways -> [Sets -> BOOLEAN]]
          /\ [dirty EXCEPT ![victim][s2.a.set] = TRUE] \in [Ways -> [Sets -> BOOLEAN]]
      BY <2>a, <2>b, Zenon
    <2>1. CASE state = "INVALIDATE"
      <3>1. \A w \in Ways : [dirty[w] EXCEPT ![s2.a.set] = FALSE] \in [Sets -> BOOLEAN]
        BY <2>0, Zenon
      <3> QED
        BY <2>1, <3>1, Invalidates, Zenon
    <2>2. CASE state = "REPLACE"
      BY <2>c, <2>2, Replaces, Zenon
    <2>3. CASE state = "RELOAD_S1O_S2O"
      BY <2>c, <2>3, Reloads, Zenon
    <2>4. CASE state = "IDLE" /\ s2i_ready
      <3>1. PICK u \in Ways : /\ s1.op = "store" => dirty' = [dirty EXCEPT ![u][s1.a.set] = TRUE]
                              /\ s1.op = "load" => dirty' = dirty
        BY <2>4, Hit, Zenon
      <3>2. s1.a.set \in Sets /\ s1.op \in {"load", "store"}
        BY <2>4, Hit, Addresses
      <3>3. [dirty EXCEPT ![u][s1.a.set] = TRUE] \in [Ways -> [Sets -> BOOLEAN]]
        BY <2>b, <3>2, Zenon
      <3>4. CASE s1.op = "store"
        BY <3>1, <3>3, <3>4, Zenon
      <3>5. CASE s1.op = "load"
        BY <2>0, <3>1, <3>5, Zenon
      <3> QED
        BY <3>2, <3>4, <3>5
    <2>5. CASE state \notin {"INVALIDATE", "REPLACE", "RELOAD_S1O_S2O"} /\ ~(state = "IDLE" /\ s2i_ready)
      BY <1>0, <2>0, <2>5, Still, Boots, Miss
    <2> QED
      BY <2>1, <2>2, <2>3, <2>4, <2>5
  <1>7. payload' \in [Ways -> [Sets -> [Words -> Word]]]
    <2>0. payload \in [Ways -> [Sets -> [Words -> Word]]]
      BY <1>0 DEF Typed
    <2>1. ASSUME NEW x \in Access, NEW d \in Word
          PROVE  stored(d, x) \in Word
      BY StoredFacts, Zenon DEF Word, stored
    <2>2. CASE state = "REFILL"
      <3>1. PICK d \in Word : payload' = [payload EXCEPT ![victim][s2.a.set][refill_cnt] = d]
        BY <2>2, ReadBeat, Zenon
      <3>2. s2.a.set \in Sets /\ victim \in Ways /\ refill_cnt \in Words
        BY <1>0, InStage DEF Typed
      <3> QED
        BY <1>0, <3>1, <3>2, WordTyped, Zenon
    <2>3. CASE state = "RELOAD_S1O_S2O"
      <3>1. s2 \in Access /\ s2.a.set \in Sets /\ s2.a.word \in Words /\ victim \in Ways
        BY <1>0, <2>3, Reloads, Addresses DEF Typed
      <3>2. stored(payload[victim][s2.a.set][s2.a.word], s2) \in Word
        BY <1>0, <2>1, <3>1, WordTyped, Zenon
      <3>3. [payload EXCEPT ![victim][s2.a.set][s2.a.word] = stored(payload[victim][s2.a.set][s2.a.word], s2)]
               \in [Ways -> [Sets -> [Words -> Word]]]
        BY <1>0, <3>1, <3>2, WordTyped, Zenon
      <3> QED
        BY <2>0, <2>3, <3>3, Reloads, Zenon
    <2>4. CASE state = "IDLE" /\ s2i_ready
      <3>1. s1 \in Access /\ s1.a.set \in Sets /\ s1.a.word \in Words
        BY <2>4, Hit, Addresses
      <3>2. \A u \in Ways : stored(payload[u][s1.a.set][s1.a.word], s1) \in Word
        BY <1>0, <2>1, <3>1, WordTyped, Zenon
      <3>3. \A u \in Ways :
               [payload EXCEPT ![u][s1.a.set][s1.a.word] = stored(payload[u][s1.a.set][s1.a.word], s1)]
                 \in [Ways -> [Sets -> [Words -> Word]]]
        BY <1>0, <3>1, <3>2, WordTyped, Zenon
      <3> QED
        BY <2>0, <2>4, <3>3, Hit, Zenon
    <2>5. CASE state \notin {"REFILL", "RELOAD_S1O_S2O"} /\ ~(state = "IDLE" /\ s2i_ready)
      BY <1>0, <2>0, <2>5, Still, Miss
    <2> QED
      BY <2>2, <2>3, <2>4, <2>5
  <1>8. rdat' \in [Ways -> Word]
    <2>1. Junk \in Word
      BY Zenon DEF Word
    <2>2. /\ payload \in [Ways -> [Sets -> [Words -> Word]]] /\ rdat \in [Ways -> Word] /\ refill_cnt \in Words
          /\ s1.a = NoAddr \/ s1.a \in Addr
          /\ s2.a = NoAddr \/ s2.a \in Addr
      BY <1>0, InStage DEF Typed
    <2>3. \A a \in Addr : a.set \in Sets /\ a.word \in Words
      BY Addresses
    <2>4. \A w \in Ways, a \in Addr : payload[w][a.set][a.word] \in Word
      BY <2>2, <2>3
    <2>5. CASE s2i_wb_re(hds)
      <3>1. state \in {"REPLACE", "FLUSH", "WRITEBACK"}
        BY <2>5 DEF s2i_wb_re, aw_set
      <3>2. \A w \in Ways : rdat'[w] = payload[w][s2.a.set][refill_cnt]
        BY <2>5, <3>1, ReadsAhead
      <3>3. rdat' = [w \in Ways |-> rdat'[w]]
        BY DEF Clock, rdat_nxt
      <3>4. s2.a.set \in Sets
        BY <1>0, InStage
      <3>5. \A w \in Ways : payload[w][s2.a.set][refill_cnt] \in Word
        BY <2>2, <3>4
      <3> QED
        BY <3>2, <3>3, <3>5
    <2>6. CASE ~s2i_wb_re(hds)
      <3> DEFINE a == IF state = "RELOAD_S1O_S2O" THEN s2.a ELSE s1.a
                 re == p_ce \/ state = "RELOAD_S1O_S2O"
      <3>1. rdat' = [w \in Ways |-> IF w \in s2i_payload_we THEN Junk
                                    ELSE IF re THEN IF a = NoAddr THEN Junk ELSE payload[w][a.set][a.word]
                                    ELSE rdat[w]]
        BY <2>6 DEF Clock, rdat_nxt
      <3>2. a = NoAddr \/ a \in Addr
        BY <2>2
      <3> HIDE DEF a, re
      <3> QED
        BY <2>1, <2>2, <2>4, <3>1, <3>2
    <2> QED
      BY <2>5, <2>6
  <1>9. rd' \in [ar : {"none", "valid", "taken"}, addr : Addr \cup {NoAddr}, beat : Nat, last : Nat]
    <2>1. rd \in [ar : {"none", "valid", "taken"}, addr : Addr \cup {NoAddr}, beat : Nat, last : Nat]
      BY <1>0 DEF Typed
    <2>2. WORDS - 1 \in Nat
      BY Counters
    <2>3. CASE ar_set(hds)
      <3>1. s2.a \in Addr
        BY <1>0, <2>3, InStage DEF ar_set, Stages, Refills, Uncached
      <3>2. axi_paddr_nxt \in Addr
        BY <2>3, <3>1, Addresses DEF axi_paddr_nxt, ar_set, aw_set
      <3>3. rd' = [ar |-> "valid", addr |-> axi_paddr_nxt, beat |-> 0, last |-> 0]
        BY <2>3 DEF Clock, rd_nxt
      <3> QED
        BY <3>2, <3>3
    <2>4. CASE ~ar_set(hds)
      <3>1. "AR" \in hds => "R" \notin hds
        BY <1>0, Handshakes
      <3>2. CASE "AR" \in hds
        <4>1. PICK n \in Nat : rd' = [rd EXCEPT !.ar = "taken", !.last = n]
          BY <2>2, <2>4, <3>1, <3>2, Zenon DEF Clock, rd_nxt
        <4> QED
          BY <2>1, <4>1, Zenon
      <3>3. CASE "AR" \notin hds
        <4>1. CASE "R" \in hds /\ rd.beat < rd.last
          <5>1. rd' = [rd EXCEPT !.beat = @ + 1]
            BY <2>1, <2>4, <3>3, <4>1 DEF Clock, rd_nxt
          <5> QED
            BY <2>1, <5>1
        <4>2. CASE "R" \in hds /\ rd.beat = rd.last
          <5>1. rd' = [ar |-> "none", addr |-> NoAddr, beat |-> 0, last |-> 0]
            BY <2>1, <2>4, <3>3, <4>2 DEF Clock, rd_nxt
          <5> QED
            BY <5>1
        <4>3. CASE ~("R" \in hds /\ (rd.beat < rd.last \/ rd.beat = rd.last))
          <5>1. rd' = rd
            BY <2>4, <3>3, <4>3 DEF Clock, rd_nxt
          <5> QED
            BY <2>1, <5>1
        <4> QED
          BY <4>1, <4>2, <4>3
      <3> QED
        BY <3>2, <3>3
    <2> QED
      BY <2>3, <2>4
  <1>10. mem' \in [Addr -> Datum]
    <2>0. mem \in [Addr -> Datum]
      BY <1>0 DEF Typed
    <2>1. CASE state = "WRITEBACK" /\ "W" \in hds
      <3>1. PICK A \in Addr, d \in Datum : mem' = [mem EXCEPT ![A] = d]
        BY <2>1, WriteBeat
      <3> QED
        BY <2>0, <3>1
    <2>2. CASE state = "WRITEBACK" /\ "W" \notin hds
      BY <2>0, <2>2 DEF Clock, mem_nxt
    <2>3. CASE state = "UNCACHED_WRITE"
      BY <2>0, <2>3, UncachedBeat
    <2>4. CASE state \notin {"WRITEBACK", "UNCACHED_WRITE"}
      BY <1>0, <2>0, <2>4, Still
    <2> QED
      BY <2>1, <2>2, <2>3, <2>4
  <1>11. golden' \in [Addr -> [Lanes -> 0 .. 1]]
    <2>0. golden \in Golden /\ mem \in [Addr -> Datum]
      BY <1>0, Zenon DEF Typed, Golden
    <2>1. CASE state = "IDLE"
      <3>1. s1.op = "store" => s1 \in Access
        BY <1>0, InStage, Zenon
      <3> QED
        BY <2>0, <2>1, <3>1, Enters, SeenFacts, Zenon DEF Golden
    <2>2. CASE state = "INVALIDATE"
      BY <2>0, <2>2, Invalidates DEF Golden, Datum
    <2>3. CASE state \notin {"IDLE", "INVALIDATE"}
      BY <1>0, <2>0, <2>3, Still DEF Golden
    <2> QED
      BY <2>1, <2>2, <2>3
  <1> QED
    BY <1>1, <1>2, <1>3, <1>4, <1>5, <1>6, <1>7, <1>8, <1>9, <1>10, <1>11 DEF Typed

\* The cells of the tag RAMs and the D flags after an edge that writes them.
LEMMA Cells ==
    ASSUME IInv, NEW req, NEW hds \in SUBSET Offered, Clock(req, hds), NEW w \in Ways, NEW s \in Sets
    PROVE  /\ state = "REPLACE" =>
                 /\ tag_v'[w][s] = IF w = victim /\ s = s2.a.set THEN s2.a.tag ELSE tag_v[w][s]
                 /\ dirty'[w][s] <=> ~(w = victim /\ s = s2.a.set) /\ dirty[w][s]
           /\ state = "INVALIDATE" =>
                 /\ tag_v'[w][s] = IF s = s2.a.set THEN None ELSE tag_v[w][s]
                 /\ dirty'[w][s] <=> s # s2.a.set /\ dirty[w][s]
           /\ state = "RELOAD_S1O_S2O" =>
                 /\ ~(w = victim /\ s = s2.a.set) => (dirty'[w][s] <=> dirty[w][s])
                 /\ s2.op = "store" /\ w = victim /\ s = s2.a.set => dirty'[w][s]
           /\ state = "IDLE" /\ s2i_ready =>
                 (dirty'[w][s] <=> dirty[w][s] \/ (s1.op = "store" /\ w \in s2i_hit_vec /\ s = s1.a.set))
  <1>0. /\ tag_v \in [Ways -> [Sets -> Tags \cup {None}]] /\ dirty \in [Ways -> [Sets -> BOOLEAN]]
        /\ s2.a.set \in Sets /\ victim \in Ways
    BY InStage DEF IInv, Typed
  <1>1. ASSUME state = "REPLACE"
        PROVE  /\ tag_v'[w][s] = IF w = victim /\ s = s2.a.set THEN s2.a.tag ELSE tag_v[w][s]
               /\ dirty'[w][s] <=> ~(w = victim /\ s = s2.a.set) /\ dirty[w][s]
    <2>1. s2.a.tag \in Tags \cup {None}
      BY <1>1, Replaces, Addresses
    <2> DEFINE g == [tag_v EXCEPT ![victim][s2.a.set] = s2.a.tag]
               d == [dirty EXCEPT ![victim][s2.a.set] = FALSE]
    <2>2. g[w][s] = IF w = victim /\ s = s2.a.set THEN s2.a.tag ELSE tag_v[w][s]
      BY <1>0, <2>1, Cell
    <2>3. d[w][s] <=> ~(w = victim /\ s = s2.a.set) /\ dirty[w][s]
      BY <1>0, FlagCell
    <2>4. tag_v' = g /\ dirty' = d
      BY <1>1, Replaces
    <2> HIDE DEF g, d
    <2> QED
      BY <2>2, <2>3, <2>4, Zenon
  <1>2. ASSUME state = "INVALIDATE"
        PROVE  /\ tag_v'[w][s] = IF s = s2.a.set THEN None ELSE tag_v[w][s]
               /\ dirty'[w][s] <=> s # s2.a.set /\ dirty[w][s]
    BY <1>0, <1>2, Invalidates
  <1>3. ASSUME state = "RELOAD_S1O_S2O"
        PROVE  /\ ~(w = victim /\ s = s2.a.set) => (dirty'[w][s] <=> dirty[w][s])
               /\ s2.op = "store" /\ w = victim /\ s = s2.a.set => dirty'[w][s]
    <2> DEFINE c == [dirty EXCEPT ![victim][s2.a.set] = TRUE]
               d == [dirty EXCEPT ![victim][s2.a.set] = FALSE]
    <2>1. c[w][s] <=> (w = victim /\ s = s2.a.set) \/ dirty[w][s]
      BY <1>0, FlagCell
    <2>2. d[w][s] <=> ~(w = victim /\ s = s2.a.set) /\ dirty[w][s]
      BY <1>0, FlagCell
    <2>3. /\ s2o_d[victim] \/ s2.op = "store" => dirty' = c
          /\ ~(s2o_d[victim] \/ s2.op = "store") => dirty' = d
      BY <1>3, Reloads, Zenon
    <2> HIDE DEF c, d
    <2> QED
      BY <2>1, <2>2, <2>3, Zenon
  <1>4. ASSUME state = "IDLE", s2i_ready
        PROVE  dirty'[w][s] <=> dirty[w][s] \/ (s1.op = "store" /\ w \in s2i_hit_vec /\ s = s1.a.set)
    <2>1. PICK u \in Ways : /\ s2i_hit_vec = {u}
                            /\ s1.op = "store" => dirty' = [dirty EXCEPT ![u][s1.a.set] = TRUE]
                            /\ s1.op = "load" => dirty' = dirty
      BY <1>4, Hit, Zenon
    <2>2. s1.a.set \in Sets /\ s1.op \in {"load", "store"}
      BY <1>4, Hit, Addresses
    <2> DEFINE c == [dirty EXCEPT ![u][s1.a.set] = TRUE]
    <2>3. c[w][s] <=> (w = u /\ s = s1.a.set) \/ dirty[w][s]
      BY <1>0, <2>2, FlagCell
    <2>4. s1.op = "store" => dirty' = c
      BY <2>1
    <2> HIDE DEF c
    <2>5. CASE s1.op = "store"
      <3>1. dirty'[w][s] <=> (w = u /\ s = s1.a.set) \/ dirty[w][s]
        BY <2>3, <2>4, <2>5, Zenon
      <3> QED
        BY <2>1, <2>5, <3>1
    <2>6. CASE s1.op = "load"
      BY <2>1, <2>6
    <2> QED
      BY <2>2, <2>5, <2>6
  <1> QED
    BY <1>1, <1>2, <1>3, <1>4, ZenonT(40)

\* The stages keep to the state of the FSM.
LEMMA StagesNext ==
    ASSUME IInv, NEW req \in Requests, NEW hds \in SUBSET Offered, Clock(req, hds)
    PROVE  Stages'
  <1>0. Typed /\ Bus /\ Stages
    BY DEF IInv
  <1>1. ASSUME Pending'
        PROVE  \A l \in s2'.msk : golden'[s2'.a][l] = s2'.ver
    <2>1. s2'.op = "store" /\ s2'.kind # "killed" /\ state' # "IDLE"
      BY <1>1 DEF Pending
    <2>2. CASE state = "IDLE"
      <3>1. s2' = s1 /\ golden' = Seen(golden, s1)
        BY <2>1, <2>2, Enters
      <3>2. s1 \in Access /\ golden \in Golden
        BY <1>0, <2>1, <3>1, InStage, Zenon DEF Typed, Golden
      <3> QED
        BY <3>1, <3>2, SeenFacts
    <2>3. CASE state # "IDLE"
      <3>1. s2' = s2 /\ state \notin {"IDLE", "INVALIDATE"}
        BY <1>0, <2>1, <2>3, Still, Goes, Zenon
      <3>2. golden' = golden
        BY <1>0, <3>1, Still
      <3>3. state = "UNCACHED_WRITE" => wr.w = "last"
        <4> SUFFICES ASSUME state = "UNCACHED_WRITE" PROVE wr.w = "last"
          OBVIOUS
        <4>1. state' = "UNCACHED_WRITE"
          BY <1>0, <2>1, Goes
        <4>2. wr'.w = "last"
          BY <1>1, <4>1 DEF Pending
        <4> QED
          BY <4>1, <4>2, UncachedBeat
      <3>4. Pending
        BY <2>1, <2>3, <3>1, <3>3, Zenon DEF Pending
      <3> QED
        BY <1>0, <3>1, <3>2, <3>4 DEF Stages
    <2> QED
      BY <2>2, <2>3
  <1>2. CASE state = "IDLE"
    <2>1. /\ s1' = req /\ s2' = s1 /\ tag_v' = tag_v
          /\ req # NoAccess => s1 = NoAccess
          /\ req.op \in {"load", "store"} /\ req.kind = "uncached" => Free(tag_v, req.a)
      BY <1>2, Enters, Zenon
    <2>2. NoAccess.op = "none"
      BY Accesses
    <2>3. s1 = NoAccess => state' = "IDLE"
      BY <1>0, <1>2, <2>2, Leaves, Zenon
    <2>4. s1'.op \in {"load", "store"} /\ s1'.kind = "uncached" => Free(tag_v', s1'.a)
      BY <2>1 DEF Free
    <2>5. state' \in {"IDLE", "INVALIDATE", "FLUSH", "UNCACHED_BOOT", "REPLACE"}
      BY <1>0, <1>2, Leaves
    <2>6. /\ state' = "REPLACE" => Refills'
          /\ state' = "FLUSH" => s2'.op = "fls"
          /\ state' = "INVALIDATE" => s2'.op = "inv"
          /\ state' = "UNCACHED_BOOT" => Uncached'
      BY <1>0, <1>2, <2>1, Leaves DEF Refills, Uncached
    <2> QED
      BY <1>1, <2>1, <2>3, <2>4, <2>5, <2>6, Zenon DEF Stages
  <1>3. CASE state # "IDLE"
    <2>1. s1' = s1 /\ s1 = NoAccess /\ s2' = s2 /\ s1.op = "none"
      BY <1>0, <1>3, Still, Accesses, Zenon DEF Stages
    <2>2. CASE state = "UNCACHED_BOOT"
      <3>1. s2.op \in {"load", "store"} /\ s2.kind = "uncached" /\ (s2.msk # {} <=> s2.op = "store")
        BY <1>0, <2>2, InStage, Zenon DEF Stages, Uncached
      <3>2. state' = IF s2.op = "store" THEN "UNCACHED_WRITE" ELSE "UNCACHED_READ"
        BY <1>0, <2>2, <3>1, Goes
      <3> QED
        BY <1>1, <2>1, <3>1, <3>2 DEF Stages, Uncached
    <2>3. CASE state # "UNCACHED_BOOT"
      <3>1. /\ state' = "BOOT" => state = "BOOT"
            /\ state' \notin {"REPLACE", "INVALIDATE", "FLUSH", "UNCACHED_BOOT"}
            /\ state' = "REFILL" => state \in {"REPLACE", "REFILL"} \/ (state = "WRITEBACK" /\ s2.op # "fls")
            /\ state' = "RELOAD_S1O_S2O" => state = "REFILL"
            /\ state' = "WRITEBACK" => state \in {"REPLACE", "FLUSH", "WRITEBACK"}
            /\ state' = "UNCACHED_READ" => state = "UNCACHED_READ"
            /\ state' = "UNCACHED_WRITE" => state = "UNCACHED_WRITE"
        BY <1>0, <1>3, <2>3, Goes DEF Typed
      <3> QED
        BY <1>0, <1>1, <2>1, <3>1, Zenon DEF Stages, Refills, Uncached
    <2> QED
      BY <2>2, <2>3, Zenon
  <1> QED
    BY <1>2, <1>3

\* A way that holds a line is the only one that does.
LEMMA OneWay ==
    ASSUME Unique, NEW w \in Ways, NEW s \in Sets, tag_v[w][s] # None
    PROVE  \A v \in Ways : tag_v[v][s] = tag_v[w][s] => v = w
  BY DEF Unique

\* No line comes to be in two ways.
LEMMA UniqueNext ==
    ASSUME IInv, NEW req \in Requests, NEW hds \in SUBSET Offered, Clock(req, hds)
    PROVE  Unique'
  <1>0. Typed /\ Bus /\ Stages /\ Unique
    BY Zenon DEF IInv
  <1>1. CASE state = "REPLACE"
    <2>1. Free(tag_v, s2.a) /\ s2.a.tag # None
      BY <1>1, Replaces, Addresses DEF IInv, Tagged
    <2>2. \A w \in Ways, s \in Sets :
             /\ tag_v'[w][s] = IF w = victim /\ s = s2.a.set THEN s2.a.tag ELSE tag_v[w][s]
             /\ dirty'[w][s] <=> ~(w = victim /\ s = s2.a.set) /\ dirty[w][s]
      BY <1>1, Cells, Zenon
    <2>3. ASSUME NEW w \in Ways, NEW v \in Ways, NEW s \in Sets, tag_v'[w][s] = tag_v'[v][s], tag_v'[w][s] # None
          PROVE  w = v
      <3>1. /\ tag_v'[w][s] = IF w = victim /\ s = s2.a.set THEN s2.a.tag ELSE tag_v[w][s]
            /\ tag_v'[v][s] = IF v = victim /\ s = s2.a.set THEN s2.a.tag ELSE tag_v[v][s]
        BY <2>2, Zenon
      <3>2. s = s2.a.set => tag_v[w][s] # s2.a.tag /\ tag_v[v][s] # s2.a.tag
        BY <2>1, Zenon DEF Free
      <3>3. tag_v[w][s] = tag_v[v][s] /\ tag_v[w][s] # None => w = v
        BY <1>0, Zenon DEF Unique
      <3> QED
        BY <2>3, <3>1, <3>2, <3>3, Zenon
    <2>4. ASSUME NEW w \in Ways, NEW s \in Sets, dirty'[w][s]
          PROVE  tag_v'[w][s] # None
      <3>1. ~(w = victim /\ s = s2.a.set) /\ dirty[w][s]
        BY <2>2, <2>4, Zenon
      <3>2. tag_v'[w][s] = tag_v[w][s]
        BY <2>2, <3>1, ZenonT(40)
      <3> QED
        BY <1>0, <3>1, <3>2, Zenon DEF Unique
    <2> QED
      BY <2>3, <2>4, Zenon DEF Unique
  <1>2. CASE state = "INVALIDATE"
    <2>1. \A w \in Ways, s \in Sets :
             /\ tag_v'[w][s] = IF s = s2.a.set THEN None ELSE tag_v[w][s]
             /\ dirty'[w][s] <=> s # s2.a.set /\ dirty[w][s]
      BY <1>2, Cells, Zenon
    <2>2. \A w \in Ways, s \in Sets : tag_v'[w][s] # None => s # s2.a.set /\ tag_v'[w][s] = tag_v[w][s]
      BY <2>1, Zenon
    <2>3. ASSUME NEW w \in Ways, NEW v \in Ways, NEW s \in Sets, tag_v'[w][s] = tag_v'[v][s], tag_v'[w][s] # None
          PROVE  w = v
      <3>1. tag_v'[w][s] = tag_v[w][s] /\ tag_v'[v][s] = tag_v[v][s]
        BY <2>2, <2>3, Zenon
      <3>2. tag_v[w][s] = tag_v[v][s] /\ tag_v[w][s] # None
        BY <2>3, <3>1, Zenon
      <3> QED
        BY <1>0, <3>2, Zenon DEF Unique
    <2>4. ASSUME NEW w \in Ways, NEW s \in Sets, dirty'[w][s]
          PROVE  tag_v'[w][s] # None
      <3>1. s # s2.a.set /\ dirty[w][s]
        BY <2>1, <2>4, Zenon
      <3>2. tag_v'[w][s] = tag_v[w][s]
        BY <2>1, <3>1, Zenon
      <3> QED
        BY <1>0, <3>1, <3>2, Zenon DEF Unique
    <2> QED
      BY <2>3, <2>4, Zenon DEF Unique
  <1>3. CASE state = "RELOAD_S1O_S2O"
    <2>1. tag_v' = tag_v
      BY <1>0, <1>3, Still
    <2>2. tag_v[victim][s2.a.set] # None
      BY <1>3, Reloads, Addresses DEF IInv, Tagged
    <2>3. \A w \in Ways, s \in Sets : ~(w = victim /\ s = s2.a.set) => (dirty'[w][s] <=> dirty[w][s])
      BY <1>3, Cells, Zenon
    <2>4. ASSUME NEW w \in Ways, NEW v \in Ways, NEW s \in Sets, tag_v'[w][s] = tag_v'[v][s], tag_v'[w][s] # None
          PROVE  w = v
      BY <1>0, <2>1, <2>4, Zenon DEF Unique
    <2>5. ASSUME NEW w \in Ways, NEW s \in Sets, dirty'[w][s]
          PROVE  tag_v'[w][s] # None
      <3>1. CASE w = victim /\ s = s2.a.set
        BY <2>1, <2>2, <3>1, Zenon
      <3>2. CASE ~(w = victim /\ s = s2.a.set)
        <4>1. dirty[w][s]
          BY <2>3, <2>5, <3>2, Zenon
        <4> QED
          BY <1>0, <2>1, <4>1, Zenon DEF Unique
      <3> QED
        BY <3>1, <3>2, Zenon
    <2> QED
      BY <2>4, <2>5, Zenon DEF Unique
  <1>4. CASE state = "IDLE" /\ s2i_ready
    <2>1. tag_v' = tag_v
      BY <1>0, <1>4, Still
    <2>2. \A w \in s2i_hit_vec : tag_v[w][s1.a.set] # None
      BY <1>4, Hit, Addresses DEF s2i_hit_vec
    <2>3. \A w \in Ways, s \in Sets :
             dirty'[w][s] <=> dirty[w][s] \/ (s1.op = "store" /\ w \in s2i_hit_vec /\ s = s1.a.set)
      BY <1>4, Cells, Zenon
    <2>4. ASSUME NEW w \in Ways, NEW v \in Ways, NEW s \in Sets, tag_v'[w][s] = tag_v'[v][s], tag_v'[w][s] # None
          PROVE  w = v
      BY <1>0, <2>1, <2>4, Zenon DEF Unique
    <2>5. ASSUME NEW w \in Ways, NEW s \in Sets, dirty'[w][s]
          PROVE  tag_v'[w][s] # None
      <3>1. CASE dirty[w][s]
        BY <1>0, <2>1, <3>1, Zenon DEF Unique
      <3>2. CASE w \in s2i_hit_vec /\ s = s1.a.set
        BY <2>1, <2>2, <3>2, Zenon
      <3> QED
        BY <2>3, <2>5, <3>1, <3>2, Zenon
    <2> QED
      BY <2>4, <2>5, Zenon DEF Unique
  <1>5. CASE state \notin {"REPLACE", "INVALIDATE", "RELOAD_S1O_S2O"} /\ ~(state = "IDLE" /\ s2i_ready)
    <2>1. tag_v' = tag_v /\ dirty' = dirty
      BY <1>0, <1>5, Still, Boots, Miss
    <2>2. ASSUME NEW w \in Ways, NEW v \in Ways, NEW s \in Sets, tag_v'[w][s] = tag_v'[v][s], tag_v'[w][s] # None
          PROVE  w = v
      BY <1>0, <2>1, <2>2, Zenon DEF Unique
    <2>3. ASSUME NEW w \in Ways, NEW s \in Sets, dirty'[w][s]
          PROVE  tag_v'[w][s] # None
      BY <1>0, <2>1, <2>3, Zenon DEF Unique
    <2> QED
      BY <2>2, <2>3, Zenon DEF Unique
  <1> QED
    BY <1>1, <1>2, <1>3, <1>4, <1>5

\* The line that makes room, when it is to be written back.
LEMMA Evicted ==
    ASSUME IInv, state = "REPLACE", NEW req, NEW hds \in SUBSET Offered, Clock(req, hds), free_dirty
    PROVE  /\ free_tag \in Tags /\ free_tag = tag_v[victim][s2.a.set] /\ dirty[victim][s2.a.set]
           /\ wr'.addr = [tag |-> free_tag, set |-> s2.a.set, word |-> 0]
           /\ wr'.addr \in Addr /\ wr'.addr.tag = free_tag /\ wr'.addr.set = s2.a.set /\ wr'.addr.word = 0
  <1>1. free_tag = tag_v[victim][s2.a.set] /\ dirty[victim][s2.a.set]
    BY ZenonT(40) DEF IInv, Tagged
  <1>2. victim \in Ways /\ s2.a.set \in Sets /\ free_tag \in Tags \cup {None}
    BY InStage, ZenonT(40) DEF IInv, Typed
  <1>3. free_tag \in Tags
    BY <1>1, <1>2, ZenonT(40) DEF IInv, Unique
  <1>4. aw_set
    BY DEF aw_set
  <1>5. axi_paddr_nxt = [tag |-> free_tag, set |-> s2.a.set, word |-> 0]
    BY <1>4 DEF axi_paddr_nxt
  <1>6. wr'.addr = [tag |-> free_tag, set |-> s2.a.set, word |-> 0]
    BY <1>4, <1>5, BusStarts, Zenon
  <1> QED
    BY <1>1, <1>2, <1>3, <1>6, Addresses, Counters

\* While a line is written back its address stays.
LEMMA WritesOn ==
    ASSUME IInv, state = "WRITEBACK", NEW req, NEW hds \in SUBSET Offered, Clock(req, hds), state' = "WRITEBACK"
    PROVE  wr'.addr = wr.addr /\ "B" \notin hds
  <1>1. "B" \notin hds
    BY Goes DEF IInv
  <1>2. ~aw_set
    BY DEF aw_set
  <1> QED
    BY <1>1, <1>2 DEF Clock, wr_nxt

\* The line of the access in hand is where the FSM takes it to be.
LEMMA TaggedNext ==
    ASSUME IInv, NEW req \in Requests, NEW hds \in SUBSET Offered, Clock(req, hds)
    PROVE  Tagged'
  <1>0. Typed /\ Bus /\ Stages /\ Unique /\ Tagged
    BY DEF IInv
  <1>1. CASE state = "IDLE"
    <2>1. /\ s2' = s1 /\ victim' = free_way /\ match' = s2i_hit_vec /\ tag_v' = tag_v
          /\ s2o_d' = [w \in Ways |-> dirty[w][s1.a.set]]
          /\ free_dirty' = dirty[free_way][s1.a.set] /\ free_tag' = tag_v[free_way][s1.a.set]
      BY <1>1, Enters
    <2>2. state' \in {"IDLE", "INVALIDATE", "FLUSH", "UNCACHED_BOOT", "REPLACE"}
      BY <1>0, <1>1, Leaves, Zenon
    <2>3. CASE state' \in {"IDLE", "INVALIDATE"}
      BY <2>3, Zenon DEF Tagged, Evicts, Flushes
    <2>4. CASE state' = "FLUSH"
      <3>1. s1.op = "fls" /\ s2i_hit_vec # {}
        BY <1>0, <1>1, <2>4, Leaves
      <3>2. ~s2i_ready
        BY <3>1 DEF s2i_ready
      <3>3. dirty' = dirty
        BY <1>1, <3>2, Miss
      <3>4. match' = {w \in Ways : tag_v'[w][s2'.a.set] = s2'.a.tag} /\ match' # {}
        BY <2>1, <3>1 DEF s2i_hit_vec
      <3>5. \A w \in Ways : s2o_d'[w] = dirty'[w][s2'.a.set]
        BY <2>1, <3>3, Zenon
      <3> QED
        BY <2>4, <3>4, <3>5 DEF Tagged, Evicts, Flushes
    <2>5. CASE state' = "UNCACHED_BOOT"
      <3>1. Free(tag_v, s1.a)
        BY <1>0, <1>1, <2>5, Leaves DEF Stages
      <3>2. Free(tag_v', s2'.a)
        BY <2>1, <3>1, Zenon
      <3> QED
        BY <2>5, <3>2 DEF Tagged, Evicts, Flushes
    <2>6. CASE state' = "REPLACE"
      <3>1. s1.op \in {"load", "store"} /\ s2i_hit_vec = {}
        BY <1>0, <1>1, <2>6, Leaves
      <3>2. ~s2i_ready
        BY <3>1, Zenon DEF s2i_ready
      <3>3. dirty' = dirty
        BY <1>1, <3>2, Miss
      <3>4. Free(tag_v', s2'.a)
        BY <2>1, <3>1 DEF s2i_hit_vec, Free
      <3>5. free_tag' = tag_v'[victim'][s2'.a.set] /\ free_dirty' = dirty'[victim'][s2'.a.set]
        BY <2>1, <3>3, Zenon
      <3> QED
        BY <2>6, <3>4, <3>5 DEF Tagged, Evicts, Flushes
    <2> QED
      BY <2>2, <2>3, <2>4, <2>5, <2>6, Zenon
  <1>2. CASE state \in {"INVALIDATE", "RELOAD_S1O_S2O"}
    <2>1. state' = "IDLE"
      BY <1>0, <1>2, Goes
    <2> QED
      BY <2>1, Zenon DEF Tagged, Evicts, Flushes
  <1>3. CASE state = "BOOT"
    <2>1. state' \in {"IDLE", "BOOT"} /\ tag_v' = tag_v
      BY <1>0, <1>3, Goes, Boots, Zenon
    <2> QED
      BY <1>0, <1>3, <2>1, Zenon DEF Tagged, Evicts, Flushes
  <1>4. CASE state = "REPLACE"
    <2>1. s2' = s2 /\ victim' = victim /\ s2.op \in {"load", "store"} /\ s2.a \in Addr
      BY <1>0, <1>4, Still, Replaces
    <2>2. victim \in Ways /\ s2.a.set \in Sets /\ s2.a.tag # None
      BY <1>0, <2>1, Addresses DEF Typed
    <2>3. state' = IF free_dirty THEN "WRITEBACK" ELSE "REFILL"
      BY <1>0, <1>4, Goes
    <2>4. tag_v'[victim][s2.a.set] = s2.a.tag /\ ~dirty'[victim][s2.a.set]
      BY <1>4, <2>2, Cells, Zenon
    <2>5. ASSUME free_dirty
          PROVE  wr'.addr \in Addr /\ wr'.addr.set = s2.a.set /\ wr'.addr.word = 0 /\ Free(tag_v', wr'.addr)
      <3>1. /\ wr'.addr \in Addr /\ wr'.addr.tag = free_tag /\ wr'.addr.set = s2.a.set /\ wr'.addr.word = 0
            /\ free_tag = tag_v[victim][s2.a.set] /\ free_tag \in Tags
        BY <1>4, <2>5, Evicted, Zenon
      <3>2. ASSUME NEW w \in Ways
            PROVE  tag_v'[w][s2.a.set] # free_tag
        <4>1. tag_v'[w][s2.a.set] = IF w = victim THEN s2.a.tag ELSE tag_v[w][s2.a.set]
          <5>1. tag_v'[w][s2.a.set] = IF w = victim /\ s2.a.set = s2.a.set THEN s2.a.tag ELSE tag_v[w][s2.a.set]
            BY <1>4, <2>2, Cells, Zenon
          <5> QED
            BY <5>1, Zenon
        <4>2. s2.a.tag # free_tag
          BY <1>0, <1>4, <2>2, <3>1 DEF Tagged, Free
        <4>3. free_tag # None
          BY <3>1, Parameters DEF None
        <4> QED
          BY <1>0, <2>2, <3>1, <4>1, <4>2, <4>3 DEF Unique
      <3> QED
        BY <3>1, <3>2, Zenon DEF Free
    <2> QED
      BY <2>1, <2>3, <2>4, <2>5, Zenon DEF Tagged, Evicts, Flushes
  <1>5. CASE state = "FLUSH"
    <2>1. s2' = s2 /\ match' = match /\ tag_v' = tag_v /\ s2.op = "fls"
      BY <1>0, <1>5, Still, Zenon DEF Stages
    <2>2. state' = IF match_dirty THEN "WRITEBACK" ELSE "IDLE"
      BY <1>0, <1>5, Goes, Zenon
    <2>3. CASE ~match_dirty
      BY <2>2, <2>3, Zenon DEF Tagged, Evicts, Flushes
    <2>4. CASE match_dirty
      <3>1. aw_set /\ axi_paddr_nxt = line(s2.a)
        BY <1>5, <2>4 DEF aw_set, axi_paddr_nxt
      <3>2. wr'.addr = line(s2.a)
        BY <1>5, <3>1, BusStarts
      <3>3. s2.a.set \in Sets /\ s2.a.tag # None
        BY <1>0, <2>1, InStage, Addresses, Zenon
      <3>4. \E w \in Ways : match = {w} /\ tag_v[w][s2.a.set] = s2.a.tag
        <4>1. match = {w \in Ways : tag_v[w][s2.a.set] = s2.a.tag} /\ match # {}
          BY <1>0, <1>5, Zenon DEF Tagged
        <4>2. PICK w \in Ways : tag_v[w][s2.a.set] = s2.a.tag
          BY <4>1
        <4>3. \A v \in Ways : tag_v[v][s2.a.set] = s2.a.tag => v = w
          <5>1. Unique /\ tag_v[w][s2.a.set] # None
            BY <1>0, <3>3, <4>2, Zenon
          <5> QED
            BY <3>3, <4>2, <5>1, OneWay, Zenon
        <4> QED
          BY <4>1, <4>2, <4>3
      <3>5. wr'.addr = line(s2'.a) /\ \E w \in Ways : match' = {w} /\ tag_v'[w][s2'.a.set] = s2'.a.tag
        BY <2>1, <3>2, <3>4, Zenon
      <3> QED
        BY <2>1, <2>2, <2>4, <3>5 DEF Tagged, Evicts, Flushes
    <2> QED
      BY <2>3, <2>4
  <1>6. CASE state = "WRITEBACK"
    <2>1. s2' = s2 /\ match' = match /\ tag_v' = tag_v /\ dirty' = dirty /\ victim' = victim
      BY <1>0, <1>6, Still
    <2>2. state' = IF "B" \notin hds THEN "WRITEBACK" ELSE IF s2.op = "fls" THEN "IDLE" ELSE "REFILL"
      BY <1>0, <1>6, Goes
    <2>3. state' = "WRITEBACK" => wr'.addr = wr.addr
      BY <1>6, WritesOn
    <2>4. line(s2'.a) = line(s2.a)
      BY <2>1, Zenon
    <2>5. CASE state' = "IDLE"
      BY <2>5, Zenon DEF Tagged, Evicts, Flushes
    <2>6. CASE state' = "REFILL"
      BY <1>0, <1>6, <2>1, <2>2, <2>6, Zenon DEF Tagged, Evicts, Flushes
    <2>7. CASE state' = "WRITEBACK" /\ s2.op = "fls"
      BY <1>0, <1>6, <2>1, <2>3, <2>4, <2>7, Zenon DEF Tagged, Evicts, Flushes
    <2>8. CASE state' = "WRITEBACK" /\ s2.op # "fls"
      BY <1>0, <1>6, <2>1, <2>3, <2>8, ZenonT(40) DEF Tagged, Evicts, Flushes, Free
    <2> QED
      BY <2>2, <2>5, <2>6, <2>7, <2>8
  <1>7. CASE state = "REFILL"
    <2>1. s2' = s2 /\ tag_v' = tag_v /\ dirty' = dirty /\ victim' = victim
      BY <1>0, <1>7, Still
    <2>2. state' \in {"REFILL", "RELOAD_S1O_S2O"}
      BY <1>0, <1>7, Goes, Zenon
    <2> QED
      BY <1>0, <1>7, <2>1, <2>2 DEF Tagged, Evicts, Flushes
  <1>8. CASE state \in {"UNCACHED_BOOT", "UNCACHED_READ", "UNCACHED_WRITE"}
    <2>1. s2' = s2 /\ tag_v' = tag_v
      BY <1>0, <1>8, Still
    <2>2. state' \in {"IDLE", "UNCACHED_READ", "UNCACHED_WRITE"}
      BY <1>0, <1>8, Goes, Zenon
    <2>3. Free(tag_v', s2'.a)
      BY <1>0, <1>8, <2>1 DEF Tagged
    <2> QED
      BY <2>2, <2>3 DEF Tagged, Evicts, Flushes
  <1> QED
    BY <1>0, <1>1, <1>2, <1>3, <1>4, <1>5, <1>6, <1>7, <1>8 DEF Typed

\* Memory keeps its words where they belong.
LEMMA PlacedNext ==
    ASSUME IInv, NEW req \in Requests, NEW hds \in SUBSET Offered, Clock(req, hds)
    PROVE  Placed'
  <1>0. Typed /\ Bus /\ Placed /\ mem \in [Addr -> Datum]
    BY DEF IInv, Typed
  <1>1. CASE state = "WRITEBACK" /\ "W" \in hds
    <2>1. PICK A \in Addr, d \in Datum : mem' = [mem EXCEPT ![A] = d] /\ Right(d, A)
      BY <1>1, WriteBeat
    <2>2. d.at = A
      BY <2>1 DEF Right, Fits
    <2> QED
      BY <1>0, <2>1, <2>2 DEF Placed
  <1>2. CASE state = "WRITEBACK" /\ "W" \notin hds
    <2>1. mem' = mem
      BY <1>2 DEF Clock, mem_nxt
    <2> QED
      BY <1>0, <2>1 DEF Placed
  <1>3. CASE state = "UNCACHED_WRITE"
    BY <1>0, <1>3, UncachedBeat DEF Placed
  <1>4. CASE state \notin {"WRITEBACK", "UNCACHED_WRITE"}
    <2>1. mem' = mem
      BY <1>0, <1>4, Still
    <2> QED
      BY <1>0, <2>1 DEF Placed
  <1> QED
    BY <1>1, <1>2, <1>3, <1>4

-----------------------------------------------------------------------------
\* The store that is still to be made, after an edge.
LEMMA PendingNext ==
    ASSUME IInv, NEW req \in Requests, NEW hds \in SUBSET Offered, Clock(req, hds)
    PROVE  /\ state = "IDLE" =>
                 /\ pending = NoAccess
                 /\ pending' = IF s1.op = "store" /\ s1.kind # "killed" /\ state' # "IDLE" THEN s1 ELSE NoAccess
           /\ state \notin {"IDLE", "RELOAD_S1O_S2O", "UNCACHED_WRITE"} => pending' = pending
           /\ state = "RELOAD_S1O_S2O" =>
                 pending' = NoAccess /\ pending = IF s2.op = "store" THEN s2 ELSE NoAccess
           /\ state = "UNCACHED_WRITE" /\ "W" \in hds => pending' = NoAccess /\ pending = s2
           /\ state = "UNCACHED_WRITE" /\ "W" \notin hds => pending' = pending
           /\ s2.op # "store" => pending = NoAccess
  <1>0. Typed /\ Bus /\ Stages
    BY DEF IInv
  <1>1. state' = "IDLE" => pending' = NoAccess
    BY DEF pending, Pending
  <1>2. s2.op # "store" => pending = NoAccess
    BY DEF pending, Pending
  <1>3. ASSUME state = "IDLE"
        PROVE  /\ pending = NoAccess
               /\ pending' = IF s1.op = "store" /\ s1.kind # "killed" /\ state' # "IDLE" THEN s1 ELSE NoAccess
    <2>1. pending = NoAccess
      BY <1>3, Zenon DEF pending, Pending
    <2>2. s2' = s1 /\ state' # "UNCACHED_WRITE"
      BY <1>0, <1>3, Enters, Leaves
    <2> QED
      BY <2>1, <2>2 DEF pending, Pending
  <1>4. ASSUME state \notin {"IDLE", "RELOAD_S1O_S2O", "UNCACHED_WRITE"}
        PROVE  pending' = pending
    <2>1. s2' = s2
      BY <1>0, <1>4, Still
    <2>2. CASE state' = "IDLE"
      <3>1. state \in {"BOOT", "WRITEBACK", "INVALIDATE", "FLUSH", "UNCACHED_READ"}
        BY <1>0, <1>4, <2>2, Goes, Zenon DEF Typed
      <3>2. state = "WRITEBACK" => s2.op = "fls"
        BY <1>0, <2>2, Goes
      <3>3. s2.op # "store"
        BY <1>0, <3>1, <3>2, Accesses, Zenon DEF Stages
      <3> QED
        BY <1>1, <1>2, <2>2, <3>3
    <2>3. CASE state' # "IDLE"
      <3>1. state' = "UNCACHED_WRITE" => state = "UNCACHED_BOOT"
        BY <1>0, <1>4, Goes, Zenon DEF Typed
      <3>2. state' = "UNCACHED_WRITE" => wr'.w = "last"
        BY <3>1, BusStarts
      <3> QED
        BY <1>4, <2>1, <2>3, <3>2 DEF pending, Pending
    <2> QED
      BY <2>2, <2>3
  <1>5. ASSUME state = "RELOAD_S1O_S2O"
        PROVE  pending' = NoAccess /\ pending = IF s2.op = "store" THEN s2 ELSE NoAccess
    <2>1. state' = "IDLE" /\ s2.kind = "cached"
      BY <1>0, <1>5, Goes, Zenon DEF Stages, Refills
    <2> QED
      BY <1>1, <1>5, <2>1 DEF pending, Pending
  <1>6. ASSUME state = "UNCACHED_WRITE"
        PROVE  /\ "W" \in hds => pending' = NoAccess /\ pending = s2
               /\ "W" \notin hds => pending' = pending
    <2>1. s2' = s2 /\ s2.op = "store" /\ s2.kind = "uncached" /\ state' \in {"IDLE", "UNCACHED_WRITE"}
      BY <1>0, <1>6, Still, Goes, UncachedBeat, Zenon
    <2>2. /\ "W" \in hds => wr.w = "last" /\ wr'.w = "taken"
          /\ "W" \notin hds /\ state' = "UNCACHED_WRITE" => wr'.w = wr.w
          /\ state' = "IDLE" => wr.w = "taken"
      BY <1>6, UncachedBeat
    <2> QED
      BY <1>1, <1>6, <2>1, <2>2, Zenon DEF pending, Pending
  <1> QED
    BY <1>2, <1>3, <1>4, <1>5, <1>6

\* An edge that changes neither the RAMs nor memory.
LEMMA RestingStill ==
    ASSUME IInv, NEW req \in Requests, NEW hds \in SUBSET Offered, Clock(req, hds),
           state \in {"BOOT", "FLUSH", "UNCACHED_BOOT", "UNCACHED_READ"}
    PROVE  Resting'
  <1>0. Typed /\ Bus /\ Stages /\ Resting
    BY DEF IInv
  <1>1. /\ tag_v' = tag_v /\ dirty' = dirty /\ payload' = payload /\ mem' = mem /\ golden' = golden
        /\ pending' = pending /\ s2' = s2
    BY <1>0, Still, Boots, PendingNext
  <1>2. \A a \in Addr : ~Moving(a)
    BY DEF Moving, Evicts
  <1> QED
    BY <1>0, <1>1, <1>2 DEF Resting, Coherent

\* A DCINV: what is in memory is what counts.
LEMMA RestingInvalidate ==
    ASSUME IInv, NEW req \in Requests, NEW hds \in SUBSET Offered, Clock(req, hds), state = "INVALIDATE"
    PROVE  Resting'
  <1>0. Typed /\ Bus /\ Stages /\ Resting /\ Placed /\ mem \in [Addr -> Datum] /\ golden \in Golden
    BY DEF IInv, Typed, Golden
  <1>1. /\ payload' = payload /\ mem' = mem /\ pending' = pending
        /\ golden' = [a \in Addr |-> IF a.set = s2.a.set THEN mem[a].ver ELSE golden[a]]
    BY <1>0, Still, PendingNext, Invalidates, Zenon
  <1>2. ASSUME NEW a \in Addr
        PROVE  Coherent(a)'
    <2>1. a.set \in Sets /\ a.tag # None /\ a.word \in Words
      BY Addresses
    <2>2. Coherent(a)
      BY <1>0, Zenon DEF Resting, Moving, Evicts
    <2>3. CASE a.set = s2.a.set
      <3>1. \A w \in Ways : tag_v'[w][a.set] # a.tag
        <4>1. \A w \in Ways : tag_v'[w][a.set] = IF a.set = s2.a.set THEN None ELSE tag_v[w][a.set]
          BY <2>1, Cells, Zenon
        <4> QED
          BY <2>1, <2>3, <4>1, Zenon
      <3>2. mem[a] \in Datum /\ mem[a].at = a /\ golden'[a] = mem[a].ver
        BY <1>0, <1>1, <2>3, Zenon DEF Placed
      <3>3. Fits(golden', pending', mem'[a], a)
        BY <1>1, <3>2 DEF Fits
      <3> QED
        BY <3>1, <3>3, Zenon DEF Coherent, Coh
    <2>4. CASE a.set # s2.a.set
      <3>1. golden'[a] = golden[a]
        BY <1>1, <2>4
      <3>2. \A d : Fits(golden, pending, d, a) => Fits(golden', pending', d, a)
        BY <1>1, <3>1, ZenonT(40) DEF Fits
      <3>3. \A w \in Ways : tag_v'[w][a.set] = tag_v[w][a.set] /\ (dirty'[w][a.set] <=> dirty[w][a.set])
        BY <2>1, <2>4, Cells, Zenon
      <3> QED
        BY <1>1, <2>2, <3>2, <3>3, Zenon DEF Coherent, Coh
    <2> QED
      BY <2>3, <2>4, Zenon
  <1> QED
    BY <1>2 DEF Resting

\* The first stage: a store is seen, and made if it hits.
LEMMA RestingIdle ==
    ASSUME IInv, NEW req \in Requests, NEW hds \in SUBSET Offered, Clock(req, hds), state = "IDLE"
    PROVE  Resting'
  <1>0. Typed /\ Bus /\ Stages /\ Resting /\ golden \in Golden
    BY DEF IInv, Typed, Golden
  <1>1. /\ tag_v' = tag_v /\ mem' = mem /\ pending = NoAccess
        /\ golden' = IF s1.op = "store" /\ s1.kind # "killed" THEN Seen(golden, s1) ELSE golden
        /\ pending' = IF s1.op = "store" /\ s1.kind # "killed" /\ state' # "IDLE" THEN s1 ELSE NoAccess
    BY Enters, PendingNext, ZenonT(40)
  <1>2. \A a \in Addr : Coherent(a)
    BY <1>0, Zenon DEF Resting, Moving, Evicts
  <1>3. CASE ~(s1.op = "store" /\ s1.kind # "killed")
    <2>1. s2i_ready => s1.op = "load"
      BY <1>3 DEF s2i_ready
    <2>2. payload' = payload /\ dirty' = dirty
      BY <2>1, Hit, Miss, Zenon
    <2> QED
      BY <1>1, <1>2, <1>3, <2>2 DEF Resting, Coherent
  <1>4. CASE s1.op = "store" /\ s1.kind # "killed"
    <2>1. s1 \in Access /\ s1.a \in Addr
      BY <1>0, <1>4, InStage
    <2>2. ASSUME NEW a \in Addr, NEW d, Fits(golden, NoAccess, d, a)
          PROVE  Fits(golden', s1, d, a)
      BY <1>0, <1>1, <1>4, <2>1, <2>2, FitsSeen
    <2>3. \A l \in s1.msk : golden'[s1.a][l] = s1.ver
      BY <1>0, <1>1, <1>4, <2>1, SeenFacts
    <2>4. CASE ~s2i_ready
      <3>1. payload' = payload /\ dirty' = dirty
        BY <2>4, Miss
      <3>2. state' # "IDLE"
        BY <1>0, <1>4, <2>4, Leaves DEF s2i_ready
      <3>3. pending' = s1
        BY <1>1, <1>4, <3>2
      <3>4. ASSUME NEW a \in Addr
            PROVE  Coherent(a)'
        <4>1. Coh(tag_v, dirty, payload, mem, golden, NoAccess, a)
          BY <1>1, <1>2, Zenon DEF Coherent
        <4>2. Coh(tag_v, dirty, payload, mem, golden', s1, a)
          BY <2>2, <4>1, Zenon DEF Coh
        <4> QED
          BY <1>1, <3>1, <3>3, <4>2 DEF Coherent
      <3> QED
        BY <3>4 DEF Resting
    <2>5. CASE s2i_ready
      <3>1. PICK u \in Ways :
               /\ s2i_hit_vec = {u} /\ tag_v[u][s1.a.set] = s1.a.tag
               /\ payload' = [payload EXCEPT ![u][s1.a.set][s1.a.word] = stored(payload[u][s1.a.set][s1.a.word], s1)]
        BY <1>4, <2>5, Hit
      <3>2. s1.a.set \in Sets /\ s1.a.word \in Words /\ s1.a.tag # None
        BY <2>1, Addresses
      <3>3. pending' = NoAccess
        BY <1>0, <1>1, <2>5, Leaves, ZenonT(40) DEF s2i_ready
      <3> DEFINE v == stored(payload[u][s1.a.set][s1.a.word], s1)
      <3>4. Fits(golden', NoAccess, v, s1.a)
        <4>1. Fits(golden, NoAccess, payload[u][s1.a.set][s1.a.word], s1.a)
          BY <1>1, <1>2, <2>1, <3>1 DEF Coherent, Coh
        <4>2. Fits(golden', s1, payload[u][s1.a.set][s1.a.word], s1.a)
          BY <2>1, <2>2, <4>1, Zenon
        <4> QED
          BY <2>1, <2>3, <4>2, FitsStored, Zenon
      <3>5. v \in Word
        BY <3>4, Zenon DEF Fits, Word
      <3> HIDE DEF v
      <3>6. payload' = [payload EXCEPT ![u][s1.a.set][s1.a.word] = v]
        BY <3>1 DEF v
      <3>7. payload \in [Ways -> [Sets -> [Words -> Word]]]
        BY <1>0, Zenon DEF Typed
      <3>8. \A w \in Ways, t \in Sets, k \in Words :
               payload'[w][t][k] = IF w = u /\ t = s1.a.set /\ k = s1.a.word THEN v ELSE payload[w][t][k]
        <4> DEFINE g == [payload EXCEPT ![u][s1.a.set][s1.a.word] = v]
        <4>1. \A w \in Ways, t \in Sets, k \in Words :
                 g[w][t][k] = IF w = u /\ t = s1.a.set /\ k = s1.a.word THEN v ELSE payload[w][t][k]
          BY <3>2, <3>7
        <4>2. payload' = g
          BY <3>6
        <4> HIDE DEF g
        <4> QED
          BY <4>1, <4>2, ZenonT(40)
      <3>9. \A w \in Ways, t \in Sets : dirty'[w][t] <=> dirty[w][t] \/ (w = u /\ t = s1.a.set)
        BY <1>4, <2>5, <3>1, Cells
      <3>10. \A w \in Ways : tag_v[w][s1.a.set] = s1.a.tag => w = u
        BY <1>0, <3>1, <3>2 DEF IInv, Unique
      <3>11. ASSUME NEW a \in Addr
             PROVE  Coherent(a)'
        <4>1. a.set \in Sets /\ a.word \in Words
          BY Addresses
        <4>2. Coh(tag_v, dirty, payload, mem, golden, NoAccess, a)
          BY <1>1, <1>2 DEF Coherent
        <4>3. CASE a = s1.a
          <5>1. \A w \in Ways : tag_v[w][a.set] = a.tag => payload'[w][a.set][a.word] = v
            BY <3>8, <3>10, <4>1, <4>3, Zenon
          <5>2. tag_v[u][a.set] = a.tag /\ dirty'[u][a.set]
            BY <3>1, <3>9, <4>1, <4>3
          <5>3. Coh(tag_v, dirty', payload', mem, golden', NoAccess, a)
            BY <3>4, <4>3, <5>1, <5>2, Zenon DEF Coh
          <5> QED
            BY <1>1, <3>3, <5>3 DEF Coherent
        <4>4. CASE a # s1.a
          <5>1. \A d : Fits(golden, NoAccess, d, a) => Fits(golden', NoAccess, d, a)
            BY <2>2, <4>4, FitsElsewhere, Zenon
          <5>2. \A w \in Ways : tag_v[w][a.set] = a.tag => payload'[w][a.set][a.word] = payload[w][a.set][a.word]
            BY <2>1, <3>1, <3>8, <4>1, <4>4, Addresses
          <5>3. \A w \in Ways : dirty[w][a.set] => dirty'[w][a.set]
            BY <3>9, <4>1, Zenon
          <5>4. Coh(tag_v, dirty', payload', mem, golden', NoAccess, a)
            BY <4>2, <5>1, <5>2, <5>3 DEF Coh
          <5> QED
            BY <1>1, <3>3, <5>4 DEF Coherent
        <4> QED
          BY <4>3, <4>4
      <3> QED
        BY <3>11 DEF Resting
    <2> QED
      BY <2>4, <2>5
  <1> QED
    BY <1>3, <1>4

\* A line that makes room leaves its words in memory, unless it is dirty.
LEMMA RestingReplace ==
    ASSUME IInv, NEW req \in Requests, NEW hds \in SUBSET Offered, Clock(req, hds), state = "REPLACE"
    PROVE  Resting'
  <1>0. Typed /\ Bus /\ Stages /\ Unique /\ Tagged /\ Resting
    BY Zenon DEF IInv
  <1>1. /\ payload' = payload /\ mem' = mem /\ golden' = golden /\ pending' = pending /\ s2' = s2
        /\ s2.a \in Addr /\ s2.op \in {"load", "store"} /\ victim \in Ways
    BY <1>0, Still, PendingNext, Replaces DEF Typed
  <1>2. s2.a.set \in Sets /\ s2.a.tag # None
    BY <1>1, Addresses
  <1>3. \A a \in Addr : Coherent(a)
    BY <1>0 DEF Resting, Moving, Evicts
  <1>4. /\ Free(tag_v, s2.a) /\ free_tag = tag_v[victim][s2.a.set] /\ free_dirty = dirty[victim][s2.a.set]
        /\ state' = IF free_dirty THEN "WRITEBACK" ELSE "REFILL"
    BY <1>0, Goes, Zenon DEF Tagged
  <1>5. ASSUME NEW a \in Addr, ~Moving(a)'
        PROVE  Coherent(a)'
    <2>1. a.set \in Sets /\ a.tag # None
      BY Addresses
    <2>2. ~SameLine(a, s2.a)
      BY <1>1, <1>4, <1>5, Zenon DEF Moving, Evicts
    <2>3. \A w \in Ways : tag_v'[w][a.set] = IF w = victim /\ a.set = s2.a.set THEN s2.a.tag ELSE tag_v[w][a.set]
      BY <2>1, Cells, Zenon
    <2>4. Coh(tag_v, dirty, payload, mem, golden, pending, a)
      BY <1>3 DEF Coherent
    <2>5. CASE a.set = s2.a.set /\ a.tag = free_tag
      <3>1. ~free_dirty
        <4> SUFFICES ASSUME free_dirty PROVE FALSE
          BY Zenon
        <4>1. wr'.addr.tag = free_tag /\ wr'.addr.set = s2.a.set
          BY Evicted, Zenon
        <4>2. SameLine(a, wr'.addr)
          BY <2>5, <4>1, Zenon DEF SameLine
        <4> QED
          BY <1>1, <1>4, <1>5, <4>2, Zenon DEF Moving, Evicts
      <3>2. \A w \in Ways : tag_v[w][a.set] = a.tag => w = victim
        <4>1. tag_v[victim][a.set] = a.tag /\ victim \in Ways
          BY <1>1, <1>4, <2>5, Zenon
        <4>2. Unique /\ tag_v[victim][a.set] # None
          BY <1>0, <2>1, <4>1, ZenonT(40)
        <4> QED
          BY <2>1, <4>1, <4>2, OneWay, ZenonT(40)
      <3>3. \A w \in Ways : tag_v[w][a.set] = a.tag => ~dirty[w][a.set]
        BY <1>4, <2>5, <3>1, <3>2, ZenonT(40)
      <3>4. Fits(golden, pending, mem[a], a)
        BY <2>4, <3>3, Zenon DEF Coh
      <3>5. \A w \in Ways : tag_v'[w][a.set] # a.tag
        BY <2>2, <2>3, <2>5, <3>2, Zenon DEF SameLine
      <3> QED
        BY <1>1, <3>4, <3>5, Zenon DEF Coherent, Coh
    <2>6. CASE ~(a.set = s2.a.set /\ a.tag = free_tag)
      <3>1. \A w \in Ways : tag_v'[w][a.set] = a.tag <=> tag_v[w][a.set] = a.tag
        BY <1>4, <2>2, <2>3, <2>6, Zenon DEF SameLine
      <3>2. \A w \in Ways : tag_v[w][a.set] = a.tag /\ dirty[w][a.set] => dirty'[w][a.set]
        <4>1. \A w \in Ways : dirty'[w][a.set] <=> ~(w = victim /\ a.set = s2.a.set) /\ dirty[w][a.set]
          BY <2>1, Cells, Zenon
        <4> QED
          BY <1>4, <2>6, <4>1, Zenon
      <3> QED
        BY <1>1, <2>4, <3>1, <3>2, Zenon DEF Coherent, Coh
    <2> QED
      BY <2>5, <2>6
  <1> QED
    BY <1>5 DEF Resting

\* The words of the payload RAM during and after a refill.
LEMMA RefillCells ==
    ASSUME IInv, NEW req, NEW hds \in SUBSET Offered, Clock(req, hds),
           NEW w \in Ways, NEW t \in Sets, NEW k \in Words
    PROVE  /\ state = "REFILL" =>
                 /\ ~(w = victim /\ t = s2.a.set /\ k = refill_cnt) => payload'[w][t][k] = payload[w][t][k]
                 /\ "R" \in hds /\ w = victim /\ t = s2.a.set /\ k = refill_cnt =>
                       payload'[w][t][k] = mem[[s2.a EXCEPT !.word = refill_cnt]]
           /\ state = "RELOAD_S1O_S2O" =>
                 payload'[w][t][k] = IF s2.op = "store" /\ w = victim /\ t = s2.a.set /\ k = s2.a.word
                                     THEN stored(payload[w][t][k], s2) ELSE payload[w][t][k]
  <1>0. payload \in [Ways -> [Sets -> [Words -> Word]]] /\ victim \in Ways /\ refill_cnt \in Words
    BY DEF IInv, Typed
  <1>1. ASSUME state = "REFILL"
        PROVE  /\ ~(w = victim /\ t = s2.a.set /\ k = refill_cnt) => payload'[w][t][k] = payload[w][t][k]
               /\ "R" \in hds /\ w = victim /\ t = s2.a.set /\ k = refill_cnt =>
                     payload'[w][t][k] = mem[[s2.a EXCEPT !.word = refill_cnt]]
    <2>1. PICK d : /\ payload' = [payload EXCEPT ![victim][s2.a.set][refill_cnt] = d]
                   /\ "R" \in hds => d = mem[[s2.a EXCEPT !.word = refill_cnt]]
      BY <1>1, ReadBeat, Zenon
    <2>2. s2.a.set \in Sets
      BY <1>1, ReadBeat, Addresses, Zenon
    <2>3. payload'[w][t][k] = IF w = victim /\ t = s2.a.set /\ k = refill_cnt THEN d ELSE payload[w][t][k]
      <3>1. \A i \in Ways, j \in Sets, r \in Words :
               [payload EXCEPT ![i][j][r] = d][w][t][k] = IF w = i /\ t = j /\ k = r THEN d ELSE payload[w][t][k]
        BY <1>0
      <3>2. [payload EXCEPT ![victim][s2.a.set][refill_cnt] = d][w][t][k]
               = IF w = victim /\ t = s2.a.set /\ k = refill_cnt THEN d ELSE payload[w][t][k]
        BY <1>0, <2>2, <3>1, Zenon
      <3> QED
        BY <2>1, <3>2, Zenon
    <2> QED
      BY <2>1, <2>3
  <1>2. ASSUME state = "RELOAD_S1O_S2O"
        PROVE  payload'[w][t][k] = IF s2.op = "store" /\ w = victim /\ t = s2.a.set /\ k = s2.a.word
                                   THEN stored(payload[w][t][k], s2) ELSE payload[w][t][k]
    <2>1. s2.a.set \in Sets /\ s2.a.word \in Words /\ s2.op \in {"load", "store"}
      BY <1>2, Reloads, Addresses
    <2>2. CASE s2.op = "load"
      BY <1>2, <2>2, Reloads, Zenon
    <2>3. CASE s2.op = "store"
      <3> DEFINE v == stored(payload[victim][s2.a.set][s2.a.word], s2)
      <3>1. payload' = [payload EXCEPT ![victim][s2.a.set][s2.a.word] = v]
        BY <1>2, <2>3, Reloads
      <3> HIDE DEF v
      <3>2. payload'[w][t][k] = IF w = victim /\ t = s2.a.set /\ k = s2.a.word THEN v ELSE payload[w][t][k]
        BY <1>0, <2>1, <3>1
      <3> QED
        BY <2>3, <3>2, Zenon DEF v
    <2> QED
      BY <2>1, <2>2, <2>3, Zenon
  <1> QED
    BY <1>1, <1>2

\* A refill writes over no other line.
LEMMA RestingRefill ==
    ASSUME IInv, NEW req \in Requests, NEW hds \in SUBSET Offered, Clock(req, hds), state = "REFILL"
    PROVE  Resting'
  <1>0. Typed /\ Bus /\ Stages /\ Tagged /\ Resting
    BY Zenon DEF IInv
  <1>1. /\ tag_v' = tag_v /\ dirty' = dirty /\ mem' = mem /\ golden' = golden /\ pending' = pending /\ s2' = s2
        /\ victim \in Ways
    BY <1>0, Still, PendingNext DEF Typed
  <1>2. state' \in {"REFILL", "RELOAD_S1O_S2O"} /\ tag_v[victim][s2.a.set] = s2.a.tag
    BY <1>0, Goes, Zenon DEF Tagged
  <1>3. ASSUME NEW a \in Addr, ~Moving(a)'
        PROVE  Coherent(a)'
    <2>1. ~SameLine(a, s2.a)
      BY <1>1, <1>2, <1>3, ZenonT(40) DEF Moving
    <2>2. Coh(tag_v, dirty, payload, mem, golden, pending, a)
      BY <1>0, <2>1, Zenon DEF Resting, Moving, Evicts, Coherent
    <2>3. a.set \in Sets /\ a.word \in Words
      BY Addresses
    <2>4. \A w \in Ways : tag_v[w][a.set] = a.tag => payload'[w][a.set][a.word] = payload[w][a.set][a.word]
      BY <1>2, <2>1, <2>3, RefillCells, Zenon DEF SameLine
    <2>5. Coh(tag_v, dirty, payload', mem, golden, pending, a)
      BY <2>2, <2>4, Zenon DEF Coh
    <2> QED
      BY <1>1, <2>5 DEF Coherent
  <1> QED
    BY <1>3 DEF Resting

\* When the refill is over, its line is as coherent as the others.
LEMMA RestingReload ==
    ASSUME IInv, NEW req \in Requests, NEW hds \in SUBSET Offered, Clock(req, hds), state = "RELOAD_S1O_S2O"
    PROVE  Resting'
  <1>0. Typed /\ Bus /\ Stages /\ Unique /\ Tagged /\ Resting /\ Refilled
    BY Zenon DEF IInv
  <1>1. /\ tag_v' = tag_v /\ mem' = mem /\ golden' = golden /\ pending' = NoAccess
        /\ pending = (IF s2.op = "store" THEN s2 ELSE NoAccess)
        /\ victim \in Ways /\ s2 \in Access /\ s2.a \in Addr /\ s2.op \in {"load", "store"}
    BY <1>0, Still, PendingNext, Reloads DEF Typed
  <1>2. tag_v[victim][s2.a.set] = s2.a.tag /\ s2.a.set \in Sets /\ s2.a.tag # None
    BY <1>0, <1>1, Addresses DEF Tagged
  <1>3. \A w \in Ways : tag_v[w][s2.a.set] = s2.a.tag => w = victim
    <2>1. Unique /\ victim \in Ways /\ tag_v[victim][s2.a.set] # None
      BY <1>0, <1>1, <1>2, Zenon
    <2> QED
      BY <1>2, <2>1, OneWay, ZenonT(40)
  <1>4. s2.op = "store" => \A l \in s2.msk : golden[s2.a][l] = s2.ver
    BY <1>0, Zenon DEF Stages, Pending, Refills
  <1>5. ASSUME NEW a \in Addr, NEW d, a # s2.a \/ s2.op = "load", Fits(golden, pending, d, a)
        PROVE  Fits(golden, NoAccess, d, a)
    <2>1. CASE s2.op = "load"
      BY <1>1, <1>5, <2>1, Zenon
    <2>2. CASE s2.op = "store"
      BY <1>1, <1>5, <2>2, FitsElsewhere, Zenon
    <2> QED
      BY <1>1, <2>1, <2>2, Zenon
  <1>6. ASSUME NEW a \in Addr
        PROVE  Coherent(a)'
    <2>1. a.set \in Sets /\ a.word \in Words
      BY Addresses
    <2>2. \A w \in Ways : payload'[w][a.set][a.word] =
             IF s2.op = "store" /\ w = victim /\ a.set = s2.a.set /\ a.word = s2.a.word
             THEN stored(payload[w][a.set][a.word], s2) ELSE payload[w][a.set][a.word]
      BY <2>1, RefillCells, ZenonT(40)
    <2>3. CASE SameLine(a, s2.a)
      <3>1. Fits(golden, pending, payload[victim][a.set][a.word], a) /\ Fits(golden, pending, mem[a], a)
        BY <1>0, <2>3, Zenon DEF Refilled, Right
      <3>2. a.set = s2.a.set /\ a.tag = s2.a.tag
        BY <2>3, Zenon DEF SameLine
      <3>3. Fits(golden, NoAccess, payload'[victim][a.set][a.word], a)
        <4>1. CASE a = s2.a /\ s2.op = "store"
          <5>1. payload'[victim][a.set][a.word] = stored(payload[victim][a.set][a.word], s2)
            BY <1>1, <2>2, <4>1, Zenon
          <5>2. Fits(golden, s2, payload[victim][a.set][a.word], s2.a)
            BY <1>1, <3>1, <4>1, ZenonT(40)
          <5>3. Fits(golden, NoAccess, stored(payload[victim][a.set][a.word], s2), s2.a)
            BY <1>1, <1>4, <4>1, <5>2, FitsStored, ZenonT(40)
          <5> QED
            BY <4>1, <5>1, <5>3, ZenonT(40)
        <4>2. CASE a # s2.a \/ s2.op = "load"
          <5>1. payload'[victim][a.set][a.word] = payload[victim][a.set][a.word]
            <6>1. a.word # s2.a.word \/ s2.op = "load"
              BY <1>1, <3>2, <4>2, Addresses, Zenon
            <6>2. "load" # "store"
              OBVIOUS
            <6> QED
              BY <1>1, <2>2, <6>1, <6>2, Zenon
          <5> QED
            BY <1>5, <3>1, <4>2, <5>1, Zenon
        <4> QED
          BY <1>1, <4>1, <4>2, ZenonT(40)
      <3>4. s2.op = "store" => dirty'[victim][a.set]
        BY <1>1, <1>2, <3>2, Cells, Zenon
      <3>5. s2.op = "load" => Fits(golden, NoAccess, mem[a], a)
        BY <1>5, <3>1, Zenon
      <3>6. Coh(tag_v, dirty', payload', mem, golden, NoAccess, a)
        BY <1>1, <1>2, <1>3, <3>2, <3>3, <3>4, <3>5, ZenonT(40) DEF Coh
      <3> QED
        BY <1>1, <3>6, Zenon DEF Coherent
    <2>4. CASE ~SameLine(a, s2.a)
      <3>1. Coh(tag_v, dirty, payload, mem, golden, pending, a)
        BY <1>0, <2>4, Zenon DEF Resting, Moving, Evicts, Coherent
      <3>2. a # s2.a
        BY <2>4, Zenon DEF SameLine
      <3>3. \A w \in Ways : tag_v[w][a.set] = a.tag => ~(w = victim /\ a.set = s2.a.set)
        BY <1>2, <2>4, Zenon DEF SameLine
      <3>4. \A w \in Ways : tag_v[w][a.set] = a.tag => (dirty'[w][a.set] <=> dirty[w][a.set])
        BY <2>1, <3>3, Cells, Zenon
      <3>5. Coh(tag_v, dirty', payload', mem, golden, NoAccess, a)
        BY <1>5, <2>2, <3>1, <3>2, <3>3, <3>4, Zenon DEF Coh
      <3> QED
        BY <1>1, <3>5, Zenon DEF Coherent
    <2> QED
      BY <2>3, <2>4
  <1> QED
    BY <1>6 DEF Resting

\* An uncached store reaches a word that is not in the cache.
LEMMA RestingUncached ==
    ASSUME IInv, NEW req \in Requests, NEW hds \in SUBSET Offered, Clock(req, hds), state = "UNCACHED_WRITE"
    PROVE  Resting'
  <1>0. Typed /\ Bus /\ Stages /\ Tagged /\ Resting
    BY DEF IInv
  <1>1. /\ tag_v' = tag_v /\ dirty' = dirty /\ payload' = payload /\ golden' = golden
        /\ mem \in [Addr -> Datum]
        /\ s2 \in Access /\ s2.a \in Addr /\ s2.op = "store" /\ s2.kind = "uncached" /\ Free(tag_v, s2.a)
        /\ mem' = IF "W" \in hds THEN [mem EXCEPT ![s2.a] = stored(mem[s2.a], s2)] ELSE mem
    BY <1>0, Still, UncachedBeat, Zenon DEF Typed, Tagged
  <1>2. \A a \in Addr : Coh(tag_v, dirty, payload, mem, golden, pending, a)
    BY <1>0, Zenon DEF Resting, Moving, Evicts, Coherent
  <1>3. CASE "W" \notin hds
    <2>1. mem' = mem /\ pending' = pending
      BY <1>1, <1>3, PendingNext
    <2> QED
      BY <1>1, <1>2, <2>1, Zenon DEF Resting, Coherent
  <1>4. CASE "W" \in hds
    <2>1. pending = s2 /\ pending' = NoAccess /\ wr.w = "last"
      BY <1>4, PendingNext, UncachedBeat, Zenon
    <2>2. \A l \in s2.msk : golden[s2.a][l] = s2.ver
      BY <1>0, <1>1, <2>1 DEF Stages, Pending
    <2>3. ASSUME NEW a \in Addr
          PROVE  Coherent(a)'
      <3>1. CASE a = s2.a
        <4>1. Fits(golden, s2, mem[s2.a], s2.a)
          BY <1>1, <1>2, <2>1, Zenon DEF Coh, Free
        <4>2. Fits(golden, NoAccess, stored(mem[s2.a], s2), s2.a)
          BY <1>1, <2>2, <4>1, FitsStored, Zenon
        <4>3. mem'[a] = stored(mem[s2.a], s2)
          BY <1>1, <1>4, <3>1, Zenon
        <4>4. Coh(tag_v, dirty, payload, mem', golden, NoAccess, a)
          BY <1>1, <3>1, <4>2, <4>3, Zenon DEF Coh, Free
        <4> QED
          BY <1>1, <2>1, <4>4 DEF Coherent
      <3>2. CASE a # s2.a
        <4>1. \A d : Fits(golden, s2, d, a) => Fits(golden, NoAccess, d, a)
          BY <3>2, FitsElsewhere
        <4>2. mem'[a] = mem[a]
          BY <1>1, <3>2, Zenon
        <4>3. Coh(tag_v, dirty, payload, mem', golden, NoAccess, a)
          BY <1>2, <2>1, <4>1, <4>2, ZenonT(40) DEF Coh
        <4> QED
          BY <1>1, <2>1, <4>3 DEF Coherent
      <3> QED
        BY <3>1, <3>2
    <2> QED
      BY <2>3, Zenon DEF Resting
  <1> QED
    BY <1>3, <1>4

\* What an edge of a writeback makes of memory.
LEMMA WriteCells ==
    ASSUME IInv, NEW req, NEW hds \in SUBSET Offered, Clock(req, hds), state = "WRITEBACK"
    PROVE  /\ "W" \notin hds => mem' = mem
           /\ \A a \in Addr : ~(SameLine(a, wr.addr) /\ a.word = wr.beat) => mem'[a] = mem[a]
           /\ \A a \in Addr : Right(mem[a], a) => Right(mem'[a], a)
           /\ "W" \in hds => /\ wr.beat \in Words
                             /\ \A a \in Addr : SameLine(a, wr.addr) /\ a.word = wr.beat => Right(mem'[a], a)
           /\ Evicts => /\ tag_v[victim][s2.a.set] = s2.a.tag
                        /\ ~SameLine(s2.a, wr.addr)
  <1>0. mem \in [Addr -> Datum] /\ victim \in Ways
    BY DEF IInv, Typed
  <1>1. "W" \notin hds => mem' = mem
    BY Zenon DEF Clock, mem_nxt
  <1>2. ASSUME "W" \in hds
        PROVE  /\ wr.beat \in Words
               /\ \A a \in Addr : ~(SameLine(a, wr.addr) /\ a.word = wr.beat) => mem'[a] = mem[a]
               /\ \A a \in Addr : Right(mem[a], a) => Right(mem'[a], a)
               /\ \A a \in Addr : SameLine(a, wr.addr) /\ a.word = wr.beat => Right(mem'[a], a)
    <2>1. PICK A \in Addr, d \in Datum : /\ SameLine(A, wr.addr) /\ A.word = wr.beat /\ wr.beat \in Words
                                         /\ mem' = [mem EXCEPT ![A] = d]
                                         /\ Right(d, A)
      BY <1>2, WriteBeat, Zenon
    <2>2. \A a \in Addr : SameLine(a, wr.addr) /\ a.word = wr.beat <=> a = A
      BY <2>1, Addresses DEF SameLine
    <2>3. \A a \in Addr : mem'[a] = IF a = A THEN d ELSE mem[a]
      BY <1>0, <2>1, Zenon
    <2>4. /\ \A a \in Addr : ~(SameLine(a, wr.addr) /\ a.word = wr.beat) => mem'[a] = mem[a]
          /\ \A a \in Addr : Right(mem[a], a) => Right(mem'[a], a)
          /\ \A a \in Addr : SameLine(a, wr.addr) /\ a.word = wr.beat => Right(mem'[a], a)
      BY <2>1, <2>2, <2>3, Zenon
    <2> QED
      BY <2>1, <2>4, ZenonT(40)
  <1>3. Evicts => tag_v[victim][s2.a.set] = s2.a.tag /\ ~SameLine(s2.a, wr.addr)
    BY <1>0, Zenon DEF IInv, Tagged, Free, SameLine
  <1> QED
    BY <1>1, <1>2, <1>3, Zenon

\* A writeback leaves every line as coherent as it was, and the line that made
\* room in memory.
LEMMA RestingWriteback ==
    ASSUME IInv, NEW req \in Requests, NEW hds \in SUBSET Offered, Clock(req, hds), state = "WRITEBACK"
    PROVE  Resting'
  <1>0. Typed /\ Bus /\ Stages /\ Tagged /\ Resting /\ Writeback
    BY DEF IInv
  <1>1. /\ tag_v' = tag_v /\ dirty' = dirty /\ payload' = payload /\ golden' = golden /\ pending' = pending
        /\ s2' = s2
    BY <1>0, Still, PendingNext
  <1>2. state' = IF "B" \notin hds THEN "WRITEBACK" ELSE IF s2.op = "fls" THEN "IDLE" ELSE "REFILL"
    BY <1>0, Goes
  <1>3. ASSUME NEW a \in Addr, Coherent(a)
        PROVE  Coherent(a)'
    <2>1. Coh(tag_v, dirty, payload, mem, golden, pending, a)
      BY <1>3, Zenon DEF Coherent
    <2>2. Fits(golden, pending, mem[a], a) => Fits(golden, pending, mem'[a], a)
      BY WriteCells, ZenonT(40) DEF Right
    <2>3. Coh(tag_v, dirty, payload, mem', golden, pending, a)
      BY <2>1, <2>2, Zenon DEF Coh
    <2> QED
      BY <1>1, <2>3 DEF Coherent
  <1>4. ASSUME NEW a \in Addr, ~Moving(a)'
        PROVE  Coherent(a)'
    <2>1. CASE ~Moving(a)
      BY <1>0, <1>3, <2>1 DEF Resting
    <2>2. CASE Moving(a)
      <3>1. Evicts /\ (SameLine(a, s2.a) \/ SameLine(a, wr.addr))
        BY <2>2 DEF Moving
      <3>2. state' = "REFILL"
        <4>1. state' = "WRITEBACK" => wr'.addr = wr.addr
          BY WritesOn, Zenon
        <4>2. state' = "WRITEBACK" => Moving(a)'
          BY <1>1, <3>1, <4>1, Zenon DEF Moving, Evicts
        <4> QED
          BY <1>2, <1>4, <3>1, <4>2, Zenon DEF Evicts
      <3>3. SameLine(a, wr.addr)
        BY <1>1, <1>4, <3>1, <3>2, Zenon DEF Moving
      <3>4. "B" \in hds
        BY <1>2, <3>2
      <3>5. wr.w = "taken" /\ "W" \notin hds
        BY <1>0, <3>4, Handshakes
      <3>6. wr.beat = WORDS /\ a.word < WORDS
        BY <1>0, <3>5, Addresses, Counters DEF Bus
      <3>7. victim \in wb_way
        BY <3>1, Zenon DEF wb_way, Evicts
      <3>8. Fits(golden, pending, mem[a], a)
        BY <1>0, <3>3, <3>6, <3>7, Zenon DEF Writeback, Right
      <3>9. \A w \in Ways : tag_v[w][a.set] # a.tag
        BY <1>0, <3>1, <3>3, Zenon DEF Tagged, Free, SameLine
      <3>10. mem' = mem
        BY <3>5, WriteCells
      <3> QED
        BY <1>1, <3>8, <3>9, <3>10, Zenon DEF Coherent, Coh
    <2> QED
      BY <2>1, <2>2
  <1> QED
    BY <1>4 DEF Resting

\* The lines at rest are coherent after every edge.
LEMMA RestingNext ==
    ASSUME IInv, NEW req \in Requests, NEW hds \in SUBSET Offered, Clock(req, hds)
    PROVE  Resting'
  <1>1. state \in {"BOOT", "IDLE", "REPLACE", "WRITEBACK", "REFILL", "RELOAD_S1O_S2O", "INVALIDATE", "FLUSH",
                   "UNCACHED_BOOT", "UNCACHED_READ", "UNCACHED_WRITE"}
    BY DEF IInv, Typed
  <1> QED
    BY <1>1, RestingStill, RestingInvalidate, RestingIdle, RestingReplace, RestingRefill, RestingReload,
       RestingUncached, RestingWriteback

\* The refill brings the words of memory into the way, one after another.
LEMMA RefilledNext ==
    ASSUME IInv, NEW req \in Requests, NEW hds \in SUBSET Offered, Clock(req, hds)
    PROVE  Refilled'
  <1>0. Typed /\ Bus /\ Stages /\ Tagged /\ Resting /\ Refilled
    BY Zenon DEF IInv
  <1>1. CASE state = "REPLACE"
    <2>1. mem' = mem /\ golden' = golden /\ pending' = pending /\ s2' = s2
      BY <1>0, <1>1, Still, PendingNext, Zenon
    <2>2. ASSUME NEW a \in Addr, SameLine(a, s2.a)
          PROVE  Right(mem[a], a)
      <3>1. \A w \in Ways : tag_v[w][a.set] # a.tag
        BY <1>0, <1>1, <2>2 DEF Tagged, Free, SameLine
      <3>2. Coherent(a)
        BY <1>0, <1>1, Zenon DEF Resting, Moving, Evicts
      <3> QED
        BY <3>1, <3>2, Zenon DEF Coherent, Coh, Right
    <2>3. state' \in {"WRITEBACK", "REFILL"} /\ (state' = "REFILL" => refill_cnt' = 0)
      BY <1>0, <1>1, Goes, BusStarts
    <2>4. \A a \in Addr : ~(a.word < 0)
      BY Addresses, Counters
    <2>5. \A a \in Addr : SameLine(a, s2'.a) => Right(mem[a], a)'
      BY <2>1, <2>2 DEF Right
    <2> QED
      BY <2>3, <2>4, <2>5 DEF Refilled, Evicts
  <1>2. CASE state = "WRITEBACK"
    <2>1. golden' = golden /\ pending' = pending /\ s2' = s2
      BY <1>0, <1>2, Still, PendingNext
    <2>2. state' = IF "B" \notin hds THEN "WRITEBACK" ELSE IF s2.op = "fls" THEN "IDLE" ELSE "REFILL"
      BY <1>0, <1>2, Goes
    <2>3. CASE s2.op = "fls"
      BY <2>1, <2>2, <2>3, Zenon DEF Refilled, Evicts
    <2>4. CASE s2.op # "fls"
      <3>1. \A a \in Addr : SameLine(a, s2.a) => Right(mem[a], a)
        BY <1>0, <1>2, <2>4, Zenon DEF Refilled, Evicts
      <3>2. \A a \in Addr : Right(mem[a], a) => Right(mem'[a], a)
        BY <1>2, WriteCells, Zenon
      <3>3. \A a \in Addr : SameLine(a, s2'.a) => Right(mem[a], a)'
        BY <2>1, <3>1, <3>2, Zenon DEF Right
      <3>4. state' = "REFILL" => refill_cnt' = 0
        <4> SUFFICES ASSUME state' = "REFILL" PROVE refill_cnt' = 0
          OBVIOUS
        <4>1. "B" \in hds
          BY <2>2, Zenon
        <4>2. wr.w = "taken" /\ refill_cnt = 0
          BY <1>0, <1>2, <4>1, Handshakes, Zenon DEF Bus
        <4>3. ~s2i_wb_re(hds)
          BY <1>2, <4>2 DEF s2i_wb_re, aw_set
        <4> QED
          BY <1>2, <4>2, <4>3 DEF Clock, refill_cnt_nxt
      <3>5. \A a \in Addr : ~(a.word < 0)
        BY Addresses, Counters
      <3> QED
        BY <2>2, <3>3, <3>4, <3>5, Zenon DEF Refilled
    <2> QED
      BY <2>3, <2>4
  <1>3. CASE state = "REFILL"
    <2>1. /\ golden' = golden /\ pending' = pending /\ s2' = s2 /\ mem' = mem /\ victim' = victim
          /\ victim \in Ways /\ refill_cnt \in Words
      BY <1>0, <1>3, Still, PendingNext DEF Typed
    <2>2. \A a \in Addr : SameLine(a, s2.a) => Right(mem[a], a)
      BY <1>0, <1>3, Zenon DEF Refilled
    <2>3. \A a \in Addr : SameLine(a, s2'.a) => Right(mem[a], a)'
      BY <2>1, <2>2 DEF Right
    <2>4. state' = IF "R" \in hds /\ rd.beat = rd.last THEN "RELOAD_S1O_S2O" ELSE "REFILL"
      BY <1>0, <1>3, Goes
    <2>5. ~s2i_wb_re(hds)
      BY <1>3 DEF s2i_wb_re, aw_set
    <2>6. refill_cnt' = IF "R" \in hds THEN (refill_cnt + 1) % WORDS ELSE refill_cnt
      BY <1>3, <2>5, Zenon DEF Clock, refill_cnt_nxt
    <2>7. "R" \in hds => rd.last = WORDS - 1 /\ rd.beat = refill_cnt
      BY <1>0, <1>3, Handshakes DEF Bus
    <2>8. ASSUME NEW a \in Addr, SameLine(a, s2.a), a.word < refill_cnt
          PROVE  Right(payload'[victim][a.set][a.word], a)
      <3>1. a.set \in Sets /\ a.word \in Words /\ a.word # refill_cnt
        BY <2>1, <2>8, Addresses, Counters
      <3>2. payload'[victim][a.set][a.word] = payload[victim][a.set][a.word]
        BY <1>3, <2>1, <3>1, RefillCells
      <3> QED
        BY <1>0, <1>3, <2>8, <3>2, Zenon DEF Refilled
    <2>9. ASSUME NEW a \in Addr, SameLine(a, s2.a), a.word = refill_cnt, "R" \in hds
          PROVE  Right(payload'[victim][a.set][a.word], a)
      <3>1. a.set \in Sets /\ a.word \in Words /\ a.set = s2.a.set /\ s2.a \in Addr
        BY <1>3, <2>9, Addresses, ReadBeat, Zenon DEF SameLine
      <3>2. payload'[victim][a.set][a.word] = mem[[s2.a EXCEPT !.word = refill_cnt]]
        BY <1>3, <2>1, <2>9, <3>1, RefillCells
      <3> DEFINE A == [s2.a EXCEPT !.word = refill_cnt]
      <3>3. A \in Addr /\ A.tag = s2.a.tag /\ A.set = s2.a.set /\ A.word = refill_cnt
        BY <2>1, <3>1, Addresses
      <3> HIDE DEF A
      <3>4. A = a
        BY <2>9, <3>3, Addresses DEF SameLine
      <3>5. payload'[victim][a.set][a.word] = mem[a]
        BY <3>2, <3>4, Zenon DEF A
      <3> QED
        BY <2>2, <2>9, <3>5, Zenon
    <2>10. CASE "R" \notin hds
      <3>1. state' = "REFILL" /\ refill_cnt' = refill_cnt
        BY <2>4, <2>6, <2>10, Zenon
      <3>2. \A a \in Addr : SameLine(a, s2'.a) /\ a.word < refill_cnt' => Right(payload[victim][a.set][a.word], a)'
        BY <2>1, <2>8, <3>1, ZenonT(40) DEF Right
      <3> QED
        BY <2>3, <3>1, <3>2, Zenon DEF Refilled
    <2>11. CASE "R" \in hds /\ refill_cnt # WORDS - 1
      <3>1. state' = "REFILL" /\ refill_cnt' = refill_cnt + 1
        BY <2>1, <2>4, <2>6, <2>7, <2>11, Counters
      <3>2. \A a \in Addr : a.word < refill_cnt + 1 => a.word < refill_cnt \/ a.word = refill_cnt
        BY <2>1, Addresses, WordOrder, Zenon
      <3>3. \A a \in Addr : SameLine(a, s2'.a) /\ a.word < refill_cnt' => Right(payload[victim][a.set][a.word], a)'
        BY <2>1, <2>8, <2>9, <2>11, <3>1, <3>2, Zenon DEF Right
      <3> QED
        BY <2>3, <3>1, <3>3, Zenon DEF Refilled
    <2>12. CASE "R" \in hds /\ refill_cnt = WORDS - 1
      <3>1. state' = "RELOAD_S1O_S2O"
        BY <2>4, <2>7, <2>12
      <3>2. \A a \in Addr : a.word < refill_cnt \/ a.word = refill_cnt
        <4>1. \A k \in Words : k < WORDS - 1 \/ k = WORDS - 1
          BY Counters DEF Words
        <4> QED
          BY <2>12, <4>1, Addresses
      <3>3. \A a \in Addr : SameLine(a, s2'.a) => Right(payload[victim][a.set][a.word], a)'
        BY <2>1, <2>8, <2>9, <2>12, <3>2, ZenonT(40) DEF Right
      <3> QED
        BY <2>3, <3>1, <3>3 DEF Refilled
    <2> QED
      BY <2>10, <2>11, <2>12, Zenon
  <1>4. CASE state \notin {"REPLACE", "WRITEBACK", "REFILL"}
    <2>1. state' \notin {"REFILL", "RELOAD_S1O_S2O"}
      BY <1>0, <1>4, Goes, Leaves, Zenon DEF Typed
    <2>2. state' = "WRITEBACK" => s2' = s2 /\ s2.op = "fls"
      BY <1>0, <1>4, Goes, Leaves, Still, Zenon DEF Typed, Stages
    <2> QED
      BY <2>1, <2>2, Zenon DEF Refilled, Evicts
  <1> QED
    BY <1>1, <1>2, <1>3, <1>4

\* The writeback takes the words of the way to memory, one after another.
LEMMA WritebackNext ==
    ASSUME IInv, NEW req \in Requests, NEW hds \in SUBSET Offered, Clock(req, hds)
    PROVE  Writeback'
  <1>0. Typed /\ Bus /\ Stages /\ Unique /\ Tagged /\ Resting /\ Writeback
    BY DEF IInv
  <1> SUFFICES ASSUME state' = "WRITEBACK" PROVE Writeback'
    BY Zenon DEF Writeback
  <1>1. state \in {"REPLACE", "FLUSH", "WRITEBACK"}
    BY <1>0, Goes, Leaves, Zenon DEF Typed
  <1>2. /\ s2' = s2 /\ match' = match /\ victim' = victim /\ payload' = payload /\ golden' = golden
        /\ pending' = pending /\ wb_way' = wb_way
    <2>1. /\ s2' = s2 /\ match' = match /\ victim' = victim /\ payload' = payload /\ golden' = golden
          /\ pending' = pending
      BY <1>0, <1>1, Still, PendingNext
    <2> QED
      BY <2>1 DEF wb_way
  <1>3. wb_way \subseteq Ways
    BY <1>0 DEF wb_way, Typed
  <1>4. CASE state \in {"REPLACE", "FLUSH"}
    <2>1. aw_set /\ s2i_wb_re(hds) /\ refill_cnt = 0
      BY <1>0, <1>4, BusStarts DEF s2i_wb_re, Bus
    <2>2. wr'.beat = 0 /\ wb_addr' = 0 /\ wr'.addr = axi_paddr_nxt
      BY <1>4, <2>1, BusStarts, ZenonT(40)
    <2>3. \A w \in Ways : rdat'[w] = payload[w][s2.a.set][0]
      BY <1>4, <2>1, ReadsAhead, Zenon
    <2>4. ASSUME NEW w \in wb_way, NEW a \in Addr, SameLine(a, wr'.addr)
          PROVE  Right(payload[w][a.set][a.word], a)
      <3>1. Coherent(a)
        BY <1>0, <1>4, Zenon DEF Resting, Moving, Evicts
      <3>2. tag_v[w][a.set] = a.tag
        <4>1. CASE state = "REPLACE"
          <5>1. free_dirty /\ s2.op # "fls"
            BY <1>0, <4>1, Goes, Replaces
          <5>2. w = victim
            BY <2>4, <5>1 DEF wb_way
          <5> QED
            BY <2>4, <4>1, <5>1, <5>2, Evicted, Zenon DEF SameLine
        <4>2. CASE state = "FLUSH"
          <5>1. s2.op = "fls" /\ s2.a \in Addr
            BY <1>0, <4>2, InStage DEF Stages
          <5>2. axi_paddr_nxt = line(s2.a)
            BY <4>2 DEF axi_paddr_nxt
          <5>3. a.tag = s2.a.tag /\ a.set = s2.a.set
            BY <2>2, <2>4, <5>1, <5>2, Addresses DEF SameLine
          <5>4. w \in match
            BY <2>4, <5>1 DEF wb_way
          <5> QED
            BY <1>0, <4>2, <5>3, <5>4, Zenon DEF Tagged
        <4> QED
          BY <1>4, <4>1, <4>2
      <3> QED
        BY <1>3, <2>4, <3>1, <3>2, ZenonT(40) DEF Coherent, Coh, Right
    <2>5. \A a \in Addr : ~(a.word < 0)
      BY Addresses, WordOrder, Zenon
    <2>6. \A w \in wb_way : rdat'[w] = payload'[w][s2'.a.set][wb_addr']
      BY <1>2, <1>3, <2>2, <2>3
    <2>7. \A w \in wb_way, a \in Addr : SameLine(a, wr'.addr) => Right(payload[w][a.set][a.word], a)'
      BY <1>2, <2>4, Zenon DEF Right
    <2> QED
      BY <1>2, <2>2, <2>5, <2>6, <2>7, Zenon DEF Writeback
  <1>5. CASE state = "WRITEBACK"
    <2>1. wr'.addr = wr.addr /\ "B" \notin hds
      BY <1>5, WritesOn
    <2>2. ~aw_set /\ (s2i_wb_re(hds) <=> "W" \in hds /\ refill_cnt # 0)
      BY <1>5 DEF s2i_wb_re, aw_set
    <2>3. wr'.beat = IF "W" \in hds THEN wr.beat + 1 ELSE wr.beat
      BY <2>1, <2>2 DEF Clock, wr_nxt
    <2>4. ASSUME NEW w \in wb_way, wr'.w # "taken"
          PROVE  rdat'[w] = payload[w][s2.a.set][wb_addr']
      <3>1. CASE "W" \in hds
        <4>1. wr.w \in {"valid", "last"}
          BY <1>0, <3>1, Handshakes
        <4>2. wr.w = "last" => wr'.w = "taken"
          BY <2>1, <2>2, <3>1 DEF Clock, wr_nxt, w_nxt
        <4>3. refill_cnt # 0
          <5>1. refill_cnt = wb_addr + 1 /\ wb_addr \in Nat
            BY <1>0, <1>5, <2>4, <4>1, <4>2, Counters DEF Bus, Typed
          <5> QED
            BY <5>1, WordOrder, Zenon
        <4>4. s2i_wb_re(hds)
          BY <2>2, <3>1, <4>3
        <4>5. wb_addr' = refill_cnt
          BY <4>4, Zenon DEF Clock
        <4>6. rdat'[w] = payload[w][s2.a.set][refill_cnt]
          BY <1>3, <1>5, <4>4, ReadsAhead, Zenon
        <4> QED
          BY <4>5, <4>6
      <3>2. CASE "W" \notin hds
        <4>1. rdat' = rdat /\ wb_addr' = wb_addr
          BY <1>5, <2>2, <3>2, ReadsAhead, Zenon DEF Clock
        <4>2. wr'.w = wr.w
          BY <2>1, <2>2, <3>2 DEF Clock, wr_nxt, w_nxt
        <4> QED
          BY <1>0, <1>5, <2>4, <4>1, <4>2, Zenon DEF Writeback
      <3> QED
        BY <3>1, <3>2
    <2>5. ASSUME NEW w \in wb_way, NEW a \in Addr, SameLine(a, wr.addr)
          PROVE  /\ Right(payload[w][a.set][a.word], a)
                 /\ a.word < wr'.beat => Right(mem'[a], a)
      <3>1. Right(payload[w][a.set][a.word], a) /\ (a.word < wr.beat => Right(mem[a], a))
        BY <1>0, <1>5, <2>5, Zenon DEF Writeback
      <3>2. Right(mem[a], a) => Right(mem'[a], a)
        BY <1>5, WriteCells, Zenon
      <3>3. CASE "W" \notin hds
        BY <2>3, <3>1, <3>2, <3>3
      <3>4. CASE "W" \in hds
        <4>1. wr.beat \in Nat /\ a.word \in Nat /\ (a.word = wr.beat => Right(mem'[a], a))
          BY <1>5, <2>5, <3>4, WriteCells, Addresses, Counters
        <4>2. a.word < wr'.beat => a.word < wr.beat \/ a.word = wr.beat
          BY <2>3, <3>4, <4>1
        <4> QED
          BY <3>1, <3>2, <4>1, <4>2
      <3> QED
        BY <3>3, <3>4, Zenon
    <2>6. \A w \in wb_way : wr'.w # "taken" => rdat'[w] = payload'[w][s2'.a.set][wb_addr']
      BY <1>2, <2>4, Zenon
    <2>7. \A w \in wb_way, a \in Addr : SameLine(a, wr'.addr) =>
             Right(payload[w][a.set][a.word], a)' /\ (a.word < wr'.beat => Right(mem[a], a)')
      BY <1>2, <2>1, <2>5, Zenon DEF Right
    <2> QED
      BY <1>2, <2>6, <2>7, Zenon DEF Writeback
  <1> QED
    BY <1>1, <1>4, <1>5

\* A word that is in no way, or in one that is not dirty, is in memory.
LEMMA InMemory ==
    ASSUME IInv, NEW a \in Addr, ~Moving(a), pending = NoAccess,
           \A w \in Ways : tag_v[w][a.set] = a.tag => ~dirty[w][a.set]
    PROVE  mem[a] = Current(a)
  <1>1. golden \in Golden
    BY Zenon DEF IInv, Typed, Golden
  <1>2. Fits(golden, NoAccess, mem[a], a)
    BY Zenon DEF IInv, Resting, Coherent, Coh
  <1> QED
    BY <1>1, <1>2, FitsExact DEF Current

\* An access that comes to its end brings what it should.
LEMMA ResultNext ==
    ASSUME IInv, NEW req \in Requests, NEW hds \in SUBSET Offered, Clock(req, hds)
    PROVE  Result'
  <1>0. Typed /\ Bus /\ Stages /\ Unique /\ Tagged /\ Resting /\ Refilled /\ Writeback /\ golden \in Golden
    BY DEF IInv, Typed, Golden
  <1> SUFFICES ASSUME state' = "IDLE" PROVE Result'
    BY DEF Result
  <1>1. CASE state = "IDLE"
    <2>1. /\ s2' = s1 /\ match' = s2i_hit_vec /\ mem' = mem /\ pending = NoAccess
          /\ s1.op # "store" => golden' = golden
      BY <1>1, Enters, PendingNext, Zenon
    <2>2. CASE s1.op = "load"
      <3>1. s1.kind # "uncached" /\ (s1.kind = "cached" => s2i_hit_vec # {})
        BY <1>0, <1>1, <2>2, Leaves, Zenon
      <3>2. ASSUME s1.kind = "cached"
            PROVE  match' # {} /\ \A w \in match' : rdat'[w] = Current(s2.a)'
        <4>1. s2i_ready
          BY <1>1, <2>2, <3>1, <3>2 DEF s2i_ready
        <4>2. PICK u \in Ways : /\ s2i_hit_vec = {u} /\ tag_v[u][s1.a.set] = s1.a.tag
                                /\ rdat'[u] = payload[u][s1.a.set][s1.a.word]
          BY <1>1, <2>2, <4>1, Hit
        <4>3. s1.a \in Addr
          BY <1>1, <4>1, Hit
        <4>4. Coherent(s1.a)
          BY <1>0, <1>1, <4>3 DEF Resting, Moving, Evicts
        <4>5. Fits(golden, NoAccess, payload[u][s1.a.set][s1.a.word], s1.a)
          BY <2>1, <4>2, <4>4, Zenon DEF Coherent, Coh
        <4>6. rdat'[u] = [at |-> s1.a, ver |-> golden[s1.a]]
          BY <1>0, <4>2, <4>3, <4>5, FitsExact
        <4> QED
          BY <2>1, <2>2, <4>2, <4>6 DEF Current
      <3> QED
        BY <2>1, <2>2, <3>1, <3>2 DEF Result, FlushReachesMemory
    <2>3. CASE s1.op = "fls"
      <3>1. s2i_hit_vec = {} /\ s1.a \in Addr
        BY <1>0, <1>1, <2>3, Leaves, InStage
      <3>2. ASSUME NEW k \in Words
            PROVE  LET a == [s1.a EXCEPT !.word = k] IN mem[a] = Current(a)
        <4> DEFINE a == [s1.a EXCEPT !.word = k]
        <4>1. a \in Addr /\ a.tag = s1.a.tag /\ a.set = s1.a.set
          BY <3>1, Addresses
        <4> HIDE DEF a
        <4>2. \A w \in Ways : tag_v[w][a.set] # a.tag
          BY <2>3, <3>1, <4>1 DEF s2i_hit_vec
        <4>3. ~Moving(a)
          BY <1>1 DEF Moving, Evicts
        <4>4. mem[a] = Current(a)
          BY <2>1, <4>1, <4>2, <4>3, InMemory
        <4> QED
          BY <4>4 DEF a
      <3> QED
        BY <2>1, <2>3, <3>2 DEF Result, FlushReachesMemory, Current
    <2>4. CASE s1.op \notin {"load", "fls"}
      BY <2>1, <2>4 DEF Result, FlushReachesMemory
    <2> QED
      BY <2>2, <2>3, <2>4
  <1>2. CASE state = "RELOAD_S1O_S2O"
    <2>1. /\ s2' = s2 /\ golden' = golden /\ match' = {victim} /\ s2.kind = "cached" /\ s2.op \in {"load", "store"}
          /\ s2.a \in Addr
      BY <1>0, <1>2, Still, Reloads
    <2>2. ASSUME s2.op = "load"
          PROVE  rdat'[victim] = [at |-> s2.a, ver |-> golden[s2.a]]
      <3>1. pending = NoAccess /\ rdat'[victim] = payload[victim][s2.a.set][s2.a.word]
        BY <1>2, <2>2, PendingNext, Reloads, ZenonT(40)
      <3>2. Fits(golden, NoAccess, payload[victim][s2.a.set][s2.a.word], s2.a)
        BY <1>0, <1>2, <2>1, <3>1, Zenon DEF Refilled, Right, SameLine
      <3> QED
        BY <1>0, <2>1, <3>1, <3>2, FitsExact, Zenon
    <2> QED
      BY <2>1, <2>2, Zenon DEF Result, FlushReachesMemory, Current
  <1>3. CASE state \in {"FLUSH", "WRITEBACK"}
    <2>1. s2' = s2 /\ golden' = golden /\ s2.op = "fls" /\ s2.a \in Addr /\ pending = NoAccess
      BY <1>0, <1>3, Still, Goes, InStage, PendingNext, Zenon DEF Stages
    <2>2. "W" \notin hds
      BY <1>0, <1>3, Handshakes, Goes
    <2>3. mem' = mem
      BY <2>2 DEF Clock, mem_nxt
    <2>4. ASSUME NEW k \in Words
          PROVE  LET a == [s2.a EXCEPT !.word = k] IN mem[a] = Current(a)
      <3> DEFINE a == [s2.a EXCEPT !.word = k]
      <3>1. a \in Addr /\ a.tag = s2.a.tag /\ a.set = s2.a.set
        BY <2>1, Addresses
      <3> HIDE DEF a
      <3>2. CASE state = "FLUSH"
        <4>1. ~match_dirty
          BY <1>0, <3>2, Goes, Zenon
        <4>2. \A w \in Ways : tag_v[w][a.set] = a.tag => ~dirty[w][a.set]
          <5>1. match = {w \in Ways : tag_v[w][s2.a.set] = s2.a.tag} /\ \A w \in Ways : s2o_d[w] = dirty[w][s2.a.set]
            BY <1>0, <3>2, Zenon DEF Tagged
          <5> QED
            BY <3>1, <4>1, <5>1 DEF match_dirty
        <4>3. ~Moving(a)
          BY <3>2 DEF Moving, Evicts
        <4> QED
          BY <2>1, <3>1, <4>2, <4>3, InMemory, Zenon DEF a
      <3>3. CASE state = "WRITEBACK"
        <4>1. "B" \in hds
          BY <1>0, <3>3, Goes, Zenon
        <4>2. wr.beat = WORDS
          BY <1>0, <3>3, <4>1, Handshakes DEF Bus
        <4>3. SameLine(a, wr.addr)
          BY <1>0, <2>1, <3>1, <3>3, Addresses, Zenon DEF Tagged, Flushes, SameLine
        <4>4. PICK u \in Ways : wb_way = {u}
          BY <3>3, WayWritten
        <4>5. a.word < WORDS
          BY <3>1, Addresses, Counters
        <4>6. Fits(golden, NoAccess, mem[a], a)
          BY <1>0, <2>1, <3>1, <3>3, <4>2, <4>3, <4>4, <4>5, ZenonT(40) DEF Writeback, Right
        <4>7. mem[a] = Current(a)
          BY <1>0, <3>1, <4>6, FitsExact, Zenon DEF Current
        <4> QED
          BY <4>7 DEF a
      <3> QED
        BY <1>3, <3>2, <3>3
    <2> QED
      BY <2>1, <2>3, <2>4 DEF Result, FlushReachesMemory, Current
  <1>4. CASE state = "UNCACHED_READ"
    <2>1. /\ s2' = s2 /\ golden' = golden /\ s2.op = "load" /\ s2.kind = "uncached" /\ s2.a \in Addr
          /\ pending = NoAccess
      BY <1>0, <1>4, Still, InStage, PendingNext DEF Stages, Uncached
    <2>2. "R" \in hds /\ rd.addr = s2.a
      BY <1>0, <1>4, Goes, Zenon DEF Bus
    <2>3. rdata' = mem[s2.a]
      BY <1>4, <2>2, Zenon DEF Clock
    <2>4. mem[s2.a] = Current(s2.a)
      <3>1. \A w \in Ways : tag_v[w][s2.a.set] # s2.a.tag
        BY <1>0, <1>4, Zenon DEF Tagged, Free
      <3>2. ~Moving(s2.a)
        BY <1>4 DEF Moving, Evicts
      <3> QED
        BY <2>1, <3>1, <3>2, InMemory, Zenon
    <2> QED
      BY <2>1, <2>3, <2>4, Zenon DEF Result, FlushReachesMemory, Current
  <1>5. CASE state \notin {"IDLE", "RELOAD_S1O_S2O", "FLUSH", "WRITEBACK", "UNCACHED_READ"}
    <2>1. state \in {"BOOT", "INVALIDATE", "UNCACHED_WRITE"}
      BY <1>0, <1>5, Goes, Zenon DEF Typed
    <2>2. s2' = s2 /\ s2.op \in {"none", "inv", "store"}
      BY <1>0, <2>1, Still, Accesses, Zenon DEF Stages
    <2> QED
      BY <2>2 DEF Result, FlushReachesMemory
  <1> QED
    BY <1>1, <1>2, <1>3, <1>4, <1>5, Zenon

-----------------------------------------------------------------------------
\* The reset state, in which every word is in memory.
LEMMA InitHolds == Init => IInv
  <1> SUFFICES ASSUME Init PROVE IInv
    BY Zenon
  <1>1. /\ state = "BOOT" /\ boot_cnt = 0 /\ refill_cnt = 0 /\ free_way = 0
        /\ s1 = NoAccess /\ s2 = NoAccess /\ victim = 0 /\ match = {} /\ wb_addr = 0
        /\ free_tag = None /\ free_dirty = FALSE
        /\ rd = [ar |-> "none", addr |-> NoAddr, beat |-> 0, last |-> 0]
        /\ wr = [aw |-> "none", addr |-> NoAddr, w |-> "none", beat |-> 0]
    BY DEF Init
  <1>2. /\ tag_v = [w \in Ways |-> [s \in Sets |-> None]]
        /\ dirty = [w \in Ways |-> [s \in Sets |-> FALSE]]
        /\ payload = [w \in Ways |-> [s \in Sets |-> [k \in Words |-> Junk]]]
        /\ rdat = [w \in Ways |-> Junk]
        /\ s2o_d = [w \in Ways |-> FALSE]
        /\ golden = [a \in Addr |-> [l \in Lanes |-> 0]]
        /\ mem = [a \in Addr |-> [at |-> a, ver |-> golden[a]]]
    BY DEF Init
  <1>3. golden \in [Addr -> [Lanes -> 0 .. 1]]
    BY <1>2
  <1>4. mem \in [Addr -> Datum] /\ Placed
    BY <1>2, <1>3 DEF Datum, Placed
  <1>5. Typed
    <2>1. tag_v \in [Ways -> [Sets -> Tags \cup {None}]]
      BY <1>2
    <2>2. dirty \in [Ways -> [Sets -> BOOLEAN]] /\ s2o_d \in [Ways -> BOOLEAN]
      BY <1>2
    <2>3. [k \in Words |-> Junk] \in [Words -> Word]
      BY DEF Word
    <2>4. [s \in Sets |-> [k \in Words |-> Junk]] \in [Sets -> [Words -> Word]]
      BY <2>3
    <2>5. payload \in [Ways -> [Sets -> [Words -> Word]]] /\ rdat \in [Ways -> Word]
      BY <1>2, <2>4 DEF Word
    <2>6. rd \in [ar : {"none", "valid", "taken"}, addr : Addr \cup {NoAddr}, beat : Nat, last : Nat]
      BY <1>1, Zenon
    <2> QED
      BY <1>1, <1>3, <1>4, <2>1, <2>2, <2>5, <2>6, Counters, Zenon DEF Typed
  <1>6. Stages
    BY <1>1, Accesses, Zenon DEF Stages, Pending
  <1>7. Bus
    BY <1>1 DEF Bus
  <1>8. Unique /\ Tagged
    BY <1>1, <1>2, Zenon DEF Unique, Tagged, Evicts, Flushes
  <1>9. Resting
    <2>1. ASSUME NEW a \in Addr
          PROVE  Coherent(a)
      <3>1. \A w \in Ways : tag_v[w][a.set] # a.tag
        BY <1>2, Addresses
      <3>2. mem[a] \in Datum /\ mem[a].at = a /\ mem[a].ver = golden[a]
        BY <1>2, <1>4
      <3> QED
        BY <3>1, <3>2, Zenon DEF Coherent, Coh, Fits
    <2> QED
      BY <2>1 DEF Resting
  <1>10. Refilled /\ Writeback /\ Result
    BY <1>1, Zenon DEF Refilled, Writeback, Result, Evicts
  <1> QED
    BY <1>4, <1>5, <1>6, <1>7, <1>8, <1>9, <1>10 DEF IInv

\* Every edge keeps the invariant.
LEMMA NextHolds == IInv /\ [Next]_vars => IInv'
  <1> SUFFICES ASSUME IInv, [Next]_vars PROVE IInv'
    OBVIOUS
  <1>1. CASE Next
    <2>1. PICK req \in Requests, hds \in SUBSET Offered : Clock(req, hds)
      BY <1>1 DEF Next
    <2> QED
      BY <2>1, TypedNext, StagesNext, BusNext, UniqueNext, TaggedNext, PlacedNext, RestingNext, RefilledNext,
         WritebackNext, ResultNext DEF IInv
  <1>2. CASE UNCHANGED vars
    <2>1. /\ UNCHANGED <<state, boot_cnt, refill_cnt, free_way, tag_v, dirty, payload, rdat, s1, wb_addr>>
          /\ UNCHANGED <<s2, victim, match, free_tag, free_dirty, s2o_d, rdata, rd, wr, mem, golden>>
      BY <1>2, Zenon DEF vars, fsm, s2o
    <2>2. Typed' /\ Unique'
      <3>1. Typed'
        BY <2>1, Zenon DEF IInv, Typed
      <3>2. Unique'
        BY <2>1, Zenon DEF IInv, Unique
      <3> QED
        BY <3>1, <3>2, Zenon
    <2>3. Stages' /\ Bus'
      BY <2>1, Zenon DEF IInv, Stages, Bus, Pending, Refills, Uncached
    <2>4. pending' = pending /\ wb_way' = wb_way
      BY <2>1 DEF pending, Pending, wb_way
    <2>5. Tagged' /\ Placed'
      BY <2>1, Zenon DEF IInv, Tagged, Placed, Evicts, Flushes
    <2>6. Resting' /\ Refilled' /\ Writeback'
      BY <2>1, <2>4, Zenon DEF IInv, Resting, Refilled, Writeback, Moving, Coherent, Right, Evicts
    <2>7. Result'
      BY <2>1 DEF IInv, Result, FlushReachesMemory, Current
    <2> QED
      BY <2>2, <2>3, <2>5, <2>6, <2>7 DEF IInv
  <1> QED
    BY <1>1, <1>2

\* The invariant of dcache.v: where each word is current, in every state of the FSM.
THEOREM InvariantHolds == Spec => []IInv
  BY InitHolds, NextHolds, PTL DEF Spec

\* A load returns the bytes last stored at its address (s2o_d_nxt and the
\* way multiplexer of dcache.v), for every geometry of the cache.
THEOREM LoadsLastStoreHolds == Spec => []LoadsLastStore
  <1>1. IInv => LoadsLastStore
    <2> SUFFICES ASSUME IInv, s2.op = "load", s2.kind # "killed", state = "IDLE" PROVE dout = Current(s2.a)
      BY DEF LoadsLastStore
    <2>1. s2.kind \in {"cached", "uncached"}
      BY InStage, Accesses DEF IInv
    <2>2. CASE s2.kind = "uncached"
      BY <2>2 DEF IInv, Result, dout
    <2>3. CASE s2.kind = "cached"
      <3>1. match # {} /\ \A w \in match : rdat[w] = Current(s2.a)
        BY <2>3 DEF IInv, Result
      <3>2. (CHOOSE w \in match : TRUE) \in match
        BY <3>1, Zenon
      <3> QED
        BY <2>3, <3>1, <3>2 DEF dout
    <2> QED
      BY <2>1, <2>2, <2>3
  <1> QED
    BY <1>1, InvariantHolds, PTL

\* No store is lost between accesses: it is in the way that holds its line, or in
\* memory, where it also is if the way is not dirty (the D flags of dcache.v).
THEOREM NothingLostHolds == Spec => []NothingLost
  <1>1. IInv => NothingLost
    <2> SUFFICES ASSUME IInv, state = "IDLE", NEW a \in Addr
                 PROVE  /\ \A w \in Ways : tag_v[w][a.set] = a.tag => payload[w][a.set][a.word] = Current(a)
                        /\ (\A w \in Ways : tag_v[w][a.set] = a.tag => ~dirty[w][a.set]) => mem[a] = Current(a)
      BY DEF NothingLost
    <2>1. golden \in Golden /\ pending = NoAccess
      BY DEF IInv, Typed, Golden, pending, Pending
    <2>2. Coherent(a)
      BY DEF IInv, Resting, Moving, Evicts
    <2>3. \A d : Fits(golden, NoAccess, d, a) => d = Current(a)
      BY <2>1, FitsExact DEF Current
    <2> QED
      BY <2>1, <2>2, <2>3, Zenon DEF Coherent, Coh
  <1> QED
    BY <1>1, InvariantHolds, PTL

\* When a DCFLS is over the line is in memory, whether it was dirty, clean or
\* not in the cache (the FLUSH state of dcache.v).
THEOREM FlushReachesMemoryHolds == Spec => []FlushReachesMemory
  <1>1. IInv => FlushReachesMemory
    BY DEF IInv, Result, FlushReachesMemory
  <1> QED
    BY <1>1, InvariantHolds, PTL
=============================================================================
