--------------------------- MODULE PlatformProofs ---------------------------
(***************************************************************************)
(* The interrupt of the UART, the input it announces, and the agreement of *)
(* the two machines of a difftest, for every program, every layout of      *)
(* memory and every clock of the devices.  The write-back cache of         *)
(* em/csrc/cache.cc is transparent, whatever its geometry: accesses,       *)
(* refills, evictions and flushes never change what a program sees in      *)
(* memory, but for the bytes it writes.                                    *)
(***************************************************************************)
EXTENDS Platform, EmuCache, TLAPS

(* The caches of the emulator                                               *)

Byte == 0 .. 255     \* uint8_t

Entry == [v : [Ways -> BOOLEAN], dirty : [Ways -> BOOLEAN], lru : [Ways -> Ways],
          addr : [Ways -> Tags], lines : [Ways -> [Offs -> Byte]]]

(* The LRU ranks of a set are a permutation of its ways, so that there is   *)
(* always exactly one way to replace.                                       *)
Ranked(lru) ==
    /\ \A x, y \in Ways : lru[x] = lru[y] => x = y
    /\ \A i \in Ways : \E w \in Ways : lru[w] = i

(* A set of the cache before memory m: no line is held twice, only valid    *)
(* lines are dirty, and a valid clean line is what memory holds.            *)
SetCoherent(e, m, j) ==
    /\ e \in Entry
    /\ Ranked(e.lru)
    /\ \A x, y \in Ways : e.v[x] /\ e.v[y] /\ e.addr[x] = e.addr[y] => x = y
    /\ \A w \in Ways : e.dirty[w] => e.v[w]
    /\ \A w \in Ways, o \in Offs : e.v[w] /\ ~e.dirty[w] =>
          e.lines[w][o] = m[[tag |-> e.addr[w], set |-> j, off |-> o]]

Coherent(c, m) ==
    /\ m \in [Addr -> Byte]
    /\ c \in [Sets -> Entry]
    /\ \A j \in Sets : SetCoherent(c[j], m, j)

-----------------------------------------------------------------------------
\* Using a way makes it the most recent and keeps the ranks a permutation.
LEMMA RankedNext ==
    ASSUME NEW lru \in [Ways -> Ways], Ranked(lru), NEW way \in Ways
    PROVE  lru_nxt(lru, way) \in [Ways -> Ways] /\ Ranked(lru_nxt(lru, way))
  <1> DEFINE nxt == lru_nxt(lru, way)
  <1>1. WAYS \in Nat /\ WAYS >= 1
    BY CacheParameters
  <1>2. /\ \A w \in Ways : w \in Int /\ w >= 0 /\ w <= WAYS - 1
        /\ \A i \in Int : i >= 0 /\ i <= WAYS - 1 => i \in Ways
    BY <1>1 DEF Ways
  <1>3. \A w \in Ways : nxt[w] = IF w = way THEN WAYS - 1
                                 ELSE IF lru[w] > lru[way] THEN lru[w] - 1 ELSE lru[w]
    BY DEF lru_nxt
  <1>4. \A w \in Ways : nxt[w] \in Ways
    BY <1>1, <1>2, <1>3
  <1>5. nxt \in [Ways -> Ways]
    BY <1>4 DEF lru_nxt
  <1>6. ASSUME NEW x \in Ways, NEW y \in Ways, nxt[x] = nxt[y]
        PROVE  x = y
    BY <1>1, <1>2, <1>3, <1>6 DEF Ranked
  <1>7. ASSUME NEW i \in Ways
        PROVE  \E w \in Ways : nxt[w] = i
    <2>1. CASE i = WAYS - 1
      BY <2>1, <1>3
    <2>2. CASE i < lru[way]
      <3>1. PICK w \in Ways : lru[w] = i
        BY DEF Ranked
      <3> QED
        BY <3>1, <2>2, <1>2, <1>3
    <2>3. CASE i # WAYS - 1 /\ ~(i < lru[way])
      <3>1. i + 1 \in Ways
        BY <2>3, <1>1, <1>2
      <3>2. PICK w \in Ways : lru[w] = i + 1
        BY <3>1 DEF Ranked
      <3> QED
        BY <3>2, <2>3, <1>2, <1>3
    <2> QED
      BY <2>1, <2>2, <2>3
  <1> QED
    BY <1>5, <1>6, <1>7 DEF Ranked

\* There is one way of rank 0: the one access replaces, and the only one whose
\* D flag it looks at.
LEMMA FreeWay ==
    ASSUME NEW e \in Entry, Ranked(e.lru)
    PROVE  /\ free_way_idx(e) \in Ways
           /\ must_writeback(e) <=> e.dirty[free_way_idx(e)]
  <1>1. 0 \in Ways
    BY CacheParameters DEF Ways
  <1>2. PICK f \in Ways : e.lru[f] = 0
    BY <1>1 DEF Ranked
  <1>3. sfree(e) = {f}
    BY <1>2 DEF sfree, Ranked
  <1>4. free_way_idx(e) = f
    <2>1. \A x \in sfree(e) : x <= f
      BY <1>3 DEF Ways
    <2>2. \A w \in sfree(e) : w = f
      BY <1>3
    <2>3. f \in sfree(e)
      BY <1>3
    <2> QED
      BY <2>1, <2>2, <2>3 DEF free_way_idx
  <1> QED
    BY <1>3, <1>4 DEF must_writeback

\* Where a line is valid its set holds it once.
LEMMA HitWay ==
    ASSUME NEW e, NEW m, NEW j, SetCoherent(e, m, j), NEW tag, NEW w \in match(e, tag)
    PROVE  (CHOOSE x \in match(e, tag) : TRUE) = w
  <1>1. match(e, tag) = {w}
    BY DEF match, SetCoherent
  <1> QED
    BY <1>1

\* What a program sees in a valid line is its bytes.
LEMMA HitView ==
    ASSUME NEW c, NEW m, NEW a \in Addr, SetCoherent(c[a.set], m, a.set),
           NEW w \in match(c[a.set], a.tag)
    PROVE  View(c, m, a) = c[a.set].lines[w][a.off]
  BY HitWay, Zenon DEF View

-----------------------------------------------------------------------------
(* What an access to a with result x leaves: a coherent cache that holds    *)
(* the line of a in way x.way, dirty after a store, and the same view.      *)
Accessed(c, m, a, store, x) ==
    /\ Coherent(x.c, x.m)
    /\ x.way \in match(x.c[a.set], a.tag)
    /\ store => x.c[a.set].dirty[x.way]
    /\ \A b \in Addr : View(x.c, x.m, b) = View(c, m, b)

\* An access that hits only touches the LRU ranks and the D flag.
LEMMA AccessHit ==
    ASSUME NEW c, NEW m, Coherent(c, m), NEW a \in Addr, NEW store \in BOOLEAN,
           match(c[a.set], a.tag) # {}
    PROVE  Accessed(c, m, a, store, access(c, m, a, store))
  <1> DEFINE e == c[a.set]
             x == access(c, m, a, store)
  <1>1. a.set \in Sets /\ a.tag \in Tags /\ a.off \in Offs
    BY DEF Addr
  <1>2. SetCoherent(e, m, a.set) /\ e \in Entry
    BY <1>1 DEF Coherent, SetCoherent
  <1>3. PICK way \in match(e, a.tag) : TRUE
    BY Zenon
  <1>4. (CHOOSE w \in match(e, a.tag) : TRUE) = way
    BY <1>2, <1>3, HitWay, Zenon
  <1>5. way \in Ways /\ e.v[way] /\ e.addr[way] = a.tag
    BY DEF match
  <1>6. /\ e.v \in [Ways -> BOOLEAN] /\ e.dirty \in [Ways -> BOOLEAN] /\ e.lru \in [Ways -> Ways]
        /\ e.addr \in [Ways -> Tags] /\ e.lines \in [Ways -> [Offs -> Byte]]
        /\ Ranked(e.lru)
    BY <1>2 DEF Entry, SetCoherent
  <1> DEFINE e1 == [v |-> [e.v EXCEPT ![way] = TRUE],
                    dirty |-> [e.dirty EXCEPT ![way] = @ \/ store],
                    lru |-> lru_nxt(e.lru, way),
                    addr |-> [e.addr EXCEPT ![way] = a.tag],
                    lines |-> e.lines]
  <1>7. x.c = [c EXCEPT ![a.set] = e1] /\ x.m = m /\ x.way = way
    BY <1>3, <1>4, Zenon DEF access
  <1>8. e1.v = e.v /\ e1.addr = e.addr /\ e1.lines = e.lines
    BY <1>5, <1>6, Zenon
  <1>9. e1 \in Entry /\ Ranked(e1.lru)
    <2>1. lru_nxt(e.lru, way) \in [Ways -> Ways] /\ Ranked(lru_nxt(e.lru, way))
      BY <1>5, <1>6, RankedNext, Zenon
    <2> QED
      BY <2>1, <1>1, <1>6, Zenon DEF Entry
  <1>10. \A w \in Ways : /\ e1.dirty[w] => e.v[w]
                         /\ ~e1.dirty[w] => ~e.dirty[w]
    BY <1>2, <1>5, <1>6 DEF SetCoherent
  <1>11. store => e1.dirty[way]
    BY <1>5, <1>6
  <1> HIDE DEF e1
  <1>12. SetCoherent(e1, m, a.set)
    BY <1>2, <1>8, <1>9, <1>10 DEF SetCoherent
  <1>13. c \in [Sets -> Entry] /\ \A j \in Sets : SetCoherent(c[j], m, j)
    BY DEF Coherent
  <1>14. x.c[a.set] = e1 /\ \A j \in Sets : j # a.set => x.c[j] = c[j]
    BY <1>1, <1>7, <1>13
  <1>15. Coherent(x.c, x.m)
    <2>1. x.c \in [Sets -> Entry]
      BY <1>7, <1>9, <1>13, Zenon
    <2>2. \A j \in Sets : SetCoherent(x.c[j], m, j)
      BY <1>12, <1>13, <1>14
    <2> QED
      BY <2>1, <2>2, <1>7 DEF Coherent
  <1>16. way \in match(e1, a.tag)
    BY <1>5, <1>8 DEF match
  <1>17. ASSUME NEW b \in Addr
         PROVE  View(x.c, x.m, b) = View(c, m, b)
    <2>1. b.set \in Sets
      BY DEF Addr
    <2>2. match(x.c[b.set], b.tag) = match(c[b.set], b.tag)
      BY <2>1, <1>8, <1>14 DEF match
    <2>3. x.c[b.set].lines = c[b.set].lines
      BY <2>1, <1>8, <1>14
    <2> QED
      BY <2>2, <2>3, <1>7 DEF View
  <1> QED
    BY <1>7, <1>11, <1>14, <1>15, <1>16, <1>17, Zenon DEF Accessed

\* A miss writes the line it replaces back when that line is dirty: the bytes a
\* program saw in it are those memory then holds.
LEMMA AccessMiss ==
    ASSUME NEW c, NEW m, Coherent(c, m), NEW a \in Addr, NEW store \in BOOLEAN,
           match(c[a.set], a.tag) = {}
    PROVE  Accessed(c, m, a, store, access(c, m, a, store))
  <1> DEFINE e == c[a.set]
             x == access(c, m, a, store)
             way == free_way_idx(e)
             m1 == evicted(e, m, a.set)
             at(tag, j, o) == [tag |-> tag, set |-> j, off |-> o]
  <1>1. a.set \in Sets /\ a.tag \in Tags /\ a.off \in Offs
    BY DEF Addr
  <1>2. SetCoherent(e, m, a.set) /\ e \in Entry /\ m \in [Addr -> Byte]
    BY <1>1 DEF Coherent, SetCoherent
  <1>3. /\ e.v \in [Ways -> BOOLEAN] /\ e.dirty \in [Ways -> BOOLEAN] /\ e.lru \in [Ways -> Ways]
        /\ e.addr \in [Ways -> Tags] /\ e.lines \in [Ways -> [Offs -> Byte]]
        /\ Ranked(e.lru)
    BY <1>2 DEF Entry, SetCoherent
  <1>4. way \in Ways /\ (must_writeback(e) <=> e.dirty[way])
    BY <1>2, <1>3, FreeWay
  <1> DEFINE e1 == [v |-> [e.v EXCEPT ![way] = TRUE],
                    dirty |-> [e.dirty EXCEPT ![way] = @ \/ store],
                    lru |-> lru_nxt(e.lru, way),
                    addr |-> [e.addr EXCEPT ![way] = a.tag],
                    lines |-> [e.lines EXCEPT ![way] = Refill(m1, a.tag, a.set)]]
  <1>5. x.c = [c EXCEPT ![a.set] = e1] /\ x.m = m1 /\ x.way = way
    BY DEF access
  <1>6. \A tag \in Tags, j \in Sets, o \in Offs : at(tag, j, o) \in Addr
    BY DEF Addr
  <1>7. \A b \in Addr : b.tag \in Tags /\ b.set \in Sets /\ b.off \in Offs /\ b = at(b.tag, b.set, b.off)
    BY DEF Addr
  \* memory after the eviction
  <1>8. \A b \in Addr : m1[b] = IF e.dirty[way] /\ b.tag = e.addr[way] /\ b.set = a.set
                                THEN e.lines[way][b.off] ELSE m[b]
    BY <1>4 DEF evicted, Writeback
  <1>9. m1 \in [Addr -> Byte]
    <2>1. \A b \in Addr : m1[b] \in Byte
      <3>1. \A b \in Addr : m[b] \in Byte
        BY <1>2
      <3>2. \A o \in Offs : e.lines[way][o] \in Byte
        BY <1>3, <1>4
      <3> HIDE DEF m1, e, way
      <3> QED
        BY <1>7, <1>8, <3>1, <3>2
    <2>2. m1 = m \/ m1 = [b \in Addr |-> m1[b]]
      BY DEF evicted, Writeback
    <2> QED
      BY <2>1, <2>2, <1>2
  <1>10. e.dirty[way] => e.v[way]
    BY <1>2, <1>4 DEF SetCoherent
  <1>11. e.v[way] => \A o \in Offs : m1[at(e.addr[way], a.set, o)] = e.lines[way][o]
    <2> SUFFICES ASSUME e.v[way], NEW o \in Offs
                 PROVE  m1[at(e.addr[way], a.set, o)] = e.lines[way][o]
      OBVIOUS
    <2>1. at(e.addr[way], a.set, o) \in Addr
      BY <1>1, <1>3, <1>4, <1>6
    <2>2. CASE e.dirty[way]
      BY <2>1, <2>2, <1>8
    <2>3. CASE ~e.dirty[way]
      BY <2>1, <2>3, <1>2, <1>4, <1>8 DEF SetCoherent
    <2> QED
      BY <2>2, <2>3
  <1> HIDE DEF m1, way
  \* the lines of the set after the refill
  <1>12. \A o \in Offs : Refill(m1, a.tag, a.set)[o] = m1[at(a.tag, a.set, o)]
    BY DEF Refill
  <1>13. Refill(m1, a.tag, a.set) \in [Offs -> Byte]
    BY <1>1, <1>6, <1>9 DEF Refill
  <1>14. e1 \in Entry /\ Ranked(e1.lru)
    <2>1. lru_nxt(e.lru, way) \in [Ways -> Ways] /\ Ranked(lru_nxt(e.lru, way))
      BY <1>3, <1>4, RankedNext, Zenon
    <2> QED
      BY <2>1, <1>1, <1>3, <1>13, Zenon DEF Entry
  <1>15. /\ e1.v[way] /\ e1.addr[way] = a.tag /\ (store => e1.dirty[way])
         /\ \A o \in Offs : e1.lines[way][o] = m1[at(a.tag, a.set, o)]
    BY <1>3, <1>4, <1>12
  <1>16. \A w \in Ways : w # way =>
            /\ e1.v[w] = e.v[w] /\ e1.addr[w] = e.addr[w] /\ e1.dirty[w] = e.dirty[w]
            /\ e1.lines[w] = e.lines[w]
    BY <1>3, <1>4
  <1>17. \A w \in Ways : ~(e.v[w] /\ e.addr[w] = a.tag)
    BY DEF match
  <1> HIDE DEF e1
  <1>18. ASSUME NEW w \in Ways, w # way, e.v[w], NEW o \in Offs
         PROVE  m1[at(e.addr[w], a.set, o)] = m[at(e.addr[w], a.set, o)]
    <2>1. at(e.addr[w], a.set, o) \in Addr
      BY <1>1, <1>3, <1>6
    <2>2. e.dirty[way] => e.addr[w] # e.addr[way]
      BY <1>2, <1>4, <1>10, <1>18 DEF SetCoherent
    <2> QED
      BY <2>1, <2>2, <1>8
  <1>19. SetCoherent(e1, m1, a.set)
    <2>1. \A u, w \in Ways : e1.v[u] /\ e1.v[w] /\ e1.addr[u] = e1.addr[w] => u = w
      BY <1>2, <1>15, <1>16, <1>17 DEF SetCoherent
    <2>2. \A w \in Ways : e1.dirty[w] => e1.v[w]
      BY <1>2, <1>15, <1>16 DEF SetCoherent
    <2>3. ASSUME NEW w \in Ways, NEW o \in Offs, e1.v[w], ~e1.dirty[w]
          PROVE  e1.lines[w][o] = m1[at(e1.addr[w], a.set, o)]
      <3>1. CASE w = way
        BY <3>1, <1>15
      <3>2. CASE w # way
        <4>1. e.v[w] /\ ~e.dirty[w] /\ e1.addr[w] = e.addr[w] /\ e1.lines[w] = e.lines[w]
          BY <2>3, <3>2, <1>16
        <4>2. e.lines[w][o] = m[at(e.addr[w], a.set, o)]
          BY <4>1, <1>2 DEF SetCoherent
        <4> QED
          BY <3>2, <4>1, <4>2, <1>18
      <3> QED
        BY <3>1, <3>2
    <2> QED
      BY <2>1, <2>2, <2>3, <1>14 DEF SetCoherent
  <1>20. c \in [Sets -> Entry] /\ \A j \in Sets : SetCoherent(c[j], m, j)
    BY DEF Coherent
  <1>21. x.c[a.set] = e1 /\ \A j \in Sets : j # a.set => x.c[j] = c[j]
    BY <1>1, <1>5, <1>20
  <1>22. Coherent(x.c, x.m)
    <2>1. x.c \in [Sets -> Entry]
      BY <1>5, <1>14, <1>20, Zenon
    <2>2. ASSUME NEW j \in Sets, j # a.set
          PROVE  SetCoherent(c[j], m1, j)
      <3>1. SetCoherent(c[j], m, j) /\ c[j].addr \in [Ways -> Tags]
        BY <1>20 DEF SetCoherent, Entry
      <3>2. \A w \in Ways, o \in Offs :
               m1[at(c[j].addr[w], j, o)] = m[at(c[j].addr[w], j, o)]
        BY <2>2, <3>1, <1>6, <1>8
      <3> QED
        BY <3>1, <3>2 DEF SetCoherent
    <2>3. \A j \in Sets : SetCoherent(x.c[j], m1, j)
      BY <2>2, <1>19, <1>21
    <2> QED
      BY <2>1, <2>3, <1>5, <1>9 DEF Coherent
  <1>23. way \in match(e1, a.tag)
    BY <1>4, <1>15 DEF match
  <1>24. ASSUME NEW b \in Addr
         PROVE  View(x.c, x.m, b) = View(c, m, b)
    <2>1. b.tag \in Tags /\ b.set \in Sets /\ b.off \in Offs /\ b = at(b.tag, b.set, b.off)
      BY <1>7
    <2>2. CASE b.set # a.set
      <3>1. x.c[b.set] = c[b.set] /\ x.m[b] = m[b]
        BY <2>1, <2>2, <1>5, <1>8, <1>21
      <3> QED
        BY <3>1 DEF View
    <2>3. CASE b.set = a.set /\ b.tag = a.tag
      <3>1. way \in match(x.c[b.set], b.tag)
        BY <2>3, <1>21, <1>23, Zenon
      <3>2. SetCoherent(x.c[b.set], x.m, b.set)
        BY <2>1, <1>22 DEF Coherent
      <3>3. View(x.c, x.m, b) = x.c[b.set].lines[way][b.off]
        BY <3>1, <3>2, HitView, Zenon
      <3>4. x.c[b.set].lines[way][b.off] = m1[b]
        BY <2>1, <2>3, <1>15, <1>21
      <3>5. m1[b] = m[b]
        BY <2>3, <1>4, <1>8, <1>10, <1>17
      <3>6. View(c, m, b) = m[b]
        BY <2>3 DEF View
      <3> QED
        BY <3>3, <3>4, <3>5, <3>6
    <2>4. CASE b.set = a.set /\ b.tag # a.tag /\ e.v[way] /\ b.tag = e.addr[way]
      <3>1. way \in match(c[b.set], b.tag)
        BY <2>4, <1>4 DEF match
      <3>2. View(c, m, b) = c[b.set].lines[way][b.off]
        <4>1. SetCoherent(c[b.set], m, b.set)
          BY <2>4, <1>2
        <4> QED
          BY <3>1, <4>1, HitView, Zenon
      <3>3. match(e1, b.tag) = {}
        BY <2>4, <1>2, <1>4, <1>15, <1>16 DEF match, SetCoherent
      <3>4. View(x.c, x.m, b) = m1[b]
        BY <2>4, <3>3, <1>5, <1>21, Zenon DEF View
      <3>5. m1[b] = e.lines[way][b.off]
        BY <2>1, <2>4, <1>11
      <3> QED
        BY <2>4, <3>2, <3>4, <3>5
    <2>5. CASE b.set = a.set /\ b.tag # a.tag /\ ~(e.v[way] /\ b.tag = e.addr[way])
      <3>1. way \notin match(e1, b.tag) /\ way \notin match(e, b.tag)
        BY <2>5, <1>15 DEF match
      <3>2. match(e1, b.tag) = match(e, b.tag)
        BY <3>1, <1>16 DEF match
      <3>3. \A w \in match(e, b.tag) : e1.lines[w] = e.lines[w]
        BY <3>1, <1>16 DEF match
      <3>4. m1[b] = m[b]
        BY <2>5, <1>8, <1>10
      <3>5. CASE match(e, b.tag) = {}
        BY <2>5, <3>2, <3>4, <3>5, <1>5, <1>21, Zenon DEF View
      <3>6. CASE match(e, b.tag) # {}
        <4>1. PICK w \in match(e, b.tag) : TRUE
          BY <3>6, Zenon
        <4>2. View(c, m, b) = e.lines[w][b.off]
          BY <2>5, <4>1, <1>2, HitView, ZenonT(40)
        <4>3. SetCoherent(x.c[b.set], x.m, b.set) /\ w \in match(x.c[b.set], b.tag)
          BY <2>5, <3>2, <4>1, <1>5, <1>19, <1>21, Zenon
        <4>4. View(x.c, x.m, b) = x.c[b.set].lines[w][b.off]
          BY <4>3, HitView, Zenon
        <4> QED
          BY <2>5, <3>3, <4>1, <4>2, <4>4, <1>21, Zenon
      <3> QED
        BY <3>5, <3>6, Zenon
    <2> QED
      BY <2>2, <2>3, <2>4, <2>5
  <1> QED
    BY <1>5, <1>15, <1>21, <1>22, <1>23, <1>24, Zenon DEF Accessed

\* Cache::access, hit or miss, load or store: it keeps the cache coherent and what
\* a program sees, and the line asked for is then in the way it returns.  The
\* assertion of access that no two ways match follows from coherence.
THEOREM AccessIsTransparent ==
    ASSUME NEW c, NEW m, Coherent(c, m), NEW a \in Addr, NEW store \in BOOLEAN
    PROVE  Accessed(c, m, a, store, access(c, m, a, store))
  BY AccessHit, AccessMiss, Zenon

\* Cache::phy_readm8, 16 and 32 return the bytes a program sees at the addresses
\* read, and change none of them.
THEOREM ReadReturnsView ==
    ASSUME NEW c, NEW m, Coherent(c, m), NEW a \in Addr, NEW n \in Nat,
           NEW r, r = cache_readm(c, m, a, n)
    PROVE  /\ Coherent(r.c, r.m)
           /\ \A b \in Addr : View(r.c, r.m, b) = View(c, m, b)
           /\ \A k \in 0 .. n - 1 :
                 r.bytes[k] = View(c, m, [a EXCEPT !.off = (a.off + k) % OFFS])
  <1> DEFINE x == access(c, m, a, FALSE)
  <1>1. Accessed(c, m, a, FALSE, x)
    BY AccessIsTransparent, Zenon
  <1>2. r.c = x.c /\ r.m = x.m
        /\ \A k \in 0 .. n - 1 : r.bytes[k] = x.c[a.set].lines[x.way][(a.off + k) % OFFS]
    BY DEF cache_readm
  <1> HIDE DEF x
  <1>3. ASSUME NEW k \in 0 .. n - 1
        PROVE  r.bytes[k] = View(c, m, [a EXCEPT !.off = (a.off + k) % OFFS])
    <2> DEFINE b == [a EXCEPT !.off = (a.off + k) % OFFS]
    <2>1. a.off \in Nat /\ OFFS \in Nat /\ OFFS > 0 /\ k \in Nat
      BY CacheParameters DEF Addr, Offs
    <2>2. (a.off + k) % OFFS \in Offs
      BY <2>1 DEF Offs
    <2>3. b \in Addr /\ b.set = a.set /\ b.tag = a.tag /\ b.off = (a.off + k) % OFFS
      BY <2>2 DEF Addr
    <2> HIDE DEF b
    <2>4. x.way \in match(x.c[b.set], b.tag) /\ SetCoherent(x.c[b.set], x.m, b.set)
      BY <2>3, <1>1, Zenon DEF Accessed, Coherent, Addr
    <2>5. View(x.c, x.m, b) = x.c[b.set].lines[x.way][b.off]
      BY <2>3, <2>4, HitView, Zenon
    <2>6. View(x.c, x.m, b) = View(c, m, b)
      BY <2>3, <1>1 DEF Accessed
    <2> QED
      BY <2>3, <2>5, <2>6, <1>2, Zenon DEF b
  <1> QED
    BY <1>1, <1>2, <1>3 DEF Accessed

\* Cache::phy_writem8, 16 and 32 change what a program sees at the addresses
\* written, to the bytes written, and nowhere else.
THEOREM WriteUpdatesView ==
    ASSUME NEW c, NEW m, Coherent(c, m), NEW a \in Addr, NEW n \in Nat,
           NEW bytes \in [0 .. n - 1 -> Byte], NEW r, r = cache_writem(c, m, a, n, bytes)
    PROVE  /\ Coherent(r.c, r.m)
           /\ \A b \in Addr :
                 LET ks == {k \in 0 .. n - 1 : b.off = (a.off + k) % OFFS}
                 IN  IF b.tag = a.tag /\ b.set = a.set /\ ks # {}
                     THEN \E k \in ks : View(r.c, r.m, b) = bytes[k]
                     ELSE View(r.c, r.m, b) = View(c, m, b)
  <1> DEFINE x == access(c, m, a, TRUE)
             e == x.c[a.set]
             ks(o) == {k \in 0 .. n - 1 : o = (a.off + k) % OFFS}
             line == [o \in Offs |->
                        IF \E k \in 0 .. n - 1 : o = (a.off + k) % OFFS
                        THEN bytes[CHOOSE k \in 0 .. n - 1 : o = (a.off + k) % OFFS]
                        ELSE e.lines[x.way][o]]
             e1 == [e EXCEPT !.lines[x.way] = line]
  <1>1. Accessed(c, m, a, TRUE, x)
    BY AccessIsTransparent, Zenon
  <1>2. r.m = x.m /\ r.c = [x.c EXCEPT ![a.set].lines[x.way] = line]
    BY Zenon DEF cache_writem
  <1> HIDE DEF x
  <1>3. a.set \in Sets /\ a.tag \in Tags /\ a.off \in Offs
    BY DEF Addr
  <1>4. /\ x.c \in [Sets -> Entry] /\ x.m \in [Addr -> Byte]
        /\ \A j \in Sets : SetCoherent(x.c[j], x.m, j)
    BY <1>1 DEF Accessed, Coherent
  <1>5. /\ e \in Entry /\ SetCoherent(e, x.m, a.set)
        /\ e.v \in [Ways -> BOOLEAN] /\ e.dirty \in [Ways -> BOOLEAN] /\ e.lru \in [Ways -> Ways]
        /\ e.addr \in [Ways -> Tags] /\ e.lines \in [Ways -> [Offs -> Byte]]
    BY <1>3, <1>4 DEF Entry
  <1>6. x.way \in Ways /\ e.v[x.way] /\ e.addr[x.way] = a.tag /\ e.dirty[x.way]
    BY <1>1 DEF Accessed, match
  <1>7. \A o \in Offs : IF ks(o) # {} THEN \E k \in ks(o) : line[o] = bytes[k]
                        ELSE line[o] = e.lines[x.way][o]
    <2> SUFFICES ASSUME NEW o \in Offs
                 PROVE  IF ks(o) # {} THEN \E k \in ks(o) : line[o] = bytes[k]
                        ELSE line[o] = e.lines[x.way][o]
      BY Zenon
    <2>1. CASE ks(o) # {}
      <3> DEFINE k0 == CHOOSE k \in 0 .. n - 1 : o = (a.off + k) % OFFS
      <3>1. \E k \in 0 .. n - 1 : o = (a.off + k) % OFFS
        BY <2>1
      <3>2. k0 \in 0 .. n - 1 /\ o = (a.off + k0) % OFFS
        BY <3>1, Zenon
      <3>3. line[o] = bytes[k0]
        BY <3>1
      <3> HIDE DEF k0, line
      <3> QED
        BY <3>2, <3>3
    <2>2. CASE ks(o) = {}
      <3>1. ~\E k \in 0 .. n - 1 : o = (a.off + k) % OFFS
        BY <2>2
      <3> QED
        BY <2>2, <3>1
    <2> QED
      BY <2>1, <2>2, Zenon
  <1>8. line \in [Offs -> Byte]
    <2>1. ASSUME NEW o \in Offs PROVE line[o] \in Byte
      <3>1. CASE ks(o) # {}
        <4>1. PICK k \in ks(o) : line[o] = bytes[k]
          BY <3>1, <1>7, Zenon
        <4>2. k \in 0 .. n - 1
          OBVIOUS
        <4>3. bytes[k] \in Byte
          BY <4>2, Zenon
        <4> QED
          BY <4>1, <4>3
      <3>2. CASE ks(o) = {}
        <4>1. line[o] = e.lines[x.way][o]
          BY <3>2, <1>7
        <4>2. e.lines[x.way] \in [Offs -> Byte]
          BY <1>5, <1>6
        <4> QED
          BY <4>1, <4>2
      <3> QED
        BY <3>1, <3>2
    <2> QED
      BY <2>1
  <1> HIDE DEF line
  <1>9. /\ e1 \in Entry /\ e1.v = e.v /\ e1.lru = e.lru /\ e1.addr = e.addr /\ e1.dirty = e.dirty
        /\ e1.lines[x.way] = line
        /\ \A w \in Ways : w # x.way => e1.lines[w] = e.lines[w]
    BY <1>5, <1>6, <1>8, Zenon DEF Entry
  <1>10. r.c[a.set] = e1 /\ r.c \in [Sets -> Entry] /\ \A j \in Sets : j # a.set => r.c[j] = x.c[j]
    BY <1>2, <1>3, <1>4, <1>9
  <1> HIDE DEF e1
  <1>11. SetCoherent(e1, x.m, a.set)
    <2> HIDE DEF e
    <2>1. \A w \in Ways, o \in Offs : e1.v[w] /\ ~e1.dirty[w] =>
             e1.lines[w][o] = x.m[[tag |-> e1.addr[w], set |-> a.set, off |-> o]]
      <3>1. \A w \in Ways, o \in Offs : e.v[w] /\ ~e.dirty[w] =>
               e.lines[w][o] = x.m[[tag |-> e.addr[w], set |-> a.set, off |-> o]]
        BY <1>5 DEF SetCoherent
      <3>2. \A w \in Ways : ~e1.dirty[w] => e1.lines[w] = e.lines[w]
        BY <1>6, <1>9, Zenon
      <3>3. ASSUME NEW w \in Ways, NEW o \in Offs, e1.v[w], ~e1.dirty[w]
            PROVE  e1.lines[w][o] = x.m[[tag |-> e1.addr[w], set |-> a.set, off |-> o]]
        <4>1. e.v[w] /\ ~e.dirty[w] /\ e1.lines[w] = e.lines[w] /\ e1.addr[w] = e.addr[w]
          BY <1>9, <3>2, <3>3, Zenon
        <4>2. e.lines[w][o] = x.m[[tag |-> e.addr[w], set |-> a.set, off |-> o]]
          BY <3>1, <4>1, Zenon
        <4> QED
          BY <4>1, <4>2, Zenon
      <3> QED
        BY <3>3, Zenon
    <2>2. /\ \A u, w \in Ways : e1.v[u] /\ e1.v[w] /\ e1.addr[u] = e1.addr[w] => u = w
          /\ \A w \in Ways : e1.dirty[w] => e1.v[w]
          /\ Ranked(e1.lru)
      BY <1>5, <1>9 DEF SetCoherent
    <2> QED
      BY <2>1, <2>2, <1>9 DEF SetCoherent
  <1>12. Coherent(r.c, r.m)
    BY <1>2, <1>4, <1>10, <1>11 DEF Coherent
  <1>13. ASSUME NEW b \in Addr
         PROVE  IF b.tag = a.tag /\ b.set = a.set /\ ks(b.off) # {}
                THEN \E k \in ks(b.off) : View(r.c, r.m, b) = bytes[k]
                ELSE View(r.c, r.m, b) = View(c, m, b)
    <2>1. b.set \in Sets /\ b.off \in Offs
      BY DEF Addr
    <2>2. View(x.c, x.m, b) = View(c, m, b)
      BY <1>1 DEF Accessed
    <2>3. match(r.c[b.set], b.tag) = match(x.c[b.set], b.tag)
      BY <2>1, <1>9, <1>10 DEF match
    <2>4. SetCoherent(r.c[b.set], r.m, b.set) /\ SetCoherent(x.c[b.set], x.m, b.set)
      BY <2>1, <1>4, <1>12 DEF Coherent
    <2>5. CASE match(x.c[b.set], b.tag) = {}
      <3>1. ~(b.tag = a.tag /\ b.set = a.set)
        BY <2>5, <1>6 DEF match
      <3>2. View(r.c, r.m, b) = View(x.c, x.m, b)
        BY <2>3, <2>5, <1>2 DEF View
      <3> QED
        BY <3>1, <3>2, <2>2
    <2>6. CASE match(x.c[b.set], b.tag) # {}
      <3>1. PICK w \in match(x.c[b.set], b.tag) : TRUE
        BY <2>6, Zenon
      <3>2. View(x.c, x.m, b) = x.c[b.set].lines[w][b.off]
        BY <3>1, <2>4, HitView, Zenon
      <3>3. View(r.c, r.m, b) = r.c[b.set].lines[w][b.off]
        <4>1. w \in match(r.c[b.set], b.tag)
          BY <3>1, <2>3, Zenon
        <4> QED
          BY <4>1, <2>4, HitView, Zenon
      <3>4. w \in Ways /\ x.c[b.set].v[w] /\ x.c[b.set].addr[w] = b.tag
        BY <3>1 DEF match
      <3>5. CASE b.tag = a.tag /\ b.set = a.set
        <4>1. w = x.way
          <5>1. \A u, y \in Ways : e.v[u] /\ e.v[y] /\ e.addr[u] = e.addr[y] => u = y
            BY <1>5 DEF SetCoherent
          <5>2. e.v[w] /\ e.addr[w] = e.addr[x.way]
            BY <3>4, <3>5, <1>6
          <5> QED
            BY <3>4, <5>1, <5>2, <1>6, Zenon
        <4>2. View(r.c, r.m, b) = line[b.off]
          BY <3>3, <3>5, <4>1, <1>9, <1>10
        <4>3. View(c, m, b) = e.lines[x.way][b.off]
          BY <2>2, <3>2, <3>5, <4>1
        <4> HIDE DEF ks, line, e
        <4> QED
          BY <2>1, <3>5, <4>2, <4>3, <1>7, ZenonT(40)
      <3>6. CASE b.tag # a.tag /\ b.set = a.set
        <4>1. w # x.way
          BY <3>4, <3>6, <1>6, Zenon
        <4> QED
          <5>1. r.c[b.set] = e1 /\ e1.lines[w] = e.lines[w] /\ x.c[b.set] = e
            BY <3>4, <3>6, <4>1, <1>9, <1>10, Zenon
          <5>2. View(r.c, r.m, b) = View(x.c, x.m, b)
            BY <3>2, <3>3, <5>1, Zenon
          <5> QED
            BY <2>1, <2>2, <3>6, <5>2, Zenon
      <3>7. CASE b.set # a.set
        BY <2>1, <2>2, <3>2, <3>3, <3>7, <1>10
      <3> QED
        BY <3>5, <3>6, <3>7
    <2> QED
      BY <2>5, <2>6, Zenon
  <1> QED
    BY <1>12, <1>13

\* Cache::flush brings the line of its address to memory, and changes nothing a
\* program sees.
THEOREM FlushWritesBack ==
    ASSUME NEW c, NEW m, Coherent(c, m), NEW a \in Addr, NEW r, r = flush(c, m, a)
    PROVE  /\ Coherent(r.c, r.m)
           /\ \A b \in Addr : View(r.c, r.m, b) = View(c, m, b)
           /\ \A b \in Addr : b.tag = a.tag /\ b.set = a.set => r.m[b] = View(c, m, b)
  <1> DEFINE e == c[a.set]
             hits == {w \in match(e, a.tag) : e.dirty[w]}
             e1 == [e EXCEPT !.dirty = [w \in Ways |-> e.dirty[w] /\ w \notin hits]]
             at(tag, j, o) == [tag |-> tag, set |-> j, off |-> o]
  <1>1. a.set \in Sets /\ a.tag \in Tags /\ a.off \in Offs
    BY DEF Addr
  <1>2. SetCoherent(e, m, a.set) /\ e \in Entry /\ m \in [Addr -> Byte] /\ c \in [Sets -> Entry]
    BY <1>1 DEF Coherent, SetCoherent
  <1>3. /\ e.v \in [Ways -> BOOLEAN] /\ e.dirty \in [Ways -> BOOLEAN] /\ e.lru \in [Ways -> Ways]
        /\ e.addr \in [Ways -> Tags] /\ e.lines \in [Ways -> [Offs -> Byte]]
        /\ Ranked(e.lru)
    BY <1>2 DEF Entry, SetCoherent
  <1>4. /\ e1 \in Entry /\ e1.v = e.v /\ e1.lru = e.lru /\ e1.addr = e.addr /\ e1.lines = e.lines
        /\ \A w \in Ways : e1.dirty[w] <=> e.dirty[w] /\ w \notin hits
    BY <1>2, <1>3, Zenon DEF Entry
  <1>5. r.c = [c EXCEPT ![a.set] = e1]
    BY <1>2 DEF flush
  <1>6. r.c[a.set] = e1 /\ r.c \in [Sets -> Entry] /\ \A j \in Sets : j # a.set => r.c[j] = c[j]
    BY <1>1, <1>2, <1>4, <1>5, Zenon
  <1>7. \A b \in Addr : b.tag \in Tags /\ b.set \in Sets /\ b.off \in Offs /\ b = at(b.tag, b.set, b.off)
    BY DEF Addr
  <1>8. \A tag \in Tags, j \in Sets, o \in Offs : at(tag, j, o) \in Addr
    BY DEF Addr
  <1>9. ASSUME NEW w \in hits, NEW b \in Addr
        PROVE  r.m[b] = IF b.tag = a.tag /\ b.set = a.set THEN e.lines[w][b.off] ELSE m[b]
    <2>1. w \in match(e, a.tag) /\ e.dirty[w]
      BY Zenon
    <2>2. hits = {w}
      BY <2>1, <1>2 DEF match, SetCoherent
    <2>3. (CHOOSE h \in hits : TRUE) = w
      BY <2>2, Zenon
    <2>4. r.m = Writeback(m, a.tag, a.set, e.lines[w])
      BY <2>2, <2>3, Zenon DEF flush
    <2> QED
      BY <2>4 DEF Writeback
  <1>10. hits = {} => r.m = m
    BY DEF flush
  <1> HIDE DEF e1
  <1>11. \A b \in Addr : b.set # a.set => r.m[b] = m[b]
    BY <1>9, <1>10, Zenon
  <1>12. ASSUME NEW w \in Ways, NEW o \in Offs, e.v[w], ~e1.dirty[w]
         PROVE  e.lines[w][o] = r.m[at(e.addr[w], a.set, o)]
    <2>1. at(e.addr[w], a.set, o) \in Addr
      BY <1>1, <1>3, <1>8
    <2>2. CASE w \in hits
      <3>1. e.addr[w] = a.tag
        BY <2>2 DEF match
      <3> QED
        BY <2>1, <2>2, <3>1, <1>9, Zenon
    <2>3. CASE w \notin hits
      <3>1. e.lines[w][o] = m[at(e.addr[w], a.set, o)] /\ ~e.dirty[w]
        BY <2>3, <1>2, <1>4, <1>12, Zenon DEF SetCoherent
      <3>2. CASE hits = {}
        BY <3>1, <3>2, <1>10, Zenon
      <3>3. CASE hits # {}
        <4>1. PICK h \in hits : TRUE
          BY <3>3, Zenon
        <4>2. e.addr[w] # a.tag
          BY <2>3, <4>1, <1>2, <1>12 DEF match, SetCoherent
        <4> QED
          BY <2>1, <3>1, <4>1, <4>2, <1>9, Zenon
      <3> QED
        BY <3>2, <3>3, Zenon
    <2> QED
      BY <2>2, <2>3, Zenon
  <1>13. SetCoherent(e1, r.m, a.set)
    <2>1. \A w \in Ways, o \in Offs : e1.v[w] /\ ~e1.dirty[w] =>
             e1.lines[w][o] = r.m[at(e1.addr[w], a.set, o)]
      BY <1>4, <1>12
    <2>2. /\ \A u, w \in Ways : e1.v[u] /\ e1.v[w] /\ e1.addr[u] = e1.addr[w] => u = w
          /\ \A w \in Ways : e1.dirty[w] => e1.v[w]
          /\ Ranked(e1.lru)
      BY <1>2, <1>4, Zenon DEF SetCoherent
    <2> QED
      BY <2>1, <2>2, <1>4, Zenon DEF SetCoherent
  <1>14. ASSUME NEW j \in Sets, j # a.set
         PROVE  SetCoherent(c[j], r.m, j)
    <2>1. SetCoherent(c[j], m, j) /\ c[j].addr \in [Ways -> Tags]
      BY <1>2 DEF Coherent, Entry
    <2>2. \A w \in Ways, o \in Offs : r.m[at(c[j].addr[w], j, o)] = m[at(c[j].addr[w], j, o)]
      BY <2>1, <1>8, <1>11, <1>14
    <2>3. \A w \in Ways, o \in Offs : c[j].v[w] /\ ~c[j].dirty[w] =>
             c[j].lines[w][o] = m[at(c[j].addr[w], j, o)]
      BY <2>1 DEF SetCoherent
    <2>4. \A w \in Ways, o \in Offs : c[j].v[w] /\ ~c[j].dirty[w] =>
             c[j].lines[w][o] = r.m[at(c[j].addr[w], j, o)]
      <3>1. ASSUME NEW w \in Ways, NEW o \in Offs, c[j].v[w], ~c[j].dirty[w]
            PROVE  c[j].lines[w][o] = r.m[at(c[j].addr[w], j, o)]
        BY <2>2, <2>3, <3>1
      <3> QED
        BY <3>1, Zenon
    <2> QED
      BY <2>1, <2>4 DEF SetCoherent
  <1>15. r.m \in [Addr -> Byte]
    <2>1. \A b \in Addr : r.m[b] \in Byte
      <3>1. \A w \in hits, b \in Addr : e.lines[w][b.off] \in Byte
        BY <1>3, <1>7 DEF match
      <3> QED
        BY <3>1, <1>2, <1>9, <1>10, Zenon
    <2>2. r.m = m \/ r.m = [b \in Addr |-> r.m[b]]
      BY Zenon DEF flush, Writeback
    <2> QED
      BY <2>1, <2>2, <1>2, Zenon
  <1>16. Coherent(r.c, r.m)
    <2>1. \A j \in Sets : SetCoherent(r.c[j], r.m, j)
      BY <1>6, <1>13, <1>14
    <2> QED
      BY <2>1, <1>6, <1>15 DEF Coherent
  <1>17. ASSUME NEW b \in Addr
         PROVE  /\ View(r.c, r.m, b) = View(c, m, b)
                /\ b.tag = a.tag /\ b.set = a.set => r.m[b] = View(c, m, b)
    <2>1. b.set \in Sets /\ b.off \in Offs /\ b = at(b.tag, b.set, b.off)
      BY <1>7
    <2>2. match(r.c[b.set], b.tag) = match(c[b.set], b.tag)
      BY <2>1, <1>4, <1>6 DEF match
    <2>3. SetCoherent(r.c[b.set], r.m, b.set) /\ SetCoherent(c[b.set], m, b.set)
      BY <2>1, <1>16 DEF Coherent
    <2>4. CASE match(c[b.set], b.tag) = {}
      <3>1. r.m[b] = m[b]
        BY <2>4, <1>9, <1>10, Zenon
      <3> QED
        BY <2>2, <2>4, <3>1 DEF View
    <2>5. CASE match(c[b.set], b.tag) # {}
      <3>1. PICK w \in match(c[b.set], b.tag) : TRUE
        BY <2>5, Zenon
      <3>2. View(c, m, b) = c[b.set].lines[w][b.off]
        BY <3>1, <2>3, HitView, Zenon
      <3>3. View(r.c, r.m, b) = r.c[b.set].lines[w][b.off]
        <4>1. w \in match(r.c[b.set], b.tag)
          BY <3>1, <2>2, Zenon
        <4> QED
          BY <4>1, <2>3, HitView, Zenon
      <3>4. r.c[b.set].lines = c[b.set].lines
        BY <2>1, <1>4, <1>6
      <3>5. ASSUME b.tag = a.tag, b.set = a.set
            PROVE  r.m[b] = e.lines[w][b.off]
        <4>1. w \in Ways /\ e.v[w] /\ e.addr[w] = a.tag /\ w \in match(e, a.tag)
          BY <3>1, <3>5 DEF match
        <4>2. ~e1.dirty[w]
          BY <4>1, <1>4, Zenon
        <4> QED
          BY <2>1, <3>5, <4>1, <4>2, <1>12
      <3> QED
        BY <3>2, <3>3, <3>4, <3>5
    <2> QED
      BY <2>4, <2>5, Zenon
  <1> QED
    BY <1>16, <1>17

\* What the constructor leaves in a set whose flags are d and whose lines are l.
LEMMA ConstructedSet ==
    ASSUME NEW e, NEW m, NEW j \in Sets,
           NEW d \in [Ways -> BOOLEAN], NEW l \in [Ways -> [Offs -> Heap]],
           e = [v |-> [w \in Ways |-> FALSE], dirty |-> d, lru |-> [w \in Ways |-> w],
                addr |-> [w \in Ways |-> 0], lines |-> l]
    PROVE  /\ e \in Entry
           /\ \A w \in Ways : ~e.v[w]
           /\ (\A w \in Ways : ~d[w]) <=> SetCoherent(e, m, j)
  <1>1. /\ e.v = [w \in Ways |-> FALSE] /\ e.dirty = d /\ e.lru = [w \in Ways |-> w]
        /\ e.addr = [w \in Ways |-> 0] /\ e.lines = l
    BY Zenon
  <1>2. e \in Entry
    <2>1. 0 \in Tags /\ Heap \subseteq Byte
      BY CacheParameters DEF Byte
    <2>2. e = [v |-> e.v, dirty |-> e.dirty, lru |-> e.lru, addr |-> e.addr, lines |-> e.lines]
      BY Zenon
    <2>3. /\ e.v \in [Ways -> BOOLEAN] /\ e.lru \in [Ways -> Ways] /\ e.addr \in [Ways -> Tags]
      BY <1>1, <2>1
    <2>4. e.dirty \in [Ways -> BOOLEAN] /\ e.lines \in [Ways -> [Offs -> Byte]]
      BY <1>1, <2>1
    <2> QED
      BY <2>2, <2>3, <2>4, Zenon DEF Entry
  <1>3. \A w \in Ways : ~e.v[w]
    BY <1>1
  <1>4. Ranked(e.lru)
    BY <1>1 DEF Ranked
  <1>5. ASSUME \A w \in Ways : ~d[w] PROVE SetCoherent(e, m, j)
    BY <1>1, <1>2, <1>3, <1>4, <1>5 DEF SetCoherent
  <1>6. ASSUME SetCoherent(e, m, j) PROVE \A w \in Ways : ~d[w]
    BY <1>1, <1>3, <1>6, Zenon DEF SetCoherent
  <1> QED
    BY <1>2, <1>3, <1>5, <1>6, Zenon

\* Through a new cache a program sees memory, and a set whose flags the constructor
\* has cleared is coherent; all sets of every new cache are, exactly if there are as
\* many sets as ways, since the constructor exchanges the indices of cache_dirty.
THEOREM ConstructedCoherence ==
    ASSUME NEW m \in [Addr -> Byte]
    PROVE  /\ \A c \in Constructed, a \in Addr : View(c, m, a) = m[a]
           /\ \A c \in Constructed, j \in Sets :
                 (\A w \in Ways : Cleared(w, j)) => SetCoherent(c[j], m, j)
           /\ (\A c \in Constructed : Coherent(c, m)) <=> SETS = WAYS
  <1> DEFINE set(d, l) == [v |-> [w \in Ways |-> FALSE], dirty |-> d, lru |-> [w \in Ways |-> w],
                           addr |-> [w \in Ways |-> 0], lines |-> l]
             flags == {x \in [Sets -> [Ways -> BOOLEAN]] :
                         \A k \in Sets, w \in Ways : Cleared(w, k) => ~x[k][w]}
             fill == [Sets -> [Ways -> [Offs -> Heap]]]
             good(c) == /\ c \in [Sets -> Entry]
                        /\ \A j \in Sets : \A w \in Ways : ~c[j].v[w]
                        /\ \A j \in Sets : (\A w \in Ways : Cleared(w, j)) => SetCoherent(c[j], m, j)
             new(d, l) == [k \in Sets |-> set(d[k], l[k])]
  <1>1. \A c : c \in Constructed <=> \E d \in flags, l \in fill : c = new(d, l)
    <2>1. Constructed = {new(d, l) : d \in flags, l \in fill}
      BY DEF Constructed
    <2> HIDE DEF new, flags, fill
    <2> QED
      BY <2>1
  <1>2. ASSUME NEW c \in Constructed PROVE good(c)
    <2>1. PICK d \in flags, l \in fill : c = new(d, l)
      <3> HIDE DEF new, flags, fill
      <3> QED
        BY <1>1, <1>2, Zenon
    <2>2. ASSUME NEW j \in Sets
          PROVE  /\ c[j] \in Entry /\ \A w \in Ways : ~c[j].v[w]
                 /\ (\A w \in Ways : Cleared(w, j)) => SetCoherent(c[j], m, j)
      <3>1. d[j] \in [Ways -> BOOLEAN] /\ l[j] \in [Ways -> [Offs -> Heap]] /\ c[j] = set(d[j], l[j])
        BY <2>1
      <3>2. (\A w \in Ways : Cleared(w, j)) => (\A w \in Ways : ~d[j][w])
        BY <2>1, Zenon
      <3>3. /\ c[j] \in Entry
            /\ \A w \in Ways : ~c[j].v[w]
            /\ (\A w \in Ways : ~d[j][w]) <=> SetCoherent(c[j], m, j)
        BY <3>1, ConstructedSet, Zenon
      <3> QED
        BY <3>2, <3>3, Zenon
    <2>3. c = [j \in Sets |-> c[j]]
      BY <2>1, Zenon
    <2>4. c \in [Sets -> Entry]
      BY <2>2, <2>3, Zenon
    <2> QED
      BY <2>2, <2>4, Zenon
  <1>3. ASSUME NEW c \in Constructed, NEW a \in Addr PROVE View(c, m, a) = m[a]
    <2>1. a.set \in Sets
      BY DEF Addr
    <2>2. \A w \in Ways : ~c[a.set].v[w]
      BY <1>2, <2>1, Zenon
    <2>3. match(c[a.set], a.tag) = {}
      BY <2>2, Zenon DEF match
    <2> QED
      BY <2>3, Zenon DEF View
  <1>4. ASSUME SETS = WAYS, NEW c \in Constructed PROVE Coherent(c, m)
    <2>1. \A j \in Sets, w \in Ways : Cleared(w, j)
      BY <1>4, CacheParameters DEF Cleared, Sets, Ways
    <2> QED
      BY <1>2, <2>1, Zenon DEF Coherent
  <1>5. ASSUME SETS # WAYS PROVE \E c \in Constructed : ~Coherent(c, m)
    <2>1. PICK j \in Sets, w \in Ways : ~Cleared(w, j)
      <3>1. CASE SETS > WAYS
        <4>1. WAYS \in Sets /\ 0 \in Ways /\ ~Cleared(0, WAYS)
          BY <3>1, CacheParameters DEF Cleared, Sets, Ways
        <4> QED
          BY <4>1, Zenon
      <3>2. CASE SETS < WAYS
        <4>1. 0 \in Sets /\ SETS \in Ways /\ ~Cleared(SETS, 0)
          BY <3>2, CacheParameters DEF Cleared, Sets, Ways
        <4> QED
          BY <4>1, Zenon
      <3> QED
        BY <1>5, <3>1, <3>2, CacheParameters
    <2>2. PICK h \in Heap : TRUE
      BY CacheParameters, Zenon
    <2> DEFINE d == [k \in Sets |-> [x \in Ways |-> ~Cleared(x, k)]]
               l == [k \in Sets |-> [x \in Ways |-> [o \in Offs |-> h]]]
               c == new(d, l)
    <2>3. d \in flags
      <3>1. d \in [Sets -> [Ways -> BOOLEAN]]
        BY Zenon
      <3>2. \A k \in Sets, x \in Ways : Cleared(x, k) => ~d[k][x]
        BY Zenon
      <3> QED
        BY <3>1, <3>2, Zenon
    <2>4. l \in fill
      BY <2>2, Zenon
    <2>5. c \in Constructed
      <3> HIDE DEF new, flags, fill, d, l
      <3> QED
        BY <1>1, <2>3, <2>4, Zenon
    <2>6. ~SetCoherent(c[j], m, j)
      <3>1. d[j] \in [Ways -> BOOLEAN] /\ l[j] \in [Ways -> [Offs -> Heap]]
        BY <2>3, <2>4, Zenon
      <3>2. c[j] = set(d[j], l[j])
        BY Zenon
      <3>3. d[j][w]
        BY <2>1, Zenon
      <3>4. (\A x \in Ways : ~d[j][x]) <=> SetCoherent(c[j], m, j)
        <4> HIDE DEF d, l, c
        <4> QED
          BY <3>1, <3>2, ConstructedSet, Zenon
      <3> HIDE DEF d, l, c
      <3> QED
        BY <3>3, <3>4, Zenon
    <2>7. ~Coherent(c, m)
      BY <2>6, Zenon DEF Coherent
    <2> HIDE DEF c
    <2> QED
      BY <2>5, <2>7, Zenon
  <1> QED
    BY <1>2, <1>3, <1>4, <1>5, Zenon

-----------------------------------------------------------------------------
(* The devices                                                              *)

\* The fields the operations of the UART assign to exist.
Shape(x) ==
    /\ {"uart", "dram", "flash", "irr", "host", "dat", "running"} \subseteq DOMAIN x
    /\ \A f \in {"uart", "dram", "flash"} : Trees \subseteq DOMAIN x[f]
    /\ \A d \in Trees : /\ DOMAIN reset \subseteq DOMAIN x.uart[d]
                        /\ x.uart[d].IIR \in Nat
    /\ x.irr \in BOOLEAN

Quiet(u) == Idle(u) => ~(u.dat_ready /\ RxEnabled(u)) /\ ~(u.RBR_written /\ TxEnabled(u))

Line(x) == x.irr <=> ~Idle(x.uart["emu"])

\* An operation on tree d that leads from x to y leaves the other tree alone;
\* only that of the emulator moves the interrupt line, and with IIR.
Keeps(x, y, d) ==
    /\ Shape(y)
    /\ \A e \in Trees \ {d} : \A f \in {"uart", "dram", "flash"} : y[f][e] = x[f][e]
    /\ d = "rtl" => y.irr = x.irr
    /\ d = "emu" /\ Line(x) => Line(y)

-----------------------------------------------------------------------------
\* The registers of the UART.
LEMMA ResetFields ==
    DOMAIN reset = {"RBR", "DLR", "IER", "LCR_DLAB", "IIR", "dat_ready", "RBR_written"}
  BY DEF reset

\* Operations follow one another.
LEMMA KeepsTransitive ==
    ASSUME NEW x, NEW y, NEW z, NEW d \in Trees, Keeps(x, y, d), Keeps(y, z, d)
    PROVE  Keeps(x, z, d)
  BY DEF Keeps

\* Doing nothing keeps everything.
LEMMA KeepsReflexive ==
    ASSUME NEW x, Shape(x), NEW d \in Trees
    PROVE  Keeps(x, x, d)
  BY DEF Keeps

\* A register other than IIR is written: neither the line nor IIR moves.
LEMMA AssignKeeps ==
    ASSUME NEW x, Shape(x), NEW d \in Trees, NEW f \in DOMAIN reset \ {"IIR"}, NEW v
    PROVE  LET y == [x EXCEPT !.uart[d][f] = v]
           IN  /\ Keeps(x, y, d)
               /\ y.uart[d][f] = v
               /\ \A g \in DOMAIN reset \ {f} : y.uart[d][g] = x.uart[d][g]
  <1> DEFINE y == [x EXCEPT !.uart[d][f] = v]
  <1>1. DOMAIN y = DOMAIN x /\ y.irr = x.irr /\ y.dram = x.dram /\ y.flash = x.flash
    BY DEF Shape
  <1>2. y.uart = [x.uart EXCEPT ![d] = [x.uart[d] EXCEPT ![f] = v]]
    BY DEF Shape
  <1>3. /\ y.uart[d] = [x.uart[d] EXCEPT ![f] = v] /\ DOMAIN y.uart = DOMAIN x.uart
        /\ \A e \in Trees \ {d} : y.uart[e] = x.uart[e]
    BY <1>2 DEF Shape
  <1>4. /\ y.uart[d][f] = v /\ DOMAIN y.uart[d] = DOMAIN x.uart[d]
        /\ \A g \in DOMAIN reset \ {f} : y.uart[d][g] = x.uart[d][g]
    BY <1>3 DEF Shape
  <1>5. "IIR" \in DOMAIN reset
    BY ResetFields
  <1>6. y.uart[d].IIR = x.uart[d].IIR
    BY <1>4, <1>5
  <1> HIDE DEF y
  <1>7. Shape(y)
    BY <1>1, <1>3, <1>4, <1>6, Zenon DEF Shape
  <1>8. Keeps(x, y, d)
    BY <1>1, <1>3, <1>6, <1>7, Zenon DEF Keeps, Line, Idle
  <1> QED
    BY <1>4, <1>8 DEF y

\* What touches neither a UART nor the line keeps both.
LEMMA ElsewhereKeeps ==
    ASSUME NEW x, Shape(x), NEW d \in Trees, NEW y,
           DOMAIN y = DOMAIN x, y.uart = x.uart, y.irr = x.irr,
           \A f \in {"dram", "flash"} :
               DOMAIN y[f] = DOMAIN x[f] /\ \A e \in Trees \ {d} : y[f][e] = x[f][e]
    PROVE  Keeps(x, y, d)
  BY DEF Keeps, Shape, Line

\* IIR is written, and the line of the emulator with it.
LEMMA MoveKeeps ==
    ASSUME NEW x, Shape(x), NEW d \in Trees, NEW v \in Nat, NEW y,
           DOMAIN y = DOMAIN x, y.uart = [x.uart EXCEPT ![d] = [x.uart[d] EXCEPT !.IIR = v]],
           y.dram = x.dram, y.flash = x.flash,
           y.irr \in BOOLEAN, d = "rtl" => y.irr = x.irr, d = "emu" => (y.irr <=> v % 2 # 1)
    PROVE  /\ Keeps(x, y, d)
           /\ y.uart[d].IIR = v
           /\ \A g \in DOMAIN reset \ {"IIR"} : y.uart[d][g] = x.uart[d][g]
  <1>1. "IIR" \in DOMAIN reset
    BY ResetFields
  <1>2. /\ y.uart[d] = [x.uart[d] EXCEPT !.IIR = v] /\ DOMAIN y.uart = DOMAIN x.uart
        /\ \A e \in Trees \ {d} : y.uart[e] = x.uart[e]
    BY DEF Shape
  <1>3. /\ y.uart[d].IIR = v /\ DOMAIN y.uart[d] = DOMAIN x.uart[d]
        /\ \A g \in DOMAIN reset \ {"IIR"} : y.uart[d][g] = x.uart[d][g]
    BY <1>1, <1>2 DEF Shape
  <1>4. Shape(y)
    BY <1>2, <1>3 DEF Shape
  <1>5. d = "emu" => Line(y)
    BY <1>3 DEF Line, Idle
  <1>6. Keeps(x, y, d)
    BY <1>2, <1>4, <1>5, Zenon DEF Keeps
  <1> QED
    BY <1>3, <1>6

\* The interrupt is raised.
LEMMA RaiseKeeps ==
    ASSUME NEW x, Shape(x), NEW d \in Trees, NEW v \in {2, 4}
    PROVE  LET y == irqc_set_interrupt([x EXCEPT !.uart[d].IIR = v], d, TRUE)
           IN  Keeps(x, y, d) /\ y.uart[d].IIR = v
  <1> DEFINE z == [x EXCEPT !.uart[d].IIR = v]
             y == irqc_set_interrupt(z, d, TRUE)
  <1>1. DOMAIN z = DOMAIN x /\ z.irr = x.irr /\ z.dram = x.dram /\ z.flash = x.flash /\ z.uart = [x.uart EXCEPT ![d] = [x.uart[d] EXCEPT !.IIR = v]]
    BY DEF Shape
  <1> HIDE DEF z
  <1>2. DOMAIN y = DOMAIN z /\ y.uart = z.uart /\ y.dram = z.dram /\ y.flash = z.flash /\ (d = "rtl" => y.irr = z.irr) /\ (d = "emu" => y.irr = TRUE)
    BY <1>1, Zenon DEF irqc_set_interrupt, in_difftest, Shape
  <1>3. y.irr \in BOOLEAN
    BY <1>1, <1>2, Zenon DEF Shape, Trees
  <1>4. v \in Nat /\ v % 2 # 1
    OBVIOUS
  <1> HIDE DEF y
  <1>5. Keeps(x, y, d) /\ y.uart[d].IIR = v
    BY <1>1, <1>2, <1>3, <1>4, MoveKeeps
  <1> QED
    BY <1>5, Zenon DEF y, z

\* A pending interrupt is accepted.
LEMMA AcceptKeeps ==
    ASSUME NEW x, Shape(x), NEW d \in Trees, ~Idle(x.uart[d])
    PROVE  Keeps(x, Accept(x, d), d)
  <1> DEFINE v == x.uart[d].IIR + 1
             z == [x EXCEPT !.uart[d].IIR = @ + 1]
             y == irqc_set_interrupt(z, d, FALSE)
  <1>1. DOMAIN z = DOMAIN x /\ z.irr = x.irr /\ z.dram = x.dram /\ z.flash = x.flash /\ z.uart = [x.uart EXCEPT ![d] = [x.uart[d] EXCEPT !.IIR = v]]
    BY DEF Shape
  <1> HIDE DEF z
  <1>2. DOMAIN y = DOMAIN z /\ y.uart = z.uart /\ y.dram = z.dram /\ y.flash = z.flash /\ (d = "rtl" => y.irr = z.irr) /\ (d = "emu" => y.irr = FALSE)
    BY <1>1, Zenon DEF irqc_set_interrupt, in_difftest, Shape
  <1>3. y.irr \in BOOLEAN
    BY <1>1, <1>2, Zenon DEF Shape, Trees
  <1>4. v \in Nat /\ v % 2 = 1
    BY DEF Shape, Idle
  <1> HIDE DEF y, v
  <1>5. Keeps(x, y, d)
    BY <1>1, <1>2, <1>3, <1>4, MoveKeeps
  <1> QED
    BY <1>5, Zenon DEF y, z, Accept

-----------------------------------------------------------------------------
\* step: a poll of the host.
LEMMA PolledKeeps ==
    ASSUME NEW x, Shape(x), NEW d \in Trees
    PROVE  Keeps(x, Polled(x, d), d)
  <1>1. CASE Waiting(x) = <<>>
    BY <1>1, KeepsReflexive DEF Polled
  <1>2. CASE Waiting(x) # <<>>
    <2> DEFINE p == virt_uart_poll_read(x)
               r == [p EXCEPT !.uart[d].RBR = Head(Waiting(x))]
               y == [r EXCEPT !.uart[d].dat_ready = TRUE]
    <2>1. DOMAIN p = DOMAIN x /\ p.uart = x.uart /\ p.irr = x.irr /\ p.dram = x.dram /\ p.flash = x.flash
      BY DEF virt_uart_poll_read, Shape
    <2> HIDE DEF p
    <2>2. Keeps(x, p, d)
      BY <2>1, ElsewhereKeeps
    <2>3. Keeps(p, r, d)
      <3>1. Shape(p)
        BY <2>2, Zenon DEF Keeps
      <3>2. "RBR" \in DOMAIN reset \ {"IIR"}
        BY ResetFields
      <3> QED
        BY <3>1, <3>2, AssignKeeps, Zenon
    <2>4. Keeps(r, y, d)
      <3>1. "dat_ready" \in DOMAIN reset \ {"IIR"} /\ Shape(r)
        BY <2>3, ResetFields DEF Keeps
      <3> QED
        BY <3>1, AssignKeeps, Zenon
    <2>5. Polled(x, d) = y
      BY <1>2 DEF Polled, p
    <2> QED
      BY <2>2, <2>3, <2>4, <2>5, KeepsTransitive
  <1> QED
    BY <1>1, <1>2

\* step: the interrupt is raised with IIR, and nothing to tell of is left out.
LEMMA RaisedKeeps ==
    ASSUME NEW x, Shape(x), NEW d \in Trees
    PROVE  Keeps(x, Raised(x, d), d) /\ Quiet(Raised(x, d).uart[d])
  <1> DEFINE u == x.uart[d]
             rx == u.dat_ready /\ RxEnabled(u)
             tx == u.RBR_written /\ TxEnabled(u)
  <1>1. CASE rx
    <2> DEFINE y == irqc_set_interrupt([x EXCEPT !.uart[d].IIR = 4], d, TRUE)
    <2>1. Raised(x, d) = y
      BY <1>1 DEF Raised
    <2>2. Keeps(x, y, d) /\ y.uart[d].IIR = 4
      BY RaiseKeeps, Zenon
    <2> HIDE DEF y
    <2> QED
      BY <2>1, <2>2 DEF Quiet, Idle
  <1>2. CASE ~rx /\ tx
    <2> DEFINE z == [x EXCEPT !.uart[d].IIR = 2, !.uart[d].RBR_written = FALSE]
               r == [x EXCEPT !.uart[d].RBR_written = FALSE]
               y == irqc_set_interrupt([r EXCEPT !.uart[d].IIR = 2], d, TRUE)
    <2>1. Keeps(x, r, d)
      BY AssignKeeps, ResetFields
    <2>2. Keeps(r, y, d) /\ y.uart[d].IIR = 2
      BY <2>1, RaiseKeeps, ZenonT(40) DEF Keeps
    <2>3. z = [r EXCEPT !.uart[d].IIR = 2]
      BY Zenon DEF Shape
    <2>4. Raised(x, d) = y
      BY <1>2, <2>3, Zenon DEF Raised
    <2> HIDE DEF y, r, z
    <2> QED
      BY <2>1, <2>2, <2>4, KeepsTransitive DEF Quiet, Idle
  <1>3. CASE ~rx /\ ~tx
    <2>1. Raised(x, d) = x
      BY <1>3, Zenon DEF Raised
    <2> QED
      BY <1>3, <2>1, KeepsReflexive DEF Quiet
  <1> QED
    BY <1>1, <1>2, <1>3

\* step leaves its device with nothing untold.
LEMMA StepKeeps ==
    ASSUME NEW x, Shape(x), NEW d \in Trees
    PROVE  Keeps(x, step(x, d), d) /\ Quiet(step(x, d).uart[d])
  <1>1. CASE Idle(x.uart[d])
    <2>1. step(x, d) = Raised(Polled(x, d), d)
      BY <1>1 DEF step
    <2>2. Keeps(x, Polled(x, d), d) /\ Shape(Polled(x, d))
      BY PolledKeeps DEF Keeps
    <2>3. Keeps(Polled(x, d), Raised(Polled(x, d), d), d) /\ Quiet(Raised(Polled(x, d), d).uart[d])
      BY <2>2, RaisedKeeps
    <2> QED
      BY <2>1, <2>2, <2>3, KeepsTransitive
  <1>2. CASE ~Idle(x.uart[d])
    <2>1. step(x, d) = x
      BY <1>2 DEF step
    <2> QED
      BY <1>2, <2>1, KeepsReflexive DEF Quiet
  <1> QED
    BY <1>1, <1>2

\* writem8: the register is written.
LEMMA WrittenKeeps ==
    ASSUME NEW x, Shape(x), NEW d \in Trees, NEW reg, NEW val
    PROVE  Keeps(x, Written(x, d, reg, val), d)
  <1>1. ASSUME NEW f \in {"DLR", "IER", "LCR_DLAB", "RBR_written"}, NEW v
        PROVE  Keeps(x, [x EXCEPT !.uart[d][f] = v], d)
    BY AssignKeeps, ResetFields
  <1>2. Keeps(x, Transmitted(x, d), d)
    <2> DEFINE r == [x EXCEPT !.uart[d].RBR_written = TRUE]
    <2>1. "RBR_written" \in {"DLR", "IER", "LCR_DLAB", "RBR_written"}
      OBVIOUS
    <2>2. Keeps(x, r, d)
      BY <1>1, <2>1, Zenon
    <2>3. Keeps(r, step(r, d), d)
      BY <2>2, StepKeeps, Zenon DEF Keeps
    <2> QED
      BY <2>2, <2>3, KeepsTransitive DEF Transmitted
  <1>3. CASE reg = 0 /\ x.uart[d].LCR_DLAB
    <2>1. Written(x, d, reg, val) = [x EXCEPT !.uart[d].DLR = val]
      BY <1>3 DEF Written
    <2> QED
      BY <1>1, <2>1
  <1>4. CASE reg = 0 /\ ~x.uart[d].LCR_DLAB
    <2>1. Written(x, d, reg, val) = Transmitted(x, d)
      BY <1>4 DEF Written
    <2> QED
      BY <1>2, <2>1
  <1>5. CASE reg = 1 /\ ~x.uart[d].LCR_DLAB
    <2>1. Written(x, d, reg, val) = [x EXCEPT !.uart[d].IER = val % 16]
      BY <1>5 DEF Written
    <2> QED
      BY <1>1, <2>1
  <1>6. CASE reg = 3
    <2>1. Written(x, d, reg, val) = [x EXCEPT !.uart[d].LCR_DLAB = bit(val, 7)]
      BY <1>6 DEF Written
    <2>2. "LCR_DLAB" \in {"DLR", "IER", "LCR_DLAB", "RBR_written"}
      OBVIOUS
    <2> QED
      BY <1>1, <2>1, <2>2, Zenon
  <1>7. CASE reg \notin {0, 1, 3} \/ (reg = 1 /\ x.uart[d].LCR_DLAB)
    <2>1. Written(x, d, reg, val) = x
      BY <1>7 DEF Written
    <2> QED
      BY <2>1, KeepsReflexive
  <1> QED
    BY <1>3, <1>4, <1>5, <1>6, <1>7

\* A write to the UART.
LEMMA WriteKeeps ==
    ASSUME NEW x, Shape(x), NEW d \in Trees, NEW addr, NEW val
    PROVE  Keeps(x, writem8(x, d, addr, val), d) /\ Quiet(writem8(x, d, addr, val).uart[d])
  <1> DEFINE reg == addr % uart_size
             a == AcceptedByWrite(x, d, reg)
             w == Written(a, d, reg, val)
  <1>1. Keeps(x, a, d)
    <2>1. CASE ~Idle(x.uart[d]) /\ IIR_sel(x.uart[d]) = 1 /\ reg = 0 /\ ~x.uart[d].LCR_DLAB
      BY <2>1, AcceptKeeps DEF AcceptedByWrite
    <2>2. CASE ~(~Idle(x.uart[d]) /\ IIR_sel(x.uart[d]) = 1 /\ reg = 0 /\ ~x.uart[d].LCR_DLAB)
      BY <2>2, KeepsReflexive DEF AcceptedByWrite
    <2> QED
      BY <2>1, <2>2
  <1> HIDE DEF a, reg
  <1>2. Keeps(a, w, d)
    BY <1>1, WrittenKeeps DEF Keeps
  <1> HIDE DEF w
  <1>3. Keeps(w, step(w, d), d) /\ Quiet(step(w, d).uart[d])
    BY <1>2, StepKeeps DEF Keeps
  <1> QED
    BY <1>1, <1>2, <1>3, KeepsTransitive DEF writem8, a, w, reg

\* A read of the UART.
LEMMA ReadKeeps ==
    ASSUME NEW x, Shape(x), NEW d \in Trees, NEW addr
    PROVE  Keeps(x, readm8(x, d, addr), d) /\ Quiet(readm8(x, d, addr).uart[d])
  <1> DEFINE reg == addr % uart_size
             u == x.uart[d]
             hit == (IIR_sel(u) = 2 /\ reg = 0) \/ (IIR_sel(u) = 1 /\ reg = 2)
             a == AcceptedByRead(x, d, reg)
  <1>1. Keeps(x, a, d)
    <2>1. CASE ~Idle(u) /\ hit /\ ~u.LCR_DLAB
      <3> DEFINE r == [x EXCEPT !.uart[d].dat_ready = FALSE]
      <3>1. a = Accept(r, d)
        BY <2>1 DEF AcceptedByRead
      <3>2. "dat_ready" \in DOMAIN reset \ {"IIR"}
        BY ResetFields
      <3>3. Keeps(x, r, d)
        BY <3>2, AssignKeeps, Zenon
      <3>4. r.uart[d].IIR = x.uart[d].IIR
        BY DEF Shape
      <3> HIDE DEF r
      <3>5. Shape(r) /\ ~Idle(r.uart[d])
        BY <2>1, <3>3, <3>4 DEF Idle, Keeps
      <3>6. Keeps(r, Accept(r, d), d)
        BY <3>5, AcceptKeeps
      <3> QED
        BY <3>1, <3>3, <3>6, KeepsTransitive
    <2>2. CASE ~(~Idle(u) /\ hit /\ ~u.LCR_DLAB)
      <3>1. a = x
        BY <2>2 DEF AcceptedByRead
      <3> QED
        BY <3>1, KeepsReflexive
    <2> QED
      BY <2>1, <2>2
  <1> HIDE DEF a, reg
  <1>2. Keeps(a, step(a, d), d) /\ Quiet(step(a, d).uart[d])
    BY <1>1, StepKeeps DEF Keeps
  <1> QED
    BY <1>1, <1>2, KeepsTransitive DEF readm8, a, reg

\* A write: what is not the UART's leaves it alone.
LEMMA WritemKeeps ==
    ASSUME NEW x, Shape(x), NEW d \in Trees, Quiet(x.uart[d]), NEW op
    PROVE  Keeps(x, phy_writem(x, d, op), d) /\ Quiet(phy_writem(x, d, op).uart[d])
  <1> DEFINE y == phy_writem(x, d, op)
             elsewhere == /\ DOMAIN y = DOMAIN x /\ y.uart = x.uart /\ y.irr = x.irr
                          /\ \A f \in {"dram", "flash"} :
                                DOMAIN y[f] = DOMAIN x[f] /\ \A e \in Trees \ {d} : y[f][e] = x[f][e]
             target == Target(op.size, op.addr, TRUE)
  <1>1. CASE elsewhere
    BY <1>1, ElsewhereKeeps, Zenon
  <1>2. CASE target = "uart"
    BY <1>2, WriteKeeps, Zenon DEF phy_writem
  <1>3. CASE target = "flash"
    <2>1. PICK v : y = [x EXCEPT !.flash[d] = v]
      BY <1>3, Zenon DEF phy_writem
    <2> QED
      BY <1>1, <2>1 DEF Shape
  <1>4. CASE target = "dram"
    <2>1. PICK v : y = [x EXCEPT !.dram[d] = v]
      BY <1>4, Zenon DEF phy_writem
    <2> QED
      BY <1>1, <2>1 DEF Shape
  <1>5. CASE target = "dropped"
    BY <1>1, <1>5 DEF phy_writem
  <1>6. CASE target \notin {"uart", "flash", "dram", "dropped"}
    BY <1>1, <1>6, Zenon DEF phy_writem, Shape
  <1> QED
    BY <1>2, <1>3, <1>4, <1>5, <1>6, Zenon

\* A read, likewise.
LEMMA ReadmKeeps ==
    ASSUME NEW x, Shape(x), NEW d \in Trees, Quiet(x.uart[d]), NEW op
    PROVE  Keeps(x, phy_readm(x, d, op), d) /\ Quiet(phy_readm(x, d, op).uart[d])
  <1> DEFINE y == phy_readm(x, d, op)
             elsewhere == /\ DOMAIN y = DOMAIN x /\ y.uart = x.uart /\ y.irr = x.irr
                          /\ \A f \in {"dram", "flash"} :
                                DOMAIN y[f] = DOMAIN x[f] /\ \A e \in Trees \ {d} : y[f][e] = x[f][e]
             target == Target(op.size, op.addr, FALSE)
  <1>1. CASE elsewhere
    BY <1>1, ElsewhereKeeps, Zenon
  <1>2. CASE target = "uart"
    BY <1>2, ReadKeeps, Zenon DEF phy_readm
  <1>3. CASE target \in {"flash", "dram"}
    BY <1>1, <1>3 DEF phy_readm
  <1>4. CASE target \notin {"uart", "flash", "dram"}
    BY <1>1, <1>4, Zenon DEF phy_readm, Shape
  <1> QED
    BY <1>2, <1>3, <1>4, Zenon

\* Any access of the emulator.
LEMMA AccessKeeps ==
    ASSUME NEW x, Shape(x), NEW d \in Trees, Quiet(x.uart[d]), NEW op
    PROVE  Keeps(x, Access(x, d, op), d) /\ Quiet(Access(x, d, op).uart[d])
  <1>1. CASE op = None
    BY <1>1, KeepsReflexive DEF Access
  <1>2. CASE op # None /\ op.w
    BY <1>2, WritemKeeps, Zenon DEF Access
  <1>3. CASE op # None /\ ~op.w
    BY <1>3, ReadmKeeps, Zenon DEF Access
  <1> QED
    BY <1>1, <1>2, <1>3

\* Any access of the RTL: its writes are a read and a write.
LEMMA BusKeeps ==
    ASSUME NEW x, Shape(x), NEW d \in Trees, Quiet(x.uart[d]), NEW op
    PROVE  Keeps(x, BusAccess(x, d, op), d) /\ Quiet(BusAccess(x, d, op).uart[d])
  <1> DEFINE y == phy_readm(x, d, op)
  <1>1. Keeps(x, y, d) /\ Quiet(y.uart[d])
    BY ReadmKeeps, Zenon
  <1>2. CASE op = None
    BY <1>2, KeepsReflexive DEF BusAccess
  <1>3. CASE op # None /\ op.w /\ y.running
    <2>1. BusAccess(x, d, op) = phy_writem(y, d, op)
      BY <1>3, Zenon DEF BusAccess
    <2> HIDE DEF y
    <2>2. Keeps(y, phy_writem(y, d, op), d) /\ Quiet(phy_writem(y, d, op).uart[d])
      BY <1>1, WritemKeeps, Zenon DEF Keeps
    <2> QED
      BY <1>1, <2>1, <2>2, KeepsTransitive, Zenon
  <1>4. CASE op # None /\ ~(op.w /\ y.running)
    <2>1. BusAccess(x, d, op) = y
      BY <1>4, Zenon DEF BusAccess
    <2> QED
      BY <1>1, <2>1, Zenon
  <1> QED
    BY <1>2, <1>3, <1>4

-----------------------------------------------------------------------------
\* Both devices are quiet.
Calm(x) == Shape(x) /\ \A d \in Trees : Quiet(x.uart[d])

\* The inductive invariant.
IInv == Calm(s) /\ (mode # "difftest" => Line(s))

\* An operation that leaves its own device quiet leaves both.
LEMMA KeepsCalm ==
    ASSUME NEW x, NEW y, NEW d \in Trees, Calm(x), Keeps(x, y, d), Quiet(y.uart[d])
    PROVE  Calm(y)
  BY DEF Calm, Keeps

\* An access leaves both quiet and the line right.
LEMMA AccessCalm ==
    ASSUME NEW x, NEW d \in Trees, Calm(x), NEW op
    PROVE  Calm(Access(x, d, op)) /\ (d = "emu" /\ Line(x) => Line(Access(x, d, op)))
  <1>1. Keeps(x, Access(x, d, op), d) /\ Quiet(Access(x, d, op).uart[d])
    BY AccessKeeps DEF Calm
  <1> QED
    BY <1>1, KeepsCalm DEF Keeps

\* So does one of the RTL.
LEMMA BusCalm ==
    ASSUME NEW x, NEW d \in Trees, Calm(x), NEW op
    PROVE  Calm(BusAccess(x, d, op)) /\ (d = "emu" /\ Line(x) => Line(BusAccess(x, d, op)))
  <1>1. Keeps(x, BusAccess(x, d, op), d) /\ Quiet(BusAccess(x, d, op).uart[d])
    BY BusKeeps DEF Calm
  <1> QED
    BY <1>1, KeepsCalm DEF Keeps

\* The same of a clock of a device.
LEMMA StepCalm ==
    ASSUME NEW x, NEW d \in Trees, Calm(x)
    PROVE  Calm(step(x, d)) /\ (d = "emu" /\ Line(x) => Line(step(x, d)))
  <1>1. Keeps(x, step(x, d), d) /\ Quiet(step(x, d).uart[d])
    BY StepKeeps DEF Calm
  <1> QED
    BY <1>1, KeepsCalm DEF Keeps

\* Both devices start idle, with their interrupts disabled.
LEMMA InitHolds == Init => IInv
  <1> SUFFICES ASSUME Init PROVE IInv
    OBVIOUS
  <1>1. \A d \in Trees : s.uart[d] = reset
    BY DEF Init
  <1>2. reset.IIR = 1 /\ reset.dat_ready = FALSE /\ reset.RBR_written = FALSE
    BY DEF reset
  <1>3. Shape(s)
    BY <1>1, <1>2 DEF Init, Shape
  <1>4. \A d \in Trees : Quiet(s.uart[d])
    BY <1>1, <1>2 DEF Quiet
  <1>5. Line(s)
    BY <1>1, <1>2 DEF Line, Idle, Init, Trees
  <1> QED
    BY <1>3, <1>4, <1>5 DEF IInv, Calm

\* A character is typed.
LEMMA TypeKeeps ==
    ASSUME IInv, NEW c \in Chars, Type(c)
    PROVE  IInv'
  <1>1. s' = [s EXCEPT !.host = Append(@, c)] /\ mode' = mode
    BY DEF Type
  <1>2. DOMAIN s' = DOMAIN s /\ s'.uart = s.uart /\ s'.irr = s.irr /\ s'.dram = s.dram /\ s'.flash = s.flash
    BY <1>1 DEF IInv, Calm, Shape
  <1>3. Calm(s')
    BY <1>2 DEF IInv, Calm, Shape
  <1>4. Line(s) => Line(s')
    BY <1>2 DEF Line
  <1> QED
    BY <1>1, <1>3, <1>4 DEF IInv

\* An iteration of the emulator's loop.
LEMMA StandaloneKeeps ==
    ASSUME IInv, NEW op, Standalone(op)
    PROVE  IInv'
  <1> DEFINE x == IF device_clk + 1 = device_clk_div THEN step(s, "emu") ELSE s
  <1>1. s' = Access(x, "emu", op) /\ mode' = mode /\ mode = "standalone"
    BY DEF Standalone
  <1>2. "emu" \in Trees /\ Calm(s) /\ Line(s)
    BY <1>1 DEF IInv, Trees
  <1>3. Calm(x) /\ Line(x)
    BY <1>2, StepCalm
  <1> HIDE DEF x
  <1>4. Calm(s') /\ Line(s')
    BY <1>1, <1>2, <1>3, AccessCalm
  <1> QED
    BY <1>4 DEF IInv

\* A cycle of the RTL alone.
LEMMA SimulateKeeps ==
    ASSUME IInv, NEW op, SimulateOnly(op)
    PROVE  IInv'
  <1> DEFINE x == BusAccess(s, "emu", op)
  <1>1. s' = (IF x.running THEN step(x, "emu") ELSE x) /\ mode' = mode /\ mode = "simulate"
    BY DEF SimulateOnly
  <1>2. "emu" \in Trees /\ Calm(s) /\ Line(s)
    BY <1>1 DEF IInv, Trees
  <1>3. Calm(x) /\ Line(x)
    BY <1>2, BusCalm
  <1> HIDE DEF x
  <1>4. Calm(s') /\ Line(s')
    BY <1>1, <1>2, <1>3, StepCalm
  <1> QED
    BY <1>4 DEF IInv

\* A cycle of the RTL with the emulator beside it.
LEMMA DifftestKeeps ==
    ASSUME IInv, NEW op, NEW eirq \in BOOLEAN, NEW commit \in BOOLEAN, Difftest(op, eirq, commit)
    PROVE  IInv'
  <1> DEFINE x == BusAccess(s, "rtl", op)
             y == IF eirq THEN [x EXCEPT !.irr = FALSE] ELSE x
             old == IF commit THEN Head(ahead) ELSE [op |-> None, ret |-> 0]
             z == IF x.running THEN Access(y, "emu", old.op) ELSE x
  <1>1. s' = (IF z.running THEN step(step(z, "emu"), "rtl") ELSE z) /\ mode' = mode /\ mode = "difftest"
    BY DEF Difftest
  <1>2. "emu" \in Trees /\ "rtl" \in Trees /\ Calm(s)
    BY DEF IInv, Trees
  <1>3. Calm(x)
    BY <1>2, BusCalm
  <1> HIDE DEF x, old
  <1>4. Calm(y)
    <2>1. CASE eirq
      <3>1. DOMAIN y = DOMAIN x /\ y.uart = x.uart /\ y.irr = FALSE /\ y.dram = x.dram /\ y.flash = x.flash
        BY <1>3, <2>1 DEF Calm, Shape
      <3> HIDE DEF y
      <3> QED
        BY <1>3, <3>1, Zenon DEF Calm, Shape
    <2>2. CASE ~eirq
      BY <1>3, <2>2
    <2> QED
      BY <2>1, <2>2
  <1> HIDE DEF y
  <1>5. Calm(z)
    BY <1>2, <1>3, <1>4, AccessCalm
  <1> HIDE DEF z
  <1>6. Calm(s')
    BY <1>1, <1>2, <1>5, StepCalm
  <1> QED
    BY <1>1, <1>6 DEF IInv

\* Every step keeps the invariant.
LEMMA NextKeeps == IInv /\ [Next]_vars => IInv'
  <1>1. ASSUME IInv, Next
        PROVE  IInv'
    BY <1>1, TypeKeeps, StandaloneKeeps, SimulateKeeps, DifftestKeeps DEF Next, Loop
  <1>2. ASSUME IInv, UNCHANGED vars
        PROVE  IInv'
    BY <1>2 DEF vars, IInv
  <1> QED
    BY <1>1, <1>2

-----------------------------------------------------------------------------
\* For every program, every layout of memory and every divider of the clock:
\* the UART never stays idle with a character or an empty transmitter its
\* software has asked to be told of (virt-uart.cc, memory.cc, the three loops).
THEOREM NoMissedInterruptHolds == Spec => []NoMissedInterrupt
  <1>1. IInv => NoMissedInterrupt
    BY DEF IInv, Calm, Quiet, NoMissedInterrupt
  <1> QED
    BY <1>1, InitHolds, NextKeeps, PTL DEF Spec

\* Likewise: outside of difftest the bit of the IRR is set exactly while IIR
\* tells of a pending interrupt.
THEOREM IrqLineHolds == Spec => []IrqLine
  <1>1. IInv => IrqLine
    BY DEF IInv, Line, IrqLine
  <1> QED
    BY <1>1, InitHolds, NextKeeps, PTL DEF Spec

-----------------------------------------------------------------------------
(* Two trees that hold the same do the same.                               *)

\* Nothing is waiting to be read from the host.
Silent(x) == x.host = <<>> /\ x.dat = <<>>

\* Tree d of x holds what tree e of y does.
Alike(x, d, y, e) ==
    /\ Shape(x) /\ Shape(y) /\ Silent(x) /\ Silent(y)
    /\ \A f \in {"uart", "dram", "flash"} : x[f][d] = y[f][e]
    /\ x.running <=> y.running

\* What changes a tree only in its UART, to the same registers, keeps two alike.
LEMMA SameRegisters ==
    ASSUME NEW x, NEW y, NEW d \in Trees, NEW e \in Trees, Alike(x, d, y, e), NEW u, NEW z, NEW w,
           Shape(z), z.uart[d] = u, \A f \in {"dram", "flash", "host", "dat", "running"} : z[f] = x[f],
           Shape(w), w.uart[e] = u, \A f \in {"dram", "flash", "host", "dat", "running"} : w[f] = y[f]
    PROVE  Alike(z, d, w, e)
  BY DEF Alike, Silent

\* A register other than IIR is written in both.
LEMMA AssignAlike ==
    ASSUME NEW x, NEW y, NEW d \in Trees, NEW e \in Trees, Alike(x, d, y, e),
           NEW f \in DOMAIN reset \ {"IIR"}, NEW v
    PROVE  Alike([x EXCEPT !.uart[d][f] = v], d, [y EXCEPT !.uart[e][f] = v], e)
  <1> DEFINE z == [x EXCEPT !.uart[d][f] = v]
             w == [y EXCEPT !.uart[e][f] = v]
  <1>1. Shape(x) /\ Shape(y) /\ x.uart[d] = y.uart[e]
    BY DEF Alike
  <1>2. Shape(z) /\ Shape(w)
    BY <1>1, AssignKeeps, Zenon DEF Keeps
  <1>3. z.uart[d] = [x.uart[d] EXCEPT ![f] = v] /\ w.uart[e] = [x.uart[d] EXCEPT ![f] = v]
    BY <1>1 DEF Shape
  <1>4. /\ \A g \in {"dram", "flash", "host", "dat", "running"} : z[g] = x[g]
        /\ \A g \in {"dram", "flash", "host", "dat", "running"} : w[g] = y[g]
    BY <1>1 DEF Shape
  <1> HIDE DEF z, w
  <1>5. Alike(z, d, w, e)
    BY <1>2, <1>3, <1>4, SameRegisters
  <1> QED
    BY <1>5 DEF z, w

\* IIR is written in both, with the line of whichever has one.
LEMMA MoveAlike ==
    ASSUME NEW x, NEW y, NEW d \in Trees, NEW e \in Trees, Alike(x, d, y, e),
           NEW v \in Nat, NEW raise \in BOOLEAN
    PROVE  Alike(irqc_set_interrupt([x EXCEPT !.uart[d].IIR = v], d, raise), d,
                 irqc_set_interrupt([y EXCEPT !.uart[e].IIR = v], e, raise), e)
  <1> DEFINE moved(t, c) == irqc_set_interrupt([t EXCEPT !.uart[c].IIR = v], c, raise)
  <1>1. ASSUME NEW t, Shape(t), NEW c \in Trees
        PROVE  /\ Shape(moved(t, c))
               /\ moved(t, c).uart[c] = [t.uart[c] EXCEPT !.IIR = v]
               /\ \A g \in {"dram", "flash", "host", "dat", "running"} : moved(t, c)[g] = t[g]
    <2> DEFINE r == [t EXCEPT !.uart[c].IIR = v]
               m == irqc_set_interrupt(r, c, raise)
    <2>1. /\ DOMAIN r = DOMAIN t /\ r.uart = [t.uart EXCEPT ![c] = [t.uart[c] EXCEPT !.IIR = v]]
          /\ \A g \in {"dram", "flash", "host", "dat", "running", "irr"} : r[g] = t[g]
      BY <1>1 DEF Shape
    <2> HIDE DEF r
    <2>2. /\ DOMAIN m = DOMAIN r /\ m.irr \in BOOLEAN
          /\ \A g \in {"uart", "dram", "flash", "host", "dat", "running"} : m[g] = r[g]
      BY <1>1, <2>1 DEF irqc_set_interrupt, Shape
    <2> HIDE DEF m
    <2>3. m.uart[c] = [t.uart[c] EXCEPT !.IIR = v] /\ DOMAIN m.uart = DOMAIN t.uart
      BY <1>1, <2>1, <2>2 DEF Shape
    <2>4. m.uart[c].IIR = v /\ DOMAIN m.uart[c] = DOMAIN t.uart[c]
      BY <1>1, <2>3, ResetFields DEF Shape
    <2>5. \A b \in Trees \ {c} : m.uart[b] = t.uart[b]
      BY <1>1, <2>1, <2>2 DEF Shape
    <2>6. Shape(m)
      BY <1>1, <2>1, <2>2, <2>3, <2>4, <2>5, Zenon DEF Shape
    <2> QED
      BY <2>1, <2>2, <2>3, <2>6 DEF m, r
  <1> HIDE DEF moved
  <1>2. Shape(x) /\ Shape(y) /\ x.uart[d] = y.uart[e]
    BY DEF Alike
  <1>3. /\ Shape(moved(x, d)) /\ Shape(moved(y, e)) /\ moved(x, d).uart[d] = moved(y, e).uart[e]
        /\ \A g \in {"dram", "flash", "host", "dat", "running"} : moved(x, d)[g] = x[g]
        /\ \A g \in {"dram", "flash", "host", "dat", "running"} : moved(y, e)[g] = y[g]
    <2>1. /\ Shape(moved(x, d)) /\ moved(x, d).uart[d] = [x.uart[d] EXCEPT !.IIR = v]
          /\ \A g \in {"dram", "flash", "host", "dat", "running"} : moved(x, d)[g] = x[g]
      BY <1>1, <1>2, Zenon
    <2>2. /\ Shape(moved(y, e)) /\ moved(y, e).uart[e] = [y.uart[e] EXCEPT !.IIR = v]
          /\ \A g \in {"dram", "flash", "host", "dat", "running"} : moved(y, e)[g] = y[g]
      BY <1>1, <1>2, Zenon
    <2>3. [x.uart[d] EXCEPT !.IIR = v] = [y.uart[e] EXCEPT !.IIR = v]
      BY <1>2, Zenon
    <2> QED
      BY <2>1, <2>2, <2>3, Zenon
  <1>4. Alike(moved(x, d), d, moved(y, e), e)
    BY <1>3, SameRegisters, Zenon
  <1> QED
    BY <1>4 DEF moved

\* A clock of a device, with nothing waiting in the host.
LEMMA StepAlike ==
    ASSUME NEW x, NEW y, NEW d \in Trees, NEW e \in Trees, Alike(x, d, y, e)
    PROVE  Alike(step(x, d), d, step(y, e), e)
  <1> DEFINE u == x.uart[d]
             rx == u.dat_ready /\ RxEnabled(u)
             tx == u.RBR_written /\ TxEnabled(u)
  <1>1. u = y.uart[e] /\ Polled(x, d) = x /\ Polled(y, e) = y
    BY DEF Alike, Silent, Polled, Waiting
  <1>2. CASE ~Idle(u)
    BY <1>1, <1>2, Zenon DEF step
  <1>3. CASE Idle(u)
    <2>1. step(x, d) = Raised(x, d) /\ step(y, e) = Raised(y, e)
      BY <1>1, <1>3, Zenon DEF step
    <2>2. CASE rx
      <3>1. Raised(x, d) = irqc_set_interrupt([x EXCEPT !.uart[d].IIR = 4], d, TRUE)
        BY <2>2, Zenon DEF Raised
      <3>2. Raised(y, e) = irqc_set_interrupt([y EXCEPT !.uart[e].IIR = 4], e, TRUE)
        BY <1>1, <2>2, Zenon DEF Raised
      <3>3. 4 \in Nat /\ TRUE \in BOOLEAN
        OBVIOUS
      <3> QED
        BY <2>1, <3>1, <3>2, <3>3, MoveAlike, ZenonT(40)
    <2>3. CASE ~rx /\ tx
      <3> DEFINE p == [x EXCEPT !.uart[d].RBR_written = FALSE]
                 q == [y EXCEPT !.uart[e].RBR_written = FALSE]
      <3>1. "RBR_written" \in DOMAIN reset \ {"IIR"} /\ Shape(x) /\ Shape(y)
        BY ResetFields DEF Alike
      <3>2. Alike(p, d, q, e)
        BY <3>1, AssignAlike, Zenon
      <3>3. /\ [x EXCEPT !.uart[d].IIR = 2, !.uart[d].RBR_written = FALSE] = [p EXCEPT !.uart[d].IIR = 2]
            /\ [y EXCEPT !.uart[e].IIR = 2, !.uart[e].RBR_written = FALSE] = [q EXCEPT !.uart[e].IIR = 2]
        BY <3>1, Zenon DEF Shape
      <3>4. /\ Raised(x, d) = irqc_set_interrupt([p EXCEPT !.uart[d].IIR = 2], d, TRUE)
            /\ Raised(y, e) = irqc_set_interrupt([q EXCEPT !.uart[e].IIR = 2], e, TRUE)
        BY <1>1, <2>3, <3>3, Zenon DEF Raised
      <3>5. 2 \in Nat /\ TRUE \in BOOLEAN
        OBVIOUS
      <3> HIDE DEF p, q
      <3> QED
        BY <2>1, <3>2, <3>4, <3>5, MoveAlike, ZenonT(40)
    <2>4. CASE ~rx /\ ~tx
      BY <1>1, <2>1, <2>4, Zenon DEF Raised
    <2> QED
      BY <2>2, <2>3, <2>4, Zenon
  <1> QED
    BY <1>2, <1>3

\* A pending interrupt is accepted in both.
LEMMA AcceptAlike ==
    ASSUME NEW x, NEW y, NEW d \in Trees, NEW e \in Trees, Alike(x, d, y, e)
    PROVE  Alike(Accept(x, d), d, Accept(y, e), e)
  <1> DEFINE v == x.uart[d].IIR + 1
  <1>1. v \in Nat /\ FALSE \in BOOLEAN /\ v = y.uart[e].IIR + 1
    BY DEF Alike, Shape
  <1>2. /\ [x EXCEPT !.uart[d].IIR = @ + 1] = [x EXCEPT !.uart[d].IIR = v]
        /\ [y EXCEPT !.uart[e].IIR = @ + 1] = [y EXCEPT !.uart[e].IIR = v]
    BY <1>1, Zenon
  <1> HIDE DEF v
  <1> QED
    BY <1>1, <1>2, MoveAlike, Zenon DEF Accept

\* writem8: the same is written to the same register of both.
LEMMA WrittenAlike ==
    ASSUME NEW x, NEW y, NEW d \in Trees, NEW e \in Trees, Alike(x, d, y, e), NEW reg, NEW val
    PROVE  Alike(Written(x, d, reg, val), d, Written(y, e, reg, val), e)
  <1> DEFINE dlab == x.uart[d].LCR_DLAB
  <1>1. x.uart[d] = y.uart[e]
    BY DEF Alike
  <1>2. ASSUME NEW f \in {"DLR", "IER", "LCR_DLAB", "RBR_written"}, NEW v
        PROVE  Alike([x EXCEPT !.uart[d][f] = v], d, [y EXCEPT !.uart[e][f] = v], e)
    BY AssignAlike, ResetFields, Zenon
  <1>3. CASE reg = 0 /\ dlab
    <2>1. /\ Written(x, d, reg, val) = [x EXCEPT !.uart[d].DLR = val]
          /\ Written(y, e, reg, val) = [y EXCEPT !.uart[e].DLR = val]
      BY <1>1, <1>3 DEF Written
    <2> QED
      BY <1>2, <2>1
  <1>4. CASE reg = 0 /\ ~dlab
    <2>1. Written(x, d, reg, val) = Transmitted(x, d) /\ Written(y, e, reg, val) = Transmitted(y, e)
      BY <1>1, <1>4 DEF Written
    <2>2. "RBR_written" \in {"DLR", "IER", "LCR_DLAB", "RBR_written"}
      OBVIOUS
    <2>3. Alike([x EXCEPT !.uart[d].RBR_written = TRUE], d, [y EXCEPT !.uart[e].RBR_written = TRUE], e)
      BY <1>2, <2>2, Zenon
    <2> QED
      BY <2>1, <2>3, StepAlike, Zenon DEF Transmitted
  <1>5. CASE reg = 1 /\ ~dlab
    <2>1. /\ Written(x, d, reg, val) = [x EXCEPT !.uart[d].IER = val % 16]
          /\ Written(y, e, reg, val) = [y EXCEPT !.uart[e].IER = val % 16]
      BY <1>1, <1>5 DEF Written
    <2> QED
      BY <1>2, <2>1
  <1>6. CASE reg = 3
    <2>1. /\ Written(x, d, reg, val) = [x EXCEPT !.uart[d].LCR_DLAB = bit(val, 7)]
          /\ Written(y, e, reg, val) = [y EXCEPT !.uart[e].LCR_DLAB = bit(val, 7)]
      BY <1>6 DEF Written
    <2>2. "LCR_DLAB" \in {"DLR", "IER", "LCR_DLAB", "RBR_written"}
      OBVIOUS
    <2> QED
      BY <1>2, <2>1, <2>2, Zenon
  <1>7. CASE reg \notin {0, 1, 3} \/ (reg = 1 /\ dlab)
    <2>1. Written(x, d, reg, val) = x /\ Written(y, e, reg, val) = y
      BY <1>1, <1>7 DEF Written
    <2> QED
      BY <2>1
  <1> QED
    BY <1>3, <1>4, <1>5, <1>6, <1>7

\* The same is written to both UARTs.
LEMMA WriteAlike ==
    ASSUME NEW x, NEW y, NEW d \in Trees, NEW e \in Trees, Alike(x, d, y, e), NEW addr, NEW val
    PROVE  Alike(writem8(x, d, addr, val), d, writem8(y, e, addr, val), e)
  <1> DEFINE reg == addr % uart_size
             u == x.uart[d]
             accepts == ~Idle(u) /\ IIR_sel(u) = 1 /\ reg = 0 /\ ~u.LCR_DLAB
  <1>1. u = y.uart[e]
    BY DEF Alike
  <1>2. Alike(AcceptedByWrite(x, d, reg), d, AcceptedByWrite(y, e, reg), e)
    <2>1. CASE accepts
      <3>1. AcceptedByWrite(x, d, reg) = Accept(x, d) /\ AcceptedByWrite(y, e, reg) = Accept(y, e)
        BY <1>1, <2>1 DEF AcceptedByWrite
      <3> QED
        BY <3>1, AcceptAlike
    <2>2. CASE ~accepts
      <3>1. AcceptedByWrite(x, d, reg) = x /\ AcceptedByWrite(y, e, reg) = y
        BY <1>1, <2>2 DEF AcceptedByWrite
      <3> QED
        BY <3>1
    <2> QED
      BY <2>1, <2>2
  <1> HIDE DEF reg
  <1>3. Alike(Written(AcceptedByWrite(x, d, reg), d, reg, val), d,
              Written(AcceptedByWrite(y, e, reg), e, reg, val), e)
    BY <1>2, WrittenAlike, Zenon
  <1> QED
    BY <1>3, StepAlike, Zenon DEF writem8, reg

\* The same is read from both.
LEMMA ReadAlike ==
    ASSUME NEW x, NEW y, NEW d \in Trees, NEW e \in Trees, Alike(x, d, y, e), NEW addr
    PROVE  Alike(readm8(x, d, addr), d, readm8(y, e, addr), e)
  <1> DEFINE reg == addr % uart_size
             u == x.uart[d]
             hit == (IIR_sel(u) = 2 /\ reg = 0) \/ (IIR_sel(u) = 1 /\ reg = 2)
             accepts == ~Idle(u) /\ hit /\ ~u.LCR_DLAB
             p == [x EXCEPT !.uart[d].dat_ready = FALSE]
             q == [y EXCEPT !.uart[e].dat_ready = FALSE]
  <1>1. u = y.uart[e]
    BY DEF Alike
  <1>2. Alike(p, d, q, e)
    <2>1. "dat_ready" \in DOMAIN reset \ {"IIR"}
      BY ResetFields
    <2> QED
      BY <2>1, AssignAlike, Zenon
  <1>3. CASE accepts
    <2>1. AcceptedByRead(x, d, reg) = Accept(p, d) /\ AcceptedByRead(y, e, reg) = Accept(q, e)
      BY <1>1, <1>3 DEF AcceptedByRead
    <2> HIDE DEF p, q, reg
    <2> QED
      BY <1>2, <2>1, AcceptAlike, StepAlike, Zenon DEF readm8, reg
  <1>4. CASE ~accepts
    <2>1. AcceptedByRead(x, d, reg) = x /\ AcceptedByRead(y, e, reg) = y
      BY <1>1, <1>4 DEF AcceptedByRead
    <2> HIDE DEF reg
    <2> QED
      BY <2>1, StepAlike, Zenon DEF readm8, reg
  <1> QED
    BY <1>3, <1>4

\* A read gives both the same.
LEMMA SameValue ==
    ASSUME NEW x, NEW y, NEW d \in Trees, NEW e \in Trees, Alike(x, d, y, e), NEW op
    PROVE  ReadValue(x, d, op) = ReadValue(y, e, op)
  <1>1. x.uart[d] = y.uart[e] /\ x.flash[d] = y.flash[e] /\ x.dram[d] = y.dram[e]
    BY DEF Alike
  <1> QED
    BY <1>1, Zenon DEF ReadValue

\* What assigns the same to the DRAM, or to the flash, of both keeps them alike.
LEMMA AssignMemoryAlike ==
    ASSUME NEW x, NEW y, NEW d \in Trees, NEW e \in Trees, Alike(x, d, y, e),
           NEW f \in {"dram", "flash"}, NEW v
    PROVE  Alike([x EXCEPT ![f][d] = v], d, [y EXCEPT ![f][e] = v], e)
  <1> DEFINE assigned(t, c) == [t EXCEPT ![f][c] = v]
  <1>1. ASSUME NEW t, Shape(t), NEW c \in Trees
        PROVE  /\ Shape(assigned(t, c)) /\ assigned(t, c)[f][c] = v
               /\ \A g \in {"uart", "dram", "flash"} \ {f} : assigned(t, c)[g][c] = t[g][c]
               /\ \A g \in {"host", "dat", "running"} : assigned(t, c)[g] = t[g]
    <2> DEFINE a == assigned(t, c)
    <2>1. /\ DOMAIN a = DOMAIN t /\ a[f] = [t[f] EXCEPT ![c] = v]
          /\ \A g \in {"uart", "dram", "flash", "host", "dat", "running", "irr"} \ {f} : a[g] = t[g]
      BY <1>1 DEF Shape
    <2> HIDE DEF a
    <2>2. a[f][c] = v /\ DOMAIN a[f] = DOMAIN t[f]
      BY <1>1, <2>1 DEF Shape
    <2>3. Shape(a)
      BY <1>1, <2>1, <2>2 DEF Shape
    <2> QED
      BY <2>1, <2>2, <2>3 DEF a
  <1>2. Shape(x) /\ Shape(y)
    BY DEF Alike
  <1> DEFINE z == assigned(x, d)
             w == assigned(y, e)
  <1>3. /\ Shape(z) /\ z[f][d] = v
        /\ \A g \in {"uart", "dram", "flash"} \ {f} : z[g][d] = x[g][d]
        /\ \A g \in {"host", "dat", "running"} : z[g] = x[g]
    BY <1>1, <1>2, Zenon
  <1>4. /\ Shape(w) /\ w[f][e] = v
        /\ \A g \in {"uart", "dram", "flash"} \ {f} : w[g][e] = y[g][e]
        /\ \A g \in {"host", "dat", "running"} : w[g] = y[g]
    BY <1>1, <1>2, Zenon
  <1> HIDE DEF z, w
  <1>5. Alike(z, d, w, e)
    BY <1>3, <1>4 DEF Alike, Silent
  <1> QED
    BY <1>5 DEF z, w

\* Both stop running.
LEMMA StopAlike ==
    ASSUME NEW x, NEW y, NEW d \in Trees, NEW e \in Trees, Alike(x, d, y, e)
    PROVE  Alike([x EXCEPT !.running = FALSE], d, [y EXCEPT !.running = FALSE], e)
  <1> DEFINE stopped(t) == [t EXCEPT !.running = FALSE]
  <1>1. ASSUME NEW t, Shape(t)
        PROVE  /\ Shape(stopped(t)) /\ stopped(t).running = FALSE
               /\ \A g \in {"uart", "dram", "flash", "host", "dat"} : stopped(t)[g] = t[g]
    <2> DEFINE a == stopped(t)
    <2>1. /\ DOMAIN a = DOMAIN t /\ a.running = FALSE
          /\ \A g \in {"uart", "dram", "flash", "host", "dat", "irr"} : a[g] = t[g]
      BY <1>1 DEF Shape
    <2> HIDE DEF a
    <2>2. Shape(a)
      BY <1>1, <2>1 DEF Shape
    <2> QED
      BY <2>1, <2>2 DEF a
  <1> HIDE DEF stopped
  <1>2. Alike(stopped(x), d, stopped(y), e)
    BY <1>1, ZenonT(40) DEF Alike, Silent
  <1> QED
    BY <1>2 DEF stopped

\* The same access of two trees that hold the same leaves the same.
LEMMA AccessAlike ==
    ASSUME NEW x, NEW y, NEW d \in Trees, NEW e \in Trees, Alike(x, d, y, e), NEW op
    PROVE  Alike(Access(x, d, op), d, Access(y, e, op), e)
  <1>1. CASE op = None
    BY <1>1 DEF Access
  <1>2. CASE op # None /\ op.w
    <2> DEFINE target == Target(op.size, op.addr, TRUE)
    <2>1. Access(x, d, op) = phy_writem(x, d, op) /\ Access(y, e, op) = phy_writem(y, e, op)
      BY <1>2 DEF Access
    <2>2. CASE target = "uart"
      BY <2>1, <2>2, WriteAlike, Zenon DEF phy_writem
    <2>3. CASE target = "flash"
      <3> DEFINE v == Flash_writem(x.flash[d], op.addr - flash_base, op.val, op.size)
      <3>1. x.flash[d] = y.flash[e]
        BY DEF Alike
      <3>2. phy_writem(x, d, op) = [x EXCEPT !.flash[d] = v] /\ phy_writem(y, e, op) = [y EXCEPT !.flash[e] = v]
        BY <2>3, <3>1, Zenon DEF phy_writem
      <3>3. "flash" \in {"dram", "flash"}
        OBVIOUS
      <3> HIDE DEF v
      <3>4. Alike([x EXCEPT !.flash[d] = v], d, [y EXCEPT !.flash[e] = v], e)
        BY <3>3, AssignMemoryAlike, Zenon
      <3> QED
        BY <2>1, <3>2, <3>4
    <2>4. CASE target = "dram"
      <3> DEFINE v == Stored(x.dram[d], op.addr, op.val, op.size)
      <3>1. x.dram[d] = y.dram[e]
        BY DEF Alike
      <3>2. phy_writem(x, d, op) = [x EXCEPT !.dram[d] = v] /\ phy_writem(y, e, op) = [y EXCEPT !.dram[e] = v]
        BY <2>4, <3>1, Zenon DEF phy_writem
      <3>3. "dram" \in {"dram", "flash"}
        OBVIOUS
      <3> HIDE DEF v
      <3>4. Alike([x EXCEPT !.dram[d] = v], d, [y EXCEPT !.dram[e] = v], e)
        BY <3>3, AssignMemoryAlike, Zenon
      <3> QED
        BY <2>1, <3>2, <3>4
    <2>5. CASE target = "dropped"
      BY <2>1, <2>5 DEF phy_writem
    <2>6. CASE target \notin {"uart", "flash", "dram", "dropped"}
      <3>1. phy_writem(x, d, op) = [x EXCEPT !.running = FALSE] /\ phy_writem(y, e, op) = [y EXCEPT !.running = FALSE]
        BY <2>6, Zenon DEF phy_writem
      <3>2. Alike([x EXCEPT !.running = FALSE], d, [y EXCEPT !.running = FALSE], e)
        BY StopAlike, Zenon
      <3> QED
        BY <2>1, <3>1, <3>2
    <2> QED
      BY <2>2, <2>3, <2>4, <2>5, <2>6, Zenon
  <1>3. CASE op # None /\ ~op.w
    <2> DEFINE target == Target(op.size, op.addr, FALSE)
    <2>1. Access(x, d, op) = phy_readm(x, d, op) /\ Access(y, e, op) = phy_readm(y, e, op)
      BY <1>3 DEF Access
    <2>2. CASE target = "uart"
      BY <2>1, <2>2, ReadAlike, Zenon DEF phy_readm
    <2>3. CASE target \in {"flash", "dram"}
      BY <2>1, <2>3 DEF phy_readm
    <2>4. CASE target \notin {"uart", "flash", "dram"}
      <3>1. phy_readm(x, d, op) = [x EXCEPT !.running = FALSE] /\ phy_readm(y, e, op) = [y EXCEPT !.running = FALSE]
        BY <2>4, Zenon DEF phy_readm
      <3>2. Alike([x EXCEPT !.running = FALSE], d, [y EXCEPT !.running = FALSE], e)
        BY StopAlike, Zenon
      <3> QED
        BY <2>1, <3>1, <3>2
    <2> QED
      BY <2>2, <2>3, <2>4, Zenon
  <1> QED
    BY <1>1, <1>2, <1>3

\* With nothing typed a quiet device has nothing to do when it is clocked.
LEMMA StepIdle ==
    ASSUME NEW x, NEW d \in Trees, Calm(x), Silent(x)
    PROVE  step(x, d) = x
  <1>1. Polled(x, d) = x
    BY DEF Silent, Polled, Waiting
  <1>2. CASE ~Idle(x.uart[d])
    BY <1>2 DEF step
  <1>3. CASE Idle(x.uart[d])
    BY <1>1, <1>3, Zenon DEF step, Raised, Calm, Quiet
  <1> QED
    BY <1>2, <1>3

-----------------------------------------------------------------------------
(* Where the registers of the UART are.                                    *)

\* mmio_append_node, twice.
LEMMA AppendedNodes ==
    ASSUME NEW S, NEW q \in Seq(S), NEW n \in S, NEW m \in S
    PROVE  LET r == mmio_append_node(mmio_append_node(q, n), m)
           IN  r \in Seq(S) /\ Len(r) = Len(q) + 2
  <1>1. <<n>> \o q \in Seq(S) /\ Len(<<n>> \o q) = Len(q) + 1
    OBVIOUS
  <1>2. ASSUME NEW p \in Seq(S)
        PROVE  <<m>> \o p \in Seq(S) /\ Len(<<m>> \o p) = Len(p) + 1
    OBVIOUS
  <1>3. /\ <<m>> \o (<<n>> \o q) \in Seq(S)
        /\ Len(<<m>> \o (<<n>> \o q)) = (Len(q) + 1) + 1
    BY <1>1, <1>2
  <1>4. (Len(q) + 1) + 1 = Len(q) + 2
    OBVIOUS
  <1> QED
    BY <1>3, <1>4 DEF mmio_append_node

Nodes == {mmio_node(w, uart_base, uart_size, "uart") : w \in BOOLEAN}
             \cup {mmio_node(w, flash_base, flash_size, "flash") : w \in BOOLEAN}

\* The list of a size holds these nodes only, and at most four.
LEMMA DomainNodes ==
    ASSUME NEW size
    PROVE  Domain(size) \in Seq(Nodes) /\ Len(Domain(size)) \in 0 .. 4
  <1> DEFINE u == mmio_node(TRUE, uart_base, uart_size, "uart")
             v == mmio_node(FALSE, uart_base, uart_size, "uart")
             f == mmio_node(TRUE, flash_base, flash_size, "flash")
             g == mmio_node(FALSE, flash_base, flash_size, "flash")
             list(q, n, m) == mmio_append_node(mmio_append_node(q, n), m)
             uart == IF size = 1 THEN list(<<>>, u, v) ELSE <<>>
  <1>1. {u, v, f, g} \subseteq Nodes
    BY Zenon DEF Nodes
  <1>2. Domain(size) = IF size = 8 THEN <<>> ELSE list(uart, f, g)
    BY Zenon DEF Domain, mmio_register
  <1>3. ASSUME NEW q \in Seq(Nodes), NEW n \in Nodes, NEW m \in Nodes
        PROVE  list(q, n, m) \in Seq(Nodes) /\ Len(list(q, n, m)) = Len(q) + 2
    BY AppendedNodes
  <1>4. <<>> \in Seq(Nodes) /\ Len(<<>>) = 0
    OBVIOUS
  <1> HIDE DEF u, v, f, g, list
  <1>5. uart \in Seq(Nodes) /\ Len(uart) \in 0 .. 2
    <2>1. CASE size = 1
      <3>1. list(<<>>, u, v) \in Seq(Nodes) /\ Len(list(<<>>, u, v)) = Len(<<>>) + 2
        BY <1>1, <1>3, <1>4, Zenon
      <3>2. uart = list(<<>>, u, v)
        BY <2>1
      <3> HIDE DEF uart
      <3> QED
        BY <1>4, <3>1, <3>2
    <2>2. CASE size # 1
      BY <1>4, <2>2
    <2> QED
      BY <2>1, <2>2
  <1> HIDE DEF uart
  <1>6. list(uart, f, g) \in Seq(Nodes) /\ Len(list(uart, f, g)) \in 0 .. 4
    <2>1. list(uart, f, g) \in Seq(Nodes) /\ Len(list(uart, f, g)) = Len(uart) + 2
      BY <1>1, <1>3, <1>5, Zenon
    <2>2. \A k \in 0 .. 2 : k + 2 \in 0 .. 4
      OBVIOUS
    <2>3. Len(list(uart, f, g)) \in 0 .. 4
      BY <1>5, <2>1, <2>2, Zenon
    <2> QED
      BY <2>1, <2>3
  <1> QED
    BY <1>2, <1>4, <1>6

\* What the UART serves is an address of one of its registers.
LEMMA UartAddress ==
    ASSUME NEW size, NEW addr \in Nat, NEW w, Target(size, addr, w) = "uart"
    PROVE  addr \in uart_base .. uart_base + 7
  <1> DEFINE domain == Domain(size)
             hits == {i \in DOMAIN domain : /\ domain[i].write = w
                                            /\ domain[i].start_addr <= addr /\ addr <= domain[i].end_addr}
             first == CHOOSE i \in hits : \A j \in hits : i <= j
  <1>1. match_mmio_handler(size, addr, w) = "uart"
    BY DEF Target, nullptr
  <1>2. hits # {} /\ domain[first].callback = "uart"
    BY <1>1, Zenon DEF match_mmio_handler, nullptr
  <1>3. domain \in Seq(Nodes) /\ DOMAIN domain \subseteq 1 .. 4
    BY DomainNodes
  <1> HIDE DEF domain
  <1>4. first \in hits
    <2>1. hits \subseteq 1 .. 4
      BY <1>3
    <2> HIDE DEF hits
    <2>2. \E i \in hits : \A j \in hits : i <= j
      <3>1. 1 \in hits \/ 2 \in hits \/ 3 \in hits \/ 4 \in hits
        <4>1. PICK i \in hits : TRUE
          BY <1>2
        <4> QED
          BY <2>1, <4>1
      <3>2. CASE 1 \in hits
        BY <2>1, <3>2
      <3>3. CASE 1 \notin hits /\ 2 \in hits
        BY <2>1, <3>3
      <3>4. CASE 1 \notin hits /\ 2 \notin hits /\ 3 \in hits
        BY <2>1, <3>4
      <3>5. CASE 1 \notin hits /\ 2 \notin hits /\ 3 \notin hits /\ 4 \in hits
        BY <2>1, <3>5
      <3> QED
        BY <3>1, <3>2, <3>3, <3>4, <3>5
    <2> QED
      BY <2>2
  <1>5. domain[first] \in Nodes
    BY <1>3, <1>4
  <1>6. /\ domain[first].start_addr <= addr /\ addr <= domain[first].end_addr
    BY <1>4
  <1>7. domain[first].start_addr = uart_base /\ domain[first].end_addr = uart_base + 8 - 1
    <2> HIDE DEF first
    <2>1. PICK w0 \in BOOLEAN : \/ domain[first] = mmio_node(w0, uart_base, uart_size, "uart")
                                \/ domain[first] = mmio_node(w0, flash_base, flash_size, "flash")
      BY <1>5 DEF Nodes
    <2>2. domain[first] = mmio_node(w0, uart_base, uart_size, "uart")
      BY <1>2, <2>1 DEF mmio_node
    <2> QED
      BY <2>2 DEF mmio_node, uart_size
  <1> QED
    BY <1>6, <1>7, AlignedAssumption

-----------------------------------------------------------------------------
(* A write of the RTL and the read before it.                              *)

\* No character has come, and no interrupt of one is pending or was accepted.
Unheard(u) == ~u.dat_ready /\ u.IIR \in {1, 2, 3}

\* Nothing is typed: a clock of the device raises the other interrupt at most.
LEMMA StepUnheard ==
    ASSUME NEW x, Shape(x), Silent(x), NEW d \in Trees, Unheard(x.uart[d])
    PROVE  Unheard(step(x, d).uart[d])
  <1> DEFINE u == x.uart[d]
             r == [x EXCEPT !.uart[d].IIR = 2, !.uart[d].RBR_written = FALSE]
  <1>1. Polled(x, d) = x
    BY DEF Silent, Polled, Waiting
  <1>2. CASE Idle(u) /\ u.RBR_written /\ TxEnabled(u)
    <2>1. step(x, d) = irqc_set_interrupt(r, d, TRUE)
      BY <1>1, <1>2, Zenon DEF step, Raised, Unheard
    <2>2. "uart" \in DOMAIN x /\ d \in DOMAIN x.uart
      BY DEF Shape
    <2>3. {"IIR", "RBR_written", "dat_ready"} \subseteq DOMAIN x.uart[d]
      BY ResetFields DEF Shape
    <2>4. r.uart[d].IIR = 2 /\ r.uart[d].dat_ready = u.dat_ready
      BY <2>2, <2>3
    <2> HIDE DEF r
    <2>5. step(x, d).uart[d] = r.uart[d]
      BY <2>1 DEF irqc_set_interrupt
    <2> QED
      BY <2>4, <2>5 DEF Unheard
  <1>3. CASE ~(Idle(u) /\ u.RBR_written /\ TxEnabled(u))
    <2>1. step(x, d) = x
      BY <1>1, <1>3, Zenon DEF step, Raised, Unheard
    <2> QED
      BY <2>1
  <1> QED
    BY <1>2, <1>3

\* A register no character shows in is written.
LEMMA AssignUnheard ==
    ASSUME NEW x, Shape(x), Silent(x), NEW d \in Trees, Unheard(x.uart[d]),
           NEW f \in {"DLR", "IER", "LCR_DLAB", "RBR_written"}, NEW v
    PROVE  LET y == [x EXCEPT !.uart[d][f] = v] IN Shape(y) /\ Silent(y) /\ Unheard(y.uart[d])
  <1> DEFINE y == [x EXCEPT !.uart[d][f] = v]
  <1>1. f \in DOMAIN reset \ {"IIR"} /\ "IIR" \in DOMAIN reset \ {f} /\ "dat_ready" \in DOMAIN reset \ {f}
    BY ResetFields
  <1>2. Keeps(x, y, d) /\ \A g \in DOMAIN reset \ {f} : y.uart[d][g] = x.uart[d][g]
    BY <1>1, AssignKeeps
  <1>3. y.host = x.host /\ y.dat = x.dat
    BY DEF Shape
  <1> HIDE DEF y
  <1>4. Shape(y) /\ Silent(y) /\ Unheard(y.uart[d])
    BY <1>1, <1>2, <1>3, Zenon DEF Keeps, Silent, Unheard
  <1> QED
    BY <1>4 DEF y

\* The interrupt of the transmitter is accepted.
LEMMA AcceptUnheard ==
    ASSUME NEW x, Shape(x), Silent(x), NEW d \in Trees, Unheard(x.uart[d]), ~Idle(x.uart[d])
    PROVE  LET y == Accept(x, d) IN Shape(y) /\ Silent(y) /\ Unheard(y.uart[d])
  <1> DEFINE y == Accept(x, d)
             z == [x EXCEPT !.uart[d].IIR = @ + 1]
  <1>1. x.uart[d].IIR = 2
    BY DEF Unheard, Idle
  <1>2. /\ {"IIR", "dat_ready"} \subseteq DOMAIN x.uart[d]
        /\ d \in DOMAIN x.uart /\ {"uart", "host", "dat", "irr"} \subseteq DOMAIN x
    BY ResetFields DEF Shape
  <1>3. z.uart[d].IIR = x.uart[d].IIR + 1 /\ z.uart[d].dat_ready = x.uart[d].dat_ready
    BY <1>2
  <1>4. z.host = x.host /\ z.dat = x.dat
    BY <1>2
  <1>5. y = irqc_set_interrupt(z, d, FALSE)
    BY Zenon DEF Accept
  <1> HIDE DEF z, y
  <1>6. y.uart = z.uart /\ y.host = z.host /\ y.dat = z.dat
    BY <1>5 DEF irqc_set_interrupt
  <1>7. Keeps(x, y, d)
    BY AcceptKeeps DEF y
  <1>8. Unheard(y.uart[d])
    BY <1>1, <1>3, <1>6 DEF Unheard
  <1>9. Silent(y)
    BY <1>4, <1>6 DEF Silent
  <1> QED
    BY <1>7, <1>8, <1>9, Zenon DEF Keeps, y

\* With nothing waiting, nothing is taken from the host.
LEMMA StepSilent ==
    ASSUME NEW x, Shape(x), Silent(x), NEW d \in Trees
    PROVE  Silent(step(x, d))
  <1>1. Polled(x, d) = x
    BY DEF Silent, Polled, Waiting
  <1>2. ASSUME NEW z, z.host = x.host, z.dat = x.dat
        PROVE  Silent(irqc_set_interrupt(z, d, TRUE))
    <2>1. irqc_set_interrupt(z, d, TRUE).host = z.host /\ irqc_set_interrupt(z, d, TRUE).dat = z.dat
      BY DEF irqc_set_interrupt
    <2> QED
      BY <1>2, <2>1, Zenon DEF Silent
  <1> DEFINE rx == [x EXCEPT !.uart[d].IIR = 4]
             tx == [x EXCEPT !.uart[d].IIR = 2, !.uart[d].RBR_written = FALSE]
  <1>3. rx.host = x.host /\ rx.dat = x.dat /\ tx.host = x.host /\ tx.dat = x.dat
    BY DEF Shape
  <1>4. step(x, d) \in {x, irqc_set_interrupt(rx, d, TRUE), irqc_set_interrupt(tx, d, TRUE)}
    BY <1>1, Zenon DEF step, Raised
  <1> HIDE DEF rx, tx
  <1> QED
    BY <1>2, <1>3, <1>4, Zenon

\* A write to the UART.
LEMMA WriteUnheard ==
    ASSUME NEW x, Shape(x), Silent(x), NEW d \in Trees, Unheard(x.uart[d]), NEW addr, NEW val
    PROVE  Unheard(writem8(x, d, addr, val).uart[d])
  <1> DEFINE Still(y) == Shape(y) /\ Silent(y) /\ Unheard(y.uart[d])
             reg == addr % uart_size
             a == AcceptedByWrite(x, d, reg)
             w == Written(a, d, reg, val)
  <1>1. Still(a)
    <2>1. CASE ~Idle(x.uart[d])
      BY <2>1, AcceptUnheard, Zenon DEF AcceptedByWrite
    <2>2. CASE Idle(x.uart[d])
      BY <2>2, Zenon DEF AcceptedByWrite
    <2> QED
      BY <2>1, <2>2
  <1> HIDE DEF a, reg
  <1>2. ASSUME NEW f \in {"DLR", "IER", "LCR_DLAB", "RBR_written"}, NEW v
        PROVE  Still([a EXCEPT !.uart[d][f] = v])
    BY <1>1, AssignUnheard, Zenon
  <1>3. {"DLR", "IER", "LCR_DLAB", "RBR_written"} \subseteq {"DLR", "IER", "LCR_DLAB", "RBR_written"}
    OBVIOUS
  <1>4. CASE reg = 0 /\ ~a.uart[d].LCR_DLAB
    <2> DEFINE t == [a EXCEPT !.uart[d].RBR_written = TRUE]
    <2>1. writem8(x, d, addr, val) = step(step(t, d), d)
      <3>1. w = Transmitted(a, d)
        BY <1>4 DEF Written
      <3> QED
        BY <3>1, Zenon DEF writem8, Transmitted, a, w, reg
    <2>2. "RBR_written" \in {"DLR", "IER", "LCR_DLAB", "RBR_written"}
      OBVIOUS
    <2>3. Still(t)
      BY <1>2, <2>2, Zenon
    <2> HIDE DEF t
    <2>4. Unheard(step(t, d).uart[d]) /\ Shape(step(t, d))
      BY <2>3, StepUnheard, StepKeeps, Zenon DEF Keeps
    <2>5. Silent(step(t, d))
      BY <2>3, StepSilent, Zenon
    <2> QED
      BY <2>1, <2>4, <2>5, StepUnheard, Zenon
  <1>5. CASE ~(reg = 0 /\ ~a.uart[d].LCR_DLAB)
    <2>1. Still(w)
      <3>1. CASE reg = 0 /\ a.uart[d].LCR_DLAB
        <4>1. w = [a EXCEPT !.uart[d].DLR = val]
          BY <3>1 DEF Written
        <4>2. "DLR" \in {"DLR", "IER", "LCR_DLAB", "RBR_written"}
          OBVIOUS
        <4> HIDE DEF w
        <4> QED
          BY <1>2, <4>1, <4>2, Zenon
      <3>2. CASE reg = 1 /\ ~a.uart[d].LCR_DLAB
        <4>1. w = [a EXCEPT !.uart[d].IER = val % 16]
          BY <3>2 DEF Written
        <4>2. "IER" \in {"DLR", "IER", "LCR_DLAB", "RBR_written"}
          OBVIOUS
        <4> HIDE DEF w
        <4> QED
          BY <1>2, <4>1, <4>2, Zenon
      <3>3. CASE reg = 3
        <4>1. w = [a EXCEPT !.uart[d].LCR_DLAB = bit(val, 7)]
          BY <3>3 DEF Written
        <4>2. "LCR_DLAB" \in {"DLR", "IER", "LCR_DLAB", "RBR_written"}
          OBVIOUS
        <4> HIDE DEF w
        <4> QED
          BY <1>2, <4>1, <4>2, Zenon
      <3>4. CASE reg \notin {0, 1, 3} \/ (reg = 1 /\ a.uart[d].LCR_DLAB)
        <4>1. w = a
          BY <3>4 DEF Written
        <4> QED
          BY <1>1, <4>1, Zenon
      <3> QED
        BY <1>5, <3>1, <3>2, <3>3, <3>4, Zenon
    <2>2. writem8(x, d, addr, val) = step(w, d)
      BY Zenon DEF writem8, a, w, reg
    <2> HIDE DEF w
    <2> QED
      BY <2>1, <2>2, StepUnheard, Zenon
  <1> QED
    BY <1>4, <1>5

\* A read of the UART: the interrupt it can accept is that of the transmitter.
LEMMA ReadUnheard ==
    ASSUME NEW x, Shape(x), Silent(x), NEW d \in Trees, Unheard(x.uart[d]), NEW addr
    PROVE  /\ Unheard(readm8(x, d, addr).uart[d])
           /\ addr % uart_size # 2 => readm8(x, d, addr) = step(x, d)
  <1> DEFINE u == x.uart[d]
             reg == addr % uart_size
             t == [x EXCEPT !.uart[d].dat_ready = FALSE]
  <1>1. ~Idle(u) => IIR_sel(u) = 1
    BY DEF Unheard, Idle, IIR_sel
  <1>2. CASE ~Idle(u) /\ reg = 2 /\ ~u.LCR_DLAB
    <2>1. AcceptedByRead(x, d, reg) = Accept(t, d)
      BY <1>1, <1>2 DEF AcceptedByRead
    <2>2. "dat_ready" \in DOMAIN reset \ {"IIR"}
      BY ResetFields
    <2>3. Keeps(x, t, d)
      BY <2>2, AssignKeeps, Zenon
    <2>4. t.host = x.host /\ t.dat = x.dat
      BY DEF Shape
    <2>5. t.uart[d].IIR = x.uart[d].IIR /\ t.uart[d].dat_ready = FALSE
      <3>1. {"IIR", "dat_ready"} \subseteq DOMAIN x.uart[d] /\ d \in DOMAIN x.uart /\ "uart" \in DOMAIN x
        BY ResetFields DEF Shape
      <3> QED
        BY <3>1
    <2> HIDE DEF t
    <2>6. Shape(t) /\ Silent(t) /\ Unheard(t.uart[d]) /\ ~Idle(t.uart[d])
      BY <1>2, <2>3, <2>4, <2>5, Zenon DEF Keeps, Silent, Unheard, Idle
    <2> DEFINE a == Accept(t, d)
    <2>7. Shape(a) /\ Silent(a) /\ Unheard(a.uart[d])
      BY <2>6, AcceptUnheard, Zenon
    <2>8. readm8(x, d, addr) = step(a, d)
      BY <2>1, Zenon DEF readm8
    <2> HIDE DEF a
    <2> QED
      BY <1>2, <2>7, <2>8, StepUnheard, Zenon
  <1>3. CASE ~(~Idle(u) /\ reg = 2 /\ ~u.LCR_DLAB)
    <2>1. AcceptedByRead(x, d, reg) = x
      BY <1>1, <1>3 DEF AcceptedByRead
    <2>2. readm8(x, d, addr) = step(x, d)
      BY <2>1, Zenon DEF readm8
    <2> QED
      BY <2>2, StepUnheard, Zenon
  <1> QED
    BY <1>2, <1>3

\* An access of the emulator.
LEMMA AccessUnheard ==
    ASSUME NEW x, Shape(x), Silent(x), NEW d \in Trees, Unheard(x.uart[d]), NEW op
    PROVE  Unheard(Access(x, d, op).uart[d])
  <1> DEFINE y == Access(x, d, op)
  <1>1. CASE op # None /\ op.w /\ Target(op.size, op.addr, TRUE) = "uart"
    BY <1>1, WriteUnheard, Zenon DEF Access, phy_writem
  <1>2. CASE op # None /\ ~op.w /\ Target(op.size, op.addr, FALSE) = "uart"
    BY <1>2, ReadUnheard, Zenon DEF Access, phy_readm
  <1>3. CASE /\ ~(op # None /\ op.w /\ Target(op.size, op.addr, TRUE) = "uart")
             /\ ~(op # None /\ ~op.w /\ Target(op.size, op.addr, FALSE) = "uart")
    <2>1. y = x \/ \E f \in {"flash", "dram", "running"} : \E v : y = [x EXCEPT ![f] = v]
      <3>1. CASE op = None
        BY <3>1 DEF Access
      <3>2. CASE op # None /\ op.w
        <4> DEFINE target == Target(op.size, op.addr, TRUE)
        <4>1. y = phy_writem(x, d, op) /\ target # "uart"
          BY <1>3, <3>2, Zenon DEF Access
        <4>2. CASE target = "flash"
          BY <4>1, <4>2, Zenon DEF phy_writem
        <4>3. CASE target = "dram"
          BY <4>1, <4>3, Zenon DEF phy_writem
        <4>4. CASE target = "dropped"
          BY <4>1, <4>4, Zenon DEF phy_writem
        <4>5. CASE target \notin {"uart", "flash", "dram", "dropped"}
          BY <4>1, <4>5, Zenon DEF phy_writem
        <4> QED
          BY <4>1, <4>2, <4>3, <4>4, <4>5, Zenon
      <3>3. CASE op # None /\ ~op.w
        <4> DEFINE target == Target(op.size, op.addr, FALSE)
        <4>1. y = phy_readm(x, d, op) /\ target # "uart"
          BY <1>3, <3>3, Zenon DEF Access
        <4>2. CASE target \in {"flash", "dram"}
          BY <4>1, <4>2, Zenon DEF phy_readm
        <4>3. CASE target \notin {"uart", "flash", "dram"}
          BY <4>1, <4>3, Zenon DEF phy_readm
        <4> QED
          BY <4>1, <4>2, <4>3, Zenon
      <3> QED
        BY <3>1, <3>2, <3>3
    <2> HIDE DEF y
    <2>2. y.uart = x.uart
      BY <2>1 DEF Shape
    <2> QED
      BY <2>2 DEF y
  <1> QED
    BY <1>1, <1>2, <1>3

\* With nothing typed and a device that has nothing to do, the read before a write
\* changes nothing, unless it is that of IIR before a write of FCR; what cannot be
\* read stops the simulator.
LEMMA BusIsAccess ==
    ASSUME NEW x, NEW d \in Trees, Calm(x), Silent(x), Unheard(x.uart[d]),
           NEW op, op # None => op.addr \in Nat, ~WritesFCR(op), BusAccess(x, d, op).running
    PROVE  BusAccess(x, d, op) = Access(x, d, op)
  <1> DEFINE y == phy_readm(x, d, op)
             target == Target(op.size, op.addr, FALSE)
  <1>1. CASE op = None
    BY <1>1, Zenon DEF BusAccess, Access
  <1>2. CASE op # None /\ ~op.w
    BY <1>2, Zenon DEF BusAccess, Access
  <1>3. CASE op # None /\ op.w
    <2>1. y.running
      BY <1>3, Zenon DEF BusAccess
    <2>2. target \in {"uart", "flash", "dram"}
      <3> SUFFICES ASSUME target \notin {"uart", "flash", "dram"}
                   PROVE  FALSE
        BY Zenon
      <3>1. y = [x EXCEPT !.running = FALSE]
        BY Zenon DEF phy_readm
      <3> HIDE DEF y
      <3> QED
        BY <2>1, <3>1 DEF Calm, Shape
    <2>3. y = x
      <3>1. CASE target \in {"flash", "dram"}
        BY <3>1 DEF phy_readm
      <3>2. CASE target = "uart"
        <4>1. y = readm8(x, d, op.addr)
          BY <3>2, Zenon DEF phy_readm
        <4>2. op.addr \in uart_base .. uart_base + 7
          BY <1>3, <3>2, UartAddress, Zenon
        <4>3. op.addr # uart_base + 2
          BY <1>3, Zenon DEF WritesFCR
        <4>4. op.addr % uart_size # 2
          BY <4>2, <4>3, AlignedAssumption DEF uart_size
        <4>5. readm8(x, d, op.addr) = step(x, d)
          BY <4>4, ReadUnheard, Zenon DEF Calm
        <4> QED
          BY <4>1, <4>5, StepIdle, Zenon
      <3> QED
        BY <2>2, <3>1, <3>2
    <2>4. BusAccess(x, d, op) = phy_writem(y, d, op)
      BY <1>3, <2>1, Zenon DEF BusAccess
    <2>5. Access(x, d, op) = phy_writem(x, d, op)
      BY <1>3, Zenon DEF Access
    <2> HIDE DEF y
    <2> QED
      BY <2>3, <2>4, <2>5, Zenon
  <1> QED
    BY <1>1, <1>2, <1>3

-----------------------------------------------------------------------------
(* The emulator is behind by the accesses of a queue.                      *)

\* The RTL has been at h[0], where the emulator is now, and each access of the
\* queue has brought it from one of these to the next.
Course(q, h) ==
    \A i \in 1 .. Len(q) :
        LET op == q[i].op
            after == Access(h[i - 1], "rtl", op)
        IN  /\ after.running
            /\ Alike(after, "rtl", h[i], "rtl")
            /\ ~op.w => q[i].ret = ReadValue(h[i - 1], "rtl", op)

Behind(q, x, h) ==
    /\ Alike(h[0], "rtl", x, "emu")
    /\ Alike(h[Len(q)], "rtl", x, "rtl")
    /\ Course(q, h)

\* A queue: what is in it does not matter here.
Listed(q) == \E S : q \in Seq(S)

\* The last element of a queue is the one that was appended.
LEMMA ListedAppend ==
    ASSUME NEW q, Listed(q), NEW v
    PROVE  /\ Listed(Append(q, v))
           /\ Len(q) \in Nat /\ Len(Append(q, v)) = Len(q) + 1
           /\ Append(q, v)[Len(q) + 1] = v
           /\ \A i \in 1 .. Len(q) : Append(q, v)[i] = q[i]
  <1>1. PICK S : q \in Seq(S)
    BY DEF Listed
  <1>2. q \in Seq(S \cup {v})
    BY <1>1
  <1> QED
    BY <1>2 DEF Listed

\* The head leaves a queue and the others move up.
LEMMA ListedTail ==
    ASSUME NEW q, Listed(q), q # <<>>
    PROVE  /\ Listed(Tail(q))
           /\ Len(q) \in Nat \ {0} /\ Len(Tail(q)) = Len(q) - 1
           /\ Head(q) = q[1]
           /\ \A i \in 1 .. Len(q) - 1 : Tail(q)[i] = q[i + 1]
  BY DEF Listed

\* Being alike is symmetric and transitive.
LEMMA AlikeSymmetric ==
    ASSUME NEW x, NEW y, NEW d, NEW e, Alike(x, d, y, e)
    PROVE  Alike(y, e, x, d)
  BY DEF Alike

\* Alike is transitive.
LEMMA AlikeTransitive ==
    ASSUME NEW x, NEW y, NEW z, NEW d, NEW e, NEW c, Alike(x, d, y, e), Alike(y, e, z, c)
    PROVE  Alike(x, d, z, c)
  BY DEF Alike

\* The RTL performs an access: the emulator is behind by one more.
LEMMA RunsAhead ==
    ASSUME NEW q, Listed(q), NEW x, Calm(x), x.running, NEW h, Behind(q, x, h), NEW op, NEW ret,
           Access(x, "rtl", op).running,
           ~op.w => ret = ReadValue(x, "rtl", op)
    PROVE  \E g : Behind(Append(q, [op |-> op, ret |-> ret]), Access(x, "rtl", op), g)
  <1> DEFINE n == Len(q)
             v == [op |-> op, ret |-> ret]
             p == Append(q, v)
             y == Access(x, "rtl", op)
             g == [i \in 0 .. n + 1 |-> IF i <= n THEN h[i] ELSE y]
  <1>1. "rtl" \in Trees /\ "emu" \in Trees /\ "emu" \in Trees \ {"rtl"}
    BY DEF Trees
  <1>2. n \in Nat /\ Len(p) = n + 1 /\ p[n + 1] = v /\ \A i \in 1 .. n : p[i] = q[i]
    BY ListedAppend
  <1>3. g[n + 1] = y /\ g[0] = h[0] /\ g[n] = h[n] /\ \A i \in 0 .. n : g[i] = h[i]
    BY <1>2
  <1>4. v.op = op /\ v.ret = ret
    OBVIOUS
  <1>5. Alike(x, "rtl", x, "rtl") /\ Alike(h[n], "rtl", x, "rtl")
    BY AlikeSymmetric, AlikeTransitive, Zenon DEF Behind
  <1>6. Alike(y, "rtl", y, "rtl") /\ Alike(Access(h[n], "rtl", op), "rtl", y, "rtl")
    BY <1>1, <1>5, AccessAlike, Zenon
  <1>7. Keeps(x, y, "rtl")
    BY <1>1, AccessKeeps, Zenon DEF Calm
  <1>8. Access(h[n], "rtl", op).running
    BY <1>6 DEF Alike
  <1>9. Alike(h[0], "rtl", y, "emu")
    BY <1>1, <1>6, <1>7, Zenon DEF Behind, Alike, Keeps
  <1>10. ~op.w => ret = ReadValue(h[n], "rtl", op)
    <2>1. ReadValue(h[n], "rtl", op) = ReadValue(x, "rtl", op)
      BY <1>1, <1>5, SameValue
    <2> QED
      BY <2>1
  <1> HIDE DEF g, p, y, v
  <1>11. Course(p, g)
    <2> SUFFICES ASSUME NEW i \in 1 .. n + 1
                 PROVE  LET after == Access(g[i - 1], "rtl", p[i].op)
                        IN  /\ after.running
                            /\ Alike(after, "rtl", g[i], "rtl")
                            /\ ~p[i].op.w => p[i].ret = ReadValue(g[i - 1], "rtl", p[i].op)
      BY <1>2, Zenon DEF Course
    <2>1. CASE i = n + 1
      <3>1. g[i - 1] = h[n] /\ g[i] = y /\ p[i] = v
        BY <1>2, <1>3, <2>1
      <3> QED
        BY <1>4, <1>6, <1>8, <1>10, <3>1, Zenon
    <2>2. CASE i # n + 1
      <3>1. i \in 1 .. n /\ i - 1 \in 0 .. n /\ i \in 0 .. n
        BY <1>2, <2>2
      <3>2. g[i - 1] = h[i - 1] /\ g[i] = h[i] /\ p[i] = q[i]
        BY <1>2, <1>3, <3>1
      <3>3. Course(q, h)
        BY DEF Behind
      <3> QED
        BY <3>1, <3>2, <3>3, Zenon DEF Course
    <2> QED
      BY <2>1, <2>2
  <1>12. Behind(p, y, g)
    BY <1>2, <1>3, <1>6, <1>9, <1>11 DEF Behind
  <1> QED
    BY <1>12 DEF p, v, y

\* The emulator performs the oldest access: it reads what the RTL did, goes on
\* running and is behind by one less.
LEMMA CatchesUp ==
    ASSUME NEW q, Listed(q), q # <<>>, NEW x, Calm(x), x.running, NEW h, Behind(q, x, h)
    PROVE  LET op == Head(q).op
           IN  /\ Access(x, "emu", op).running
               /\ ~op.w => ReadValue(x, "emu", op) = Head(q).ret
               /\ \E g : Behind(Tail(q), Access(x, "emu", op), g)
  <1> DEFINE n == Len(q)
             op == Head(q).op
             y == Access(x, "emu", op)
             p == Tail(q)
             after == Access(h[0], "rtl", op)
             g == [i \in 0 .. n - 1 |-> h[i + 1]]
  <1>1. "rtl" \in Trees /\ "emu" \in Trees /\ "rtl" \in Trees \ {"emu"}
    BY DEF Trees
  <1>2. n \in Nat \ {0} /\ Len(p) = n - 1 /\ Head(q) = q[1] /\ \A i \in 1 .. n - 1 : p[i] = q[i + 1]
    BY ListedTail
  <1>3. g[0] = h[1] /\ g[n - 1] = h[n] /\ \A i \in 0 .. n - 1 : g[i] = h[i + 1]
    BY <1>2
  <1>4. Alike(h[0], "rtl", x, "emu") /\ Alike(h[n], "rtl", x, "rtl") /\ Course(q, h)
    BY DEF Behind
  <1>5. /\ after.running /\ Alike(after, "rtl", h[1], "rtl")
        /\ ~op.w => Head(q).ret = ReadValue(h[0], "rtl", op)
    <2>1. 1 \in 1 .. Len(q) /\ 1 - 1 = 0
      BY <1>2
    <2> QED
      BY <1>2, <1>4, <2>1, Zenon DEF Course
  <1>6. Alike(after, "rtl", y, "emu")
    BY <1>1, <1>4, AccessAlike, Zenon
  <1>7. y.running
    BY <1>5, <1>6 DEF Alike
  <1>8. ~op.w => ReadValue(x, "emu", op) = Head(q).ret
    <2>1. ReadValue(h[0], "rtl", op) = ReadValue(x, "emu", op)
      BY <1>1, <1>4, SameValue
    <2> QED
      BY <1>5, <2>1
  <1>9. Keeps(x, y, "emu")
    BY <1>1, AccessKeeps, Zenon DEF Calm
  <1>10. Alike(h[1], "rtl", y, "emu")
    <2>1. Alike(h[1], "rtl", after, "rtl")
      BY <1>5, AlikeSymmetric, Zenon
    <2> HIDE DEF after, y
    <2> QED
      BY <1>6, <2>1, AlikeTransitive, Zenon
  <1>11. Alike(h[n], "rtl", y, "rtl")
    <2>1. h[n].running <=> y.running
      BY <1>4, <1>7 DEF Alike
    <2> QED
      BY <1>1, <1>4, <1>6, <1>9, <2>1, Zenon DEF Alike, Keeps
  <1> HIDE DEF g, p, y, op
  <1>12. Course(p, g)
    <2> SUFFICES ASSUME NEW i \in 1 .. n - 1
                 PROVE  LET a == Access(g[i - 1], "rtl", p[i].op)
                        IN  /\ a.running
                            /\ Alike(a, "rtl", g[i], "rtl")
                            /\ ~p[i].op.w => p[i].ret = ReadValue(g[i - 1], "rtl", p[i].op)
      BY <1>2, Zenon DEF Course
    <2>1. i + 1 \in 1 .. n /\ i \in 0 .. n - 1 /\ i - 1 \in 0 .. n - 1 /\ (i + 1) - 1 = i /\ (i - 1) + 1 = i
      BY <1>2
    <2>2. g[i - 1] = h[i] /\ g[i] = h[i + 1] /\ p[i] = q[i + 1]
      BY <1>2, <1>3, <2>1
    <2> QED
      BY <1>4, <2>1, <2>2, Zenon DEF Course
  <1>13. Behind(p, y, g)
    BY <1>2, <1>3, <1>10, <1>11, <1>12 DEF Behind
  <1> QED
    BY <1>7, <1>8, <1>13 DEF p, y, op

-----------------------------------------------------------------------------
\* The inductive invariant of a difftest in which nothing has been typed and FCR
\* has not been written: the emulator is behind by the accesses of ahead.
Follows ==
    /\ Listed(ahead)
    /\ mode = "difftest" /\ s.running /\ ~typed /\ ~fcr =>
          agree /\ Silent(s) /\ Unheard(s.uart["rtl"]) /\ \E h : Behind(ahead, s, h)

\* A simulator that differs in the interrupt line only is as far behind.
LEMMA LineBehind ==
    ASSUME NEW q, NEW x, NEW y, NEW h, Behind(q, x, h), Shape(y),
           \A f \in {"uart", "dram", "flash", "host", "dat", "running"} : y[f] = x[f]
    PROVE  Behind(q, y, h)
  BY DEF Behind, Alike, Silent

\* Both machines start from the same image.
LEMMA InitFollows == Init => Follows
  <1> SUFFICES ASSUME Init PROVE Follows
    OBVIOUS
  <1> DEFINE h == [i \in {0} |-> s]
  <1>1. ahead = <<>> /\ Listed(ahead) /\ Len(ahead) = 0
    <2>1. <<>> \in Seq({}) /\ Len(<<>>) = 0
      OBVIOUS
    <2> QED
      BY <2>1 DEF Init, Listed
  <1>2. Shape(s) /\ Silent(s)
    <2>1. Calm(s)
      BY InitHolds DEF IInv
    <2> QED
      BY <2>1 DEF Init, Silent, Calm
  <1>3. \A f \in {"uart", "dram", "flash"} : s[f]["emu"] = s[f]["rtl"]
    <2>1. s.uart["emu"] = s.uart["rtl"]
      BY DEF Init, Trees
    <2>2. s.dram["emu"] = s.dram["rtl"]
      BY DEF Init, Trees
    <2>3. s.flash["emu"] = s.flash["rtl"]
      BY DEF Init, Trees
    <2> QED
      BY <2>1, <2>2, <2>3
  <1>4. Alike(s, "rtl", s, "emu") /\ Alike(s, "rtl", s, "rtl")
    BY <1>2, <1>3 DEF Alike
  <1>5. Behind(ahead, s, h)
    <2>1. h[0] = s
      OBVIOUS
    <2>2. Course(ahead, h)
      BY <1>1 DEF Course
    <2> QED
      BY <1>1, <1>4, <2>1, <2>2 DEF Behind
  <1>6. Unheard(s.uart["rtl"])
    <2>1. s.uart["rtl"] = reset
      BY DEF Init, Trees
    <2> QED
      BY <2>1 DEF reset, Unheard
  <1> QED
    BY <1>1, <1>2, <1>5, <1>6, Zenon DEF Follows, Init

\* A cycle of the RTL notes its access and forgets what has committed.
LEMMA DifftestQueue ==
    ASSUME Listed(ahead), NEW op, NEW eirq \in BOOLEAN, NEW commit \in BOOLEAN, Difftest(op, eirq, commit)
    PROVE  LET v == [op |-> op, ret |-> IF op.w THEN 0 ELSE ReadValue(s, "rtl", op)]
               q == IF op = None THEN ahead ELSE Append(ahead, v)
           IN  /\ Listed(q) /\ Listed(ahead')
               /\ commit => q # <<>> /\ Head(q) = Head(ahead) /\ ahead' = Tail(q)
               /\ ~commit => ahead' = q
  <1> DEFINE v == [op |-> op, ret |-> IF op.w THEN 0 ELSE ReadValue(s, "rtl", op)]
             q == IF op = None THEN ahead ELSE Append(ahead, v)
  <1>1. /\ ahead' = (IF commit THEN Tail(ahead) ELSE ahead) \o IF op = None THEN <<>> ELSE <<v>>
        /\ commit => ahead # <<>>
    BY Zenon DEF Difftest
  <1> SUFFICES /\ Listed(q) /\ Listed(ahead')
               /\ commit => q # <<>> /\ Head(q) = Head(ahead) /\ ahead' = Tail(q)
               /\ ~commit => ahead' = q
    BY Zenon
  <1> HIDE DEF v
  <1>2. PICK S : ahead \in Seq(S)
    BY DEF Listed
  <1>3. ahead \in Seq(S \cup {v}) /\ v \in S \cup {v}
    BY <1>2
  <1>4. CASE op = None
    <2>1. ahead' = IF commit THEN Tail(ahead) ELSE ahead
      BY <1>1, <1>3, <1>4
    <2> QED
      BY <1>1, <1>4, <2>1, ListedTail
  <1>5. CASE op # None
    <2>1. q = Append(ahead, v) /\ Listed(q)
      BY <1>5, ListedAppend
    <2>2. CASE commit
      <3>1. ahead # <<>> /\ ahead' = Tail(ahead) \o <<v>>
        BY <1>1, <1>5, <2>2
      <3>2. Append(ahead, v) # <<>> /\ Head(Append(ahead, v)) = Head(ahead)
        BY <1>3, <3>1
      <3>3. Tail(ahead) \o <<v>> = Tail(Append(ahead, v))
        BY <1>3, <3>1
      <3> QED
        BY <2>1, <2>2, <3>1, <3>2, <3>3, ListedTail, Zenon
    <2>3. CASE ~commit
      <3>1. ahead' = ahead \o <<v>>
        BY <1>1, <1>5, <2>3
      <3>2. ahead \o <<v>> = Append(ahead, v)
        BY <1>3
      <3> QED
        BY <2>1, <2>3, <3>1, <3>2, Zenon
    <2> QED
      BY <2>2, <2>3
  <1> QED
    BY <1>4, <1>5

\* A cycle of the RTL with the emulator beside it.
LEMMA DifftestFollows ==
    ASSUME IInv, Follows, NEW op \in Accesses \cup {None},
           NEW eirq \in BOOLEAN, NEW commit \in BOOLEAN, Difftest(op, eirq, commit)
    PROVE  Follows'
  <1> DEFINE x == BusAccess(s, "rtl", op)
             y == IF eirq THEN [x EXCEPT !.irr = FALSE] ELSE x
             old == IF commit THEN Head(ahead) ELSE [op |-> None, ret |-> 0]
             z == IF x.running THEN Access(y, "emu", old.op) ELSE x
             v == [op |-> op, ret |-> IF op.w THEN 0 ELSE ReadValue(s, "rtl", op)]
             q == IF op = None THEN ahead ELSE Append(ahead, v)
  <1>1. /\ s' = IF z.running THEN step(step(z, "emu"), "rtl") ELSE z
        /\ ahead' = (IF commit THEN Tail(ahead) ELSE ahead) \o IF op = None THEN <<>> ELSE <<v>>
        /\ agree' = (agree /\ (commit /\ ~old.op.w => ReadValue(y, "emu", old.op) = old.ret))
        /\ mode = "difftest" /\ s.running /\ (commit => ahead # <<>>)
        /\ mode' = mode /\ typed' = typed /\ fcr' = (fcr \/ WritesFCR(op))
    BY Zenon DEF Difftest
  <1>2. "emu" \in Trees /\ "rtl" \in Trees /\ Calm(s) /\ Listed(ahead)
    BY DEF IInv, Trees, Follows
  <1>3. /\ Listed(q) /\ Listed(ahead')
        /\ commit => q # <<>> /\ Head(q) = Head(ahead) /\ ahead' = Tail(q)
        /\ ~commit => ahead' = q
    BY <1>2, DifftestQueue
  <1>4. CASE ~(x.running /\ z.running /\ ~typed /\ ~fcr')
    <2>1. typed \/ fcr' \/ ~z.running
      BY <1>4
    <2>2. typed \/ fcr' \/ ~s'.running
      BY <1>1, <2>1
    <2> QED
      BY <1>1, <1>3, <2>2 DEF Follows
  <1>5. CASE x.running /\ z.running /\ ~typed /\ ~fcr'
    <2>0. /\ ~fcr /\ ~WritesFCR(op) /\ Silent(s) /\ Unheard(s.uart["rtl"])
          /\ op # None => op.addr \in Nat
      BY <1>1, <1>5, AccessAssumption DEF Follows
    <2>1. PICK h : Behind(ahead, s, h)
      BY <1>1, <1>5, <2>0 DEF Follows
    <2>2. agree
      BY <1>1, <1>5, <2>0 DEF Follows
    <2>3. Calm(x) /\ x = Access(s, "rtl", op)
      BY <1>2, <1>5, <2>0, BusCalm, BusIsAccess, Zenon
    <2> HIDE DEF x
    <2>4. PICK g : Behind(q, x, g)
      <3>1. CASE op = None
        BY <2>1, <2>3, <3>1 DEF Access
      <3>2. CASE op # None
        <4>1. ~op.w => v.ret = ReadValue(s, "rtl", op)
          OBVIOUS
        <4> QED
          BY <1>1, <1>2, <1>5, <2>1, <2>3, <3>2, <4>1, RunsAhead
      <3> QED
        BY <3>1, <3>2
    <2>5. Calm(y) /\ Behind(q, y, g) /\ y.running
      <3> HIDE DEF q
      <3>1. CASE eirq
        <4>1. /\ DOMAIN y = DOMAIN x /\ y.irr = FALSE
              /\ \A f \in {"uart", "dram", "flash", "host", "dat", "running"} : y[f] = x[f]
          BY <2>3, <3>1 DEF Calm, Shape
        <4> HIDE DEF y
        <4>2. Calm(y)
          BY <2>3, <4>1, Zenon DEF Calm, Shape
        <4> QED
          BY <1>5, <2>4, <4>1, <4>2, LineBehind DEF Calm
      <3>2. CASE ~eirq
        BY <1>5, <2>3, <2>4, <3>2
      <3> QED
        BY <3>1, <3>2
    <2>10. Unheard(z.uart["rtl"])
      <3>1. Unheard(x.uart["rtl"])
        BY <1>2, <2>0, <2>3, AccessUnheard, Zenon DEF Calm
      <3>2. y.uart = x.uart
        BY <2>3 DEF Calm, Shape
      <3>3. z = Access(y, "emu", old.op) /\ "rtl" \in Trees \ {"emu"}
        BY <1>5 DEF Trees
      <3> HIDE DEF y, old
      <3>4. Keeps(y, Access(y, "emu", old.op), "emu")
        BY <1>2, <2>5, AccessKeeps, Zenon DEF Calm
      <3>5. Access(y, "emu", old.op).uart["rtl"] = y.uart["rtl"]
        BY <3>3, <3>4 DEF Keeps
      <3> QED
        BY <3>1, <3>2, <3>3, <3>5
    <2> HIDE DEF y, q
    <2>6. agree' /\ \E f : Behind(ahead', z, f)
      <3>1. CASE commit
        <4>1. q # <<>> /\ Head(q) = old /\ ahead' = Tail(q)
          BY <1>3, <3>1
        <4>2. z = Access(y, "emu", Head(q).op)
          BY <1>5, <4>1, Zenon
        <4>3. /\ ~old.op.w => ReadValue(y, "emu", old.op) = old.ret
              /\ \E f : Behind(Tail(q), Access(y, "emu", Head(q).op), f)
          BY <1>3, <2>5, <4>1, CatchesUp
        <4> QED
          BY <1>1, <2>2, <4>1, <4>2, <4>3, Zenon
      <3>2. CASE ~commit
        <4>1. z = y
          BY <1>5, <3>2 DEF Access
        <4> QED
          BY <1>1, <1>3, <2>2, <2>5, <3>2, <4>1, Zenon
      <3> QED
        BY <3>1, <3>2
    <2>7. Calm(z)
      BY <1>2, <1>5, <2>5, AccessCalm
    <2> HIDE DEF z
    <2>8. Silent(z)
      BY <2>6 DEF Behind, Alike
    <2>9. s' = z
      BY <1>1, <1>2, <1>5, <2>7, <2>8, StepIdle
    <2> QED
      BY <1>3, <2>6, <2>8, <2>9, <2>10, Zenon DEF Follows
  <1> QED
    BY <1>4, <1>5

\* Every step keeps the emulator right behind.
LEMMA NextFollows == IInv /\ Follows /\ [Next]_vars => Follows'
  <1> SUFFICES ASSUME IInv, Follows, [Next]_vars
               PROVE  Follows'
    OBVIOUS
  <1>1. ASSUME NEW c \in Chars, Type(c)
        PROVE  Follows'
    BY <1>1 DEF Type, Follows
  <1>2. ASSUME NEW op, Standalone(op) \/ SimulateOnly(op)
        PROVE  Follows'
    BY <1>2 DEF Standalone, SimulateOnly, Follows
  <1>3. CASE UNCHANGED vars
    BY <1>3 DEF vars, Follows
  <1> QED
    BY <1>1, <1>2, <1>3, DifftestFollows DEF Next, Loop

\* For every program and image, however far the emulator is behind: as long as
\* nothing is typed and FCR is not written, a difftest finds no difference between
\* the machines, although the bus of the RTL reads before it writes
\* (difftest.cc, axi4-crossbar.cc, virt-uart.cc, memory.cc).
THEOREM MachinesAgreeHolds == Spec => []MachinesAgree
  <1>1. IInv /\ Follows => MachinesAgree
    <2> SUFFICES ASSUME Follows, mode = "difftest", s.running, ~typed, ~fcr
                 PROVE  agree /\ (ahead = <<>> => \A f \in {"uart", "dram", "flash"} : s[f]["emu"] = s[f]["rtl"])
      BY DEF MachinesAgree, Together
    <2>1. PICK h : Behind(ahead, s, h)
      BY DEF Follows
    <2>2. ASSUME ahead = <<>>, NEW f \in {"uart", "dram", "flash"}
          PROVE  s[f]["emu"] = s[f]["rtl"]
      <3>1. Len(ahead) = 0
        BY <2>2
      <3>2. h[0][f]["rtl"] = s[f]["emu"] /\ h[0][f]["rtl"] = s[f]["rtl"]
        BY <2>1, <3>1 DEF Behind, Alike
      <3> QED
        BY <3>2
    <2> QED
      BY <2>2 DEF Follows
  <1> QED
    BY <1>1, InitHolds, NextKeeps, InitFollows, NextFollows, PTL DEF Spec

-----------------------------------------------------------------------------
(* A character the software has been told of.                              *)

\* An access to register 0 of the UART, and a read of it.
AtRBR(op) == op # None /\ op.addr = uart_base
ReadsRBR(op) == AtRBR(op) /\ ~op.w

\* The interrupt of a character is pending in y as in x, and RBR still holds it.
Holds(x, y, d) == Shape(y) /\ y.uart[d].IIR = 4 /\ y.uart[d].RBR = x.uart[d].RBR

\* A clock of the device changes nothing.
LEMMA StepHolds ==
    ASSUME NEW x, NEW y, NEW d \in Trees, Holds(x, y, d)
    PROVE  Holds(x, step(y, d), d)
  <1>1. ~Idle(y.uart[d])
    BY DEF Holds, Idle
  <1> QED
    BY <1>1, Zenon DEF step

\* Nor does a write to a register other than IIR and RBR.
LEMMA AssignHolds ==
    ASSUME NEW x, Shape(x), NEW d \in Trees, x.uart[d].IIR = 4,
           NEW f \in {"DLR", "IER", "LCR_DLAB", "RBR_written"}, NEW v
    PROVE  Holds(x, [x EXCEPT !.uart[d][f] = v], d)
  <1>1. f \in DOMAIN reset \ {"IIR"} /\ "IIR" \in DOMAIN reset \ {f} /\ "RBR" \in DOMAIN reset \ {f}
    BY ResetFields
  <1> DEFINE y == [x EXCEPT !.uart[d][f] = v]
  <1>2. Keeps(x, y, d) /\ \A g \in DOMAIN reset \ {f} : y.uart[d][g] = x.uart[d][g]
    BY <1>1, AssignKeeps
  <1> HIDE DEF y
  <1>3. Holds(x, y, d)
    BY <1>1, <1>2 DEF Holds, Keeps
  <1> QED
    BY <1>3 DEF y

\* A write accepts another interrupt only.
LEMMA WriteHolds ==
    ASSUME NEW x, Shape(x), NEW d \in Trees, x.uart[d].IIR = 4, NEW addr, NEW val
    PROVE  Holds(x, writem8(x, d, addr, val), d)
  <1> DEFINE reg == addr % uart_size
  <1>1. AcceptedByWrite(x, d, reg) = x
    <2>1. IIR_sel(x.uart[d]) # 1
      BY DEF IIR_sel
    <2> QED
      BY <2>1, Zenon DEF AcceptedByWrite
  <1>2. Holds(x, x, d)
    BY DEF Holds
  <1>3. ASSUME NEW f \in {"DLR", "IER", "LCR_DLAB", "RBR_written"}, NEW v
        PROVE  Holds(x, [x EXCEPT !.uart[d][f] = v], d)
    BY AssignHolds, Zenon
  <1> HIDE DEF reg
  <1>4. Holds(x, Transmitted(x, d), d)
    <2>1. "RBR_written" \in {"DLR", "IER", "LCR_DLAB", "RBR_written"}
      OBVIOUS
    <2> QED
      BY <1>3, <2>1, StepHolds, Zenon DEF Transmitted
  <1>5. Holds(x, Written(x, d, reg, val), d)
    <2>1. CASE reg = 0 /\ x.uart[d].LCR_DLAB
      <3>1. Written(x, d, reg, val) = [x EXCEPT !.uart[d].DLR = val]
        BY <2>1 DEF Written
      <3> QED
        BY <1>3, <3>1
    <2>2. CASE reg = 0 /\ ~x.uart[d].LCR_DLAB
      BY <1>4, <2>2 DEF Written
    <2>3. CASE reg = 1 /\ ~x.uart[d].LCR_DLAB
      <3>1. Written(x, d, reg, val) = [x EXCEPT !.uart[d].IER = val % 16]
        BY <2>3 DEF Written
      <3> QED
        BY <1>3, <3>1
    <2>4. CASE reg = 3
      <3>1. Written(x, d, reg, val) = [x EXCEPT !.uart[d].LCR_DLAB = bit(val, 7)]
        BY <2>4 DEF Written
      <3>2. "LCR_DLAB" \in {"DLR", "IER", "LCR_DLAB", "RBR_written"}
        OBVIOUS
      <3> QED
        BY <1>3, <3>1, <3>2, Zenon
    <2>5. CASE reg \notin {0, 1, 3} \/ (reg = 1 /\ x.uart[d].LCR_DLAB)
      BY <1>2, <2>5 DEF Written
    <2> QED
      BY <2>1, <2>2, <2>3, <2>4, <2>5
  <1> QED
    BY <1>1, <1>5, StepHolds, Zenon DEF writem8, reg

\* A read of another register leaves the interrupt pending.
LEMMA ReadHolds ==
    ASSUME NEW x, Shape(x), NEW d \in Trees, x.uart[d].IIR = 4, NEW addr, addr % uart_size # 0
    PROVE  Holds(x, readm8(x, d, addr), d)
  <1>1. IIR_sel(x.uart[d]) = 2
    BY DEF IIR_sel
  <1>2. AcceptedByRead(x, d, addr % uart_size) = x
    BY <1>1 DEF AcceptedByRead
  <1>3. Holds(x, x, d)
    BY Zenon DEF Holds
  <1> QED
    BY <1>2, <1>3, StepHolds, Zenon DEF readm8

\* A write to memory or to a device.
LEMMA WritemHolds ==
    ASSUME NEW x, Shape(x), NEW d \in Trees, x.uart[d].IIR = 4, NEW op
    PROVE  Holds(x, phy_writem(x, d, op), d)
  <1> DEFINE y == phy_writem(x, d, op)
             target == Target(op.size, op.addr, TRUE)
             elsewhere == DOMAIN y = DOMAIN x /\ y.uart = x.uart /\ y.irr = x.irr
                          /\ \A f \in {"dram", "flash"} : Trees \subseteq DOMAIN y[f]
  <1>1. CASE elsewhere
    <2> HIDE DEF y
    <2>1. Holds(x, y, d)
      BY <1>1, Zenon DEF Holds, Shape
    <2> QED
      BY <2>1 DEF y
  <1>2. CASE target = "uart"
    BY <1>2, WriteHolds, Zenon DEF phy_writem
  <1>3. CASE target \in {"flash", "dram"}
    <2>1. PICK f \in {"flash", "dram"} : \E v : y = [x EXCEPT ![f][d] = v]
      BY <1>3, Zenon DEF phy_writem
    <2>2. PICK v : y = [x EXCEPT ![f][d] = v]
      BY <2>1, Zenon
    <2> QED
      BY <1>1, <2>2 DEF Shape
  <1>4. CASE target = "dropped"
    BY <1>1, <1>4 DEF phy_writem, Shape
  <1>5. CASE target \notin {"uart", "flash", "dram", "dropped"}
    <2>1. y = [x EXCEPT !.running = FALSE]
      BY <1>5, Zenon DEF phy_writem
    <2> QED
      BY <1>1, <2>1 DEF Shape
  <1> QED
    BY <1>2, <1>3, <1>4, <1>5, Zenon

\* A read of anything but RBR.
LEMMA ReadmHolds ==
    ASSUME NEW x, Shape(x), NEW d \in Trees, x.uart[d].IIR = 4, NEW op, op.addr \in Nat
    PROVE  op.addr = uart_base \/ Holds(x, phy_readm(x, d, op), d)
  <1> DEFINE y == phy_readm(x, d, op)
             target == Target(op.size, op.addr, FALSE)
             elsewhere == DOMAIN y = DOMAIN x /\ y.uart = x.uart /\ y.irr = x.irr
                          /\ \A f \in {"dram", "flash"} : Trees \subseteq DOMAIN y[f]
  <1>1. CASE elsewhere
    <2> HIDE DEF y
    <2>1. Holds(x, y, d)
      BY <1>1, Zenon DEF Holds, Shape
    <2> QED
      BY <2>1 DEF y
  <1>2. CASE target = "uart"
    <2>1. y = readm8(x, d, op.addr)
      BY <1>2, Zenon DEF phy_readm
    <2>2. op.addr \in uart_base .. uart_base + 7
      BY <1>2, UartAddress, Zenon
    <2>3. CASE op.addr % uart_size # 0
      BY <2>1, <2>3, ReadHolds, Zenon
    <2>4. CASE op.addr % uart_size = 0
      BY <2>2, <2>4, AlignedAssumption DEF uart_size
    <2> QED
      BY <2>3, <2>4
  <1>3. CASE target \in {"flash", "dram"}
    BY <1>1, <1>3 DEF phy_readm, Shape
  <1>4. CASE target \notin {"uart", "flash", "dram"}
    <2>1. y = [x EXCEPT !.running = FALSE]
      BY <1>4, Zenon DEF phy_readm
    <2> QED
      BY <1>1, <2>1 DEF Shape
  <1> QED
    BY <1>2, <1>3, <1>4, Zenon

\* Holding on is transitive.
LEMMA HoldsTransitive ==
    ASSUME NEW x, NEW y, NEW z, NEW d, Holds(x, y, d), Holds(y, z, d)
    PROVE  Holds(x, z, d)
  BY DEF Holds

\* The emulator loses the character by a read of RBR only.
LEMMA AccessHolds ==
    ASSUME NEW x, Shape(x), NEW d \in Trees, x.uart[d].IIR = 4, NEW op, op # None => op.addr \in Nat
    PROVE  ReadsRBR(op) \/ Holds(x, Access(x, d, op), d)
  <1>1. CASE op = None
    BY <1>1, Zenon DEF Access, Holds
  <1>2. CASE op # None /\ op.w
    BY <1>2, WritemHolds, Zenon DEF Access
  <1>3. CASE op # None /\ ~op.w
    BY <1>3, ReadmHolds, Zenon DEF Access, ReadsRBR, AtRBR
  <1> QED
    BY <1>1, <1>2, <1>3

\* The RTL, by any access to register 0.
LEMMA BusHolds ==
    ASSUME NEW x, Shape(x), NEW d \in Trees, x.uart[d].IIR = 4, NEW op, op # None => op.addr \in Nat
    PROVE  AtRBR(op) \/ Holds(x, BusAccess(x, d, op), d)
  <1> DEFINE y == phy_readm(x, d, op)
  <1> SUFFICES ASSUME ~AtRBR(op)
               PROVE  Holds(x, BusAccess(x, d, op), d)
    BY Zenon
  <1>1. CASE op = None
    BY <1>1, Zenon DEF BusAccess, Holds
  <1>2. CASE op # None
    <2>1. Holds(x, y, d)
      BY <1>2, ReadmHolds, Zenon DEF AtRBR
    <2>2. CASE op.w /\ y.running
      <3>1. BusAccess(x, d, op) = phy_writem(y, d, op)
        BY <1>2, <2>2, Zenon DEF BusAccess
      <3> HIDE DEF y
      <3>2. Holds(y, phy_writem(y, d, op), d)
        BY <2>1, WritemHolds, Zenon DEF Holds
      <3> QED
        BY <2>1, <3>1, <3>2, HoldsTransitive, Zenon
    <2>3. CASE ~(op.w /\ y.running)
      BY <1>2, <2>1, <2>3, Zenon DEF BusAccess
    <2> QED
      BY <2>2, <2>3
  <1> QED
    BY <1>1, <1>2

\* The accesses of ahead are the software's.
Performed == \A i \in 1 .. Len(ahead) : ahead[i].op \in Accesses

\* Only an access of the software is put at the end of ahead.
LEMMA NextPerformed == Follows /\ Performed /\ [Next]_vars => Performed'
  <1> SUFFICES ASSUME Follows, Performed, [Next]_vars
               PROVE  Performed'
    OBVIOUS
  <1>1. CASE ahead' = ahead
    BY <1>1 DEF Performed
  <1>2. ASSUME NEW op \in Accesses \cup {None}, NEW eirq \in BOOLEAN, NEW commit \in BOOLEAN,
               Difftest(op, eirq, commit)
        PROVE  Performed'
    <2> DEFINE v == [op |-> op, ret |-> IF op.w THEN 0 ELSE ReadValue(s, "rtl", op)]
               q == IF op = None THEN ahead ELSE Append(ahead, v)
    <2>1. Listed(ahead)
      BY DEF Follows
    <2>2. /\ Listed(q)
          /\ commit => q # <<>> /\ ahead' = Tail(q)
          /\ ~commit => ahead' = q
      BY <1>2, <2>1, DifftestQueue
    <2>3. v.op = op
      OBVIOUS
    <2>4. \A i \in 1 .. Len(q) : q[i].op \in Accesses
      <3> HIDE DEF v
      <3>1. CASE op = None
        BY <3>1 DEF Performed
      <3>2. CASE op # None
        <4>1. /\ q = Append(ahead, v) /\ Len(ahead) \in Nat /\ Len(q) = Len(ahead) + 1
              /\ q[Len(ahead) + 1] = v /\ \A i \in 1 .. Len(ahead) : q[i] = ahead[i]
          BY <2>1, <3>2, ListedAppend
        <4> HIDE DEF q
        <4> QED
          BY <2>3, <3>2, <4>1 DEF Performed
      <3> QED
        BY <3>1, <3>2
    <2> HIDE DEF q
    <2>5. CASE commit
      <3>1. /\ ahead' = Tail(q) /\ Len(q) \in Nat \ {0} /\ Len(Tail(q)) = Len(q) - 1
            /\ \A i \in 1 .. Len(q) - 1 : Tail(q)[i] = q[i + 1]
        BY <2>2, <2>5, ListedTail
      <3> QED
        BY <2>4, <3>1 DEF Performed
    <2>6. CASE ~commit
      BY <2>2, <2>4, <2>6 DEF Performed
    <2> QED
      BY <2>5, <2>6
  <1> QED
    BY <1>1, <1>2 DEF Next, Loop, Type, Standalone, SimulateOnly, vars

\* What is not the access of a machine leaves the character where it is: that of
\* the other machine, and the clock of either device.
LEMMA ElsewhereHolds ==
    ASSUME NEW x, NEW y, NEW z, NEW d \in Trees, Holds(x, y, d), NEW e \in Trees \ {d}, Keeps(y, z, e)
    PROVE  Holds(x, z, d)
  BY DEF Holds, Keeps

\* An access of the other machine, or a clock of either device, loses nothing.
LEMMA OthersHold ==
    ASSUME NEW x, NEW y, NEW d \in Trees, Calm(x), Calm(y), Holds(x, y, d)
    PROVE  /\ \A e \in Trees \ {d} : \A op : Holds(x, Access(y, e, op), d) /\ Holds(x, BusAccess(y, e, op), d)
           /\ \A e \in Trees : Holds(x, step(y, e), d)
  <1>1. ASSUME NEW e \in Trees \ {d}, NEW op
        PROVE  Holds(x, Access(y, e, op), d) /\ Holds(x, BusAccess(y, e, op), d)
    <2>1. Keeps(y, Access(y, e, op), e)
      BY AccessKeeps DEF Calm
    <2>2. Keeps(y, BusAccess(y, e, op), e)
      BY BusKeeps DEF Calm
    <2> QED
      BY <2>1, <2>2, ElsewhereHolds
  <1>2. ASSUME NEW e \in Trees \ {d}
        PROVE  Holds(x, step(y, e), d)
    <2>1. Keeps(y, step(y, e), e)
      BY StepKeeps DEF Calm
    <2> QED
      BY <2>1, ElsewhereHolds
  <1> QED
    BY <1>1, <1>2, StepHolds

\* What a machine is told of is lost by an access of its own, at RBR, and by a
\* write only on the bus.
LEMMA LostByRead ==
    ASSUME NEW x, NEW y, NEW d \in Trees, NEW e \in Trees, Calm(x), Calm(y), Holds(x, y, d),
           NEW op \in Accesses \cup {None}
    PROVE  /\ (d = e /\ ReadsRBR(op)) \/ Holds(x, Access(y, e, op), d)
           /\ (d = e /\ AtRBR(op)) \/ Holds(x, BusAccess(y, e, op), d)
  <1>1. CASE d # e
    BY <1>1, OthersHold, Zenon
  <1>2. CASE d = e
    <2>1. op # None => op.addr \in Nat
      BY AccessAssumption
    <2>2. Shape(y) /\ y.uart[d].IIR = 4
      BY Zenon DEF Holds
    <2>3. ReadsRBR(op) \/ Holds(y, Access(y, d, op), d)
      BY <2>1, <2>2, AccessHolds, Zenon
    <2>4. AtRBR(op) \/ Holds(y, BusAccess(y, d, op), d)
      BY <2>1, <2>2, BusHolds, Zenon
    <2> QED
      BY <1>2, <2>3, <2>4, HoldsTransitive, Zenon
  <1> QED
    BY <1>1, <1>2

\* What excuses machine d for a character that leaves RBR.
Excuse(d) ==
    \E op \in Accesses : /\ op.addr = uart_base /\ Performs(d, op)
                         /\ op.w => mode = "simulate" \/ d = "rtl"

\* The step a told character leaves RBR in accesses register 0.
LEMMA NextHolds ==
    ASSUME IInv, Follows, Performed, Next, NEW d \in Trees, Replaced(d)
    PROVE  Excuse(d)
  <1>1. Calm(s) /\ Holds(s, s, d) /\ ~Holds(s, s', d) /\ "emu" \in Trees /\ "rtl" \in Trees
    BY DEF IInv, Calm, Holds, Trees, Replaced
  <1>2. ASSUME NEW c \in Chars, Type(c)
        PROVE  FALSE
    <2>1. s'.uart = s.uart
      BY <1>1, <1>2, Zenon DEF Type, Calm, Shape
    <2> QED
      BY <2>1 DEF Replaced
  <1>3. ASSUME NEW op \in Accesses \cup {None}, Standalone(op)
        PROVE  Excuse(d)
    <2> DEFINE x == IF device_clk + 1 = device_clk_div THEN step(s, "emu") ELSE s
    <2>1. s' = Access(x, "emu", op)
      BY <1>3, Zenon DEF Standalone
    <2>2. Calm(x) /\ Holds(s, x, d)
      BY <1>1, StepCalm, OthersHold
    <2> HIDE DEF x
    <2>3. d = "emu" /\ ReadsRBR(op)
      BY <1>1, <2>1, <2>2, LostByRead, Zenon
    <2>4. op \in Accesses /\ ~op.w /\ op.addr = uart_base
      BY <2>3, Zenon DEF ReadsRBR, AtRBR
    <2> QED
      BY <1>3, <2>3, <2>4, Zenon DEF Excuse, Performs
  <1>4. ASSUME NEW op \in Accesses \cup {None}, SimulateOnly(op)
        PROVE  Excuse(d)
    <2> DEFINE x == BusAccess(s, "emu", op)
    <2>1. s' = (IF x.running THEN step(x, "emu") ELSE x) /\ mode = "simulate"
      BY <1>4, Zenon DEF SimulateOnly
    <2>2. Calm(x) /\ ((d = "emu" /\ AtRBR(op)) \/ Holds(s, x, d))
      BY <1>1, BusCalm, LostByRead
    <2> HIDE DEF x
    <2>3. d = "emu" /\ AtRBR(op)
      BY <1>1, <2>1, <2>2, OthersHold
    <2>4. op \in Accesses /\ op.addr = uart_base
      BY <2>3, Zenon DEF AtRBR
    <2> QED
      BY <1>4, <2>1, <2>3, <2>4, Zenon DEF Excuse, Performs
  <1>5. ASSUME NEW op \in Accesses \cup {None}, NEW eirq \in BOOLEAN, NEW commit \in BOOLEAN,
               Difftest(op, eirq, commit)
        PROVE  Excuse(d)
    <2> DEFINE x == BusAccess(s, "rtl", op)
               y == IF eirq THEN [x EXCEPT !.irr = FALSE] ELSE x
               old == IF commit THEN Head(ahead) ELSE [op |-> None, ret |-> 0]
               z == IF x.running THEN Access(y, "emu", old.op) ELSE x
    <2>1. s' = (IF z.running THEN step(step(z, "emu"), "rtl") ELSE z) /\ (commit => ahead # <<>>)
      BY <1>5 DEF Difftest
    <2>2. old.op \in Accesses \cup {None}
      <3>1. CASE commit
        <4>1. Listed(ahead) /\ ahead # <<>>
          BY <2>1, <3>1 DEF Follows
        <4>2. Len(ahead) \in Nat \ {0} /\ Head(ahead) = ahead[1]
          BY <4>1, ListedTail
        <4> QED
          BY <3>1, <4>2 DEF Performed
      <3>2. CASE ~commit
        BY <3>2, Zenon
      <3> QED
        BY <3>1, <3>2
    <2>3. Calm(x) /\ ((d = "rtl" /\ AtRBR(op)) \/ Holds(s, x, d))
      BY <1>1, BusCalm, LostByRead
    <2>4. CASE d = "rtl" /\ AtRBR(op)
      <3>1. op \in Accesses /\ op.addr = uart_base
        BY <2>4, Zenon DEF AtRBR
      <3> QED
        BY <1>5, <2>4, <3>1, Zenon DEF Excuse, Performs
    <2>5. CASE ~(d = "rtl" /\ AtRBR(op))
      <3> HIDE DEF x
      <3>1. Calm(y) /\ Holds(s, y, d)
        <4>1. CASE eirq
          <5>1. DOMAIN y = DOMAIN x /\ y.uart = x.uart /\ y.irr = FALSE /\ y.dram = x.dram /\ y.flash = x.flash
            BY <2>3, <4>1 DEF Calm, Shape
          <5> HIDE DEF y
          <5>2. Calm(y)
            BY <2>3, <5>1, Zenon DEF Calm, Shape
          <5> QED
            BY <2>3, <2>5, <5>1, <5>2, Zenon DEF Calm, Holds
        <4>2. CASE ~eirq
          BY <2>3, <2>5, <4>2, Zenon
        <4> QED
          BY <4>1, <4>2
      <3> HIDE DEF y, old
      <3>2. Calm(z) /\ ((d = "emu" /\ ReadsRBR(old.op)) \/ Holds(s, z, d))
        BY <1>1, <2>2, <2>3, <2>5, <3>1, AccessCalm, LostByRead, Zenon
      <3> HIDE DEF z
      <3>3. Holds(s, z, d) => Holds(s, s', d)
        BY <1>1, <2>1, <3>2, StepCalm, OthersHold, Zenon
      <3>4. d = "emu" /\ ReadsRBR(old.op)
        BY <1>1, <3>2, <3>3
      <3>5. commit = TRUE /\ old = Head(ahead) /\ ahead # <<>>
        BY <2>1, <3>4 DEF ReadsRBR, AtRBR, old
      <3>6. old.op \in Accesses /\ ~old.op.w /\ old.op.addr = uart_base
        BY <2>2, <3>4, Zenon DEF ReadsRBR, AtRBR
      <3>7. Difftest(op, eirq, TRUE)
        BY <1>5, <3>5, Zenon
      <3>8. Performs("emu", old.op)
        BY <3>5, <3>7, Zenon DEF Performs
      <3> QED
        BY <3>4, <3>6, <3>8, Zenon DEF Excuse
    <2> QED
      BY <2>4, <2>5
  <1> QED
    BY <1>2, <1>3, <1>4, <1>5, Zenon DEF Next, Loop

\* For every program that addresses its devices by natural numbers and a UART at a
\* multiple of eight: a character the software has been told of leaves RBR only
\* when the machine that was told accesses register 0, and in the emulator only
\* when it reads it (virt-uart.cc, axi4-crossbar.cc, in all three loops).
THEOREM NoInputLostHolds == Spec => NoInputLost
  <1> DEFINE Kept == \A d \in Trees : Replaced(d) =>
                        \E op \in Accesses : /\ op.addr = uart_base /\ Performs(d, op)
                                             /\ op.w => mode = "simulate" \/ d = "rtl"
  <1>1. Init => Performed
    BY DEF Init, Performed
  <1>2. IInv /\ Follows /\ Performed /\ [Next]_vars => [Kept]_vars
    BY NextHolds DEF Excuse
  <1> QED
    BY <1>1, <1>2, InitHolds, NextKeeps, InitFollows, NextFollows, NextPerformed, PTL DEF Spec, NoInputLost

=============================================================================
