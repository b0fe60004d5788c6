------------------------------ MODULE EmuCache ------------------------------
(***************************************************************************)
(* The caches of the emulator: class Cache of em/csrc/cache.cc, write-back *)
(* with LRU replacement, as functions of the cache c and the memory m      *)
(* behind it.  An address is the three bit fields access splits it into;   *)
(* the arrays of the class, indexed there by way and set, are kept by set. *)
(***************************************************************************)
EXTENDS Integers

CONSTANTS Tags,     \* maddr: what is left of an address above set and line
          SETS,     \* 1 << m_P_SETS
          WAYS,     \* 1 << m_P_WAYS
          OFFS,     \* 1 << m_P_LINE, bytes in a line
          Heap      \* the bytes operator new may leave in a line

ASSUME CacheParameters ==
    /\ SETS \in Nat \ {0} /\ WAYS \in Nat \ {0} /\ OFFS \in Nat \ {0}
    /\ Tags \subseteq Nat /\ 0 \in Tags
    /\ Heap \subseteq 0 .. 255 /\ Heap # {}

Sets == 0 .. SETS - 1
Ways == 0 .. WAYS - 1
Offs == 0 .. OFFS - 1
Addr == [tag : Tags, set : Sets, off : Offs]

(* The constructor.  cache_dirty is allocated [set][way] and cleared        *)
(* [way][set]: where the two numbers differ, some flags keep what operator  *)
(* new left there, and a set with such a flag writes back, at its first     *)
(* miss, a line that nothing has filled.                                    *)
Cleared(w, s) == s < WAYS /\ w < SETS
Constructed ==
    {[s \in Sets |-> [v |-> [w \in Ways |-> FALSE], dirty |-> d[s],
                      lru |-> [w \in Ways |-> w], addr |-> [w \in Ways |-> 0],
                      lines |-> l[s]]] :
        d \in {x \in [Sets -> [Ways -> BOOLEAN]] :
                 \A s \in Sets, w \in Ways : Cleared(w, s) => ~x[s][w]},
        l \in [Sets -> [Ways -> [Offs -> Heap]]]}

-----------------------------------------------------------------------------
(* Cache::access.  e holds the ways of the set that is accessed.            *)

match(e, tag) == {w \in Ways : e.v[w] /\ e.addr[w] = tag}
sfree(e) == {w \in Ways : e.lru[w] = 0}
free_way_idx(e) == CHOOSE w \in sfree(e) : \A x \in sfree(e) : x <= w
must_writeback(e) == \E w \in sfree(e) : e.dirty[w]

Writeback(m, tag, set, line) ==
    [a \in Addr |-> IF a.tag = tag /\ a.set = set THEN line[a.off] ELSE m[a]]
Refill(m, tag, set) == [o \in Offs |-> m[[tag |-> tag, set |-> set, off |-> o]]]

(* The way used becomes the most recent; those more recent than it age.     *)
lru_nxt(lru, way) ==
    [w \in Ways |-> IF w = way THEN WAYS - 1
                    ELSE IF lru[w] > lru[way] THEN lru[w] - 1 ELSE lru[w]]

\* Mutant: the line replaced is not written back.
evicted_Dropped(e, m, set) == m
(* Memory after the line that makes room has been written back.             *)
evicted(e, m, set) ==
    IF must_writeback(e)
    THEN Writeback(m, e.addr[free_way_idx(e)], set, e.lines[free_way_idx(e)])
    ELSE m

(* The D flag is only ever set here: the branch that would clear it for a   *)
(* new line is not reached, as a miss has become a hit by then.             *)
access(c, m, a, store) ==
    LET e == c[a.set]
        hit == match(e, a.tag) # {}
        way == IF hit THEN CHOOSE w \in match(e, a.tag) : TRUE ELSE free_way_idx(e)
        m1 == IF hit THEN m ELSE evicted(e, m, a.set)
    IN  [c |-> [c EXCEPT ![a.set] =
                   [v |-> [e.v EXCEPT ![way] = TRUE],
                    dirty |-> [e.dirty EXCEPT ![way] = @ \/ store],
                    lru |-> lru_nxt(e.lru, way),
                    addr |-> [e.addr EXCEPT ![way] = a.tag],
                    lines |-> IF hit THEN e.lines
                              ELSE [e.lines EXCEPT ![way] = Refill(m1, a.tag, a.set)]]],
         m |-> m1, way |-> way]

-----------------------------------------------------------------------------
(* The operations on n bytes at a, which lie in one line.                   *)

cache_readm(c, m, a, n) ==
    LET x == access(c, m, a, FALSE)
    IN  [c |-> x.c, m |-> x.m,
         bytes |-> [k \in 0 .. n - 1 |-> x.c[a.set].lines[x.way][(a.off + k) % OFFS]]]

cache_writem(c, m, a, n, bytes) ==
    LET x == access(c, m, a, TRUE)
        line == [o \in Offs |->
                    IF \E k \in 0 .. n - 1 : o = (a.off + k) % OFFS
                    THEN bytes[CHOOSE k \in 0 .. n - 1 : o = (a.off + k) % OFFS]
                    ELSE x.c[a.set].lines[x.way][o]]
    IN  [c |-> [x.c EXCEPT ![a.set].lines[x.way] = line], m |-> x.m]

flush(c, m, a) ==
    LET e == c[a.set]
        hits == {w \in match(e, a.tag) : e.dirty[w]}
    IN  [c |-> [c EXCEPT ![a.set].dirty = [w \in Ways |-> e.dirty[w] /\ w \notin hits]],
         m |-> IF hits = {} THEN m
               ELSE Writeback(m, a.tag, a.set, e.lines[CHOOSE w \in hits : TRUE])]

(* What a program sees at address a.                                        *)
View(c, m, a) ==
    LET hits == match(c[a.set], a.tag)
    IN  IF hits = {} THEN m[a] ELSE c[a.set].lines[CHOOSE w \in hits : TRUE][a.off]
=============================================================================
