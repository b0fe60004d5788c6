------------------------------ MODULE RobProofs ------------------------------
(***************************************************************************)
(* The FIFO of fifo_fwft.v implements a bounded queue, and the banks of    *)
(* rob.v that are made of it implement one in-order buffer, for every depth. *)
(***************************************************************************)
EXTENDS Rob, Fifo, SequenceTheorems, TLAPS

\* The numbers of the two banks of the reorder buffer.
LEMMA TwoBanks == 0 .. 1 = {0, 1}
  OBVIOUS

\* Remainders and quotients of what is less than three times the divisor.
LEMMA Remainders ==
    \A a, b \in Nat : b > 0 =>
        /\ a < b => a % b = a /\ a \div b = 0
        /\ a >= b /\ a < 2 * b => a % b = a - b /\ a \div b = 1
        /\ a >= 2 * b /\ a < 3 * b => a % b = a - 2 * b
  BY SMT

\* The pointers of the controller have one bit more than an address: what
\* their parts and their increment are.
LEMMA Pointers ==
    /\ Depth \in Nat /\ Depth >= 2
    /\ \A p \in Ptr : /\ p \in Nat /\ p < 2 * Depth
                      /\ Low(p) = IF p < Depth THEN p ELSE p - Depth
                      /\ Msb(p) = IF p < Depth THEN 0 ELSE 1
                      /\ PtrNxt(p, FALSE) = IF p + 1 = 2 * Depth THEN 0 ELSE p + 1
                      /\ PtrNxt(p, TRUE) = 0
                      /\ PtrNxt(p, FALSE) \in Ptr
    /\ 0 \in Ptr
    /\ \A x \in Nat : x < 3 * Depth =>
           Low(x) = IF x < Depth THEN x
                    ELSE IF x < 2 * Depth THEN x - Depth ELSE x - 2 * Depth
  <1>1. Depth \in Nat /\ Depth >= 2
    BY FifoConstants
  <1>2. \A p \in Ptr : p \in Nat /\ p < 2 * Depth
    BY <1>1 DEF Ptr
  <1>3. ASSUME NEW p \in Ptr
        PROVE  /\ Low(p) = IF p < Depth THEN p ELSE p - Depth
               /\ Msb(p) = IF p < Depth THEN 0 ELSE 1
    <2>1. p \in Nat /\ p < 2 * Depth /\ Depth > 0
      BY <1>1, <1>2
    <2>2. CASE p < Depth
      <3>1. p % Depth = p /\ p \div Depth = 0
        BY <2>1, <2>2, <1>1, Remainders
      <3> QED
        BY <3>1, <2>2 DEF Low, Msb
    <2>3. CASE ~(p < Depth)
      <3>1. p % Depth = p - Depth /\ p \div Depth = 1
        BY <2>1, <2>3, <1>1, Remainders
      <3> QED
        BY <3>1, <2>3 DEF Low, Msb
    <2> QED
      BY <2>2, <2>3
  <1>4. ASSUME NEW p \in Ptr
        PROVE  /\ PtrNxt(p, FALSE) = IF p + 1 = 2 * Depth THEN 0 ELSE p + 1
               /\ PtrNxt(p, FALSE) \in Ptr
    <2>1. 2 * Depth \in Nat /\ 2 * Depth > 0 /\ p + 1 \in Nat /\ p + 1 <= 2 * Depth
      BY <1>1, <1>2
    <2>2. (p + 1) % (2 * Depth) = IF p + 1 = 2 * Depth THEN 0 ELSE p + 1
      BY <2>1, Remainders
    <2> QED
      BY <2>1, <2>2, <1>1, <1>2 DEF PtrNxt, Ptr
  <1>5. ASSUME NEW x \in Nat, x < 3 * Depth
        PROVE  Low(x) = IF x < Depth THEN x
                        ELSE IF x < 2 * Depth THEN x - Depth ELSE x - 2 * Depth
    <2>1. Depth > 0
      BY <1>1
    <2>2. CASE x < Depth
      <3>1. x % Depth = x
        BY <2>1, <2>2, <1>1, Remainders
      <3> QED
        BY <3>1, <2>2 DEF Low
    <2>3. CASE x >= Depth /\ x < 2 * Depth
      <3>1. x % Depth = x - Depth
        BY <2>1, <2>3, <1>1, Remainders
      <3> QED
        BY <3>1, <2>3, <1>1 DEF Low
    <2>4. CASE x >= 2 * Depth
      <3>1. x % Depth = x - 2 * Depth
        BY <1>5, <2>1, <2>4, <1>1, Remainders
      <3> QED
        BY <3>1, <2>4, <1>1 DEF Low
    <2> QED
      BY <2>2, <2>3, <2>4, <1>1
  <1>6. 0 \in Ptr /\ \A p \in Ptr : PtrNxt(p, TRUE) = 0
    BY <1>1 DEF Ptr, PtrNxt
  <1> QED
    BY <1>1, <1>2, <1>3, <1>4, <1>5, <1>6, Zenon

\* How many words lie between two pointers.
LEMMA Counts ==
    ASSUME NEW t, t.w_ptr \in Ptr, t.r_ptr \in Ptr
    PROVE  /\ FifoCount(t) = IF t.w_ptr >= t.r_ptr THEN t.w_ptr - t.r_ptr
                             ELSE t.w_ptr + 2 * Depth - t.r_ptr
           /\ FifoCount(t) \in Nat
           /\ t.w_ptr = t.r_ptr => FifoCount(t) = 0 /\ FifoCount(t) <= Depth
  <1>1. /\ Depth \in Nat /\ Depth >= 2
        /\ t.w_ptr \in Nat /\ t.w_ptr < 2 * Depth /\ t.r_ptr \in Nat /\ t.r_ptr < 2 * Depth
    BY Pointers, Zenon
  <1> DEFINE w == t.w_ptr
             r == t.r_ptr
             a == w + 2 * Depth - r
             b == 2 * Depth
  <1>2. a \in Nat /\ b \in Nat /\ b > 0 /\ a < 2 * b
    BY <1>1
  <1>3. a % b = IF a < b THEN a ELSE a - b
    BY <1>2, Remainders
  <1> QED
    BY <1>1, <1>3 DEF FifoCount

-----------------------------------------------------------------------------
(* The registers have their widths; the pointers are no further apart than  *)
(* the depth; and an empty FIFO presents nothing from its bypass register,  *)
(* so that the next word is taken up there.                                 *)
FifoInv ==
    /\ s \in FifoState
    /\ FifoCount(s) <= Depth
    /\ ~FifoValid(s) => ~s.state_r

\* What a user of the FIFO sees: valid and ready are exact, and its words are a
\* sequence whose first word is on the output and whose others are in the RAM.
LEMMA Contents ==
    ASSUME NEW t \in FifoState, FifoCount(t) <= Depth
    PROVE  /\ FifoContents(t) \in Seq(Word)
           /\ Len(FifoContents(t)) = FifoCount(t)
           /\ FifoCount(t) \in Nat
           /\ FifoValid(t) <=> FifoCount(t) # 0
           /\ FifoReady(t) <=> FifoCount(t) < Depth
           /\ \A k \in 1 .. FifoCount(t) :
                 FifoContents(t)[k] = IF k = 1 THEN FifoDout(t) ELSE t.rf[Low(t.r_ptr + k - 1)]
  <1>1. /\ t.w_ptr \in Ptr /\ t.r_ptr \in Ptr /\ t.rf \in [Addr -> Word]
        /\ t.dat_r \in Word /\ t.din_r \in Word /\ t.rdata \in Word
    BY DEF FifoState
  <1>2. /\ t.w_ptr \in Nat /\ t.r_ptr \in Nat /\ t.w_ptr < 2 * Depth /\ t.r_ptr < 2 * Depth
        /\ Depth \in Nat /\ Depth >= 2
    BY <1>1, Pointers, Zenon
  <1>3. /\ FifoCount(t) = IF t.w_ptr >= t.r_ptr THEN t.w_ptr - t.r_ptr
                          ELSE t.w_ptr + 2 * Depth - t.r_ptr
        /\ FifoCount(t) \in Nat
    BY <1>1, Counts
  <1>4. FifoValid(t) <=> FifoCount(t) # 0
    BY <1>2, <1>3 DEF FifoValid
  <1>5. FifoReady(t) <=> FifoCount(t) < Depth
    <2>1. /\ Low(t.w_ptr) = IF t.w_ptr < Depth THEN t.w_ptr ELSE t.w_ptr - Depth
          /\ Low(t.r_ptr) = IF t.r_ptr < Depth THEN t.r_ptr ELSE t.r_ptr - Depth
          /\ Msb(t.w_ptr) = IF t.w_ptr < Depth THEN 0 ELSE 1
          /\ Msb(t.r_ptr) = IF t.r_ptr < Depth THEN 0 ELSE 1
      BY <1>1, Pointers, Zenon
    <2> QED
      BY <2>1, <1>2, <1>3 DEF FifoReady
  <1>6. FifoDout(t) \in Word
    BY <1>1 DEF FifoDout
  <1>7. ASSUME NEW k \in 1 .. FifoCount(t), k # 1
        PROVE  t.rf[Low(t.r_ptr + k - 1)] \in Word
    <2>1. t.r_ptr + k - 1 \in Nat /\ t.r_ptr + k - 1 < 3 * Depth
      BY <1>2, <1>3, <1>7
    <2>2. Low(t.r_ptr + k - 1) \in Addr
      BY <2>1, <1>2, Pointers DEF Addr
    <2> QED
      BY <2>2, <1>1
  <1>8. FifoContents(t) \in [1 .. FifoCount(t) -> Word]
    BY <1>6, <1>7 DEF FifoContents
  <1>9. FifoContents(t) \in Seq(Word) /\ Len(FifoContents(t)) = FifoCount(t)
    BY <1>8, <1>3
  <1> QED
    BY <1>3, <1>4, <1>5, <1>9 DEF FifoContents

(* The pointers w and r of a FIFO of depth D after i words are pushed and j *)
(* popped at a and b: their distance n is the new count, and the k-th word  *)
(* from r is the (k+j)-th from b, or at a when it is the word just pushed.  *)
Moved(D, a, b, c, i, j, w, r, n) ==
    /\ w \in 0 .. 2 * D - 1 /\ r \in 0 .. 2 * D - 1 /\ n \in 0 .. D
    /\ n = IF w >= r THEN w - r ELSE w + 2 * D - r
    /\ \A k \in 1 .. n :
          LET x  == r + k - 1
              y  == b + (k + j) - 1
              lo(z) == IF z < D THEN z ELSE IF z < 2 * D THEN z - D ELSE z - 2 * D
          IN  /\ x \in Nat /\ x < 3 * D /\ y \in Nat /\ y < 3 * D + 1
              /\ c >= k + j => y < 3 * D /\ lo(x) = lo(y)
              /\ c < k + j => i = 1 /\ k = n /\ lo(x) = lo(a)
              /\ i = 1 /\ c >= k + j => lo(x) # lo(a)

\* Pointers that count modulo twice the depth keep their distance and their slots.
LEMMA Distances ==
    ASSUME NEW D \in Nat, D >= 2,
           NEW a \in Nat, a < 2 * D, NEW b \in Nat, b < 2 * D,
           NEW c \in Nat, c = IF a >= b THEN a - b ELSE a + 2 * D - b,
           NEW i \in 0 .. 1, NEW j \in 0 .. 1,
           c + i <= D, c >= j,
           NEW w \in Int, w = IF a + i = 2 * D THEN 0 ELSE a + i,
           NEW r \in Int, r = IF b + j = 2 * D THEN 0 ELSE b + j,
           NEW n \in Int, n = c + i - j
    PROVE  Moved(D, a, b, c, i, j, w, r, n)
  <1>1. w \in 0 .. 2 * D - 1 /\ r \in 0 .. 2 * D - 1 /\ n \in 0 .. D
    OBVIOUS
  <1>2. n = IF w >= r THEN w - r ELSE w + 2 * D - r
    OBVIOUS
  <1>3. ASSUME NEW k \in 1 .. n
        PROVE  LET x  == r + k - 1
                   y  == b + (k + j) - 1
                   lo(z) == IF z < D THEN z ELSE IF z < 2 * D THEN z - D ELSE z - 2 * D
               IN  /\ x \in Nat /\ x < 3 * D /\ y \in Nat /\ y < 3 * D + 1
                   /\ c >= k + j => y < 3 * D /\ lo(x) = lo(y)
                   /\ c < k + j => i = 1 /\ k = n /\ lo(x) = lo(a)
                   /\ i = 1 /\ c >= k + j => lo(x) # lo(a)
    OBVIOUS
  <1> QED
    BY <1>1, <1>2, <1>3 DEF Moved

Bit(b) == IF b THEN 1 ELSE 0

(* The registers u after an edge that pushes i and pops j words, from t with *)
(* c words: the count, and where the words of the queue are in the RAM.      *)
Shifted(t, u, push, din, i, j, c) ==
    /\ u \in FifoState
    /\ FifoCount(u) = c + i - j /\ FifoCount(u) \in 0 .. Depth
    /\ c >= j /\ c + i <= Depth
    /\ u.r_ptr = IF t.r_ptr + j = 2 * Depth THEN 0 ELSE t.r_ptr + j
    /\ u.rf = IF push THEN [t.rf EXCEPT ![Low(t.w_ptr)] = din] ELSE t.rf
    /\ Low(t.w_ptr) \in Addr
    /\ \A k \in 1 .. FifoCount(u) :
          /\ c >= k + j => Low(u.r_ptr + k - 1) = Low(t.r_ptr + (k + j) - 1)
          /\ c < k + j => push /\ Low(u.r_ptr + k - 1) = Low(t.w_ptr)
          /\ push /\ c >= k + j => Low(u.r_ptr + k - 1) # Low(t.w_ptr)
          /\ Low(u.r_ptr + k - 1) \in Addr

\* An edge without flush moves the pointers of the registers as they should.
LEMMA Edge ==
    ASSUME NEW t \in FifoState, FifoCount(t) <= Depth,
           NEW push \in BOOLEAN, NEW pop \in BOOLEAN, NEW din \in Data,
           push => FifoReady(t), pop => FifoValid(t),
           NEW u, u = FifoNext(t, push, din, pop, FALSE),
           NEW i \in 0 .. 1, i = Bit(push),
           NEW j \in 0 .. 1, j = Bit(pop),
           NEW c \in Nat, c = FifoCount(t)
    PROVE  Shifted(t, u, push, din, i, j, c)
  <1>1. /\ t.w_ptr \in Ptr /\ t.r_ptr \in Ptr /\ t.rf \in [Addr -> Word]
        /\ t.dat_r \in Word /\ t.din_r \in Word /\ t.rdata \in Word
        /\ t.state_r \in BOOLEAN /\ t.rf_bypass \in BOOLEAN /\ din \in Word
    BY DEF FifoState, Word
  <1>2. (push => i = 1) /\ (~push => i = 0) /\ (pop => j = 1) /\ (~pop => j = 0)
    BY DEF Bit
  <1> DEFINE D == Depth
             a == t.w_ptr
             b == t.r_ptr
             w == IF a + i = 2 * D THEN 0 ELSE a + i
             r == IF b + j = 2 * D THEN 0 ELSE b + j
             n == c + i - j
  <1>3. /\ D \in Nat /\ D >= 2 /\ a \in Nat /\ a < 2 * D /\ b \in Nat /\ b < 2 * D
        /\ PtrNxt(a, FALSE) = IF a + 1 = 2 * D THEN 0 ELSE a + 1
        /\ PtrNxt(b, FALSE) = IF b + 1 = 2 * D THEN 0 ELSE b + 1
    BY <1>1, Pointers, Zenon
  <1>4. c = IF a >= b THEN a - b ELSE a + 2 * D - b
    BY <1>1, Counts
  <1>5. c + i <= D /\ c >= j
    <2>1. push => c < D
      BY Contents
    <2>2. pop => c # 0
      BY Contents
    <2> QED
      BY <2>1, <2>2, <1>2, <1>3
  <1>6. u.w_ptr = w
    <2>1. u.w_ptr = IF push THEN PtrNxt(a, FALSE) ELSE a
      BY DEF FifoNext
    <2>2. CASE push
      BY <2>1, <2>2, <1>2, <1>3, Zenon
    <2>3. CASE ~push
      <3>1. u.w_ptr = a /\ i = 0
        BY <2>1, <2>3, <1>2, Zenon
      <3> HIDE DEF a
      <3>2. a + i # 2 * D /\ a + i = a
        BY <3>1, <1>3
      <3> QED
        BY <3>1, <3>2, Zenon
    <2> QED
      BY <2>2, <2>3, Zenon
  <1>7. u.r_ptr = r
    <2>1. u.r_ptr = IF pop THEN PtrNxt(b, FALSE) ELSE b
      BY DEF FifoNext
    <2>2. CASE pop
      BY <2>1, <2>2, <1>2, <1>3, Zenon
    <2>3. CASE ~pop
      <3>1. u.r_ptr = b /\ j = 0
        BY <2>1, <2>3, <1>2, Zenon
      <3> HIDE DEF b
      <3>2. b + j # 2 * D /\ b + j = b
        BY <3>1, <1>3
      <3> QED
        BY <3>1, <3>2, Zenon
    <2> QED
      BY <2>2, <2>3, Zenon
  <1>8. w \in Int /\ r \in Int /\ n \in Int
    BY <1>3
  <1> HIDE DEF D, a, b, w, r, n
  <1>9. Moved(D, a, b, c, i, j, w, r, n)
    <2>1. /\ w = IF a + i = 2 * D THEN 0 ELSE a + i
          /\ r = IF b + j = 2 * D THEN 0 ELSE b + j
          /\ n = c + i - j
      BY DEF w, r, n
    <2> QED
      BY <2>1, <1>3, <1>4, <1>5, <1>8, Distances, Zenon
  <1>10. w \in Ptr /\ r \in Ptr
    BY <1>9 DEF Moved, Ptr, D
  <1>11. Low(a) \in Addr /\ \A x \in Nat : x < 3 * D => Low(x) \in Addr
    <2>1. \A x \in Nat : x < 3 * D =>
             Low(x) = IF x < D THEN x ELSE IF x < 2 * D THEN x - D ELSE x - 2 * D
      BY Pointers DEF D
    <2> QED
      BY <2>1, <1>3 DEF Addr, D
  <1>12. PtrNxt(b, FALSE) \in Ptr /\ Low(PtrNxt(b, FALSE)) \in Addr
    <2>1. PtrNxt(b, FALSE) \in Ptr
      BY <1>1, Pointers, Zenon DEF b
    <2>2. PtrNxt(b, FALSE) \in Nat /\ PtrNxt(b, FALSE) < 2 * D
      BY <2>1, Pointers, Zenon DEF D
    <2>3. \A x \in Nat : x < 2 * D => x < 3 * D
      BY <1>3
    <2> QED
      BY <2>1, <2>2, <2>3, <1>11, Zenon
  <1>13. u.rf = IF push THEN [t.rf EXCEPT ![Low(a)] = din] ELSE t.rf
    BY DEF FifoNext, a
  <1>14. u.rf \in [Addr -> Word]
    BY <1>1, <1>11, <1>13, Zenon
  <1>15. u \in FifoState
    <2>1. u.state_r \in BOOLEAN /\ u.rf_bypass \in BOOLEAN
      BY <1>1, Zenon DEF FifoNext, rf_conflict
    <2>2. u.dat_r \in Word /\ u.din_r \in Word
      BY <1>1 DEF FifoNext
    <2>3. u.rdata \in Word
      BY <1>1, <1>12, Zenon DEF FifoNext, b
    <2>4. u = [w_ptr |-> u.w_ptr, r_ptr |-> u.r_ptr, state_r |-> u.state_r,
               dat_r |-> u.dat_r, din_r |-> u.din_r, rf_bypass |-> u.rf_bypass,
               rf |-> u.rf, rdata |-> u.rdata]
      BY DEF FifoNext
    <2> QED
      BY <2>1, <2>2, <2>3, <2>4, <1>6, <1>7, <1>10, <1>14, Zenon DEF FifoState
  <1>16. FifoCount(u) = n
    BY <1>6, <1>7, <1>9, <1>10, Counts, Zenon DEF Moved, D
  <1>17. ASSUME NEW k \in 1 .. n
         PROVE  /\ c >= k + j => Low(r + k - 1) = Low(b + (k + j) - 1)
                /\ c < k + j => push /\ Low(r + k - 1) = Low(a)
                /\ push /\ c >= k + j => Low(r + k - 1) # Low(a)
                /\ Low(r + k - 1) \in Addr
    <2> DEFINE x == r + k - 1
               y == b + (k + j) - 1
               lo(z) == IF z < D THEN z ELSE IF z < 2 * D THEN z - D ELSE z - 2 * D
    <2>1. /\ x \in Nat /\ x < 3 * D /\ y \in Nat
          /\ c >= k + j => y < 3 * D /\ lo(x) = lo(y)
          /\ c < k + j => i = 1 /\ lo(x) = lo(a)
          /\ i = 1 /\ c >= k + j => lo(x) # lo(a)
      BY <1>9 DEF Moved
    <2>2. \A z \in Nat : z < 3 * D => Low(z) = lo(z)
      BY Pointers DEF D
    <2>3. Low(x) = lo(x) /\ Low(a) = lo(a) /\ (c >= k + j => Low(y) = lo(y))
      BY <2>1, <2>2, <1>3
    <2>4. Low(x) \in Addr
      BY <2>1, <1>11
    <2> HIDE DEF x, y, lo
    <2>5. i = 1 <=> push
      BY <1>2
    <2>6. /\ c >= k + j => Low(x) = Low(y)
          /\ c < k + j => push /\ Low(x) = Low(a)
          /\ push /\ c >= k + j => Low(x) # Low(a)
      BY <2>1, <2>3, <2>5
    <2> QED
      BY <2>4, <2>6 DEF x, y
  <1>18. FifoCount(u) \in 0 .. Depth
    BY <1>9, <1>16, Zenon DEF Moved, D
  <1>19. \A k \in 1 .. FifoCount(u) :
            /\ c >= k + j => Low(u.r_ptr + k - 1) = Low(b + (k + j) - 1)
            /\ c < k + j => push /\ Low(u.r_ptr + k - 1) = Low(a)
            /\ push /\ c >= k + j => Low(u.r_ptr + k - 1) # Low(a)
            /\ Low(u.r_ptr + k - 1) \in Addr
    BY <1>7, <1>16, <1>17, Zenon
  <1> QED
    BY <1>5, <1>7, <1>11, <1>13, <1>15, <1>16, <1>18, <1>19, Zenon DEF Shifted, D, a, b, r, n

Stepped(t, u, push, din, pop) ==
    /\ u \in FifoState
    /\ FifoCount(u) <= Depth
    /\ ~FifoValid(u) => ~u.state_r
    /\ LET rest == IF pop THEN Tail(FifoContents(t)) ELSE FifoContents(t)
       IN  FifoContents(u) = IF push THEN Append(rest, din) ELSE rest

\* An edge without flush is a step of the queue: it removes the first word when it
\* pops and appends the word it pushes, and the invariant holds again.
LEMMA EdgeIsStep ==
    ASSUME NEW t \in FifoState, FifoCount(t) <= Depth, ~FifoValid(t) => ~t.state_r,
           NEW push \in BOOLEAN, NEW pop \in BOOLEAN, NEW din \in Data,
           push => FifoReady(t), pop => FifoValid(t),
           NEW u, u = FifoNext(t, push, din, pop, FALSE)
    PROVE  Stepped(t, u, push, din, pop)
  <1>1. PICK i \in 0 .. 1 : i = Bit(push)
    BY DEF Bit
  <1>2. PICK j \in 0 .. 1 : j = Bit(pop)
    BY DEF Bit
  <1>3. PICK c \in Nat : c = FifoCount(t)
    BY Contents
  <1>4. Shifted(t, u, push, din, i, j, c)
    BY <1>1, <1>2, <1>3, Edge, Zenon
  <1>5. /\ u \in FifoState
        /\ FifoCount(u) = c + i - j /\ FifoCount(u) \in 0 .. Depth
        /\ c >= j /\ c + i <= Depth
        /\ u.r_ptr = IF t.r_ptr + j = 2 * Depth THEN 0 ELSE t.r_ptr + j
        /\ u.rf = IF push THEN [t.rf EXCEPT ![Low(t.w_ptr)] = din] ELSE t.rf
        /\ Low(t.w_ptr) \in Addr
        /\ \A k \in 1 .. FifoCount(u) :
              /\ c >= k + j => Low(u.r_ptr + k - 1) = Low(t.r_ptr + (k + j) - 1)
              /\ c < k + j => push /\ Low(u.r_ptr + k - 1) = Low(t.w_ptr)
              /\ push /\ c >= k + j => Low(u.r_ptr + k - 1) # Low(t.w_ptr)
              /\ Low(u.r_ptr + k - 1) \in Addr
    BY <1>4, Zenon DEF Shifted
  <1>6. PICK n \in 0 .. Depth : n = FifoCount(u)
    BY <1>5, Zenon
  <1> DEFINE q == FifoContents(t)
             rest == IF pop THEN Tail(q) ELSE q
             new == IF push THEN Append(rest, din) ELSE rest
  <1>7. /\ q \in Seq(Word) /\ Len(q) = c
        /\ FifoValid(t) <=> c # 0
        /\ \A k \in 1 .. c : q[k] = IF k = 1 THEN FifoDout(t) ELSE t.rf[Low(t.r_ptr + k - 1)]
    BY <1>3, Contents
  <1>8. FifoCount(u) <= Depth /\ n \in Nat
    <2>1. Depth \in Nat
      BY Pointers
    <2>2. n <= Depth /\ n \in Nat
      BY <2>1
    <2> QED
      BY <2>2, <1>6, Zenon
  <1>9. /\ FifoContents(u) \in Seq(Word) /\ Len(FifoContents(u)) = n
        /\ FifoValid(u) <=> n # 0
        /\ \A k \in 1 .. n :
              FifoContents(u)[k] = IF k = 1 THEN FifoDout(u) ELSE u.rf[Low(u.r_ptr + k - 1)]
    BY <1>5, <1>6, <1>8, Contents, Zenon
  <1>10. /\ t.rf \in [Addr -> Word] /\ t.state_r \in BOOLEAN /\ t.rf_bypass \in BOOLEAN
         /\ din \in Word
    BY DEF FifoState, Word
  <1> HIDE DEF q
  <1>11. /\ push => i = 1
         /\ ~push => i = 0
         /\ pop => j = 1 /\ c >= 1
         /\ ~pop => j = 0
         /\ n = c + i - j
    BY <1>1, <1>2, <1>5, <1>6 DEF Bit
  <1>12. rest \in Seq(Word) /\ Len(rest) = c - j /\ \A k \in 1 .. c - j : rest[k] = q[k + j]
    <2>1. CASE pop
      <3>1. Len(q) >= 1 /\ j = 1 /\ q # << >>
        BY <2>1, <1>7, <1>11
      <3>2. Tail(q) \in Seq(Word) /\ Len(Tail(q)) = c - 1 /\ \A k \in 1 .. c - 1 : Tail(q)[k] = q[k + 1]
        BY <3>1, <1>7, HeadTailProperties
      <3> QED
        BY <2>1, <3>1, <3>2
    <2>2. CASE ~pop
      <3>1. j = 0 /\ rest = q
        BY <2>2, <1>11
      <3> QED
        BY <3>1, <1>7
    <2> QED
      BY <2>1, <2>2
  <1> HIDE DEF rest
  <1>13. /\ new \in Seq(Word) /\ Len(new) = n
         /\ \A k \in 1 .. n : new[k] = IF c >= k + j THEN q[k + j] ELSE din
    <2>1. CASE push
      <3>1. new = Append(rest, din) /\ i = 1
        BY <2>1, <1>11
      <3>2. /\ new \in Seq(Word) /\ Len(new) = c - j + 1
            /\ \A k \in 1 .. c - j : new[k] = rest[k]
            /\ new[c - j + 1] = din
        BY <3>1, <1>10, <1>12, AppendProperties
      <3> QED
        BY <3>1, <3>2, <1>11, <1>12
    <2>2. CASE ~push
      <3>1. new = rest /\ i = 0
        BY <2>2, <1>11
      <3> QED
        BY <3>1, <1>11, <1>12
    <2> QED
      BY <2>1, <2>2
  <1> HIDE DEF new
  <1>14. pop => u.r_ptr = PtrNxt(t.r_ptr, FALSE) /\ u.r_ptr + 1 - 1 = u.r_ptr
    <2>1. pop => u.r_ptr = PtrNxt(t.r_ptr, FALSE)
      BY DEF FifoNext
    <2>2. u.r_ptr \in Ptr
      BY <1>5, Zenon DEF FifoState
    <2>3. \A x \in Nat : x + 1 - 1 = x
      OBVIOUS
    <2>4. u.r_ptr + 1 - 1 = u.r_ptr
      BY <2>2, <2>3, Pointers, Zenon
    <2> QED
      BY <2>1, <2>4, Zenon
  <1>15. pop => FifoValid(t) /\ (u.state_r = FALSE)
    BY <1>10, Zenon DEF FifoNext
  <1>16. ASSUME NEW k \in 1 .. n, k # 1
         PROVE  u.rf[Low(u.r_ptr + k - 1)] = new[k]
    <2> DEFINE x == Low(u.r_ptr + k - 1)
               y == Low(t.r_ptr + (k + j) - 1)
    <2>1. /\ c >= k + j => x = y
          /\ c < k + j => push /\ x = Low(t.w_ptr)
          /\ push /\ c >= k + j => x # Low(t.w_ptr)
          /\ x \in Addr
      BY <1>5, <1>6, Zenon
    <2> HIDE DEF x
    <2>2. CASE c >= k + j
      <3>1. u.rf[x] = t.rf[x]
        BY <2>1, <2>2, <1>5, <1>10, Zenon
      <3>2. k + j \in 1 .. c /\ k + j # 1
        BY <2>2, <1>8, <1>16
      <3>3. q[k + j] = t.rf[y]
        BY <3>2, <1>7, Zenon
      <3>4. new[k] = q[k + j]
        BY <2>2, <1>13
      <3> QED
        BY <2>1, <2>2, <3>1, <3>3, <3>4, Zenon DEF x
    <2>3. CASE ~(c >= k + j)
      <3>1. c < k + j
        BY <2>3, <1>8
      <3>2. u.rf[x] = din
        BY <2>1, <3>1, <1>5, <1>10, Zenon
      <3> QED
        BY <2>3, <3>2, <1>13, Zenon DEF x
    <2> QED
      BY <2>2, <2>3, Zenon
  <1>17. ASSUME n # 0
         PROVE  FifoDout(u) = new[1]
    <2>1. 1 \in 1 .. n
      BY <1>8, <1>17
    <2>2. new[1] = IF c >= 1 + j THEN q[1 + j] ELSE din
      BY <2>1, <1>13
    <2>3. CASE ~pop /\ c # 0
      <3>1. new[1] = FifoDout(t)
        <4>1. c >= 1 + j /\ 1 + j = 1 /\ 1 \in 1 .. c
          BY <2>3, <1>11
        <4> QED
          BY <4>1, <2>2, <1>7
      <3>2. FifoValid(t)
        BY <2>3, <1>7
      <3>3. /\ u.state_r = t.state_r /\ u.dat_r = t.dat_r /\ u.din_r = t.din_r
            /\ u.rf_bypass = t.rf_bypass /\ u.rdata = t.rdata
        BY <2>3, <3>2, Zenon DEF FifoNext, rf_conflict
      <3> QED
        BY <3>1, <3>3, Zenon DEF FifoDout
    <2>4. CASE ~pop /\ c = 0
      <3>1. new[1] = din /\ push
        BY <2>2, <2>4, <1>11, <1>17
      <3>2. ~FifoValid(t) /\ ~t.state_r
        BY <2>4, <1>7
      <3>3. u.state_r /\ u.dat_r = din
        BY <3>1, <3>2, <2>4, Zenon DEF FifoNext
      <3> QED
        BY <3>1, <3>3, Zenon DEF FifoDout
    <2>5. CASE pop /\ c = 1
      <3>1. new[1] = din /\ push
        BY <2>2, <2>5, <1>11, <1>17
      <3>2. Low(u.r_ptr + 1 - 1) = Low(t.w_ptr)
        <4>1. c < 1 + j
          BY <2>5, <1>11
        <4> QED
          BY <4>1, <2>1, <1>5, <1>6, Zenon
      <3>3. Low(PtrNxt(t.r_ptr, FALSE)) = Low(t.w_ptr)
        BY <3>2, <2>5, <1>14, Zenon
      <3>4. ~u.state_r /\ u.rf_bypass /\ u.din_r = din
        BY <3>1, <3>3, <2>5, <1>10, <1>15, Zenon DEF FifoNext, rf_conflict
      <3> QED
        BY <3>1, <3>4, Zenon DEF FifoDout
    <2>6. CASE pop /\ c # 1
      <3>1. c >= 1 + j /\ j = 1 /\ 2 \in 1 .. c
        BY <2>6, <1>11
      <3>2. new[1] = t.rf[Low(t.r_ptr + 2 - 1)]
        <4>1. new[1] = q[2]
          BY <3>1, <2>2
        <4> QED
          BY <4>1, <3>1, <1>7
      <3>3. /\ Low(u.r_ptr + 1 - 1) = Low(t.r_ptr + (1 + j) - 1)
            /\ push => Low(u.r_ptr + 1 - 1) # Low(t.w_ptr)
        BY <3>1, <2>1, <1>5, <1>6, Zenon
      <3>4. /\ Low(PtrNxt(t.r_ptr, FALSE)) = Low(t.r_ptr + 2 - 1)
            /\ push => Low(t.w_ptr) # Low(PtrNxt(t.r_ptr, FALSE))
        <4>1. 1 + j = 2
          BY <3>1
        <4> QED
          BY <4>1, <3>3, <2>6, <1>14, Zenon
      <3>5. ~u.state_r /\ ~u.rf_bypass /\ u.rdata = t.rf[Low(PtrNxt(t.r_ptr, FALSE))]
        BY <3>4, <2>6, <1>10, <1>15, Zenon DEF FifoNext, rf_conflict
      <3> QED
        BY <3>2, <3>4, <3>5, Zenon DEF FifoDout
    <2> QED
      BY <2>3, <2>4, <2>5, <2>6, Zenon
  <1>18. FifoContents(u) = new
    <2>1. ASSUME NEW k \in 1 .. n
          PROVE  FifoContents(u)[k] = new[k]
      <3>1. CASE k = 1
        <4>1. n # 0
          BY <1>8
        <4>2. FifoContents(u)[1] = FifoDout(u)
          BY <3>1, <1>9, Zenon
        <4> QED
          BY <3>1, <4>1, <4>2, <1>17, Zenon
      <3>2. CASE k # 1
        BY <3>2, <1>9, <1>16, Zenon
      <3> QED
        BY <3>1, <3>2, Zenon
    <2> QED
      BY <2>1, <1>9, <1>13, SeqEqual, ZenonT(40)
  <1>19. ~FifoValid(u) => ~u.state_r
    <2> SUFFICES ASSUME ~FifoValid(u) PROVE ~u.state_r
      BY Zenon
    <2>1. n = 0
      BY <1>9, Zenon
    <2>2. CASE pop
      BY <2>2, <1>15, Zenon
    <2>3. CASE ~pop
      <3>1. c = 0 /\ ~push
        BY <2>1, <2>3, <1>11
      <3>2. ~t.state_r
        BY <3>1, <1>7
      <3> QED
        BY <3>1, <3>2, <2>3, <1>10 DEF FifoNext
    <2> QED
      BY <2>2, <2>3, Zenon
  <1> QED
    BY <1>5, <1>8, <1>18, <1>19, Zenon DEF Stepped, q, rest, new

\* A flush empties the queue, whatever is pushed or popped at the same edge.
LEMMA FlushEmpties ==
    ASSUME NEW t \in FifoState, NEW push \in BOOLEAN, NEW pop \in BOOLEAN, NEW din \in Data,
           NEW u, u = FifoNext(t, push, din, pop, TRUE)
    PROVE  /\ u \in FifoState /\ FifoCount(u) <= Depth /\ ~u.state_r
           /\ FifoContents(u) = << >>
  <1>1. /\ t.w_ptr \in Ptr /\ t.r_ptr \in Ptr /\ t.rf \in [Addr -> Word]
        /\ t.dat_r \in Word /\ t.din_r \in Word /\ t.rdata \in Word
        /\ t.state_r \in BOOLEAN /\ t.rf_bypass \in BOOLEAN /\ din \in Word
    BY DEF FifoState, Word
  <1>2. u.w_ptr = 0 /\ u.r_ptr = 0 /\ ~u.state_r /\ u.state_r \in BOOLEAN
    BY <1>1, Zenon DEF FifoNext, PtrNxt
  <1>3. 0 \in Ptr /\ Low(0) = 0 /\ 0 \in Addr /\ Depth \in Nat /\ Depth >= 2
    BY Pointers DEF Addr
  <1>4. u \in FifoState
    <2>1. Low(t.w_ptr) \in Addr
      <3>1. ASSUME NEW p \in Ptr PROVE Low(p) \in Addr
        <4>1. p \in Nat /\ p < 2 * Depth /\ Low(p) = IF p < Depth THEN p ELSE p - Depth
          BY Pointers, Zenon
        <4> QED
          BY <4>1, <1>3 DEF Addr
      <3> QED
        BY <3>1, <1>1
    <2>2. u.rf \in [Addr -> Word]
      <3>1. u.rf = IF push THEN [t.rf EXCEPT ![Low(t.w_ptr)] = din] ELSE t.rf
        BY DEF FifoNext
      <3> QED
        BY <3>1, <2>1, <1>1, Zenon
    <2>3. u.rdata \in Word
      BY <1>1, <1>3 DEF FifoNext, PtrNxt
    <2>4. u.dat_r \in Word /\ u.din_r \in Word /\ u.rf_bypass \in BOOLEAN
      BY <1>1, Zenon DEF FifoNext, rf_conflict
    <2>5. u = [w_ptr |-> u.w_ptr, r_ptr |-> u.r_ptr, state_r |-> u.state_r,
               dat_r |-> u.dat_r, din_r |-> u.din_r, rf_bypass |-> u.rf_bypass,
               rf |-> u.rf, rdata |-> u.rdata]
      BY DEF FifoNext
    <2> QED
      BY <2>2, <2>3, <2>4, <2>5, <1>2, <1>3, Zenon DEF FifoState
  <1>5. FifoCount(u) = 0 /\ FifoCount(u) <= Depth
    BY <1>2, <1>3, Counts, Zenon
  <1>6. FifoContents(u) \in Seq(Word) /\ Len(FifoContents(u)) = 0
    BY <1>4, <1>5, Contents, Zenon
  <1>7. FifoContents(u) = << >>
    BY <1>6, EmptySeq, Zenon
  <1> QED
    BY <1>2, <1>4, <1>5, <1>7, Zenon

\* The reset values satisfy the invariant and hold no word.
LEMMA InitFacts == FifoReset => FifoInv /\ FifoContents(s) = << >>
  <1> SUFFICES ASSUME FifoReset PROVE FifoInv /\ FifoContents(s) = << >>
    OBVIOUS
  <1>1. 0 \in Ptr /\ Depth \in Nat /\ Depth >= 2
    BY Pointers
  <1>2. s \in FifoState /\ s.w_ptr = 0 /\ s.r_ptr = 0 /\ ~s.state_r
    BY <1>1 DEF FifoReset, FifoInit, FifoState, Word
  <1>3. FifoCount(s) = 0
    BY <1>1, <1>2, Counts
  <1>4. FifoContents(s) \in Seq(Word) /\ Len(FifoContents(s)) = 0
    BY <1>1, <1>2, <1>3, Contents
  <1>5. FifoContents(s) = << >>
    BY <1>4, EmptySeq
  <1> QED
    BY <1>1, <1>2, <1>3, <1>5 DEF FifoInv

\* Every clock edge keeps the invariant and is a step of the queue.
LEMMA NextFacts == FifoInv /\ FifoStep => FifoInv' /\ Queue!Next
  <1> SUFFICES ASSUME FifoInv, FifoStep PROVE FifoInv' /\ Queue!Next
    OBVIOUS
  <1>1. PICK push \in BOOLEAN, pop \in BOOLEAN, flush \in BOOLEAN, din \in Data :
           FifoClock(push, din, pop, flush)
    BY DEF FifoStep
  <1>2. s \in FifoState /\ FifoCount(s) <= Depth /\ (~FifoValid(s) => ~s.state_r)
    BY DEF FifoInv
  <1>3. /\ push => FifoReady(s)
        /\ pop => FifoValid(s)
        /\ s' = FifoNext(s, push, din, pop, flush)
    BY <1>1 DEF FifoClock
  <1>4. CASE flush
    <2>1. s' = FifoNext(s, push, din, pop, TRUE)
      BY <1>3, <1>4
    <2>2. s' \in FifoState /\ FifoCount(s') <= Depth /\ ~s'.state_r /\ FifoContents(s') = << >>
      BY <2>1, <1>2, FlushEmpties, Zenon
    <2> QED
      BY <2>2 DEF FifoInv, Queue!Next, Queue!Flush
  <1>5. CASE ~flush
    <2>1. s' = FifoNext(s, push, din, pop, FALSE)
      BY <1>3, <1>5, Zenon
    <2>2. Stepped(s, s', push, din, pop)
      BY <2>1, <1>2, <1>3, EdgeIsStep, Zenon
    <2>3. /\ push => Len(FifoContents(s)) < Depth
          /\ pop => FifoContents(s) # << >>
      <3>1. /\ Len(FifoContents(s)) = FifoCount(s) /\ FifoContents(s) \in Seq(Word)
            /\ FifoValid(s) <=> FifoCount(s) # 0
            /\ FifoReady(s) <=> FifoCount(s) < Depth
        BY <1>2, Contents
      <3> QED
        BY <3>1, <1>3, EmptySeq
    <2>4. Queue!Step(push, din, pop)
      BY <2>2, <2>3 DEF Stepped, Queue!Step, Queue!Rest
    <2> QED
      BY <2>2, <2>4 DEF Stepped, FifoInv, Queue!Next
  <1> QED
    BY <1>4, <1>5

\* The invariant holds in every reachable state of the FIFO.
THEOREM FifoInvariant == FifoSpec => []FifoInv
  <1>1. FifoInv /\ [FifoStep]_s => FifoInv'
    <2>1. CASE UNCHANGED s
      BY <2>1 DEF FifoInv
    <2> QED
      BY <2>1, NextFacts
  <1> QED
    BY <1>1, InitFacts, PTL DEF FifoSpec

\* ready and valid of fifo_fwft_ctrl_rp_wp.v are exact for every depth: no room is
\* refused, no word is hidden and no more words are held than there are slots.
THEOREM FifoFlagsExact == FifoSpec => []FlagsExact
  <1>1. FifoInv => FlagsExact
    <2> SUFFICES ASSUME FifoInv PROVE FlagsExact
      OBVIOUS
    <2>1. s \in FifoState /\ FifoCount(s) <= Depth
      BY DEF FifoInv
    <2>2. /\ Len(FifoContents(s)) = FifoCount(s) /\ FifoContents(s) \in Seq(Word)
          /\ FifoValid(s) <=> FifoCount(s) # 0
          /\ FifoReady(s) <=> FifoCount(s) < Depth
      BY <2>1, Contents
    <2>3. FifoContents(s) # << >> <=> FifoCount(s) # 0
      BY <2>2, EmptySeq
    <2> QED
      BY <2>1, <2>2, <2>3 DEF FlagsExact
  <1> QED
    BY <1>1, FifoInvariant, PTL

\* For every depth, the FIFO with its fall-through and bypass registers behaves as
\* a bounded queue: words leave in the order they entered, none is lost, repeated
\* or left over from before a flush, for every overlap of push, pop and flush.
THEOREM FifoImplementsQueue == FifoSpec => ImplementsQueue
  <1>1. FifoReset => Queue!Init
    BY InitFacts DEF Queue!Init
  <1>2. FifoInv /\ [FifoStep]_s => [Queue!Next]_(FifoContents(s))
    <2>1. CASE UNCHANGED s
      BY <2>1
    <2> QED
      BY <2>1, NextFacts
  <1> QED
    BY <1>1, <1>2, FifoInvariant, PTL DEF FifoSpec, ImplementsQueue, Queue!Spec

-----------------------------------------------------------------------------
(* A bank of rob.v: the pointers of the FIFO and the queue they stand for.  *)

\* The slot of the j-th word of a bank, counted from 0 at the oldest.
Place(t, j) == Low(t.r_ptr + j)

BankOK(t) ==
    /\ t.w_ptr \in Ptr /\ t.r_ptr \in Ptr /\ t.words \in Seq(Data)
    /\ Len(t.words) = FifoCount(t) /\ Len(t.words) <= Depth

\* The flags of a bank are exact, and its words are in slots of their own.
LEMMA BankFacts ==
    ASSUME NEW t, BankOK(t)
    PROVE  /\ Len(t.words) \in Nat
           /\ FifoValid(t) <=> Len(t.words) # 0
           /\ FifoReady(t) <=> Len(t.words) < Depth
           /\ \A j \in 0 .. Depth : Place(t, j) \in Addr
           /\ \A i, j \in 0 .. Depth - 1 : Place(t, i) = Place(t, j) => i = j
           /\ Place(t, Len(t.words)) = Low(t.w_ptr)
           /\ Place(t, 0) = Low(t.r_ptr)
  <1>1. /\ t.w_ptr \in Ptr /\ t.r_ptr \in Ptr /\ Len(t.words) \in Nat
        /\ Len(t.words) = FifoCount(t) /\ Len(t.words) <= Depth
    BY DEF BankOK
  <1>2. /\ t.w_ptr \in Nat /\ t.r_ptr \in Nat /\ t.w_ptr < 2 * Depth /\ t.r_ptr < 2 * Depth
        /\ Depth \in Nat /\ Depth >= 2
        /\ Low(t.w_ptr) = IF t.w_ptr < Depth THEN t.w_ptr ELSE t.w_ptr - Depth
        /\ Low(t.r_ptr) = IF t.r_ptr < Depth THEN t.r_ptr ELSE t.r_ptr - Depth
        /\ Msb(t.w_ptr) = IF t.w_ptr < Depth THEN 0 ELSE 1
        /\ Msb(t.r_ptr) = IF t.r_ptr < Depth THEN 0 ELSE 1
    BY <1>1, Pointers, Zenon
  <1>3. FifoCount(t) = IF t.w_ptr >= t.r_ptr THEN t.w_ptr - t.r_ptr ELSE t.w_ptr + 2 * Depth - t.r_ptr
    BY <1>1, Counts
  <1>4. ASSUME NEW j \in 0 .. Depth
        PROVE  Place(t, j) = IF t.r_ptr + j < Depth THEN t.r_ptr + j
                             ELSE IF t.r_ptr + j < 2 * Depth THEN t.r_ptr + j - Depth
                             ELSE t.r_ptr + j - 2 * Depth
    <2>1. PICK x \in Nat : x = t.r_ptr + j /\ x < 3 * Depth
      BY <1>2
    <2>2. Low(x) = IF x < Depth THEN x ELSE IF x < 2 * Depth THEN x - Depth ELSE x - 2 * Depth
      BY <2>1, Pointers, Zenon
    <2>3. Place(t, j) = Low(x)
      BY <2>1, Zenon DEF Place
    <2>4. t.r_ptr \in Nat /\ Depth \in Nat
      BY <1>2
    <2> QED
      BY <2>1, <2>2, <2>3, <2>4
  <1>5. FifoValid(t) <=> Len(t.words) # 0
    BY <1>1, <1>2, <1>3 DEF FifoValid
  <1>6. FifoReady(t) <=> Len(t.words) < Depth
    BY <1>1, <1>2, <1>3 DEF FifoReady
  <1>7. \A j \in 0 .. Depth : Place(t, j) \in Addr
    BY <1>2, <1>4 DEF Addr
  <1>8. \A i, j \in 0 .. Depth - 1 : Place(t, i) = Place(t, j) => i = j
    BY <1>2, <1>4
  <1>9. Place(t, Len(t.words)) = Low(t.w_ptr)
    <2>1. PICK c \in 0 .. Depth : c = Len(t.words)
      BY <1>1, <1>2
    <2>2. c = IF t.w_ptr >= t.r_ptr THEN t.w_ptr - t.r_ptr ELSE t.w_ptr + 2 * Depth - t.r_ptr
      BY <1>1, <1>3, <2>1
    <2>3. Place(t, c) = Low(t.w_ptr)
      BY <1>2, <1>4, <2>2
    <2> QED
      BY <2>1, <2>3
  <1>10. Place(t, 0) = Low(t.r_ptr)
    BY <1>2, <1>4
  <1> QED
    BY <1>1, <1>5, <1>6, <1>7, <1>8, <1>9, <1>10

\* The queue new is q, of c words, without its j oldest and with din behind if i = 1.
QueueMoves(q, new, S, din, c, i, j) ==
    /\ new \in Seq(S) /\ Len(new) = c + i - j
    /\ \A k \in 1 .. c + i - j : new[k] = IF k <= c - j THEN q[k + j] ELSE din

\* A queue from which the oldest leaves if pop, and which din enters if push.
LEMMA Queued ==
    ASSUME NEW S, NEW q \in Seq(S), NEW push \in BOOLEAN, NEW pop \in BOOLEAN, NEW din,
           push => din \in S, pop => q # << >>,
           NEW rest, rest = IF pop THEN Tail(q) ELSE q,
           NEW new, new = IF push THEN Append(rest, din) ELSE rest,
           NEW i \in 0 .. 1, i = Bit(push), NEW j \in 0 .. 1, j = Bit(pop), NEW c \in Nat, Len(q) = c
    PROVE  QueueMoves(q, new, S, din, c, i, j)
  <1>1. (push => i = 1) /\ (~push => i = 0) /\ (pop => j = 1) /\ (~pop => j = 0)
    BY DEF Bit
  <1>2. /\ rest \in Seq(S) /\ Len(rest) = c - j
        /\ \A k \in 1 .. c - j : rest[k] = q[k + j]
    <2>1. CASE pop
      <3>1. /\ Tail(q) \in Seq(S) /\ Len(Tail(q)) = c - 1
            /\ \A k \in 1 .. c - 1 : Tail(q)[k] = q[k + 1]
        BY <2>1, HeadTailProperties
      <3>2. rest = Tail(q) /\ j = 1
        BY <1>1, <2>1, Zenon
      <3> QED
        BY <3>1, <3>2, Zenon
    <2>2. CASE ~pop
      <3>1. Len(q) = c - 0 /\ \A k \in 1 .. c - 0 : q[k] = q[k + 0]
        OBVIOUS
      <3>2. rest = q /\ j = 0
        BY <1>1, <2>2, Zenon
      <3> QED
        BY <3>1, <3>2, Zenon
    <2> QED
      BY <2>1, <2>2, Zenon
  <1>3. CASE push
    <2>1. new = Append(rest, din) /\ i = 1 /\ din \in S
      BY <1>1, <1>2, <1>3, Zenon
    <2>2. /\ Append(rest, din) \in Seq(S) /\ Len(Append(rest, din)) = Len(rest) + 1
          /\ \A k \in 1 .. Len(rest) : Append(rest, din)[k] = rest[k]
          /\ Append(rest, din)[Len(rest) + 1] = din
      <3>1. rest \in Seq(S)
        BY <1>2
      <3> QED
        BY <2>1, <3>1, AppendProperties
    <2>3. PICK m \in Nat : m = Len(rest) /\ m = c - j
      BY <1>2
    <2>4. /\ new \in Seq(S) /\ Len(new) = m + 1
          /\ \A k \in 1 .. m : new[k] = q[k + j]
          /\ new[m + 1] = din
      BY <1>2, <2>1, <2>2, <2>3, Zenon
    <2>5. /\ m + 1 = c + 1 - j
          /\ \A k \in 1 .. c + 1 - j : (k <= c - j => k \in 1 .. m) /\ (~(k <= c - j) => k = m + 1)
      <3>1. m = c - j /\ c \in Nat /\ j \in Nat
        BY <2>3
      <3>2. m + 1 = c + 1 - j
        BY <3>1
      <3>3. ASSUME NEW k \in 1 .. c + 1 - j PROVE (k <= c - j => k \in 1 .. m) /\ (~(k <= c - j) => k = m + 1)
        BY <3>1
      <3> QED
        BY <3>2, <3>3
    <2>6. \A k \in 1 .. c + 1 - j : new[k] = IF k <= c - j THEN q[k + j] ELSE din
      BY <2>4, <2>5, Zenon
    <2> QED
      BY <2>1, <2>4, <2>5, <2>6, Zenon DEF QueueMoves
  <1>4. CASE ~push
    <2>1. new = rest /\ i = 0
      BY <1>1, <1>2, <1>4, Zenon
    <2>2. c + 0 - j = c - j /\ \A k \in 1 .. c - j : k <= c - j
      OBVIOUS
    <2> QED
      BY <1>2, <2>1, <2>2, Zenon DEF QueueMoves
  <1> QED
    BY <1>3, <1>4, Zenon

\* What an edge does to a bank.
BankMoves(t, u, push, pop, din, i, j) ==
    /\ BankOK(u) /\ Len(u.words) = Len(t.words) + i - j
    /\ \A k \in 0 .. Len(u.words) - 1 :
          /\ k + j < Len(t.words) => Place(u, k) = Place(t, k + j) /\ u.words[k + 1] = t.words[k + j + 1]
          /\ k + j >= Len(t.words) => /\ push /\ k + j = Len(t.words)
                                      /\ Place(u, k) = Low(t.w_ptr) /\ u.words[k + 1] = din

\* An edge without flush: the words that stay keep their slots, and a word
\* that enters goes to the slot of the write pointer.
LEMMA BankStep ==
    ASSUME NEW t, BankOK(t), NEW push \in BOOLEAN, NEW pop \in BOOLEAN, NEW din, push => din \in Data,
           push => FifoReady(t), pop => FifoValid(t),
           NEW u, u = BankNext(t, push, din, pop, FALSE),
           NEW i \in 0 .. 1, i = Bit(push), NEW j \in 0 .. 1, j = Bit(pop)
    PROVE  BankMoves(t, u, push, pop, din, i, j)
  <1>1. PICK c \in Nat : c = Len(t.words)
    BY DEF BankOK
  <1> DEFINE D == Depth
             a == t.w_ptr
             b == t.r_ptr
             w == IF a + i = 2 * D THEN 0 ELSE a + i
             r == IF b + j = 2 * D THEN 0 ELSE b + j
             n == c + i - j
  <1>2. (push => i = 1) /\ (~push => i = 0) /\ (pop => j = 1) /\ (~pop => j = 0)
    BY DEF Bit
  <1>3. a \in Ptr /\ b \in Ptr /\ c = FifoCount(t) /\ t.words \in Seq(Data) /\ Len(t.words) = c
    BY <1>1 DEF BankOK
  <1>4. (push => c < D) /\ (pop => c # 0) /\ c <= D
    BY <1>1, BankFacts DEF BankOK
  <1>5. /\ D \in Nat /\ D >= 2 /\ a \in Nat /\ a < 2 * D /\ b \in Nat /\ b < 2 * D
        /\ PtrNxt(a, FALSE) = IF a + 1 = 2 * D THEN 0 ELSE a + 1
        /\ PtrNxt(b, FALSE) = IF b + 1 = 2 * D THEN 0 ELSE b + 1
    BY <1>3, Pointers, Zenon
  <1>6. c = IF a >= b THEN a - b ELSE a + 2 * D - b
    BY <1>3, Counts
  <1>7. c + i <= D /\ c >= j
    BY <1>2, <1>4, <1>5
  <1>8. u.w_ptr = w
    <2>1. u.w_ptr = IF push THEN PtrNxt(a, FALSE) ELSE a
      BY DEF BankNext
    <2>2. CASE push
      BY <1>2, <1>5, <2>1, <2>2, Zenon
    <2>3. CASE ~push
      <3>1. u.w_ptr = a /\ i = 0
        BY <1>2, <2>1, <2>3, Zenon
      <3> HIDE DEF a
      <3>2. a + i # 2 * D /\ a + i = a
        BY <1>5, <3>1
      <3> QED
        BY <3>1, <3>2, Zenon
    <2> QED
      BY <2>2, <2>3, Zenon
  <1>9. u.r_ptr = r
    <2>1. u.r_ptr = IF pop THEN PtrNxt(b, FALSE) ELSE b
      BY DEF BankNext
    <2>2. CASE pop
      BY <1>2, <1>5, <2>1, <2>2, Zenon
    <2>3. CASE ~pop
      <3>1. u.r_ptr = b /\ j = 0
        BY <1>2, <2>1, <2>3, Zenon
      <3> HIDE DEF b
      <3>2. b + j # 2 * D /\ b + j = b
        BY <1>5, <3>1
      <3> QED
        BY <3>1, <3>2, Zenon
    <2> QED
      BY <2>2, <2>3, Zenon
  <1>10. PICK rest : /\ rest = IF pop THEN Tail(t.words) ELSE t.words
                     /\ u.words = IF push THEN Append(rest, din) ELSE rest
    BY Zenon DEF BankNext
  <1>11. pop => t.words # << >>
    BY <1>3, <1>4
  <1>12. /\ u.words \in Seq(Data) /\ Len(u.words) = n
         /\ \A k \in 1 .. n : u.words[k] = IF k <= c - j THEN t.words[k + j] ELSE din
    <2>1. QueueMoves(t.words, u.words, Data, din, c, i, j)
      BY <1>3, <1>10, <1>11, Queued, Zenon
    <2> QED
      BY <2>1, Zenon DEF QueueMoves
  <1>13. w \in Int /\ r \in Int /\ n \in Int
    BY <1>5
  <1> HIDE DEF D, a, b, w, r, n
  <1>14. Moved(D, a, b, c, i, j, w, r, n)
    <2>1. /\ w = IF a + i = 2 * D THEN 0 ELSE a + i
          /\ r = IF b + j = 2 * D THEN 0 ELSE b + j
          /\ n = c + i - j
      BY DEF w, r, n
    <2> QED
      BY <2>1, <1>5, <1>6, <1>7, <1>13, Distances, Zenon
  <1>15. w \in Ptr /\ r \in Ptr /\ n \in 0 .. Depth
    BY <1>14 DEF Moved, Ptr, D
  <1>16. FifoCount(u) = n
    <2>1. FifoCount(u) = IF w >= r THEN w - r ELSE w + 2 * Depth - r
      BY <1>8, <1>9, <1>15, Counts, Zenon
    <2> QED
      BY <1>14, <2>1, Zenon DEF Moved, D
  <1>17. BankOK(u)
    <2>1. n <= Depth
      BY <1>5, <1>15 DEF D
    <2> QED
      BY <1>8, <1>9, <1>12, <1>15, <1>16, <2>1, Zenon DEF BankOK
  <1>18. ASSUME NEW k \in 0 .. n - 1
         PROVE  /\ k + j < c => Place(u, k) = Place(t, k + j) /\ u.words[k + 1] = t.words[k + j + 1]
                /\ k + j >= c => push /\ k + j = c /\ Place(u, k) = Low(a) /\ u.words[k + 1] = din
    <2>1. k + 1 \in 1 .. n /\ k \in Nat /\ n = c + i - j /\ k + 1 + j = k + j + 1
      BY <1>15 DEF n
    <2>2. u.words[k + 1] = IF k + 1 <= c - j THEN t.words[k + j + 1] ELSE din
      BY <1>12, <2>1, Zenon
    <2>3. r + (k + 1) - 1 = r + k /\ b + ((k + 1) + j) - 1 = b + (k + j)
      BY <1>5, <1>13, <2>1
    <2>4. \A x \in Nat : x < 3 * D => Low(x) = IF x < D THEN x ELSE IF x < 2 * D THEN x - D ELSE x - 2 * D
      BY Pointers DEF D
    <2>5. /\ c >= (k + 1) + j => Low(r + k) = Low(b + (k + j))
          /\ c < (k + 1) + j => i = 1 /\ k + 1 = n /\ Low(r + k) = Low(a)
      <3> DEFINE lo(z) == IF z < D THEN z ELSE IF z < 2 * D THEN z - D ELSE z - 2 * D
                 m == k + 1
      <3>1. /\ r + m - 1 \in Nat /\ r + m - 1 < 3 * D /\ b + (m + j) - 1 \in Nat
            /\ c >= m + j => b + (m + j) - 1 < 3 * D /\ lo(r + m - 1) = lo(b + (m + j) - 1)
            /\ c < m + j => i = 1 /\ m = n /\ lo(r + m - 1) = lo(a)
        BY <1>14, <2>1, Zenon DEF Moved
      <3>2. \A x \in Nat : x < 3 * D => Low(x) = lo(x)
        BY <2>4
      <3>3. a \in Nat /\ a < 3 * D
        BY <1>5
      <3> HIDE DEF lo
      <3> QED
        BY <2>3, <3>1, <3>2, <3>3, Zenon
    <2>6. k + j < c => c >= (k + 1) + j /\ k + 1 <= c - j
      BY <2>1
    <2>7. k + j >= c => c < (k + 1) + j /\ ~(k + 1 <= c - j)
      BY <2>1
    <2>8. Place(u, k) = Low(r + k) /\ Place(t, k + j) = Low(b + (k + j))
      BY <1>9, Zenon DEF Place, b
    <2>9. i = 1 /\ k + 1 = n => push /\ k + j = c
      BY <1>2, <2>1
    <2> QED
      BY <2>2, <2>5, <2>6, <2>7, <2>8, <2>9, Zenon
  <1> QED
    BY <1>1, <1>12, <1>17, <1>18, Zenon DEF n, a, BankMoves

\* A flush empties a bank.
LEMMA BankFlush ==
    ASSUME NEW t, NEW push, NEW pop, NEW din, NEW u, u = BankNext(t, push, din, pop, TRUE)
    PROVE  BankOK(u) /\ u.words = << >>
  <1>1. u.w_ptr = 0 /\ u.r_ptr = 0 /\ u.words = << >>
    BY DEF BankNext, PtrNxt
  <1>2. 0 \in Ptr /\ Depth \in Nat
    BY Pointers
  <1>3. FifoCount(u) = 0
    BY <1>1, <1>2, Counts, Zenon
  <1>4. << >> \in Seq(Data) /\ Len(<< >>) = 0 /\ 0 <= Depth
    BY <1>2, EmptySeq
  <1> QED
    BY <1>1, <1>2, <1>3, <1>4, Zenon DEF BankOK

-----------------------------------------------------------------------------
(* The registers of rob.v.                                                  *)

\* What the j-th instruction of bank b was given when it entered.
Entry(b, j) == [bank |-> b, id |-> Place(que[b], j), dat |-> que[b].words[j + 1]]

RobTyped ==
    /\ \A b \in Banks : BankOK(que[b])
    /\ head \in Banks /\ tail \in Banks
    /\ tag_rdy \in [Banks -> [Addr -> BOOLEAN]] /\ tag_fls \in [Banks -> [Addr -> BOOLEAN]]

\* Instructions alternate between the banks, from head up to tail.
Balanced == Len(que[head].words) = Len(que[1 - head].words) + (IF head = tail THEN 0 ELSE 1)

\* What is to be written back is in the buffer, and not ready unless port 0 has
\* to repeat it.
Issued ==
    \A p \in inflight : \E b \in Banks : \E j \in 0 .. Len(que[b].words) - 1 :
        p = Entry(b, j) /\ (tag_rdy[b][Place(que[b], j)] => p = again)

\* The flush tag of a ready instruction is its own.
OwnTags ==
    \A b \in Banks : \A j \in 0 .. Len(que[b].words) - 1 :
        tag_rdy[b][Place(que[b], j)] => (tag_fls[b][Place(que[b], j)] <=> que[b].words[j + 1] \in Flushing)

RobInv == RobTyped /\ Balanced /\ Issued /\ OwnTags

\* The ports of bank b at an edge.
Push(ds, b) == SlotOf(tail, b) < Len(ds)
Pop(n, b) == SlotOf(head, b) < n
Din(ds, b) == IF Push(ds, b) THEN ds[SlotOf(tail, b) + 1] ELSE NoData

\* There are two banks, used in turn.
LEMMA InTurn ==
    /\ Banks = {0, 1} /\ Ports = {0, 1} /\ BANKS = 2
    /\ \A p \in Banks : /\ 1 - p \in Banks
                        /\ BankOf(p, 0) = p /\ BankOf(p, 1) = 1 - p /\ BankOf(p, 2) = p
                        /\ \A b \in Banks : SlotOf(p, b) = IF b = p THEN 0 ELSE 1
  <1>1. Banks = {0, 1} /\ Ports = {0, 1} /\ BANKS = 2
    BY DEF Banks, BANKS, Ports
  <1>2. ASSUME NEW p \in {0, 1}
        PROVE  (p + 0) % 2 = p /\ (p + 1) % 2 = 1 - p /\ (p + 2) % 2 = p
    BY SMT
  <1>3. ASSUME NEW p \in {0, 1}, NEW b \in {0, 1}
        PROVE  (b + 2 - p) % 2 = IF b = p THEN 0 ELSE 1
    BY SMT
  <1> QED
    BY <1>1, <1>2, <1>3 DEF BankOf, SlotOf

\* At most two instructions enter.
LEMMA Entering ==
    ASSUME NEW ds \in Pushes
    PROVE  ds \in Seq(Data) /\ Len(ds) \in 0 .. 2 /\ \A k \in 1 .. Len(ds) : ds[k] \in Data
  <1>1. PICK n \in 0 .. 2 : ds \in [1 .. n -> Data]
    BY InTurn DEF Pushes
  <1> QED
    BY <1>1

\* A bank is pushed to and popped from only when its FIFO allows it.
LEMMA Guards ==
    ASSUME RobInv, NEW ds \in Pushes, Len(ds) > 0 => rob_ready,
           NEW n \in 0 .. BANKS, n > 0 => cmt_valid(n - 1), NEW b \in Banks
    PROVE  /\ Push(ds, b) \in BOOLEAN /\ Pop(n, b) \in BOOLEAN
           /\ Push(ds, b) => FifoReady(que[b]) /\ Din(ds, b) \in Data
           /\ Pop(n, b) => FifoValid(que[b]) /\ tag_rdy[b][Place(que[b], 0)]
  <1>1. head \in Banks /\ tail \in Banks /\ BankOK(que[b])
    BY DEF RobInv, RobTyped
  <1>2. SlotOf(head, b) \in 0 .. 1 /\ SlotOf(tail, b) \in 0 .. 1 /\ n \in 0 .. 2 /\ Len(ds) \in 0 .. 2
    BY <1>1, InTurn, Entering
  <1>3. Push(ds, b) \in BOOLEAN /\ Pop(n, b) \in BOOLEAN
    BY <1>2 DEF Push, Pop
  <1>4. ASSUME Push(ds, b) PROVE FifoReady(que[b]) /\ Din(ds, b) \in Data
    <2>1. Len(ds) > 0 /\ SlotOf(tail, b) + 1 \in 1 .. Len(ds)
      BY <1>2, <1>4 DEF Push
    <2>2. rob_ready
      BY <2>1
    <2>3. Din(ds, b) = ds[SlotOf(tail, b) + 1]
      BY <1>4 DEF Din
    <2> QED
      BY <2>1, <2>2, <2>3, Entering DEF rob_ready
  <1>5. ASSUME Pop(n, b) PROVE FifoValid(que[b]) /\ tag_rdy[b][Place(que[b], 0)]
    <2>1. n > 0 /\ SlotOf(head, b) \in 0 .. n - 1
      BY <1>2, <1>5 DEF Pop
    <2>2. cmt_valid(n - 1)
      BY <2>1
    <2>3. ent_valid(SlotOf(head, b))
      BY <2>1, <2>2 DEF cmt_valid
    <2>4. BankOf(head, SlotOf(head, b)) = b
      BY <1>1, InTurn
    <2>5. Place(que[b], 0) = rptr(b)
      BY <1>1, BankFacts DEF rptr
    <2> QED
      BY <2>3, <2>4, <2>5 DEF ent_valid
  <1> QED
    BY <1>3, <1>4, <1>5

\* Every bank moves on as a FIFO does.
LEMMA BanksMove ==
    ASSUME RobInv, NEW ds \in Pushes, NEW wb, NEW refused, NEW n \in 0 .. BANKS,
           Clock(ds, wb, refused, n, FALSE), NEW b \in Banks
    PROVE  BankMoves(que[b], que'[b], Push(ds, b), Pop(n, b), Din(ds, b), Bit(Push(ds, b)), Bit(Pop(n, b)))
  <1>1. BankOK(que[b])
    BY DEF RobInv, RobTyped
  <1>2. (Len(ds) > 0 => rob_ready) /\ (n > 0 => cmt_valid(n - 1))
    BY DEF Clock
  <1>3. /\ Push(ds, b) \in BOOLEAN /\ Pop(n, b) \in BOOLEAN
        /\ Push(ds, b) => FifoReady(que[b]) /\ Din(ds, b) \in Data
        /\ Pop(n, b) => FifoValid(que[b])
    BY <1>2, Guards
  <1>4. que'[b] = BankNext(que[b], Push(ds, b), Din(ds, b), Pop(n, b), FALSE)
    BY DEF Clock, Push, Pop, Din
  <1>5. Bit(Push(ds, b)) \in 0 .. 1 /\ Bit(Pop(n, b)) \in 0 .. 1
    BY DEF Bit
  <1> QED
    BY <1>1, <1>3, <1>4, <1>5, BankStep, Zenon

\* Two instructions in the buffer have different places.
LEMMA PlacesDiffer ==
    ASSUME RobTyped, NEW b \in Banks, NEW i \in 0 .. Len(que[b].words) - 1, NEW j \in 0 .. Len(que[b].words) - 1,
           Place(que[b], i) = Place(que[b], j)
    PROVE  i = j
  <1>1. BankOK(que[b]) /\ Len(que[b].words) \in Nat /\ Len(que[b].words) <= Depth /\ Depth \in Nat
    BY BankFacts, Pointers DEF RobTyped, BankOK
  <1>2. i \in 0 .. Depth - 1 /\ j \in 0 .. Depth - 1
    BY <1>1
  <1> QED
    BY <1>1, <1>2, BankFacts

\* An instruction in the buffer is at its place, and never at the write pointer
\* of a bank that has room.
LEMMA AtItsPlace ==
    ASSUME RobTyped, NEW b \in Banks, NEW j \in 0 .. Len(que[b].words) - 1
    PROVE  Place(que[b], j) \in Addr /\ (FifoReady(que[b]) => Place(que[b], j) # Low(que[b].w_ptr))
  <1>1. BankOK(que[b]) /\ Len(que[b].words) \in Nat /\ Len(que[b].words) <= Depth /\ Depth \in Nat
    BY BankFacts, Pointers DEF RobTyped, BankOK
  <1>2. j \in 0 .. Depth /\ j \in 0 .. Depth - 1 /\ j # Len(que[b].words)
    BY <1>1
  <1>3. Place(que[b], j) \in Addr
    BY <1>1, <1>2, BankFacts
  <1>4. ASSUME FifoReady(que[b]), Place(que[b], j) = Low(que[b].w_ptr) PROVE FALSE
    <2>1. Len(que[b].words) < Depth
      BY <1>1, <1>4, BankFacts
    <2>2. Len(que[b].words) \in 0 .. Depth - 1
      BY <1>1, <2>1
    <2>3. Place(que[b], j) = Place(que[b], Len(que[b].words))
      BY <1>1, <1>4, BankFacts
    <2> QED
      BY <1>1, <1>2, <2>2, <2>3, BankFacts
  <1> QED
    BY <1>3, <1>4

\* The write port of a bank takes one place at most, one of those given out.
LEMMA OnePort ==
    ASSUME RobInv, NEW wb \in Writebacks, NEW b \in Banks, NEW p \in que_wb(wb, b)
    PROVE  /\ que_wb(wb, b) = {p} /\ p \in inflight
           /\ que_wb_id(wb, b) = p.id /\ (que_wb_fls(wb, b) <=> p.dat \in Flushing)
           /\ \E j \in 0 .. Len(que[b].words) - 1 : p = Entry(b, j)
  <1>1. wb \in [Ports -> inflight \cup {NoPlace}] /\ Ports = {0, 1}
    BY InTurn DEF Writebacks
  <1>2. \A q \in que_wb(wb, b) : \E i \in Ports : q = wb[i] /\ wb_fire(wb, i) /\ wb[i].bank = b
    BY DEF que_wb
  <1>3. \A q \in que_wb(wb, b) : q \in inflight /\ q.bank = b
    BY <1>1, <1>2 DEF wb_fire
  <1>4. wb_fire(wb, 1) /\ wb[1].bank = b /\ wb_fire(wb, 0) /\ wb[0].bank = b => FALSE
    <2>1. 0 \in Ports /\ 0 < 1
      BY <1>1
    <2> QED
      BY <2>1 DEF wb_fire, wb_ready
  <1>5. \A q \in que_wb(wb, b) : q = p
    BY <1>1, <1>2, <1>4
  <1>6. que_wb(wb, b) = {p}
    BY <1>5
  <1>7. que_wb_id(wb, b) = p.id
    <2>1. (CHOOSE q \in que_wb(wb, b) : TRUE) \in que_wb(wb, b)
      BY <1>6
    <2> QED
      BY <1>5, <2>1 DEF que_wb_id
  <1>8. que_wb_fls(wb, b) <=> p.dat \in Flushing
    BY <1>6 DEF que_wb_fls
  <1>9. \E j \in 0 .. Len(que[b].words) - 1 : p = Entry(b, j)
    <2>1. PICK e \in Banks : \E j \in 0 .. Len(que[e].words) - 1 : p = Entry(e, j)
      BY <1>3 DEF RobInv, Issued
    <2>2. e = b
      BY <1>3, <2>1 DEF Entry
    <2> QED
      BY <2>1, <2>2
  <1> QED
    BY <1>3, <1>6, <1>7, <1>8, <1>9

\* The tag tables after an edge.
LEMMA TagsMove ==
    ASSUME RobInv, NEW ds, NEW wb \in Writebacks, NEW refused, NEW n, NEW flush,
           Clock(ds, wb, refused, n, flush), NEW b \in Banks, NEW a \in Addr
    PROVE  /\ \A p \in que_wb(wb, b) : p.id = a => tag_rdy'[b][a] /\ (tag_fls'[b][a] <=> p.dat \in Flushing)
           /\ (\A p \in que_wb(wb, b) : p.id # a) =>
                 /\ tag_rdy'[b][a] <=> (~Push(ds, b) \/ a # Low(que[b].w_ptr)) /\ tag_rdy[b][a]
                 /\ tag_fls'[b][a] <=> (~Push(ds, b) \/ a # Low(que[b].w_ptr)) /\ tag_fls[b][a]
  <1>1. /\ tag_rdy'[b] = TagNxt(tag_rdy, b, wb, Push(ds, b), TRUE)
        /\ tag_fls'[b] = TagNxt(tag_fls, b, wb, Push(ds, b), que_wb_fls(wb, b))
    BY Zenon DEF Clock, Push
  <1>2. /\ tag_rdy'[b][a] = IF que_wb(wb, b) # {} /\ a = que_wb_id(wb, b) THEN TRUE
                            ELSE (~Push(ds, b) \/ a # Low(que[b].w_ptr)) /\ tag_rdy[b][a]
        /\ tag_fls'[b][a] = IF que_wb(wb, b) # {} /\ a = que_wb_id(wb, b) THEN que_wb_fls(wb, b)
                            ELSE (~Push(ds, b) \/ a # Low(que[b].w_ptr)) /\ tag_fls[b][a]
    BY <1>1, Zenon DEF TagNxt
  <1>3. ASSUME NEW p \in que_wb(wb, b), p.id = a
        PROVE  tag_rdy'[b][a] /\ (tag_fls'[b][a] <=> p.dat \in Flushing)
    <2>1. que_wb(wb, b) # {} /\ a = que_wb_id(wb, b) /\ (que_wb_fls(wb, b) <=> p.dat \in Flushing)
      BY <1>3, OnePort
    <2> QED
      BY <1>2, <2>1, Zenon
  <1>4. ASSUME \A p \in que_wb(wb, b) : p.id # a
        PROVE  ~(que_wb(wb, b) # {} /\ a = que_wb_id(wb, b))
    BY <1>4, OnePort
  <1> QED
    BY <1>2, <1>3, <1>4, Zenon

\* The tables stay tables of bits.
LEMMA TagsTyped ==
    ASSUME RobTyped, NEW ds, NEW wb, NEW refused, NEW n, NEW flush, Clock(ds, wb, refused, n, flush)
    PROVE  tag_rdy' \in [Banks -> [Addr -> BOOLEAN]] /\ tag_fls' \in [Banks -> [Addr -> BOOLEAN]]
  <1>1. ASSUME NEW tag \in [Banks -> [Addr -> BOOLEAN]], NEW b \in Banks, NEW push, NEW written \in BOOLEAN
        PROVE  TagNxt(tag, b, wb, push, written) \in [Addr -> BOOLEAN]
    BY Zenon DEF TagNxt
  <1>2. \A b \in Banks : que_wb_fls(wb, b) \in BOOLEAN
    BY DEF que_wb_fls
  <1>3. /\ tag_rdy' = [b \in Banks |-> TagNxt(tag_rdy, b, wb, Push(ds, b), TRUE)]
        /\ tag_fls' = [b \in Banks |-> TagNxt(tag_fls, b, wb, Push(ds, b), que_wb_fls(wb, b))]
    BY Zenon DEF Clock, Push
  <1> QED
    BY <1>1, <1>2, <1>3, Zenon DEF RobTyped

\* The k-th instruction of bank b after an edge without flush, of which j left
\* the bank: either it stays at its place, and its tags change only when it is
\* written back, or it has just entered and is not ready.
Survives(wb, b, k, j) ==
    /\ Place(que'[b], k) = Place(que[b], k + j) /\ que'[b].words[k + 1] = que[b].words[k + j + 1]
    /\ Place(que[b], k + j) \in Addr
    /\ Entry(b, k + j) \in que_wb(wb, b) =>
          tag_rdy'[b][Place(que[b], k + j)]
          /\ (tag_fls'[b][Place(que[b], k + j)] <=> que[b].words[k + j + 1] \in Flushing)
    /\ Entry(b, k + j) \notin que_wb(wb, b) =>
          /\ tag_rdy'[b][Place(que[b], k + j)] <=> tag_rdy[b][Place(que[b], k + j)]
          /\ tag_fls'[b][Place(que[b], k + j)] <=> tag_fls[b][Place(que[b], k + j)]

Enters(ds, b, k, j) ==
    /\ Push(ds, b) /\ k + j = Len(que[b].words)
    /\ Place(que'[b], k) = Low(que[b].w_ptr) /\ que'[b].words[k + 1] = Din(ds, b)
    /\ Low(que[b].w_ptr) \in Addr /\ ~tag_rdy'[b][Low(que[b].w_ptr)]

\* An instruction of the buffer after an edge without flush was there before or enters.
LEMMA EntriesMove ==
    ASSUME RobInv, NEW ds \in Pushes, NEW wb \in Writebacks, NEW refused, NEW n \in 0 .. BANKS,
           Clock(ds, wb, refused, n, FALSE), NEW b \in Banks, NEW k \in 0 .. Len(que'[b].words) - 1
    PROVE  LET j == Bit(Pop(n, b))
           IN  /\ k + j < Len(que[b].words) => Survives(wb, b, k, j)
               /\ k + j >= Len(que[b].words) => Enters(ds, b, k, j)
  <1>1. PICK j \in 0 .. 1 : j = Bit(Pop(n, b))
    BY DEF Bit
  <1>2. /\ BankOK(que[b]) /\ RobTyped
        /\ Push(ds, b) => FifoReady(que[b])
    <2>1. Len(ds) > 0 => rob_ready
      BY DEF Clock
    <2>2. n > 0 => cmt_valid(n - 1)
      BY DEF Clock
    <2> QED
      BY <2>1, <2>2, Guards DEF RobInv, RobTyped
  <1>3. Len(que[b].words) \in Nat /\ k \in Nat
    BY <1>2, BankFacts
  <1>4. /\ k + j < Len(que[b].words) => /\ Place(que'[b], k) = Place(que[b], k + j)
                                        /\ que'[b].words[k + 1] = que[b].words[k + j + 1]
        /\ k + j >= Len(que[b].words) => /\ Push(ds, b) /\ k + j = Len(que[b].words)
                                         /\ Place(que'[b], k) = Low(que[b].w_ptr)
                                         /\ que'[b].words[k + 1] = Din(ds, b)
    BY <1>1, BanksMove, Zenon DEF BankMoves
  <1>5. ASSUME k + j < Len(que[b].words) PROVE Survives(wb, b, k, j)
    <2>1. PICK m \in 0 .. Len(que[b].words) - 1 : m = k + j
      BY <1>3, <1>5
    <2>2. Place(que[b], m) \in Addr /\ (Push(ds, b) => Place(que[b], m) # Low(que[b].w_ptr))
      BY <1>2, AtItsPlace
    <2>3. ASSUME Entry(b, m) \in que_wb(wb, b)
          PROVE  tag_rdy'[b][Place(que[b], m)] /\ (tag_fls'[b][Place(que[b], m)] <=> que[b].words[m + 1] \in Flushing)
      <3>1. Entry(b, m).id = Place(que[b], m) /\ Entry(b, m).dat = que[b].words[m + 1]
        BY DEF Entry
      <3> QED
        BY <2>2, <2>3, <3>1, TagsMove, Zenon
    <2>4. ASSUME Entry(b, m) \notin que_wb(wb, b)
          PROVE  /\ tag_rdy'[b][Place(que[b], m)] <=> tag_rdy[b][Place(que[b], m)]
                 /\ tag_fls'[b][Place(que[b], m)] <=> tag_fls[b][Place(que[b], m)]
      <3>1. ASSUME NEW p \in que_wb(wb, b), p.id = Place(que[b], m) PROVE FALSE
        <4>1. PICK i \in 0 .. Len(que[b].words) - 1 : p = Entry(b, i)
          BY OnePort, Zenon
        <4>2. i = m
          BY <1>2, <3>1, <4>1, PlacesDiffer, Zenon DEF Entry
        <4> QED
          BY <2>4, <4>1, <4>2
      <3> QED
        BY <2>2, <3>1, TagsMove, Zenon
    <2> QED
      BY <1>4, <1>5, <2>1, <2>2, <2>3, <2>4, Zenon DEF Survives
  <1>6. ASSUME k + j >= Len(que[b].words) PROVE Enters(ds, b, k, j)
    <2>1. Push(ds, b) /\ FifoReady(que[b]) /\ Low(que[b].w_ptr) \in Addr
      <3>1. Len(que[b].words) \in 0 .. Depth
        BY <1>2, <1>3, Pointers, SMTT(20), Zenon DEF BankOK
      <3> QED
        BY <1>2, <1>4, <1>6, <3>1, BankFacts, Zenon
    <2>2. ASSUME NEW p \in que_wb(wb, b) PROVE p.id # Low(que[b].w_ptr)
      <3>1. PICK i \in 0 .. Len(que[b].words) - 1 : p = Entry(b, i)
        BY OnePort, SMTT(20)
      <3> QED
        BY <1>2, <2>1, <3>1, AtItsPlace DEF Entry
    <2>3. ~tag_rdy'[b][Low(que[b].w_ptr)]
      BY <2>1, <2>2, TagsMove, Zenon
    <2> QED
      BY <1>4, <1>6, <2>1, <2>3, Zenon DEF Enters
  <1> QED
    BY <1>1, <1>5, <1>6

\* An instruction that leaves has been written back, for the last time at this edge
\* if port 0 has to repeat it.
LEMMA LeftIsAccepted ==
    ASSUME RobInv, NEW wb \in Writebacks, NEW refused, refused => again = NoPlace,
           NEW b \in Banks, NEW j \in 0 .. Len(que[b].words) - 1,
           Entry(b, j) \in inflight, tag_rdy[b][Place(que[b], j)]
    PROVE  0 \in Ports /\ wb[0] = Entry(b, j) /\ wb_fire(wb, 0) /\ ~refused
  <1>0. PICK e \in Banks : \E i \in 0 .. Len(que[e].words) - 1 :
           Entry(b, j) = Entry(e, i) /\ (tag_rdy[e][Place(que[e], i)] => Entry(b, j) = again)
    BY DEF RobInv, Issued
  <1>1. PICK i \in 0 .. Len(que[e].words) - 1 :
           Entry(b, j) = Entry(e, i) /\ (tag_rdy[e][Place(que[e], i)] => Entry(b, j) = again)
    BY <1>0
  <1>2. e = b /\ Place(que[b], j) = Place(que[e], i)
    BY <1>1 DEF Entry
  <1>3. Entry(b, j) = again
    BY <1>1, <1>2
  <1>4. Entry(b, j) # NoPlace
    <2>1. que[b].words[j + 1] \in Data
      BY BankFacts DEF RobInv, RobTyped, BankOK
    <2> QED
      BY <2>1, FifoConstants DEF Entry, NoPlace
  <1>5. wb[0] = again /\ ~refused /\ 0 \in Ports
    BY <1>3, <1>4, InTurn DEF Writebacks
  <1>6. wb_ready(wb, 0)
    BY InTurn DEF wb_ready
  <1> QED
    BY <1>3, <1>4, <1>5, <1>6 DEF wb_fire

\* The flush tags stay those of the instructions.
LEMMA OwnTagsNext ==
    ASSUME RobInv, NEW ds \in Pushes, NEW wb \in Writebacks, NEW refused, NEW n \in 0 .. BANKS,
           Clock(ds, wb, refused, n, FALSE)
    PROVE  OwnTags'
  <1> SUFFICES ASSUME NEW b \in Banks, NEW k \in 0 .. Len(que'[b].words) - 1, tag_rdy'[b][Place(que'[b], k)]
               PROVE  tag_fls'[b][Place(que'[b], k)] <=> que'[b].words[k + 1] \in Flushing
    BY DEF OwnTags, Place
  <1>1. PICK j \in 0 .. 1 : j = Bit(Pop(n, b))
    BY DEF Bit
  <1>2. /\ k + j < Len(que[b].words) => Survives(wb, b, k, j)
        /\ k + j >= Len(que[b].words) => Enters(ds, b, k, j)
    BY <1>1, EntriesMove, Zenon
  <1>3. Len(que[b].words) \in Nat /\ k \in Nat
    BY BankFacts DEF RobInv, RobTyped
  <1>4. CASE k + j < Len(que[b].words)
    <2>1. k + j \in 0 .. Len(que[b].words) - 1
      BY <1>3, <1>4
    <2>2. tag_rdy[b][Place(que[b], k + j)] =>
             (tag_fls[b][Place(que[b], k + j)] <=> que[b].words[k + j + 1] \in Flushing)
      BY <2>1 DEF RobInv, OwnTags
    <2> QED
      BY <1>2, <1>4, <2>2, Zenon DEF Survives
  <1>5. CASE k + j >= Len(que[b].words)
    BY <1>2, <1>5, Zenon DEF Enters
  <1> QED
    BY <1>3, <1>4, <1>5

\* The length of each bank after an edge.
LEMMA Lengths ==
    ASSUME RobInv, NEW ds \in Pushes, NEW wb, NEW refused, NEW n \in 0 .. BANKS,
           Clock(ds, wb, refused, n, FALSE), NEW b \in Banks
    PROVE  /\ Len(que[b].words) \in Nat
           /\ Len(que'[b].words) = Len(que[b].words) + Bit(Push(ds, b)) - Bit(Pop(n, b))
           /\ BankOK(que'[b])
  <1>1. BankOK(que[b])
    BY DEF RobInv, RobTyped
  <1>2. BankMoves(que[b], que'[b], Push(ds, b), Pop(n, b), Din(ds, b), Bit(Push(ds, b)), Bit(Pop(n, b)))
    BY BanksMove, Zenon
  <1> QED
    BY <1>1, <1>2, BankFacts DEF BankMoves

\* The places given out stay those of instructions in the buffer.
LEMMA IssuedNext ==
    ASSUME RobInv, NEW ds \in Pushes, NEW wb \in Writebacks, NEW refused \in BOOLEAN, NEW n \in 0 .. BANKS,
           Clock(ds, wb, refused, n, FALSE)
    PROVE  Issued'
  <1> DEFINE Entered(b, k) == [bank |-> b, id |-> Place(que'[b], k), dat |-> que'[b].words[k + 1]]
  <1> SUFFICES ASSUME NEW p \in inflight'
               PROVE  \E b \in Banks : \E k \in 0 .. Len(que'[b].words) - 1 :
                          p = Entered(b, k) /\ (tag_rdy'[b][Place(que'[b], k)] => p = again')
    BY DEF Issued, Entry, Place
  <1>1. /\ inflight' = (inflight \ {wb[i] : i \in {i \in Ports : wb_fire(wb, i) /\ ~(i = 0 /\ refused)}}) \cup
                       {[bank |-> rob_free(k - 1).bank, id |-> rob_free(k - 1).id, dat |-> ds[k]] : k \in 1 .. Len(ds)}
        /\ again' = IF refused THEN wb[0] ELSE NoPlace
        /\ refused => again = NoPlace
        /\ Len(ds) > 0 => rob_ready
        /\ n > 0 => cmt_valid(n - 1)
    BY DEF Clock
  <1>2. \A b \in Banks : /\ Len(que[b].words) \in Nat
                         /\ Len(que'[b].words) = Len(que[b].words) + Bit(Push(ds, b)) - Bit(Pop(n, b))
    BY Lengths, Zenon
  <1>3. \A b \in Banks : Push(ds, b) \in BOOLEAN /\ Pop(n, b) \in BOOLEAN
                         /\ (Pop(n, b) => tag_rdy[b][Place(que[b], 0)])
    BY <1>1, Guards, Zenon
  <1>4. CASE p \in inflight /\ \A i \in Ports : wb_fire(wb, i) /\ ~(i = 0 /\ refused) => p # wb[i]
    <2>1. PICK b \in Banks : \E i \in 0 .. Len(que[b].words) - 1 : p = Entry(b, i)
      BY <1>4 DEF RobInv, Issued
    <2>2. PICK i \in 0 .. Len(que[b].words) - 1 : p = Entry(b, i)
      BY <2>1, Zenon
    <2>3. ~tag_rdy[b][Place(que[b], i)]
      BY <1>1, <1>4, <2>2, LeftIsAccepted
    <2>4. PICK j \in 0 .. 1 : j = Bit(Pop(n, b))
      BY DEF Bit
    <2>5. j = 1 => i # 0
      BY <1>3, <2>3, <2>4 DEF Bit
    <2>6. Bit(Push(ds, b)) \in 0 .. 1
      BY DEF Bit
    <2>7. PICK k \in 0 .. Len(que'[b].words) - 1 : k + j = i
      <3>1. /\ Len(que'[b].words) = Len(que[b].words) + Bit(Push(ds, b)) - j
            /\ Len(que[b].words) \in Nat
        BY <1>2, <2>4
      <3>2. i - j \in 0 .. Len(que'[b].words) - 1 /\ (i - j) + j = i
        BY <2>5, <2>6, <3>1
      <3> QED
        BY <3>2
    <2>8. k + j < Len(que[b].words)
      BY <1>2, <2>7
    <2>9. Survives(wb, b, k, j)
      BY <2>4, <2>8, EntriesMove, Zenon
    <2>10. p = Entered(b, k)
      BY <2>2, <2>7, <2>9, Zenon DEF Survives, Entry
    <2>11. ASSUME tag_rdy'[b][Place(que'[b], k)] PROVE p = again'
      <3>1. p \in que_wb(wb, b)
        BY <2>2, <2>3, <2>7, <2>9, <2>11 DEF Survives
      <3>2. PICK x \in Ports : p = wb[x] /\ wb_fire(wb, x)
        BY <3>1 DEF que_wb
      <3>3. x = 0 /\ refused
        BY <1>4, <3>2, Zenon
      <3> QED
        BY <1>1, <3>2, <3>3, Zenon
    <2> HIDE DEF Entered
    <2> QED
      BY <2>10, <2>11
  <1>5. ASSUME NEW m \in 1 .. Len(ds), p = [bank |-> rob_free(m - 1).bank, id |-> rob_free(m - 1).id, dat |-> ds[m]]
        PROVE  \E b \in Banks : \E k \in 0 .. Len(que'[b].words) - 1 :
                   p = Entered(b, k) /\ (tag_rdy'[b][Place(que'[b], k)] => p = again')
    <2>1. m \in 1 .. 2 /\ tail \in Banks /\ Len(ds) \in 0 .. 2
      BY Entering DEF RobInv, RobTyped
    <2>2. PICK b \in Banks : b = BankOf(tail, m - 1) /\ SlotOf(tail, b) = m - 1
      BY <2>1, InTurn
    <2>3. Push(ds, b) /\ Din(ds, b) = ds[m]
      BY <2>1, <2>2 DEF Push, Din
    <2>4. p = [bank |-> b, id |-> Low(que[b].w_ptr), dat |-> ds[m]]
      BY <1>5, <2>2 DEF rob_free
    <2>5. PICK j \in 0 .. 1 : j = Bit(Pop(n, b))
      BY DEF Bit
    <2>6. PICK k \in 0 .. Len(que'[b].words) - 1 : k + j = Len(que[b].words)
      <3>1. Bit(Push(ds, b)) = 1
        BY <2>3 DEF Bit
      <3>2. Len(que'[b].words) = Len(que[b].words) + 1 - j /\ Len(que[b].words) \in Nat
        BY <1>2, <2>5, <3>1
      <3>3. j = 1 => Len(que[b].words) # 0
        <4>1. Pop(n, b) => FifoValid(que[b])
          BY <1>1, Guards
        <4> QED
          BY <2>5, <4>1, BankFacts DEF Bit, RobInv, RobTyped
      <3>4. Len(que[b].words) - j \in 0 .. Len(que'[b].words) - 1 /\ (Len(que[b].words) - j) + j = Len(que[b].words)
        BY <3>2, <3>3
      <3> QED
        BY <3>4, Zenon
    <2>7. k + j >= Len(que[b].words)
      BY <1>2, <2>6
    <2>8. Enters(ds, b, k, j)
      BY <2>5, <2>7, EntriesMove, Zenon
    <2>9. p = Entered(b, k) /\ ~tag_rdy'[b][Place(que'[b], k)]
      BY <2>3, <2>4, <2>8 DEF Enters
    <2> HIDE DEF Entered
    <2> QED
      BY <2>9
  <1> HIDE DEF Entered
  <1> QED
    BY <1>1, <1>4, <1>5

\* The banks stay balanced.
LEMMA BalancedNext ==
    ASSUME RobInv, NEW ds \in Pushes, NEW wb, NEW refused, NEW n \in 0 .. BANKS,
           Clock(ds, wb, refused, n, FALSE)
    PROVE  Balanced' /\ head' \in Banks /\ tail' \in Banks
  <1>1. PICK h \in 0 .. 1, t \in 0 .. 1, m \in 0 .. 2 : head = h /\ tail = t /\ m = Len(ds)
    BY InTurn, Entering DEF RobInv, RobTyped
  <1>2. n \in 0 .. 2 /\ 0 \in Banks /\ 1 \in Banks /\ h \in Banks /\ t \in Banks
    <2>1. h \in {0, 1} /\ t \in {0, 1}
      BY TwoBanks, Zenon
    <2> QED
      BY <2>1, InTurn, Zenon
  <1>3. head' = BankOf(h, n) /\ tail' = BankOf(t, m)
    BY <1>1 DEF Clock, BankOf
  <1>4. /\ BankOf(h, n) = IF n = 1 THEN 1 - h ELSE h
        /\ BankOf(t, m) = IF m = 1 THEN 1 - t ELSE t
    BY <1>2, InTurn
  <1>5. PICK x \in Nat, y \in Nat : x = Len(que[0].words) /\ y = Len(que[1].words)
    BY <1>2, BankFacts DEF RobInv, RobTyped
  <1>6. \A b \in Banks : /\ Bit(Push(ds, b)) = IF (IF b = t THEN 0 ELSE 1) < m THEN 1 ELSE 0
                         /\ Bit(Pop(n, b)) = IF (IF b = h THEN 0 ELSE 1) < n THEN 1 ELSE 0
    BY <1>1, <1>2, InTurn DEF Bit, Push, Pop
  <1>7. /\ Len(que'[0].words) = x + Bit(Push(ds, 0)) - Bit(Pop(n, 0))
        /\ Len(que'[1].words) = y + Bit(Push(ds, 1)) - Bit(Pop(n, 1))
    BY <1>2, <1>5, Lengths, Zenon
  <1>8. (h = 0 => x = y + IF h = t THEN 0 ELSE 1) /\ (h = 1 => y = x + IF h = t THEN 0 ELSE 1)
    <2>1. Len(que[h].words) = Len(que[1 - h].words) + (IF h = t THEN 0 ELSE 1)
      BY <1>1, Zenon DEF RobInv, Balanced
    <2>2. (h = 0 => 1 - h = 1) /\ (h = 1 => 1 - h = 0)
      OBVIOUS
    <2> QED
      BY <1>5, <2>1, <2>2, Zenon
  <1>9. /\ Len(que'[0].words) = x + (IF (IF 0 = t THEN 0 ELSE 1) < m THEN 1 ELSE 0) - (IF (IF 0 = h THEN 0 ELSE 1) < n THEN 1 ELSE 0)
        /\ Len(que'[1].words) = y + (IF (IF 1 = t THEN 0 ELSE 1) < m THEN 1 ELSE 0) - (IF (IF 1 = h THEN 0 ELSE 1) < n THEN 1 ELSE 0)
    BY <1>2, <1>6, <1>7
  <1>10. PICK h2 \in 0 .. 1, t2 \in 0 .. 1 : h2 = (IF n = 1 THEN 1 - h ELSE h) /\ t2 = IF m = 1 THEN 1 - t ELSE t
    OBVIOUS
  <1>11. PICK x2, y2 : x2 = Len(que'[0].words) /\ y2 = Len(que'[1].words)
    BY Zenon
  <1>12. (h2 = 0 => x2 = y2 + IF h2 = t2 THEN 0 ELSE 1) /\ (h2 = 1 => y2 = x2 + IF h2 = t2 THEN 0 ELSE 1)
    <2>1. /\ x2 = x + (IF (IF 0 = t THEN 0 ELSE 1) < m THEN 1 ELSE 0) - (IF (IF 0 = h THEN 0 ELSE 1) < n THEN 1 ELSE 0)
          /\ y2 = y + (IF (IF 1 = t THEN 0 ELSE 1) < m THEN 1 ELSE 0) - (IF (IF 1 = h THEN 0 ELSE 1) < n THEN 1 ELSE 0)
      BY <1>9, <1>11
    <2>2. n \in 0 .. 2
      BY <1>2
    <2>3. CASE h = 0 /\ t = 0
      BY <1>8, <1>10, <2>1, <2>2, <2>3
    <2>4. CASE h = 0 /\ t = 1
      BY <1>8, <1>10, <2>1, <2>2, <2>4
    <2>5. CASE h = 1 /\ t = 0
      BY <1>8, <1>10, <2>1, <2>2, <2>5
    <2>6. CASE h = 1 /\ t = 1
      BY <1>8, <1>10, <2>1, <2>2, <2>6
    <2> QED
      BY <2>3, <2>4, <2>5, <2>6
  <1>13. head' = h2 /\ tail' = t2
    BY <1>3, <1>4, <1>10
  <1>14. Len(que'[h2].words) = Len(que'[1 - h2].words) + (IF h2 = t2 THEN 0 ELSE 1)
    <2>1. CASE h2 = 0
      <3>1. 1 - h2 = 1
        BY <2>1
      <3> QED
        BY <1>11, <1>12, <2>1, <3>1, Zenon
    <2>2. CASE h2 = 1
      <3>1. 1 - h2 = 0
        BY <2>2
      <3> QED
        BY <1>11, <1>12, <2>2, <3>1, Zenon
    <2>3. h2 = 0 \/ h2 = 1
      OBVIOUS
    <2> QED
      BY <2>1, <2>2, <2>3, Zenon
  <1> QED
    BY <1>13, <1>14, InTurn DEF Balanced

\* A flush leaves nothing to go wrong.
LEMMA FlushedHolds ==
    ASSUME RobInv, NEW ds, NEW wb, NEW refused, NEW n, Clock(ds, wb, refused, n, TRUE)
    PROVE  RobInv' /\ \A b \in Banks : que'[b].words = << >>
  <1>1. /\ head' = 0 /\ tail' = 0 /\ inflight' = {}
        /\ \A b \in Banks : \E push, pop, din : que'[b] = BankNext(que[b], push, din, pop, TRUE)
    BY Zenon DEF Clock
  <1>2. \A b \in Banks : BankOK(que'[b]) /\ que'[b].words = << >> /\ Len(que'[b].words) = 0
    <2> TAKE b \in Banks
    <2>1. PICK push, pop, din : que'[b] = BankNext(que[b], push, din, pop, TRUE)
      BY <1>1, Zenon
    <2>2. BankOK(que'[b]) /\ que'[b].words = << >>
      BY <2>1, BankFlush, Zenon
    <2> QED
      BY <2>2
  <1>3. tag_rdy' \in [Banks -> [Addr -> BOOLEAN]] /\ tag_fls' \in [Banks -> [Addr -> BOOLEAN]]
    BY TagsTyped, Zenon DEF RobInv
  <1>4. RobTyped' /\ Balanced'
    BY <1>1, <1>2, <1>3, InTurn DEF RobTyped, Balanced
  <1>5. Issued' /\ OwnTags'
    BY <1>1, <1>2 DEF Issued, OwnTags
  <1> QED
    BY <1>2, <1>4, <1>5, SMTT(20) DEF RobInv

\* The invariant of rob.v is inductive.
LEMMA RobNext == RobInv /\ [Next]_vars => RobInv'
  <1> SUFFICES ASSUME RobInv, [Next]_vars PROVE RobInv'
    OBVIOUS
  <1>1. CASE UNCHANGED vars
    BY <1>1, Zenon DEF vars, RobInv, RobTyped, Balanced, Issued, OwnTags, Entry
  <1>2. CASE Next
    <2>1. PICK ds \in Pushes, wb \in Writebacks, refused \in BOOLEAN, flush \in BOOLEAN, n \in 0 .. BANKS :
             Clock(ds, wb, refused, n, flush)
      BY <1>2 DEF Next
    <2>2. CASE flush
      <3>1. Clock(ds, wb, refused, n, TRUE)
        BY <2>1, <2>2, Zenon
      <3> QED
        BY <3>1, FlushedHolds, Zenon
    <2>3. CASE ~flush
      <3>1. Clock(ds, wb, refused, n, FALSE)
        BY <2>1, <2>3, Zenon
      <3>2. \A b \in Banks : BankOK(que'[b])
        BY <3>1, Lengths, Zenon
      <3>3. tag_rdy' \in [Banks -> [Addr -> BOOLEAN]] /\ tag_fls' \in [Banks -> [Addr -> BOOLEAN]]
        BY <3>1, TagsTyped, Zenon DEF RobInv
      <3>4. Balanced' /\ head' \in Banks /\ tail' \in Banks
        BY <3>1, BalancedNext, Zenon
      <3>5. Issued' /\ OwnTags'
        BY <3>1, IssuedNext, OwnTagsNext, Zenon
      <3> QED
        BY <3>2, <3>3, <3>4, <3>5 DEF RobInv, RobTyped
    <2> QED
      BY <2>2, <2>3
  <1> QED
    BY <1>1, <1>2

\* After reset both banks are empty.
LEMMA RobReset == Init => RobInv /\ \A b \in Banks : que[b].words = << >>
  <1> SUFFICES ASSUME Init PROVE RobInv /\ \A b \in Banks : que[b].words = << >>
    OBVIOUS
  <1>1. \A b \in Banks : que[b].w_ptr = 0 /\ que[b].r_ptr = 0 /\ que[b].words = << >>
    BY DEF Init
  <1>2. 0 \in Ptr /\ Depth \in Nat
    BY Pointers
  <1>3. \A b \in Banks : BankOK(que[b]) /\ Len(que[b].words) = 0
    <2> TAKE b \in Banks
    <2>1. FifoCount(que[b]) = 0
      BY <1>1, <1>2, Counts
    <2>2. << >> \in Seq(Data) /\ Len(<< >>) = 0 /\ 0 <= Depth
      BY <1>2, EmptySeq
    <2> QED
      BY <1>1, <1>2, <2>1, <2>2, Zenon DEF BankOK
  <1>4. RobTyped /\ Balanced
    BY <1>3, InTurn DEF Init, RobTyped, Balanced
  <1> QED
    BY <1>1, <1>3, <1>4 DEF Init, RobInv, Issued, OwnTags

\* The invariant holds in every reachable state of the reorder buffer.
THEOREM RobInvariant == Spec => []RobInv
  BY RobReset, RobNext, PTL DEF Spec

\* cmt_fls and the result that rob.v shows with it are those of the instruction at
\* the head, for every depth: neither a bank conflict, nor a write that wb_mux.v
\* makes port 0 repeat, nor a place used before gives it the result of another.
THEOREM CommitsOwnResultHolds == Spec => []CommitsOwnResult
  <1>1. RobInv => CommitsOwnResult
    <2> SUFFICES ASSUME RobInv, NEW i \in Ports, cmt_valid(i) PROVE cmt_fls(i) <=> cmt_dat(i) \in Flushing
      BY DEF CommitsOwnResult
    <2>1. PICK b \in Banks : b = BankOf(head, i)
      BY InTurn DEF RobInv, RobTyped
    <2>2. FifoValid(que[b]) /\ tag_rdy[b][rptr(b)]
      BY <2>1, InTurn DEF cmt_valid, ent_valid
    <2>3. /\ que[b].words \in Seq(Data) /\ Len(que[b].words) \in Nat /\ Len(que[b].words) # 0
          /\ Place(que[b], 0) = rptr(b)
      BY <2>2, BankFacts DEF RobInv, RobTyped, BankOK, rptr
    <2>4. 0 \in 0 .. Len(que[b].words) - 1 /\ Head(que[b].words) = que[b].words[0 + 1]
      BY <2>3
    <2>5. tag_fls[b][rptr(b)] <=> que[b].words[0 + 1] \in Flushing
      BY <2>2, <2>3, <2>4 DEF RobInv, OwnTags
    <2> QED
      BY <2>1, <2>4, <2>5, Zenon DEF cmt_fls, cmt_dat
  <1> QED
    BY <1>1, RobInvariant, PTL
-----------------------------------------------------------------------------

\* Every number is even or odd.
LEMMA Halves ==
    ASSUME NEW k \in Nat
    PROVE  \E d \in Nat, r \in 0 .. 1 : k = 2 * d + r
  <1>1. k \div 2 \in Int /\ k \div 2 >= 0
    BY SMT
  <1>2. k = 2 * (k \div 2) + 0 \/ k = 2 * (k \div 2) + 1
    BY SMT
  <1> QED
    BY <1>1, <1>2

\* The banks seen as one sequence: instruction k, counted from the head, is
\* instruction k \div 2 of its bank, and in the buffer exactly when its bank holds it.
LEMMA Spread ==
    ASSUME NEW h \in 0 .. 1, NEW t \in 0 .. 1, NEW x \in Nat, NEW y \in Nat, NEW k \in Nat,
           h = 0 => x = y + (IF h = t THEN 0 ELSE 1), h = 1 => y = x + (IF h = t THEN 0 ELSE 1)
    PROVE  /\ (h + k) % 2 \in 0 .. 1 /\ k \div 2 \in Nat
           /\ k < x + y <=> k \div 2 < IF (h + k) % 2 = 0 THEN x ELSE y
           /\ (h + (x + y)) % 2 = t
  <1>1. PICK d \in Nat, r \in 0 .. 1 : k = 2 * d + r
    BY Halves
  <1>2. k \div 2 = d
    BY <1>1
  <1>3. CASE h = 0
    <2>1. (h + k) % 2 = r
      BY <1>1, <1>3
    <2>2. (h + (x + y)) % 2 = t
      BY <1>3
    <2> QED
      BY <1>1, <1>2, <1>3, <2>1, <2>2
  <1>4. CASE h = 1
    <2>1. (h + k) % 2 = 1 - r
      BY <1>1, <1>4
    <2>2. (h + (x + y)) % 2 = t
      BY <1>4
    <2> QED
      BY <1>1, <1>2, <1>4, <2>1, <2>2
  <1> QED
    BY <1>3, <1>4

\* The bank and the place in it of instruction k, once n older ones left: those that
\* instruction K = k + n had.
LEMMA Advances ==
    ASSUME NEW h \in 0 .. 1, NEW n \in 0 .. 2, NEW k \in Nat, NEW h2 \in 0 .. 1,
           h2 = (IF n = 1 THEN 1 - h ELSE h), NEW K \in Nat, K = k + n
    PROVE  /\ (h2 + k) % 2 = (h + K) % 2
           /\ k \div 2 + (IF (IF (h2 + k) % 2 = h THEN 0 ELSE 1) < n THEN 1 ELSE 0) = K \div 2
  <1>1. PICK d \in Nat, r \in 0 .. 1 : k = 2 * d + r
    BY Halves, Zenon
  <1>2. k \div 2 = d
    BY <1>1
  <1>3. (h2 + k) % 2 = (h + K) % 2
    <2>1. CASE n = 0
      BY <2>1
    <2>2. CASE n = 1
      <3>1. CASE h = 0
        BY <2>2, <3>1
      <3>2. CASE h = 1
        BY <1>1, <2>2, <3>2
      <3> QED
        BY <3>1, <3>2
    <2>3. CASE n = 2
      BY <1>1, <2>3
    <2> QED
      BY <2>1, <2>2, <2>3
  <1>4. (h2 + k) % 2 = IF h2 = 0 THEN r ELSE 1 - r
    BY <1>1
  <1>5. K \div 2 = d + (IF r + n >= 2 THEN 1 ELSE 0)
    BY <1>1
  <1>6. (IF (IF (IF h2 = 0 THEN r ELSE 1 - r) = h THEN 0 ELSE 1) < n THEN 1 ELSE 0) = (IF r + n >= 2 THEN 1 ELSE 0)
    BY <1>1
  <1> QED
    BY <1>2, <1>3, <1>4, <1>5, <1>6

\* The same of two banks f that hold instructions in turn, from bank h up to bank t.
Evenly(f, h, t) ==
    /\ \A b \in Banks : BankOK(f[b])
    /\ Len(f[h].words) = Len(f[1 - h].words) + (IF h = t THEN 0 ELSE 1)

InSequence(f, h, t, total, k) ==
    /\ total \in Nat /\ BankOf(h, total) = t
    /\ total = Len(f[0].words) + Len(f[1].words)
    /\ BankOf(h, k) \in Banks /\ k \div 2 \in Nat
    /\ k < total <=> k \div 2 < Len(f[BankOf(h, k)].words)

LEMMA Turns ==
    ASSUME NEW f, NEW h \in Banks, NEW t \in Banks, Evenly(f, h, t),
           NEW total, total = FifoCount(f[0]) + FifoCount(f[1]), NEW k \in Nat
    PROVE  InSequence(f, h, t, total, k)
  <1> USE DEF Evenly
  <1>1. Banks = {0, 1} /\ h \in 0 .. 1 /\ t \in 0 .. 1
    BY InTurn
  <1>2. PICK x \in Nat, y \in Nat : x = Len(f[0].words) /\ y = Len(f[1].words)
    BY <1>1, BankFacts
  <1>3. FifoCount(f[0]) = x /\ FifoCount(f[1]) = y
    BY <1>1, <1>2 DEF BankOK
  <1>4. (h = 0 => x = y + IF h = t THEN 0 ELSE 1) /\ (h = 1 => y = x + IF h = t THEN 0 ELSE 1)
    <2>1. (h = 0 => 1 - h = 1) /\ (h = 1 => 1 - h = 0)
      BY <1>1
    <2> QED
      BY <1>2, <2>1, Zenon
  <1>5. /\ (h + k) % 2 \in 0 .. 1 /\ k \div 2 \in Nat
        /\ k < x + y <=> k \div 2 < IF (h + k) % 2 = 0 THEN x ELSE y
        /\ (h + (x + y)) % 2 = t
    BY <1>1, <1>4, Spread
  <1>6. BankOf(h, k) = (h + k) % 2 /\ BankOf(h, x + y) = (h + (x + y)) % 2
    BY InTurn DEF BankOf
  <1>7. Len(f[BankOf(h, k)].words) = IF (h + k) % 2 = 0 THEN x ELSE y
    BY <1>2, <1>5, <1>6
  <1>8. x + y \in Nat /\ total = x + y
    BY <1>3
  <1>9. total = Len(f[0].words) + Len(f[1].words)
    BY <1>2, <1>8, Zenon
  <1>10. k < total <=> k \div 2 < Len(f[BankOf(h, k)].words)
    BY <1>5, <1>7, <1>8
  <1>11. BankOf(h, total) = t /\ BankOf(h, k) \in Banks
    <2>1. {0, 1} = 0 .. 1
      OBVIOUS
    <2> QED
      BY <1>1, <1>5, <1>6, <1>8, <2>1, Zenon
  <1> QED
    BY <1>5, <1>8, <1>9, <1>10, <1>11, Zenon DEF InSequence

\* Instruction k of the buffer, as InOrderBuffer has it.
Slot(k) == [dat |-> EntryDat(k), done |-> tag_rdy[EntryBank(k)][EntryAddr(k)]]

\* What the buffer holds.
LEMMA Holding ==
    ASSUME RobInv
    PROVE  /\ Occupied \in Nat /\ BankOf(head, Occupied) = tail
           /\ Occupied = Len(que[0].words) + Len(que[1].words)
           /\ \A k \in Nat : /\ EntryBank(k) \in Banks /\ k \div 2 \in Nat
                             /\ k < Occupied <=> k \div 2 < Len(que[EntryBank(k)].words)
                             /\ EntryAddr(k) = Place(que[EntryBank(k)], k \div 2)
                             /\ EntryDat(k) = que[EntryBank(k)].words[k \div 2 + 1]
  <1>1. head \in Banks /\ tail \in Banks /\ Evenly(que, head, tail)
    BY DEF RobInv, RobTyped, Balanced, Evenly
  <1>2. \A k \in Nat : InSequence(que, head, tail, Occupied, k)
    BY <1>1, Turns DEF Occupied
  <1>3. \A k \in Nat : /\ EntryAddr(k) = Place(que[EntryBank(k)], k \div 2)
                       /\ EntryDat(k) = que[EntryBank(k)].words[k \div 2 + 1]
    BY InTurn DEF EntryAddr, EntryDat, Place
  <1>4. 0 \in Nat
    OBVIOUS
  <1> QED
    BY <1>2, <1>3, <1>4, Zenon DEF InSequence, EntryBank

\* The same after an edge.
LEMMA HoldingNext ==
    ASSUME RobInv'
    PROVE  /\ Occupied' \in Nat
           /\ Occupied' = Len(que'[0].words) + Len(que'[1].words)
           /\ \A k \in Nat : /\ k \div 2 \in Nat /\ BankOf(head', k) \in Banks
                             /\ k < Occupied' <=> k \div 2 < Len(que'[BankOf(head', k)].words)
                             /\ Slot(k)' = [dat |-> que'[BankOf(head', k)].words[k \div 2 + 1],
                                            done |-> tag_rdy'[BankOf(head', k)][Place(que'[BankOf(head', k)], k \div 2)]]
  <1>1. head' \in Banks /\ tail' \in Banks /\ Evenly(que', head', tail')
    BY DEF RobInv, RobTyped, Balanced, Evenly
  <1>2. \A k \in Nat : InSequence(que', head', tail', Occupied', k)
    <2>1. Occupied' = FifoCount(que'[0]) + FifoCount(que'[1])
      BY DEF Occupied, FifoCount
    <2> QED
      BY <1>1, <2>1, Turns
  <1>3. \A k \in Nat : Slot(k)' = [dat |-> que'[BankOf(head', k)].words[k \div 2 + 1],
                                   done |-> tag_rdy'[BankOf(head', k)][Place(que'[BankOf(head', k)], k \div 2)]]
    BY InTurn DEF Slot, EntryBank, EntryAddr, EntryDat, Place, BankOf
  <1>4. 0 \in Nat
    OBVIOUS
  <1> QED
    BY <1>2, <1>3, <1>4, Zenon DEF InSequence

\* A sequence that drops its n first elements and takes on those of f.
LEMMA Rebuilt ==
    ASSUME NEW S, NEW N \in Nat, NEW n \in 0 .. N, NEW m \in Nat,
           NEW a \in [1 .. N -> S], NEW f \in [1 .. m -> S], NEW r \in [1 .. N - n + m -> S],
           \A k \in 1 .. N - n + m : r[k] = IF k <= N - n THEN a[k + n] ELSE f[k - (N - n)]
    PROVE  r = SubSeq(a, n + 1, N) \o f
  <1>1. PICK c \in Nat : c = N - n
    OBVIOUS
  <1>2. f \in Seq(S) /\ Len(f) = m
    OBVIOUS
  <1>3. r \in Seq(S) /\ Len(r) = c + m
    <2>1. c + m \in Nat /\ r \in [1 .. c + m -> S]
      BY <1>1
    <2> QED
      BY <2>1
  <1>4. PICK u : u = SubSeq(a, n + 1, N)
    BY Zenon
  <1>5. u \in Seq(S) /\ Len(u) = c /\ \A i \in 1 .. c : u[i] = a[i + n]
    <2>1. \A i \in n + 1 .. N : a[i] \in S
      OBVIOUS
    <2>2. /\ u \in Seq(S) /\ Len(u) = (IF n + 1 <= N THEN N - (n + 1) + 1 ELSE 0)
          /\ \A i \in 1 .. N - (n + 1) + 1 : u[i] = a[n + 1 + i - 1]
      <3>1. n + 1 \in Int /\ N \in Int
        OBVIOUS
      <3> QED
        BY <1>4, <2>1, <3>1, SubSeqProperties
    <2>3. N - (n + 1) + 1 = c /\ (IF n + 1 <= N THEN N - (n + 1) + 1 ELSE 0) = c
      BY <1>1
    <2>4. \A i \in 1 .. c : n + 1 + i - 1 = i + n
      BY <1>1
    <2> QED
      BY <2>2, <2>3, <2>4
  <1>6. /\ u \o f \in Seq(S) /\ Len(u \o f) = c + m
        /\ \A i \in 1 .. c + m : (u \o f)[i] = IF i <= c THEN u[i] ELSE f[i - c]
    BY <1>2, <1>5, ConcatProperties, Zenon
  <1>7. \A i \in 1 .. c + m : r[i] = (u \o f)[i]
    <2> TAKE i \in 1 .. c + m
    <2>1. r[i] = IF i <= c THEN a[i + n] ELSE f[i - c]
      BY <1>1
    <2>2. i <= c => u[i] = a[i + n]
      BY <1>5
    <2> QED
      BY <1>6, <2>1, <2>2, Zenon
  <1>8. r = u \o f
    BY <1>3, <1>6, <1>7, SeqEqual, Zenon
  <1> QED
    BY <1>4, <1>8

\* The number of instructions in the buffer.
LEMMA Sizes ==
    ASSUME RobInv, RobInv', NEW ds \in Pushes, NEW wb, NEW refused, NEW n \in 0 .. BANKS,
           Clock(ds, wb, refused, n, FALSE)
    PROVE  /\ Occupied' = Occupied - n + Len(ds) /\ n <= Occupied
           /\ Occupied + Len(ds) <= BANKS * Depth
  <1>1. PICK h \in 0 .. 1, t \in 0 .. 1, m \in 0 .. 2 : head = h /\ tail = t /\ m = Len(ds)
    BY InTurn, Entering DEF RobInv, RobTyped
  <1>2. n \in 0 .. 2 /\ 0 \in Banks /\ 1 \in Banks /\ h \in Banks /\ t \in Banks /\ BANKS = 2 /\ Depth \in Nat
    BY InTurn, Pointers, SMTT(20), Zenon
  <1>3. (Len(ds) > 0 => rob_ready) /\ (n > 0 => cmt_valid(n - 1))
    BY DEF Clock
  <1>4. \A b \in Banks : /\ Bit(Push(ds, b)) = IF (IF b = t THEN 0 ELSE 1) < m THEN 1 ELSE 0
                         /\ Bit(Pop(n, b)) = IF (IF b = h THEN 0 ELSE 1) < n THEN 1 ELSE 0
    BY <1>1, <1>2, InTurn DEF Bit, Push, Pop
  <1>5. PICK i0 \in 0 .. 1, i1 \in 0 .. 1, j0 \in 0 .. 1, j1 \in 0 .. 1 :
           /\ i0 = Bit(Push(ds, 0)) /\ i1 = Bit(Push(ds, 1)) /\ j0 = Bit(Pop(n, 0)) /\ j1 = Bit(Pop(n, 1))
    BY DEF Bit
  <1>6. i0 + i1 = m /\ j0 + j1 = n
    <2>1. /\ i0 = (IF (IF 0 = t THEN 0 ELSE 1) < m THEN 1 ELSE 0) /\ i1 = (IF (IF 1 = t THEN 0 ELSE 1) < m THEN 1 ELSE 0)
          /\ j0 = (IF (IF 0 = h THEN 0 ELSE 1) < n THEN 1 ELSE 0) /\ j1 = (IF (IF 1 = h THEN 0 ELSE 1) < n THEN 1 ELSE 0)
      BY <1>2, <1>4, <1>5
    <2>2. n \in 0 .. 2
      BY <1>2
    <2> QED
      BY <2>1, <2>2
  <1>7. ASSUME NEW b \in Banks, NEW i \in 0 .. 1, NEW j \in 0 .. 1, i = Bit(Push(ds, b)), j = Bit(Pop(n, b))
        PROVE  /\ Len(que[b].words) \in Nat /\ Len(que'[b].words) = Len(que[b].words) + i - j
               /\ Len(que[b].words) + i <= Depth /\ j <= Len(que[b].words)
    <2>1. /\ Len(que[b].words) \in Nat /\ Len(que[b].words) <= Depth
          /\ FifoValid(que[b]) <=> Len(que[b].words) # 0
          /\ FifoReady(que[b]) <=> Len(que[b].words) < Depth
      BY BankFacts, Zenon DEF RobInv, RobTyped, BankOK
    <2>2. (Push(ds, b) => FifoReady(que[b])) /\ (Pop(n, b) => FifoValid(que[b]))
      BY <1>3, Guards
    <2>3. Len(que'[b].words) = Len(que[b].words) + i - j
      BY <1>7, Lengths, Zenon
    <2>4. (i = 1 => Push(ds, b)) /\ (j = 1 => Pop(n, b))
      BY <1>7 DEF Bit
    <2> QED
      BY <1>2, <2>1, <2>2, <2>3, <2>4, SMTT(20)
  <1>8. PICK x \in Nat, y \in Nat : x = Len(que[0].words) /\ y = Len(que[1].words)
    BY <1>2, <1>5, <1>7, Zenon
  <1>9. /\ Len(que'[0].words) = x + i0 - j0 /\ Len(que'[1].words) = y + i1 - j1
        /\ x + i0 <= Depth /\ y + i1 <= Depth /\ j0 <= x /\ j1 <= y
    <2>1. Len(que'[0].words) = x + i0 - j0 /\ x + i0 <= Depth /\ j0 <= x
      BY <1>2, <1>5, <1>7, <1>8, ZenonT(40)
    <2>2. Len(que'[1].words) = y + i1 - j1 /\ y + i1 <= Depth /\ j1 <= y
      BY <1>2, <1>5, <1>7, <1>8, ZenonT(40)
    <2> QED
      BY <2>1, <2>2, Zenon
  <1>10. Occupied = x + y /\ Occupied' = (x + i0 - j0) + (y + i1 - j1)
    BY <1>8, <1>9, Holding, HoldingNext
  <1>11. Len(ds) = m /\ BANKS * Depth = Depth + Depth
    BY <1>1, <1>2
  <1> QED
    BY <1>2, <1>6, <1>9, <1>10, <1>11

\* What wb writes back of the instructions in the buffer.
Written(wb, k) == Entry(EntryBank(k), k \div 2) \in que_wb(wb, EntryBank(k))

\* Instruction k after an edge is instruction K before it, completed if it was or is
\* written back, or one that enters in its turn.
SlotMoved(ds, wb, k, K) ==
    /\ K < Occupied => Slot(k)' = [dat |-> EntryDat(K), done |-> Slot(K).done \/ Written(wb, K)]
    /\ K >= Occupied => Slot(k)' = [dat |-> ds[K - Occupied + 1], done |-> FALSE]

\* When n instructions leave, instruction k is the one that was k + n.
LEMMA SlotMoves ==
    ASSUME RobInv, RobInv', NEW ds \in Pushes, NEW wb \in Writebacks, NEW refused, NEW n \in 0 .. BANKS,
           Clock(ds, wb, refused, n, FALSE), NEW k \in Nat, k < Occupied',
           NEW K \in Nat, K = k + n
    PROVE  SlotMoved(ds, wb, k, K)
  <1>1. PICK h \in 0 .. 1, t \in 0 .. 1 : head = h /\ tail = t
    BY InTurn DEF RobInv, RobTyped
  <1>2. n \in 0 .. 2 /\ h \in Banks /\ t \in Banks /\ BANKS = 2
    BY InTurn
  <1>3. PICK h2 \in 0 .. 1 : h2 = (IF n = 1 THEN 1 - h ELSE h) /\ head' = h2
    <2>1. head' = BankOf(h, n)
      BY <1>1, Zenon DEF Clock, BankOf
    <2>2. BankOf(h, n) = IF n = 1 THEN 1 - h ELSE h
      BY <1>2, InTurn
    <2>3. (IF n = 1 THEN 1 - h ELSE h) \in 0 .. 1
      OBVIOUS
    <2> QED
      BY <2>1, <2>2, <2>3, Zenon
  <1>4. PICK N \in Nat : N = Occupied /\ BankOf(h, N) = t
    BY <1>1, Holding, Zenon
  <1>5. PICK b \in Banks : b = BankOf(head', k)
    BY HoldingNext, Zenon
  <1>6. b = EntryBank(K)
    <2>1. n \in 0 .. 2 /\ h2 = IF n = 1 THEN 1 - h ELSE h
      BY <1>2, <1>3
    <2>2. (h2 + k) % 2 = (h + K) % 2
      BY <2>1, Advances
    <2> QED
      BY <1>1, <1>2, <1>3, <1>5, <2>2 DEF BankOf, EntryBank
  <1>7. PICK j \in 0 .. 1 : j = Bit(Pop(n, b))
    BY DEF Bit
  <1>8. k \div 2 + j = K \div 2
    <2>1. j = IF (IF b = h THEN 0 ELSE 1) < n THEN 1 ELSE 0
      BY <1>1, <1>2, <1>7, InTurn DEF Bit, Pop
    <2>2. b = (h2 + k) % 2
      BY <1>2, <1>3, <1>5 DEF BankOf
    <2> QED
      BY <1>2, <1>3, <2>1, <2>2, Advances
  <1>9. PICK d \in Nat : d = k \div 2
    BY HoldingNext
  <1>10. /\ d \in 0 .. Len(que'[b].words) - 1
         /\ Slot(k)' = [dat |-> que'[b].words[d + 1], done |-> tag_rdy'[b][Place(que'[b], d)]]
    <2>1. d < Len(que'[b].words) /\ Slot(k)' = [dat |-> que'[b].words[d + 1], done |-> tag_rdy'[b][Place(que'[b], d)]]
      BY <1>5, <1>9, HoldingNext, Zenon
    <2>2. Len(que'[b].words) \in Nat
      BY BankFacts DEF RobInv, RobTyped
    <2> QED
      BY <2>1, <2>2
  <1>11. /\ d + j = K \div 2 /\ (K < Occupied <=> d + j < Len(que[b].words)) /\ Len(que[b].words) \in Nat
         /\ EntryAddr(K) = Place(que[b], d + j) /\ EntryDat(K) = que[b].words[d + j + 1]
    BY <1>6, <1>8, <1>9, Holding, BankFacts, Zenon DEF RobInv, RobTyped
  <1>12. /\ tag_rdy \in [Banks -> [Addr -> BOOLEAN]]
         /\ tag_rdy' \in [Banks -> [Addr -> BOOLEAN]]
    BY DEF RobInv, RobTyped
  <1>13. ASSUME K < Occupied
         PROVE  Slot(k)' = [dat |-> EntryDat(K), done |-> Slot(K).done \/ Written(wb, K)]
    <2>1. Survives(wb, b, d, j)
      BY <1>7, <1>10, <1>11, <1>13, EntriesMove, ZenonT(40)
    <2>2. PICK p \in Addr : p = Place(que[b], d + j)
      BY <2>1 DEF Survives
    <2>3. Slot(k)' = [dat |-> EntryDat(K), done |-> tag_rdy'[b][p]]
      BY <1>10, <1>11, <2>1, <2>2, Zenon DEF Survives
    <2>4. Slot(K).done = tag_rdy[b][p]
      BY <1>6, <1>11, <2>2 DEF Slot
    <2>5. Written(wb, K) <=> Entry(b, d + j) \in que_wb(wb, b)
      BY <1>6, <1>11, Zenon DEF Written
    <2>6. tag_rdy'[b][p] \in BOOLEAN /\ tag_rdy[b][p] \in BOOLEAN
      BY <1>12
    <2>7. /\ Written(wb, K) => tag_rdy'[b][p]
          /\ ~Written(wb, K) => (tag_rdy'[b][p] <=> tag_rdy[b][p])
      BY <2>1, <2>2, <2>5, Zenon DEF Survives
    <2>8. tag_rdy'[b][p] <=> Slot(K).done \/ Written(wb, K)
      BY <2>4, <2>7, Zenon
    <2>9. tag_rdy'[b][p] = (Slot(K).done \/ Written(wb, K))
      BY <2>6, <2>8, Zenon
    <2> QED
      BY <2>3, <2>9, Zenon
  <1>14. ASSUME K >= Occupied
         PROVE  Slot(k)' = [dat |-> ds[K - Occupied + 1], done |-> FALSE]
    <2>1. d + j >= Len(que[b].words)
      BY <1>4, <1>11, <1>14
    <2>2. Enters(ds, b, d, j)
      BY <1>7, <1>10, <2>1, EntriesMove, Zenon
    <2>3. PICK e \in Nat : e = K - N /\ K = N + e
      BY <1>4, <1>14
    <2>4. e \in 0 .. 1
      <3>1. PICK N2 \in Nat, m \in 0 .. 2 : N2 = Occupied' /\ m = Len(ds)
        <4>1. Occupied' \in Nat
          BY HoldingNext, Zenon
        <4>2. Len(ds) \in 0 .. 2
          BY Entering
        <4> QED
          BY <4>1, <4>2, Zenon
      <3>2. Occupied' = Occupied - n + Len(ds)
        BY Sizes, Zenon
      <3>3. N2 = N - n + m
        BY <1>4, <3>1, <3>2, Zenon
      <3>4. k < N2 /\ n \in Int
        BY <1>2, <3>1
      <3> QED
        BY <2>3, <3>3, <3>4
    <2>5. b = BankOf(t, e)
      <3>1. b = (h + K) % 2 /\ t = (h + N) % 2 /\ K = N + e
        BY <1>1, <1>2, <1>4, <1>6, <2>3 DEF BankOf, EntryBank
      <3>2. (h + (N + e)) % 2 = (((h + N) % 2) + e) % 2
        <4>1. PICK g \in Nat, r \in 0 .. 1 : h + N = 2 * g + r
          <5>1. h + N \in Nat
            OBVIOUS
          <5> QED
            BY <5>1, Halves
        <4>2. (h + N) % 2 = r /\ h + (N + e) = 2 * g + (r + e)
          BY <2>4, <4>1
        <4> QED
          BY <2>4, <4>2
      <3> QED
        BY <1>2, <3>1, <3>2 DEF BankOf
    <2>6. SlotOf(tail, b) = e
      BY <1>1, <1>2, <2>4, <2>5, InTurn
    <2>7. Din(ds, b) = ds[e + 1]
      BY <2>2, <2>6 DEF Din, Enters
    <2>8. tag_rdy'[b][Low(que[b].w_ptr)] = FALSE
      <3>1. tag_rdy'[b][Low(que[b].w_ptr)] \in BOOLEAN /\ ~tag_rdy'[b][Low(que[b].w_ptr)]
        BY <1>12, <2>2 DEF Enters
      <3> QED
        BY <3>1, Zenon
    <2> QED
      BY <1>4, <1>10, <2>2, <2>3, <2>7, <2>8, ZenonT(40) DEF Enters
  <1> QED
    BY <1>13, <1>14, Zenon DEF SlotMoved

\* The buffer as InOrderBuffer has it.
Elements == [dat : Data, done : BOOLEAN]
Held == [k \in 1 .. Occupied |-> Slot(k - 1)]

\* Every instruction in the buffer has its data and a completion flag.
LEMMA SlotTyped ==
    ASSUME RobInv, NEW k \in Nat, k < Occupied
    PROVE  /\ Slot(k) = [dat |-> EntryDat(k), done |-> Slot(k).done]
           /\ EntryDat(k) \in Data /\ Slot(k).done \in BOOLEAN
  <1>1. PICK b \in Banks, d \in Nat : b = EntryBank(k) /\ d = k \div 2
    BY Holding, Zenon
  <1>2. /\ d < Len(que[b].words) /\ EntryAddr(k) = Place(que[b], d) /\ EntryDat(k) = que[b].words[d + 1]
    BY <1>1, Holding, Zenon
  <1>3. /\ que[b].words \in Seq(Data) /\ Len(que[b].words) \in Nat /\ Len(que[b].words) <= Depth /\ Depth \in Nat
        /\ \A j \in 0 .. Depth : Place(que[b], j) \in Addr
    BY BankFacts, Pointers, Zenon DEF RobInv, RobTyped, BankOK
  <1>4. d \in 0 .. Depth /\ d + 1 \in 1 .. Len(que[b].words)
    BY <1>2, <1>3
  <1>5. EntryDat(k) \in Data /\ EntryAddr(k) \in Addr
    BY <1>2, <1>3, <1>4, ElementOfSeq
  <1>6. Slot(k).done = tag_rdy[b][EntryAddr(k)] /\ Slot(k) = [dat |-> EntryDat(k), done |-> Slot(k).done]
    BY <1>1 DEF Slot
  <1> QED
    BY <1>5, <1>6 DEF RobInv, RobTyped

\* An edge of rob.v without flush is a step of the in-order buffer.
LEMMA RobStep ==
    ASSUME RobInv, RobInv', NEW ds \in Pushes, NEW wb \in Writebacks, NEW refused, NEW n \in 0 .. BANKS,
           Clock(ds, wb, refused, n, FALSE)
    PROVE  \E W \in SUBSET (1 .. Len(Held)) : Buffer!Step(ds, W, n)
  <1>1. PICK N \in Nat, m \in 0 .. 2 : N = Occupied /\ m = Len(ds)
    <2>1. Occupied \in Nat
      BY Holding, Zenon
    <2>2. Len(ds) \in 0 .. 2
      BY Entering
    <2> QED
      BY <2>1, <2>2, Zenon
  <1>2. n \in 0 .. N /\ Occupied' = N - n + m /\ N + m <= BANKS * Depth
    <2>1. Occupied' = Occupied - n + Len(ds) /\ n <= Occupied /\ Occupied + Len(ds) <= BANKS * Depth
      BY Sizes, Zenon
    <2>2. n \in 0 .. 2
      BY InTurn
    <2> QED
      BY <1>1, <2>1, <2>2
  <1> DEFINE W == {k \in 1 .. N : Written(wb, k - 1)}
             marked == [k \in 1 .. N |-> [Held[k] EXCEPT !.done = @ \/ k \in W]]
             fresh == [k \in 1 .. m |-> [dat |-> ds[k], done |-> FALSE]]
             result == [k \in 1 .. N - n + m |-> Slot(k - 1)']
  <1>3. ASSUME NEW k \in 1 .. N
        PROVE  /\ Held[k] = Slot(k - 1)
               /\ marked[k] = [dat |-> EntryDat(k - 1), done |-> Slot(k - 1).done \/ Written(wb, k - 1)]
               /\ marked[k] \in Elements
    <2>1. k - 1 \in Nat /\ k - 1 < Occupied
      BY <1>1
    <2>2. /\ Slot(k - 1) = [dat |-> EntryDat(k - 1), done |-> Slot(k - 1).done]
          /\ EntryDat(k - 1) \in Data /\ Slot(k - 1).done \in BOOLEAN
      BY <2>1, SlotTyped
    <2>3. Held[k] = Slot(k - 1)
      BY <1>1 DEF Held
    <2>4. k \in W <=> Written(wb, k - 1)
      OBVIOUS
    <2>5. marked[k] = [Slot(k - 1) EXCEPT !.done = @ \/ k \in W]
      BY <2>3, Zenon
    <2> HIDE DEF W, marked
    <2>6. (Slot(k - 1).done \/ k \in W) = (Slot(k - 1).done \/ Written(wb, k - 1))
      BY <2>4, Zenon
    <2>7. [Slot(k - 1) EXCEPT !.done = @ \/ k \in W] = [dat |-> EntryDat(k - 1), done |-> Slot(k - 1).done \/ k \in W]
      BY <2>2
    <2>8. marked[k] = [dat |-> EntryDat(k - 1), done |-> Slot(k - 1).done \/ Written(wb, k - 1)]
      BY <2>5, <2>6, <2>7, Zenon
    <2>9. PICK v \in BOOLEAN : v = (Slot(k - 1).done \/ Written(wb, k - 1))
      BY Zenon
    <2>10. marked[k] = [dat |-> EntryDat(k - 1), done |-> v]
      BY <2>8, <2>9, Zenon
    <2>11. marked[k] \in Elements
      BY <2>2, <2>10 DEF Elements
    <2> QED
      BY <2>3, <2>8, <2>11, Zenon
  <1>4. ASSUME NEW k \in 1 .. m
        PROVE  fresh[k] = [dat |-> ds[k], done |-> FALSE] /\ fresh[k] \in Elements
    <2>1. ds[k] \in Data
      BY <1>1, Entering
    <2> QED
      BY <2>1 DEF Elements
  <1>5. ASSUME NEW k \in 1 .. N - n + m
        PROVE  result[k] = IF k <= N - n THEN marked[k + n] ELSE fresh[k - (N - n)]
    <2>1. PICK K \in Nat, i \in Nat : i = k - 1 /\ K = i + n /\ i < Occupied'
      BY <1>2
    <2>2. /\ K < Occupied => Slot(i)' = [dat |-> EntryDat(K), done |-> Slot(K).done \/ Written(wb, K)]
          /\ K >= Occupied => Slot(i)' = [dat |-> ds[K - Occupied + 1], done |-> FALSE]
      <3>1. SlotMoved(ds, wb, i, K)
        BY <2>1, SlotMoves, Zenon
      <3> QED
        BY <3>1, Zenon DEF SlotMoved
    <2>3. result[k] = Slot(i)'
      BY <2>1
    <2> HIDE DEF marked, fresh, result
    <2>4. CASE k <= N - n
      <3>1. K < N /\ k + n \in 1 .. N /\ k + n - 1 = K
        BY <1>2, <2>1, <2>4
      <3>2. marked[k + n] = [dat |-> EntryDat(K), done |-> Slot(K).done \/ Written(wb, K)]
        BY <1>3, <3>1
      <3> QED
        BY <1>1, <2>2, <2>3, <2>4, <3>1, <3>2, Zenon
    <2>5. CASE ~(k <= N - n)
      <3>1. ~(K < N) /\ K >= N /\ k - (N - n) \in 1 .. m /\ k - (N - n) = K - N + 1
        BY <1>2, <2>1, <2>5
      <3>2. fresh[k - (N - n)] = [dat |-> ds[k - (N - n)], done |-> FALSE]
        BY <1>4, <3>1
      <3> QED
        BY <1>1, <2>2, <2>3, <2>5, <3>1, <3>2, Zenon
    <2> QED
      BY <2>4, <2>5
  <1>6. Held' = result
    BY <1>2 DEF Held
  <1>7. result = SubSeq(marked, n + 1, N) \o fresh
    <2>1. marked \in [1 .. N -> Elements] /\ fresh \in [1 .. m -> Elements]
      BY <1>3, <1>4, Zenon
    <2>2. \A k \in 1 .. N - n + m : (IF k <= N - n THEN marked[k + n] ELSE fresh[k - (N - n)]) \in Elements
      <3> TAKE k \in 1 .. N - n + m
      <3>1. (k <= N - n => k + n \in 1 .. N) /\ (~(k <= N - n) => k - (N - n) \in 1 .. m)
        BY <1>2
      <3> QED
        BY <1>3, <1>4, <3>1, Zenon
    <2>3. result \in [1 .. N - n + m -> Elements]
      BY <1>5, <2>2, Zenon
    <2> HIDE DEF marked, fresh, result
    <2> QED
      BY <1>2, <1>5, <2>1, <2>3, Rebuilt
  <1>8. ASSUME NEW k \in 1 .. n PROVE Held[k].done
    <2>1. PICK i \in 0 .. 1 : i = k - 1 /\ i \in 0 .. n - 1 /\ i \in Nat /\ i \div 2 = 0
      BY <1>2, InTurn
    <2>2. k \in 1 .. N /\ n > 0
      BY <1>2
    <2>3. ent_valid(i)
      BY <2>1, <2>2, Zenon DEF Clock, cmt_valid
    <2>4. PICK b \in Banks : b = EntryBank(i)
      BY <2>1, Holding, Zenon
    <2>5. tag_rdy[b][rptr(b)]
      BY <2>3, <2>4 DEF ent_valid, EntryBank
    <2>6. EntryAddr(i) = Place(que[b], 0)
      BY <2>1, <2>4, Holding, Zenon
    <2>7. EntryAddr(i) = rptr(b)
      BY <2>6, BankFacts DEF RobInv, RobTyped, rptr
    <2>8. Slot(i).done = tag_rdy[b][rptr(b)]
      BY <2>4, <2>7 DEF Slot
    <2> QED
      BY <1>3, <2>1, <2>2, <2>5, <2>8, Zenon
  <1>9. Len(Held) = N
    BY <1>1 DEF Held
  <1>10. W \in SUBSET (1 .. Len(Held))
    BY <1>9
  <1>11. Buffer!Step(ds, W, n)
    <2>1. Buffer!Fresh(ds) = fresh
      BY <1>1 DEF Buffer!Fresh
    <2>2. marked = [k \in 1 .. Len(Held) |-> [Held[k] EXCEPT !.done = @ \/ k \in W]]
      BY <1>9
    <2>3. Held' = SubSeq([k \in 1 .. Len(Held) |-> [Held[k] EXCEPT !.done = @ \/ k \in W]], n + 1, Len(Held)) \o Buffer!Fresh(ds)
      BY <1>6, <1>7, <1>9, <2>1, <2>2, Zenon
    <2>4. n <= Len(Held) /\ Len(Held) + Len(ds) <= BANKS * Depth
      BY <1>1, <1>2, <1>9
    <2>5. \A k \in 1 .. n : Held[k].done
      BY <1>8
    <2> HIDE DEF W, marked
    <2> QED
      BY <2>3, <2>4, <2>5, Zenon DEF Buffer!Step, Held, Slot
  <1> QED
    BY <1>10, <1>11, Zenon

\* rob.v, with its two banks, its flags and its repeated writes, is one in-order
\* buffer of twice the depth of a bank, for every depth: instructions leave in the
\* order in which they entered, each after its own completion, none is lost or
\* given out twice, and the buffer never overflows.
THEOREM RobImplementsInOrder == Spec => ImplementsInOrder
  <1>1. Init => Buffer!Init
    <2> SUFFICES ASSUME Init PROVE Held = << >>
      BY Zenon DEF Buffer!Init, Held, Slot
    <2>1. RobInv /\ \A b \in Banks : que[b].words = << >>
      BY RobReset
    <2>2. Len(que[0].words) = 0 /\ Len(que[1].words) = 0
      BY <2>1, InTurn
    <2>3. Occupied = 0
      BY <2>1, <2>2, Holding
    <2> QED
      BY <2>3 DEF Held
  <1>2. RobInv /\ RobInv' /\ [Next]_vars => [Buffer!Next]_(Held)
    <2> SUFFICES ASSUME RobInv, RobInv', [Next]_vars PROVE Buffer!Next \/ Held' = Held
      OBVIOUS
    <2>1. CASE UNCHANGED vars
      BY <2>1 DEF vars, Held, Slot, Occupied, EntryDat, EntryBank, EntryAddr, FifoCount, BankOf
    <2>2. CASE Next
      <3>1. PICK ds \in Pushes, wb \in Writebacks, refused \in BOOLEAN, flush \in BOOLEAN, n \in 0 .. BANKS :
               Clock(ds, wb, refused, n, flush)
        BY <2>2 DEF Next
      <3>2. CASE flush
        <4>1. Clock(ds, wb, refused, n, TRUE)
          BY <3>1, <3>2, Zenon
        <4>2. \A b \in Banks : que'[b].words = << >>
          BY <4>1, FlushedHolds, Zenon
        <4>3. Len(que'[0].words) = 0 /\ Len(que'[1].words) = 0
          BY <4>2, InTurn
        <4>4. Occupied' = 0
          BY <4>3, HoldingNext
        <4>5. Held' = << >>
          BY <4>4 DEF Held
        <4> QED
          BY <4>5, Zenon DEF Buffer!Next, Held, Slot
      <3>3. CASE ~flush
        <4>1. Clock(ds, wb, refused, n, FALSE)
          BY <3>1, <3>3, Zenon
        <4>2. PICK W \in SUBSET (1 .. Len(Held)) : Buffer!Step(ds, W, n)
          BY <4>1, RobStep, Zenon
        <4>3. ds \in Buffer!Pushes
          BY DEF Buffer!Pushes, Pushes
        <4> QED
          BY <4>2, <4>3, Zenon DEF Buffer!Next, Held, Slot
      <3> QED
        BY <3>2, <3>3
    <2> QED
      BY <2>1, <2>2
  <1>3. [Buffer!Next]_(Held) <=> [Buffer!Next]_([k \in 1 .. Occupied |-> [dat |-> EntryDat(k - 1), done |-> tag_rdy[EntryBank(k - 1)][EntryAddr(k - 1)]]])
    BY Zenon DEF Held, Slot
  <1> QED
    BY <1>1, <1>2, <1>3, RobInvariant, PTL DEF Spec, ImplementsInOrder, Buffer!Spec
=============================================================================
