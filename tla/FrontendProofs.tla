--------------------------- MODULE FrontendProofs ---------------------------
(***************************************************************************)
(* The front end of Frontend, for every width of the fetch window and of   *)
(* the decoder: the decoder gets the instructions along the predicted      *)
(* path, whatever stalls and redirects it.  Interrupts, which the decoder  *)
(* attaches to instructions, are taken by the pipeline and by the emulator *)
(* at the same commits, for any width of the timer and any number of       *)
(* instructions in flight, if software keeps to the rules of Software.     *)
(***************************************************************************)
EXTENDS Frontend, Irq, FiniteSetTheorems, WellFoundedInduction, TLAPS

Preds0 == PC \cup {NotTaken}
Entry == [ins : Int, pc : PC, exc : BOOLEAN, pred : Preds0]
Window1 == [aligned : SUBSET Lanes, pcs : [Lanes -> PC], pred : [Lanes -> Preds0], exc : BOOLEAN, offset : Lanes]
Window2 == [cnt : 0 .. FW, pcs : [Lanes -> PC], pred : [Lanes -> Preds0], exc : BOOLEAN, offset : Lanes]

\* A fetch in a stage of the I$ is there before its window is.
Typed ==
    /\ pc \in PC /\ expect \in PC
    /\ s1 \in Window1 /\ s2 \in Window2
    /\ ic \in Seq(Int) /\ Len(ic) = 2
    /\ ic[1] = None => s1.aligned = {}
    /\ ic[2] = None => s2.cnt = 0
    /\ q \in [Lanes -> Seq(Entry)] /\ head \in Lanes /\ tail \in Lanes

\* The bank j places after bank h; the banks in that order.
Rem(x, n) == x % n
Bank(h, j) == Rem(j + h, FW)
Rows(z, h) == [j \in Lanes |-> z[Bank(h, j)]]

\* The PC of entry k of the bank at place j, if first is that of the oldest entry: the
\* banks are filled in turn.
Before(w, first, j, k) ==
    IF j > 0 THEN follow(w[j - 1][k])
    ELSE IF k > 1 THEN follow(w[FW - 1][k - 1])
    ELSE first

\* The banks hold n rows of entries and t more; the last entry leads to nxt.
Filled(w, first, nxt, t, n) ==
    /\ \A j \in Lanes : Len(w[j]) = IF j < t THEN n + 1 ELSE n
    /\ \A j \in Lanes : \A k \in 1 .. Len(w[j]) : w[j][k].pc = Before(w, first, j, k)
    /\ nxt = Before(w, first, t, n + 1)
Holds(z, h, tl, first, nxt) ==
    \E t \in Lanes : tl = Bank(h, t) /\ Filled(Rows(z, h), first, nxt, t, Len(z[Bank(h, FW - 1)]))

\* Where lane i of the window that leaves the I$ leads.
Leads(i) == IF s2.pred[i] # NotTaken THEN s2.pred[i] ELSE (s2.pcs[i] + 1) % PCS

\* The window at pc, and the one before it.
Fetched == s1.aligned # {} => /\ s1.aligned = fetch_aligned(pc) /\ s1.pcs = s1i_pc(pc)
                              /\ s1.offset = push_offset(pc)
Delivered ==
    s2.cnt > 0 =>
        /\ s2.offset + s2.cnt <= FW
        /\ \A i \in s2.offset .. s2.offset + s2.cnt - 2 : s2.pcs[i + 1] = Leads(i)
        /\ Leads(s2.offset + s2.cnt - 1) = pc

\* What the prefetch buffer gets next.
Enters == IF s2.cnt > 0 THEN s2.pcs[s2.offset] ELSE pc

\* Of banks filled in turn, the one before bank j has as many rows as it at least.
LEMMA RowAbove ==
    ASSUME NEW j \in Nat, NEW t \in Nat, NEW n \in Nat, NEW k \in Nat,
           j > 0, k <= (IF j < t THEN n + 1 ELSE n)
    PROVE  k <= (IF j - 1 < t THEN n + 1 ELSE n)
  OBVIOUS

IInv == Typed /\ Fetched /\ Delivered /\ Holds(q, head, tail, expect, Enters)
-----------------------------------------------------------------------------
\* Remainders by a number that wraps at most once.
LEMMA Mod ==
    ASSUME NEW n \in Nat \ {0}, NEW x \in Int
    PROVE  /\ Rem(x, n) \in 0 .. n - 1
           /\ 0 <= x /\ x < n => Rem(x, n) = x
           /\ n <= x /\ x < 2 * n => Rem(x, n) = x - n
           /\ -n <= x /\ x < 0 => Rem(x, n) = x + n
  <1>1. Rem(x, n) \in 0 .. n - 1
    BY DEF Rem
  <1>2. 0 <= x /\ x < n => Rem(x, n) = x
    BY DEF Rem
  <1>3. n <= x /\ x < 2 * n => Rem(x, n) = x - n
    BY DEF Rem
  <1>4. -n <= x /\ x < 0 => Rem(x, n) = x + n
    BY DEF Rem
  <1> QED
    BY <1>1, <1>2, <1>3, <1>4

\* The remainder of a successor.
LEMMA ModSucc ==
    ASSUME NEW n \in Nat \ {0}, NEW x \in Nat, x + 1 < 2 * n
    PROVE  Rem(Rem(x, n) + 1, n) = Rem(x + 1, n)
  <1>0. PICK y \in Int, z \in Int : y = x + 1 /\ z = (x + 1) - n
    OBVIOUS
  <1>1. CASE x < n
    <2>1. Rem(x, n) = x
      BY <1>1, Mod
    <2> QED
      BY <2>1
  <1>2. CASE ~(x < n)
    <2>1. Rem(x, n) = x - n
      BY <1>2, Mod
    <2>2. Rem(y, n) = y - n
      BY <1>0, <1>2, Mod
    <2>3. Rem(z, n) = z
      BY <1>0, <1>2, Mod
    <2>4. (x - n) + 1 = z /\ y - n = z
      BY <1>0
    <2> QED
      BY <1>0, <2>1, <2>2, <2>3, <2>4
  <1> QED
    BY <1>1, <1>2

\* A window is no larger than the address space.
LEMMA Sizes == FW \in Nat \ {0} /\ PCS \in Nat \ {0} /\ FW <= PCS /\ IW \in 1 .. FW
  <1>1. FW \in Nat \ {0} /\ PCS \in Nat \ {0} /\ Rem(PCS, FW) = 0 /\ IW \in 1 .. FW
    BY Parameters DEF Rem
  <1>2. PCS < FW => Rem(PCS, FW) = PCS
    BY <1>1, Mod
  <1> QED
    BY <1>1, <1>2

\* The place of a bank after the head, and of the bank at a place.
LEMMA Banks ==
    ASSUME NEW h \in Lanes, NEW j \in Lanes
    PROVE  /\ Bank(h, j) \in Lanes
           /\ Rem(Bank(h, j) - h, FW) = j
  <1>1. FW \in Nat \ {0} /\ h \in Int /\ j \in Int /\ 0 <= h /\ h < FW /\ 0 <= j /\ j < FW
    BY Sizes DEF Lanes
  <1>2. CASE j + h < FW
    <2>1. Bank(h, j) = j + h
      <3>1. PICK y \in Int : y = j + h
        BY <1>1
      <3>2. Rem(y, FW) = y
        BY <1>1, <1>2, <3>1, Mod
      <3> QED
        BY <3>1, <3>2 DEF Bank
    <2>2. Rem((j + h) - h, FW) = j
      <3>1. (j + h) - h = j
        BY <1>1
      <3> QED
        BY <1>1, <3>1, Mod
    <2> QED
      BY <1>1, <1>2, <2>1, <2>2 DEF Lanes
  <1>3. CASE ~(j + h < FW)
    <2>1. Bank(h, j) = (j + h) - FW
      <3>1. PICK y \in Int : y = j + h
        BY <1>1
      <3>2. Rem(y, FW) = y - FW
        BY <1>1, <1>3, <3>1, Mod
      <3> QED
        BY <3>1, <3>2 DEF Bank
    <2>2. Rem(((j + h) - FW) - h, FW) = j
      <3>1. ((j + h) - FW) - h = j - FW
        BY <1>1
      <3>2. Rem(j - FW, FW) = (j - FW) + FW
        <4>1. PICK y \in Int : y = j - FW
          BY <1>1
        <4>2. Rem(y, FW) = y + FW
          BY <1>1, <4>1, Mod
        <4> QED
          BY <4>1, <4>2
      <3> QED
        BY <1>1, <3>1, <3>2
    <2> QED
      BY <1>1, <1>3, <2>1, <2>2 DEF Lanes
  <1> QED
    BY <1>2, <1>3

\* Every bank is at some place after any other.
LEMMA BankAt ==
    ASSUME NEW h \in Lanes, NEW b \in Lanes
    PROVE  \E j \in Lanes : b = Bank(h, j)
  <1>1. FW \in Nat \ {0} /\ h \in Int /\ b \in Int /\ 0 <= h /\ h < FW /\ 0 <= b /\ b < FW
    BY Sizes DEF Lanes
  <1>2. CASE h <= b
    <2>1. b - h \in Lanes
      BY <1>1, <1>2 DEF Lanes
    <2>2. Bank(h, b - h) = b
      <3>1. (b - h) + h = b
        BY <1>1
      <3> QED
        BY <1>1, <3>1, Mod DEF Bank
    <2> QED
      BY <2>1, <2>2
  <1>3. CASE ~(h <= b)
    <2>1. (b - h) + FW \in Lanes
      BY <1>1, <1>3 DEF Lanes
    <2>2. Bank(h, (b - h) + FW) = b
      <3>1. ((b - h) + FW) + h = b + FW
        BY <1>1
      <3>2. Rem(b + FW, FW) = (b + FW) - FW
        <4>1. PICK y \in Int : y = b + FW
          BY <1>1
        <4>2. Rem(y, FW) = y - FW
          BY <1>1, <4>1, Mod
        <4> QED
          BY <4>1, <4>2
      <3> QED
        BY <1>1, <3>1, <3>2 DEF Bank
    <2> QED
      BY <2>1, <2>2
  <1> QED
    BY <1>2, <1>3

\* The place of the bank that is at place j after the one at place p.
Shift(p, j) == IF j + p < FW THEN j + p ELSE (j + p) - FW

\* The bank at a place after the head has moved.
LEMMA BankShift ==
    ASSUME NEW h \in Lanes, NEW p \in 0 .. FW, NEW j \in Lanes
    PROVE  /\ Rem(h + p, FW) \in Lanes
           /\ Shift(p, j) \in Lanes
           /\ Bank(Rem(h + p, FW), j) = Bank(h, Shift(p, j))
  <1>1. /\ FW \in Nat \ {0} /\ h \in Int /\ j \in Int /\ p \in Int
        /\ 0 <= h /\ h < FW /\ 0 <= j /\ j < FW /\ 0 <= p /\ p <= FW
    BY Sizes DEF Lanes
  <1>2. PICK g \in Int : g = IF h + p < FW THEN h + p ELSE (h + p) - FW
    <2>1. (IF h + p < FW THEN h + p ELSE (h + p) - FW) \in Int
      BY <1>1
    <2> QED
      BY <2>1, Zenon
  <1>3. Rem(h + p, FW) = g /\ 0 <= g /\ g < FW
    <2>1. PICK y \in Int : y = h + p
      BY <1>1
    <2>2. Rem(y, FW) = IF y < FW THEN y ELSE y - FW
      BY <1>1, <2>1, Mod
    <2> QED
      BY <1>1, <1>2, <2>1, <2>2
  <1>4. PICK i \in Int : i = IF j + p < FW THEN j + p ELSE (j + p) - FW
    <2>1. (IF j + p < FW THEN j + p ELSE (j + p) - FW) \in Int
      BY <1>1
    <2> QED
      BY <2>1, Zenon
  <1>5. Shift(p, j) = i /\ 0 <= i /\ i < FW
    BY <1>1, <1>4 DEF Shift
  <1>6. PICK y \in Int, z \in Int : y = j + g /\ z = i + h
    BY <1>1
  <1>7. Rem(y, FW) = (IF y < FW THEN y ELSE y - FW) /\ Rem(z, FW) = (IF z < FW THEN z ELSE z - FW)
    BY <1>1, <1>3, <1>5, <1>6, Mod
  <1>8. Rem(j + g, FW) = Rem(i + h, FW)
    BY <1>1, <1>2, <1>3, <1>4, <1>5, <1>6, <1>7
  <1> QED
    BY <1>1, <1>3, <1>5, <1>8 DEF Bank, Lanes
-----------------------------------------------------------------------------
\* What is left when the p oldest entries have been popped.
Popped(w, p) == [j \in Lanes |-> IF j + p < FW THEN w[j + p] ELSE Tail(w[(j + p) - FW])]
Oldest(w, first, p) == IF p = 0 THEN first ELSE follow(w[p - 1][1])
Moved(p, j) == IF j + p < FW THEN 0 ELSE 1

PoppedFrom(v, x, d) ==
    /\ v \in Seq(Entry)
    /\ Len(v) = Len(x) - d
    /\ \A k \in 1 .. Len(v) : v[k] = x[k + d]

\* A bank after a pop is the one p places on, without its oldest entry if that was popped.
LEMMA PoppedRow ==
    ASSUME NEW w \in [Lanes -> Seq(Entry)], NEW first, NEW nxt, NEW t \in Lanes, NEW n \in Nat,
           Filled(w, first, nxt, t, n), NEW p \in 0 .. FW, p <= t \/ n >= 1, NEW j \in Lanes
    PROVE  PoppedFrom(Popped(w, p)[j], w[Shift(p, j)], Moved(p, j))
  <1>0. FW \in Nat \ {0} /\ p \in Nat /\ j \in Nat /\ t \in Nat /\ j < FW /\ t < FW
    BY Sizes DEF Lanes
  <1>1. CASE j + p < FW
    <2>1. j + p \in Lanes /\ Shift(p, j) = j + p /\ Moved(p, j) = 0 /\ Popped(w, p)[j] = w[j + p]
      BY <1>0, <1>1 DEF Lanes, Shift, Moved, Popped
    <2>2. w[j + p] \in Seq(Entry)
      BY <2>1
    <2> QED
      BY <2>1, <2>2 DEF PoppedFrom
  <1>2. CASE ~(j + p < FW)
    <2>1. PICK i \in Lanes : i = (j + p) - FW
      BY <1>0, <1>2 DEF Lanes
    <2>2. Shift(p, j) = i /\ Moved(p, j) = 1 /\ Popped(w, p)[j] = Tail(w[i]) /\ i < p
      BY <1>0, <1>2, <2>1 DEF Shift, Moved, Popped
    <2>3. PICK x \in Seq(Entry) : x = w[i]
      OBVIOUS
    <2>4. Len(x) >= 1
      <3>1. Len(w[i]) = IF i < t THEN n + 1 ELSE n
        BY DEF Filled
      <3>2. i \in Nat
        BY DEF Lanes
      <3> QED
        BY <1>0, <2>2, <2>3, <3>1, <3>2
    <2>5. x # <<>>
      BY <2>3, <2>4
    <2>6. Tail(x) \in Seq(Entry) /\ Len(Tail(x)) = Len(x) - 1 /\ \A k \in 1 .. Len(Tail(x)) : Tail(x)[k] = x[k + 1]
      BY <2>3, <2>5
    <2> QED
      BY <2>2, <2>3, <2>6 DEF PoppedFrom
  <1> QED
    BY <1>1, <1>2

\* The predecessor of the entry at place j of row k is there.
Reached(y, j, k) == (j > 0 => k <= Len(y[j - 1])) /\ (j = 0 /\ k > 1 => k - 1 <= Len(y[FW - 1]))

\* The predecessor of an entry is the same one before and after a pop.
LEMMA PoppedBefore ==
    ASSUME NEW w \in [Lanes -> Seq(Entry)], NEW first, NEW nxt, NEW t \in Lanes, NEW n \in Nat,
           Filled(w, first, nxt, t, n), NEW p \in 0 .. FW, p <= t \/ n >= 1,
           NEW y, y = Popped(w, p), NEW first1, first1 = Oldest(w, first, p),
           NEW j \in Lanes, NEW k \in Nat \ {0}, Reached(y, j, k)
    PROVE  Before(y, first1, j, k) = Before(w, first, Shift(p, j), k + Moved(p, j))
  <1>0. FW \in Nat \ {0} /\ p \in Nat /\ j \in Nat /\ j < FW /\ p <= FW
    BY Sizes DEF Lanes
  <1>1. \A i \in Lanes, e \in Nat \ {0} : e <= Len(y[i]) => y[i][e] = w[Shift(p, i)][e + Moved(p, i)]
    <2> SUFFICES ASSUME NEW i \in Lanes, NEW e \in Nat \ {0}, e <= Len(y[i])
                 PROVE  y[i][e] = w[Shift(p, i)][e + Moved(p, i)]
      OBVIOUS
    <2>0. PoppedFrom(y[i], w[Shift(p, i)], Moved(p, i))
      BY PoppedRow, Zenon
    <2>1. /\ y[i] \in Seq(Entry)
          /\ \A c \in 1 .. Len(y[i]) : y[i][c] = w[Shift(p, i)][c + Moved(p, i)]
      BY <2>0 DEF PoppedFrom
    <2>2. e \in 1 .. Len(y[i])
      BY <2>1
    <2> QED
      BY <2>1, <2>2
  <1>2. CASE j > 0
    <2>1. PICK i \in Lanes : i = j - 1
      BY <1>0, <1>2 DEF Lanes
    <2>2. Before(y, first1, j, k) = follow(y[i][k])
      BY <1>2, <2>1 DEF Before
    <2>3. y[i][k] = w[Shift(p, i)][k + Moved(p, i)]
      BY <1>1, <1>2, <2>1 DEF Reached
    <2>4. CASE j + p < FW
      <3>1. Shift(p, i) = (j + p) - 1 /\ Moved(p, i) = 0 /\ Shift(p, j) = j + p /\ Moved(p, j) = 0
        BY <1>0, <2>1, <2>4 DEF Shift, Moved
      <3>2. Before(w, first, j + p, k) = follow(w[(j + p) - 1][k])
        BY <1>0, <1>2 DEF Before
      <3> QED
        BY <2>2, <2>3, <3>1, <3>2
    <2>5. CASE j + p = FW
      <3>1. Shift(p, i) = FW - 1 /\ Moved(p, i) = 0 /\ Shift(p, j) = 0 /\ Moved(p, j) = 1
        BY <1>0, <2>1, <2>5 DEF Shift, Moved
      <3>2. Before(w, first, 0, k + 1) = follow(w[FW - 1][k])
        BY DEF Before
      <3> QED
        BY <2>2, <2>3, <3>1, <3>2
    <2>6. CASE j + p > FW
      <3>1. Shift(p, i) = ((j + p) - FW) - 1 /\ Moved(p, i) = 1 /\ Shift(p, j) = (j + p) - FW /\ Moved(p, j) = 1
        BY <1>0, <2>1, <2>6 DEF Shift, Moved
      <3>2. Before(w, first, (j + p) - FW, k + 1) = follow(w[((j + p) - FW) - 1][k + 1])
        BY <1>0, <2>6 DEF Before
      <3> QED
        BY <2>2, <2>3, <3>1, <3>2
    <2> QED
      BY <1>0, <2>4, <2>5, <2>6
  <1>3. CASE j = 0 /\ k > 1
    <2>1. PICK i \in Lanes : i = FW - 1
      BY <1>0 DEF Lanes
    <2>2. Before(y, first1, j, k) = follow(y[i][k - 1])
      BY <1>3, <2>1 DEF Before
    <2>3. y[i][k - 1] = w[Shift(p, i)][(k - 1) + Moved(p, i)]
      <3>1. k - 1 \in Nat \ {0} /\ k - 1 <= Len(y[i])
        BY <1>3, <2>1 DEF Reached
      <3> QED
        BY <1>1, <3>1, Zenon
    <2>4. CASE p = 0
      <3>1. Shift(p, i) = FW - 1 /\ Moved(p, i) = 0 /\ Shift(p, j) = 0 /\ Moved(p, j) = 0
        BY <1>0, <1>3, <2>1, <2>4 DEF Shift, Moved
      <3>2. Before(w, first, 0, k) = follow(w[FW - 1][k - 1])
        BY <1>3 DEF Before
      <3> QED
        BY <2>2, <2>3, <3>1, <3>2
    <2>5. CASE p > 0 /\ p < FW
      <3>1. Shift(p, i) = p - 1 /\ Moved(p, i) = 1 /\ Shift(p, j) = p /\ Moved(p, j) = 0
        BY <1>0, <1>3, <2>1, <2>5 DEF Shift, Moved
      <3>2. Before(w, first, p, k) = follow(w[p - 1][k])
        BY <2>5 DEF Before
      <3> QED
        BY <2>2, <2>3, <3>1, <3>2
    <2>6. CASE p = FW
      <3>1. Shift(p, i) = FW - 1 /\ Moved(p, i) = 1 /\ Shift(p, j) = 0 /\ Moved(p, j) = 1
        BY <1>0, <1>3, <2>1, <2>6 DEF Shift, Moved
      <3>2. Before(w, first, 0, k + 1) = follow(w[FW - 1][k])
        BY DEF Before
      <3> QED
        BY <2>2, <2>3, <3>1, <3>2
    <2> QED
      BY <1>0, <2>4, <2>5, <2>6
  <1>4. CASE j = 0 /\ k = 1
    <2>1. Before(y, first1, j, k) = first1
      BY <1>4 DEF Before
    <2>2. CASE p < FW
      <3>1. Shift(p, j) = p /\ Moved(p, j) = 0
        BY <1>0, <1>4, <2>2 DEF Shift, Moved
      <3>2. Before(w, first, p, 1) = IF p = 0 THEN first ELSE follow(w[p - 1][1])
        BY <1>0 DEF Before
      <3> QED
        BY <1>4, <2>1, <3>1, <3>2 DEF Oldest
    <2>3. CASE p = FW
      <3>1. Shift(p, j) = 0 /\ Moved(p, j) = 1
        BY <1>0, <1>4, <2>3 DEF Shift, Moved
      <3>2. Before(w, first, 0, 2) = follow(w[FW - 1][1])
        BY DEF Before
      <3> QED
        BY <1>0, <1>4, <2>1, <2>3, <3>1, <3>2 DEF Oldest
    <2> QED
      BY <1>0, <2>2, <2>3
  <1> QED
    BY <1>0, <1>2, <1>3, <1>4

\* Popping the oldest entries leaves the rest in order.
LEMMA PopFilled ==
    ASSUME NEW w \in [Lanes -> Seq(Entry)], NEW first, NEW nxt, NEW t \in Lanes, NEW n \in Nat,
           Filled(w, first, nxt, t, n), NEW p \in 0 .. FW, p <= t \/ n >= 1,
           NEW y, y = Popped(w, p), NEW first1, first1 = Oldest(w, first, p)
    PROVE  \E t1 \in Lanes, n1 \in Nat : Filled(y, first1, nxt, t1, n1) /\ Shift(p, t1) = t
  <1>0. FW \in Nat \ {0} /\ p \in Nat /\ p <= FW /\ t \in Nat /\ t < FW
    BY Sizes DEF Lanes
  <1>1. PICK t1 \in Lanes, n1 \in Nat :
          /\ t1 = IF t >= p THEN t - p ELSE (t - p) + FW
          /\ n1 = IF t >= p THEN n ELSE n - 1
    <2>1. (IF t >= p THEN t - p ELSE (t - p) + FW) \in Lanes
      BY <1>0 DEF Lanes
    <2>2. (IF t >= p THEN n ELSE n - 1) \in Nat
      BY <1>0
    <2> QED
      BY <2>1, <2>2, Zenon
  <1>2. t1 \in Nat /\ t1 < FW /\ Shift(p, t1) = t /\ n1 + 1 + Moved(p, t1) = n + 1
    BY <1>0, <1>1 DEF Lanes, Shift, Moved
  <1>3. \A j \in Lanes : j \in Nat /\ j < FW /\ Shift(p, j) \in Lanes /\ Shift(p, j) \in Nat /\ Moved(p, j) \in Nat
    BY <1>0 DEF Lanes, Shift, Moved
  <1>4. \A j \in Lanes : PoppedFrom(y[j], w[Shift(p, j)], Moved(p, j))
    BY PoppedRow, Zenon
  <1>5. \A j \in Lanes : Len(w[j]) = IF j < t THEN n + 1 ELSE n
    BY DEF Filled
  <1>6. ASSUME NEW j \in Lanes PROVE Len(y[j]) = IF j < t1 THEN n1 + 1 ELSE n1
    <2>1. PICK i \in Lanes, d \in Nat : i = Shift(p, j) /\ d = Moved(p, j) /\ i \in Nat
      BY <1>3
    <2>2. Len(y[j]) = (IF i < t THEN n + 1 ELSE n) - d
      BY <1>4, <1>5, <2>1 DEF PoppedFrom
    <2>3. i = (IF j + p < FW THEN j + p ELSE (j + p) - FW) /\ d = (IF j + p < FW THEN 0 ELSE 1)
      BY <2>1 DEF Shift, Moved
    <2>4. j \in Nat /\ j < FW
      BY <1>3
    <2>5. CASE t >= p
      <3>1. t1 = t - p /\ n1 = n
        BY <1>1, <2>5
      <3> QED
        BY <1>0, <2>2, <2>3, <2>4, <2>5, <3>1
    <2>6. CASE ~(t >= p)
      <3>1. t1 = (t - p) + FW /\ n1 = n - 1
        BY <1>1, <2>6
      <3> QED
        BY <1>0, <2>2, <2>3, <2>4, <2>6, <3>1
    <2> QED
      BY <2>5, <2>6
  <1>7. ASSUME NEW j \in Lanes, NEW k \in Nat \ {0}, Reached(y, j, k)
        PROVE  Before(y, first1, j, k) = Before(w, first, Shift(p, j), k + Moved(p, j))
    BY <1>7, PoppedBefore, SMT
  <1>8. ASSUME NEW j \in Lanes, NEW k \in 1 .. Len(y[j]) PROVE y[j][k].pc = Before(y, first1, j, k)
    <2>1. PICK i \in Lanes, d \in Nat : i = Shift(p, j) /\ d = Moved(p, j)
      BY <1>3
    <2>2. PoppedFrom(y[j], w[i], d)
      BY <1>4, <2>1
    <2>3. Len(w[i]) \in Nat
      BY <1>5
    <2>4. y[j][k] = w[i][k + d] /\ k + d \in 1 .. Len(w[i])
      BY <1>8, <2>2, <2>3 DEF PoppedFrom
    <2>5. w[i][k + d].pc = Before(w, first, i, k + d)
      BY <2>4 DEF Filled
    <2>6. k \in Nat \ {0} /\ k <= Len(y[j]) /\ j \in Nat
      <3>0. Len(y[j]) \in Nat
        BY <2>2 DEF PoppedFrom
      <3>1. PICK m \in Nat : m = Len(y[j])
        BY <3>0
      <3>2. k \in 1 .. m
        BY <1>8, <3>1
      <3>3. k \in Nat \ {0} /\ k <= m
        BY <3>2
      <3> QED
        BY <1>3, <3>1, <3>3, Zenon
    <2>7. j > 0 => k <= Len(y[j - 1])
      <3>1. j > 0 => j - 1 \in Lanes
        BY <1>0, <1>3 DEF Lanes
      <3>2. j > 0 => Len(y[j - 1]) = IF j - 1 < t1 THEN n1 + 1 ELSE n1
        BY <1>6, <3>1
      <3>3. k <= (IF j < t1 THEN n1 + 1 ELSE n1) /\ k \in Nat /\ j \in Nat /\ t1 \in Nat
        BY <1>2, <1>6, <2>6, Zenon
      <3> SUFFICES ASSUME j > 0 PROVE k <= Len(y[j - 1])
        OBVIOUS
      <3>4. k <= (IF j - 1 < t1 THEN n1 + 1 ELSE n1)
        BY <3>3, RowAbove
      <3> QED
        BY <3>2, <3>4, Zenon
    <2>8. j = 0 /\ k > 1 => k - 1 <= Len(y[FW - 1])
      <3>1. FW - 1 \in Lanes
        BY <1>0 DEF Lanes
      <3>2. Len(y[FW - 1]) = n1
        <4>1. ~(FW - 1 < t1)
          BY <1>0, <1>2
        <4> QED
          BY <1>6, <3>1, <4>1, Zenon
      <3> QED
        BY <1>6, <2>6, <3>2
    <2>9. Before(y, first1, j, k) = Before(w, first, i, k + d)
      BY <1>7, <2>1, <2>6, <2>7, <2>8 DEF Reached
    <2> QED
      BY <2>4, <2>5, <2>9
  <1>9. nxt = Before(y, first1, t1, n1 + 1)
    <2>1. t1 > 0 => t1 - 1 \in Lanes
      BY <1>0, <1>2 DEF Lanes
    <2>2. t1 > 0 => Len(y[t1 - 1]) = n1 + 1
      BY <1>2, <1>6, <2>1
    <2>3. FW - 1 \in Lanes /\ Len(y[FW - 1]) = n1
      <3>1. FW - 1 \in Lanes
        BY <1>0 DEF Lanes
      <3> QED
        BY <1>0, <1>2, <1>6, <3>1
    <2>4. PICK k \in Nat \ {0} : k = n1 + 1
      OBVIOUS
    <2>5. Before(y, first1, t1, k) = Before(w, first, Shift(p, t1), k + Moved(p, t1))
      BY <1>2, <1>7, <2>2, <2>3, <2>4 DEF Reached
    <2>6. nxt = Before(w, first, t, n + 1)
      BY DEF Filled
    <2> QED
      BY <1>2, <2>4, <2>5, <2>6
  <1>10. Filled(y, first1, nxt, t1, n1)
    BY <1>6, <1>8, <1>9 DEF Filled
  <1> QED
    BY <1>2, <1>10

\* The banks after a push of m entries; the first one goes to the bank at place t.
Dist(t, j) == IF j >= t THEN j - t ELSE (j - t) + FW
PushedAt(w, y, item, t, m, j) ==
    /\ y[j] \in Seq(Entry) /\ Len(w[j]) \in Nat
    /\ Len(y[j]) = IF Dist(t, j) < m THEN Len(w[j]) + 1 ELSE Len(w[j])
    /\ \A k \in 1 .. Len(w[j]) : y[j][k] = w[j][k]
    /\ Dist(t, j) < m => y[j][Len(w[j]) + 1] = item[Dist(t, j)]
InPath(item, m, nxt) ==
    /\ item[0].pc = nxt
    /\ \A i \in 1 .. m - 1 : item[i].pc = follow(item[i - 1])

\* An old entry has the predecessor it had.
LEMMA PushedBefore ==
    ASSUME NEW w, NEW y, NEW item, NEW m \in 1 .. FW, NEW first, NEW t \in Lanes,
           \A j \in Lanes : PushedAt(w, y, item, t, m, j),
           NEW j \in Lanes, NEW k \in Nat \ {0}, Reached(w, j, k)
    PROVE  Before(y, first, j, k) = Before(w, first, j, k)
  <1>0. FW \in Nat \ {0} /\ j \in Nat /\ j < FW
    BY Sizes DEF Lanes
  <1>1. \A i \in Lanes, e \in Nat \ {0} : e <= Len(w[i]) => y[i][e] = w[i][e]
    <2> SUFFICES ASSUME NEW i \in Lanes, NEW e \in Nat \ {0}, e <= Len(w[i])
                 PROVE  y[i][e] = w[i][e]
      OBVIOUS
    <2>1. Len(w[i]) \in Nat /\ \A c \in 1 .. Len(w[i]) : y[i][c] = w[i][c]
      BY DEF PushedAt
    <2>2. e \in 1 .. Len(w[i])
      BY <2>1
    <2> QED
      BY <2>1, <2>2
  <1>2. CASE j > 0
    <2>1. j - 1 \in Lanes
      BY <1>0, <1>2 DEF Lanes
    <2>2. y[j - 1][k] = w[j - 1][k]
      BY <1>1, <1>2, <2>1 DEF Reached
    <2> QED
      BY <1>2, <2>2 DEF Before
  <1>3. CASE j = 0 /\ k > 1
    <2>1. FW - 1 \in Lanes /\ k - 1 \in Nat \ {0}
      BY <1>0, <1>3 DEF Lanes
    <2>2. y[FW - 1][k - 1] = w[FW - 1][k - 1]
      BY <1>1, <1>3, <2>1, Zenon DEF Reached
    <2> QED
      BY <1>3, <2>2 DEF Before
  <1>4. CASE j = 0 /\ ~(k > 1)
    BY <1>4 DEF Before
  <1> QED
    BY <1>0, <1>2, <1>3, <1>4

Follows(j, k, c, t, n) ==
    \/ j > t /\ k = n + 1 /\ c = (j - t) - 1
    \/ j <= t /\ k = n + 2 /\ c = ((j - t) + FW) - 1

\* The entry after the one at distance c from where the push began, and its place.
LEMMA PushedLast ==
    ASSUME NEW w, NEW y, NEW item, NEW m \in 1 .. FW, NEW first, NEW t \in Lanes, NEW n \in Nat,
           \A j \in Lanes : PushedAt(w, y, item, t, m, j),
           \A j \in Lanes : Len(w[j]) = IF j < t THEN n + 1 ELSE n,
           NEW j \in Lanes, NEW k \in Nat, NEW c \in 0 .. m - 1, Follows(j, k, c, t, n)
    PROVE  Before(y, first, j, k) = follow(item[c])
  <1>0. FW \in Nat \ {0} /\ j \in Nat /\ j < FW /\ t \in Nat /\ t < FW
    BY Sizes DEF Lanes
  <1>1. \A i \in Lanes : Dist(t, i) < m => y[i][(IF i < t THEN n + 1 ELSE n) + 1] = item[Dist(t, i)]
    BY DEF PushedAt
  <1>2. CASE j > 0
    <2>1. PICK i \in Lanes : i = j - 1
      BY <1>0, <1>2 DEF Lanes
    <2>2. Dist(t, i) = c /\ c < m /\ k = (IF i < t THEN n + 1 ELSE n) + 1
      BY <1>0, <1>2, <2>1 DEF Dist, Follows
    <2>3. y[i][k] = item[c]
      BY <1>1, <2>2
    <2> QED
      BY <1>2, <2>1, <2>3 DEF Before
  <1>3. CASE j = 0
    <2>1. PICK i \in Lanes : i = FW - 1
      BY <1>0 DEF Lanes
    <2>2. k = n + 2 /\ c = ((j - t) + FW) - 1
      BY <1>0, <1>3 DEF Follows
    <2>3. Dist(t, i) = c /\ c < m /\ k - 1 = (IF i < t THEN n + 1 ELSE n) + 1 /\ k > 1
      BY <1>0, <1>3, <2>1, <2>2 DEF Dist
    <2>4. y[i][k - 1] = item[c]
      BY <1>1, <2>3
    <2> QED
      BY <1>3, <2>1, <2>3, <2>4 DEF Before
  <1> QED
    BY <1>0, <1>2, <1>3

\* Entries pushed along the path extend what the buffer holds.
LEMMA PushFilled ==
    ASSUME NEW w, NEW y, NEW item, NEW m \in 1 .. FW, NEW first, NEW nxt, NEW t \in Lanes, NEW n \in Nat,
           Filled(w, first, nxt, t, n), InPath(item, m, nxt),
           \A j \in Lanes : PushedAt(w, y, item, t, m, j)
    PROVE  \E n1 \in Nat : Filled(y, first, follow(item[m - 1]), Shift(m, t), n1)
  <1>0. FW \in Nat \ {0} /\ t \in Nat /\ t < FW /\ m \in Nat /\ 1 <= m /\ m <= FW
    BY Sizes DEF Lanes
  <1>1. PICK t1 \in Lanes : t1 = Shift(m, t) /\ t1 \in Nat
    <2>1. Shift(m, t) \in Lanes /\ Shift(m, t) \in Nat
      BY <1>0 DEF Shift, Lanes
    <2> QED
      BY <2>1
  <1>2. PICK n1 \in Nat : n1 = IF t + m < FW THEN n ELSE n + 1
    OBVIOUS
  <1>3. t1 = IF t + m < FW THEN t + m ELSE (t + m) - FW
    BY <1>1 DEF Shift
  <1>4. \A j \in Lanes : Len(w[j]) = IF j < t THEN n + 1 ELSE n
    BY DEF Filled
  <1>5. \A j \in Lanes : j \in Nat /\ j < FW
    BY <1>0 DEF Lanes
  <1>6. ASSUME NEW j \in Lanes PROVE Len(y[j]) = IF j < t1 THEN n1 + 1 ELSE n1
    <2>1. Len(y[j]) = IF Dist(t, j) < m THEN Len(w[j]) + 1 ELSE Len(w[j])
      BY DEF PushedAt
    <2>2. Dist(t, j) = IF j >= t THEN j - t ELSE (j - t) + FW
      BY DEF Dist
    <2>3. Len(w[j]) = (IF j < t THEN n + 1 ELSE n) /\ j \in Nat /\ j < FW
      BY <1>4, <1>5
    <2>4. CASE t + m < FW
      <3>1. t1 = t + m /\ n1 = n
        BY <1>2, <1>3, <2>4
      <3> QED
        BY <1>0, <2>1, <2>2, <2>3, <2>4, <3>1
    <2>5. CASE ~(t + m < FW)
      <3>1. t1 = (t + m) - FW /\ n1 = n + 1
        BY <1>2, <1>3, <2>5
      <3> QED
        BY <1>0, <2>1, <2>2, <2>3, <2>5, <3>1
    <2> QED
      BY <2>4, <2>5
  <1>7. \A j \in Lanes, k \in Nat \ {0} : Reached(w, j, k) => Before(y, first, j, k) = Before(w, first, j, k)
    BY PushedBefore
  <1>8. \A j \in Lanes, k \in Nat \ {0} :
           k <= (IF j < t THEN n + 1 ELSE n) \/ (j = t /\ k = n + 1) => Reached(w, j, k)
    <2> SUFFICES ASSUME NEW j \in Lanes, NEW k \in Nat \ {0},
                        k <= (IF j < t THEN n + 1 ELSE n) \/ (j = t /\ k = n + 1)
                 PROVE  Reached(w, j, k)
      OBVIOUS
    <2>1. FW - 1 \in Lanes /\ (j > 0 => j - 1 \in Lanes) /\ j \in Nat
      BY <1>0, <1>5 DEF Lanes
    <2>2. Len(w[FW - 1]) = n
      BY <1>0, <1>4, <2>1
    <2>3. j > 0 => Len(w[j - 1]) = IF j - 1 < t THEN n + 1 ELSE n
      BY <1>4, <2>1
    <2> QED
      BY <1>0, <2>1, <2>2, <2>3 DEF Reached
  <1>9. \A j \in Lanes, k \in Nat, c \in 0 .. m - 1 :
            Follows(j, k, c, t, n) => Before(y, first, j, k) = follow(item[c])
    BY <1>4, PushedLast
  <1>10. ASSUME NEW j \in Lanes, NEW k \in 1 .. Len(y[j]) PROVE y[j][k].pc = Before(y, first, j, k)
    <2>1. PICK l \in Nat : l = Len(w[j]) /\ l = IF j < t THEN n + 1 ELSE n
      BY <1>4
    <2>2. k \in Nat \ {0} /\ (k <= l \/ (k = l + 1 /\ Dist(t, j) < m))
      <3>1. Len(y[j]) = IF Dist(t, j) < m THEN l + 1 ELSE l
        BY <2>1, Zenon DEF PushedAt
      <3>2. CASE Dist(t, j) < m
        BY <1>10, <3>1, <3>2
      <3>3. CASE ~(Dist(t, j) < m)
        BY <1>10, <3>1, <3>3
      <3> QED
        BY <3>2, <3>3
    <2>3. CASE k <= l
      <3>1. k \in 1 .. l
        BY <2>2, <2>3
      <3>2. y[j][k] = w[j][k]
        BY <2>1, <3>1, Zenon DEF PushedAt
      <3>3. w[j][k].pc = Before(w, first, j, k)
        BY <2>1, <3>1 DEF Filled
      <3>4. Before(y, first, j, k) = Before(w, first, j, k)
        BY <1>7, <1>8, <2>1, <2>2, <2>3
      <3> QED
        BY <3>2, <3>3, <3>4
    <2>4. CASE ~(k <= l)
      <3>1. k = l + 1 /\ Dist(t, j) < m /\ j \in Nat /\ j < FW
        BY <1>5, <2>2, <2>4
      <3>2. PICK c \in Nat : c = Dist(t, j)
        <4>1. Dist(t, j) \in Nat
          BY <1>0, <3>1 DEF Dist
        <4> QED
          BY <4>1
      <3>3. y[j][k] = item[c]
        BY <2>1, <3>1, <3>2, Zenon DEF PushedAt
      <3>4. CASE c = 0
        <4>1. j = t /\ k = n + 1
          BY <1>0, <2>1, <3>1, <3>2, <3>4 DEF Dist
        <4>2. Before(y, first, j, k) = Before(w, first, j, k)
          BY <1>7, <1>8, <2>2, <4>1
        <4>3. nxt = Before(w, first, t, n + 1)
          BY DEF Filled
        <4> QED
          BY <3>3, <3>4, <4>1, <4>2, <4>3 DEF InPath
      <3>5. CASE c # 0
        <4>1. PICK d \in 0 .. m - 1 : d = c - 1
          BY <1>0, <3>1, <3>2, <3>5
        <4>2. Follows(j, k, d, t, n)
          BY <1>0, <2>1, <3>1, <3>2, <3>5, <4>1 DEF Dist, Follows
        <4>3. Before(y, first, j, k) = follow(item[d])
          BY <1>9, <2>2, <4>2
        <4>4. c \in 1 .. m - 1
          BY <1>0, <3>1, <3>2, <3>5
        <4>5. item[c].pc = follow(item[c - 1])
          BY <4>4 DEF InPath
        <4> QED
          BY <3>3, <4>1, <4>3, <4>5
      <3> QED
        BY <3>4, <3>5
    <2> QED
      BY <2>3, <2>4
  <1>11. follow(item[m - 1]) = Before(y, first, t1, n1 + 1)
    <2>1. PICK d \in 0 .. m - 1 : d = m - 1
      BY <1>0
    <2>2. PICK k \in Nat : k = n1 + 1
      OBVIOUS
    <2>3. Follows(t1, k, d, t, n)
      BY <1>0, <1>1, <1>2, <1>3, <2>1, <2>2 DEF Follows
    <2>4. Before(y, first, t1, k) = follow(item[d])
      BY <1>9, <2>3
    <2> QED
      BY <2>1, <2>2, <2>4
  <1>12. Filled(y, first, follow(item[m - 1]), t1, n1)
    BY <1>6, <1>10, <1>11 DEF Filled
  <1> QED
    BY <1>1, <1>12
-----------------------------------------------------------------------------
\* The cardinality of an interval of numbers.
LEMMA Interval ==
    ASSUME NEW a \in Int, NEW b \in Int, a <= b + 1
    PROVE  Cardinality(a .. b) = (b - a) + 1
  <1>1. CASE a > b
    <2>1. a .. b = {} /\ a = b + 1
      BY <1>1
    <2> QED
      BY <2>1, FS_EmptySet
  <1>2. CASE ~(a > b)
    BY <1>2, FS_Interval
  <1> QED
    BY <1>1, <1>2

\* The lanes of a window from pc on.
LEMMA Aligned ==
    ASSUME NEW a \in PC
    PROVE  /\ Rem(a, FW) \in Lanes
           /\ fetch_aligned(a) = Rem(a, FW) .. FW - 1
           /\ push_offset(a) = Rem(a, FW)
  <1>0. FW \in Nat \ {0} /\ a \in Int
    BY Sizes DEF PC
  <1>1. PICK o \in 0 .. FW - 1 : o = Rem(a, FW)
    BY <1>0, Mod
  <1>2. fetch_aligned(a) = {i \in Lanes : o <= i}
    BY <1>1, Zenon DEF fetch_aligned, Rem
  <1>3. fetch_aligned(a) = o .. FW - 1
    BY <1>0, <1>2 DEF Lanes
  <1>4. Lanes \ fetch_aligned(a) = 0 .. o - 1
    BY <1>0, <1>3 DEF Lanes
  <1>5. Cardinality(0 .. o - 1) = o
    BY <1>0, Interval
  <1> QED
    BY <1>1, <1>3, <1>4, <1>5, Zenon DEF push_offset, Lanes

\* The decoder sees c instructions, the oldest of the first c banks.
Takes(w, t, n, c) ==
    /\ id_valid = 0 .. c - 1 /\ Cardinality(id_valid) = c
    /\ c <= t \/ n >= 1
    /\ \A i \in 0 .. c - 1 : Len(w[i]) >= 1 /\ id(i) = w[i][1]

\* The instructions the decoder takes are the oldest.
LEMMA Decoded ==
    ASSUME NEW w, w = Rows(q, head), q \in [Lanes -> Seq(Entry)], head \in Lanes, NEW first, NEW nxt,
           NEW t \in Lanes, NEW n \in Nat, Filled(w, first, nxt, t, n)
    PROVE  \E c \in 0 .. IW : Takes(w, t, n, c)
  <1>0. FW \in Nat \ {0} /\ t \in Nat /\ t < FW /\ IW \in Nat /\ 1 <= IW /\ IW <= FW
    BY Sizes DEF Lanes
  <1>1. PICK c \in 0 .. IW : c = IF n >= 1 THEN IW ELSE IF t < IW THEN t ELSE IW
    BY <1>0
  <1>2. ASSUME NEW i \in 0 .. IW - 1
        PROVE  /\ w[i] = q[(i + head) % FW] /\ w[i] \in Seq(Entry) /\ i \in Lanes
               /\ Len(w[i]) = IF i < t THEN n + 1 ELSE n
    <2>1. i \in Lanes
      BY <1>0 DEF Lanes
    <2>2. w[i] = q[Bank(head, i)]
      BY <2>1 DEF Rows
    <2>3. Bank(head, i) \in Lanes
      BY <2>1, Banks
    <2>4. Bank(head, i) = (i + head) % FW
      BY Zenon DEF Bank, Rem
    <2>5. Len(w[i]) = IF i < t THEN n + 1 ELSE n
      BY <2>1 DEF Filled
    <2> QED
      BY <2>1, <2>2, <2>3, <2>4, <2>5, Zenon
  <1>3. ASSUME NEW i \in 0 .. IW - 1
        PROVE  q[(i + head) % FW] # <<>> <=> i < c
    <2>1. w[i] # <<>> <=> Len(w[i]) >= 1
      BY <1>2
    <2>2. Len(w[i]) >= 1 <=> i < c
      BY <1>0, <1>1, <1>2
    <2> QED
      BY <1>2, <2>1, <2>2
  <1>4. id_valid = 0 .. c - 1
    <2>1. id_valid = {i \in 0 .. IW - 1 : i < c}
      BY <1>3, Zenon DEF id_valid
    <2> QED
      BY <1>0, <2>1
  <1>5. Cardinality(0 .. c - 1) = c
    BY <1>0, Interval
  <1>6. c <= t \/ n >= 1
    BY <1>0, <1>1
  <1>7. ASSUME NEW i \in 0 .. c - 1 PROVE Len(w[i]) >= 1 /\ id(i) = w[i][1]
    <2>1. i \in 0 .. IW - 1 /\ i < c
      BY <1>0
    <2>2. w[i] = q[(i + head) % FW] /\ w[i] \in Seq(Entry)
      BY <1>2, <2>1
    <2>3. w[i] # <<>>
      BY <1>3, <2>1, <2>2
    <2>4. id(i) = Head(w[i])
      BY <2>2, Zenon DEF id
    <2> QED
      BY <2>2, <2>3, <2>4
  <1> QED
    BY <1>4, <1>5, <1>6, <1>7 DEF Takes

\* A set of lanes has a first one.
LEMMA Least ==
    ASSUME NEW S, S \subseteq Nat, S # {}
    PROVE  \E l \in S : \A j \in S : l <= j
  <1>1. PICK l \in S : \A j \in S : ~(<<j, l>> \in OpToRel(<, Nat))
    BY NatLessThanWellFounded, WFMin, Zenon
  <1>2. \A j \in S : ~(j < l)
    BY <1>1, Zenon DEF OpToRel
  <1> QED
    BY <1>2

\* The banks in their order after a pop.
LEMMA RowsPopped ==
    ASSUME q \in [Lanes -> Seq(Entry)], head \in Lanes, NEW p \in 0 .. FW, NEW z,
           z = [b \in Lanes |-> IF que_pop(b, p) THEN Tail(q[b]) ELSE q[b]]
    PROVE  Rows(z, Rem(head + p, FW)) = Popped(Rows(q, head), p)
  <1>0. FW \in Nat \ {0} /\ p \in Nat /\ \A j \in Lanes : j \in Nat /\ j < FW
    BY Sizes DEF Lanes
  <1>1. ASSUME NEW j \in Lanes
        PROVE  z[Bank(Rem(head + p, FW), j)] = IF j + p < FW THEN Rows(q, head)[j + p] ELSE Tail(Rows(q, head)[(j + p) - FW])
    <2>1. PICK i \in Lanes : i = Shift(p, j)
      BY BankShift
    <2>2. Bank(Rem(head + p, FW), j) = Bank(head, i)
      BY <2>1, BankShift
    <2>3. PICK b \in Lanes : b = Bank(head, i) /\ Rem(b - head, FW) = i
      BY Banks
    <2>4. que_pop(b, p) <=> i < p
      BY <2>3, Zenon DEF que_pop, Rem
    <2>5. z[b] = IF i < p THEN Tail(q[b]) ELSE q[b]
      BY <2>4
    <2>6. Rows(q, head)[i] = q[b]
      BY <2>3 DEF Rows
    <2>7. CASE j + p < FW
      <3>1. i = j + p /\ ~(i < p)
        BY <1>0, <2>1, <2>7 DEF Shift
      <3> QED
        BY <2>2, <2>3, <2>5, <2>6, <2>7, <3>1
    <2>8. CASE ~(j + p < FW)
      <3>1. i = (j + p) - FW /\ i < p
        BY <1>0, <2>1, <2>8 DEF Shift
      <3> QED
        BY <2>2, <2>3, <2>5, <2>6, <2>8, <3>1, Zenon
    <2> QED
      BY <2>7, <2>8
  <1>2. PICK w : w = Rows(q, head)
    OBVIOUS
  <1>3. PICK g : g = Rem(head + p, FW)
    OBVIOUS
  <1>4. \A j \in Lanes : z[Bank(g, j)] = IF j + p < FW THEN w[j + p] ELSE Tail(w[(j + p) - FW])
    BY <1>1, <1>2, <1>3, Zenon
  <1>5. Rows(z, g) = [j \in Lanes |-> z[Bank(g, j)]]
    BY DEF Rows
  <1>6. Rows(z, g) = Popped(w, p)
    BY <1>4, <1>5, Zenon DEF Popped
  <1> QED
    BY <1>2, <1>3, <1>6

\* A bank is a number less than their count.
LEMMA InLanes == \A a, b \in Nat : a + b < FW => a + b \in Lanes
  BY Sizes DEF Lanes

\* The distance of a bank from the tail.
LEMMA Distance ==
    ASSUME NEW h \in Lanes, NEW t \in Lanes, NEW j \in Lanes, NEW o \in Lanes
    PROVE  /\ Rem(Bank(h, j) - Bank(h, t), FW) = Dist(t, j)
           /\ Dist(t, j) \in Lanes
           /\ Dist(t, j) + o < FW => Rem((Bank(h, j) - Bank(h, t)) + o, FW) = Dist(t, j) + o
  <1>0. /\ FW \in Nat \ {0} /\ h \in Int /\ t \in Int /\ j \in Int /\ o \in Int
        /\ 0 <= h /\ h < FW /\ 0 <= t /\ t < FW /\ 0 <= j /\ j < FW /\ 0 <= o /\ o < FW
    BY Sizes DEF Lanes
  <1>1. \A x \in Int : 0 <= x /\ x < FW + FW => Rem(x, FW) = IF x < FW THEN x ELSE x - FW
    BY <1>0, Mod
  <1>2. PICK y \in Int, x \in Int : y = j + h /\ x = t + h
    BY <1>0
  <1>3. PICK b \in Int, a \in Int : b = Bank(h, j) /\ a = Bank(h, t) /\ b = (IF y < FW THEN y ELSE y - FW)
                                    /\ a = (IF x < FW THEN x ELSE x - FW)
    <2>1. Bank(h, j) = (IF y < FW THEN y ELSE y - FW)
      BY <1>0, <1>1, <1>2 DEF Bank
    <2>2. Bank(h, t) = (IF x < FW THEN x ELSE x - FW)
      BY <1>0, <1>1, <1>2 DEF Bank
    <2>3. (IF y < FW THEN y ELSE y - FW) \in Int /\ (IF x < FW THEN x ELSE x - FW) \in Int
      BY <1>0
    <2> QED
      BY <2>1, <2>2, <2>3
  <1>4. PICK d \in Int : d = IF j >= t THEN j - t ELSE (j - t) + FW
    <2>1. (IF j >= t THEN j - t ELSE (j - t) + FW) \in Int
      BY <1>0
    <2> QED
      BY <2>1
  <1>5. 0 <= d /\ d < FW /\ (b - a = d \/ b - a = d - FW)
    BY <1>0, <1>2, <1>3, <1>4
  <1>6. PICK c \in Int : c = b - a
    OBVIOUS
  <1>7. Rem(c, FW) = d
    BY <1>0, <1>5, <1>6, Mod
  <1>8. PICK e \in Int : e = c + o
    BY <1>0
  <1>9. d + o < FW => Rem(e, FW) = d + o
    BY <1>0, <1>5, <1>6, <1>8, Mod
  <1>10. Dist(t, j) = d /\ d \in Lanes
    BY <1>0, <1>4, <1>5 DEF Dist, Lanes
  <1> QED
    BY <1>3, <1>6, <1>7, <1>8, <1>9, <1>10

\* Where the tail goes.
LEMMA TailMoves ==
    ASSUME NEW h \in Lanes, NEW t \in Lanes, NEW m \in 0 .. FW
    PROVE  Rem(Bank(h, t) + m, FW) = Bank(h, Shift(m, t)) /\ Shift(m, t) \in Lanes
  <1>0. /\ FW \in Nat \ {0} /\ h \in Int /\ t \in Int /\ m \in Int
        /\ 0 <= h /\ h < FW /\ 0 <= t /\ t < FW /\ 0 <= m /\ m <= FW
    BY Sizes DEF Lanes
  <1>1. \A x \in Int : 0 <= x /\ x < FW + FW => Rem(x, FW) = IF x < FW THEN x ELSE x - FW
    BY <1>0, Mod
  <1>2. PICK x \in Int : x = t + h
    BY <1>0
  <1>3. PICK a \in Int : a = Bank(h, t) /\ a = (IF x < FW THEN x ELSE x - FW)
    <2>1. Bank(h, t) = (IF x < FW THEN x ELSE x - FW)
      BY <1>0, <1>1, <1>2 DEF Bank
    <2>2. (IF x < FW THEN x ELSE x - FW) \in Int
      BY <1>0
    <2> QED
      BY <2>1, <2>2
  <1>4. PICK i \in Int : i = IF t + m < FW THEN t + m ELSE (t + m) - FW
    <2>1. (IF t + m < FW THEN t + m ELSE (t + m) - FW) \in Int
      BY <1>0
    <2> QED
      BY <2>1
  <1>5. Shift(m, t) = i /\ 0 <= i /\ i < FW
    BY <1>0, <1>4 DEF Shift
  <1>6. PICK y \in Int, z \in Int : y = a + m /\ z = i + h
    BY <1>0
  <1>7. Rem(y, FW) = (IF y < FW THEN y ELSE y - FW) /\ Rem(z, FW) = (IF z < FW THEN z ELSE z - FW)
    BY <1>0, <1>1, <1>2, <1>3, <1>5, <1>6
  <1>8. Rem(y, FW) = Rem(z, FW)
    BY <1>0, <1>2, <1>3, <1>4, <1>5, <1>6, <1>7
  <1> QED
    BY <1>0, <1>3, <1>5, <1>6, <1>8 DEF Bank, Lanes
-----------------------------------------------------------------------------
\* The windows in the two stages of the I$.
LEMMA Stages ==
    ASSUME Typed
    PROVE  ic[1] \in Int /\ ic[2] \in Int
  <1>1. ic \in Seq(Int) /\ 1 \in 1 .. Len(ic) /\ 2 \in 1 .. Len(ic)
    BY DEF Typed
  <1> QED
    BY <1>1

\* An instruction of the window that leaves the I$.
LEMMA Instruction ==
    ASSUME Typed, NEW i \in Lanes
    PROVE  iq(i) \in Entry /\ iq(i).pc = s2.pcs[i] /\ follow(iq(i)) = Leads(i)
  <1>1. s2.pcs[i] \in PC /\ s2.pred[i] \in Preds0 /\ s2.exc \in BOOLEAN
    BY DEF Typed, Window2
  <1>2. ic[2] \in Int /\ i \in Int
    BY Stages, Sizes DEF Lanes
  <1>3. (IF s2.exc THEN None ELSE ic[2] + i) \in Int
    BY <1>2 DEF None
  <1>4. iq(i) = [ins |-> IF s2.exc THEN None ELSE ic[2] + i, pc |-> s2.pcs[i], exc |-> s2.exc, pred |-> s2.pred[i]]
    BY Zenon DEF iq
  <1>5. iq(i) \in Entry
    BY <1>1, <1>3, <1>4 DEF Entry
  <1>6. iq(i).pc = s2.pcs[i] /\ iq(i).pred = s2.pred[i]
    BY <1>4
  <1> QED
    BY <1>5, <1>6 DEF follow, Leads

\* The instructions of the window.
Items == [i \in 0 .. s2.cnt - 1 |-> iq(i + s2.offset)]

\* A push of the window puts its instructions into the banks in turn.
LEMMA RowsPushed ==
    ASSUME Typed, Delivered, s2.cnt > 0, NEW h \in Lanes, NEW t \in Lanes, tail = Bank(h, t),
           NEW z \in [Lanes -> Seq(Entry)], NEW y,
           y = [b \in Lanes |-> IF que_push(b, s2.cnt) THEN Append(z[b], que_din(b)) ELSE z[b]],
           NEW j \in Lanes
    PROVE  PushedAt(Rows(z, h), Rows(y, h), Items, t, s2.cnt, j)
  <1>0. /\ FW \in Nat \ {0} /\ s2.cnt \in Nat /\ s2.offset \in Lanes /\ s2.offset \in Nat /\ s2.cnt <= FW
        /\ s2.offset + s2.cnt <= FW
    BY Sizes DEF Typed, Delivered, Window2, Lanes
  <1>1. PICK b \in Lanes : b = Bank(h, j)
    BY Banks
  <1>2. PICK d \in Nat : d = Dist(t, j) /\ d \in Lanes
    <2>1. Dist(t, j) \in Lanes
      BY Distance, Zenon
    <2>2. Dist(t, j) \in Nat
      <3>1. \A x \in Lanes : x \in Nat
        BY DEF Lanes
      <3> QED
        BY <2>1, <3>1, Zenon
    <2> QED
      BY <2>1, <2>2, Zenon
  <1>3. que_push(b, s2.cnt) <=> d < s2.cnt
    <2>1. Rem(b - tail, FW) = d
      BY <1>0, <1>1, <1>2, Distance
    <2> QED
      BY <2>1, Zenon DEF que_push, Rem
  <1>4. d < s2.cnt => que_din(b) = Items[d] /\ que_din(b) \in Entry
    <2> SUFFICES ASSUME d < s2.cnt PROVE que_din(b) = Items[d] /\ que_din(b) \in Entry
      OBVIOUS
    <2>1. d + s2.offset < FW
      BY <1>0
    <2>2. Rem((b - tail) + s2.offset, FW) = d + s2.offset
      BY <1>0, <1>1, <1>2, <2>1, Distance
    <2>3. que_din(b) = iq(d + s2.offset)
      BY <2>2, Zenon DEF que_din, Rem
    <2>4. d + s2.offset \in Lanes
      BY <1>0, <1>2, <2>1, InLanes, Zenon
    <2>5. d \in 0 .. s2.cnt - 1
      BY <1>0
    <2>6. Items[d] = iq(d + s2.offset)
      BY <2>5 DEF Items
    <2> QED
      BY <2>3, <2>4, <2>6, Instruction
  <1>5. Rows(z, h)[j] = z[b] /\ Rows(y, h)[j] = y[b]
    BY <1>1 DEF Rows
  <1>6. PICK x \in Seq(Entry) : x = z[b]
    OBVIOUS
  <1>7. PICK v : v = y[b]
    OBVIOUS
  <1>8. CASE d < s2.cnt
    <2>1. v = Append(x, Items[d]) /\ Items[d] \in Entry
      BY <1>3, <1>4, <1>6, <1>7, <1>8
    <2>2. /\ v \in Seq(Entry) /\ Len(x) \in Nat /\ Len(v) = Len(x) + 1
          /\ v[Len(x) + 1] = Items[d] /\ \A k \in 1 .. Len(x) : v[k] = x[k]
      BY <2>1
    <2> QED
      BY <1>2, <1>5, <1>6, <1>7, <1>8, <2>2, Zenon DEF PushedAt
  <1>9. CASE ~(d < s2.cnt)
    <2>1. v = x
      BY <1>3, <1>6, <1>7, <1>9
    <2>2. Len(x) \in Nat
      OBVIOUS
    <2> QED
      BY <1>2, <1>5, <1>6, <1>7, <1>9, <2>1, <2>2, Zenon DEF PushedAt
  <1> QED
    BY <1>8, <1>9

\* The instructions of the window are on the path.
LEMMA ItemsInPath ==
    ASSUME Typed, Delivered, s2.cnt > 0
    PROVE  /\ InPath(Items, s2.cnt, s2.pcs[s2.offset])
           /\ follow(Items[s2.cnt - 1]) = pc
  <1>0. /\ FW \in Nat \ {0} /\ s2.cnt \in Nat /\ s2.offset \in Lanes /\ s2.offset \in Nat /\ s2.cnt <= FW
        /\ s2.offset + s2.cnt <= FW
    BY Sizes DEF Typed, Delivered, Window2, Lanes
  <1>1. ASSUME NEW i \in 0 .. s2.cnt - 1
        PROVE  /\ Items[i].pc = s2.pcs[i + s2.offset] /\ follow(Items[i]) = Leads(i + s2.offset)
    <2>1. i + s2.offset \in Lanes
      BY <1>0 DEF Lanes
    <2>2. Items[i] = iq(i + s2.offset)
      BY DEF Items
    <2> QED
      BY <2>1, <2>2, Instruction
  <1>2. Items[0].pc = s2.pcs[s2.offset]
    <2>1. 0 \in 0 .. s2.cnt - 1 /\ 0 + s2.offset = s2.offset
      BY <1>0
    <2> QED
      BY <1>1, <2>1
  <1>3. ASSUME NEW i \in 1 .. s2.cnt - 1 PROVE Items[i].pc = follow(Items[i - 1])
    <2>1. PICK e \in Nat : e = (i - 1) + s2.offset
      BY <1>0
    <2>2. e \in s2.offset .. s2.offset + s2.cnt - 2 /\ i \in 0 .. s2.cnt - 1 /\ i - 1 \in 0 .. s2.cnt - 1
          /\ i + s2.offset = e + 1
      BY <1>0, <2>1
    <2>3. s2.pcs[e + 1] = Leads(e)
      BY <2>2 DEF Delivered
    <2> QED
      BY <1>1, <2>1, <2>2, <2>3
  <1>4. follow(Items[s2.cnt - 1]) = pc
    <2>1. s2.cnt - 1 \in 0 .. s2.cnt - 1 /\ (s2.cnt - 1) + s2.offset = s2.offset + s2.cnt - 1
      BY <1>0
    <2>2. Leads(s2.offset + s2.cnt - 1) = pc
      BY DEF Delivered
    <2> QED
      BY <1>1, <2>1, <2>2
  <1> QED
    BY <1>2, <1>3, <1>4 DEF InPath
-----------------------------------------------------------------------------
\* The prefetch buffer after a pop and a push: it holds the path from the new oldest
\* entry to pc, or to what it led to.
BufferNext(push, pop) ==
    /\ q_nxt(push, pop) \in [Lanes -> Seq(Entry)]
    /\ (IF pop = 0 THEN expect ELSE follow(id(pop - 1))) \in PC
    /\ Rem(head + pop, FW) \in Lanes /\ Rem(tail + push, FW) \in Lanes
    /\ Holds(q_nxt(push, pop), Rem(head + pop, FW), Rem(tail + push, FW),
             IF pop = 0 THEN expect ELSE follow(id(pop - 1)), IF push = 0 THEN Enters ELSE pc)

\* What follows an instruction is an address.
LEMMA Follow ==
    ASSUME NEW x \in Entry
    PROVE  follow(x) \in PC
  <1>1. x.pc \in PC /\ x.pred \in Preds0
    BY DEF Entry
  <1>2. PICK y \in Int : y = x.pc + 1
    BY <1>1, Sizes DEF PC
  <1>3. Rem(y, PCS) \in PC
    BY Sizes, Mod DEF PC
  <1>4. follow(x) = IF x.pred # NotTaken THEN x.pred ELSE Rem(y, PCS)
    BY <1>2, Zenon DEF follow, Rem
  <1> QED
    BY <1>1, <1>3, <1>4 DEF Preds0

\* The prefetch buffer goes on from any state, and the decoder sees the path.
LEMMA BufferSteps ==
    ASSUME IInv, NEW stall \in BOOLEAN, NEW push \in {0, s2.cnt}
    PROVE  BufferNext(push, id_pop_cnt(stall)) /\ DecodesPath
  <1>0. /\ FW \in Nat \ {0} /\ IW \in Nat /\ IW <= FW /\ FW - 1 \in Lanes
        /\ q \in [Lanes -> Seq(Entry)] /\ head \in Lanes /\ tail \in Lanes /\ s2.cnt \in 0 .. FW
    BY Sizes DEF IInv, Typed, Window2, Lanes
  <1>1. PICK w : w = Rows(q, head)
    OBVIOUS
  <1>2. w \in [Lanes -> Seq(Entry)] /\ \A j \in Lanes : w[j] = q[Bank(head, j)]
    <2>1. \A j \in Lanes : Bank(head, j) \in Lanes
      BY <1>0, Banks
    <2> QED
      BY <1>0, <1>1, <2>1 DEF Rows
  <1>3. PICK n \in Nat : n = Len(w[FW - 1])
    BY <1>0, <1>2
  <1>4. PICK t \in Lanes : tail = Bank(head, t) /\ Filled(w, expect, Enters, t, n)
    <2>1. PICK t \in Lanes : tail = Bank(head, t)
                             /\ Filled(Rows(q, head), expect, Enters, t, Len(q[Bank(head, FW - 1)]))
      BY DEF IInv, Holds
    <2>2. Len(q[Bank(head, FW - 1)]) = n
      BY <1>0, <1>2, <1>3
    <2> QED
      BY <1>1, <2>1, <2>2
  <1>5. PICK c \in 0 .. IW : /\ id_valid = 0 .. c - 1 /\ Cardinality(id_valid) = c
                             /\ c <= t \/ n >= 1
                             /\ \A i \in 0 .. c - 1 : Len(w[i]) >= 1 /\ id(i) = w[i][1]
    <2>1. PICK c \in 0 .. IW : Takes(w, t, n, c)
      BY <1>0, <1>1, <1>4, Decoded
    <2> QED
      BY <2>1 DEF Takes
  <1>6. DecodesPath
    <2> SUFFICES ASSUME NEW i \in id_valid
                 PROVE  id(i).pc = IF i = 0 THEN expect ELSE follow(id(i - 1))
      BY DEF DecodesPath
    <2>1. i \in 0 .. c - 1 /\ i \in Lanes /\ i \in Nat
      BY <1>0, <1>5 DEF Lanes
    <2>2. id(i) = w[i][1] /\ Len(w[i]) >= 1 /\ Len(w[i]) \in Nat
      BY <1>2, <1>5, <2>1
    <2>3. w[i][1].pc = Before(w, expect, i, 1)
      <3>1. 1 \in 1 .. Len(w[i])
        BY <2>2
      <3> QED
        BY <1>4, <2>1, <3>1 DEF Filled
    <2>4. CASE i = 0
      BY <2>2, <2>3, <2>4 DEF Before
    <2>5. CASE i # 0
      <3>1. i - 1 \in 0 .. c - 1 /\ i > 0
        BY <1>5, <2>1, <2>5
      <3>2. id(i - 1) = w[i - 1][1]
        BY <1>5, <3>1
      <3> QED
        BY <2>2, <2>3, <2>5, <3>1, <3>2 DEF Before
    <2> QED
      BY <2>4, <2>5
  <1>7. PICK p \in 0 .. FW : p = id_pop_cnt(stall) /\ p \in {0, c}
    BY <1>0, <1>5 DEF id_pop_cnt
  <1>8. p <= t \/ n >= 1
    BY <1>0, <1>5, <1>7 DEF Lanes
  <1>9. PICK first : first = IF p = 0 THEN expect ELSE follow(id(p - 1))
    OBVIOUS
  <1>10. first = Oldest(w, expect, p)
    <2>1. p # 0 => p - 1 \in 0 .. c - 1
      BY <1>5, <1>7
    <2>2. p # 0 => id(p - 1) = w[p - 1][1]
      BY <1>5, <2>1
    <2> QED
      BY <1>9, <2>2 DEF Oldest
  <1>22. first \in PC
    <2>1. expect \in PC
      BY DEF IInv, Typed
    <2>2. CASE p # 0
      <3>1. p - 1 \in 0 .. c - 1 /\ p - 1 \in Lanes
        BY <1>0, <1>5, <1>7, <2>2 DEF Lanes
      <3>2. w[p - 1] \in Seq(Entry) /\ 1 \in 1 .. Len(w[p - 1]) /\ id(p - 1) = w[p - 1][1]
        BY <1>2, <1>5, <3>1
      <3>3. id(p - 1) \in Entry
        BY <3>2
      <3> QED
        BY <1>9, <2>2, <3>3, Follow
    <2> QED
      BY <1>9, <2>1, <2>2
  <1>11. PICK g \in Lanes : g = Rem(head + p, FW)
    BY <1>0, BankShift, Zenon
  <1>12. PICK z : z = [b \in Lanes |-> IF que_pop(b, p) THEN Tail(q[b]) ELSE q[b]]
    BY Zenon
  <1>13. PICK y : y = Popped(w, p)
    OBVIOUS
  <1>14. Rows(z, g) = y
    BY <1>0, <1>1, <1>11, <1>12, <1>13, RowsPopped, Zenon
  <1>15. \A j \in Lanes : y[j] \in Seq(Entry) /\ y[j] = z[Bank(g, j)]
    <2>1. \A j \in Lanes : PoppedFrom(Popped(w, p)[j], w[Shift(p, j)], Moved(p, j))
      BY <1>2, <1>4, <1>8, PoppedRow, Zenon
    <2>2. \A j \in Lanes : y[j] \in Seq(Entry)
      BY <1>13, <2>1 DEF PoppedFrom
    <2> QED
      BY <1>14, <2>2 DEF Rows
  <1>16. z \in [Lanes -> Seq(Entry)]
    <2>1. \A b \in Lanes : z[b] \in Seq(Entry)
      BY <1>11, <1>15, BankAt, ZenonT(40)
    <2> QED
      BY <1>12, <2>1
  <1>17. PICK t1 \in Lanes, n1 \in Nat : Filled(y, first, Enters, t1, n1) /\ Shift(p, t1) = t
    BY <1>2, <1>4, <1>8, <1>10, <1>13, PopFilled
  <1>18. tail = Bank(g, t1)
    BY <1>0, <1>4, <1>11, <1>17, BankShift
  <1>19. q_nxt(push, p) = [b \in Lanes |-> IF que_push(b, push) THEN Append(z[b], que_din(b)) ELSE z[b]]
    BY <1>12 DEF q_nxt
  <1>20. CASE push = 0
    <2>1. \A b \in Lanes : ~que_push(b, 0)
      <3>1. ASSUME NEW b \in Lanes PROVE Rem(b - tail, FW) \in 0 .. FW - 1
        <4>1. PICK x \in Int : x = b - tail
          BY <1>0 DEF Lanes
        <4> QED
          BY <1>0, <4>1, Mod, Zenon
      <3>2. ASSUME NEW b \in Lanes PROVE ~(Rem(b - tail, FW) < 0)
        BY <1>0, <3>1
      <3> QED
        BY <3>2, Zenon DEF que_push, Rem
    <2>2. q_nxt(push, p) = z
      BY <1>16, <1>19, <1>20, <2>1
    <2>3. Rem(tail + push, FW) = tail
      <3>1. tail + push = tail /\ tail \in Int /\ 0 <= tail /\ tail < FW
        BY <1>0, <1>20 DEF Lanes
      <3> QED
        BY <1>0, <3>1, Mod
    <2>4. Len(z[Bank(g, FW - 1)]) = n1
      <3>1. Len(y[FW - 1]) = n1
        BY <1>0, <1>17 DEF Filled, Lanes
      <3> QED
        BY <1>0, <1>15, <3>1
    <2>5. Holds(z, g, tail, first, Enters)
      BY <1>14, <1>17, <1>18, <2>4 DEF Holds
    <2>6. BufferNext(push, p)
      BY <1>0, <1>9, <1>11, <1>16, <1>20, <1>22, <2>2, <2>3, <2>5 DEF BufferNext
    <2> QED
      BY <1>6, <1>7, <2>6
  <1>21. CASE push # 0
    <2>1. push = s2.cnt /\ s2.cnt > 0 /\ push \in 1 .. FW
      BY <1>0, <1>21
    <2>2. Enters = s2.pcs[s2.offset]
      BY <2>1, ZenonT(40) DEF Enters
    <2>3. InPath(Items, push, Enters) /\ follow(Items[push - 1]) = pc
      BY <2>1, <2>2, ItemsInPath, Zenon DEF IInv
    <2>4. PICK q1 : q1 = q_nxt(push, p)
      OBVIOUS
    <2>5. PICK x : x = Rows(q1, g)
      OBVIOUS
    <2>6. \A j \in Lanes : PushedAt(y, x, Items, t1, push, j)
      BY <1>14, <1>16, <1>18, <1>19, <2>1, <2>4, <2>5, RowsPushed, Zenon DEF IInv
    <2>7. PICK n2 \in Nat : Filled(x, first, pc, Shift(push, t1), n2)
      BY <1>17, <2>1, <2>3, <2>6, PushFilled, Zenon
    <2>8. Rem(tail + push, FW) = Bank(g, Shift(push, t1)) /\ Shift(push, t1) \in Lanes
      BY <1>18, <2>1, TailMoves
    <2>9. \A j \in Lanes : x[j] = q1[Bank(g, j)] /\ x[j] \in Seq(Entry)
      BY <2>5, <2>6 DEF Rows, PushedAt
    <2>10. q1 \in [Lanes -> Seq(Entry)]
      <3>1. ASSUME NEW b \in Lanes PROVE q1[b] \in Seq(Entry)
        <4>1. PICK j \in Lanes : b = Bank(g, j)
          BY BankAt
        <4> QED
          BY <2>9, <4>1
      <3>2. q1 = [b \in Lanes |-> IF que_push(b, push) THEN Append(z[b], que_din(b)) ELSE z[b]]
        BY <1>19, <2>4
      <3> QED
        BY <3>1, <3>2
    <2>11. Len(q1[Bank(g, FW - 1)]) = n2
      <3>1. Shift(push, t1) <= FW - 1
        BY <1>0, <2>8 DEF Lanes
      <3>2. Len(x[FW - 1]) = n2
        BY <1>0, <2>7, <2>8, <3>1 DEF Filled, Lanes
      <3> QED
        BY <1>0, <2>9, <3>2
    <2>12. Holds(q1, g, Rem(tail + push, FW), first, pc)
      BY <2>5, <2>7, <2>8, <2>11 DEF Holds
    <2>13. Rem(tail + push, FW) \in Lanes
      BY <2>8, Banks
    <2>14. BufferNext(push, p)
      BY <1>9, <1>11, <1>21, <1>22, <2>4, <2>10, <2>12, <2>13 DEF BufferNext
    <2> QED
      BY <1>6, <1>7, <2>14
  <1> QED
    BY <1>20, <1>21
-----------------------------------------------------------------------------
\* The lanes o .. o + c - 1 of a window are a path that leads to a.
Lead(pcs, pred, i) == IF pred[i] # NotTaken THEN pred[i] ELSE Rem(pcs[i] + 1, PCS)
Path(pcs, pred, o, c, a) ==
    /\ o + c <= FW
    /\ \A i \in o .. o + c - 2 : pcs[i + 1] = Lead(pcs, pred, i)
    /\ Lead(pcs, pred, o + c - 1) = a

\* The lanes from pc to the end of the window are consecutive addresses.
LEMMA WindowPCs ==
    ASSUME Typed, Fetched, s1.aligned # {}
    PROVE  \E o \in Lanes : /\ s1.offset = o /\ s1.aligned = o .. FW - 1
                            /\ s1.pcs[o] = pc
                            /\ \A i \in o .. FW - 2 : s1.pcs[i + 1] = Rem(s1.pcs[i] + 1, PCS)
                            /\ Rem(s1.pcs[FW - 1] + 1, PCS) = Rem(pc + (FW - o), PCS)
  <1>0. FW \in Nat \ {0} /\ PCS \in Nat \ {0} /\ FW <= PCS /\ pc \in Nat /\ pc < PCS /\ pc \in PC
    BY Sizes DEF Typed, PC
  <1>1. PICK o \in Lanes : o = Rem(pc, FW)
    BY <1>0, Aligned
  <1>2. s1.offset = o /\ s1.aligned = o .. FW - 1 /\ s1.pcs = s1i_pc(pc) /\ push_offset(pc) = o
    BY <1>0, <1>1, Aligned DEF Fetched
  <1>3. o \in Nat /\ o < FW
    BY <1>0 DEF Lanes
  <1>4. ASSUME NEW i \in o .. FW - 1
        PROVE  s1.pcs[i] = Rem(pc + (i - o), PCS) /\ pc + (i - o) \in Nat /\ (pc + (i - o)) + 1 < 2 * PCS
    <2>1. i \in Lanes /\ pc + (i - o) \in Nat /\ (pc + i) - o = pc + (i - o) /\ (pc + (i - o)) + 1 < 2 * PCS
      BY <1>0, <1>3 DEF Lanes
    <2>2. s1.pcs[i] = Rem((pc + i) - o, PCS)
      BY <1>2, <2>1, Zenon DEF s1i_pc, Rem
    <2> QED
      BY <2>1, <2>2
  <1>5. ASSUME NEW i \in o .. FW - 1 PROVE Rem(s1.pcs[i] + 1, PCS) = Rem((pc + (i - o)) + 1, PCS)
    BY <1>0, <1>4, ModSucc
  <1>6. s1.pcs[o] = pc
    <2>1. o \in o .. FW - 1 /\ pc + (o - o) = pc /\ pc \in Int /\ 0 <= pc
      BY <1>0, <1>3
    <2>2. Rem(pc, PCS) = pc
      BY <1>0, <2>1, Mod
    <2> QED
      BY <1>4, <2>1, <2>2
  <1>7. ASSUME NEW i \in o .. FW - 2 PROVE s1.pcs[i + 1] = Rem(s1.pcs[i] + 1, PCS)
    <2>1. i \in o .. FW - 1 /\ i + 1 \in o .. FW - 1 /\ (pc + (i - o)) + 1 = pc + ((i + 1) - o)
      BY <1>0, <1>3
    <2> QED
      BY <1>4, <1>5, <2>1
  <1>8. Rem(s1.pcs[FW - 1] + 1, PCS) = Rem(pc + (FW - o), PCS)
    <2>1. FW - 1 \in o .. FW - 1 /\ (pc + ((FW - 1) - o)) + 1 = pc + (FW - o)
      BY <1>0, <1>3
    <2> QED
      BY <1>5, <2>1
  <1> QED
    BY <1>2, <1>6, <1>7, <1>8

\* The lanes of the window that go on to the next stage.
LEMMA WindowLanes ==
    ASSUME Typed, NEW o \in Lanes, s1.aligned = o .. FW - 1
    PROVE  \E m \in o .. FW - 1 :
               /\ push_cnt = (m - o) + 1
               /\ \A i \in o .. m - 1 : i \notin bpu_taken
               /\ bpu_taken = {} => m = FW - 1
               /\ bpu_taken # {} => m \in bpu_taken /\ pred_tgt = s1.pred[m]
  <1>0. FW \in Nat \ {0} /\ o \in Nat /\ o < FW
    BY Sizes DEF Lanes
  <1>1. bpu_taken \subseteq o .. FW - 1
    BY DEF bpu_taken
  <1>2. CASE bpu_taken = {}
    <2>1. s1.aligned \cap valid_msk = o .. FW - 1
      BY <1>0, <1>2 DEF valid_msk, Lanes
    <2>2. Cardinality(o .. FW - 1) = ((FW - 1) - o) + 1
      BY <1>0, Interval
    <2>3. FW - 1 \in o .. FW - 1 /\ push_cnt = ((FW - 1) - o) + 1
      <3>1. FW - 1 \in o .. FW - 1
        BY <1>0
      <3> QED
        BY <2>1, <2>2, <3>1, Zenon DEF push_cnt
    <2>4. \A i \in o .. (FW - 1) - 1 : i \notin bpu_taken
      BY <1>2
    <2> QED
      BY <1>2, <2>3, <2>4, Zenon
  <1>3. CASE bpu_taken # {}
    <2>1. bpu_taken \subseteq Nat
      BY <1>0, <1>1
    <2>2. PICK m \in bpu_taken : \A j \in bpu_taken : m <= j
      BY <1>3, <2>1, Least, Zenon
    <2>3. m \in o .. FW - 1 /\ m \in Nat
      BY <1>1, <2>1, <2>2
    <2>4. pred_tgt = s1.pred[m]
      <3>1. PICK l : l = CHOOSE i \in bpu_taken : \A j \in bpu_taken : i <= j
        OBVIOUS
      <3>2. l \in bpu_taken /\ \A j \in bpu_taken : l <= j
        BY <2>2, <3>1
      <3>3. l = m
        BY <2>1, <2>2, <3>2
      <3> QED
        BY <3>1, <3>3, Zenon DEF pred_tgt
    <2>5. s1.aligned \cap valid_msk = o .. m
      <3>1. \A i \in Lanes : i \in valid_msk <=> i <= m
        <4>1. \A i \in Lanes : i \in valid_msk <=> \A j \in bpu_taken : i <= j
          BY DEF valid_msk
        <4>2. ASSUME NEW i \in Lanes PROVE (\A j \in bpu_taken : i <= j) <=> i <= m
          BY <1>0, <2>1, <2>2, <2>3 DEF Lanes
        <4> QED
          BY <4>1, <4>2
      <3> QED
        BY <1>0, <2>3, <3>1 DEF Lanes
    <2>6. Cardinality(o .. m) = (m - o) + 1
      BY <1>0, <2>3, Interval
    <2>7. \A i \in o .. m - 1 : i \notin bpu_taken
      BY <1>0, <2>2, <2>3
    <2> QED
      BY <1>3, <2>2, <2>3, <2>4, <2>5, <2>6, <2>7, Zenon DEF push_cnt
  <1> QED
    BY <1>2, <1>3

\* Where the front end fetches next, if it is not redirected.
NextPC == IF bpu_taken # {} THEN pred_tgt ELSE Rem(pc + push_cnt, PCS)

\* The window at pc goes on as a path from pc to the next pc.
LEMMA WindowPath ==
    ASSUME Typed, Fetched, s1.aligned # {}, NEW pred,
           pred = [i \in Lanes |-> IF i \in bpu_taken THEN s1.pred[i] ELSE NotTaken]
    PROVE  /\ push_cnt \in 1 .. FW /\ s1.pcs[s1.offset] = pc
           /\ Path(s1.pcs, pred, s1.offset, push_cnt, NextPC)
           /\ NextPC \in PC
  <1>0. FW \in Nat \ {0} /\ PCS \in Nat \ {0} /\ pc \in Nat
    BY Sizes DEF Typed, PC
  <1>1. PICK o \in Lanes : /\ s1.offset = o /\ s1.aligned = o .. FW - 1
                           /\ s1.pcs[o] = pc
                           /\ \A i \in o .. FW - 2 : s1.pcs[i + 1] = Rem(s1.pcs[i] + 1, PCS)
                           /\ Rem(s1.pcs[FW - 1] + 1, PCS) = Rem(pc + (FW - o), PCS)
    BY WindowPCs
  <1>2. PICK m \in o .. FW - 1 :
               /\ push_cnt = (m - o) + 1
               /\ \A i \in o .. m - 1 : i \notin bpu_taken
               /\ bpu_taken = {} => m = FW - 1
               /\ bpu_taken # {} => m \in bpu_taken /\ pred_tgt = s1.pred[m]
    BY <1>1, WindowLanes
  <1>3. o \in Nat /\ o < FW /\ m \in Nat /\ m \in Lanes /\ o <= m /\ m <= FW - 1
    BY <1>0 DEF Lanes
  <1>4. push_cnt \in 1 .. FW /\ o + push_cnt <= FW /\ o + push_cnt - 1 = m /\ o + push_cnt - 2 = m - 1
    BY <1>0, <1>2, <1>3
  <1>5. ASSUME NEW i \in o .. m - 1 PROVE s1.pcs[i + 1] = Lead(s1.pcs, pred, i)
    <2>1. i \in o .. FW - 2 /\ i \in Lanes
      BY <1>0, <1>3 DEF Lanes
    <2>2. pred[i] = NotTaken
      BY <1>2, <2>1
    <2> QED
      BY <1>1, <2>1, <2>2 DEF Lead
  <1>6. Lead(s1.pcs, pred, m) = NextPC /\ NextPC \in PC
    <2>1. CASE bpu_taken = {}
      <3>1. pred[m] = NotTaken /\ m = FW - 1 /\ push_cnt = FW - o
        BY <1>0, <1>2, <1>3, <2>1
      <3>2. Lead(s1.pcs, pred, m) = Rem(pc + push_cnt, PCS)
        BY <1>1, <3>1 DEF Lead
      <3>3. PICK x \in Int : x = pc + push_cnt
        BY <1>0, <1>4
      <3>4. Rem(x, PCS) \in PC
        BY <1>0, Mod DEF PC
      <3> QED
        BY <2>1, <3>2, <3>3, <3>4 DEF NextPC
    <2>2. CASE bpu_taken # {}
      <3>1. pred[m] = s1.pred[m] /\ s1.pred[m] # NotTaken /\ s1.pred[m] \in Preds0
        BY <1>2, <1>3, <2>2 DEF bpu_taken, Typed, Window1
      <3> QED
        BY <1>2, <2>2, <3>1 DEF Lead, NextPC, Preds0
    <2> QED
      BY <2>1, <2>2
  <1>7. Path(s1.pcs, pred, o, push_cnt, NextPC)
    <2>1. \A i \in o .. o + push_cnt - 2 : s1.pcs[i + 1] = Lead(s1.pcs, pred, i)
      BY <1>4, <1>5
    <2>2. o + push_cnt - 1 = m
      BY <1>4
    <2> QED
      BY <1>4, <1>6, <2>1, <2>2, Zenon DEF Path
  <1> QED
    BY <1>1, <1>4, <1>6, <1>7
-----------------------------------------------------------------------------
\* Nothing goes on from an empty stage, and pc stays.
LEMMA NoWindow ==
    ASSUME Typed, s1.aligned = {}
    PROVE  bpu_taken = {} /\ push_cnt = 0 /\ NextPC = pc
  <1>0. PCS \in Nat \ {0} /\ pc \in Int /\ 0 <= pc /\ pc < PCS /\ pc + 0 = pc
    BY Sizes DEF Typed, PC
  <1>1. bpu_taken = {}
    BY DEF bpu_taken
  <1>2. s1.aligned \cap valid_msk = {}
    OBVIOUS
  <1>3. push_cnt = 0
    BY <1>2, FS_EmptySet DEF push_cnt
  <1>4. Rem(pc, PCS) = pc
    BY <1>0, Mod
  <1> QED
    BY <1>0, <1>1, <1>3, <1>4 DEF NextPC

\* The window of an address.
LEMMA WindowAt ==
    ASSUME NEW a \in PC
    PROVE  /\ fetch_aligned(a) \in SUBSET Lanes /\ push_offset(a) \in Lanes
           /\ s1i_pc(a) \in [Lanes -> PC] /\ window(a) \in Nat
  <1>0. FW \in Nat \ {0} /\ PCS \in Nat \ {0} /\ a \in Nat
    BY Sizes DEF PC
  <1>1. Rem(a, FW) \in Lanes /\ push_offset(a) = Rem(a, FW)
    BY Aligned
  <1>2. fetch_aligned(a) \in SUBSET Lanes
    BY DEF fetch_aligned
  <1>3. s1i_pc(a) \in [Lanes -> PC]
    <2>1. PICK o \in Lanes : o = push_offset(a)
      BY <1>1
    <2>2. ASSUME NEW i \in Lanes PROVE Rem(a + (i - o), PCS) \in PC
      <3>1. PICK x \in Int : x = a + (i - o)
        BY <1>0 DEF Lanes
      <3> QED
        BY <1>0, <3>1, Mod DEF PC
    <2>3. s1i_pc(a) = [i \in Lanes |-> Rem(a + (i - o), PCS)]
      BY <2>1, Zenon DEF s1i_pc, Rem
    <2> QED
      BY <2>2, <2>3
  <1>4. window(a) \in Nat
    <2>1. Rem(a, FW) \in Nat /\ Rem(a, FW) <= a
      <3>1. CASE a < FW
        BY <1>0, <3>1, Mod
      <3>2. CASE ~(a < FW)
        BY <1>0, <1>1, <3>2 DEF Lanes
      <3> QED
        BY <3>1, <3>2
    <2>2. window(a) = a - Rem(a, FW)
      BY Zenon DEF window, Rem
    <2> QED
      BY <1>0, <2>1, <2>2
  <1> QED
    BY <1>1, <1>2, <1>3, <1>4

\* An empty prefetch buffer.
LEMMA EmptyHolds ==
    ASSUME NEW z, z = [b \in Lanes |-> <<>>], NEW a
    PROVE  z \in [Lanes -> Seq(Entry)] /\ 0 \in Lanes /\ Holds(z, 0, 0, a, a)
  <1>0. FW \in Nat \ {0} /\ 0 \in Lanes /\ FW - 1 \in Lanes
    BY Sizes DEF Lanes
  <1>1. z \in [Lanes -> Seq(Entry)]
    OBVIOUS
  <1>2. \A j \in Lanes : Bank(0, j) \in Lanes /\ z[Bank(0, j)] = <<>>
    BY <1>0, Banks
  <1>3. Bank(0, 0) = 0
    <2>1. 0 \in Int /\ 0 <= 0 /\ 0 < FW /\ 0 + 0 = 0
      BY <1>0
    <2>2. Rem(0, FW) = 0
      BY <1>0, <2>1, Mod
    <2> QED
      BY <2>1, <2>2 DEF Bank
  <1>4. PICK w : w = Rows(z, 0)
    OBVIOUS
  <1>5. \A j \in Lanes : w[j] = <<>> /\ Len(w[j]) = 0 /\ j \in Nat
    BY <1>0, <1>2, <1>4 DEF Rows, Lanes
  <1>6. Filled(w, a, a, 0, 0)
    <2>1. \A j \in Lanes : Len(w[j]) = IF j < 0 THEN 0 + 1 ELSE 0
      BY <1>5
    <2>2. \A j \in Lanes : \A k \in 1 .. Len(w[j]) : w[j][k].pc = Before(w, a, j, k)
      BY <1>5
    <2>3. a = Before(w, a, 0, 0 + 1)
      BY DEF Before
    <2> QED
      BY <2>1, <2>2, <2>3 DEF Filled
  <1>7. Len(z[Bank(0, FW - 1)]) = 0
    BY <1>0, <1>2
  <1> QED
    BY <1>0, <1>1, <1>3, <1>4, <1>6, <1>7 DEF Holds

\* Nothing is in the front end at reset.
LEMMA InitHolds == Init => IInv
  <1> SUFFICES ASSUME Init PROVE IInv
    OBVIOUS
  <1>0. 0 \in PC /\ 0 \in Lanes /\ 0 \in 0 .. FW
    BY Sizes DEF PC, Lanes
  <1>1. Typed
    <2>1. q \in [Lanes -> Seq(Entry)]
      BY EmptyHolds, Zenon DEF Init
    <2>2. s1 \in Window1 /\ s2 \in Window2
      BY <1>0 DEF Init, Window1, Window2, Preds0
    <2>3. ic = <<None, None>> /\ None \in Int
      BY DEF Init, None
    <2>4. ic \in Seq(Int) /\ Len(ic) = 2
      BY <2>3
    <2> QED
      BY <1>0, <2>1, <2>2, <2>4 DEF Init, Typed
  <1>2. Fetched /\ Delivered
    BY DEF Init, Fetched, Delivered
  <1>3. Enters = 0
    BY DEF Init, Enters
  <1>4. Holds(q, head, tail, expect, Enters)
    BY <1>3, EmptyHolds DEF Init
  <1> QED
    BY <1>1, <1>2, <1>4 DEF IInv
-----------------------------------------------------------------------------
\* A redirection empties the front end and starts the path anew.
LEMMA FlushStep ==
    ASSUME IInv, NEW ic_stall \in BOOLEAN, NEW rn_stall \in BOOLEAN, NEW flush_tgt \in PC,
           NEW pred \in [Lanes -> Preds0], NEW exc \in BOOLEAN,
           Clock(ic_stall, rn_stall, TRUE, flush_tgt, pred, exc)
    PROVE  IInv'
  <1> DEFINE p_ce == ~ic_stall /\ iq_ready
  <1>0. Typed
    BY DEF IInv
  <1>1. /\ pc' = flush_tgt /\ expect' = flush_tgt
        /\ q' = [b \in Lanes |-> <<>>] /\ head' = 0 /\ tail' = 0
    BY DEF Clock, pc_nxt
  <1>2. /\ s1' = [aligned |-> {},
                  pcs |-> IF p_ce THEN s1i_pc(flush_tgt) ELSE s1.pcs,
                  pred |-> IF p_ce THEN pred ELSE s1.pred,
                  exc |-> IF p_ce THEN exc ELSE s1.exc,
                  offset |-> IF p_ce THEN push_offset(flush_tgt) ELSE s1.offset]
        /\ ic' = IF p_ce THEN <<window(flush_tgt), ic[1]>> ELSE ic
    BY Zenon DEF Clock, pc_nxt
  <1>3. s2' = [cnt |-> 0,
               pcs |-> IF p_ce THEN s1.pcs ELSE s2.pcs,
               pred |-> IF p_ce THEN [i \in Lanes |-> IF i \in bpu_taken THEN s1.pred[i] ELSE NotTaken] ELSE s2.pred,
               exc |-> IF p_ce THEN s1.exc ELSE s2.exc,
               offset |-> IF p_ce THEN s1.offset ELSE s2.offset]
    BY Zenon DEF Clock
  <1> HIDE DEF p_ce
  <1>4. s1' \in Window1 /\ s1'.aligned = {}
    BY <1>0, <1>2, WindowAt, Zenon DEF Typed, Window1
  <1>5. s2' \in Window2 /\ s2'.cnt = 0
    <2>1. 0 \in 0 .. FW
      BY Sizes
    <2>2. \A P \in [Lanes -> Preds0] : [i \in Lanes |-> IF i \in bpu_taken THEN P[i] ELSE NotTaken] \in [Lanes -> Preds0]
      BY Zenon DEF Preds0
    <2> QED
      BY <1>0, <1>3, <2>1, <2>2, Zenon DEF Typed, Window1, Window2
  <1>6. ic' \in Seq(Int) /\ Len(ic') = 2
    <2>1. window(flush_tgt) \in Int /\ ic[1] \in Int
      BY <1>0, WindowAt, Stages
    <2>2. ic \in Seq(Int) /\ Len(ic) = 2
      BY <1>0 DEF Typed
    <2> QED
      BY <1>2, <2>1, <2>2
  <1>7. q' \in [Lanes -> Seq(Entry)] /\ 0 \in Lanes /\ Holds(q', 0, 0, flush_tgt, flush_tgt)
    BY <1>1, EmptyHolds, Zenon
  <1>8. Typed'
    BY <1>1, <1>4, <1>5, <1>6, <1>7, Zenon DEF Typed
  <1>9. Fetched' /\ Delivered'
    BY <1>4, <1>5 DEF Fetched, Delivered
  <1>10. Enters' = flush_tgt
    BY <1>1, <1>5 DEF Enters
  <1>11. Holds(q', head', tail', expect', Enters')
    BY <1>1, <1>7, <1>10
  <1> QED
    BY <1>8, <1>9, <1>11 DEF IInv

\* While the front end is held up only the decoder takes from the buffer.
LEMMA HeldStep ==
    ASSUME IInv, NEW ic_stall \in BOOLEAN, NEW rn_stall \in BOOLEAN, NEW pred, NEW exc,
           ~(~ic_stall /\ iq_ready), Clock(ic_stall, rn_stall, FALSE, 0, pred, exc)
    PROVE  IInv'
  <1>0. Typed /\ Fetched /\ Delivered
    BY DEF IInv
  <1>1. pc' = pc /\ ic' = ic
    BY Zenon DEF Clock, pc_nxt
  <1>2. s1' = [aligned |-> s1.aligned, pcs |-> s1.pcs, pred |-> s1.pred, exc |-> s1.exc, offset |-> s1.offset]
    BY Zenon DEF Clock
  <1>3. s2' = [cnt |-> s2.cnt, pcs |-> s2.pcs, pred |-> s2.pred, exc |-> s2.exc, offset |-> s2.offset]
    BY Zenon DEF Clock
  <1>4. s1' = s1 /\ s2' = s2
    BY <1>0, <1>2, <1>3 DEF Typed, Window1, Window2
  <1>5. PICK pop : pop = id_pop_cnt(rn_stall)
    OBVIOUS
  <1>6. /\ q' = q_nxt(0, pop) /\ head' = Rem(head + pop, FW) /\ tail' = Rem(tail + 0, FW)
        /\ expect' = IF pop = 0 THEN expect ELSE follow(id(pop - 1))
    BY <1>5, Zenon DEF Clock, iq_push_cnt, Rem
  <1>7. BufferNext(0, pop)
    BY <1>5, BufferSteps
  <1>8. /\ q' \in [Lanes -> Seq(Entry)] /\ head' \in Lanes /\ tail' \in Lanes /\ expect' \in PC
        /\ Holds(q', head', tail', expect', Enters)
    BY <1>6, <1>7, Zenon DEF BufferNext
  <1>9. Typed'
    BY <1>0, <1>1, <1>4, <1>8, Zenon DEF Typed
  <1>10. Fetched' /\ Delivered'
    BY <1>0, <1>1, <1>4, Zenon DEF Fetched, Delivered, Leads
  <1>11. Enters' = Enters
    BY <1>1, <1>4 DEF Enters
  <1> QED
    BY <1>8, <1>9, <1>10, <1>11 DEF IInv

\* The window at pc goes on, the one before it enters the buffer.
LEMMA FetchStep ==
    ASSUME IInv, NEW ic_stall \in BOOLEAN, NEW rn_stall \in BOOLEAN,
           NEW pred \in [Lanes -> Preds0], NEW exc \in BOOLEAN,
           ~ic_stall, iq_ready, Clock(ic_stall, rn_stall, FALSE, 0, pred, exc)
    PROVE  IInv'
  <1>0. Typed /\ Fetched /\ Delivered
    BY DEF IInv
  <1>1. PICK bp : bp = [i \in Lanes |-> IF i \in bpu_taken THEN s1.pred[i] ELSE NotTaken]
    BY Zenon
  <1>2. pc_nxt(~ic_stall /\ iq_ready, FALSE, 0) = NextPC
    BY Zenon DEF pc_nxt, NextPC, Rem
  <1>3. PICK a : a = NextPC
    OBVIOUS
  <1>4. /\ pc' = a
        /\ s1' = [aligned |-> fetch_aligned(a), pcs |-> s1i_pc(a), pred |-> pred, exc |-> exc, offset |-> push_offset(a)]
        /\ ic' = <<window(a), ic[1]>>
    BY <1>2, <1>3, Zenon DEF Clock
  <1>5. s2' = [cnt |-> push_cnt, pcs |-> s1.pcs, pred |-> bp, exc |-> s1.exc, offset |-> s1.offset]
    BY <1>1, Zenon DEF Clock
  <1>6. PICK pop : pop = id_pop_cnt(rn_stall)
    BY Zenon
  <1>7. iq_push_cnt(~ic_stall /\ iq_ready) = s2.cnt
    BY <1>0, Zenon DEF iq_push_cnt, Typed
  <1>8. /\ q' = q_nxt(s2.cnt, pop) /\ head' = Rem(head + pop, FW) /\ tail' = Rem(tail + s2.cnt, FW)
        /\ expect' = IF pop = 0 THEN expect ELSE follow(id(pop - 1))
    BY <1>6, <1>7, Zenon DEF Clock, Rem
  <1>9. BufferNext(s2.cnt, pop)
    BY <1>6, BufferSteps
  <1>10. s2.cnt = 0 => Enters = pc
    BY <1>0, Sizes DEF Enters, Typed, Window2
  <1>11. /\ q' \in [Lanes -> Seq(Entry)] /\ head' \in Lanes /\ tail' \in Lanes /\ expect' \in PC
         /\ Holds(q', head', tail', expect', pc)
    BY <1>8, <1>9, <1>10, Zenon DEF BufferNext
  <1>12. /\ push_cnt \in 0 .. FW /\ a \in PC
         /\ s1.aligned = {} => push_cnt = 0 /\ a = pc
         /\ s1.aligned # {} => push_cnt > 0 /\ s1.pcs[s1.offset] = pc /\ Path(s1.pcs, bp, s1.offset, push_cnt, a)
    <2>0. FW \in Nat /\ pc \in PC
      BY <1>0, Sizes, Zenon DEF Typed
    <2>1. CASE s1.aligned = {}
      <3>1. push_cnt = 0 /\ a = pc
        BY <1>0, <1>3, <2>1, NoWindow, Zenon
      <3>2. 0 \in 0 .. FW
        BY <2>0
      <3> QED
        BY <2>0, <2>1, <3>1, <3>2, Zenon
    <2>2. CASE s1.aligned # {}
      BY <1>0, <1>1, <1>3, <2>0, <2>2, WindowPath
    <2> QED
      BY <2>1, <2>2, Zenon
  <1>13. bp \in [Lanes -> Preds0]
    BY <1>0, <1>1 DEF Typed, Window1, Preds0
  <1>14. /\ s2' \in Window2 /\ s2'.cnt = push_cnt /\ s2'.pcs = s1.pcs /\ s2'.pred = bp /\ s2'.offset = s1.offset
    BY <1>0, <1>5, <1>12, <1>13, Zenon DEF Typed, Window1, Window2
  <1>15. s1' \in Window1
    BY <1>4, <1>12, WindowAt, Zenon DEF Window1
  <1>16. /\ ic' \in Seq(Int) /\ Len(ic') = 2 /\ ic'[1] # None /\ ic'[2] = ic[1]
    <2>1. window(a) \in Nat
      BY <1>12, WindowAt, Zenon
    <2>2. ic[1] \in Int
      BY <1>0, Stages, Zenon
    <2> QED
      BY <1>4, <2>1, <2>2 DEF None
  <1>17. Typed'
    <2>1. ic'[2] = None => s2'.cnt = 0
      BY <1>0, <1>12, <1>14, <1>16, Zenon DEF Typed
    <2> QED
      BY <1>4, <1>11, <1>12, <1>14, <1>15, <1>16, <2>1, Zenon DEF Typed
  <1>18. Fetched'
    BY <1>4, Zenon DEF Fetched
  <1>19. Delivered'
    <2> SUFFICES ASSUME push_cnt > 0 PROVE Delivered'
      BY <1>14, Zenon DEF Delivered
    <2>1. Path(s1.pcs, bp, s1.offset, push_cnt, a)
      BY <1>12
    <2>2. \A i : Leads(i)' = Lead(s1.pcs, bp, i)
      BY <1>14, Zenon DEF Leads, Lead, Rem
    <2> QED
      BY <1>4, <1>14, <2>1, <2>2, Zenon DEF Delivered, Path
  <1>20. Enters' = pc
    <2>1. s2'.cnt = push_cnt /\ s2'.pcs[s2'.offset] = s1.pcs[s1.offset]
      BY <1>14, Zenon
    <2>2. CASE s1.aligned = {}
      <3>1. push_cnt = 0 /\ a = pc
        BY <1>12, <2>2, Zenon
      <3>2. ~(0 > 0)
        OBVIOUS
      <3>3. ~(s2'.cnt > 0)
        BY <2>1, <3>1, <3>2, Zenon
      <3> QED
        BY <1>4, <3>1, <3>3, Zenon DEF Enters
    <2>3. CASE s1.aligned # {}
      BY <1>12, <2>1, <2>3, Zenon DEF Enters
    <2> QED
      BY <2>2, <2>3, Zenon
  <1> QED
    BY <1>11, <1>17, <1>18, <1>19, <1>20 DEF IInv

\* Every edge keeps the invariant.
LEMMA NextHolds ==
    ASSUME IInv, [Next]_vars
    PROVE  IInv'
  <1>1. CASE Next
    <2>1. PICK rn_stall \in BOOLEAN : Flushing(rn_stall) \/ \E ic_stall \in BOOLEAN : Fetching(ic_stall, rn_stall)
      BY <1>1 DEF Next
    <2>2. CASE Flushing(rn_stall)
      <3>1. PICK ic_stall \in BOOLEAN, flush_tgt \in Targets, pred \in Preds(TRUE, TRUE), exc \in Excs(TRUE, TRUE) :
                Clock(ic_stall, rn_stall, TRUE, flush_tgt, pred, exc)
        BY <2>2, Zenon DEF Flushing
      <3>2. flush_tgt \in PC /\ pred \in [Lanes -> Preds0] /\ exc \in BOOLEAN
        BY Parameters DEF Preds, Excs, Preds0
      <3> QED
        BY <3>1, <3>2, FlushStep, Zenon
    <2>3. CASE \E ic_stall \in BOOLEAN : Fetching(ic_stall, rn_stall)
      <3>1. PICK ic_stall \in BOOLEAN : Fetching(ic_stall, rn_stall)
        BY <2>3
      <3>2. PICK pred \in Preds(ic_stall, FALSE), exc \in Excs(ic_stall, FALSE) :
                Clock(ic_stall, rn_stall, FALSE, 0, pred, exc)
        BY <3>1, Zenon DEF Fetching
      <3>3. pred \in [Lanes -> Preds0] /\ exc \in BOOLEAN
        BY Parameters, Zenon DEF Preds, Excs, Preds0
      <3>4. CASE ~ic_stall /\ iq_ready
        BY <3>2, <3>3, <3>4, FetchStep, Zenon
      <3>5. CASE ~(~ic_stall /\ iq_ready)
        BY <3>2, <3>5, HeldStep, Zenon
      <3> QED
        BY <3>4, <3>5
    <2> QED
      BY <2>1, <2>2, <2>3
  <1>2. CASE UNCHANGED vars
    BY <1>2 DEF vars, IInv, Typed, Fetched, Delivered, Leads, Enters, Holds, Window1, Window2
  <1> QED
    BY <1>1, <1>2

\* The front end follows one path: the window at pc continues the one before it, that one
\* the prefetch buffer, and the buffer starts where the decoder is.
THEOREM FrontendInvariant == Spec => []IInv
  <1>1. Init => IInv
    BY InitHolds
  <1>2. IInv /\ [Next]_vars => IInv'
    BY NextHolds
  <1> QED
    BY <1>1, <1>2, PTL DEF Spec

\* The decoder gets the instructions along the predicted path and no other, whatever the
\* sizes, the predictions, the stalls and the redirections (frontend.v, prefetch_buf.v).
THEOREM DecodesPathHolds == Spec => []DecodesPath
  <1>1. IInv => DecodesPath
    BY BufferSteps, Zenon
  <1> QED
    BY <1>1, FrontendInvariant, PTL

-----------------------------------------------------------------------------
(* The timer interrupt, from the counter to the emulator.                   *)

\* What the software of a co-simulated machine does: it writes IMR and TCR and returns
\* from exceptions with interrupts disabled, returns to no address that looks like
\* the interrupt vector, and writes no TCR with both P and I set.
Software ==
    /\ FreeOps = {} /\ Returns = {FALSE}
    /\ \A t \in Tcrs : {"cnt", "en", "i", "p"} \subseteq DOMAIN t /\ t.p \in BOOLEAN /\ t.i \in BOOLEAN /\ ~(t.p /\ t.i)

Emus == [irr : BOOLEAN, imr : BOOLEAN, ire : BOOLEAN, epsr_ire : BOOLEAN]
Ops == {"EIRQ", "exc", "rete", "psr", "epsr", "imr", "tcr", "tsr"}

IrqTyped ==
    /\ tsc_irq \in BOOLEAN /\ irr_0 \in BOOLEAN /\ irr \in BOOLEAN /\ imr \in BOOLEAN
    /\ ire \in BOOLEAN /\ epsr_ire \in BOOLEAN /\ epsr_set \in BOOLEAN /\ s1o_se_fls \in BOOLEAN
    /\ rtl_irqc_irr \in BOOLEAN /\ pipe \in Seq(BOOLEAN)
    /\ epu = Idle \/ epu \in Requests
    /\ emu \in Emus

\* The commit the co-simulation is about to handle: an interrupt is recognised, and
\* nothing else looks like one.
CommitOK ==
    \/ dft = NoCommit
    \/ dft.op = "insn" /\ dft.sync = FALSE
    \/ /\ dft.op \in Ops /\ dft.sync = (dft.op = "EIRQ")
       /\ dft.op \in {"psr", "epsr", "imr"} => dft.val \in BOOLEAN
       /\ dft.op = "tcr" => dft.val \in Tcrs

\* The request has gone through the synchroniser.
Steady == tsc_irq /\ irr_0 /\ irr

\* The IRR of the emulator after the commit has been handled.
IrrAfter ==
    CASE dft.op = "EIRQ" -> TRUE
      [] dft.op = "tcr" -> FALSE
      [] OTHER -> emu.irr

\* The other registers of the emulator after the commit: those of the pipeline.
IreAfter == CASE dft.op \in {"EIRQ", "exc"} -> FALSE
              [] dft.op = "rete" -> emu.epsr_ire
              [] dft.op = "psr" -> dft.val
              [] OTHER -> emu.ire
ImrAfter == IF dft.op = "imr" THEN dft.val ELSE emu.imr
EpsrAfter == CASE dft.op \in {"EIRQ", "exc"} -> emu.ire
               [] dft.op = "epsr" -> dft.val
               [] OTHER -> emu.epsr_ire
Sync == ire = IreAfter /\ imr = ImrAfter /\ (epsr_set => epsr_ire = EpsrAfter)

\* A request the emulator knows of is there; one that software withdraws drains from
\* the synchroniser while interrupts are disabled.
Requested ==
    /\ IrrAfter => Steady
    /\ irr_0 /\ ~tsc_irq => dft.op = "tcr"
    /\ irr /\ ~irr_0 => ~ire
    /\ dft.op \in {"imr", "tcr"} => ~ire

\* The instruction the EPU works for is the oldest, and the co-simulation has nothing
\* to handle meanwhile.
Pending ==
    /\ epu # Idle => ~s1o_se_fls /\ dft = NoCommit /\ pipe # <<>> /\ pipe[1] = (epu.op = "EIRQ")
    /\ epu.op \in {"imr", "tcr", "rete"} => ~ire
    /\ epu.op = "rete" => epsr_set

\* An instruction was decoded as an interrupt only if the request is still to be
\* taken, and as another one only if the emulator has none to take.
Foreseen ==
    ~s1o_se_fls => \A k \in 1 .. Len(pipe) : /\ pipe[k] => ire /\ ~imr /\ Steady
                                             /\ ~pipe[k] => ~(IrrAfter /\ ire /\ ~imr)

\* What the co-simulation handles now.
Handled ==
    /\ dft.op = "EIRQ" => emu.ire /\ ~emu.imr /\ irr /\ rtl_irqc_irr
    /\ dft # NoCommit /\ dft.op # "EIRQ" => ~(emu.ire /\ emu.irr /\ ~emu.imr)

IrqInv == IrqTyped /\ CommitOK /\ Sync /\ Requested /\ Pending /\ Foreseen /\ Handled
-----------------------------------------------------------------------------
\* A request to the EPU is one of the operations, with its operand.
LEMMA RequestFacts ==
    ASSUME Software, NEW r \in Requests
    PROVE  /\ r.op \in Ops /\ r # Idle
           /\ r.op \in {"psr", "epsr", "imr"} => r.val \in BOOLEAN
           /\ r.op = "tcr" => r.val \in Tcrs
  BY DEF Requests, Ops, Idle

\* What is in flight and what the EPU and the co-simulation get, in one cycle.
Idles(fire, stall) ==
    /\ epu = Idle
    /\ s1o_se_fls' \in BOOLEAN
    /\ pipe' = IF s1o_se_fls THEN <<>>
               ELSE (IF fire THEN Tail(pipe) ELSE pipe) \o (IF stall THEN <<>> ELSE <<irq_async>>)
    /\ fire => Ready
    /\ \/ epu' = Idle /\ fire /\ ~pipe[1] /\ dft' = [op |-> "insn", sync |-> FALSE]
       \/ epu' = Idle /\ ~fire /\ dft' = NoCommit
       \/ epu' \in Requests /\ ~fire /\ dft' = NoCommit /\ Ready /\ pipe[1] = (epu'.op = "EIRQ") /\ Allowed(epu')
          /\ s1o_se_fls' = s1o_se_fls

Finishes(stall) ==
    /\ epu # Idle /\ epu' = Idle
    /\ s1o_se_fls' = (epu.op = "psr")
    /\ pipe' = IF flush THEN <<>> ELSE Tail(pipe) \o (IF stall THEN <<>> ELSE <<irq_async>>)
    /\ dft' = [op |-> epu.op, sync |-> epu.op = "EIRQ", val |-> Operand]

\* Every cycle is one of the two.
LEMMA Cycles ==
    ASSUME Software, IrqTyped, NEW stall \in BOOLEAN, NEW wait \in BOOLEAN, IrqClock(stall, wait)
    PROVE  Finishes(stall) \/ \E fire \in BOOLEAN : Idles(fire, stall)
  <1>1. CASE Wait(wait) /\ Decode(stall, FALSE)
    <2>1. flush <=> s1o_se_fls
      BY <1>1 DEF Wait, flush, exc_flush, Idle
    <2>2. Idles(FALSE, stall)
      BY <1>1, <2>1, Zenon DEF Wait, Decode, Idles
    <2> QED
      BY <2>2, Zenon
  <1>2. CASE Commit /\ Decode(stall, TRUE)
    <2>1. flush <=> s1o_se_fls
      BY <1>2 DEF Commit, Ready, flush, exc_flush, Idle
    <2>2. Idles(TRUE, stall)
      BY <1>2, <2>1 DEF Commit, Ready, Decode, Idles
    <2> QED
      BY <2>2, Zenon
  <1>3. CASE EpuRequest /\ Decode(stall, FALSE)
    <2>1. flush <=> s1o_se_fls
      BY <1>3 DEF EpuRequest, Ready, flush, exc_flush, Idle
    <2>2. epu' \in Requests /\ pipe[1] = (epu'.op = "EIRQ") /\ Allowed(epu')
      BY <1>3, Zenon DEF EpuRequest
    <2>3. Idles(FALSE, stall)
      BY <1>3, <2>1, <2>2 DEF EpuRequest, Ready, Decode, Idles, IrqTyped
    <2> QED
      BY <2>3, Zenon
  <1>4. CASE EpuFinish /\ Decode(stall, TRUE)
    <2>1. PICK sync \in (IF epu.op = "rete" THEN Returns ELSE {epu.op = "EIRQ"}) :
             dft' = [op |-> epu.op, sync |-> sync, val |-> Operand]
      BY <1>4 DEF EpuFinish
    <2>2. sync = (epu.op = "EIRQ")
      BY <2>1, Zenon DEF Software
    <2>3. Finishes(stall)
      BY <1>4, <2>1, <2>2, Zenon DEF EpuFinish, Finishes, Decode, refetch
    <2> QED
      BY <2>3
  <1> QED
    BY <1>1, <1>2, <1>3, <1>4, Zenon DEF IrqClock

\* The emulator takes an interrupt when the pipeline has, whichever IRR it is shown.
LEMMA Agree ==
    ASSUME IrqInv, dft # NoCommit, NEW seen \in {irr, rtl_irqc_irr}
    PROVE  irqc_handle_irqs(Synced(seen)) <=> dft.op = "EIRQ"
  <1>1. CASE dft.op = "EIRQ"
    <2>1. dft.sync
      BY <1>1, Zenon DEF IrqInv, CommitOK, NoCommit
    <2>2. seen
      BY <1>1, Zenon DEF IrqInv, Handled
    <2>3. Synced(seen) = [emu EXCEPT !.irr = seen]
      BY <2>1 DEF Synced
    <2>4. emu.ire /\ ~emu.imr /\ emu \in Emus
      BY <1>1 DEF IrqInv, Handled, IrqTyped
    <2> QED
      BY <1>1, <2>2, <2>3, <2>4, Zenon DEF irqc_handle_irqs, Emus
  <1>2. CASE dft.op # "EIRQ"
    <2>1. ~dft.sync
      BY <1>2, Zenon DEF IrqInv, CommitOK
    <2>2. Synced(seen) = emu
      BY <2>1 DEF Synced
    <2> QED
      BY <1>2, <2>2 DEF irqc_handle_irqs, IrqInv, Handled
  <1> QED
    BY <1>1, <1>2

\* The emulator after a cycle.
LEMMA EmuMoves ==
    ASSUME Software, IrqInv, dpic_step
    PROVE  /\ emu' \in Emus
           /\ emu'.ire = IreAfter /\ emu'.imr = ImrAfter /\ emu'.epsr_ire = EpsrAfter
           /\ emu'.irr => IrrAfter
  <1>0. emu \in Emus /\ irr \in BOOLEAN /\ rtl_irqc_irr \in BOOLEAN
    BY DEF IrqInv, IrqTyped
  <1>1. CASE dft = NoCommit
    <2>1. emu' = emu /\ dft.op = "none"
      BY <1>1 DEF dpic_step, NoCommit
    <2> QED
      BY <1>0, <2>1 DEF IreAfter, ImrAfter, EpsrAfter, IrrAfter
  <1>2. CASE dft # NoCommit
    <2>1. PICK seen \in {irr, rtl_irqc_irr} : emu' = step(Synced(seen))
      BY <1>2 DEF dpic_step
    <2>2. PICK e : e = Synced(seen)
      OBVIOUS
    <2>3. irqc_handle_irqs(e) <=> dft.op = "EIRQ"
      BY <1>2, <2>2, Agree
    <2>4. /\ e \in Emus /\ e.ire = emu.ire /\ e.imr = emu.imr /\ e.epsr_ire = emu.epsr_ire
          /\ dft.op # "EIRQ" => e = emu
      <3>1. dft.op # "EIRQ" => ~dft.sync
        BY <1>2, Zenon DEF IrqInv, CommitOK
      <3>2. seen \in BOOLEAN
        BY <1>0
      <3> QED
        BY <1>0, <2>2, <3>1, <3>2 DEF Synced, Emus
    <2>5. CASE dft.op \in {"EIRQ", "exc"}
      <3>1. emu' = raise_exception(e)
        BY <2>1, <2>2, <2>3, <2>5 DEF step
      <3> QED
        BY <2>4, <2>5, <3>1, Zenon DEF raise_exception, Emus, IreAfter, ImrAfter, EpsrAfter, IrrAfter
    <2>6. CASE dft.op = "tcr"
      <3>1. emu' = [e EXCEPT !.irr = dft.val.p /\ dft.val.i]
        BY <2>1, <2>2, <2>3, <2>6 DEF step, tsc_update_tcr
      <3>2. (dft.val.p /\ dft.val.i) = FALSE
        BY <1>2, <2>6 DEF Software, IrqInv, CommitOK
      <3> QED
        BY <2>4, <2>6, <3>1, <3>2, Zenon DEF Emus, IreAfter, ImrAfter, EpsrAfter, IrrAfter
    <2>7. CASE dft.op \in {"rete", "psr", "epsr", "imr"}
      <3>1. dft.op \in {"psr", "epsr", "imr"} => dft.val \in BOOLEAN
        BY <1>2 DEF IrqInv, CommitOK
      <3>2. emu' = CASE dft.op = "rete" -> [e EXCEPT !.ire = e.epsr_ire]
                     [] dft.op = "psr"  -> [e EXCEPT !.ire = dft.val]
                     [] dft.op = "epsr" -> [e EXCEPT !.epsr_ire = dft.val]
                     [] dft.op = "imr"  -> [e EXCEPT !.imr = dft.val]
        BY <2>1, <2>2, <2>3, <2>7 DEF step
      <3> QED
        BY <2>4, <2>7, <3>1, <3>2, Zenon DEF Emus, IreAfter, ImrAfter, EpsrAfter, IrrAfter
    <2>8. CASE dft.op \notin {"EIRQ", "exc", "rete", "psr", "epsr", "imr", "tcr"}
      <3>1. emu' = e
        BY <2>1, <2>2, <2>3, <2>8 DEF step
      <3> QED
        BY <2>4, <2>8, <3>1, Zenon DEF IreAfter, ImrAfter, EpsrAfter, IrrAfter
    <2> QED
      BY <2>5, <2>6, <2>7, <2>8
  <1> QED
    BY <1>1, <1>2

\* The timer, its synchroniser and the registers of the pipeline after a cycle.
LEMMA RtlMoves ==
    ASSUME IrqTyped, Timer, Irqc, dpic_step
    PROVE  /\ tsc_irq' \in BOOLEAN /\ (tsc_irq /\ ~tsc_irq' => epu.op = "tcr" /\ ~epu.val.p)
           /\ irr_0' = tsc_irq /\ irr' = irr_0 /\ rtl_irqc_irr' = irr
           /\ ire' = (CASE epu.op \in {"EIRQ", "exc"} -> FALSE
                        [] epu.op = "rete" -> epsr_ire
                        [] epu.op = "psr" -> epu.val
                        [] OTHER -> ire)
           /\ imr' = (IF epu.op = "imr" THEN epu.val ELSE imr)
           /\ epsr_ire' = (CASE epu.op \in {"EIRQ", "exc"} -> ire
                             [] epu.op = "epsr" -> epu.val
                             [] OTHER -> epsr_ire)
           /\ epsr_set' = (epsr_set \/ epu.op \in {"EIRQ", "exc", "epsr"})
  <1>1. tsc_irq' = IF irq_set \/ irq_clr THEN irq_set /\ ~irq_clr ELSE tsc_irq
    BY DEF Timer
  <1>2. tsc_irq' \in BOOLEAN
    BY <1>1, Zenon DEF IrqTyped
  <1>3. irq_clr => epu.op = "tcr" /\ ~epu.val.p
    BY DEF irq_clr, msr_tsc_tcr
  <1>4. tsc_irq /\ ~tsc_irq' => irq_clr
    BY <1>1, Zenon
  <1>5. irr_0' = tsc_irq /\ irr' = irr_0 /\ rtl_irqc_irr' = irr
    BY DEF Irqc, dpic_step
  <1>6. /\ ire' = msr_psr_ire /\ imr' = msr_irqc_imr /\ epsr_ire' = msr_epsr_ire
        /\ epsr_set' = (epsr_set \/ epu.op \in {"EIRQ", "exc", "epsr"})
    BY DEF Irqc
  <1> QED
    BY <1>2, <1>3, <1>4, <1>5, <1>6, Zenon DEF msr_psr_ire, msr_irqc_imr, msr_epsr_ire

\* What is in flight after a cycle: instructions that were, and the one decoded.
PipeAfter(fire, stall, d) == (IF fire THEN Tail(pipe) ELSE pipe) \o (IF stall THEN <<>> ELSE <<d>>)
Staged(zs, fire, d) ==
    /\ zs \in Seq(BOOLEAN)
    /\ \A k \in 1 .. Len(zs) : zs[k] = d \/ \E j \in 1 .. Len(pipe) : zs[k] = pipe[j]
    /\ ~fire /\ pipe # <<>> => zs # <<>> /\ zs[1] = pipe[1]

\* The empty sequence, and that of one element.
LEMMA Short ==
    ASSUME NEW S, NEW d \in S
    PROVE  <<>> \in Seq(S) /\ <<d>> \in Seq(S) /\ Len(<<d>>) = 1 /\ <<d>>[1] = d
  OBVIOUS

\* A cycle drops the oldest instruction, or keeps it, and adds the one decoded.
LEMMA PipeMoves ==
    ASSUME IrqTyped, NEW fire \in BOOLEAN, NEW stall \in BOOLEAN, NEW d \in BOOLEAN, fire => pipe # <<>>
    PROVE  Staged(PipeAfter(fire, stall, d), fire, d)
  <1>0. pipe \in Seq(BOOLEAN) /\ Len(pipe) \in Nat
    BY DEF IrqTyped
  <1>1. PICK a : a = IF fire THEN Tail(pipe) ELSE pipe
    BY Zenon
  <1>2. a \in Seq(BOOLEAN) /\ \A k \in 1 .. Len(a) : \E j \in 1 .. Len(pipe) : a[k] = pipe[j]
    <2>1. CASE fire
      <3>1. a = Tail(pipe) /\ pipe # <<>>
        BY <1>1, <2>1
      <3>2. a \in Seq(BOOLEAN) /\ Len(a) = Len(pipe) - 1 /\ \A k \in 1 .. Len(a) : a[k] = pipe[k + 1]
        BY <1>0, <3>1
      <3>3. \A k \in 1 .. Len(a) : k + 1 \in 1 .. Len(pipe)
        BY <1>0, <3>2
      <3> QED
        BY <3>2, <3>3
    <2>2. CASE ~fire
      BY <1>0, <1>1, <2>2
    <2> QED
      BY <2>1, <2>2
  <1>3. PICK b : b = IF stall THEN <<>> ELSE <<d>>
    BY Zenon
  <1>4. b \in Seq(BOOLEAN) /\ \A k \in 1 .. Len(b) : b[k] = d
    <2>1. CASE stall
      <3>1. b = <<>>
        BY <1>3, <2>1
      <3>2. b \in Seq(BOOLEAN)
        BY <3>1, Short, Zenon
      <3>3. Len(b) = 0
        BY <3>1
      <3> QED
        BY <3>2, <3>3
    <2>2. CASE ~stall
      <3>1. b = <<d>>
        BY <1>3, <2>2
      <3>2. b \in Seq(BOOLEAN) /\ Len(b) = 1 /\ b[1] = d
        BY <3>1, Short, Zenon
      <3>3. \A k \in 1 .. 1 : k = 1
        OBVIOUS
      <3> QED
        BY <3>2, <3>3, Zenon
    <2> QED
      BY <2>1, <2>2
  <1>5. PICK zs : zs = a \o b
    BY Zenon
  <1>6. PipeAfter(fire, stall, d) = zs
    BY <1>1, <1>3, <1>5 DEF PipeAfter
  <1>7. PICK n \in Nat, m \in Nat : n = Len(a) /\ m = Len(b)
    BY <1>2, <1>4
  <1>8. /\ zs \in Seq(BOOLEAN) /\ Len(zs) = n + m
        /\ \A k \in 1 .. n + m : zs[k] = IF k <= n THEN a[k] ELSE b[k - n]
    BY <1>2, <1>4, <1>5, <1>7
  <1>9. ASSUME NEW k \in 1 .. Len(zs)
        PROVE  zs[k] = d \/ \E j \in 1 .. Len(pipe) : zs[k] = pipe[j]
    <2>1. CASE k <= n
      BY <1>2, <1>7, <1>8, <1>9, <2>1
    <2>2. CASE ~(k <= n)
      <3>1. k - n \in 1 .. m
        BY <1>8, <1>9, <2>2
      <3> QED
        BY <1>4, <1>7, <1>8, <1>9, <2>2, <3>1, Zenon
    <2> QED
      BY <2>1, <2>2
  <1>10. ASSUME ~fire, pipe # <<>>
         PROVE  zs # <<>> /\ zs[1] = pipe[1]
    <2>1. a = pipe /\ n > 0
      BY <1>0, <1>1, <1>7, <1>10
    <2>2. 1 \in 1 .. n + m /\ 1 <= n
      BY <2>1
    <2> QED
      BY <1>8, <2>1, <2>2
  <1> QED
    BY <1>6, <1>8, <1>9, <1>10 DEF Staged

\* The types are kept.
LEMMA TypeNext ==
    ASSUME Software, IrqInv, NEW stall \in BOOLEAN, NEW wait \in BOOLEAN, IrqClock(stall, wait)
    PROVE  IrqTyped' /\ CommitOK'
  <1> USE DEF IrqInv
  <1>0. Timer /\ Irqc /\ dpic_step
    BY DEF IrqClock
  <1>1. epu # Idle => /\ epu.op \in Ops
                      /\ epu.op \in {"psr", "epsr", "imr"} => epu.val \in BOOLEAN
                      /\ epu.op = "tcr" => epu.val \in Tcrs
    BY RequestFacts DEF IrqTyped
  <1>2. epu = Idle => epu.op = "none"
    BY DEF Idle
  <1>3. tsc_irq' \in BOOLEAN /\ irr_0' \in BOOLEAN /\ irr' \in BOOLEAN /\ rtl_irqc_irr' \in BOOLEAN /\ epsr_set' \in BOOLEAN
    BY <1>0, RtlMoves, Zenon DEF IrqTyped
  <1>4. epu.op \in {"psr", "epsr", "imr"} => epu.val \in BOOLEAN
    BY <1>1, <1>2
  <1>5. ire' \in BOOLEAN
    BY <1>0, <1>4, RtlMoves, Zenon DEF IrqTyped
  <1>6. imr' \in BOOLEAN
    BY <1>0, <1>4, RtlMoves, Zenon DEF IrqTyped
  <1>7. epsr_ire' \in BOOLEAN
    BY <1>0, <1>4, RtlMoves, Zenon DEF IrqTyped
  <1>8. emu' \in Emus
    BY <1>0, EmuMoves
  <1>9. irq_async \in BOOLEAN
    BY DEF irq_async
  <1>12. CASE Finishes(stall)
    <2>1. pipe # <<>>
      BY <1>12 DEF Finishes, Pending
    <2>2. pipe' \in Seq(BOOLEAN)
      <3>1. pipe' = <<>> \/ pipe' = PipeAfter(TRUE, stall, irq_async)
        BY <1>12, Zenon DEF Finishes, PipeAfter
      <3>2. PipeAfter(TRUE, stall, irq_async) \in Seq(BOOLEAN)
        BY <1>9, <2>1, PipeMoves, Zenon DEF Staged
      <3> QED
        BY <3>1, <3>2, Short, Zenon
    <2>3. s1o_se_fls' \in BOOLEAN /\ epu' = Idle
      BY <1>12 DEF Finishes
    <2>4. epu # Idle /\ dft' = [op |-> epu.op, sync |-> epu.op = "EIRQ", val |-> Operand]
      BY <1>12 DEF Finishes
    <2>5. epu.op \notin {"EIRQ", "exc", "rete"} => Operand = epu.val
      BY Zenon DEF Operand
    <2>6. CommitOK'
      BY <1>1, <2>4, <2>5 DEF CommitOK
    <2> QED
      BY <1>3, <1>5, <1>6, <1>7, <1>8, <2>2, <2>3, <2>6, Zenon DEF IrqTyped
  <1>13. ASSUME NEW fire \in BOOLEAN, Idles(fire, stall)
         PROVE  IrqTyped' /\ CommitOK'
    <2>1. fire => pipe # <<>>
      BY <1>13 DEF Idles, Ready
    <2>2. pipe' \in Seq(BOOLEAN)
      <3>1. pipe' = <<>> \/ pipe' = PipeAfter(fire, stall, irq_async)
        BY <1>13, Zenon DEF Idles, PipeAfter
      <3>2. PipeAfter(fire, stall, irq_async) \in Seq(BOOLEAN)
        BY <1>9, <2>1, PipeMoves DEF Staged
      <3> QED
        BY <3>1, <3>2, Short, Zenon
    <2>3. s1o_se_fls' \in BOOLEAN /\ (epu' = Idle \/ epu' \in Requests)
      BY <1>13 DEF Idles
    <2>4. dft' = NoCommit \/ dft' = [op |-> "insn", sync |-> FALSE]
      BY <1>13 DEF Idles
    <2>5. CommitOK'
      BY <2>4 DEF CommitOK, NoCommit
    <2> QED
      BY <1>3, <1>5, <1>6, <1>7, <1>8, <2>2, <2>3, <2>5, Zenon DEF IrqTyped
  <1> QED
    BY <1>12, <1>13, Cycles

\* The registers of the emulator follow those of the pipeline, one commit behind.
LEMMA SyncNext ==
    ASSUME Software, IrqInv, NEW stall \in BOOLEAN, NEW wait \in BOOLEAN, IrqClock(stall, wait)
    PROVE  Sync' /\ Handled'
  <1> USE DEF IrqInv
  <1>0. Timer /\ Irqc /\ dpic_step
    BY DEF IrqClock
  <1>1. emu'.ire = IreAfter /\ emu'.imr = ImrAfter /\ emu'.epsr_ire = EpsrAfter /\ (emu'.irr => IrrAfter) /\ emu' \in Emus
    BY <1>0, EmuMoves
  <1>2. CASE Finishes(stall)
    <2>1. /\ epu # Idle /\ ~s1o_se_fls /\ dft = NoCommit /\ pipe # <<>> /\ (pipe[1] <=> epu.op = "EIRQ")
          /\ dft'.op = epu.op /\ dft' # NoCommit
          /\ epu.op \notin {"EIRQ", "exc", "rete"} => dft'.val = epu.val
      <3>1. /\ epu # Idle /\ ~s1o_se_fls /\ dft = NoCommit /\ pipe # <<>> /\ (pipe[1] <=> epu.op = "EIRQ")
        BY <1>2, Zenon DEF Finishes, Pending
      <3>2. dft' = [op |-> epu.op, sync |-> epu.op = "EIRQ", val |-> Operand]
        BY <1>2 DEF Finishes
      <3>3. epu.op \in Ops
        BY <3>1, RequestFacts, Zenon DEF IrqTyped
      <3> QED
        BY <3>1, <3>2, <3>3, Zenon DEF Operand, NoCommit, Ops
    <2>2. emu'.ire = ire /\ emu'.imr = imr /\ (epsr_set => emu'.epsr_ire = epsr_ire)
      BY <1>1, <2>1 DEF Sync
    <2>3. ire' = IreAfter'
      BY <1>0, <2>1, <2>2, RtlMoves, Zenon DEF IreAfter, Pending
    <2>4. imr' = ImrAfter'
      BY <1>0, <2>1, <2>2, RtlMoves DEF ImrAfter
    <2>5. epsr_set' => epsr_ire' = EpsrAfter'
      BY <1>0, <2>1, <2>2, RtlMoves, Zenon DEF EpsrAfter
    <2>6. Len(pipe) \in Nat /\ 1 \in 1 .. Len(pipe)
      BY <2>1 DEF IrqTyped
    <2>7. epu.op = "EIRQ" => ire /\ ~imr /\ Steady
      BY <2>1, <2>6 DEF Foreseen
    <2>8. epu.op # "EIRQ" => ~(IrrAfter /\ ire /\ ~imr)
      BY <2>1, <2>6 DEF Foreseen
    <2>9. dft'.op = "EIRQ" => emu'.ire /\ ~emu'.imr /\ irr' /\ rtl_irqc_irr'
      BY <1>0, <2>1, <2>2, <2>7, RtlMoves DEF Steady
    <2>10. dft'.op # "EIRQ" => ~(emu'.ire /\ emu'.irr /\ ~emu'.imr)
      BY <1>1, <2>1, <2>2, <2>8
    <2> QED
      BY <2>3, <2>4, <2>5, <2>9, <2>10 DEF Sync, Handled
  <1>3. ASSUME NEW fire \in BOOLEAN, Idles(fire, stall)
        PROVE  Sync' /\ Handled'
    <2>1. epu.op = "none" /\ dft'.op \in {"none", "insn"}
      BY <1>3 DEF Idles, Idle, NoCommit
    <2>2. ire' = ire /\ imr' = imr /\ epsr_ire' = epsr_ire /\ epsr_set' = epsr_set
      BY <1>0, <2>1, RtlMoves DEF IrqTyped
    <2>3. emu'.ire = ire /\ emu'.imr = imr /\ (epsr_set => emu'.epsr_ire = epsr_ire)
      BY <1>1 DEF Sync
    <2>4. Sync'
      BY <2>1, <2>2, <2>3, Zenon DEF Sync, IreAfter, ImrAfter, EpsrAfter
    <2>5. ASSUME dft' # NoCommit
          PROVE  ~(emu'.ire /\ emu'.irr /\ ~emu'.imr)
      <3>1. ~pipe[1] /\ Ready
        BY <1>3, <2>5 DEF Idles
      <3>2. 1 \in 1 .. Len(pipe) /\ ~s1o_se_fls
        BY <3>1 DEF Ready, IrqTyped
      <3>3. ~(IrrAfter /\ ire /\ ~imr)
        BY <3>1, <3>2 DEF Foreseen
      <3> QED
        BY <1>1, <2>3, <3>3
    <2> QED
      BY <2>1, <2>4, <2>5, Zenon DEF Handled
  <1> QED
    BY <1>2, <1>3, Cycles

\* A request is withdrawn only with interrupts disabled, and has drained before they
\* are enabled again.
LEMMA RequestedNext ==
    ASSUME Software, IrqInv, NEW stall \in BOOLEAN, NEW wait \in BOOLEAN, IrqClock(stall, wait)
    PROVE  Requested'
  <1> USE DEF IrqInv
  <1>0. Timer /\ Irqc /\ dpic_step
    BY DEF IrqClock
  <1>1. emu'.irr => IrrAfter
    BY <1>0, EmuMoves
  <1>2. /\ tsc_irq' \in BOOLEAN /\ (tsc_irq /\ ~tsc_irq' => epu.op = "tcr" /\ ~epu.val.p)
        /\ irr_0' = tsc_irq /\ irr' = irr_0
    BY <1>0, RtlMoves
  <1>3. tsc_irq \in BOOLEAN /\ irr_0 \in BOOLEAN /\ irr \in BOOLEAN /\ ire \in BOOLEAN
    BY DEF IrqTyped
  <1>4. Steady /\ ~Steady' => epu.op = "tcr"
    BY <1>2, <1>3 DEF Steady
  <1>5. CASE Finishes(stall)
    <2>1. epu # Idle /\ ~s1o_se_fls /\ dft = NoCommit /\ dft'.op = epu.op /\ pipe # <<>> /\ (pipe[1] <=> epu.op = "EIRQ")
      BY <1>5, Zenon DEF Finishes, Pending
    <2>2. epu.op = "EIRQ" => Steady
      <3>1. Len(pipe) \in Nat /\ 1 \in 1 .. Len(pipe)
        BY <2>1 DEF IrqTyped
      <3> QED
        BY <2>1, <3>1 DEF Foreseen
    <2>3. IrrAfter' => Steady'
      <3>1. IrrAfter' => epu.op # "tcr" /\ (epu.op = "EIRQ" \/ emu'.irr)
        BY <2>1 DEF IrrAfter
      <3> QED
        BY <1>1, <1>4, <2>2, <3>1 DEF Requested
    <2>4. irr_0' /\ ~tsc_irq' => dft'.op = "tcr"
      BY <1>2, <2>1
    <2>5. epu.op \in {"imr", "tcr"} => ire' = ire /\ ~ire
      BY <1>0, RtlMoves, Zenon DEF Pending
    <2>6. irr_0 => tsc_irq
      BY <2>1 DEF Requested, NoCommit
    <2> QED
      BY <1>2, <1>3, <2>1, <2>3, <2>4, <2>5, <2>6 DEF Requested
  <1>6. ASSUME NEW fire \in BOOLEAN, Idles(fire, stall)
        PROVE  Requested'
    <2>1. epu.op = "none" /\ dft'.op \in {"none", "insn"}
      BY <1>6 DEF Idles, Idle, NoCommit
    <2>2. ire' = ire
      BY <1>0, <2>1, RtlMoves DEF IrqTyped
    <2>3. IrrAfter' => Steady'
      <3>1. IrrAfter' => emu'.irr
        BY <2>1 DEF IrrAfter
      <3> QED
        BY <1>1, <1>4, <2>1, <3>1 DEF Requested
    <2>4. irr' /\ ~irr_0' => ~ire'
      BY <1>2, <2>2 DEF Requested
    <2>5. ~(irr_0' /\ ~tsc_irq')
      BY <1>2, <2>1
    <2> QED
      BY <2>1, <2>3, <2>4, <2>5 DEF Requested
  <1> QED
    BY <1>5, <1>6, Cycles

\* The EPU works for the oldest instruction.
LEMMA PendingNext ==
    ASSUME Software, IrqInv, NEW stall \in BOOLEAN, NEW wait \in BOOLEAN, IrqClock(stall, wait)
    PROVE  Pending'
  <1> USE DEF IrqInv
  <1>1. CASE Finishes(stall)
    <2>1. epu' = Idle
      BY <1>1 DEF Finishes
    <2> QED
      BY <2>1 DEF Pending, Idle
  <1>2. ASSUME NEW fire \in BOOLEAN, Idles(fire, stall)
        PROVE  Pending'
    <2>1. CASE epu' = Idle
      BY <2>1 DEF Pending, Idle
    <2>2. CASE epu' # Idle
      <3>1. /\ epu = Idle /\ epu' \in Requests /\ ~fire /\ dft' = NoCommit /\ Ready
            /\ pipe[1] = (epu'.op = "EIRQ") /\ Allowed(epu') /\ s1o_se_fls' = s1o_se_fls
        BY <1>2, <2>2 DEF Idles
      <3>2. ~s1o_se_fls /\ pipe # <<>> /\ epu.op = "none"
        BY <3>1 DEF Ready, Idle
      <3>3. pipe' = PipeAfter(FALSE, stall, irq_async) /\ irq_async \in BOOLEAN
        BY <1>2, <3>1, <3>2 DEF Idles, PipeAfter, irq_async
      <3>4. pipe' # <<>> /\ pipe'[1] = pipe[1]
        BY <3>2, <3>3, PipeMoves, Zenon DEF Staged
      <3>5. ire' = ire /\ epsr_set' = epsr_set
        BY <3>2, RtlMoves DEF IrqClock, IrqTyped
      <3>6. /\ epu'.op \in {"imr", "tcr", "rete"} => ~ire
            /\ epu'.op = "rete" => epsr_set
        BY <3>1, Zenon DEF Allowed, Software
      <3> QED
        BY <3>1, <3>2, <3>4, <3>5, <3>6 DEF Pending
    <2> QED
      BY <2>1, <2>2
  <1> QED
    BY <1>1, <1>2, Cycles

\* What the decoder saw of the request stays right until the instruction commits or
\* is flushed.
LEMMA ForeseenNext ==
    ASSUME Software, IrqInv, NEW stall \in BOOLEAN, NEW wait \in BOOLEAN, IrqClock(stall, wait), Requested'
    PROVE  Foreseen'
  <1> USE DEF IrqInv
  <1> SUFFICES ASSUME ~s1o_se_fls', NEW k \in 1 .. Len(pipe')
               PROVE  /\ pipe'[k] => ire' /\ ~imr' /\ Steady'
                      /\ ~pipe'[k] => ~(IrrAfter' /\ ire' /\ ~imr')
    BY DEF Foreseen
  <1>0. Timer /\ Irqc /\ dpic_step /\ pipe' # <<>>
    BY DEF IrqClock
  <1>1. PICK fire \in BOOLEAN :
          /\ ~flush /\ ~s1o_se_fls /\ epu.op \notin {"EIRQ", "exc", "rete", "psr"}
          /\ fire => pipe # <<>>
          /\ pipe' = PipeAfter(fire, stall, irq_async)
          /\ dft'.op \in {"none", "insn", epu.op}
    <2>1. CASE Finishes(stall)
      <3>1. ~s1o_se_fls /\ pipe # <<>> /\ epu.op # "psr" /\ dft'.op = epu.op
        BY <2>1, Zenon DEF Finishes, Pending
      <3>2. ~flush
        BY <1>0, <2>1 DEF Finishes
      <3> QED
        BY <2>1, <3>1, <3>2, Zenon DEF Finishes, flush, exc_flush, PipeAfter
    <2>2. ASSUME NEW g \in BOOLEAN, Idles(g, stall)
          PROVE  /\ ~flush /\ ~s1o_se_fls /\ epu.op \notin {"EIRQ", "exc", "rete", "psr"}
                 /\ g => pipe # <<>>
                 /\ pipe' = PipeAfter(g, stall, irq_async)
                 /\ dft'.op \in {"none", "insn", epu.op}
      <3>1. epu.op = "none" /\ dft'.op \in {"none", "insn"}
        BY <2>2 DEF Idles, Idle, NoCommit
      <3>2. ~s1o_se_fls
        BY <1>0, <2>2 DEF Idles
      <3> QED
        BY <2>2, <3>1, <3>2, Zenon DEF Idles, Ready, flush, exc_flush, PipeAfter
    <2> QED
      BY <2>1, <2>2, Cycles
  <1>2. tsc_irq \in BOOLEAN /\ irr_0 \in BOOLEAN /\ irr \in BOOLEAN /\ ire \in BOOLEAN /\ imr \in BOOLEAN
    BY DEF IrqTyped
  <1>3. ire' = ire /\ (ire => imr' = imr /\ (Steady => Steady'))
    <2>1. ire => epu.op \notin {"imr", "tcr"}
      BY DEF Pending
    <2>2. ire' = ire
      BY <1>0, <1>1, <1>2, RtlMoves, Zenon
    <2>3. ire => imr' = imr
      BY <1>0, <2>1, RtlMoves
    <2>4. ire => (Steady => Steady')
      BY <1>0, <2>1, RtlMoves DEF Steady
    <2> QED
      BY <2>2, <2>3, <2>4
  <1>4. ire => (irq_async <=> irr /\ ~imr)
    <2>1. ire => epu.op # "imr"
      BY DEF Pending
    <2>2. msr_psr_ire = ire
      BY <1>1, Zenon DEF msr_psr_ire
    <2>3. ire => msr_irqc_imr = imr
      BY <2>1 DEF msr_irqc_imr
    <2> QED
      BY <1>2, <2>2, <2>3 DEF irq_async
  <1>5. ~ire => ~irq_async
    BY <1>1, <1>2 DEF irq_async, msr_psr_ire
  <1>6. IrrAfter' => IrrAfter
    <2>1. IrrAfter' => emu'.irr
      BY <1>1 DEF IrrAfter
    <2>2. emu'.irr => IrrAfter
      BY <1>0, EmuMoves
    <2> QED
      BY <2>1, <2>2
  <1>7. ire /\ irr => Steady
    BY <1>2 DEF Requested, Steady
  <1>8. Len(pipe) \in Nat /\ irq_async \in BOOLEAN
    BY DEF IrqTyped, irq_async
  <1>9. pipe'[k] = irq_async \/ \E j \in 1 .. Len(pipe) : pipe'[k] = pipe[j]
    <2>1. Staged(PipeAfter(fire, stall, irq_async), fire, irq_async)
      BY <1>1, <1>8, PipeMoves
    <2>2. Staged(pipe', fire, irq_async)
      BY <1>1, <2>1
    <2> QED
      BY <2>2 DEF Staged
  <1>10. CASE pipe'[k] = irq_async
    <2>1. pipe'[k] => ire' /\ ~imr' /\ Steady'
      BY <1>3, <1>4, <1>5, <1>7, <1>10
    <2>2. ~pipe'[k] => ~(IrrAfter' /\ ire' /\ ~imr')
      BY <1>3, <1>4, <1>6, <1>10 DEF Requested, Steady
    <2> QED
      BY <2>1, <2>2
  <1>11. ASSUME NEW j \in 1 .. Len(pipe), pipe'[k] = pipe[j]
         PROVE  /\ pipe'[k] => ire' /\ ~imr' /\ Steady'
                /\ ~pipe'[k] => ~(IrrAfter' /\ ire' /\ ~imr')
    <2>1. /\ pipe[j] => ire /\ ~imr /\ Steady
          /\ ~pipe[j] => ~(IrrAfter /\ ire /\ ~imr)
      BY <1>1 DEF Foreseen
    <2> QED
      BY <1>3, <1>6, <1>11, <2>1
  <1> QED
    BY <1>9, <1>10, <1>11
-----------------------------------------------------------------------------
\* The inductive invariant, for every depth of the pipeline, every counter and every
\* refill time.
THEOREM IrqInvariant == ASSUME Software PROVE IrqSpec => []IrqInv
  <1>1. IrqInit => IrqInv
    <2> SUFFICES ASSUME IrqInit PROVE IrqInv
      OBVIOUS
    <2>1. dft.op = "none" /\ epu = Idle /\ epu.op = "none" /\ dft = NoCommit
      BY DEF IrqInit, Idle, NoCommit
    <2>2. emu \in Emus /\ emu.irr = FALSE /\ emu.imr = TRUE /\ emu.ire = FALSE
      BY Zenon DEF IrqInit, Emus
    <2>3. IrqTyped /\ CommitOK
      <3>1. pipe \in Seq(BOOLEAN)
        BY Short, Zenon DEF IrqInit
      <3> QED
        BY <2>1, <2>2, <3>1, Zenon DEF IrqInit, IrqTyped, CommitOK
    <2>4. Sync /\ Requested
      BY <2>1, <2>2, Zenon DEF IrqInit, Sync, Requested, IreAfter, ImrAfter, EpsrAfter, IrrAfter
    <2>5. Pending /\ Foreseen /\ Handled
      BY <2>1, <2>2 DEF IrqInit, Pending, Foreseen, Handled
    <2> QED
      BY <2>3, <2>4, <2>5 DEF IrqInv
  <1>2. IrqInv /\ [IrqNext]_irq_vars => IrqInv'
    <2> SUFFICES ASSUME IrqInv, [IrqNext]_irq_vars PROVE IrqInv'
      OBVIOUS
    <2>1. CASE IrqNext
      <3>1. PICK stall \in BOOLEAN, wait \in BOOLEAN : IrqClock(stall, wait)
        BY <2>1 DEF IrqNext
      <3> QED
        BY <3>1, TypeNext, SyncNext, RequestedNext, PendingNext, ForeseenNext DEF IrqInv
    <2>2. CASE UNCHANGED irq_vars
      <3> USE DEF IrqInv
      <3>1. /\ UNCHANGED <<tsc_irq, irr_0, irr, imr, ire, epsr_ire, epsr_set, pipe, epu, s1o_se_fls>>
            /\ UNCHANGED <<dft, rtl_irqc_irr, emu>>
        BY <2>2 DEF irq_vars, rtl
      <3>2. IrqTyped' /\ CommitOK'
        BY <3>1 DEF IrqTyped, CommitOK
      <3>3. Sync' /\ Handled'
        BY <3>1 DEF Sync, IreAfter, ImrAfter, EpsrAfter, Handled
      <3>4. Requested' /\ Pending'
        BY <3>1 DEF Requested, IrrAfter, Steady, Pending
      <3>5. Foreseen'
        BY <3>1 DEF Foreseen, IrrAfter, Steady
      <3> QED
        BY <3>2, <3>3, <3>4, <3>5
    <2> QED
      BY <2>1, <2>2
  <1> QED
    BY <1>1, <1>2, PTL DEF IrqSpec

\* The emulator takes an interrupt at exactly the commits at which the pipeline does:
\* what the decoder saw of the request holds until the instruction commits, and is
\* what the co-simulation shows the emulator.
THEOREM InterruptsAgreeHolds == ASSUME Software PROVE IrqSpec => []InterruptsAgree
  <1>1. IrqInv => InterruptsAgree
    BY Agree DEF InterruptsAgree, irqc_handle_irqs
  <1> QED
    BY <1>1, IrqInvariant, PTL
=============================================================================
