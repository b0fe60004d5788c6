---------------------------- MODULE BackendProofs ----------------------------
(***************************************************************************)
(* The back end of Backend, for every depth of the reservation stations,   *)
(* every size of the reorder buffer and every set of logical registers:    *)
(* operands are read after they were written, what commits has written its *)
(* register, and every instruction is executed once.                       *)
(***************************************************************************)
EXTENDS Backend, FiniteSetTheorems, SequenceTheorems, WellFoundedInduction, TLAPS

Slots == 0 .. N - 1

Instrs == [slot : Slots \cup {None}, srcs : SUBSET PRegs, lrd : LRegs \cup {None},
           prd : PRegs \cup {None}, late : BOOLEAN, rdy : BOOLEAN]

\* Every instruction that is renamed and not committed, oldest first.
Live == rob \o issue

TypeOK ==
    /\ issue \in Seq(Instrs) /\ Len(issue) <= 2
    /\ rob \in Seq(Instrs) /\ Len(rob) <= N
    /\ next \in Slots
    /\ arat \in [LRegs -> PRegs]
    /\ rs \in [Lanes -> [Addr -> Instrs]]
    /\ ro \in [Lanes -> [addr : Addr \cup {None}, ins : Instrs]]
    /\ ex \in [Lanes -> Instrs] /\ wb \in [Lanes -> Instrs]
    /\ busytable \in SUBSET PRegs /\ good \in SUBSET PRegs
    /\ finished \in BOOLEAN

\* The places of the reorder buffer are consecutive and end before next.
Numbered ==
    /\ \A k \in 1 .. Len(rob) : rob[k].slot = (next + (N - Len(rob)) + (k - 1)) % N
    /\ \A k \in 1 .. Len(issue) : issue[k].slot = None /\ issue[k].rdy = FALSE

\* No two instructions of xs share a destination, and none has a committed one.
Distinct(xs, a) ==
    \A k \in 1 .. Len(xs) :
        /\ xs[k].lrd = None <=> xs[k].prd = None
        /\ xs[k].prd # 0
        /\ \A l \in LRegs : a[l] # xs[k].prd
        /\ \A j \in 1 .. Len(xs) : xs[j].prd = xs[k].prd /\ xs[k].prd # None => j = k

\* Before the k-th instruction of xs, l is mapped to p.
Maps(xs, a, k, l, p) ==
    \/ a[l] = p /\ \A m \in 1 .. k - 1 : xs[m].lrd # l
    \/ \E j \in 1 .. k - 1 : /\ xs[j].lrd = l /\ xs[j].prd = p
                             /\ \A m \in j + 1 .. k - 1 : xs[m].lrd # l

\* The sources of an instruction are what was mapped before it.
Sources(xs, a) ==
    \A k \in 1 .. Len(xs) : \A p \in xs[k].srcs : \E l \in LRegs : Maps(xs, a, k, l, p)

\* A destination holds its value or is busy.
Status == \A k \in 1 .. Len(Live) : Live[k].prd = None \/ Live[k].prd \in good \cup busytable

\* What is on its way is in the reorder buffer, and in one place only.
Held ==
    \A p \in Places : valid(Content(p)) =>
        \E k \in 1 .. Len(rob) : Content(p) = [rob[k] EXCEPT !.rdy = FALSE]

Unique ==
    \A p, q \in Places : Content(p).slot = Content(q).slot /\ valid(Content(p)) => p = q

\* An entry that is not ready is on its way; one that is ready is not, unless it
\* must write its register again.
Waiting ==
    \A k \in 1 .. Len(rob) : ~rob[k].rdy => \E p \in Places : Content(p).slot = rob[k].slot

Ready ==
    \A k \in 1 .. Len(rob) : \A p \in Places :
        rob[k].rdy /\ Content(p).slot = rob[k].slot => finished /\ p = <<"wb", 0, 0>>

Done ==
    \A k \in 1 .. Len(rob) : rob[k].rdy /\ ~rob[k].late /\ rob[k].prd # None =>
        rob[k].prd \in good \/ wb[0].slot = rob[k].slot

\* What the station offers is still there, and its operands are written.
Chosen ==
    \A i \in Lanes : ro[i] # NotRdy =>
        /\ ro[i].addr \in Addr /\ valid(ro[i].ins) /\ rs[i][ro[i].addr] = ro[i].ins
        /\ ro[i].ins.srcs \subseteq good

Flow == Held /\ Unique /\ Waiting /\ Ready

IInv ==
    /\ TypeOK /\ Numbered
    /\ Distinct(Live, arat) /\ Sources(Live, arat)
    /\ Status /\ CommittedWritten /\ Flow /\ Done /\ Chosen
-----------------------------------------------------------------------------
(* Numbers *)

\* The parameters as the proofs use them.
LEMMA Sizes ==
    /\ Depth \in Nat /\ Depth > 0 /\ N \in Nat /\ N > 0
    /\ IsFiniteSet(LRegs) /\ None \notin LRegs
    /\ Lanes = {0, 1} /\ None = -1 /\ None \notin Slots
    /\ Addr \subseteq Nat /\ Slots \subseteq Nat
    /\ Cardinality(LRegs) \in Nat /\ PRegs \subseteq Nat /\ 0 \in PRegs /\ None \notin PRegs
  <1>1. Cardinality(LRegs) \in Nat
    BY Parameters, FS_CardinalityType
  <1> QED
    BY Parameters, <1>1 DEF Lanes, None, Slots, Addr, PRegs

\* The remainders the numbering of the reorder buffer meets.
LEMMA Modulo ==
    \A a, b \in Nat : b > 0 =>
        /\ a < b => a % b = a
        /\ a >= b /\ a < 2 * b => a % b = a - b
  BY SMT

\* Where an instruction of a queue with n removed and W appended comes from.
LEMMA Appended ==
    ASSUME NEW g \in Nat, NEW n \in Nat, NEW T \in Nat, NEW W \in Nat, NEW k \in 1 .. g, g + n = T + W, ~(k + n <= T)
    PROVE  (k + n) - T \in 1 .. W /\ k + n = T + ((k + n) - T)
  OBVIOUS

\* The places of a queue are places of a longer one.
LEMMA Longer == \A T, W \in Nat : \A j \in 1 .. T : j \in 1 .. T + W
  OBVIOUS

\* A nonempty set of naturals has a least element.
LEMMA Least ==
    ASSUME NEW S \in SUBSET Nat, S # {}
    PROVE  /\ Min(S) \in S /\ \A y \in S : Min(S) <= y
           /\ \E x \in S : \A y \in S : x <= y
  <1>1. PICK x \in S : \A y \in S : ~(<<y, x>> \in OpToRel(<, Nat))
    BY NatLessThanWellFounded, WFMin, Zenon
  <1>2. \A y \in S : ~(y < x)
    BY <1>1, Zenon DEF OpToRel
  <1>3. \A y \in S : x <= y
    BY <1>2
  <1> QED
    BY <1>3, Zenon DEF Min

\* A nonempty set of naturals with a bound has a greatest one.
LEMMA Greatest ==
    ASSUME NEW S \in SUBSET Nat, S # {}, NEW n \in Nat, \A x \in S : x <= n
    PROVE  Max(S) \in S /\ \A y \in S : y <= Max(S)
  <1> DEFINE T == {n - x : x \in S}
  <1>1. T \in SUBSET Nat /\ T # {}
    <2>1. \A x \in S : n - x \in Nat
      OBVIOUS
    <2> QED
      BY <2>1, Zenon
  <1>2. \E x \in T : \A y \in T : x <= y
    <2> HIDE DEF T
    <2> QED
      BY <1>1, Least
  <1>3. PICK x \in T : \A y \in T : x <= y
    BY <1>2
  <1>4. PICK u \in S : x = n - u
    BY <1>3
  <1>5. \A y \in S : n - u <= n - y
    BY <1>3, <1>4
  <1>6. \A y \in S : y <= u
    BY <1>5
  <1> QED
    BY <1>6, Zenon DEF Max
-----------------------------------------------------------------------------
(* Register renaming *)

\* What rn_rat.v reads for l after xs is what l is mapped to after xs.
LEMMA YoungestMaps ==
    ASSUME NEW xs, NEW n \in Nat, DOMAIN xs = 1 .. n, NEW a, NEW l
    PROVE  Maps(xs, a, n + 1, l, Youngest(xs, l, a[l]))
  <1> DEFINE ws == {k \in DOMAIN xs : xs[k].lrd = l}
  <1>1. Youngest(xs, l, a[l]) = IF ws = {} THEN a[l] ELSE xs[Max(ws)].prd
    BY DEF Youngest
  <1>2. CASE ws = {}
    BY <1>1, <1>2 DEF Maps
  <1>3. CASE ws # {}
    <2>1. ws \in SUBSET Nat /\ \A x \in ws : x <= n
      OBVIOUS
    <2>2. PICK j : j = Max(ws)
      BY Zenon
    <2>3. j \in ws /\ \A y \in ws : y <= j
      <3> HIDE DEF ws
      <3> QED
        BY <2>1, <2>2, <1>3, Greatest, Zenon
    <2>4. Youngest(xs, l, a[l]) = xs[j].prd
      BY <1>1, <1>3, <2>2
    <2>5. j \in 1 .. (n + 1) - 1 /\ xs[j].lrd = l
      BY <2>3
    <2>6. \A m \in j + 1 .. (n + 1) - 1 : xs[m].lrd # l
      BY <2>3, <2>5
    <2> QED
      BY <2>4, <2>5, <2>6 DEF Maps
  <1> QED
    BY <1>2, <1>3

\* The mapping depends on the instructions before it only.
LEMMA MapsPrefix ==
    ASSUME NEW xs, NEW ys, NEW a, NEW k \in Nat, NEW l, NEW p, Maps(xs, a, k, l, p),
           \A m \in 1 .. k - 1 : xs[m].lrd = ys[m].lrd /\ xs[m].prd = ys[m].prd
    PROVE  Maps(ys, a, k, l, p)
  <1>1. CASE a[l] = p /\ \A m \in 1 .. k - 1 : xs[m].lrd # l
    BY <1>1 DEF Maps
  <1>2. CASE \E j \in 1 .. k - 1 : /\ xs[j].lrd = l /\ xs[j].prd = p
                                   /\ \A m \in j + 1 .. k - 1 : xs[m].lrd # l
    <2>1. PICK j \in 1 .. k - 1 : /\ xs[j].lrd = l /\ xs[j].prd = p
                                  /\ \A m \in j + 1 .. k - 1 : xs[m].lrd # l
      BY <1>2
    <2>2. \A m \in j + 1 .. k - 1 : ys[m].lrd # l
      BY <2>1
    <2>3. ys[j].lrd = l /\ ys[j].prd = p
      BY <2>1
    <2> QED
      BY <2>2, <2>3 DEF Maps
  <1> QED
    BY <1>1, <1>2 DEF Maps

\* Committing the n oldest moves their mapping to arat, and changes nothing for
\* those that stay.
LEMMA MapsDrop ==
    ASSUME NEW xs, NEW ys, NEW a, NEW b, NEW n \in Nat, NEW k \in Nat, k > 0, NEW l, NEW p,
           Maps(xs, a, n + k, l, p), Maps(xs, a, n + 1, l, b[l]),
           \A m \in 1 .. k - 1 : ys[m].lrd = xs[m + n].lrd /\ ys[m].prd = xs[m + n].prd
    PROVE  Maps(ys, b, k, l, p)
  <1>1. CASE a[l] = p /\ \A m \in 1 .. (n + k) - 1 : xs[m].lrd # l
    <2>1. b[l] = p
      <3>1. \A m \in 1 .. (n + 1) - 1 : xs[m].lrd # l
        BY <1>1
      <3> QED
        BY <3>1, <1>1 DEF Maps
    <2>2. \A m \in 1 .. k - 1 : ys[m].lrd # l
      BY <1>1
    <2> QED
      BY <2>1, <2>2 DEF Maps
  <1>2. ASSUME NEW j \in 1 .. (n + k) - 1, xs[j].lrd = l, xs[j].prd = p,
               \A m \in j + 1 .. (n + k) - 1 : xs[m].lrd # l
        PROVE  Maps(ys, b, k, l, p)
    <2>1. CASE j > n
      <3>1. j - n \in 1 .. k - 1 /\ ys[j - n].lrd = l /\ ys[j - n].prd = p
        BY <2>1, <1>2
      <3>2. \A m \in (j - n) + 1 .. k - 1 : ys[m].lrd # l
        BY <2>1, <1>2
      <3> QED
        BY <3>1, <3>2 DEF Maps
    <2>2. CASE j <= n
      <3>1. ~\A m \in 1 .. (n + 1) - 1 : xs[m].lrd # l
        BY <1>2, <2>2
      <3>2. PICK i \in 1 .. (n + 1) - 1 : /\ xs[i].lrd = l /\ xs[i].prd = b[l]
                                          /\ \A m \in i + 1 .. (n + 1) - 1 : xs[m].lrd # l
        BY <3>1 DEF Maps
      <3>3. i = j
        BY <3>2, <1>2, <2>2
      <3>4. \A m \in 1 .. k - 1 : ys[m].lrd # l
        BY <1>2, <2>2
      <3> QED
        BY <3>2, <3>3, <3>4, <1>2 DEF Maps
    <2> QED
      BY <2>1, <2>2
  <1> QED
    BY <1>1, <1>2 DEF Maps

\* What rename makes sure of for an instruction x that follows xs.
Fresh(x, xs, a) ==
    /\ x.lrd = None <=> x.prd = None
    /\ x.prd # 0
    /\ \A l \in LRegs : a[l] # x.prd
    /\ \A j \in 1 .. Len(xs) : x.prd # None => xs[j].prd # x.prd
    /\ \A p \in x.srcs : \E l \in LRegs : Maps(xs, a, Len(xs) + 1, l, p)

\* Renaming one more instruction keeps destinations distinct and sources right.
LEMMA Extend ==
    ASSUME NEW xs \in Seq(Instrs), NEW x \in Instrs, NEW a,
           Distinct(xs, a), Sources(xs, a), Fresh(x, xs, a)
    PROVE  Distinct(Append(xs, x), a) /\ Sources(Append(xs, x), a)
  <1>0. PICK n \in Nat : n = Len(xs)
    OBVIOUS
  <1>1. PICK ys : ys = Append(xs, x)
    BY Zenon
  <1>2. Len(ys) = n + 1 /\ ys[n + 1] = x /\ \A m \in 1 .. n : ys[m] = xs[m]
    BY <1>0, <1>1
  <1>3. Distinct(ys, a)
    <2> SUFFICES ASSUME NEW k \in 1 .. n + 1
                 PROVE  /\ ys[k].lrd = None <=> ys[k].prd = None
                        /\ ys[k].prd # 0
                        /\ \A l \in LRegs : a[l] # ys[k].prd
                        /\ \A j \in 1 .. n + 1 : ys[j].prd = ys[k].prd /\ ys[k].prd # None => j = k
      BY <1>2 DEF Distinct
    <2>1. CASE k = n + 1
      <3>1. \A j \in 1 .. n : ys[j].prd = ys[k].prd /\ ys[k].prd # None => FALSE
        BY <2>1, <1>0, <1>2 DEF Fresh
      <3>2. \A j \in 1 .. n + 1 : ys[j].prd = ys[k].prd /\ ys[k].prd # None => j = k
        BY <3>1, <2>1
      <3> QED
        BY <3>2, <2>1, <1>2 DEF Fresh
    <2>2. CASE k \in 1 .. n
      <3>1. \A j \in 1 .. n : ys[j].prd = ys[k].prd /\ ys[k].prd # None => j = k
        BY <2>2, <1>0, <1>2 DEF Distinct
      <3>2. ys[n + 1].prd = ys[k].prd /\ ys[k].prd # None => FALSE
        BY <2>2, <1>0, <1>2 DEF Fresh
      <3>3. \A j \in 1 .. n + 1 : ys[j].prd = ys[k].prd /\ ys[k].prd # None => j = k
        BY <3>1, <3>2
      <3> QED
        BY <3>3, <2>2, <1>0, <1>2 DEF Distinct
    <2> QED
      BY <2>1, <2>2
  <1>4. Sources(ys, a)
    <2> SUFFICES ASSUME NEW k \in 1 .. n + 1, NEW p \in ys[k].srcs
                 PROVE  \E l \in LRegs : Maps(ys, a, k, l, p)
      BY <1>2 DEF Sources
    <2>1. \E l \in LRegs : Maps(xs, a, k, l, p)
      <3>1. CASE k = n + 1
        BY <3>1, <1>0, <1>2 DEF Fresh
      <3>2. CASE k \in 1 .. n
        BY <3>2, <1>0, <1>2 DEF Sources
      <3> QED
        BY <3>1, <3>2
    <2>2. PICK l \in LRegs : Maps(xs, a, k, l, p)
      BY <2>1
    <2>3. \A m \in 1 .. k - 1 : xs[m].lrd = ys[m].lrd /\ xs[m].prd = ys[m].prd
      BY <1>2
    <2>4. Maps(ys, a, k, l, p)
      BY <2>2, <2>3, MapsPrefix
    <2> QED
      BY <2>4
  <1> QED
    BY <1>1, <1>3, <1>4

\* So does committing the n oldest, when arat takes over what they mapped.
LEMMA Drop ==
    ASSUME NEW xs, NEW ys, NEW a, NEW b, NEW n \in Nat, NEW h \in Nat,
           Len(ys) = h, Len(xs) = h + n, Distinct(xs, a), Sources(xs, a),
           \A m \in 1 .. h : /\ ys[m].lrd = xs[m + n].lrd /\ ys[m].prd = xs[m + n].prd
                             /\ ys[m].srcs = xs[m + n].srcs,
           \A l \in LRegs : Maps(xs, a, n + 1, l, b[l])
    PROVE  Distinct(ys, b) /\ Sources(ys, b)
  <1>1. Distinct(ys, b)
    <2> SUFFICES ASSUME NEW k \in 1 .. h
                 PROVE  /\ ys[k].lrd = None <=> ys[k].prd = None
                        /\ ys[k].prd # 0
                        /\ \A l \in LRegs : b[l] # ys[k].prd
                        /\ \A j \in 1 .. h : ys[j].prd = ys[k].prd /\ ys[k].prd # None => j = k
      BY DEF Distinct
    <2>0. k + n \in 1 .. h + n
      OBVIOUS
    <2>1. (ys[k].lrd = None <=> ys[k].prd = None) /\ ys[k].prd # 0
      BY <2>0 DEF Distinct
    <2>2. \A j \in 1 .. h : ys[j].prd = ys[k].prd /\ ys[k].prd # None => j = k
      <3> SUFFICES ASSUME NEW j \in 1 .. h, ys[j].prd = ys[k].prd, ys[k].prd # None
                   PROVE  j = k
        OBVIOUS
      <3>1. j + n \in 1 .. h + n /\ xs[j + n].prd = xs[k + n].prd /\ xs[k + n].prd # None
        OBVIOUS
      <3>2. j + n = k + n
        BY <2>0, <3>1 DEF Distinct
      <3> QED
        BY <3>2
    <2>3. ASSUME NEW l \in LRegs PROVE b[l] # ys[k].prd
      <3>1. CASE b[l] = a[l]
        BY <3>1, <2>0 DEF Distinct
      <3>2. CASE b[l] # a[l]
        <4>1. PICK j \in 1 .. (n + 1) - 1 : xs[j].lrd = l /\ xs[j].prd = b[l]
          BY <3>2 DEF Maps
        <4>2. j \in 1 .. h + n /\ j # k + n
          OBVIOUS
        <4>3. xs[j].prd # None
          BY <4>1, <4>2, Sizes DEF Distinct
        <4>4. xs[j].prd # xs[k + n].prd
          BY <2>0, <4>2, <4>3 DEF Distinct
        <4> QED
          BY <4>1, <4>4
      <3> QED
        BY <3>1, <3>2
    <2> QED
      BY <2>1, <2>2, <2>3
  <1>2. Sources(ys, b)
    <2> SUFFICES ASSUME NEW k \in 1 .. h, NEW p \in ys[k].srcs
                 PROVE  \E l \in LRegs : Maps(ys, b, k, l, p)
      BY DEF Sources
    <2>1. n + k \in 1 .. h + n /\ p \in xs[n + k].srcs
      OBVIOUS
    <2>2. PICK l \in LRegs : Maps(xs, a, n + k, l, p)
      BY <2>1 DEF Sources
    <2>3. Maps(xs, a, n + 1, l, b[l])
      OBVIOUS
    <2>4. \A m \in 1 .. k - 1 : ys[m].lrd = xs[m + n].lrd /\ ys[m].prd = xs[m + n].prd
      OBVIOUS
    <2>5. Maps(ys, b, k, l, p)
      BY <2>2, <2>3, <2>4, MapsDrop
    <2> QED
      BY <2>5
  <1> QED
    BY <1>1, <1>2

\* The lengths and the members of what is renamed and not committed.
LEMMA LiveFacts ==
    ASSUME TypeOK
    PROVE  /\ Live \in Seq(Instrs) /\ Len(rob) \in Nat /\ Len(issue) \in Nat
           /\ Len(Live) = Len(rob) + Len(issue)
           /\ \A k \in 1 .. Len(rob) : Live[k] = rob[k] /\ rob[k] \in Instrs
           /\ \A k \in 1 .. Len(issue) : Live[Len(rob) + k] = issue[k] /\ issue[k] \in Instrs
           /\ DOMAIN rob = 1 .. Len(rob) /\ DOMAIN issue = 1 .. Len(issue)
           /\ DOMAIN Live = 1 .. Len(Live)
  BY DEF TypeOK, Live

\* The instructions of the reorder buffer are the oldest in flight.
LEMMA InLive ==
    ASSUME TypeOK, NEW k \in 1 .. Len(rob)
    PROVE  k \in 1 .. Len(Live) /\ Live[k] = rob[k]
  BY LiveFacts

\* The alias table maps every register to one that was given out.
LEMMA RatFacts ==
    ASSUME TypeOK, Distinct(Live, arat), NEW l \in LRegs
    PROVE  rat[l] \in PRegs /\ Maps(Live, arat, Len(Live) + 1, l, rat[l])
  <1>0. PICK n \in Nat : n = Len(Live)
    BY LiveFacts
  <1>1. PICK xs \in Seq(Instrs) : xs = Live
    BY LiveFacts
  <1>2. Maps(xs, arat, n + 1, l, Youngest(xs, l, arat[l]))
    BY <1>0, <1>1, YoungestMaps
  <1>3. PICK p : p = rat[l]
    OBVIOUS
  <1>4. p = Youngest(xs, l, arat[l])
    BY <1>1, <1>3 DEF rat, Live
  <1>5. CASE p = arat[l]
    BY <1>0, <1>1, <1>2, <1>3, <1>4, <1>5 DEF TypeOK
  <1>6. CASE p # arat[l]
    <2>1. PICK j \in 1 .. (n + 1) - 1 : xs[j].lrd = l /\ xs[j].prd = p
      BY <1>2, <1>4, <1>6 DEF Maps
    <2>2. j \in 1 .. Len(xs) /\ xs[j] \in Instrs
      BY <1>0, <1>1
    <2>3. xs[j].prd # None
      BY <2>1, <2>2, <1>1, Sizes DEF Distinct
    <2>4. p \in PRegs
      BY <2>1, <2>2, <2>3 DEF Instrs
    <2> QED
      BY <2>4, <1>0, <1>1, <1>2, <1>3, <1>4
  <1> QED
    BY <1>5, <1>6

\* There are three registers more than the mapped ones and the buffer's.
LEMMA PRegsSize ==
    IsFiniteSet(PRegs) /\ Cardinality(PRegs) = Cardinality(LRegs) + N + 3
  <1>1. PICK m \in Nat : m = Cardinality(LRegs) + N + 2
    BY Sizes
  <1>2. PRegs = 0 .. m /\ 0 \in Int /\ m \in Int
    BY <1>1 DEF PRegs
  <1>3. IsFiniteSet(0 .. m) /\ Cardinality(0 .. m) = IF 0 > m THEN 0 ELSE m - 0 + 1
    BY <1>2, FS_Interval, Zenon
  <1> QED
    BY <1>1, <1>2, <1>3, Sizes

\* Looking for a free register from p onwards finds one when there is one.
LEMMA FirstOne ==
    ASSUME NEW p \in Int, NEW used, FreeList \ used # {}
    PROVE  FreeAfter(p, used) \in FreeList \ used
  <1>0. PICK C \in Nat : C = Cardinality(PRegs) /\ C > 0
    BY Sizes, PRegsSize
  <1>1. PICK F : F = FreeList \ used
    BY Zenon
  <1>2. F \in SUBSET Int /\ F # {}
    <2>1. FreeList \subseteq PRegs
      BY Zenon DEF FreeList
    <2>2. PRegs \subseteq Int
      BY Sizes
    <2> QED
      BY <1>1, <2>1, <2>2, Zenon
  <1>3. \A r \in Int : (r - p) % C \in Nat
    BY <1>0
  <1>4. PICK D : D = {(r - p) % C : r \in F}
    BY Zenon
  <1>5. D \in SUBSET Nat /\ D # {}
    BY <1>2, <1>3, <1>4, Zenon
  <1>6. PICK x \in D : \A y \in D : x <= y
    BY <1>5, Least, Zenon
  <1>7. PICK r \in F : x = (r - p) % C
    BY <1>4, <1>6
  <1>8. \A r2 \in F : (r - p) % C <= (r2 - p) % C
    BY <1>4, <1>6, <1>7, Zenon
  <1>9. \E r1 \in F : \A r2 \in F : (r1 - p) % C <= (r2 - p) % C
    BY <1>8
  <1>10. FreeAfter(p, used) = CHOOSE r1 \in F : \A r2 \in F : (r1 - p) % C <= (r2 - p) % C
    BY <1>0, <1>1 DEF FreeAfter
  <1> QED
    BY <1>1, <1>9, <1>10, Zenon

\* The register the rename stage took last is a register, also when it has taken none yet.
LEMMA LastTakenFacts ==
    ASSUME TypeOK
    PROVE  LastTaken \in Int
  <1>0. PICK n \in Nat : n = Len(Live)
    BY LiveFacts
  <1>1. PICK xs \in Seq(Instrs) : xs = Live /\ DOMAIN xs = 1 .. n
    BY <1>0, LiveFacts
  <1>2. PICK ws : ws = {k \in DOMAIN xs : xs[k].prd # None}
    BY Zenon
  <1>3. PICK A : A = {0} \cup {arat[l] : l \in LRegs}
    BY Zenon
  <1>4. LastTaken = IF ws = {} THEN Max(A) ELSE xs[Max(ws)].prd
    BY <1>1, <1>2, <1>3 DEF LastTaken, Live
  <1>5. CASE ws = {}
    <2>1. A \in SUBSET PRegs /\ A # {}
      BY <1>3, Sizes DEF TypeOK
    <2>2. A \in SUBSET Nat /\ Cardinality(LRegs) + N + 2 \in Nat
      BY <2>1, Sizes
    <2>3. \A x \in A : x <= Cardinality(LRegs) + N + 2
      BY <2>1, Sizes DEF PRegs
    <2>4. Max(A) \in A
      BY <2>1, <2>2, <2>3, Greatest, Zenon
    <2>5. PICK z : z = Max(A)
      OBVIOUS
    <2>6. z \in Int
      <3>1. z \in Nat
        BY <2>2, <2>4, <2>5, Zenon
      <3> QED
        BY <3>1
    <2> QED
      BY <1>4, <1>5, <2>5, <2>6, Zenon
  <1>6. CASE ws # {}
    <2>1. ws \in SUBSET Nat /\ \A x \in ws : x <= n
      BY <1>1, <1>2
    <2>2. Max(ws) \in ws
      BY <1>6, <2>1, Greatest, Zenon
    <2>3. xs[Max(ws)] \in Instrs /\ xs[Max(ws)].prd # None
      BY <1>1, <1>2, <2>2
    <2>4. xs[Max(ws)].prd \in PRegs
      BY <2>3 DEF Instrs
    <2>5. PICK z : z = xs[Max(ws)].prd
      OBVIOUS
    <2>6. z \in Int
      <3>1. z \in PRegs
        BY <2>4, <2>5, Zenon
      <3> QED
        BY <3>1, Sizes
    <2> QED
      BY <1>4, <1>6, <2>5, <2>6, Zenon
  <1> QED
    BY <1>5, <1>6

\* The free list never runs dry: while rename does not stall, it has two registers.
LEMMA TwoFree ==
    ASSUME TypeOK, Len(rob) <= N - 2
    PROVE  /\ FreeAfter(LastTaken, {}) \in FreeList
           /\ \A p \in FreeList : FreeAfter(p, {p}) \in FreeList /\ FreeAfter(p, {p}) # p
  <1>0. PICK c \in Nat : c = Cardinality(LRegs)
    BY Sizes
  <1>1. PICK n \in Nat : n = Len(Live) /\ n <= N
    BY LiveFacts, Sizes DEF TypeOK
  <1>2. PICK A : A = {arat[l] : l \in LRegs}
    BY Zenon
  <1>3. PICK xs \in Seq(Instrs) : xs = Live
    BY LiveFacts
  <1>4. PICK B : B = {xs[k].prd : k \in 1 .. n}
    BY Zenon
  <1>5. FreeList = PRegs \ ({0} \cup A \cup B)
    <2>1. {x.prd : x \in Range(xs)} = B
      BY <1>1, <1>3, <1>4 DEF Range
    <2> QED
      BY <2>1, <1>2, <1>3 DEF FreeList, Live
  <1>6. IsFiniteSet(A) /\ Cardinality(A) <= c /\ Cardinality(A) \in Nat
    <2>1. arat \in Surjection(LRegs, A)
      BY <1>2 DEF TypeOK, Surjection
    <2>2. IsFiniteSet(A) /\ Cardinality(A) <= c
      BY <2>1, <1>0, Sizes, FS_Surjection
    <2> QED
      BY <2>2, FS_CardinalityType
  <1>7. IsFiniteSet(B) /\ Cardinality(B) <= n /\ Cardinality(B) \in Nat
    <2>1. PICK g : g = [k \in 1 .. n |-> xs[k].prd]
      BY Zenon
    <2>2. g \in Surjection(1 .. n, B)
      BY <2>1, <1>4 DEF Surjection
    <2>3. IsFiniteSet(1 .. n) /\ Cardinality(1 .. n) = n
      <3>1. 1 \in Int /\ n \in Int
        OBVIOUS
      <3>2. IsFiniteSet(1 .. n) /\ Cardinality(1 .. n) = IF 1 > n THEN 0 ELSE n - 1 + 1
        BY <3>1, FS_Interval, Zenon
      <3> QED
        BY <3>2
    <2>4. IsFiniteSet(B) /\ Cardinality(B) <= n
      BY <2>2, <2>3, FS_Surjection
    <2> QED
      BY <2>4, FS_CardinalityType
  <1>8. PICK U : U = {0} \cup A \cup B
    BY Zenon
  <1>9. IsFiniteSet(U) /\ Cardinality(U) <= 1 + c + n /\ Cardinality(U) \in Nat
    <2>1. IsFiniteSet({0}) /\ Cardinality({0}) = 1
      BY FS_Singleton, Zenon
    <2>2. PICK V : V = {0} \cup A
      BY Zenon
    <2>3. IsFiniteSet(V) /\ Cardinality(V) = Cardinality({0}) + Cardinality(A) - Cardinality({0} \cap A)
      BY <2>1, <2>2, <1>6, FS_Union
    <2>4. Cardinality({0} \cap A) \in Nat
      BY <2>1, FS_Intersection, FS_CardinalityType
    <2>5. Cardinality(V) <= 1 + c /\ Cardinality(V) \in Nat
      BY <2>1, <2>3, <2>4, <1>6, FS_CardinalityType
    <2>6. U = V \cup B
      BY <1>8, <2>2
    <2>7. IsFiniteSet(U) /\ Cardinality(U) = Cardinality(V) + Cardinality(B) - Cardinality(V \cap B)
      BY <2>3, <2>6, <1>7, FS_Union
    <2>8. Cardinality(V \cap B) \in Nat
      BY <2>3, FS_Intersection, FS_CardinalityType, Zenon
    <2>9. Cardinality(U) <= 1 + c + n
      BY <2>5, <2>7, <2>8, <1>7
    <2> QED
      BY <2>7, <2>9, FS_CardinalityType
  <1>10. IsFiniteSet(PRegs) /\ Cardinality(PRegs) = c + N + 3
    BY <1>0, PRegsSize
  <1>11. IsFiniteSet(FreeList) /\ Cardinality(FreeList) \in Nat /\ Cardinality(FreeList) >= 2
    <2>1. /\ IsFiniteSet(PRegs \ U)
          /\ Cardinality(PRegs \ U) = Cardinality(PRegs) - Cardinality(PRegs \cap U)
      BY <1>10, FS_Difference, Zenon
    <2>2. Cardinality(PRegs \cap U) <= Cardinality(U) /\ Cardinality(PRegs \cap U) \in Nat
      <3>1. PRegs \cap U \in SUBSET U
        OBVIOUS
      <3> QED
        BY <3>1, <1>9, FS_Subset, FS_CardinalityType
    <2>3. FreeList = PRegs \ U
      BY <1>5, <1>8
    <2> QED
      BY <2>1, <2>2, <2>3, <1>1, <1>9, <1>10, Sizes, FS_CardinalityType
  <1>12. FreeList # {}
    BY <1>11, FS_EmptySet
  <1>13. FreeList \in SUBSET PRegs
    BY <1>5
  <1>14. FreeAfter(LastTaken, {}) \in FreeList
    <2>1. LastTaken \in Int
      BY LastTakenFacts
    <2>2. FreeAfter(LastTaken, {}) \in FreeList \ {}
      BY <2>1, <1>12, FirstOne
    <2> QED
      BY <2>2
  <1>15. ASSUME NEW p \in FreeList
         PROVE  FreeAfter(p, {p}) \in FreeList /\ FreeAfter(p, {p}) # p
    <2>1. FreeList \ {p} # {}
      <3> SUFFICES ASSUME FreeList \ {p} = {}
                   PROVE  FALSE
        OBVIOUS
      <3>1. FreeList = {p}
        OBVIOUS
      <3>2. Cardinality(FreeList) = 1
        BY <3>1, FS_Singleton, Zenon
      <3> QED
        BY <3>2, <1>11
    <2>2. p \in Int
      BY <1>13, Sizes
    <2>3. FreeAfter(p, {p}) \in FreeList \ {p}
      BY <2>1, <2>2, FirstOne
    <2> QED
      BY <2>3
  <1> QED
    BY <1>14, <1>15

\* What the free list holds is nobody's.
LEMMA FreeFacts ==
    ASSUME TypeOK, NEW p \in FreeList
    PROVE  /\ p \in PRegs /\ p # 0 /\ p # None
           /\ \A l \in LRegs : arat[l] # p
           /\ \A k \in 1 .. Len(Live) : Live[k].prd # p
  <1>1. p \in PRegs /\ p # 0 /\ \A l \in LRegs : arat[l] # p
    BY DEF FreeList
  <1>2. ASSUME NEW k \in 1 .. Len(Live) PROVE Live[k].prd # p
    <2>1. Live[k] \in Range(Live)
      BY LiveFacts DEF Range
    <2> QED
      BY <2>1 DEF FreeList, Live
  <1> QED
    BY <1>1, <1>2, Sizes

\* What renamed gives an instruction whose sources map says where to find.
IsRenamed(x, kind, map, p) ==
    /\ x \in Instrs /\ x.srcs = {map[l] : l \in kind.srcs} /\ kind.srcs \in SUBSET LRegs
    /\ x.lrd = kind.lrd /\ x.prd = IF kind.lrd = None THEN None ELSE p
    /\ x.slot = None /\ x.rdy = FALSE

\* What the rename stage makes of an instruction: its operands through the map, its
\* destination from the free list.
LEMMA RenamedFacts ==
    ASSUME NEW kind \in Kinds, NEW map, NEW p \in PRegs, p # 0,
           \A l \in LRegs : map[l] \in PRegs
    PROVE  IsRenamed(renamed(kind, map, p), kind, map, p)
  <1>1. kind.srcs \in SUBSET LRegs /\ kind.lrd \in LRegs \cup {None} /\ kind.late \in BOOLEAN
    BY Parameters
  <1>2. PICK S \in SUBSET PRegs : S = {map[l] : l \in kind.srcs}
    BY <1>1, Zenon
  <1>3. renamed(kind, map, p) = [slot |-> None, srcs |-> S, lrd |-> kind.lrd,
                                 prd |-> IF kind.lrd = None THEN None ELSE p,
                                 late |-> kind.late, rdy |-> FALSE]
    <2>1. PICK d : d = IF kind.lrd = None THEN None ELSE p
      OBVIOUS
    <2>2. renamed(kind, map, p) = [Nothing EXCEPT !.srcs = S, !.lrd = kind.lrd, !.prd = d, !.late = kind.late]
      BY <1>2, <2>1, Zenon DEF renamed
    <2>3. renamed(kind, map, p) = [slot |-> None, srcs |-> S, lrd |-> kind.lrd, prd |-> d,
                                   late |-> kind.late, rdy |-> FALSE]
      BY <2>2, Zenon DEF Nothing
    <2> QED
      BY <2>1, <2>3, Zenon
  <1> QED
    BY <1>1, <1>2, <1>3 DEF Instrs, IsRenamed

\* One more instruction changes the mapping of its destination and no other.
LEMMA MapsNext ==
    ASSUME NEW xs, NEW a, NEW k \in Nat, k > 0, NEW l, NEW p
    PROVE  /\ Maps(xs, a, k, l, p) /\ xs[k].lrd # l => Maps(xs, a, k + 1, l, p)
           /\ xs[k].lrd = l => Maps(xs, a, k + 1, l, xs[k].prd)
  <1>1. ASSUME Maps(xs, a, k, l, p), xs[k].lrd # l
        PROVE  Maps(xs, a, k + 1, l, p)
    <2>1. CASE a[l] = p /\ \A m \in 1 .. k - 1 : xs[m].lrd # l
      <3>1. \A m \in 1 .. (k + 1) - 1 : xs[m].lrd # l
        BY <1>1, <2>1
      <3> QED
        BY <2>1, <3>1 DEF Maps
    <2>2. ASSUME NEW j \in 1 .. k - 1, xs[j].lrd = l, xs[j].prd = p,
                 \A m \in j + 1 .. k - 1 : xs[m].lrd # l
          PROVE  Maps(xs, a, k + 1, l, p)
      <3>1. j \in 1 .. (k + 1) - 1 /\ \A m \in j + 1 .. (k + 1) - 1 : xs[m].lrd # l
        BY <1>1, <2>2
      <3> QED
        BY <2>2, <3>1 DEF Maps
    <2> QED
      BY <1>1, <2>1, <2>2 DEF Maps
  <1>2. ASSUME xs[k].lrd = l
        PROVE  Maps(xs, a, k + 1, l, xs[k].prd)
    <2>1. k \in 1 .. (k + 1) - 1 /\ \A m \in k + 1 .. (k + 1) - 1 : xs[m].lrd # l
      OBVIOUS
    <2> QED
      BY <1>2, <2>1 DEF Maps
  <1> QED
    BY <1>1, <1>2

\* What an edge may put into the issue register.
Renaming(news) ==
    /\ news \in Seq(Instrs) /\ Len(news) <= 2
    /\ \A k \in 1 .. Len(news) : /\ news[k].slot = None /\ news[k].rdy = FALSE
                                 /\ news[k].prd = None \/ news[k].prd \in FreeList
    /\ Distinct(Live \o news, arat) /\ Sources(Live \o news, arat)

\* A stalled rename stage renames nothing.
LEMMA RenamesNone ==
    ASSUME TypeOK, Distinct(Live, arat), Sources(Live, arat)
    PROVE  Renaming(<<>>)
  <1>1. Live \o <<>> = Live
    BY LiveFacts
  <1> QED
    BY <1>1 DEF Renaming

\* The first instruction of a pair: sources from the alias table, destination free.
LEMMA FirstFresh ==
    ASSUME TypeOK, Distinct(Live, arat), NEW kind \in Kinds, NEW p \in FreeList
    PROVE  Fresh(renamed(kind, rat, p), Live, arat) /\ renamed(kind, rat, p) \in Instrs
  <1>1. \A l \in LRegs : rat[l] \in PRegs /\ Maps(Live, arat, Len(Live) + 1, l, rat[l])
    BY RatFacts
  <1>2. PICK x : x = renamed(kind, rat, p)
    OBVIOUS
  <1>3. /\ x \in Instrs /\ x.srcs = {rat[l] : l \in kind.srcs} /\ kind.srcs \in SUBSET LRegs
        /\ x.lrd = kind.lrd /\ x.prd = IF kind.lrd = None THEN None ELSE p
    <2>1. p \in PRegs /\ p # 0
      BY FreeFacts
    <2>2. IsRenamed(x, kind, rat, p)
      BY <1>1, <1>2, <2>1, RenamedFacts
    <2> QED
      BY <2>2, Zenon DEF IsRenamed
  <1>4. (x.lrd = None <=> x.prd = None) /\ x.prd # 0
    BY <1>3, FreeFacts, Sizes
  <1>5. \A l \in LRegs : arat[l] # x.prd
    BY <1>3, FreeFacts, Sizes DEF TypeOK
  <1>6. \A j \in 1 .. Len(Live) : x.prd # None => Live[j].prd # x.prd
    BY <1>3, FreeFacts
  <1>7. \A q \in x.srcs : \E l \in LRegs : Maps(Live, arat, Len(Live) + 1, l, q)
    BY <1>1, <1>3
  <1> QED
    BY <1>2, <1>3, <1>4, <1>5, <1>6, <1>7, Zenon DEF Fresh

\* The second one: it sees the destination of the first.
Follows(y, x, q) ==
    /\ y \in Instrs /\ Fresh(y, Append(Live, x), arat)
    /\ y.slot = None /\ y.rdy = FALSE /\ y.prd \in {None, q}

\* The second lane reads the destination of the first when it depends on it, and takes
\* another register.
LEMMA SecondFresh ==
    ASSUME TypeOK, Distinct(Live, arat), NEW kind \in Kinds, NEW p \in FreeList, NEW q \in FreeList,
           p # q, NEW x \in Instrs, x.prd \in {None, p}, NEW map,
           x.lrd = None <=> x.prd = None,
           map = [l \in LRegs |-> Youngest(<<x>>, l, rat[l])]
    PROVE  Follows(renamed(kind, map, q), x, q)
  <1>0. PICK n \in Nat : n = Len(Live)
    BY LiveFacts
  <1>1. PICK ys : ys = Append(Live, x)
    BY Zenon
  <1>2. Len(ys) = n + 1 /\ ys[n + 1] = x /\ \A m \in 1 .. n : ys[m] = Live[m]
    BY <1>0, <1>1, LiveFacts
  <1>3. ASSUME NEW l \in LRegs
        PROVE  map[l] \in PRegs /\ Maps(ys, arat, (n + 1) + 1, l, map[l])
    <2>0. n + 1 \in Nat /\ n + 1 > 0
      OBVIOUS
    <2>1. rat[l] \in PRegs /\ Maps(Live, arat, n + 1, l, rat[l])
      BY <1>0, RatFacts
    <2>2. Maps(ys, arat, n + 1, l, rat[l])
      <3>1. \A m \in 1 .. (n + 1) - 1 : Live[m].lrd = ys[m].lrd /\ Live[m].prd = ys[m].prd
        BY <1>2
      <3> QED
        BY <2>1, <3>1, MapsPrefix
    <2>3. PICK one : one = <<x>>
      OBVIOUS
    <2>4. DOMAIN one = 1 .. 1 /\ one[1] = x
      BY <2>3
    <2>5. Maps(one, rat, 1 + 1, l, map[l])
      BY <2>3, <2>4, YoungestMaps, Zenon
    <2>6. CASE x.lrd = l
      <3>1. map[l] = x.prd
        BY <2>4, <2>5, <2>6 DEF Maps
      <3>2. x.prd \in PRegs
        BY <2>6, Sizes, FreeFacts
      <3>3. Maps(ys, arat, (n + 1) + 1, l, x.prd)
        BY <1>2, <2>0, <2>6, MapsNext, Zenon
      <3> QED
        BY <3>1, <3>2, <3>3
    <2>7. CASE x.lrd # l
      <3>1. map[l] = rat[l]
        BY <2>4, <2>5, <2>7 DEF Maps
      <3>2. Maps(ys, arat, (n + 1) + 1, l, rat[l])
        BY <1>2, <2>0, <2>2, <2>7, MapsNext, Zenon
      <3> QED
        BY <3>1, <3>2, <2>1
    <2> QED
      BY <2>6, <2>7
  <1>4. PICK y : y = renamed(kind, map, q)
    OBVIOUS
  <1>5. /\ y \in Instrs /\ y.srcs = {map[l] : l \in kind.srcs} /\ kind.srcs \in SUBSET LRegs
        /\ y.lrd = kind.lrd /\ y.prd = IF kind.lrd = None THEN None ELSE q
        /\ y.slot = None /\ y.rdy = FALSE
    <2>1. q \in PRegs /\ q # 0
      BY FreeFacts
    <2>2. IsRenamed(y, kind, map, q)
      BY <1>3, <1>4, <2>1, RenamedFacts
    <2> QED
      BY <2>2, Zenon DEF IsRenamed
  <1>6. (y.lrd = None <=> y.prd = None) /\ y.prd # 0
    BY <1>5, FreeFacts, Sizes
  <1>7. \A l \in LRegs : arat[l] # y.prd
    BY <1>5, FreeFacts, Sizes DEF TypeOK
  <1>8. \A j \in 1 .. Len(ys) : y.prd # None => ys[j].prd # y.prd
    <2> SUFFICES ASSUME NEW j \in 1 .. n + 1, y.prd # None
                 PROVE  ys[j].prd # y.prd
      BY <1>2
    <2>1. y.prd = q
      BY <1>5
    <2>2. CASE j = n + 1
      BY <1>2, <2>1, <2>2, FreeFacts
    <2>3. CASE j \in 1 .. n
      BY <1>0, <1>2, <2>1, <2>3, FreeFacts
    <2> QED
      BY <2>2, <2>3
  <1>9. \A r \in y.srcs : \E l \in LRegs : Maps(ys, arat, Len(ys) + 1, l, r)
    BY <1>2, <1>3, <1>5
  <1> QED
    BY <1>1, <1>4, <1>5, <1>6, <1>7, <1>8, <1>9 DEF Fresh, Follows

\* A pair that rename takes.
LEMMA RenamesPair ==
    ASSUME TypeOK, Distinct(Live, arat), Sources(Live, arat), Len(rob) <= N - 2,
           NEW kinds \in {<<>>} \cup {<<k>> : k \in Kinds} \cup (Kinds \X Kinds)
    PROVE  Renaming(Renamed(kinds))
  <1>1. PICK p, q \in FreeList : p = FreeAfter(LastTaken, {}) /\ q = FreeAfter(p, {p}) /\ p # q
    BY TwoFree, Zenon
  <1>2. CASE kinds = <<>>
    BY <1>2, RenamesNone DEF Renamed
  <1>3. ASSUME NEW k \in Kinds, kinds = <<k>>
        PROVE  Renaming(Renamed(kinds))
    <2>1. PICK x : x = renamed(k, rat, p)
      OBVIOUS
    <2>2. x \in Instrs /\ Fresh(x, Live, arat)
      BY <2>1, FirstFresh
    <2>3. Renamed(kinds) = <<x>>
      BY <1>1, <1>3, <2>1 DEF Renamed
    <2>4. Live \o <<x>> = Append(Live, x)
      BY <2>2, LiveFacts
    <2>5. Distinct(Append(Live, x), arat) /\ Sources(Append(Live, x), arat)
      BY <2>2, Extend, LiveFacts
    <2>6. x.slot = None /\ x.rdy = FALSE /\ x.prd \in {None, p}
      <3>1. p \in PRegs /\ p # 0
        BY FreeFacts
      <3>2. \A l \in LRegs : rat[l] \in PRegs
        BY RatFacts
      <3>3. \A kind \in Kinds : IsRenamed(renamed(kind, rat, p), kind, rat, p)
        BY <3>1, <3>2, RenamedFacts
      <3> QED
        BY <2>1, <3>3, Zenon DEF IsRenamed
    <2>7. PICK news : news = <<x>>
      BY Zenon
    <2>8. /\ news \in Seq(Instrs) /\ Len(news) <= 2
          /\ \A j \in 1 .. Len(news) : news[j] = x
      BY <2>2, <2>7
    <2> QED
      BY <2>3, <2>4, <2>5, <2>6, <2>7, <2>8, Zenon DEF Renaming
  <1>4. ASSUME NEW k1 \in Kinds, NEW k2 \in Kinds, kinds = <<k1, k2>>
        PROVE  Renaming(Renamed(kinds))
    <2>1. PICK x : x = renamed(k1, rat, p)
      OBVIOUS
    <2>2. PICK map : map = [l \in LRegs |-> Youngest(<<x>>, l, rat[l])]
      BY Zenon
    <2>3. PICK y : y = renamed(k2, map, q)
      OBVIOUS
    <2>4. x \in Instrs /\ Fresh(x, Live, arat)
      BY <2>1, FirstFresh
    <2>5. x.slot = None /\ x.rdy = FALSE /\ x.prd \in {None, p}
      <3>1. p \in PRegs /\ p # 0
        BY FreeFacts
      <3>2. \A l \in LRegs : rat[l] \in PRegs
        BY RatFacts
      <3>3. \A kind \in Kinds : IsRenamed(renamed(kind, rat, p), kind, rat, p)
        BY <3>1, <3>2, RenamedFacts
      <3> QED
        BY <2>1, <3>3, Zenon DEF IsRenamed
    <2>6. /\ y \in Instrs /\ Fresh(y, Append(Live, x), arat)
          /\ y.slot = None /\ y.rdy = FALSE /\ y.prd \in {None, q}
      <3>1. x.lrd = None <=> x.prd = None
        BY <2>4 DEF Fresh
      <3> QED
        <4>1. Follows(y, x, q)
          BY <1>1, <2>2, <2>3, <2>4, <2>5, <3>1, SecondFresh
        <4> QED
          BY <4>1, Zenon DEF Follows
    <2>7. Renamed(kinds) = <<x, y>>
      BY <1>1, <1>4, <2>1, <2>2, <2>3 DEF Renamed
    <2>8. Live \o <<x, y>> = Append(Append(Live, x), y)
      BY <2>4, <2>6, LiveFacts
    <2>9. Append(Live, x) \in Seq(Instrs) /\ Distinct(Append(Live, x), arat) /\ Sources(Append(Live, x), arat)
      BY <2>4, Extend, LiveFacts
    <2>10. Distinct(Append(Append(Live, x), y), arat) /\ Sources(Append(Append(Live, x), y), arat)
      BY <2>6, <2>9, Extend, Zenon
    <2>11. PICK news : news = <<x, y>>
      BY Zenon
    <2>12. /\ news \in Seq(Instrs) /\ Len(news) <= 2
           /\ \A j \in 1 .. Len(news) : news[j] \in {x, y}
      BY <2>4, <2>6, <2>11
    <2>13. \A z \in {x, y} : z.slot = None /\ z.rdy = FALSE /\ (z.prd = None \/ z.prd \in FreeList)
      BY <2>5, <2>6
    <2> QED
      BY <2>7, <2>8, <2>10, <2>11, <2>12, <2>13, Zenon DEF Renaming
  <1> QED
    BY <1>2, <1>3, <1>4

-----------------------------------------------------------------------------
(* What an edge does, piece by piece *)

\* The stations and the pipes of a lane.
LaneStep(i, lsu) ==
    /\ \A a \in Addr : rs'[i][a] = IF i + 1 \in DOMAIN pushed /\ a = Min(free_vec(i)) THEN pushed[i + 1]
                                   ELSE IF pop_ro(i, lsu) /\ a = ro[i].addr THEN Nothing ELSE rs[i][a]
    /\ ex'[i] = IF pop_ro(i, lsu) THEN ro[i].ins ELSE IF pop_ex(i, lsu) THEN Nothing ELSE ex[i]
    /\ wb'[i] = IF pop_ex(i, lsu) THEN ex[i] ELSE IF pop_wb(i, lsu) THEN Nothing ELSE wb[i]
    /\ ro'[i] = ro_nxt(i, pop_ro(i, lsu))

\* The edge of the pipeline is the edge of each of its lanes.
LEMMA LanesStep ==
    ASSUME NEW kinds, NEW finish, NEW alone, Clock(kinds, finish, alone, FALSE), NEW i \in Lanes
    PROVE  LaneStep(i, prf_we_lsu(finish, FALSE))
  <1>1. PICK lsu : lsu = prf_we_lsu(finish, FALSE)
    BY Zenon
  <1>2. rs'[i] = rs_nxt(i, pop_ro(i, lsu))
    BY <1>1 DEF Clock
  <1>3. ro'[i] = ro_nxt(i, pop_ro(i, lsu))
    BY <1>1 DEF Clock
  <1>4. ex'[i] = IF pop_ro(i, lsu) THEN ro[i].ins ELSE IF pop_ex(i, lsu) THEN Nothing ELSE ex[i]
    BY <1>1 DEF Clock
  <1>5. wb'[i] = IF pop_ex(i, lsu) THEN ex[i] ELSE IF pop_wb(i, lsu) THEN Nothing ELSE wb[i]
    BY <1>1 DEF Clock
  <1>6. \A a \in Addr : rs'[i][a] = IF i + 1 \in DOMAIN pushed /\ a = Min(free_vec(i)) THEN pushed[i + 1]
                                    ELSE IF pop_ro(i, lsu) /\ a = ro[i].addr THEN Nothing ELSE rs[i][a]
    BY <1>2 DEF rs_nxt
  <1> QED
    BY <1>1, <1>3, <1>4, <1>5, <1>6, Zenon DEF LaneStep

\* What leaves the reorder buffer is ready; a late instruction leaves alone, when
\* the unit it waits for has finished.
Leaving(n, finish) ==
    /\ n \in 0 .. 2 /\ n <= Len(rob)
    /\ \A j \in 1 .. n : rob[j].rdy
    /\ \A j \in 1 .. n : rob[j].late => n = 1 /\ finish

\* What the commit stage takes off the reorder buffer: at most two, from the front, all
\* written back; a late one alone, when it finishes.
LEMMA LeavingFacts ==
    ASSUME TypeOK, NEW finish, NEW alone
    PROVE  Leaving(cmt_pop_size(finish, alone, FALSE), finish)
  <1>0. PICK n : n = cmt_pop_size(finish, alone, FALSE)
    BY Zenon
  <1>1. DOMAIN rob = 1 .. Len(rob) /\ Len(rob) \in Nat
    BY LiveFacts
  <1>2. CASE ~cmt_valid(1) \/ (pipe_req /\ ~finish)
    BY <1>0, <1>1, <1>2 DEF cmt_pop_size, Leaving
  <1>3. CASE cmt_valid(1) /\ ~(pipe_req /\ ~finish)
    <2>1. n = IF cmt_valid(2) /\ ~alone /\ ~head.late /\ ~rob[2].late THEN 2 ELSE 1
      BY <1>0, <1>3 DEF cmt_pop_size
    <2>2. CASE n = 2
      <3>1. cmt_valid(2) /\ ~rob[1].late /\ ~rob[2].late
        BY <2>1, <2>2 DEF head
      <3>2. Len(rob) >= 2 /\ \A j \in 1 .. 2 : rob[j].rdy
        BY <3>1, <1>1 DEF cmt_valid
      <3>3. n \in 0 .. 2 /\ n <= Len(rob) /\ \A j \in 1 .. n : j \in 1 .. 2 /\ (j = 1 \/ j = 2)
        BY <3>2, <2>2, <1>1
      <3>4. \A j \in 1 .. n : ~rob[j].late
        BY <3>1, <3>3, Zenon
      <3>5. \A j \in 1 .. n : rob[j].rdy
        BY <3>2, <3>3, Zenon
      <3> QED
        BY <3>3, <3>4, <3>5, <1>0, Zenon DEF Leaving
    <2>3. CASE n = 1
      <3>1. rob[1].rdy /\ Len(rob) >= 1
        BY <1>1, <1>3 DEF cmt_valid
      <3>2. rob[1].late => finish
        BY <1>3 DEF pipe_req, head
      <3>3. n \in 0 .. 2 /\ n <= Len(rob) /\ \A j \in 1 .. n : j = 1
        BY <3>1, <2>3, <1>1
      <3> QED
        BY <3>1, <3>2, <3>3, <2>3, <1>0, Zenon DEF Leaving
    <2> QED
      BY <2>1, <2>2, <2>3, Zenon
  <1> QED
    BY <1>2, <1>3, Zenon

\* What is pushed into the reorder buffer and the stations.
LEMMA PushedFacts ==
    ASSUME TypeOK
    PROVE  /\ DOMAIN pushed = 1 .. Len(pushed) /\ Len(pushed) \in Nat
           /\ rn_stall_req => pushed = <<>> /\ Len(pushed) = 0
           /\ ~rn_stall_req => Len(pushed) = Len(issue) /\ Len(rob) <= N - 2
           /\ Len(pushed) <= 2
           /\ \A k \in 1 .. Len(pushed) :
                 /\ k \in 1 .. Len(issue) /\ ~rn_stall_req /\ issue[k] \in Instrs
                 /\ pushed[k] = [issue[k] EXCEPT !.slot = (next + (k - 1)) % N]
  <1>0. DOMAIN issue = 1 .. Len(issue) /\ Len(issue) \in Nat /\ Len(issue) <= 2
    BY LiveFacts DEF TypeOK
  <1>1. CASE rn_stall_req
    BY <1>1 DEF pushed
  <1>2. CASE ~rn_stall_req
    <2>1. pushed = [k \in 1 .. Len(issue) |-> [issue[k] EXCEPT !.slot = (next + (k - 1)) % N]]
      BY <1>0, <1>2 DEF pushed, place
    <2>2. Len(pushed) = Len(issue)
      BY <2>1, <1>0
    <2>3. Len(rob) <= N - 2
      BY <1>2 DEF rn_stall_req, rob_ready
    <2> QED
      BY <2>1, <2>2, <2>3, <1>0, <1>2, LiveFacts
  <1> QED
    BY <1>1, <1>2

\* What is pushed into the reorder buffer has been given a slot number.
LEMMA PushedTyped ==
    ASSUME TypeOK
    PROVE  pushed \in Seq(Instrs) /\ \A k \in 1 .. Len(pushed) : pushed[k].slot \in Slots
  <1>1. \A m \in Nat : m % N \in Slots
    BY Sizes DEF Slots
  <1>2. \A k \in 1 .. Len(pushed) : (next + (k - 1)) % N \in Slots
    <2>1. \A k \in 1 .. Len(pushed) : next + (k - 1) \in Nat
      BY PushedFacts DEF TypeOK, Slots
    <2> QED
      BY <1>1, <2>1
  <1>3. \A k \in 1 .. Len(pushed) : pushed[k] \in Instrs /\ pushed[k].slot \in Slots
    BY <1>2, PushedFacts DEF Instrs
  <1>4. pushed \in Seq(Instrs)
    <2>1. CASE rn_stall_req
      BY <2>1, PushedFacts
    <2>2. CASE ~rn_stall_req
      <3>1. PICK n \in Nat : n = Len(issue) /\ DOMAIN issue = 1 .. n /\ Len(pushed) = n
        BY <2>2, LiveFacts, PushedFacts
      <3>2. pushed = [k \in 1 .. n |-> place(issue[k], k - 1)]
        BY <2>2, <3>1 DEF pushed
      <3>3. \A k \in 1 .. n : place(issue[k], k - 1) \in Instrs
        BY <3>1, <3>2, <1>3
      <3> QED
        BY <3>2, <3>3
    <2> QED
      BY <2>1, <2>2
  <1> QED
    BY <1>3, <1>4

\* The reorder buffer after the edge: the n oldest are gone, those the pipes report
\* are ready, and the pair of the issue register is at the end.
RobStep(n) ==
    /\ Len(rob') = (Len(rob) - n) + Len(pushed)
    /\ \A k \in 1 .. Len(rob) - n :
          rob'[k] = [rob[k + n] EXCEPT !.rdy = @ \/ rob[k + n].slot \in wb_rob_fire]
    /\ \A k \in 1 .. Len(pushed) : rob'[(Len(rob) - n) + k] = pushed[k]

\* zs is xs, of length n, followed by ys, of length m.
IsJoin(zs, xs, ys, n, m) ==
    /\ Len(zs) = n + m
    /\ \A k \in 1 .. n : zs[k] = xs[k]
    /\ \A k \in 1 .. m : zs[n + k] = ys[k]

\* A concatenation has its parts, in order.
LEMMA Joins ==
    ASSUME NEW xs \in Seq(Instrs), NEW ys \in Seq(Instrs), NEW n \in Nat, NEW m \in Nat,
           n = Len(xs), m = Len(ys)
    PROVE  IsJoin(xs \o ys, xs, ys, n, m)
  BY DEF IsJoin

\* The reorder buffer after an edge: the oldest are gone, the ones that write back are
\* marked, the pushed ones follow.
LEMMA RobSteps ==
    ASSUME TypeOK, NEW kinds, NEW finish, NEW alone, Clock(kinds, finish, alone, FALSE)
    PROVE  RobStep(cmt_pop_size(finish, alone, FALSE)) /\ rob' \in Seq(Instrs)
  <1>0. PICK n : n = cmt_pop_size(finish, alone, FALSE)
    BY Zenon
  <1>1. PICK L \in Nat : L = Len(rob)
    BY LiveFacts, Zenon
  <1>2. n \in 0 .. 2 /\ n <= L /\ DOMAIN rob = 1 .. L /\ \A k \in 1 .. L : rob[k] \in Instrs
    BY <1>0, <1>1, LeavingFacts, LiveFacts, Zenon DEF Leaving
  <1>3. PICK marked : marked = [k \in 1 .. L |-> [rob[k] EXCEPT !.rdy = @ \/ rob[k].slot \in wb_rob_fire]]
    BY Zenon
  <1>4. rob' = SubSeq(marked, n + 1, L) \o pushed
    BY <1>0, <1>1, <1>2, <1>3 DEF Clock
  <1>5. marked \in Seq(Instrs) /\ Len(marked) = L
    <2>1. \A k \in 1 .. L : [rob[k] EXCEPT !.rdy = @ \/ rob[k].slot \in wb_rob_fire] \in Instrs
      BY <1>2, Zenon DEF Instrs
    <2> QED
      BY <1>3, <2>1
  <1>6. PICK ss : ss = SubSeq(marked, n + 1, L)
    BY Zenon
  <1>7. ss \in Seq(Instrs) /\ Len(ss) = L - n /\ \A k \in 1 .. L - n : ss[k] = marked[k + n]
    <2>1. n + 1 \in Int /\ L \in Int /\ \A i \in n + 1 .. L : marked[i] \in Instrs
      BY <1>2, <1>5
    <2>2. /\ ss \in Seq(Instrs) /\ Len(ss) = IF n + 1 <= L THEN L - (n + 1) + 1 ELSE 0
          /\ \A i \in 1 .. L - (n + 1) + 1 : ss[i] = marked[(n + 1) + i - 1]
      BY <1>6, <2>1, SubSeqProperties
    <2>3. L - (n + 1) + 1 = L - n /\ \A k \in 1 .. L - n : (n + 1) + k - 1 = k + n
      BY <1>2
    <2> QED
      BY <2>2, <2>3, <1>2
  <1>8. pushed \in Seq(Instrs)
    BY PushedTyped
  <1>9. PICK q \in Seq(Instrs) : q = pushed
    BY <1>8
  <1>10. rob' = ss \o q
    BY <1>4, <1>6, <1>9
  <1>11. /\ rob' \in Seq(Instrs) /\ Len(rob') = (L - n) + Len(q)
         /\ \A k \in 1 .. L - n : rob'[k] = ss[k]
         /\ \A k \in 1 .. Len(q) : rob'[(L - n) + k] = q[k]
    <2>0. L - n \in Nat /\ Len(q) \in Nat
      <3>1. n \in Nat /\ n <= L
        BY <1>2
      <3>2. L - n \in Nat
        BY <3>1
      <3>3. Len(q) \in Nat
        BY LenProperties, Zenon
      <3> QED
        BY <3>2, <3>3
    <2>1. PICK a \in Nat, b \in Nat : a = L - n /\ b = Len(q)
      BY <2>0, Zenon
    <2>2. rob' \in Seq(Instrs)
      BY <1>7, <1>10
    <2>3. IsJoin(ss \o q, ss, q, a, b)
      BY <1>7, <2>1, Joins
    <2> QED
      BY <1>10, <2>1, <2>2, <2>3, Zenon DEF IsJoin
  <1>12. \A k \in 1 .. L - n : rob'[k] = [rob[k + n] EXCEPT !.rdy = @ \/ rob[k + n].slot \in wb_rob_fire]
    <2>1. \A k \in 1 .. L - n : k + n \in 1 .. L
      BY <1>2
    <2>2. \A k \in 1 .. L - n : rob'[k] = marked[k + n]
      BY <1>7, <1>11
    <2> QED
      BY <2>1, <2>2, <1>3, Zenon
  <1> QED
    BY <1>0, <1>1, <1>9, <1>11, <1>12, Zenon DEF RobStep

-----------------------------------------------------------------------------
(* The numbers of the reorder buffer *)

\* A number that is less than twice the size, brought back into the buffer.
Wrap(t) == IF t < N THEN t ELSE t - N

\* Adding to a slot number wraps around once at most.
LEMMA Wraps ==
    ASSUME NEW t \in Nat, t < 2 * N
    PROVE  t % N = Wrap(t) /\ Wrap(t) \in Slots
  <1>1. N \in Nat /\ N > 0
    BY Sizes
  <1>2. t % N = IF t < N THEN t ELSE t - N
    BY <1>1, Modulo
  <1> QED
    BY <1>1, <1>2 DEF Wrap, Slots

\* The slots as Numbered and place give them.
LEMMA SlotFacts ==
    ASSUME TypeOK, Numbered
    PROVE  /\ \A k \in 1 .. Len(rob) : /\ rob[k].slot = Wrap(next + (N - Len(rob)) + (k - 1))
                                       /\ rob[k].slot \in Slots
           /\ \A k \in 1 .. Len(pushed) : pushed[k].slot = Wrap(next + (k - 1))
  <1>0. PICK L \in Nat : L = Len(rob) /\ L <= N
    BY LiveFacts DEF TypeOK
  <1>1. N \in Nat /\ N > 0 /\ next \in Nat /\ next < N
    BY Sizes DEF TypeOK, Slots
  <1>2. ASSUME NEW k \in 1 .. L
        PROVE  rob[k].slot = Wrap(next + (N - L) + (k - 1)) /\ rob[k].slot \in Slots
    <2>0. next + (N - L) + (k - 1) \in Nat /\ next + (N - L) + (k - 1) < 2 * N
      BY <1>0, <1>1
    <2>1. PICK t \in Nat : t = next + (N - L) + (k - 1) /\ t < 2 * N
      BY <2>0
    <2>2. rob[k].slot = t % N
      BY <1>0, <2>1 DEF Numbered
    <2>3. t % N = Wrap(t) /\ Wrap(t) \in Slots
      BY <2>1, Wraps
    <2> QED
      BY <2>1, <2>2, <2>3
  <1>3. ASSUME NEW k \in 1 .. Len(pushed)
        PROVE  pushed[k].slot = Wrap(next + (k - 1))
    <2>0. Len(pushed) \in Nat /\ Len(pushed) <= 2 /\ Len(rob) <= N - 2
      BY PushedFacts
    <2>1. PICK t \in Nat : t = next + (k - 1) /\ t < 2 * N
      BY <1>0, <1>1, <2>0
    <2>2. pushed[k].slot = t % N
      BY <2>1, PushedFacts DEF Instrs
    <2>3. t % N = Wrap(t)
      BY <2>1, Wraps
    <2> QED
      BY <2>1, <2>2, <2>3
  <1> QED
    BY <1>0, <1>2, <1>3

\* The slots of the reorder buffer and of the pair that is pushed are all different.
LEMMA SlotsDiffer ==
    ASSUME TypeOK, Numbered
    PROVE  /\ \A j, k \in 1 .. Len(rob) : rob[j].slot = rob[k].slot => j = k
           /\ \A j \in 1 .. Len(rob), k \in 1 .. Len(pushed) : rob[j].slot # pushed[k].slot
           /\ \A j, k \in 1 .. Len(pushed) : pushed[j].slot = pushed[k].slot => j = k
  <1>0. PICK L \in Nat : L = Len(rob) /\ L <= N
    BY LiveFacts DEF TypeOK
  <1>1. N \in Nat /\ N > 0 /\ next \in Nat /\ next < N
    BY Sizes DEF TypeOK, Slots
  <1>2. PICK M \in Nat : M = Len(pushed) /\ M <= 2 /\ (M > 0 => L <= N - 2)
    BY <1>0, PushedFacts
  <1>3. \A k \in 1 .. L : rob[k].slot = Wrap(next + (N - L) + (k - 1))
    BY <1>0, SlotFacts
  <1>4. \A k \in 1 .. M : pushed[k].slot = Wrap(next + (k - 1))
    BY <1>2, SlotFacts
  <1>5. \A j, k \in 1 .. L : Wrap(next + (N - L) + (j - 1)) = Wrap(next + (N - L) + (k - 1)) => j = k
    BY <1>0, <1>1 DEF Wrap
  <1>6. \A j \in 1 .. L, k \in 1 .. M : Wrap(next + (N - L) + (j - 1)) # Wrap(next + (k - 1))
    BY <1>0, <1>1, <1>2 DEF Wrap
  <1>7. \A j, k \in 1 .. M : Wrap(next + (j - 1)) = Wrap(next + (k - 1)) => j = k
    <2> SUFFICES ASSUME NEW j \in 1 .. M, NEW k \in 1 .. M, Wrap(next + (j - 1)) = Wrap(next + (k - 1))
                 PROVE  j = k
      OBVIOUS
    <2>1. L <= N - 2 /\ N >= 2
      BY <1>0, <1>1, <1>2
    <2> QED
      BY <1>1, <1>2, <2>1 DEF Wrap
  <1> QED
    BY <1>0, <1>2, <1>3, <1>4, <1>5, <1>6, <1>7

\* The buffer stays numbered.
LEMMA NumberedStep ==
    ASSUME TypeOK, Numbered, NEW n \in 0 .. 2, n <= Len(rob), RobStep(n),
           next' = (next + Len(pushed)) % N
    PROVE  /\ next' \in Slots /\ Len(rob') <= N
           /\ \A k \in 1 .. Len(rob') : rob'[k].slot = (next' + (N - Len(rob')) + (k - 1)) % N
  <1>0. PICK L \in Nat : L = Len(rob) /\ L <= N /\ n <= L
    BY LiveFacts DEF TypeOK
  <1>1. N \in Nat /\ N > 0 /\ next \in Nat /\ next < N
    BY Sizes DEF TypeOK, Slots
  <1>2. PICK M \in Nat : M = Len(pushed) /\ M <= 2 /\ (M > 0 => L <= N - 2)
    BY <1>0, PushedFacts
  <1>3. PICK e : e = next'
    OBVIOUS
  <1>4. e = Wrap(next + M) /\ e \in Slots
    <2>1. next + M \in Nat /\ next + M < 2 * N
      BY <1>0, <1>1, <1>2
    <2> QED
      BY <1>2, <1>3, <2>1, Wraps
  <1>5. PICK G \in Nat : G = Len(rob') /\ G = (L - n) + M /\ G <= N
    BY <1>0, <1>1, <1>2 DEF RobStep
  <1>6. ASSUME NEW k \in 1 .. G
        PROVE  rob'[k].slot = (e + (N - G) + (k - 1)) % N
    <2>1. PICK t \in Nat : t = e + (N - G) + (k - 1) /\ t < 2 * N
      BY <1>1, <1>4, <1>5 DEF Slots
    <2>2. t % N = Wrap(t)
      BY <2>1, Wraps
    <2>3. CASE k <= L - n
      <3>1. k \in 1 .. L - n /\ k + n \in 1 .. L
        BY <1>0, <2>3
      <3>2. rob'[k].slot = rob[k + n].slot
        BY <3>1, <1>0, LiveFacts, Zenon DEF RobStep, Instrs
      <3>3. rob[k + n].slot = Wrap(next + (N - L) + ((k + n) - 1))
        BY <3>1, <1>0, SlotFacts
      <3>4. Wrap(next + (N - L) + ((k + n) - 1)) = Wrap(t)
        <4>1. CASE next + M < N
          <5>1. t = next + (N - L) + ((k + n) - 1)
            BY <1>0, <1>1, <1>2, <1>4, <1>5, <2>1, <4>1 DEF Wrap
          <5> QED
            BY <5>1
        <4>2. CASE ~(next + M < N)
          <5>1. t + N = next + (N - L) + ((k + n) - 1)
            BY <1>0, <1>1, <1>2, <1>4, <1>5, <2>1, <4>2 DEF Wrap
          <5>2. t < N
            BY <5>1, <1>0, <1>1, <2>3
          <5> QED
            BY <5>1, <5>2, <1>1 DEF Wrap
        <4> QED
          BY <4>1, <4>2
      <3> QED
        BY <2>1, <2>2, <3>2, <3>3, <3>4
    <2>4. CASE k > L - n
      <3>1. PICK j \in 1 .. M : k = (L - n) + j
        <4>1. k - (L - n) \in 1 .. M /\ k = (L - n) + (k - (L - n))
          BY <1>0, <1>5, <2>4
        <4> QED
          BY <4>1
      <3>2. rob'[k].slot = pushed[j].slot
        BY <3>1, <1>0, <1>2 DEF RobStep
      <3>3. pushed[j].slot = Wrap(next + (j - 1))
        BY <1>2, SlotFacts
      <3>4. Wrap(next + (j - 1)) = Wrap(t)
        <4>1. CASE next + M < N
          <5>1. t = (next + (j - 1)) + N
            BY <1>0, <1>1, <1>2, <1>4, <1>5, <2>1, <3>1, <4>1 DEF Wrap
          <5>2. next + (j - 1) < N
            BY <4>1, <1>1, <1>2
          <5> QED
            BY <5>1, <5>2, <1>1 DEF Wrap
        <4>2. CASE ~(next + M < N)
          <5>1. t = next + (j - 1)
            BY <1>0, <1>1, <1>2, <1>4, <1>5, <2>1, <3>1, <4>2, SMTT(30) DEF Wrap
          <5> QED
            BY <5>1
        <4> QED
          BY <4>1, <4>2
      <3> QED
        BY <2>1, <2>2, <3>2, <3>3, <3>4
    <2> QED
      BY <2>3, <2>4, <1>0
  <1> QED
    BY <1>3, <1>4, <1>5, <1>6

-----------------------------------------------------------------------------
(* From place to place *)

\* The places, and what they hold before and after an edge.
LEMMA PlaceFacts ==
    /\ \A p \in Places : \E i \in Lanes : \/ \E a \in Addr : p = <<"rs", i, a>>
                                          \/ p = <<"ex", i, 0>>
                                          \/ p = <<"wb", i, 0>>
    /\ \A i \in Lanes : /\ <<"ex", i, 0>> \in Places /\ <<"wb", i, 0>> \in Places
                        /\ Content(<<"ex", i, 0>>) = ex[i] /\ Content(<<"wb", i, 0>>) = wb[i]
                        /\ Content(<<"ex", i, 0>>)' = ex'[i] /\ Content(<<"wb", i, 0>>)' = wb'[i]
    /\ \A i \in Lanes, a \in Addr : /\ <<"rs", i, a>> \in Places
                                    /\ Content(<<"rs", i, a>>) = rs[i][a]
                                    /\ Content(<<"rs", i, a>>)' = rs'[i][a]
  <1>1. \A p \in Places : \E i \in Lanes : \/ \E a \in Addr : p = <<"rs", i, a>>
                                           \/ p = <<"ex", i, 0>>
                                           \/ p = <<"wb", i, 0>>
    BY DEF Places
  <1>2. ASSUME NEW i \in Lanes
        PROVE  /\ <<"ex", i, 0>> \in Places /\ <<"wb", i, 0>> \in Places
               /\ Content(<<"ex", i, 0>>) = ex[i] /\ Content(<<"wb", i, 0>>) = wb[i]
               /\ Content(<<"ex", i, 0>>)' = ex'[i] /\ Content(<<"wb", i, 0>>)' = wb'[i]
    BY DEF Places, Content
  <1>3. ASSUME NEW i \in Lanes, NEW a \in Addr
        PROVE  /\ <<"rs", i, a>> \in Places
               /\ Content(<<"rs", i, a>>) = rs[i][a]
               /\ Content(<<"rs", i, a>>)' = rs'[i][a]
    BY DEF Places, Content
  <1> QED
    BY <1>1, <1>2, <1>3

\* Where the edge takes what is at q, and what it takes out of the pipes.
To(q, lsu) ==
    CASE q[1] = "rs" -> IF pop_ro(q[2], lsu) /\ q[3] = ro[q[2]].addr THEN <<"ex", q[2], 0>> ELSE q
      [] q[1] = "ex" -> IF pop_ex(q[2], lsu) THEN <<"wb", q[2], 0>> ELSE q
      [] OTHER       -> q

Gone(q, lsu) == q[1] = "wb" /\ pop_wb(q[2], lsu)

\* Where each place of the pipeline sends its instruction at an edge.
LEMMA ToFacts ==
    ASSUME NEW lsu, NEW i
    PROVE  /\ \A a : To(<<"rs", i, a>>, lsu) = IF pop_ro(i, lsu) /\ a = ro[i].addr THEN <<"ex", i, 0>>
                                               ELSE <<"rs", i, a>>
           /\ \A a : ~Gone(<<"rs", i, a>>, lsu)
           /\ To(<<"ex", i, 0>>, lsu) = IF pop_ex(i, lsu) THEN <<"wb", i, 0>> ELSE <<"ex", i, 0>>
           /\ ~Gone(<<"ex", i, 0>>, lsu)
           /\ To(<<"wb", i, 0>>, lsu) = <<"wb", i, 0>>
           /\ Gone(<<"wb", i, 0>>, lsu) <=> pop_wb(i, lsu)
  BY DEF To, Gone

\* What is pushed goes to the lowest free entry.
LEMMA PushAddr ==
    ASSUME TypeOK, NEW i \in Lanes, i + 1 \in DOMAIN pushed
    PROVE  Min(free_vec(i)) \in Addr /\ ~valid(rs[i][Min(free_vec(i))])
  <1>1. ~rn_stall_req
    BY PushedFacts
  <1>2. free_vec(i) # {} /\ free_vec(i) \in SUBSET Nat
    BY <1>1, Sizes, Zenon DEF rn_stall_req, issue_rs_full, free_vec
  <1>3. Min(free_vec(i)) \in free_vec(i)
    BY <1>2, Least
  <1> QED
    BY <1>3 DEF free_vec

\* Nothing leaves a place except to the next one or, written back, for good.
Kept(lsu) ==
    \A q \in Places : valid(Content(q)) /\ ~Gone(q, lsu) =>
        \E p \in Places : p = To(q, lsu) /\ Content(p)' = Content(q)

\* No instruction is lost on its way: it is in the next place, unchanged.
LEMMA KeptHolds ==
    ASSUME TypeOK, Chosen, NEW lsu, \A i \in Lanes : LaneStep(i, lsu)
    PROVE  Kept(lsu)
  <1> SUFFICES ASSUME NEW q \in Places, valid(Content(q)), ~Gone(q, lsu)
               PROVE  \E p \in Places : p = To(q, lsu) /\ Content(p)' = Content(q)
    BY DEF Kept
  <1>1. PICK i \in Lanes : \/ \E a \in Addr : q = <<"rs", i, a>>
                           \/ q = <<"ex", i, 0>>
                           \/ q = <<"wb", i, 0>>
    BY PlaceFacts
  <1>2. LaneStep(i, lsu)
    OBVIOUS
  <1>3. ASSUME NEW a \in Addr, q = <<"rs", i, a>>
        PROVE  \E p \in Places : p = To(q, lsu) /\ Content(p)' = Content(q)
    <2>1. Content(q) = rs[i][a]
      BY <1>3, PlaceFacts
    <2>2. CASE pop_ro(i, lsu) /\ a = ro[i].addr
      <3>1. To(q, lsu) = <<"ex", i, 0>>
        BY <1>3, <2>2, ToFacts, ZenonT(40)
      <3>2. ex'[i] = ro[i].ins
        BY <1>2, <2>2, Zenon DEF LaneStep
      <3>3. ro[i].ins = rs[i][a]
        BY <2>2 DEF Chosen, pop_ro
      <3>8. PICK p : p = <<"ex", i, 0>>
        BY Zenon
      <3>9. p \in Places /\ p = To(q, lsu) /\ Content(p)' = Content(q)
        BY <2>1, <3>1, <3>2, <3>3, PlaceFacts, <3>8, Zenon
      <3> QED
        BY <3>9
    <2>3. CASE ~(pop_ro(i, lsu) /\ a = ro[i].addr)
      <3>1. To(q, lsu) = q
        BY <1>3, <2>3, ToFacts, Zenon
      <3>2. ~(i + 1 \in DOMAIN pushed /\ a = Min(free_vec(i)))
        BY <2>1, PushAddr, Zenon
      <3>3. rs'[i][a] = rs[i][a]
        BY <1>2, <2>3, <3>2 DEF LaneStep
      <3>8. PICK p : p = <<"rs", i, a>>
        BY Zenon
      <3>9. p \in Places /\ p = To(q, lsu) /\ Content(p)' = Content(q)
        BY <1>3, <2>1, <3>1, <3>3, PlaceFacts, <3>8
      <3> QED
        BY <3>9
    <2> QED
      BY <2>2, <2>3
  <1>4. CASE q = <<"ex", i, 0>>
    <2>1. Content(q) = ex[i] /\ valid(ex[i])
      BY <1>4, PlaceFacts, Zenon
    <2>2. CASE pop_ex(i, lsu)
      <3>1. To(q, lsu) = <<"wb", i, 0>> /\ wb'[i] = ex[i]
        BY <1>2, <1>4, <2>2, ToFacts, Zenon DEF LaneStep
      <3>8. PICK p : p = <<"wb", i, 0>>
        BY Zenon
      <3>9. p \in Places /\ p = To(q, lsu) /\ Content(p)' = Content(q)
        BY <2>1, <3>1, PlaceFacts, <3>8, Zenon
      <3> QED
        BY <3>9
    <2>3. CASE ~pop_ex(i, lsu)
      <3>1. ~pop_ro(i, lsu)
        BY <2>1, <2>3 DEF pop_ro
      <3>2. To(q, lsu) = q /\ ex'[i] = ex[i]
        BY <1>2, <1>4, <2>3, <3>1, ToFacts, Zenon DEF LaneStep
      <3>8. PICK p : p = <<"ex", i, 0>>
        BY Zenon
      <3>9. p \in Places /\ p = To(q, lsu) /\ Content(p)' = Content(q)
        BY <1>4, <2>1, <3>2, PlaceFacts, <3>8, Zenon
      <3> QED
        BY <3>9
    <2> QED
      BY <2>2, <2>3
  <1>5. CASE q = <<"wb", i, 0>>
    <2>1. Content(q) = wb[i] /\ valid(wb[i]) /\ ~pop_wb(i, lsu)
      BY <1>5, PlaceFacts, ToFacts, Zenon
    <2>2. ~pop_ex(i, lsu)
      BY <2>1 DEF pop_ex
    <2>3. To(q, lsu) = q /\ wb'[i] = wb[i]
      BY <1>2, <1>5, <2>1, <2>2, ToFacts, Zenon DEF LaneStep
    <2>8. PICK p : p = <<"wb", i, 0>>
      BY Zenon
    <2>9. p \in Places /\ p = To(q, lsu) /\ Content(p)' = Content(q)
      BY <1>5, <2>1, <2>3, PlaceFacts, <2>8, Zenon
    <2> QED
      BY <2>9
  <1> QED
    BY <1>1, <1>3, <1>4, <1>5

\* What is at p after the edge was somewhere before, or is pushed there.
Moved(p, q, lsu) ==
    /\ q \in Places /\ valid(Content(q)) /\ ~Gone(q, lsu)
    /\ p = To(q, lsu) /\ Content(p)' = Content(q)

PushedTo(p, i) ==
    /\ i + 1 \in 1 .. Len(pushed) /\ p = <<"rs", i, Min(free_vec(i))>>
    /\ Content(p)' = pushed[i + 1]

\* No instruction comes from nowhere: it was in the place before, or has just been pushed.
LEMMA OriginHolds ==
    ASSUME TypeOK, Chosen, NEW lsu, \A i \in Lanes : LaneStep(i, lsu),
           NEW p \in Places, valid(Content(p)')
    PROVE  (\E q \in Places : Moved(p, q, lsu)) \/ (\E i \in Lanes : PushedTo(p, i))
  <1>1. PICK i \in Lanes : \/ \E a \in Addr : p = <<"rs", i, a>>
                           \/ p = <<"ex", i, 0>>
                           \/ p = <<"wb", i, 0>>
    BY PlaceFacts
  <1>2. LaneStep(i, lsu)
    OBVIOUS
  <1>3. ASSUME NEW a \in Addr, p = <<"rs", i, a>>
        PROVE  (\E q \in Places : Moved(p, q, lsu)) \/ (\E j \in Lanes : PushedTo(p, j))
    <2>1. Content(p)' = rs'[i][a] /\ Content(p) = rs[i][a]
      BY <1>3, PlaceFacts
    <2>2. CASE i + 1 \in DOMAIN pushed /\ a = Min(free_vec(i))
      <3>1. rs'[i][a] = pushed[i + 1]
        BY <1>2, <2>2 DEF LaneStep
      <3>2. PushedTo(p, i)
        BY <1>3, <2>1, <2>2, <3>1, PushedFacts DEF PushedTo
      <3> QED
        BY <3>2, Zenon
    <2>3. CASE ~(i + 1 \in DOMAIN pushed /\ a = Min(free_vec(i)))
      <3>1. rs'[i][a] = IF pop_ro(i, lsu) /\ a = ro[i].addr THEN Nothing ELSE rs[i][a]
        BY <1>2, <2>3, SMTT(30) DEF LaneStep
      <3>2. ~(pop_ro(i, lsu) /\ a = ro[i].addr) /\ rs'[i][a] = rs[i][a]
        BY <2>1, <3>1 DEF valid
      <3>3. To(p, lsu) = p /\ ~Gone(p, lsu)
        BY <1>3, <3>2, ToFacts, Zenon
      <3>4. Moved(p, p, lsu)
        BY <2>1, <3>2, <3>3 DEF Moved, valid
      <3> QED
        BY <3>4, Zenon
    <2> QED
      BY <2>2, <2>3
  <1>4. CASE p = <<"ex", i, 0>>
    <2>1. Content(p)' = ex'[i] /\ Content(p) = ex[i]
      BY <1>4, PlaceFacts, Zenon
    <2>2. CASE pop_ro(i, lsu)
      <3>1. /\ ex'[i] = ro[i].ins /\ ro[i].addr \in Addr
            /\ rs[i][ro[i].addr] = ro[i].ins
        BY <1>2, <2>2 DEF LaneStep, Chosen, pop_ro
      <3>2. PICK q : q = <<"rs", i, ro[i].addr>>
        BY ZenonT(40)
      <3>3. q \in Places /\ Content(q) = ro[i].ins
        BY <3>1, <3>2, PlaceFacts
      <3>4. To(q, lsu) = p /\ ~Gone(q, lsu)
        BY <1>4, <2>2, <3>2, ToFacts, Zenon
      <3>5. Moved(p, q, lsu)
        BY <2>1, <3>1, <3>3, <3>4 DEF Moved, valid
      <3> QED
        BY <3>3, <3>5, Zenon
    <2>3. CASE ~pop_ro(i, lsu)
      <3>1. ex'[i] = IF pop_ex(i, lsu) THEN Nothing ELSE ex[i]
        BY <1>2, <2>3, Zenon DEF LaneStep
      <3>2. ~pop_ex(i, lsu) /\ ex'[i] = ex[i]
        BY <2>1, <3>1 DEF valid
      <3>3. To(p, lsu) = p /\ ~Gone(p, lsu)
        BY <1>4, <3>2, ToFacts, Zenon
      <3>4. Moved(p, p, lsu)
        BY <2>1, <3>2, <3>3 DEF Moved, valid
      <3> QED
        BY <3>4, ZenonT(40)
    <2> QED
      BY <2>2, <2>3
  <1>5. CASE p = <<"wb", i, 0>>
    <2>1. Content(p)' = wb'[i] /\ Content(p) = wb[i]
      BY <1>5, PlaceFacts, Zenon
    <2>2. CASE pop_ex(i, lsu)
      <3>1. wb'[i] = ex[i]
        BY <1>2, <2>2 DEF LaneStep
      <3>2. PICK q : q = <<"ex", i, 0>>
        BY Zenon
      <3>3. q \in Places /\ Content(q) = ex[i]
        BY <3>2, PlaceFacts, Zenon
      <3>4. To(q, lsu) = p /\ ~Gone(q, lsu)
        BY <1>5, <2>2, <3>2, ToFacts, Zenon
      <3>5. Moved(p, q, lsu)
        BY <2>1, <3>1, <3>3, <3>4 DEF Moved, valid
      <3> QED
        BY <3>3, <3>5, Zenon
    <2>3. CASE ~pop_ex(i, lsu)
      <3>1. wb'[i] = IF pop_wb(i, lsu) THEN Nothing ELSE wb[i]
        BY <1>2, <2>3, Zenon DEF LaneStep
      <3>2. ~pop_wb(i, lsu) /\ wb'[i] = wb[i]
        BY <2>1, <3>1 DEF valid
      <3>3. To(p, lsu) = p /\ ~Gone(p, lsu)
        BY <1>5, <3>2, ToFacts, Zenon
      <3>4. Moved(p, p, lsu)
        BY <2>1, <3>2, <3>3 DEF Moved, valid
      <3> QED
        BY <3>4
    <2> QED
      BY <2>2, <2>3
  <1> QED
    BY <1>1, <1>3, <1>4, <1>5

\* What is pushed arrives.
LEMMA Arrives ==
    ASSUME TypeOK, NEW lsu, NEW i \in Lanes, LaneStep(i, lsu), i + 1 \in 1 .. Len(pushed)
    PROVE  \E p \in Places : Content(p)' = pushed[i + 1]
  <1>1. i + 1 \in DOMAIN pushed
    BY PushedFacts
  <1>2. PICK a \in Addr : a = Min(free_vec(i))
    BY <1>1, PushAddr
  <1>3. rs'[i][a] = pushed[i + 1]
    BY <1>1, <1>2 DEF LaneStep
  <1>4. PICK p : p = <<"rs", i, a>>
    BY Zenon
  <1>5. p \in Places /\ Content(p)' = pushed[i + 1]
    BY <1>3, <1>4, PlaceFacts
  <1> QED
    BY <1>5

\* An entry that stays: entry j before the edge, entry k after it.
OldEntry(k, j) ==
    /\ rob'[k].slot = rob[j].slot /\ rob'[k].srcs = rob[j].srcs /\ rob'[k].lrd = rob[j].lrd
    /\ rob'[k].prd = rob[j].prd /\ rob'[k].late = rob[j].late
    /\ rob'[k].rdy <=> rob[j].rdy \/ rob[j].slot \in wb_rob_fire
    /\ [rob'[k] EXCEPT !.rdy = FALSE] = [rob[j] EXCEPT !.rdy = FALSE]

\* An entry of the reorder buffer after an edge is an older one, moved up, or a new one.
LEMMA EntryFacts ==
    ASSUME TypeOK, NEW n \in 0 .. 2, n <= Len(rob), RobStep(n)
    PROVE  /\ \A k \in 1 .. Len(rob) - n : OldEntry(k, k + n) /\ k + n \in 1 .. Len(rob)
           /\ \A k \in 1 .. Len(rob') :
                 \/ k \in 1 .. Len(rob) - n
                 \/ \E m \in 1 .. Len(pushed) : k = (Len(rob) - n) + m /\ rob'[k] = pushed[m]
           /\ \A k \in 1 .. Len(rob) - n : k \in 1 .. Len(rob')
           /\ \A j \in 1 .. Len(rob) : j > n => \E k \in 1 .. Len(rob') : OldEntry(k, j)
           /\ \A m \in 1 .. Len(pushed) : \E k \in 1 .. Len(rob') : rob'[k] = pushed[m]
  <1>0. PICK L \in Nat : L = Len(rob) /\ n <= L
    BY LiveFacts, Zenon
  <1>1. PICK M \in Nat : M = Len(pushed)
    BY PushedFacts
  <1>2. PICK G \in Nat : G = Len(rob') /\ G = (L - n) + M
    BY <1>0, <1>1 DEF RobStep
  <1>3. ASSUME NEW k \in 1 .. L - n
        PROVE  OldEntry(k, k + n) /\ k + n \in 1 .. L
    <2>1. k + n \in 1 .. L
      BY <1>0
    <2>2. rob[k + n] \in Instrs
      BY <2>1, <1>0, LiveFacts
    <2>3. PICK x \in Instrs : x = rob[k + n]
      BY <2>2
    <2>4. rob'[k] = [x EXCEPT !.rdy = @ \/ x.slot \in wb_rob_fire]
      BY <1>0, <2>3, Zenon DEF RobStep
    <2>5. PICK y : y = rob'[k]
      OBVIOUS
    <2>6. PICK w : w = wb_rob_fire
      OBVIOUS
    <2>7. /\ y.slot = x.slot /\ y.srcs = x.srcs /\ y.lrd = x.lrd
          /\ y.prd = x.prd /\ y.late = x.late
          /\ y.rdy <=> x.rdy \/ x.slot \in w
      BY <2>4, <2>5, <2>6, Zenon DEF Instrs
    <2>8. [y EXCEPT !.rdy = FALSE] = [x EXCEPT !.rdy = FALSE]
      BY <2>4, <2>5, <2>6, Zenon DEF Instrs
    <2> QED
      BY <2>1, <2>3, <2>5, <2>6, <2>7, <2>8, Zenon DEF OldEntry
  <1>4. ASSUME NEW k \in 1 .. G, ~(k \in 1 .. L - n)
        PROVE  \E m \in 1 .. M : k = (L - n) + m /\ rob'[k] = pushed[m]
    <2>1. PICK m \in 1 .. M : k = (L - n) + m
      <3>1. k - (L - n) \in 1 .. M /\ k = (L - n) + (k - (L - n))
        BY <1>0, <1>2, <1>4
      <3> QED
        BY <3>1
    <2>2. rob'[(L - n) + m] = pushed[m]
      BY <1>0, <1>1 DEF RobStep
    <2> QED
      BY <2>1, <2>2
  <1>5. \A k \in 1 .. L - n : k \in 1 .. G
    BY <1>0, <1>2
  <1>6. ASSUME NEW j \in 1 .. L, j > n
        PROVE  \E k \in 1 .. G : OldEntry(k, j)
    <2>1. PICK k \in 1 .. L - n : j = k + n
      <3>1. j - n \in 1 .. L - n /\ j = (j - n) + n
        BY <1>0, <1>6
      <3> QED
        BY <3>1
    <2> QED
      BY <2>1, <1>3, <1>5, Zenon
  <1>7. ASSUME NEW m \in 1 .. M
        PROVE  \E k \in 1 .. G : rob'[k] = pushed[m]
    <2>1. (L - n) + m \in 1 .. G
      BY <1>0, <1>2
    <2>2. rob'[(L - n) + m] = pushed[m]
      BY <1>0, <1>1 DEF RobStep
    <2> QED
      BY <2>1, <2>2
  <1> QED
    BY <1>0, <1>1, <1>2, <1>3, <1>4, <1>5, <1>6, <1>7

\* What is on its way has a slot, and what has a slot is on its way.
LEMMA HeldFacts ==
    ASSUME TypeOK, Numbered, Held, NEW p \in Places
    PROVE  /\ valid(Content(p)) <=> Content(p).slot \in Slots
           /\ valid(Content(p)) =>
                \E k \in 1 .. Len(rob) :
                    /\ Content(p) = [rob[k] EXCEPT !.rdy = FALSE]
                    /\ Content(p).slot = rob[k].slot /\ Content(p).srcs = rob[k].srcs
                    /\ Content(p).prd = rob[k].prd /\ Content(p).late = rob[k].late
  <1>1. PICK x : x = Content(p)
    OBVIOUS
  <1>2. ~valid(x) => x.slot \notin Slots
    BY Sizes DEF valid, Nothing
  <1>3. ASSUME valid(x)
        PROVE  /\ x.slot \in Slots
               /\ \E k \in 1 .. Len(rob) :
                    /\ x = [rob[k] EXCEPT !.rdy = FALSE]
                    /\ x.slot = rob[k].slot /\ x.srcs = rob[k].srcs
                    /\ x.prd = rob[k].prd /\ x.late = rob[k].late
    <2>1. PICK k \in 1 .. Len(rob) : x = [rob[k] EXCEPT !.rdy = FALSE]
      BY <1>1, <1>3 DEF Held
    <2>2. PICK y \in Instrs : y = rob[k]
      BY LiveFacts
    <2>3. x.slot = y.slot /\ x.srcs = y.srcs /\ x.prd = y.prd /\ x.late = y.late
      BY <2>1, <2>2 DEF Instrs
    <2>4. y.slot \in Slots
      BY <2>2, SlotFacts, SMTT(30)
    <2> QED
      BY <2>1, <2>2, <2>3, <2>4, Zenon
  <1> QED
    BY <1>1, <1>2, <1>3

\* What is pushed is not ready, and its slot is nobody else's.
LEMMA PushedWaits ==
    ASSUME TypeOK, Numbered, NEW m \in 1 .. Len(pushed)
    PROVE  /\ pushed[m] \in Instrs /\ pushed[m].rdy = FALSE /\ pushed[m].slot \in Slots
           /\ valid(pushed[m]) /\ \A j \in 1 .. Len(rob) : rob[j].slot # pushed[m].slot
  <1>1. pushed[m] \in Instrs /\ pushed[m].slot \in Slots
    BY PushedTyped, PushedFacts
  <1>2. PICK x \in Instrs : x = issue[m] /\ x.rdy = FALSE /\ pushed[m] = [x EXCEPT !.slot = (next + (m - 1)) % N]
    BY PushedFacts DEF Numbered
  <1>3. pushed[m].rdy = FALSE
    BY <1>2 DEF Instrs
  <1>4. valid(pushed[m])
    BY <1>1, Sizes DEF valid, Nothing
  <1> QED
    BY <1>1, <1>3, <1>4, SlotsDiffer

Origin(lsu) ==
    \A p \in Places : valid(Content(p)') =>
        (\E q \in Places : Moved(p, q, lsu)) \/ (\E i \in Lanes : PushedTo(p, i))

Arrival == \A i \in Lanes : i + 1 \in 1 .. Len(pushed) => \E p \in Places : Content(p)' = pushed[i + 1]

\* An edge without flush, as the invariants of the flow see it.
Edge(n, lsu, finish) ==
    /\ RobStep(n) /\ n \in 0 .. 2 /\ n <= Len(rob) /\ Leaving(n, finish)
    /\ Kept(lsu) /\ Origin(lsu) /\ Arrival
    /\ lsu => finish
    /\ finish => ~finished
    /\ finished' = finish

\* The pipe that kept its instruction because the port was taken lets it go at once.
LEMMA Retried ==
    ASSUME NEW n, NEW lsu, NEW finish, Edge(n, lsu, finish), finished, valid(wb[0])
    PROVE  pop_wb(0, lsu) /\ Gone(<<"wb", 0, 0>>, lsu) /\ ~lsu
  <1>1. ~lsu
    BY Zenon DEF Edge
  <1>2. pop_wb(0, lsu)
    BY <1>1 DEF pop_wb, wb_ready, wb_rob_ready
  <1> QED
    BY <1>1, <1>2, ToFacts, Zenon

\* What moves belongs to an entry that is not ready.
LEMMA MovesWait ==
    ASSUME TypeOK, Numbered, Held, Ready, NEW n, NEW lsu, NEW finish, Edge(n, lsu, finish),
           NEW p, NEW q, Moved(p, q, lsu), NEW j \in 1 .. Len(rob), Content(q).slot = rob[j].slot
    PROVE  ~rob[j].rdy
  <1> SUFFICES ASSUME rob[j].rdy
               PROVE  FALSE
    OBVIOUS
  <1>1. q \in Places /\ valid(Content(q)) /\ ~Gone(q, lsu)
    BY DEF Moved
  <1>2. finished /\ q = <<"wb", 0, 0>>
    BY <1>1 DEF Ready
  <1>3. valid(wb[0])
    BY <1>1, <1>2, PlaceFacts DEF Lanes
  <1> QED
    BY <1>1, <1>2, <1>3, Retried

\* Whatever is in the pipeline stays an instruction of the reorder buffer.
LEMMA HeldStep ==
    ASSUME TypeOK, Numbered, Held, Ready, NEW n, NEW lsu, NEW finish, Edge(n, lsu, finish)
    PROVE  Held'
  <1> SUFFICES ASSUME NEW p \in Places, valid(Content(p)')
               PROVE  \E k \in 1 .. Len(rob') : Content(p)' = [rob'[k] EXCEPT !.rdy = FALSE]
    BY DEF Held, valid
  <1>0. n \in 0 .. 2 /\ n <= Len(rob) /\ RobStep(n) /\ \A j \in 1 .. n : rob[j].rdy
    BY DEF Edge, Leaving
  <1>1. ASSUME NEW q \in Places, Moved(p, q, lsu)
        PROVE  \E k \in 1 .. Len(rob') : Content(p)' = [rob'[k] EXCEPT !.rdy = FALSE]
    <2>1. valid(Content(q)) /\ Content(p)' = Content(q)
      BY <1>1 DEF Moved
    <2>2. PICK j \in 1 .. Len(rob) : Content(q) = [rob[j] EXCEPT !.rdy = FALSE] /\ Content(q).slot = rob[j].slot
      BY <2>1, HeldFacts
    <2>3. ~rob[j].rdy
      BY <1>1, <2>2, MovesWait, Zenon
    <2>4. j > n
      BY <1>0, <2>3, LiveFacts
    <2>5. PICK k \in 1 .. Len(rob') : OldEntry(k, j)
      BY <1>0, <2>4, EntryFacts
    <2> QED
      BY <2>1, <2>2, <2>5, Zenon DEF OldEntry
  <1>2. ASSUME NEW i \in Lanes, PushedTo(p, i)
        PROVE  \E k \in 1 .. Len(rob') : Content(p)' = [rob'[k] EXCEPT !.rdy = FALSE]
    <2>1. i + 1 \in 1 .. Len(pushed) /\ Content(p)' = pushed[i + 1]
      BY <1>2 DEF PushedTo
    <2>2. PICK k \in 1 .. Len(rob') : rob'[k] = pushed[i + 1]
      BY <1>0, <2>1, EntryFacts
    <2>3. PICK y \in Instrs : y = pushed[i + 1] /\ y.rdy = FALSE
      BY <2>1, PushedWaits, Zenon
    <2>4. [y EXCEPT !.rdy = FALSE] = y
      BY <2>3, Zenon DEF Instrs
    <2> QED
      BY <2>1, <2>2, <2>3, <2>4, Zenon
  <1> QED
    BY <1>1, <1>2 DEF Edge, Origin

\* What has a slot after the edge: it moved, with the slot of an entry that is not
\* ready, or it was pushed.
LEMMA Whence ==
    ASSUME TypeOK, Numbered, Held, Ready, NEW n, NEW lsu, NEW finish, Edge(n, lsu, finish),
           NEW p \in Places, Content(p)'.slot \in Slots
    PROVE  \/ \E q \in Places, j \in 1 .. Len(rob) :
                 Moved(p, q, lsu) /\ Content(p)'.slot = rob[j].slot /\ ~rob[j].rdy
           \/ \E i \in Lanes : PushedTo(p, i)
  <1>1. valid(Content(p)')
    BY Sizes DEF valid, Nothing
  <1>2. ASSUME NEW q \in Places, Moved(p, q, lsu)
        PROVE  \E j \in 1 .. Len(rob) : Content(p)'.slot = rob[j].slot /\ ~rob[j].rdy
    <2>1. valid(Content(q)) /\ Content(p)' = Content(q)
      BY <1>2 DEF Moved
    <2>2. PICK j \in 1 .. Len(rob) : Content(q).slot = rob[j].slot
      BY <2>1, HeldFacts
    <2>3. ~rob[j].rdy
      BY <1>2, <2>2, MovesWait, Zenon
    <2> QED
      BY <2>1, <2>2, <2>3
  <1> QED
    BY <1>1, <1>2 DEF Edge, Origin

\* No instruction gets into two places of the pipeline.
LEMMA UniqueStep ==
    ASSUME TypeOK, Numbered, Held, Unique, Ready, NEW n, NEW lsu, NEW finish, Edge(n, lsu, finish), Held',
           (TypeOK /\ Numbered)'
    PROVE  Unique'
  <1> SUFFICES ASSUME NEW p \in Places, NEW r \in Places,
                      Content(p)'.slot = Content(r)'.slot, valid(Content(p)')
               PROVE  p = r
    BY DEF Unique, valid
  <1>1. Content(p)'.slot \in Slots
    <2>1. PICK k \in 1 .. Len(rob') : Content(p)' = [rob'[k] EXCEPT !.rdy = FALSE]
      BY DEF Held, valid
    <2>2. rob'[k] \in Instrs
      BY DEF TypeOK
    <2>3. rob'[k].slot = (next' + (N - Len(rob')) + (k - 1)) % N
      BY DEF Numbered
    <2>4. next' + (N - Len(rob')) + (k - 1) \in Nat
      BY Sizes, SMTT(30) DEF TypeOK, Slots
    <2>5. rob'[k].slot \in Slots
      BY <2>3, <2>4, Sizes DEF Slots
    <2> QED
      BY <2>1, <2>2, <2>5 DEF Instrs
  <1>2. ASSUME NEW q \in Places, NEW s \in Places, Moved(p, q, lsu), Moved(r, s, lsu)
        PROVE  p = r
    <2>1. Content(q).slot = Content(s).slot /\ valid(Content(q))
      BY <1>2 DEF Moved
    <2>2. q = s
      BY <2>1 DEF Unique
    <2> QED
      BY <1>2, <2>2 DEF Moved
  <1>3. ASSUME NEW t \in Places, NEW u \in Places, NEW j \in 1 .. Len(rob), NEW i \in Lanes,
               Content(t)'.slot = rob[j].slot, PushedTo(u, i), Content(t)'.slot = Content(u)'.slot
        PROVE  FALSE
    <2>1. i + 1 \in 1 .. Len(pushed) /\ Content(u)' = pushed[i + 1]
      BY <1>3 DEF PushedTo
    <2>2. rob[j].slot # pushed[i + 1].slot
      BY <2>1, SlotsDiffer
    <2> QED
      BY <1>3, <2>1, <2>2
  <1>4. ASSUME NEW i \in Lanes, NEW h \in Lanes, PushedTo(p, i), PushedTo(r, h)
        PROVE  p = r
    <2>1. /\ i + 1 \in 1 .. Len(pushed) /\ Content(p)' = pushed[i + 1]
          /\ h + 1 \in 1 .. Len(pushed) /\ Content(r)' = pushed[h + 1]
      BY <1>4 DEF PushedTo
    <2>2. i + 1 = h + 1
      BY <2>1, SlotsDiffer
    <2>3. i = h
      BY <2>2, SMTT(30) DEF Lanes
    <2> QED
      BY <1>4, <2>3 DEF PushedTo
  <1>5. \/ \E q \in Places, j \in 1 .. Len(rob) : Moved(p, q, lsu) /\ Content(p)'.slot = rob[j].slot
        \/ \E i \in Lanes : PushedTo(p, i)
    BY <1>1, Whence, Zenon
  <1>6. \/ \E q \in Places, j \in 1 .. Len(rob) : Moved(r, q, lsu) /\ Content(r)'.slot = rob[j].slot
        \/ \E i \in Lanes : PushedTo(r, i)
    BY <1>1, Whence
  <1> QED
    BY <1>2, <1>3, <1>4, <1>5, <1>6

\* An instruction that has not been written back stays in the pipeline.
LEMMA WaitingStep ==
    ASSUME TypeOK, Numbered, Held, Waiting, NEW n, NEW lsu, NEW finish, Edge(n, lsu, finish)
    PROVE  Waiting'
  <1> SUFFICES ASSUME NEW k \in 1 .. Len(rob'), ~rob'[k].rdy
               PROVE  \E p \in Places : Content(p)'.slot = rob'[k].slot
    BY DEF Waiting
  <1>0. n \in 0 .. 2 /\ n <= Len(rob) /\ RobStep(n)
    BY DEF Edge
  <1>1. CASE k \in 1 .. Len(rob) - n
    <2>1. PICK j \in 1 .. Len(rob) : OldEntry(k, j)
      BY <1>0, <1>1, EntryFacts
    <2>2. ~rob[j].rdy /\ rob[j].slot \notin wb_rob_fire /\ rob'[k].slot = rob[j].slot
      BY <2>1 DEF OldEntry
    <2>3. PICK q \in Places : Content(q).slot = rob[j].slot
      BY <2>2 DEF Waiting
    <2>4. valid(Content(q))
      BY <2>3, HeldFacts, SlotFacts
    <2>5. ~Gone(q, lsu)
      <3> SUFFICES ASSUME Gone(q, lsu)
                   PROVE  FALSE
        OBVIOUS
      <3>0. PICK i \in Lanes : \/ \E a \in Addr : q = <<"rs", i, a>>
                               \/ q = <<"ex", i, 0>>
                               \/ q = <<"wb", i, 0>>
        BY PlaceFacts
      <3>1. q = <<"wb", i, 0>> /\ pop_wb(i, lsu)
        BY <3>0, ToFacts, Zenon
      <3>2. Content(q) = wb[i]
        BY <3>1, PlaceFacts, Zenon
      <3>3. valid(wb[i]) /\ wb_rob_ready(i)
        BY <3>1 DEF pop_wb, wb_ready
      <3>4. wb[i].slot \in wb_rob_fire
        BY <3>3 DEF wb_rob_fire
      <3> QED
        BY <2>2, <2>3, <3>2, <3>4
    <2>6. PICK p \in Places : Content(p)' = Content(q)
      BY <2>4, <2>5 DEF Edge, Kept
    <2> QED
      BY <2>2, <2>3, <2>6
  <1>2. CASE ~(k \in 1 .. Len(rob) - n)
    <2>1. PICK m \in 1 .. Len(pushed) : rob'[k] = pushed[m]
      BY <1>0, <1>2, EntryFacts, Zenon
    <2>2. m - 1 \in Lanes /\ m = (m - 1) + 1
      BY PushedFacts DEF Lanes
    <2>3. PICK i \in Lanes : m = i + 1
      BY <2>2
    <2>4. PICK p \in Places : Content(p)' = pushed[i + 1]
      BY <2>3 DEF Edge, Arrival
    <2> QED
      BY <2>1, <2>3, <2>4
  <1> QED
    BY <1>1, <1>2

\* One that has been written back has left the pipeline, but for the refused write of the
\* first lane.
LEMMA ReadyStep ==
    ASSUME TypeOK, Numbered, Held, Unique, Ready, NEW n, NEW lsu, NEW finish, Edge(n, lsu, finish)
    PROVE  Ready'
  <1> SUFFICES ASSUME NEW k \in 1 .. Len(rob'), NEW p \in Places,
                      rob'[k].rdy, Content(p)'.slot = rob'[k].slot
               PROVE  finished' /\ p = <<"wb", 0, 0>>
    BY DEF Ready
  <1>0. n \in 0 .. 2 /\ n <= Len(rob) /\ RobStep(n)
    BY DEF Edge
  <1>1. k \in 1 .. Len(rob) - n
    <2> SUFFICES ASSUME ~(k \in 1 .. Len(rob) - n)
                 PROVE  FALSE
      OBVIOUS
    <2>1. PICK m \in 1 .. Len(pushed) : rob'[k] = pushed[m]
      BY <1>0, EntryFacts
    <2>2. pushed[m].rdy = FALSE
      BY PushedWaits, Zenon
    <2> QED
      BY <2>1, <2>2
  <1>2. PICK j \in 1 .. Len(rob) : OldEntry(k, j)
    BY <1>0, <1>1, EntryFacts
  <1>3. Content(p)'.slot = rob[j].slot /\ (rob[j].rdy \/ rob[j].slot \in wb_rob_fire)
    BY <1>2 DEF OldEntry
  <1>4. rob[j].slot \in Slots
    BY SlotFacts
  <1>5. PICK q \in Places : Moved(p, q, lsu) /\ ~rob[j].rdy
    <2>1. ASSUME NEW i \in Lanes, PushedTo(p, i)
          PROVE  FALSE
      <3>1. i + 1 \in 1 .. Len(pushed) /\ Content(p)' = pushed[i + 1]
        BY <2>1 DEF PushedTo
      <3>2. rob[j].slot # pushed[i + 1].slot
        BY <3>1, SlotsDiffer, Zenon
      <3> QED
        BY <1>3, <3>1, <3>2
    <2>2. PICK q \in Places, h \in 1 .. Len(rob) :
             Moved(p, q, lsu) /\ Content(p)'.slot = rob[h].slot /\ ~rob[h].rdy
      BY <1>3, <1>4, <2>1, Whence
    <2>3. h = j
      BY <1>3, <2>2, SlotsDiffer, ZenonT(40)
    <2> QED
      BY <2>2, <2>3
  <1>6. PICK i \in Lanes : valid(wb[i]) /\ wb_rob_ready(i) /\ rob[j].slot = wb[i].slot
    BY <1>3, <1>5, SMTT(30) DEF wb_rob_fire
  <1>7. Content(p)' = Content(q) /\ valid(Content(q)) /\ ~Gone(q, lsu) /\ p = To(q, lsu)
    BY <1>5 DEF Moved
  <1>8. q = <<"wb", i, 0>>
    <2>1. <<"wb", i, 0>> \in Places /\ Content(<<"wb", i, 0>>) = wb[i]
      BY PlaceFacts, Zenon
    <2>2. Content(q).slot = Content(<<"wb", i, 0>>).slot
      BY <1>3, <1>6, <1>7, <2>1
    <2> QED
      BY <1>7, <2>1, <2>2 DEF Unique
  <1>9. p = <<"wb", i, 0>> /\ ~pop_wb(i, lsu)
    BY <1>7, <1>8, ToFacts, Zenon
  <1>10. i = 0 /\ lsu
    BY <1>6, <1>9 DEF pop_wb, wb_ready
  <1>11. finished'
    BY <1>10, Zenon DEF Edge
  <1> QED
    BY <1>9, <1>10, <1>11

-----------------------------------------------------------------------------
(* The registers *)

\* What the write ports write, and what rename takes from the free list.
Writes(lsu) == {x.prd : x \in prf_write(lsu)}
Taken(news) == {news[k].prd : k \in 1 .. Len(news)}

\* Everything that writes is in the reorder buffer.
LEMMA WritesFacts ==
    ASSUME TypeOK, Numbered, Held, NEW lsu, lsu => Len(rob) > 0 /\ rob[1].prd # None
    PROVE  /\ \A x \in prf_write(lsu) : Owns(x)
           /\ Writes(lsu) \subseteq PRegs
           /\ prf_we_ex(1) => wb[1].prd \in Writes(lsu)
           /\ ~lsu /\ prf_we_ex(0) => wb[0].prd \in Writes(lsu)
           /\ lsu => rob[1].prd \in Writes(lsu)
  <1>1. ASSUME NEW i \in Lanes, prf_we_ex(i)
        PROVE  Owns(wb[i]) /\ wb[i].prd \in PRegs
    <2>1. valid(wb[i]) /\ wb[i].prd # None
      BY <1>1 DEF prf_we_ex
    <2>2. PICK p \in Places : Content(p) = wb[i]
      BY PlaceFacts, Zenon
    <2>3. PICK k \in 1 .. Len(rob) : wb[i].slot = rob[k].slot /\ wb[i].prd = rob[k].prd
      BY <2>1, <2>2, HeldFacts
    <2>4. k \in DOMAIN rob /\ rob[k] \in Instrs
      BY LiveFacts
    <2>5. wb[i].prd \in PRegs
      BY <2>1, <2>3, <2>4 DEF Instrs
    <2> QED
      BY <2>3, <2>4, <2>5 DEF Owns
  <1>2. ASSUME lsu
        PROVE  Owns(rob[1]) /\ rob[1].prd \in PRegs
    <2>1. 1 \in 1 .. Len(rob) /\ rob[1].prd # None
      BY <1>2, LiveFacts
    <2>2. 1 \in DOMAIN rob /\ rob[1] \in Instrs
      BY <2>1, LiveFacts
    <2> QED
      BY <2>1, <2>2 DEF Owns, Instrs
  <1>3. ASSUME NEW x \in prf_write(lsu)
        PROVE  Owns(x) /\ x.prd \in PRegs
    <2>1. 0 \in Lanes /\ 1 \in Lanes
      BY DEF Lanes
    <2>2. \/ lsu /\ x = rob[1]
          \/ prf_we_ex(0) /\ x = wb[0]
          \/ prf_we_ex(1) /\ x = wb[1]
      BY <1>3 DEF prf_write, head
    <2> QED
      BY <1>1, <1>2, <2>1, <2>2
  <1>4. lsu => rob[1] \in prf_write(lsu)
    BY DEF prf_write, head
  <1>5. ~lsu /\ prf_we_ex(0) => wb[0] \in prf_write(lsu)
    BY DEF prf_write
  <1>6. prf_we_ex(1) => wb[1] \in prf_write(lsu)
    BY DEF prf_write
  <1> QED
    BY <1>3, <1>4, <1>5, <1>6 DEF Writes

\* The register file and the busy table after an edge.
RegStep(lsu, news) ==
    /\ good' = (good \cup Writes(lsu)) \ Taken(news)
    /\ busytable' = (busytable \ Writes(lsu)) \cup (Taken(news) \ {None})

\* The registers after an edge: what is written becomes good and not busy, what is renamed
\* becomes busy and no longer good.
LEMMA RegSteps ==
    ASSUME TypeOK, Numbered, Held, NEW kinds, NEW finish, NEW alone, Clock(kinds, finish, alone, FALSE),
           NEW lsu, lsu = prf_we_lsu(finish, FALSE), lsu => Len(rob) > 0 /\ rob[1].prd # None,
           NEW news \in Seq(Instrs), news = IF rn_stall_req THEN <<>> ELSE Renamed(kinds)
    PROVE  RegStep(lsu, news)
  <1>1. PICK written : written = prf_write(lsu)
    BY Zenon
  <1>2. \A y \in written : Owns(y)
    BY <1>1, WritesFacts, Zenon
  <1>3. {y \in written : ~Owns(y)} = {} /\ {y \in written : Owns(y)} = written
    BY <1>2
  <1>4. PICK T : T = {x.prd : x \in Range(news)}
    BY Zenon
  <1>5. T = Taken(news)
    BY <1>4 DEF Taken, Range
  <1>6. good' = ((good \ {x.prd : x \in {y \in written : ~Owns(y)}}) \cup {x.prd : x \in {y \in written : Owns(y)}}) \ T
    BY <1>1, <1>4, Zenon DEF Clock
  <1>7. busytable' = (busytable \ {x.prd : x \in written}) \cup (T \ {None})
    BY <1>1, <1>4, Zenon DEF Clock
  <1>8. Writes(lsu) = {x.prd : x \in written}
    BY <1>1 DEF Writes
  <1>9. good' = ((good \ {x.prd : x \in {}}) \cup {x.prd : x \in written}) \ T
    BY <1>3, <1>6, Zenon
  <1>10. {x.prd : x \in {}} = {}
    OBVIOUS
  <1> QED
    BY <1>5, <1>7, <1>8, <1>9, <1>10, Zenon DEF RegStep

\* A register somebody may still read: committed, or of an instruction in flight.
InUse(p) ==
    \/ \E l \in LRegs : arat[l] = p
    \/ \E k \in 1 .. Len(Live) : Live[k].prd = p /\ p # None

\* It keeps its value, gets it, or stays busy.
LEMMA InUseKept ==
    ASSUME TypeOK, NEW lsu, NEW news, Renaming(news), RegStep(lsu, news), NEW p, InUse(p)
    PROVE  /\ p \in good \cup Writes(lsu) => p \in good'
           /\ p \in busytable => p \in good' \cup busytable'
  <1>1. p # None
    BY Sizes DEF InUse, TypeOK
  <1>2. p \notin FreeList
    BY FreeFacts DEF InUse
  <1>3. p \notin Taken(news)
    BY <1>1, <1>2 DEF Taken, Renaming
  <1> QED
    BY <1>3 DEF RegStep

\* The sources of an instruction in flight are in use, hence written once not busy.
LEMMA SourcesInUse ==
    ASSUME TypeOK, Distinct(Live, arat), Sources(Live, arat), Status, CommittedWritten,
           NEW k \in 1 .. Len(Live), NEW p \in Live[k].srcs
    PROVE  InUse(p) /\ p \in good \cup busytable
  <1>1. PICK l \in LRegs : Maps(Live, arat, k, l, p)
    BY DEF Sources
  <1>2. CASE arat[l] = p
    BY <1>2 DEF InUse, CommittedWritten
  <1>3. CASE arat[l] # p
    <2>1. PICK j \in 1 .. k - 1 : Live[j].lrd = l /\ Live[j].prd = p
      BY <1>1, <1>3 DEF Maps
    <2>2. j \in 1 .. Len(Live)
      BY LiveFacts
    <2>3. p # None
      BY <2>1, <2>2, Sizes DEF Distinct
    <2>4. p \in good \cup busytable
      BY <2>1, <2>2, <2>3 DEF Status
    <2> QED
      BY <2>1, <2>2, <2>3, <2>4, Zenon DEF InUse
  <1> QED
    BY <1>2, <1>3

\* What leaves the reorder buffer has written its register, or does so at this edge.
LEMMA LeavesWritten ==
    ASSUME TypeOK, Numbered, Held, Ready, Done, NEW n, NEW lsu, NEW finish, Edge(n, lsu, finish),
           lsu => Len(rob) > 0 /\ rob[1].prd # None,
           finish /\ rob[1].prd # None => lsu,
           NEW j \in 1 .. Len(rob), rob[j].rdy, rob[j].prd # None,
           rob[j].late => j = 1 /\ finish
    PROVE  rob[j].prd \in good \cup Writes(lsu)
  <1>1. CASE rob[j].late
    BY <1>1, WritesFacts
  <1>2. CASE ~rob[j].late
    <2>1. CASE rob[j].prd \in good
      BY <2>1
    <2>2. CASE rob[j].prd \notin good
      <3>1. wb[0].slot = rob[j].slot
        BY <1>2, <2>2 DEF Done
      <3>2. PICK p \in Places : p = <<"wb", 0, 0>> /\ Content(p) = wb[0]
        BY PlaceFacts DEF Lanes
      <3>3. finished
        BY <3>1, <3>2 DEF Ready
      <3>4. valid(wb[0])
        BY <3>1, <3>2, HeldFacts, SlotFacts
      <3>5. ~lsu
        BY <3>3, <3>4, Retried
      <3>6. PICK h \in 1 .. Len(rob) : wb[0].slot = rob[h].slot /\ wb[0].prd = rob[h].prd /\ wb[0].late = rob[h].late
        BY <3>2, <3>4, HeldFacts
      <3>7. h = j
        BY <3>1, <3>6, SlotsDiffer, Zenon
      <3>8. prf_we_ex(0) /\ wb[0].prd = rob[j].prd
        BY <1>2, <3>4, <3>6, <3>7 DEF prf_we_ex
      <3> QED
        BY <3>5, <3>8, WritesFacts, Zenon
    <2> QED
      BY <2>1, <2>2
  <1> QED
    BY <1>1, <1>2, Zenon

\* Two instructions that rename cannot tell apart.
SameRegs(x, y) == x.lrd = y.lrd /\ x.prd = y.prd /\ x.srcs = y.srcs

\* After the edge the n oldest are gone and the renamed ones are at the end.
LiveStep(n, news) ==
    /\ Len(Live') + n = Len(Live) + Len(news)
    /\ \A k \in 1 .. Len(Live') : SameRegs(Live'[k], (Live \o news)[k + n])

\* Pushing does not change the registers of an instruction.
LEMMA PushedRegs ==
    ASSUME TypeOK, NEW m \in 1 .. Len(pushed)
    PROVE  SameRegs(pushed[m], issue[m])
  <1>1. PICK x \in Instrs : x = issue[m] /\ pushed[m] = [x EXCEPT !.slot = (next + (m - 1)) % N]
    BY PushedFacts
  <1>2. SameRegs([x EXCEPT !.slot = (next + (m - 1)) % N], x)
    BY DEF SameRegs, Instrs
  <1> QED
    BY <1>1, <1>2

\* The instructions in flight after an edge: the oldest leave, the renamed ones join.
LEMMA LiveSteps ==
    ASSUME TypeOK, NEW n \in 0 .. 2, n <= Len(rob), RobStep(n), rob' \in Seq(Instrs),
           NEW news \in Seq(Instrs), rn_stall_req => news = <<>>,
           issue' = IF rn_stall_req THEN issue ELSE news
    PROVE  LiveStep(n, news)
  <1>1. PICK L \in Nat, I \in Nat, M \in Nat, W \in Nat :
          L = Len(rob) /\ I = Len(issue) /\ M = Len(pushed) /\ W = Len(news) /\ n <= L
    <2>1. Len(rob) \in Nat /\ Len(issue) \in Nat /\ Len(pushed) \in Nat /\ Len(news) \in Nat
      <3>1. Len(rob) \in Nat /\ Len(issue) \in Nat
        BY LiveFacts
      <3>2. Len(pushed) \in Nat
        BY PushedFacts
      <3> QED
        BY <3>1, <3>2
    <2> QED
      BY <2>1
  <1>2. PICK zs : zs = Live \o news
    BY Zenon
  <1>3. /\ Len(zs) = L + I + W /\ Len(Live) = L + I
        /\ \A k \in 1 .. L : zs[k] = rob[k]
        /\ \A k \in 1 .. I : zs[L + k] = issue[k]
        /\ \A k \in 1 .. W : zs[(L + I) + k] = news[k]
    <2>1. Live \in Seq(Instrs) /\ Len(Live) = L + I
      BY <1>1, LiveFacts
    <2>2. PICK xs \in Seq(Instrs) : xs = Live
      BY <2>1
    <2>3. /\ \A k \in 1 .. L : xs[k] = rob[k]
          /\ \A k \in 1 .. I : xs[L + k] = issue[k]
      BY <1>1, <2>2, LiveFacts
    <2>4. zs = xs \o news /\ Len(xs) = L + I
      BY <1>2, <2>1, <2>2
    <2>5. /\ Len(zs) = L + I + W
          /\ \A k \in 1 .. L + I : zs[k] = xs[k]
          /\ \A k \in 1 .. W : zs[(L + I) + k] = news[k]
      <3>1. PICK t \in Nat : t = L + I
        OBVIOUS
      <3>2. t = Len(xs) /\ W = Len(news)
        BY <1>1, <2>4, <3>1
      <3>3. IsJoin(zs, xs, news, t, W)
        BY <2>4, <3>2, Joins
      <3> QED
        BY <3>1, <3>3 DEF IsJoin
    <2>6. \A k \in 1 .. L : k \in 1 .. L + I
      OBVIOUS
    <2>7. \A k \in 1 .. I : L + k \in 1 .. L + I
      OBVIOUS
    <2> QED
      BY <2>1, <2>3, <2>5, <2>6, <2>7, Zenon
  <1>4. PICK r \in Seq(Instrs), i \in Seq(Instrs) : r = rob' /\ i = issue'
    BY DEF TypeOK
  <1>5. PICK ys : ys = Live'
    OBVIOUS
  <1>6. /\ ys = r \o i /\ Len(r) = (L - n) + M
        /\ Len(ys) = Len(r) + Len(i)
        /\ \A k \in 1 .. Len(r) : ys[k] = r[k]
        /\ \A k \in 1 .. Len(i) : ys[Len(r) + k] = i[k]
    <2>1. ys = r \o i
      BY <1>4, <1>5 DEF Live
    <2>2. Len(r) = (L - n) + M
      BY <1>1, <1>4 DEF RobStep
    <2>3. PICK g \in Nat, h \in Nat : g = Len(r) /\ h = Len(i)
      OBVIOUS
    <2>4. IsJoin(ys, r, i, g, h)
      BY <2>1, <2>3, Joins
    <2> QED
      BY <2>1, <2>2, <2>3, <2>4, Zenon DEF IsJoin
  <1>7. \A k \in 1 .. L - n : SameRegs(ys[k], zs[k + n])
    <2> SUFFICES ASSUME NEW k \in 1 .. L - n
                 PROVE  SameRegs(ys[k], zs[k + n])
      OBVIOUS
    <2>1. k \in 1 .. Len(r) /\ k + n \in 1 .. L
      <3>1. n \in Nat /\ k \in 1 .. (L - n) + M /\ k + n \in 1 .. L
        BY <1>1
      <3> QED
        BY <3>1, <1>6, Zenon
    <2>2. ys[k] = rob'[k] /\ zs[k + n] = rob[k + n]
      BY <2>1, <1>3, <1>4, <1>6, Zenon
    <2>3. OldEntry(k, k + n)
      BY <1>1, EntryFacts, Zenon
    <2> QED
      BY <2>2, <2>3 DEF OldEntry, SameRegs
  <1>8. CASE rn_stall_req
    <2>1. M = 0 /\ W = 0 /\ Len(i) = I /\ i = issue
      BY <1>1, <1>4, <1>8, PushedFacts
    <2>2. Len(ys) = (L - n) + I
      <3>1. Len(ys) = ((L - n) + 0) + I
        BY <2>1, <1>6, Zenon
      <3> QED
        BY <3>1
    <2>3. ASSUME NEW k \in 1 .. Len(ys), ~(k \in 1 .. L - n)
          PROVE  SameRegs(ys[k], zs[k + n])
      <3>1. PICK m \in 1 .. I : k = (L - n) + m
        <4>1. k - (L - n) \in 1 .. I /\ k = (L - n) + (k - (L - n))
          BY <1>1, <2>2, <2>3, SMTT(30)
        <4> QED
          BY <4>1
      <3>2. ys[k] = issue[m]
        <4>1. ((L - n) + 0) + m = (L - n) + m
          BY <1>1
        <4> QED
          BY <1>6, <2>1, <3>1, <4>1, Zenon
      <3>3. k + n = L + m
        BY <1>1, <3>1
      <3>4. zs[k + n] = issue[m]
        BY <1>3, <3>3, Zenon
      <3> QED
        BY <3>2, <3>4 DEF SameRegs
    <2>4. Len(ys) + n = (L + I) + W
      BY <1>1, <2>1, <2>2
    <2> QED
      BY <1>1, <1>2, <1>3, <1>5, <1>7, <2>3, <2>4, Zenon DEF LiveStep
  <1>9. CASE ~rn_stall_req
    <2>1. M = I /\ i = news /\ Len(i) = W
      BY <1>1, <1>4, <1>9, PushedFacts, Zenon
    <2>2. Len(ys) = ((L - n) + I) + W /\ Len(r) = (L - n) + I
      BY <2>1, <1>6
    <2>3. ASSUME NEW k \in 1 .. Len(ys), ~(k \in 1 .. L - n)
          PROVE  SameRegs(ys[k], zs[k + n])
      <3>1. CASE k <= (L - n) + I
        <4>1. PICK m \in 1 .. I : k = (L - n) + m
          <5>1. k - (L - n) \in 1 .. I /\ k = (L - n) + (k - (L - n))
            BY <1>1, <2>2, <2>3, <3>1
          <5> QED
            BY <5>1
        <4>2. k \in 1 .. Len(r)
          BY <2>2, <3>1, <2>3, SMTT(30)
        <4>3. ys[k] = rob'[k]
          BY <1>4, <1>6, <4>2
        <4>4. rob'[(L - n) + m] = pushed[m]
          BY <1>1, <2>1, Zenon DEF RobStep
        <4>5. k + n = L + m
          BY <1>1, <4>1
        <4>6. zs[k + n] = issue[m]
          BY <1>3, <4>5, Zenon
        <4>7. SameRegs(pushed[m], issue[m])
          BY <1>1, <2>1, PushedRegs
        <4> QED
          BY <4>1, <4>3, <4>4, <4>6, <4>7, Zenon
      <3>2. CASE k > (L - n) + I
        <4>1. PICK m \in 1 .. W : k = ((L - n) + I) + m
          <5>1. k - ((L - n) + I) \in 1 .. W /\ k = ((L - n) + I) + (k - ((L - n) + I))
            BY <1>1, <2>2, <2>3, <3>2, SMTT(30)
          <5> QED
            BY <5>1
        <4>2. ys[k] = news[m]
          BY <1>6, <2>1, <2>2, <4>1, Zenon
        <4>3. k + n = (L + I) + m
          BY <1>1, <4>1
        <4>4. zs[k + n] = news[m]
          BY <1>3, <4>3, SMTT(30)
        <4> QED
          BY <4>2, <4>4 DEF SameRegs
      <3> QED
        BY <3>1, <3>2, <1>1, SMTT(30)
    <2>4. Len(ys) + n = (L + I) + W
      BY <1>1, <2>2
    <2> QED
      BY <1>1, <1>2, <1>3, <1>5, <1>7, <2>3, <2>4, Zenon DEF LiveStep
  <1> QED
    BY <1>8, <1>9

\* The mapping that commits is that of the n oldest.
LEMMA CommitMaps ==
    ASSUME TypeOK, NEW n \in 0 .. 2, n <= Len(rob), NEW news \in Seq(Instrs),
           arat' = [l \in LRegs |-> Youngest(SubSeq(rob, 1, n), l, arat[l])], NEW l \in LRegs
    PROVE  Maps(Live \o news, arat, n + 1, l, arat'[l])
  <1>1. PICK L \in Nat : L = Len(rob) /\ n <= L
    BY LiveFacts, Zenon
  <1>2. PICK ss : ss = SubSeq(rob, 1, n)
    BY Zenon
  <1>3. DOMAIN ss = 1 .. n /\ \A k \in 1 .. n : ss[k] = rob[k]
    <2>1. 1 \in Int /\ n \in Int /\ \A i \in 1 .. n : rob[i] \in Instrs
      BY <1>1, LiveFacts, SMTT(30)
    <2>2. /\ ss \in Seq(Instrs) /\ Len(ss) = IF 1 <= n THEN n - 1 + 1 ELSE 0
          /\ \A i \in 1 .. n - 1 + 1 : ss[i] = rob[1 + i - 1]
      BY <1>2, <2>1, SubSeqProperties
    <2>3. n - 1 + 1 = n /\ \A k \in 1 .. n : 1 + k - 1 = k
      OBVIOUS
    <2>4. Len(ss) = n
      BY <2>2, <2>3
    <2> QED
      BY <2>2, <2>3, <2>4
  <1>4. n \in Nat
    OBVIOUS
  <1>5. Maps(ss, arat, n + 1, l, Youngest(ss, l, arat[l]))
    BY <1>3, <1>4, YoungestMaps
  <1>6. PICK v : v = arat'[l]
    OBVIOUS
  <1>7. v = Youngest(ss, l, arat[l])
    BY <1>2, <1>6
  <1>8. PICK zs : zs = Live \o news
    BY Zenon
  <1>9. \A m \in 1 .. (n + 1) - 1 : ss[m].lrd = zs[m].lrd /\ ss[m].prd = zs[m].prd
    <2> SUFFICES ASSUME NEW m \in 1 .. n
                 PROVE  ss[m] = zs[m]
      OBVIOUS
    <2>1. m \in 1 .. L /\ m \in 1 .. Len(Live)
      BY <1>1, LiveFacts
    <2>2. Live[m] = rob[m] /\ Live \in Seq(Instrs)
      BY <1>1, <2>1, LiveFacts
    <2>3. zs[m] = Live[m]
      BY <1>8, <2>1, <2>2
    <2> QED
      BY <1>3, <2>2, <2>3
  <1>10. n + 1 \in Nat
    OBVIOUS
  <1>11. Maps(zs, arat, n + 1, l, v)
    BY <1>5, <1>7, <1>9, <1>10, MapsPrefix, Zenon
  <1> QED
    BY <1>6, <1>8, <1>11

\* The registers in use stay distinct, and operands stay those of older instructions, when
\* instructions are renamed and others leave.
LEMMA RenameStep ==
    ASSUME TypeOK, NEW n \in 0 .. 2, n <= Len(rob), NEW news, Renaming(news), LiveStep(n, news),
           (TypeOK)', arat' = [l \in LRegs |-> Youngest(SubSeq(rob, 1, n), l, arat[l])]
    PROVE  Distinct(Live, arat)' /\ Sources(Live, arat)'
  <1>1. PICK xs : xs = Live \o news
    BY Zenon
  <1>2. PICK ys : ys = Live'
    OBVIOUS
  <1>3. PICK b : b = arat'
    OBVIOUS
  <1>4. news \in Seq(Instrs) /\ Live \in Seq(Instrs)
    BY LiveFacts DEF Renaming
  <1>5. PICK h \in Nat : h = Len(ys)
    <2>1. rob' \in Seq(Instrs) /\ issue' \in Seq(Instrs)
      BY DEF TypeOK
    <2>2. ys \in Seq(Instrs)
      BY <1>2, <2>1 DEF Live
    <2> QED
      BY <2>2
  <1>6. Len(xs) = h + n
    <2>1. Len(xs) = Len(Live) + Len(news)
      BY <1>1, <1>4
    <2>2. Len(ys) + n = Len(Live) + Len(news)
      BY <1>2, Zenon DEF LiveStep
    <2> QED
      BY <1>5, <2>1, <2>2
  <1>7. \A m \in 1 .. h : /\ ys[m].lrd = xs[m + n].lrd /\ ys[m].prd = xs[m + n].prd
                          /\ ys[m].srcs = xs[m + n].srcs
    BY <1>1, <1>2, <1>5, Zenon DEF LiveStep, SameRegs
  <1>8. \A l \in LRegs : Maps(xs, arat, n + 1, l, b[l])
    BY <1>1, <1>3, <1>4, CommitMaps, Zenon
  <1>9. Distinct(xs, arat) /\ Sources(xs, arat)
    BY <1>1 DEF Renaming
  <1>10. n \in Nat
    OBVIOUS
  <1>11. Distinct(ys, b) /\ Sources(ys, b)
    BY <1>5, <1>6, <1>7, <1>8, <1>9, <1>10, Drop, ZenonT(40)
  <1> QED
    BY <1>2, <1>3, <1>11

\* The k-th instruction after the edge is in flight before it or just renamed.
LEMMA LiveOrigin ==
    ASSUME TypeOK, (TypeOK)', NEW n \in 0 .. 2, NEW news \in Seq(Instrs), LiveStep(n, news),
           NEW k \in 1 .. Len(Live')
    PROVE  \/ \E j \in 1 .. Len(Live) : j = k + n /\ SameRegs(Live'[k], Live[j])
           \/ \E m \in 1 .. Len(news) : SameRegs(Live'[k], news[m])
  <1>1. PICK T \in Nat, W \in Nat : T = Len(Live) /\ W = Len(news)
    BY LiveFacts
  <1>2. PICK xs \in Seq(Instrs) : xs = Live
    BY LiveFacts
  <1>3. IsJoin(xs \o news, xs, news, T, W)
    BY <1>1, <1>2, Joins
  <1>4. PICK zs : zs = Live \o news
    BY Zenon
  <1>5. /\ \A j \in 1 .. T : zs[j] = xs[j]
        /\ \A m \in 1 .. W : zs[T + m] = news[m]
    BY <1>2, <1>3, <1>4 DEF IsJoin
  <1>6. PICK y : y = Live'[k]
    OBVIOUS
  <1>7. SameRegs(y, zs[k + n])
    BY <1>4, <1>6 DEF LiveStep
  <1>8. PICK g : g = Len(Live')
    OBVIOUS
  <1>9. g + n = T + W /\ k \in 1 .. g
    BY <1>1, <1>8, Zenon DEF LiveStep
  <1>10. CASE k + n <= T
    <2>1. k + n \in 1 .. T
      BY <1>10
    <2> QED
      BY <2>1, <1>1, <1>2, <1>5, <1>6, <1>7, Zenon
  <1>11. CASE ~(k + n <= T)
    <2>1. PICK m \in 1 .. W : k + n = T + m
      <3>0. g \in Nat
        <4>1. rob' \in Seq(Instrs) /\ issue' \in Seq(Instrs)
          BY DEF TypeOK
        <4> QED
          BY <1>8, <4>1 DEF Live
      <3>1. (k + n) - T \in 1 .. W /\ k + n = T + ((k + n) - T)
        <4>1. n \in Nat
          OBVIOUS
        <4>2. PICK i \in 1 .. g : i = k
          BY <1>9, Zenon
        <4>3. ~(i + n <= T)
          BY <1>11, <4>2, Zenon
        <4>4. (i + n) - T \in 1 .. W /\ i + n = T + ((i + n) - T)
          BY <1>9, <3>0, <4>1, <4>3, Appended
        <4> QED
          BY <4>2, <4>4, Zenon
      <3> QED
        BY <3>1
    <2> QED
      BY <2>1, <1>1, <1>5, <1>6, <1>7, SMTT(30)
  <1> QED
    BY <1>10, <1>11

\* A register in use stays written or busy.
LEMMA StatusStep ==
    ASSUME TypeOK, (TypeOK)', Status, NEW n \in 0 .. 2, NEW news, Renaming(news), LiveStep(n, news),
           NEW lsu, RegStep(lsu, news)
    PROVE  Status'
  <1> SUFFICES ASSUME NEW k \in 1 .. Len(Live'), Live'[k].prd # None
               PROVE  Live'[k].prd \in good' \cup busytable'
    BY DEF Status
  <1>0. news \in Seq(Instrs)
    BY DEF Renaming
  <1>1. PICK p : p = Live'[k].prd
    OBVIOUS
  <1>2. ASSUME NEW j \in 1 .. Len(Live), SameRegs(Live'[k], Live[j])
        PROVE  p \in good' \cup busytable'
    <2>1. p = Live[j].prd /\ p # None
      BY <1>1, <1>2 DEF SameRegs
    <2>2. InUse(p) /\ p \in good \cup busytable
      BY <2>1 DEF InUse, Status
    <2> QED
      BY <2>2, InUseKept
  <1>3. ASSUME NEW m \in 1 .. Len(news), SameRegs(Live'[k], news[m])
        PROVE  p \in good' \cup busytable'
    <2>1. p \in Taken(news) /\ p # None
      BY <1>1, <1>3 DEF SameRegs, Taken
    <2> QED
      BY <2>1, Zenon DEF RegStep
  <1> QED
    BY <1>0, <1>1, <1>2, <1>3, LiveOrigin, Zenon

\* The register of the architectural map is written when its instruction leaves.
LEMMA CommittedStep ==
    ASSUME TypeOK, Numbered, Held, Ready, Done, CommittedWritten,
           NEW n, NEW lsu, NEW finish, Edge(n, lsu, finish),
           lsu => Len(rob) > 0 /\ rob[1].prd # None, finish /\ rob[1].prd # None => lsu,
           NEW news, Renaming(news), RegStep(lsu, news),
           arat' = [l \in LRegs |-> Youngest(SubSeq(rob, 1, n), l, arat[l])]
    PROVE  CommittedWritten'
  <1> SUFFICES ASSUME NEW l \in LRegs
               PROVE  arat'[l] \in good'
    BY DEF CommittedWritten
  <1>0. n \in 0 .. 2 /\ n <= Len(rob) /\ Leaving(n, finish) /\ news \in Seq(Instrs)
    BY DEF Edge, Renaming
  <1>1. PICK v : v = arat'[l]
    OBVIOUS
  <1>2. PICK zs : zs = Live \o news
    BY Zenon
  <1>3. Maps(zs, arat, n + 1, l, v)
    BY <1>0, <1>1, <1>2, CommitMaps, SMTT(30)
  <1>4. CASE v = arat[l]
    <2>1. InUse(v) /\ v \in good
      BY <1>4 DEF InUse, CommittedWritten
    <2> QED
      BY <1>1, <2>1, InUseKept, Zenon
  <1>5. CASE v # arat[l]
    <2>1. PICK j \in 1 .. (n + 1) - 1 : zs[j].lrd = l /\ zs[j].prd = v
      BY <1>3, <1>5 DEF Maps
    <2>2. PICK L \in Nat, T \in Nat, W \in Nat : L = Len(rob) /\ T = Len(Live) /\ W = Len(news) /\ L <= T
      <3>1. Len(rob) \in Nat /\ Len(issue) \in Nat /\ Len(Live) = Len(rob) + Len(issue)
        BY LiveFacts
      <3>2. Len(news) \in Nat
        BY <1>0
      <3> QED
        BY <3>1, <3>2, SMTT(30)
    <2>3. j \in 1 .. n /\ j \in 1 .. L /\ j \in 1 .. T
      BY <1>0, <2>2, SMTT(30)
    <2>4. zs[j] = Live[j] /\ Live[j] = rob[j] /\ Len(zs) = T + W
      <3>1. PICK xs \in Seq(Instrs) : xs = Live
        BY LiveFacts
      <3>2. IsJoin(zs, xs, news, T, W)
        BY <1>0, <1>2, <2>2, <3>1, Joins, Zenon
      <3>3. zs[j] = xs[j]
        BY <2>3, <3>2, Zenon DEF IsJoin
      <3>4. Live[j] = rob[j]
        BY <2>2, <2>3, LiveFacts, Zenon
      <3>5. Len(zs) = T + W
        BY <3>2, Zenon DEF IsJoin
      <3> QED
        BY <3>1, <3>3, <3>4, <3>5, Zenon
    <2>5. zs[j].prd # None
      <3>1. Distinct(zs, arat) /\ j \in 1 .. Len(zs)
        <4>1. j \in 1 .. Len(zs)
          BY <2>2, <2>3, <2>4, Longer, Zenon
        <4> QED
          BY <1>2, <4>1, Zenon DEF Renaming
      <3> QED
        BY <2>1, <3>1, Sizes, Zenon DEF Distinct
    <2>6. rob[j].prd = v /\ rob[j].prd # None /\ rob[j].rdy /\ (rob[j].late => j = 1 /\ finish)
      BY <1>0, <2>1, <2>3, <2>4, <2>5, SMTT(30) DEF Leaving
    <2>7. v \in good \cup Writes(lsu)
      BY <2>2, <2>3, <2>6, LeavesWritten, Zenon
    <2>8. InUse(v)
      BY <2>2, <2>3, <2>4, <2>6, Zenon DEF InUse
    <2> QED
      BY <1>1, <2>7, <2>8, InUseKept, Zenon
  <1> QED
    BY <1>4, <1>5

\* An instruction that is marked written back has its register written.
LEMMA DoneStep ==
    ASSUME TypeOK, Numbered, Held, Ready, Done, NEW n, NEW lsu, NEW finish, Edge(n, lsu, finish),
           lsu => Len(rob) > 0 /\ rob[1].prd # None, finish /\ rob[1].prd # None => lsu,
           NEW news, Renaming(news), RegStep(lsu, news)
    PROVE  Done'
  <1> SUFFICES ASSUME NEW k \in 1 .. Len(rob'), rob'[k].rdy, ~rob'[k].late, rob'[k].prd # None
               PROVE  rob'[k].prd \in good' \/ wb'[0].slot = rob'[k].slot
    BY DEF Done
  <1>0. n \in 0 .. 2 /\ n <= Len(rob) /\ RobStep(n)
    BY DEF Edge
  <1>1. k \in 1 .. Len(rob) - n
    <2> SUFFICES ASSUME ~(k \in 1 .. Len(rob) - n)
                 PROVE  FALSE
      OBVIOUS
    <2>1. PICK m \in 1 .. Len(pushed) : rob'[k] = pushed[m]
      BY <1>0, EntryFacts
    <2>2. pushed[m].rdy = FALSE
      BY PushedWaits, Zenon
    <2> QED
      BY <2>1, <2>2
  <1>2. PICK j \in 1 .. Len(rob) : OldEntry(k, j)
    BY <1>0, <1>1, EntryFacts, Zenon
  <1>3. /\ rob'[k].prd = rob[j].prd /\ rob[j].prd # None /\ rob'[k].slot = rob[j].slot /\ ~rob[j].late
        /\ rob[j].rdy \/ rob[j].slot \in wb_rob_fire
    BY <1>2, Zenon DEF OldEntry
  <1>4. InUse(rob[j].prd)
    <2>1. j \in 1 .. Len(Live) /\ Live[j] = rob[j]
      BY InLive, Zenon
    <2> QED
      BY <1>3, <2>1, Zenon DEF InUse
  <1>5. CASE rob[j].prd \in good \cup Writes(lsu)
    BY <1>3, <1>4, <1>5, InUseKept, Zenon
  <1>6. CASE rob[j].prd \notin good \cup Writes(lsu)
    <2>1. ~rob[j].rdy
      BY <1>3, <1>6, LeavesWritten
    <2>2. PICK i \in Lanes : valid(wb[i]) /\ wb_rob_ready(i) /\ rob[j].slot = wb[i].slot
      BY <1>3, <2>1, Zenon DEF wb_rob_fire
    <2>3. PICK q \in Places : q = <<"wb", i, 0>> /\ Content(q) = wb[i]
      BY PlaceFacts, Zenon
    <2>4. PICK h \in 1 .. Len(rob) : wb[i].slot = rob[h].slot /\ wb[i].prd = rob[h].prd /\ wb[i].late = rob[h].late
      BY <2>2, <2>3, HeldFacts
    <2>5. h = j
      BY <2>2, <2>4, SlotsDiffer, ZenonT(40)
    <2>6. prf_we_ex(i) /\ wb[i].prd = rob[j].prd
      BY <1>3, <2>2, <2>4, <2>5, Zenon DEF prf_we_ex
    <2>7. i = 0 /\ lsu
      <3>1. prf_we_ex(1) => wb[1].prd \in Writes(lsu)
        BY WritesFacts, ZenonT(40)
      <3>2. ~lsu /\ prf_we_ex(0) => wb[0].prd \in Writes(lsu)
        BY WritesFacts, Zenon
      <3>3. i = 0 \/ i = 1
        BY DEF Lanes
      <3> QED
        BY <1>6, <2>6, <3>1, <3>2, <3>3, Zenon
    <2>8. ~Gone(q, lsu) /\ To(q, lsu) = q
      BY <2>3, <2>7, ToFacts, Zenon DEF pop_wb, wb_ready
    <2>9. PICK p \in Places : p = To(q, lsu) /\ Content(p)' = Content(q)
      BY <2>2, <2>3, <2>8, Zenon DEF Edge, Kept
    <2>10. wb'[0] = wb[0]
      BY <2>3, <2>7, <2>8, <2>9, PlaceFacts, ZenonT(40) DEF Lanes
    <2> QED
      BY <1>3, <2>2, <2>7, <2>10, ZenonT(40)
  <1> QED
    BY <1>5, <1>6, Zenon

\* An instruction chosen to be issued is still in its station, and its operands are written.
LEMMA ChosenStep ==
    ASSUME TypeOK, Numbered, Held, Distinct(Live, arat), Sources(Live, arat), Status, CommittedWritten,
           NEW lsu, \A i \in Lanes : LaneStep(i, lsu), NEW news, Renaming(news), RegStep(lsu, news)
    PROVE  Chosen'
  <1> SUFFICES ASSUME NEW i \in Lanes, ro'[i] # NotRdy
               PROVE  /\ ro'[i].addr \in Addr /\ valid(ro'[i].ins) /\ rs'[i][ro'[i].addr] = ro'[i].ins
                      /\ ro'[i].ins.srcs \subseteq good'
    BY Zenon DEF Chosen, valid
  <1>1. LaneStep(i, lsu)
    OBVIOUS
  <1>2. PICK R : R = rdy_vec(i, pop_ro(i, lsu))
    OBVIOUS
  <1>3. R # {} /\ ro'[i] = [addr |-> Min(R), ins |-> rs[i][Min(R)]]
    BY <1>1, <1>2, Zenon DEF LaneStep, ro_nxt
  <1>4. R \in SUBSET Nat
    BY <1>2, Sizes, Zenon DEF rdy_vec
  <1>5. PICK a : a = Min(R)
    BY Zenon
  <1>6. a \in R
    BY <1>3, <1>4, <1>5, Least, Zenon
  <1>7. /\ a \in Addr /\ a \notin free_vec(i) /\ ~(pop_ro(i, lsu) /\ a = ro[i].addr)
        /\ rs[i][a].srcs \cap busytable = {}
    BY <1>2, <1>6, Zenon DEF rdy_vec
  <1>8. valid(rs[i][a])
    BY <1>7 DEF free_vec
  <1>9. rs'[i][a] = rs[i][a]
    <2>1. ~(i + 1 \in DOMAIN pushed /\ a = Min(free_vec(i)))
      BY <1>8, PushAddr
    <2> QED
      BY <1>1, <1>7, <2>1, Zenon DEF LaneStep
  <1>10. PICK p \in Places : Content(p) = rs[i][a]
    BY <1>7, PlaceFacts, Zenon
  <1>11. PICK k \in 1 .. Len(rob) : rs[i][a].srcs = rob[k].srcs
    BY <1>8, <1>10, HeldFacts, Zenon
  <1>12. k \in 1 .. Len(Live) /\ Live[k] = rob[k]
    BY InLive, Zenon
  <1>13. ASSUME NEW s \in rs[i][a].srcs
         PROVE  s \in good'
    <2>1. s \in Live[k].srcs
      BY <1>11, <1>12, <1>13, Zenon
    <2>2. InUse(s) /\ s \in good \cup busytable
      BY <1>12, <2>1, SourcesInUse, Zenon
    <2>3. s \in good
      BY <1>7, <2>2, Zenon
    <2> QED
      BY <2>2, <2>3, InUseKept, Zenon
  <1>14. PICK x : x = rs[i][a] /\ x.srcs \subseteq good' /\ valid(x) /\ rs'[i][a] = x
    BY <1>8, <1>9, <1>13
  <1>15. ro'[i] = [addr |-> a, ins |-> x]
    BY <1>3, <1>5, <1>14, ZenonT(40)
  <1>16. ro'[i].addr = a /\ ro'[i].ins = x
    BY <1>15, SMTT(30)
  <1> QED
    BY <1>7, <1>14, <1>16, Zenon

\* The empty places hold the empty instruction.
LEMMA NothingTyped == Nothing \in Instrs /\ NotRdy \in [addr : Addr \cup {None}, ins : Instrs]
  BY DEF Nothing, Instrs, NotRdy

\* The stations and the pipes keep their types.
LEMMA LanesTyped ==
    ASSUME TypeOK, Chosen, NEW kinds, NEW finish, NEW alone, Clock(kinds, finish, alone, FALSE)
    PROVE  /\ rs' \in [Lanes -> [Addr -> Instrs]]
           /\ ro' \in [Lanes -> [addr : Addr \cup {None}, ins : Instrs]]
           /\ ex' \in [Lanes -> Instrs] /\ wb' \in [Lanes -> Instrs]
  <1>0. PICK lsu : lsu = prf_we_lsu(finish, FALSE)
    BY Zenon
  <1>1. rs' = [i \in Lanes |-> rs_nxt(i, pop_ro(i, lsu))]
    BY <1>0 DEF Clock
  <1>2. ro' = [i \in Lanes |-> ro_nxt(i, pop_ro(i, lsu))]
    BY <1>0 DEF Clock
  <1>3. DOMAIN ex' = Lanes /\ DOMAIN wb' = Lanes
    BY DEF Clock
  <1>4. \A i \in Lanes : LaneStep(i, lsu)
    BY <1>0, LanesStep, Zenon
  <1>5. ASSUME NEW i \in Lanes, NEW pop
        PROVE  rs_nxt(i, pop) \in [Addr -> Instrs]
    <2>1. i + 1 \in DOMAIN pushed => pushed[i + 1] \in Instrs
      BY PushedTyped, PushedFacts
    <2>2. \A a \in Addr : rs[i][a] \in Instrs
      BY DEF TypeOK
    <2> QED
      BY <2>1, <2>2, NothingTyped DEF rs_nxt
  <1>6. ASSUME NEW i \in Lanes, NEW pop
        PROVE  ro_nxt(i, pop) \in [addr : Addr \cup {None}, ins : Instrs]
    <2>1. PICK R : R = rdy_vec(i, pop)
      OBVIOUS
    <2>2. R \in SUBSET Addr /\ R \in SUBSET Nat
      BY <2>1, Sizes, ZenonT(40) DEF rdy_vec
    <2>3. CASE R = {}
      BY <2>1, <2>3, NothingTyped, Zenon DEF ro_nxt
    <2>4. CASE R # {}
      <3>1. Min(R) \in Addr
        BY <2>2, <2>4, Least, Zenon
      <3>2. rs[i][Min(R)] \in Instrs
        BY <3>1 DEF TypeOK
      <3>3. ro_nxt(i, pop) = [addr |-> Min(R), ins |-> rs[i][Min(R)]]
        BY <2>1, <2>4, SMTT(30) DEF ro_nxt
      <3> QED
        BY <3>1, <3>2, <3>3
    <2> QED
      BY <2>3, <2>4
  <1>7. ASSUME NEW i \in Lanes
        PROVE  ex'[i] \in Instrs /\ wb'[i] \in Instrs
    <2>1. ex[i] \in Instrs /\ wb[i] \in Instrs /\ ro[i].ins \in Instrs
      BY DEF TypeOK
    <2> QED
      BY <1>4, <2>1, NothingTyped, Zenon DEF LaneStep
  <1>8. ex' \in [Lanes -> Instrs] /\ wb' \in [Lanes -> Instrs]
    <2>1. ex' = [i \in Lanes |-> ex'[i]] /\ wb' = [i \in Lanes |-> wb'[i]]
      BY <1>3 DEF Clock
    <2> QED
      BY <2>1, <1>7
  <1> QED
    BY <1>1, <1>2, <1>5, <1>6, <1>8

\* An edge without flush keeps the invariant.
LEMMA ClockStep ==
    ASSUME IInv, NEW kinds \in {<<>>} \cup {<<k>> : k \in Kinds} \cup (Kinds \X Kinds),
           NEW finish \in BOOLEAN, NEW alone, Clock(kinds, finish, alone, FALSE)
    PROVE  IInv'
  <1>0. /\ TypeOK /\ Numbered /\ Distinct(Live, arat) /\ Sources(Live, arat) /\ Status
        /\ CommittedWritten /\ Held /\ Unique /\ Waiting /\ Ready /\ Done /\ Chosen
    BY DEF IInv, Flow
  <1>1. PICK n : n = cmt_pop_size(finish, alone, FALSE)
    BY Zenon
  <1>2. PICK lsu : lsu = prf_we_lsu(finish, FALSE)
    BY Zenon
  <1>3. PICK news : news = IF rn_stall_req THEN <<>> ELSE Renamed(kinds)
    OBVIOUS
  <1>4. Renaming(news) /\ news \in Seq(Instrs) /\ (rn_stall_req => news = <<>>)
    <2>1. CASE rn_stall_req
      <3>1. news = <<>>
        BY <1>3, <2>1
      <3>2. Renaming(<<>>)
        BY <1>0, RenamesNone, Zenon
      <3> QED
        BY <3>1, <3>2 DEF Renaming
    <2>2. CASE ~rn_stall_req
      <3>1. Len(rob) <= N - 2
        BY <2>2 DEF rn_stall_req, rob_ready
      <3>2. Renaming(Renamed(kinds))
        BY <1>0, <3>1, RenamesPair
      <3>3. news = Renamed(kinds)
        BY <1>3, <2>2
      <3>4. Renaming(news)
        BY <3>2, <3>3
      <3> QED
        BY <3>4, <2>2 DEF Renaming
    <2> QED
      BY <2>1, <2>2, Zenon
  <1>5. Leaving(n, finish) /\ RobStep(n) /\ rob' \in Seq(Instrs)
    BY <1>0, <1>1, LeavingFacts, RobSteps, Zenon
  <1>6. n \in 0 .. 2 /\ n <= Len(rob)
    BY <1>5 DEF Leaving
  <1>7. /\ finished' = finish /\ next' = (next + Len(pushed)) % N
        /\ issue' = IF rn_stall_req THEN issue ELSE news
        /\ arat' = [l \in LRegs |-> Youngest(SubSeq(rob, 1, n), l, arat[l])]
        /\ finish => pipe_req /\ ~finished
    BY <1>1, <1>3 DEF Clock
  <1>8. /\ lsu => finish
        /\ lsu => Len(rob) > 0 /\ rob[1].prd # None
        /\ finish /\ rob[1].prd # None => lsu
    <2>1. finish => 1 \in DOMAIN rob
      BY <1>7 DEF pipe_req, cmt_valid
    <2>2. finish => Len(rob) > 0
      BY <1>0, <2>1, LiveFacts
    <2> QED
      BY <1>2, <2>2, Zenon DEF prf_we_lsu, head
  <1>9. \A i \in Lanes : LaneStep(i, lsu)
    BY <1>2, LanesStep, Zenon
  <1>10. Edge(n, lsu, finish)
    <2>1. Kept(lsu)
      BY <1>0, <1>9, KeptHolds
    <2>2. Origin(lsu)
      BY <1>0, <1>9, OriginHolds, Zenon DEF Origin
    <2>3. Arrival
      BY <1>0, <1>9, Arrives DEF Arrival
    <2> QED
      BY <1>5, <1>6, <1>7, <1>8, <2>1, <2>2, <2>3, ZenonT(40) DEF Edge
  <1>11. RegStep(lsu, news)
    BY <1>0, <1>2, <1>3, <1>4, <1>8, RegSteps, ZenonT(40)
  <1>12. /\ next' \in Slots /\ Len(rob') <= N
         /\ \A k \in 1 .. Len(rob') : rob'[k].slot = (next' + (N - Len(rob')) + (k - 1)) % N
    BY <1>0, <1>5, <1>6, <1>7, NumberedStep, Zenon
  <1>13. CommittedWritten'
    BY <1>0, <1>4, <1>7, <1>8, <1>10, <1>11, CommittedStep, Zenon
  <1>14. TypeOK'
    <2>1. issue' \in Seq(Instrs) /\ Len(issue') <= 2
      <3>1. issue \in Seq(Instrs) /\ Len(issue) <= 2
        BY <1>0, Zenon DEF TypeOK
      <3>2. news \in Seq(Instrs) /\ Len(news) <= 2
        BY <1>4, Zenon DEF Renaming
      <3> QED
        BY <1>7, <3>1, <3>2
    <2>2. good' \in SUBSET PRegs /\ busytable' \in SUBSET PRegs
      <3>1. Writes(lsu) \subseteq PRegs
        BY <1>0, <1>8, WritesFacts, Zenon
      <3>2. \A k \in 1 .. Len(news) : news[k].prd = None \/ news[k].prd \in PRegs
        BY <1>0, <1>4, FreeFacts, Zenon DEF Renaming
      <3>3. Taken(news) \ {None} \subseteq PRegs
        BY <3>2 DEF Taken
      <3> QED
        BY <1>0, <1>11, <3>1, <3>3, Zenon DEF RegStep, TypeOK
    <2>3. arat' \in [LRegs -> PRegs]
      <3>1. \A l \in LRegs : arat'[l] \in PRegs
        BY <1>13, <2>2, Zenon DEF CommittedWritten
      <3> QED
        BY <1>7, <3>1
    <2> QED
      BY <1>0, <1>5, <1>7, <1>12, <2>1, <2>2, <2>3, LanesTyped, ZenonT(40) DEF TypeOK
  <1>15. Numbered'
    <2>1. \A k \in 1 .. Len(issue') : issue'[k].slot = None /\ issue'[k].rdy = FALSE
      BY <1>0, <1>4, <1>7 DEF Numbered, Renaming
    <2> QED
      BY <1>12, <2>1, Zenon DEF Numbered
  <1>16. LiveStep(n, news)
    BY <1>0, <1>4, <1>5, <1>6, <1>7, LiveSteps, Zenon
  <1>17. Distinct(Live, arat)' /\ Sources(Live, arat)'
    BY <1>0, <1>4, <1>6, <1>7, <1>14, <1>16, RenameStep, ZenonT(40)
  <1>18. Status'
    BY <1>0, <1>4, <1>6, <1>11, <1>14, <1>16, StatusStep, ZenonT(40)
  <1>19. Held'
    BY <1>0, <1>10, HeldStep, Zenon
  <1>20. Unique'
    BY <1>0, <1>10, <1>14, <1>15, <1>19, UniqueStep, ZenonT(40)
  <1>21. Waiting' /\ Ready'
    BY <1>0, <1>10, WaitingStep, ReadyStep, Zenon
  <1>22. Done'
    BY <1>0, <1>4, <1>8, <1>10, <1>11, DoneStep, Zenon
  <1>23. Chosen'
    BY <1>0, <1>4, <1>9, <1>11, ChosenStep, Zenon
  <1> QED
    BY <1>13, <1>14, <1>15, <1>17, <1>18, <1>19, <1>20, <1>21, <1>22, <1>23, ZenonT(40) DEF IInv, Flow

-----------------------------------------------------------------------------
(* Reset and flush, and the theorems *)

\* Nothing is on its way and the committed registers hold their values.
Drained ==
    /\ issue = <<>> /\ rob = <<>> /\ next = 0
    /\ rs = [i \in Lanes |-> [a \in Addr |-> Nothing]]
    /\ ro = [i \in Lanes |-> NotRdy]
    /\ ex = [i \in Lanes |-> Nothing] /\ wb = [i \in Lanes |-> Nothing]
    /\ arat \in [LRegs -> PRegs] /\ busytable = {} /\ good \in SUBSET PRegs
    /\ CommittedWritten /\ finished \in BOOLEAN

\* Reset and a flush leave the back end in a state the invariant allows.
LEMMA DrainedFits == Drained => IInv
  <1> SUFFICES ASSUME Drained
               PROVE  IInv
    OBVIOUS
  <1>1. /\ rob = <<>> /\ issue = <<>> /\ Len(rob) = 0 /\ Len(issue) = 0
        /\ Live = <<>> /\ Len(Live) = 0
    BY DEF Drained, Live
  <1>2. 1 .. 0 = {}
    OBVIOUS
  <1>3. TypeOK
    <2>1. 0 \in Slots
      BY Sizes DEF Slots
    <2>2. <<>> \in Seq(Instrs)
      OBVIOUS
    <2> QED
      BY <1>1, <2>1, <2>2, NothingTyped, Sizes, SMTT(30) DEF TypeOK, Drained
  <1>4. Numbered /\ Distinct(Live, arat) /\ Sources(Live, arat) /\ Status /\ Waiting /\ Ready /\ Done
    BY <1>1, <1>2, Zenon DEF Numbered, Distinct, Sources, Status, Waiting, Ready, Done
  <1>5. \A p \in Places : ~valid(Content(p))
    <2> SUFFICES ASSUME NEW p \in Places
                 PROVE  Content(p) = Nothing
      BY Zenon DEF valid
    <2>1. PICK i \in Lanes : \/ \E a \in Addr : p = <<"rs", i, a>>
                             \/ p = <<"ex", i, 0>>
                             \/ p = <<"wb", i, 0>>
      BY PlaceFacts
    <2>2. ex[i] = Nothing /\ wb[i] = Nothing /\ \A a \in Addr : rs[i][a] = Nothing
      BY DEF Drained
    <2>3. CASE \E a \in Addr : p = <<"rs", i, a>>
      <3>1. PICK a \in Addr : p = <<"rs", i, a>>
        BY <2>3
      <3>2. Content(<<"rs", i, a>>) = rs[i][a]
        BY PlaceFacts
      <3> QED
        BY <2>2, <3>1, <3>2, Zenon
    <2>4. CASE p = <<"ex", i, 0>>
      <3>1. Content(<<"ex", i, 0>>) = ex[i]
        BY PlaceFacts, Zenon
      <3> QED
        BY <2>2, <2>4, <3>1, Zenon
    <2>5. CASE p = <<"wb", i, 0>>
      <3>1. Content(<<"wb", i, 0>>) = wb[i]
        BY PlaceFacts, Zenon
      <3> QED
        BY <2>2, <2>5, <3>1, Zenon
    <2> QED
      BY <2>1, <2>3, <2>4, <2>5
  <1>6. Held /\ Unique
    BY <1>5 DEF Held, Unique
  <1>7. Chosen
    BY DEF Drained, Chosen
  <1> QED
    BY <1>3, <1>4, <1>6, <1>7 DEF IInv, Flow, Drained

\* A flush empties the back end; what writes at that edge is still in the reorder buffer.
LEMMA FlushStep ==
    ASSUME IInv, NEW finish \in BOOLEAN, Clock(<<>>, finish, FALSE, TRUE)
    PROVE  IInv'
  <1>0. TypeOK /\ Numbered /\ Held /\ CommittedWritten
    BY DEF IInv, Flow
  <1>1. cmt_pop_size(finish, FALSE, TRUE) = 0 /\ prf_we_lsu(finish, TRUE) = FALSE
    BY DEF cmt_pop_size, prf_we_lsu
  <1>2. arat' = arat
    <2>1. SubSeq(rob, 1, 0) = <<>>
      BY <1>0 DEF TypeOK
    <2>2. \A l \in LRegs : Youngest(<<>>, l, arat[l]) = arat[l]
      BY DEF Youngest
    <2>3. arat' = [l \in LRegs |-> Youngest(SubSeq(rob, 1, 0), l, arat[l])]
      BY <1>1, Zenon DEF Clock
    <2> QED
      BY <1>0, <2>1, <2>2, <2>3, Zenon DEF TypeOK
  <1>3. good' = good \cup Writes(FALSE)
    <2>1. PICK written : written = prf_write(FALSE)
      BY Zenon
    <2>2. \A y \in written : Owns(y)
      BY <1>0, <2>1, WritesFacts, Zenon
    <2>3. {y \in written : ~Owns(y)} = {} /\ {y \in written : Owns(y)} = written
      BY <2>2
    <2>4. PICK news : news = IF rn_stall_req THEN <<>> ELSE Renamed(<<>>)
      OBVIOUS
    <2>5. news = <<>>
      BY <2>4 DEF Renamed
    <2>6. PICK T : T = {x.prd : x \in Range(news)}
      BY Zenon
    <2>7. T = {}
      BY <2>5, <2>6 DEF Range
    <2>8. good' = ((good \ {x.prd : x \in {y \in written : ~Owns(y)}}) \cup {x.prd : x \in {y \in written : Owns(y)}}) \ T
      BY <1>1, <2>1, <2>4, <2>6, Zenon DEF Clock
    <2>9. good' = ((good \ {x.prd : x \in {}}) \cup {x.prd : x \in written}) \ T
      BY <2>3, <2>8, Zenon
    <2>10. {x.prd : x \in {}} = {}
      OBVIOUS
    <2> QED
      BY <2>1, <2>7, <2>9, <2>10, Zenon DEF Writes
  <1>4. good' \in SUBSET PRegs
    BY <1>0, <1>3, WritesFacts, Zenon DEF TypeOK
  <1>5. CommittedWritten'
    BY <1>0, <1>2, <1>3, Zenon DEF CommittedWritten
  <1>6. /\ issue' = <<>> /\ rob' = <<>> /\ next' = 0
        /\ rs' = [i \in Lanes |-> [a \in Addr |-> Nothing]]
        /\ ro' = [i \in Lanes |-> NotRdy]
        /\ ex' = [i \in Lanes |-> Nothing] /\ wb' = [i \in Lanes |-> Nothing]
        /\ busytable' = {} /\ finished' \in BOOLEAN
    BY DEF Clock
  <1>7. Drained'
    BY <1>0, <1>2, <1>4, <1>5, <1>6, Zenon DEF Drained, TypeOK
  <1>8. Drained' => IInv'
    BY DrainedFits, PTL
  <1> QED
    BY <1>7, <1>8

\* The inductive invariant: it holds after reset and every clock edge, with or
\* without flush, whatever is renamed, finished and committed at it.
THEOREM BackendInvariant == Spec => []IInv
  <1>1. Init => IInv
    <2> SUFFICES ASSUME Init
                 PROVE  Drained
      BY DrainedFits
    <2>1. arat \in [LRegs -> PRegs] /\ good \in SUBSET PRegs /\ CommittedWritten
      BY Sizes DEF Init, CommittedWritten
    <2> QED
      BY <2>1, Zenon DEF Init, Drained
  <1>2. IInv /\ [Next]_vars => IInv'
    <2> SUFFICES ASSUME IInv, [Next]_vars
                 PROVE  IInv'
      OBVIOUS
    <2>1. ASSUME NEW kinds \in Pairs, NEW finish \in BOOLEAN, NEW alone \in BOOLEAN,
                 Clock(kinds, finish, alone, FALSE)
          PROVE  IInv'
      <3>1. kinds \in {<<>>} \cup {<<k>> : k \in Kinds} \cup (Kinds \X Kinds)
        BY DEF Pairs
      <3> QED
        BY <2>1, <3>1, ClockStep, Zenon
    <2>2. ASSUME NEW finish \in BOOLEAN, Clock(<<>>, finish, FALSE, TRUE)
          PROVE  IInv'
      BY <2>2, FlushStep, Zenon
    <2>3. CASE UNCHANGED vars
      <3>1. /\ issue' = issue /\ rob' = rob /\ next' = next /\ arat' = arat /\ rs' = rs /\ ro' = ro
            /\ ex' = ex /\ wb' = wb /\ busytable' = busytable /\ good' = good /\ finished' = finished
        BY <2>3, Zenon DEF vars
      <3>2. TypeOK' = TypeOK /\ Numbered' = Numbered
        BY <3>1 DEF TypeOK, Numbered
      <3>3. Live' = Live
        BY <3>1 DEF Live
      <3>4. Distinct(Live, arat)' = Distinct(Live, arat) /\ Sources(Live, arat)' = Sources(Live, arat)
        BY <3>1, <3>3
      <3>5. Status' = Status /\ CommittedWritten' = CommittedWritten
        BY <3>1, <3>3 DEF Status, CommittedWritten
      <3>6. \A p : Content(p)' = Content(p)
        BY <3>1 DEF Content
      <3>7. Held' = Held /\ Unique' = Unique /\ Waiting' = Waiting /\ Ready' = Ready
        BY <3>1, <3>6, Zenon DEF Held, Unique, Waiting, Ready, valid
      <3>8. Done' = Done /\ Chosen' = Chosen
        BY <3>1 DEF Done, Chosen, valid
      <3> QED
        BY <3>2, <3>4, <3>5, <3>7, <3>8, Zenon DEF IInv, Flow
    <2> QED
      BY <2>1, <2>2, <2>3, Zenon DEF Next
  <1> QED
    BY <1>1, <1>2, PTL DEF Spec

\* What ro.v reads from the register file is what the producers wrote: issue_rs.v
\* never wakes an instruction up early.
THEOREM OperandsWrittenHolds == Spec => []OperandsWritten
  <1>1. IInv => OperandsWritten
    <2> SUFFICES ASSUME IInv, NEW i \in Lanes
                 PROVE  ro[i].ins.srcs \subseteq good
      BY Zenon DEF OperandsWritten
    <2>1. CASE ro[i] = NotRdy
      BY <2>1 DEF NotRdy, Nothing
    <2>2. CASE ro[i] # NotRdy
      BY <2>2 DEF IInv, Chosen
    <2> QED
      BY <2>1, <2>2
  <1> QED
    BY <1>1, BackendInvariant, PTL

\* What left the reorder buffer has written its register, although wb_mux.v gives
\* the write port of pipe 0 to the LSU and the EPU first.
THEOREM CommittedWrittenHolds == Spec => []CommittedWritten
  <1>1. IInv => CommittedWritten
    BY SMTT(30) DEF IInv
  <1> QED
    BY <1>1, BackendInvariant, PTL

\* An instruction goes through issue_rs.v, ro.v, ex_pipe.v and wb_mux.v once: it is in
\* one place while rob.v waits for it and in none once its entry is ready, except
\* for the edge at which it has to write its register again.
THEOREM ExecutedOnceHolds == Spec => []ExecutedOnce
  <1>1. IInv => ExecutedOnce
    <2> SUFFICES ASSUME IInv
                 PROVE  ExecutedOnce
      OBVIOUS
    <2>0. TypeOK /\ Numbered /\ Held /\ Unique /\ Waiting /\ Ready
      BY DEF IInv, Flow
    <2>1. ASSUME NEW p \in Places, valid(Content(p))
          PROVE  Owns(Content(p))
      <3>1. PICK k \in 1 .. Len(rob) : Content(p).slot = rob[k].slot /\ Content(p).prd = rob[k].prd
        BY <2>0, <2>1, HeldFacts, Zenon
      <3>2. k \in DOMAIN rob
        BY <2>0, LiveFacts, Zenon
      <3> QED
        BY <3>1, <3>2 DEF Owns
    <2>2. ASSUME NEW k \in DOMAIN rob
          PROVE  IF ~rob[k].rdy THEN \E p \in Places : Copies(rob[k].slot) = {p}
                 ELSE Copies(rob[k].slot) = {} \/ (finished /\ Copies(rob[k].slot) = {<<"wb", 0, 0>>})
      <3>1. k \in 1 .. Len(rob)
        BY <2>0, LiveFacts
      <3>2. PICK s : s = rob[k].slot
        OBVIOUS
      <3>3. s \in Slots
        BY <2>0, <3>1, <3>2, SlotFacts, Zenon
      <3>4. \A p \in Copies(s) : p \in Places /\ Content(p).slot = s /\ valid(Content(p))
        BY <2>0, <3>3, HeldFacts DEF Copies
      <3>5. \A p, q \in Copies(s) : p = q
        BY <2>0, <3>4 DEF Unique
      <3>6. CASE ~rob[k].rdy
        <4>1. PICK p \in Places : Content(p).slot = s
          BY <2>0, <3>1, <3>2, <3>6, Zenon DEF Waiting
        <4>2. p \in Copies(s)
          BY <4>1 DEF Copies
        <4> QED
          BY <3>2, <3>5, <3>6, <4>2, Zenon
      <3>7. CASE rob[k].rdy
        <4>1. \A p \in Copies(s) : finished /\ p = <<"wb", 0, 0>>
          BY <2>0, <3>1, <3>2, <3>4, <3>7 DEF Ready
        <4> QED
          BY <3>2, <3>7, <4>1, Zenon
      <3> QED
        BY <3>6, <3>7
    <2> QED
      BY <2>1, <2>2 DEF ExecutedOnce
  <1> QED
    BY <1>1, BackendInvariant, PTL
=============================================================================
