---------------------------- MODULE CommitProofs ----------------------------
(***************************************************************************)
(* The commit stage implements the instruction set for every program, any  *)
(* prediction, and any number of instructions in flight.  An edge is taken *)
(* apart by the state of the FSM: what the stage does in each is stated    *)
(* without the rest of the pipeline (IdleFacts, PendingFacts), what the    *)
(* front end makes of the reorder buffer is Advance, and each combination  *)
(* is a step of Isa or none.                                               *)
(*                                                                         *)
(* Register renaming, for every number of registers and any bound on the   *)
(* instructions in flight.  A clock edge renames up to two instructions    *)
(* and commits up to two at once; the proof takes it apart into one append *)
(* per renamed slot and one removal per commit port, shows that each keeps *)
(* Consistent, and puts the edge together again.                           *)
(***************************************************************************)
EXTENDS Commit, Rename, WellFoundedInduction, TLAPS

\* How many instructions an edge of cmt.v may commit.
LEMMA CommitCounts ==
    /\ 0 \in 0 .. 2 /\ 1 \in 0 .. 2 /\ 2 \in 0 .. 2 /\ 1 > 0 /\ 2 > 0
    /\ \A i \in 0 .. 2 - 1 : i = 0 \/ i = 1
    /\ \A n \in Nat : 0 <= n
  OBVIOUS

-----------------------------------------------------------------------------
(* Register renaming.  The two components share no variable.                *)

\* Each source of an instruction in flight is the mapping of some logical
\* register just before it.
ReadsMapped(arat, q) ==
    \A i \in 1 .. Len(q) : \A s \in SrcPorts :
        \E l \in LR : MappedBefore(arat, q, i, l, q[i].prs[s])

TablesTyped(fl, afl, rat, arat, q) ==
    /\ fl \in SUBSET AllPR
    /\ afl \in SUBSET AllPR
    /\ rat \in [LR -> PR]
    /\ arat \in [LR -> PR]
    /\ q \in Seq(Entry)
    /\ \A i \in 1 .. Len(q) : q[i].we => q[i].prd # 0

\* The inductive invariant of the five tables.
Consistent(fl, afl, rat, arat, q) ==
    /\ TablesTyped(fl, afl, rat, arat, q)
    /\ Partitioned(fl, arat, q)
    /\ ComplementOf(afl, arat)
    /\ Replays(rat, arat, q)
    /\ FreesPrevious(arat, q)
    /\ ReadsMapped(arat, q)

\* Appending one renamed instruction.
FlAppend(fl, e) == IF e.we THEN fl \ {e.prd} ELSE fl
RatAppend(rat, e) == IF e.we THEN [rat EXCEPT ![e.lrd] = e.prd] ELSE rat

\* e is instruction renamed against fl and rat.
RenamedFrom(fl, rat, e) ==
    /\ e \in Entry
    /\ e.we => e.prd \in fl /\ e.pfree = rat[e.lrd]
    /\ \A s \in SrcPorts : \E l \in LR : e.prs[s] = rat[l]

\* Committing one instruction.
FlCommit(fl, e) == IF e.we THEN (fl \cup {e.pfree}) \ {0} ELSE fl

-----------------------------------------------------------------------------

\* What renaming an instruction does to the sequence in flight, rob: it gets
\* longer by one at its young end.
LEMMA AppendFacts ==
    ASSUME NEW S, NEW q \in Seq(S), NEW e \in S
    PROVE  /\ Append(q, e) \in Seq(S)
           /\ Len(Append(q, e)) = Len(q) + 1
           /\ \A i \in 1 .. Len(q) : Append(q, e)[i] = q[i]
           /\ Append(q, e)[Len(q) + 1] = e
  OBVIOUS

\* What committing an instruction does to rob: the oldest one leaves.
LEMMA TailFacts ==
    ASSUME NEW S, NEW q \in Seq(S), q # <<>>
    PROVE  /\ Tail(q) \in Seq(S)
           /\ Len(Tail(q)) = Len(q) - 1
           /\ Len(q) \in Nat \ {0}
           /\ \A i \in 1 .. Len(q) - 1 : Tail(q)[i] = q[i + 1]
  BY SMTT(30)

\* The first n instructions of q leave l mapped to p.
MappedAfter(arat, q, n, l, p) ==
    \/ (\A j \in 1 .. n : ~Writes(q[j], l)) /\ p = arat[l]
    \/ \E j \in 1 .. n : /\ Writes(q[j], l)
                         /\ \A k \in j + 1 .. n : ~Writes(q[k], l)
                         /\ p = q[j].prd

\* What the instruction after the first n sees is what those leave.
LEMMA MappedThrough ==
    ASSUME NEW arat, NEW q, NEW i \in Int, NEW n \in Int, i - 1 = n, NEW l, NEW p
    PROVE  MappedBefore(arat, q, i, l, p) <=> MappedAfter(arat, q, n, l, p)
  BY SMTT(30) DEF MappedBefore, MappedAfter

\* An appended instruction does not change what older ones see.
LEMMA MappedAppend ==
    ASSUME NEW q \in Seq(Entry), NEW e \in Entry, NEW arat, NEW l, NEW p,
           NEW i \in 1 .. Len(q) + 1, MappedBefore(arat, q, i, l, p)
    PROVE  MappedBefore(arat, Append(q, e), i, l, p)
  <1>1. \A j \in 1 .. i - 1 : Append(q, e)[j] = q[j]
    BY AppendFacts
  <1>2. CASE (\A j \in 1 .. i - 1 : ~Writes(q[j], l)) /\ p = arat[l]
    BY <1>1, <1>2 DEF MappedBefore
  <1>3. CASE \E j \in 1 .. i - 1 : /\ Writes(q[j], l)
                                   /\ \A k \in j + 1 .. i - 1 : ~Writes(q[k], l)
                                   /\ p = q[j].prd
    <2>1. PICK j \in 1 .. i - 1 : /\ Writes(q[j], l)
                                  /\ \A k \in j + 1 .. i - 1 : ~Writes(q[k], l)
                                  /\ p = q[j].prd
      BY <1>3
    <2>2. \A k \in j + 1 .. i - 1 : k \in 1 .. i - 1
      OBVIOUS
    <2> QED
      BY <2>1, <2>2, <1>1 DEF MappedBefore
  <1> QED
    BY <1>2, <1>3, SMTT(30) DEF MappedBefore

\* Committing the oldest instruction does not change what the others see.
LEMMA MappedCommit ==
    ASSUME NEW q \in Seq(Entry), q # <<>>, NEW arat \in [LR -> PR], NEW l \in LR, NEW p,
           NEW i \in 1 .. Len(q), MappedBefore(arat, q, i + 1, l, p)
    PROVE  MappedBefore(AratStep(arat, q[1]), Tail(q), i, l, p)
  <1> DEFINE a == AratStep(arat, q[1])
  <1>0. /\ Len(q) \in Nat \ {0} /\ i \in Nat
        /\ \A j \in 1 .. Len(q) - 1 : Tail(q)[j] = q[j + 1]
        /\ q[1] \in Entry
    BY TailFacts
  <1>1. a[l] = IF Writes(q[1], l) THEN q[1].prd ELSE arat[l]
    BY <1>0 DEF AratStep, Writes, Entry
  <1>2. CASE (\A j \in 1 .. i : ~Writes(q[j], l)) /\ p = arat[l]
    <2>1. \A j \in 1 .. i - 1 : j + 1 \in 1 .. i /\ j \in 1 .. Len(q) - 1
      BY <1>0
    <2>2. ~Writes(q[1], l)
      BY <1>2, <1>0
    <2> QED
      BY <2>1, <2>2, <1>0, <1>1, <1>2 DEF MappedBefore
  <1>3. CASE \E j \in 1 .. i : /\ Writes(q[j], l)
                               /\ \A k \in j + 1 .. i : ~Writes(q[k], l)
                               /\ p = q[j].prd
    <2>1. PICK j \in 1 .. i : /\ Writes(q[j], l)
                              /\ \A k \in j + 1 .. i : ~Writes(q[k], l)
                              /\ p = q[j].prd
      BY <1>3
    <2>2. \A k \in j .. i - 1 : k # 0 => ~Writes(Tail(q)[k], l)
      <3>1. \A k \in j .. i - 1 : k + 1 \in j + 1 .. i /\ k \in 1 .. Len(q) - 1
        BY <1>0
      <3> QED
        BY <3>1, <2>1, <1>0
    <2>3. CASE j = 1
      <3>1. a[l] = p
        BY <2>1, <2>3, <1>1
      <3>2. \A k \in 1 .. i - 1 : ~Writes(Tail(q)[k], l)
        BY <2>2, <2>3
      <3> QED
        BY <3>1, <3>2 DEF MappedBefore
    <2>4. CASE j # 1
      <3>1. j - 1 \in 1 .. i - 1 /\ j - 1 \in 1 .. Len(q) - 1 /\ (j - 1) + 1 = j
        BY <2>4, <1>0
      <3>2. Tail(q)[j - 1] = q[j]
        BY <3>1, <1>0
      <3>3. \A k \in (j - 1) + 1 .. i - 1 : ~Writes(Tail(q)[k], l)
        BY <2>2, <3>1
      <3>4. \E m \in 1 .. i - 1 : /\ Writes(Tail(q)[m], l)
                                  /\ \A k \in m + 1 .. i - 1 : ~Writes(Tail(q)[k], l)
                                  /\ p = Tail(q)[m].prd
        BY <3>1, <3>2, <3>3, <2>1, Zenon
      <3> QED
        BY <3>4 DEF MappedBefore
    <2> QED
      BY <2>3, <2>4
  <1>4. (i + 1) - 1 = i
    BY <1>0
  <1> QED
    BY <1>2, <1>3, <1>4 DEF MappedBefore

\* Whatever is mapped somewhere is in flight or committed.
LEMMA MappedIsHeld ==
    ASSUME NEW q \in Seq(Entry), NEW arat, NEW l \in LR, NEW p,
           NEW i \in 1 .. Len(q) + 1, MappedBefore(arat, q, i, l, p)
    PROVE  InArat(arat, p) \/ \E j \in 1 .. i - 1 : j \in 1 .. Len(q) /\ Holds(q[j], p)
  <1>1. \A j \in 1 .. i - 1 : j \in 1 .. Len(q)
    OBVIOUS
  <1> QED
    BY <1>1 DEF MappedBefore, InArat, Holds, Writes

\* Renaming one instruction (rn_fl.v takes a free register, rn_rat.v maps its
\* destination to it) keeps the five tables consistent.
LEMMA AppendConsistent ==
    ASSUME NEW fl, NEW afl, NEW rat, NEW arat, NEW q, NEW e,
           Consistent(fl, afl, rat, arat, q), RenamedFrom(fl, rat, e)
    PROVE  Consistent(FlAppend(fl, e), afl, RatAppend(rat, e), arat, Append(q, e))
  <1> DEFINE q2 == Append(q, e)
             n == Len(q)
  <1>1. /\ TablesTyped(fl, afl, rat, arat, q)
        /\ q \in Seq(Entry) /\ e \in Entry
        /\ n \in Nat
    <2>1. /\ TablesTyped(fl, afl, rat, arat, q)
          /\ q \in Seq(Entry) /\ e \in Entry
      BY Zenon DEF Consistent, TablesTyped, RenamedFrom
    <2>2. Len(q) \in Nat
      BY <2>1
    <2> QED
      BY <2>1, <2>2, Zenon
  <1>2. /\ q2 \in Seq(Entry)
        /\ Len(q2) = n + 1
        /\ \A i \in 1 .. n : q2[i] = q[i]
        /\ q2[n + 1] = e
    BY <1>1, AppendFacts
  <1>3. \A i \in 1 .. n + 1 : i \in 1 .. n \/ i = n + 1
    BY <1>1
  <1>e. e.we => e.prd \in AllPR /\ e.prd \in fl /\ e.lrd \in LR /\ e.prd \in PR
    BY <1>1 DEF TablesTyped, RenamedFrom, Entry, AllPR
  <1> HIDE DEF q2, n
  <1>4. TablesTyped(FlAppend(fl, e), afl, RatAppend(rat, e), arat, q2)
    <2>1. FlAppend(fl, e) \in SUBSET AllPR
      BY <1>1 DEF FlAppend, TablesTyped
    <2>2. RatAppend(rat, e) \in [LR -> PR]
      BY <1>1, <1>e DEF RatAppend, TablesTyped
    <2>3. \A i \in 1 .. n + 1 : q2[i].we => q2[i].prd # 0
      BY <1>1, <1>2, <1>3, <1>e, SMTT(30) DEF TablesTyped, AllPR, n
    <2> QED
      BY <1>1, <1>2, <2>1, <2>2, <2>3 DEF TablesTyped
  <1>5. Partitioned(FlAppend(fl, e), arat, q2)
    <2> SUFFICES ASSUME NEW p \in AllPR
                 PROVE  /\ p \in FlAppend(fl, e) <=>
                              /\ ~InArat(arat, p)
                              /\ \A i \in 1 .. n + 1 : ~Holds(q2[i], p)
                        /\ \A i \in 1 .. n + 1 : Holds(q2[i], p) =>
                              /\ ~InArat(arat, p)
                              /\ \A j \in 1 .. n + 1 : Holds(q2[j], p) => i = j
                        /\ \A l, m \in LR : arat[l] = p /\ arat[m] = p => l = m
      BY <1>2 DEF Partitioned
    <2>1. /\ p \in fl <=> /\ ~InArat(arat, p)
                          /\ \A i \in 1 .. n : ~Holds(q[i], p)
          /\ \A i \in 1 .. n : Holds(q[i], p) =>
                /\ ~InArat(arat, p)
                /\ \A j \in 1 .. n : Holds(q[j], p) => i = j
          /\ \A l, m \in LR : arat[l] = p /\ arat[m] = p => l = m
      BY DEF Consistent, Partitioned, n
    <2>2. p \in FlAppend(fl, e) <=> p \in fl /\ ~Holds(e, p)
      BY DEF FlAppend, Holds
    <2>3. Holds(e, p) => p \in fl
      BY <1>e DEF Holds
    <2>4. \A i \in 1 .. n + 1 : Holds(q2[i], p) <=> (i \in 1 .. n /\ Holds(q[i], p)) \/ (i = n + 1 /\ Holds(e, p))
      <3>1. n + 1 \notin 1 .. n
        BY <1>1
      <3> QED
        BY <1>2, <1>3, <3>1
    <2>5. n + 1 \in 1 .. n + 1 /\ \A i \in 1 .. n : i \in 1 .. n + 1
      BY <1>1
    <2> QED
      BY <2>1, <2>2, <2>3, <2>4, <2>5, SMTT(30)
  <1>6. ComplementOf(afl, arat)
    BY DEF Consistent
  <1>7. Replays(RatAppend(rat, e), arat, q2)
    <2> SUFFICES ASSUME NEW l \in LR
                 PROVE  MappedBefore(arat, q2, n + 2, l, RatAppend(rat, e)[l])
      BY <1>1, <1>2 DEF Replays
    <2>0. n + 2 - 1 = n + 1 /\ n + 1 \in 1 .. n + 1 /\ (\A k \in (n + 1) + 1 .. n + 1 : FALSE)
      BY <1>1, SMTT(30)
    <2>1. CASE Writes(e, l)
      <3>1. RatAppend(rat, e)[l] = e.prd
        BY <2>1, <1>1, <1>e, SMTT(30) DEF RatAppend, Writes, TablesTyped
      <3>2. \E j \in 1 .. n + 1 : /\ Writes(q2[j], l)
                                  /\ \A k \in j + 1 .. n + 1 : ~Writes(q2[k], l)
                                  /\ e.prd = q2[j].prd
        BY <2>0, <2>1, <1>2, SMTT(30)
      <3> QED
        <4>1. MappedAfter(arat, q2, n + 1, l, e.prd)
          BY <3>2, Zenon DEF MappedAfter
        <4> QED
          BY <4>1, <3>1, <2>0, <1>1, MappedThrough
    <2>2. CASE ~Writes(e, l)
      <3>1. RatAppend(rat, e)[l] = rat[l]
        BY <2>2, <1>1, <1>e DEF RatAppend, Writes, TablesTyped
      <3>2. MappedBefore(arat, q, n + 1, l, rat[l])
        BY DEF Consistent, Replays, n
      <3>3. MappedBefore(arat, q2, n + 1, l, rat[l])
        <4>1. n + 1 \in 1 .. Len(q) + 1
          BY <1>1 DEF n
        <4> QED
          BY <3>2, <4>1, <1>1, MappedAppend DEF q2
      <3>4. CASE (\A j \in 1 .. n : ~Writes(q2[j], l)) /\ rat[l] = arat[l]
        <4>1. \A j \in 1 .. n + 1 : ~Writes(q2[j], l)
          BY <3>4, <1>2, <1>3, <2>2, Zenon
        <4>2. MappedAfter(arat, q2, n + 1, l, rat[l])
          BY <4>1, <3>4, Zenon DEF MappedAfter
        <4> QED
          BY <4>2, <3>1, <2>0, <1>1, MappedThrough
      <3>5. CASE \E j \in 1 .. n : /\ Writes(q2[j], l)
                                   /\ \A k \in j + 1 .. n : ~Writes(q2[k], l)
                                   /\ rat[l] = q2[j].prd
        <4>1. PICK j \in 1 .. n : /\ Writes(q2[j], l)
                                  /\ \A k \in j + 1 .. n : ~Writes(q2[k], l)
                                  /\ rat[l] = q2[j].prd
          BY <3>5, Zenon
        <4>2. \A k \in j + 1 .. n + 1 : k \in j + 1 .. n \/ k = n + 1
          BY <1>1
        <4>3. \A k \in j + 1 .. n + 1 : ~Writes(q2[k], l)
          BY <4>1, <4>2, <1>2, <2>2
        <4>4. j \in 1 .. n + 1
          BY <1>1, SMTT(30)
        <4>5. \E i \in 1 .. n + 1 : /\ Writes(q2[i], l)
                                    /\ \A k \in i + 1 .. n + 1 : ~Writes(q2[k], l)
                                    /\ rat[l] = q2[i].prd
          BY <4>1, <4>3, <4>4
        <4>6. MappedAfter(arat, q2, n + 1, l, rat[l])
          BY <4>5, Zenon DEF MappedAfter
        <4> QED
          BY <4>6, <3>1, <2>0, <1>1, MappedThrough
      <3>6. MappedAfter(arat, q2, n, l, rat[l])
        <4>1. n + 1 - 1 = n
          BY <1>1
        <4> QED
          BY <4>1, <3>3, <1>1, MappedThrough
      <3> QED
        BY <3>4, <3>5, <3>6, Zenon DEF MappedAfter
    <2> QED
      BY <2>1, <2>2, SMTT(30)
  <1>8. \A l \in LR : MappedBefore(arat, q2, n + 1, l, rat[l])
    <2>1. n + 1 \in 1 .. Len(q) + 1
      BY <1>1 DEF n
    <2>2. \A l \in LR : MappedBefore(arat, q, n + 1, l, rat[l])
      BY DEF Consistent, Replays, n
    <2> QED
      BY <2>1, <2>2, <1>1, MappedAppend DEF q2
  <1>9. \A i \in 1 .. n : \A l, p : MappedBefore(arat, q, i, l, p) => MappedBefore(arat, q2, i, l, p)
    <2>1. \A i \in 1 .. n : i \in 1 .. Len(q) + 1
      BY <1>1 DEF n
    <2> QED
      BY <2>1, <1>1, MappedAppend DEF q2
  <1>10. FreesPrevious(arat, q2)
    <2> SUFFICES ASSUME NEW i \in 1 .. n + 1, q2[i].we
                 PROVE  MappedBefore(arat, q2, i, q2[i].lrd, q2[i].pfree)
      BY <1>2 DEF FreesPrevious
    <2>1. CASE i \in 1 .. n
      BY <2>1, <1>2, <1>9, SMTT(30) DEF Consistent, FreesPrevious, n
    <2>2. CASE i = n + 1
      BY <2>2, <1>2, <1>8, <1>e DEF RenamedFrom
    <2> QED
      BY <2>1, <2>2, <1>3, SMTT(30)
  <1>11. ReadsMapped(arat, q2)
    <2> SUFFICES ASSUME NEW i \in 1 .. n + 1, NEW s \in SrcPorts
                 PROVE  \E l \in LR : MappedBefore(arat, q2, i, l, q2[i].prs[s])
      BY <1>2 DEF ReadsMapped
    <2>1. CASE i \in 1 .. n
      BY <2>1, <1>2, <1>9, SMTT(30) DEF Consistent, ReadsMapped, n
    <2>2. CASE i = n + 1
      <3>1. PICK l \in LR : e.prs[s] = rat[l]
        BY DEF RenamedFrom
      <3> QED
        BY <2>2, <3>1, <1>2, <1>8
    <2> QED
      BY <2>1, <2>2, <1>3
  <1> QED
    BY <1>4, <1>5, <1>6, <1>7, <1>10, <1>11 DEF Consistent, q2

\* Committing the oldest instruction (rn_fl.v frees the mapping it replaced, the
\* architectural tables take its own) keeps the five tables consistent.
LEMMA CommitConsistent ==
    ASSUME NEW fl, NEW afl, NEW rat, NEW arat, NEW q,
           Consistent(fl, afl, rat, arat, q), q # <<>>
    PROVE  Consistent(FlCommit(fl, q[1]), AflStep(afl, q[1]), rat, AratStep(arat, q[1]), Tail(q))
  <1> DEFINE t == Tail(q)
             e == q[1]
             a == AratStep(arat, q[1])
             n == Len(q)
  <1>1. /\ TablesTyped(fl, afl, rat, arat, q)
        /\ q \in Seq(Entry)
        /\ arat \in [LR -> PR]
    BY Zenon DEF Consistent, TablesTyped
  <1>2. /\ t \in Seq(Entry)
        /\ n \in Nat \ {0}
        /\ Len(t) = n - 1
        /\ \A i \in 1 .. n - 1 : t[i] = q[i + 1]
        /\ e \in Entry
        /\ 1 \in 1 .. n
    BY <1>1, TailFacts
  <1>3. \A i \in 1 .. n - 1 : i \in 1 .. n /\ i + 1 \in 1 .. n /\ i + 1 # 1
    BY <1>2
  <1>4. \A i \in 1 .. n : i = 1 \/ (i - 1 \in 1 .. n - 1 /\ i = (i - 1) + 1)
    BY <1>2
  <1>5. e.we => /\ e.lrd \in LR /\ e.prd \in AllPR /\ e.prd \in PR /\ e.pfree \in PR
                /\ e.pfree = arat[e.lrd]
    <2>1. e.we => /\ e.lrd \in LR /\ e.prd \in AllPR /\ e.prd \in PR /\ e.pfree \in PR
      BY <1>1, <1>2 DEF TablesTyped, Entry, AllPR
    <2>2. e.we => MappedBefore(arat, q, 1, e.lrd, e.pfree)
      BY <1>2 DEF Consistent, FreesPrevious
    <2>3. e.we => e.pfree = arat[e.lrd]
      BY <2>2 DEF MappedBefore
    <2> QED
      BY <2>1, <2>3
  <1>6. \A l \in LR : a[l] = IF e.we /\ e.lrd = l THEN e.prd ELSE arat[l]
    BY <1>1, <1>2 DEF AratStep, Entry
  <1>7. a \in [LR -> PR]
    BY <1>1, <1>5 DEF AratStep
  <1>8. \A i \in 1 .. n : \A l \in LR : \A p :
           MappedBefore(arat, q, i + 1, l, p) => MappedBefore(a, t, i, l, p)
    BY <1>1, MappedCommit, SMTT(30)
  <1> HIDE DEF t, e, a, n
  <1>9. TablesTyped(FlCommit(fl, e), AflStep(afl, e), rat, a, t)
    <2>1. FlCommit(fl, e) \in SUBSET AllPR
      BY <1>1, <1>5 DEF FlCommit, TablesTyped, AllPR
    <2>2. AflStep(afl, e) \in SUBSET AllPR
      BY <1>1, <1>5 DEF AflStep, TablesTyped, AllPR
    <2>3. \A i \in 1 .. n - 1 : t[i].we => t[i].prd # 0
      BY <1>1, <1>2, <1>3 DEF TablesTyped, n
    <2> QED
      BY <1>1, <1>2, <1>7, <2>1, <2>2, <2>3 DEF TablesTyped
  <1>10. ASSUME NEW p \in AllPR
         PROVE  InArat(a, p) <=> \/ Holds(e, p)
                                 \/ InArat(arat, p) /\ ~(e.we /\ p = e.pfree)
    <2>1. /\ \A l, m \in LR : arat[l] = p /\ arat[m] = p => l = m
          /\ Holds(e, p) => ~InArat(arat, p)
      BY <1>2 DEF Consistent, Partitioned, n, e
    <2> QED
      BY <2>1, <1>5, <1>6 DEF InArat, Holds
  <1>11. Partitioned(FlCommit(fl, e), a, t)
    <2> SUFFICES ASSUME NEW p \in AllPR
                 PROVE  /\ p \in FlCommit(fl, e) <=>
                              /\ ~InArat(a, p)
                              /\ \A i \in 1 .. n - 1 : ~Holds(t[i], p)
                        /\ \A i \in 1 .. n - 1 : Holds(t[i], p) =>
                              /\ ~InArat(a, p)
                              /\ \A j \in 1 .. n - 1 : Holds(t[j], p) => i = j
                        /\ \A l, m \in LR : a[l] = p /\ a[m] = p => l = m
      BY <1>2 DEF Partitioned
    <2>1. /\ p \in fl <=> /\ ~InArat(arat, p)
                          /\ \A i \in 1 .. n : ~Holds(q[i], p)
          /\ \A i \in 1 .. n : Holds(q[i], p) =>
                /\ ~InArat(arat, p)
                /\ \A j \in 1 .. n : Holds(q[j], p) => i = j
          /\ \A l, m \in LR : arat[l] = p /\ arat[m] = p => l = m
      BY DEF Consistent, Partitioned, n
    <2>2. InArat(a, p) <=> \/ Holds(e, p)
                           \/ InArat(arat, p) /\ ~(e.we /\ p = e.pfree)
      BY <1>10
    <2>3. p \in FlCommit(fl, e) <=> p \in fl \/ (e.we /\ p = e.pfree)
      BY DEF FlCommit, AllPR
    <2>4. e.we /\ p = e.pfree => InArat(arat, p)
      BY <1>5 DEF InArat
    <2>5. \A i \in 1 .. n - 1 : Holds(t[i], p) => Holds(q[i + 1], p) /\ i + 1 \in 1 .. n /\ i + 1 # 1
      BY <1>2, <1>3
    <2>6. (\E i \in 1 .. n : Holds(q[i], p)) <=> Holds(e, p) \/ \E i \in 1 .. n - 1 : Holds(t[i], p)
      <3>1. ASSUME NEW i \in 1 .. n, Holds(q[i], p), i # 1
            PROVE  \E j \in 1 .. n - 1 : Holds(t[j], p)
        <4>1. i - 1 \in 1 .. n - 1 /\ t[i - 1] = q[i]
          BY <3>1, <1>2, <1>4
        <4> QED
          BY <4>1, <3>1
      <3>2. Holds(e, p) => \E i \in 1 .. n : Holds(q[i], p)
        BY <1>2 DEF e
      <3> QED
        BY <3>1, <3>2, <2>5 DEF e
    <2>7. (\E i \in 1 .. n - 1 : Holds(t[i], p)) => ~Holds(e, p)
      BY <2>1, <2>5, <1>2, SMTT(30) DEF e
    <2>8. p \in FlCommit(fl, e) <=> /\ ~InArat(a, p)
                                    /\ \A i \in 1 .. n - 1 : ~Holds(t[i], p)
      BY <2>1, <2>2, <2>3, <2>4, <2>6, <2>7
    <2>9. ASSUME NEW i \in 1 .. n - 1, Holds(t[i], p)
          PROVE  /\ ~InArat(a, p)
                 /\ \A j \in 1 .. n - 1 : Holds(t[j], p) => i = j
      <3>1. ~InArat(a, p)
        BY <2>9, <2>1, <2>2, <2>5, <2>7
      <3>2. ASSUME NEW j \in 1 .. n - 1, Holds(t[j], p)
            PROVE  i = j
        <4>1. i + 1 = j + 1
          BY <2>9, <3>2, <2>1, <2>5
        <4> QED
          BY <4>1, <1>2
      <3> QED
        BY <3>1, <3>2, SMTT(30)
    <2>10. ASSUME NEW l \in LR, NEW m \in LR, a[l] = p, a[m] = p
           PROVE  l = m
      <3>1. CASE Holds(e, p)
        <4>1. ~InArat(arat, p)
          BY <3>1, <2>1, <1>2, SMTT(30) DEF e
        <4> QED
          BY <4>1, <2>10, <1>6 DEF InArat
      <3>2. CASE ~Holds(e, p)
        BY <3>2, <2>10, <2>1, <1>6 DEF Holds
      <3> QED
        BY <3>1, <3>2
    <2> QED
      BY <2>8, <2>9, <2>10
  <1>12. ComplementOf(AflStep(afl, e), a)
    <2> SUFFICES ASSUME NEW p \in AllPR
                 PROVE  p \in AflStep(afl, e) <=> ~InArat(a, p)
      BY DEF ComplementOf
    <2>1. p \in afl <=> ~InArat(arat, p)
      BY DEF Consistent, ComplementOf
    <2>2. Holds(e, p) => ~InArat(arat, p)
      BY <1>2 DEF Consistent, Partitioned, n, e
    <2>3. p \in AflStep(afl, e) <=> \/ p \in afl /\ ~Holds(e, p)
                                    \/ e.we /\ p = e.pfree
      BY DEF AflStep, Holds, AllPR
    <2>4. e.we /\ p = e.pfree => InArat(arat, p)
      BY <1>5 DEF InArat
    <2> QED
      BY <2>1, <2>2, <2>3, <2>4, <1>10
  <1>13. Replays(rat, a, t)
    <2>1. \A l \in LR : MappedBefore(arat, q, n + 1, l, rat[l])
      BY DEF Consistent, Replays, n
    <2>2. n \in 1 .. n /\ Len(t) + 1 = n
      BY <1>2
    <2> QED
      BY <2>1, <2>2, <1>8 DEF Replays
  <1>14. FreesPrevious(a, t)
    <2> SUFFICES ASSUME NEW i \in 1 .. n - 1, t[i].we
                 PROVE  MappedBefore(a, t, i, t[i].lrd, t[i].pfree)
      BY <1>2 DEF FreesPrevious
    <2>1. MappedBefore(arat, q, i + 1, t[i].lrd, t[i].pfree)
      BY <1>2, <1>3 DEF Consistent, FreesPrevious, n
    <2>2. t[i].lrd \in LR
      <3>1. q[i + 1] \in Entry
        BY <1>1, <1>3 DEF n
      <3> QED
        BY <3>1, <1>2 DEF Entry
    <2> QED
      BY <2>1, <2>2, <1>3, <1>8
  <1>15. ReadsMapped(a, t)
    <2> SUFFICES ASSUME NEW i \in 1 .. n - 1, NEW s \in SrcPorts
                 PROVE  \E l \in LR : MappedBefore(a, t, i, l, t[i].prs[s])
      BY <1>2 DEF ReadsMapped
    <2>1. PICK l \in LR : MappedBefore(arat, q, i + 1, l, t[i].prs[s])
      BY <1>2, <1>3 DEF Consistent, ReadsMapped, n
    <2> QED
      BY <2>1, <1>3, <1>8
  <1> QED
    BY <1>9, <1>11, <1>12, <1>13, <1>14, <1>15, SMTT(30) DEF Consistent, t, e, a

\* The priority encoders pick an element of any vector that has one.
LEMMA EncoderFacts ==
    ASSUME NEW S \in SUBSET AllPR, S # {}
    PROVE  LowestOf(S) \in S /\ HighestOf(S) \in S
  <1>0. S \subseteq Nat /\ \A x \in S : x <= N_PRF
    BY RenameConstants DEF AllPR, PR
  <1>1. \E x \in S : \A y \in S : x <= y
    <2>1. \E x \in S : \A y \in S : ~(<<y, x>> \in OpToRel(<, Nat))
      BY <1>0, NatLessThanWellFounded, WFMin, Zenon
    <2>2. PICK x \in S : \A y \in S : ~(<<y, x>> \in OpToRel(<, Nat))
      BY <2>1, Zenon
    <2>3. \A y \in S : ~(y < x)
      BY <2>2, <1>0, Zenon DEF OpToRel
    <2>4. \A y \in S : x <= y
      BY <2>3, <1>0
    <2> QED
      BY <2>4
  <1>2. \E x \in S : \A y \in S : y <= x
    <2> DEFINE T == {N_PRF - x : x \in S}
    <2>1. T \subseteq Nat /\ T # {}
      <3>1. \A x \in S : N_PRF - x \in Nat
        BY <1>0, RenameConstants
      <3> QED
        BY <3>1
    <2>2. \E x \in T : \A y \in T : ~(<<y, x>> \in OpToRel(<, Nat))
      <3> HIDE DEF T
      <3> QED
        BY <2>1, NatLessThanWellFounded, WFMin, Zenon
    <2>3. PICK x \in T : \A y \in T : ~(y < x)
      BY <2>1, <2>2, Zenon DEF OpToRel
    <2>4. PICK u \in S : x = N_PRF - u
      BY <2>3
    <2>5. \A y \in S : ~(N_PRF - y < N_PRF - u)
      BY <2>3, <2>4
    <2> QED
      BY <2>5, <1>0, RenameConstants
  <1> QED
    BY <1>1, <1>2 DEF LowestOf, HighestOf

\* What fl_pop and the encoders give a slot that is renamed.
LEMMA SlotFacts ==
    ASSUME fl_ff \in SUBSET AllPR, NEW win \in Window, NEW issue_ready \in BOOLEAN
    PROVE  LET pop == fl_pop(win, issue_ready)
           IN  /\ pop \in [Slots -> BOOLEAN]
               /\ pop[1] => pop[0]
               /\ \A i \in Slots : fl_ff # {} => fl_prd[i] \in fl_ff
               /\ \A i \in Slots : fl_prd[i] \in PR
               /\ \A i \in Slots : pop[i] /\ win[i].lrd_we => fl_prd[i] \in fl_ff
               /\ pop[1] /\ win[1].lrd_we => fl_prd[1] # fl_prd[0]
  <1> DEFINE pop == fl_pop(win, issue_ready)
  <1>1. Slots = {0, 1}
    BY DEF Slots
  <1>2. \A i \in Slots : pop[i] <=> win[i].valid /\ ~rn_stall_req(win, issue_ready)
    BY Zenon DEF fl_pop
  <1>3. win[1].valid => win[0].valid
    BY DEF Window
  <1>4. fl_prd[0] = LowestOf(fl_ff) /\ fl_prd[1] = HighestOf(fl_ff)
    BY <1>1 DEF fl_prd
  <1>5. fl_ff # {} => fl_prd[0] \in fl_ff /\ fl_prd[1] \in fl_ff
    BY <1>4, EncoderFacts
  <1>6. fl_ff = {} => fl_prd[0] = 0 /\ fl_prd[1] = 0
    BY <1>4 DEF LowestOf, HighestOf
  <1>7. 0 \in PR /\ AllPR \subseteq PR
    BY RenameConstants DEF AllPR, PR
  <1>8. ASSUME NEW i \in Slots, pop[i], win[i].lrd_we
        PROVE  fl_ff # {} /\ (i = 1 => fl_prd[1] # fl_prd[0])
    <2>1. gs(i)
      BY <1>8, <1>2 DEF rn_stall_req, fl_stall_req
    <2> QED
      BY <2>1 DEF gs
  <1>9. pop \in [Slots -> BOOLEAN]
    <2>1. \A i \in Slots : win[i].valid \in BOOLEAN
      BY DEF Window, Slot
    <2> QED
      BY <2>1 DEF fl_pop, rn_stall_req, fl_stall_req
  <1>10. pop[1] => pop[0]
    BY <1>1, <1>2, <1>3
  <1>11. \A i \in Slots : fl_ff # {} => fl_prd[i] \in fl_ff
    BY <1>1, <1>5
  <1>12. \A i \in Slots : fl_prd[i] \in PR
    BY <1>1, <1>5, <1>6, <1>7
  <1>13. \A i \in Slots : pop[i] /\ win[i].lrd_we => fl_prd[i] \in fl_ff
    BY <1>8, <1>11
  <1>14. pop[1] /\ win[1].lrd_we => fl_prd[1] # fl_prd[0]
    BY <1>1, <1>8
  <1> QED
    BY <1>9, <1>10, <1>11, <1>12, <1>13, <1>14

\* The renaming half of a clock edge keeps the tables consistent.
LEMMA RenameStep ==
    ASSUME Consistent(fl_ff, afl_ff, rat_ff, arat_ff, renamed),
           NEW win \in Window, NEW issue_ready \in BOOLEAN
    PROVE  LET pop == fl_pop(win, issue_ready)
           IN  Consistent(fl_ff \ Allocated(win, pop), afl_ff, rat_nxt(win, pop), arat_ff,
                          renamed \o RenamedSeq(win, pop))
  <1> DEFINE pop == fl_pop(win, issue_ready)
             x0 == Renamed(win, 0)
             x1 == Renamed(win, 1)
             fl0 == FlAppend(fl_ff, x0)
             rat0 == RatAppend(rat_ff, x0)
  <1>1. /\ fl_ff \in SUBSET AllPR /\ rat_ff \in [LR -> PR] /\ renamed \in Seq(Entry)
        /\ 0 \in PR
    <2>1. /\ fl_ff \in SUBSET AllPR /\ rat_ff \in [LR -> PR] /\ renamed \in Seq(Entry)
      BY Zenon DEF Consistent, TablesTyped
    <2>2. 0 \in PR
      BY RenameConstants DEF PR
    <2> QED
      BY <2>1, <2>2, Zenon
  <1>2. /\ pop \in [Slots -> BOOLEAN]
        /\ pop[1] => pop[0]
        /\ \A i \in Slots : fl_prd[i] \in PR
        /\ \A i \in Slots : pop[i] /\ win[i].lrd_we => fl_prd[i] \in fl_ff
        /\ pop[1] /\ win[1].lrd_we => fl_prd[1] # fl_prd[0]
    BY <1>1, SlotFacts
  <1>3. Slots = {0, 1}
    BY DEF Slots
  <1>4. \A i \in Slots : /\ win[i].lrd_we \in BOOLEAN
                         /\ win[i].lrd \in LR
                         /\ win[i].lrs \in [SrcPorts -> LR]
    BY DEF Window, Slot
  <1> HIDE DEF pop
  <1>5. x0 \in Entry
    <2>1. rat_pfree(win, 0) \in PR
      BY <1>1, <1>3, <1>4 DEF rat_pfree
    <2>2. \A s \in SrcPorts : rat_prs(win, 0, win[0].lrs[s]) \in PR
      BY <1>1, <1>3, <1>4, SMTT(30) DEF rat_prs
    <2> QED
      BY <2>1, <2>2, <1>1, <1>2, <1>3, <1>4 DEF Renamed, Entry
  <1>6. x1 \in Entry
    <2>1. rat_pfree(win, 1) \in PR
      BY <1>1, <1>2, <1>3, <1>4, SMTT(30) DEF rat_pfree
    <2>2. \A s \in SrcPorts : rat_prs(win, 1, win[1].lrs[s]) \in PR
      BY <1>1, <1>2, <1>3, <1>4 DEF rat_prs
    <2> QED
      BY <2>1, <2>2, <1>1, <1>2, <1>3, <1>4, SMTT(30) DEF Renamed, Entry
  <1>7. pop[0] => Consistent(fl0, afl_ff, rat0, arat_ff, Append(renamed, x0))
    <2>1. pop[0] => RenamedFrom(fl_ff, rat_ff, x0)
      <3>1. \A s \in SrcPorts : \E l \in LR : x0.prs[s] = rat_ff[l]
        <4>1. x0.prs = [s \in SrcPorts |-> rat_ff[win[0].lrs[s]]]
          BY <1>3, SMTT(30) DEF Renamed, rat_prs
        <4>2. \A s \in SrcPorts : win[0].lrs[s] \in LR
          BY <1>3, <1>4, Zenon
        <4> HIDE DEF x0
        <4> QED
          BY <4>1, <4>2, Zenon
      <3>2. pop[0] /\ x0.we => x0.prd \in fl_ff /\ x0.pfree = rat_ff[x0.lrd]
        BY <1>2, <1>3, ZenonT(40) DEF Renamed, rat_pfree
      <3> QED
        BY <3>1, <3>2, <1>5, Zenon DEF RenamedFrom
    <2> QED
      BY <2>1, AppendConsistent, SMTT(30)
  <1>8. \A l \in LR : rat0[l] = IF win[0].lrd_we /\ win[0].lrd = l THEN fl_prd[0] ELSE rat_ff[l]
    BY <1>1, <1>3, <1>4, Zenon DEF RatAppend, Renamed
  <1>9. pop[1] => Consistent(FlAppend(fl0, x1), afl_ff, RatAppend(rat0, x1), arat_ff,
                             Append(Append(renamed, x0), x1))
    <2>1. pop[1] => RenamedFrom(fl0, rat0, x1)
      <3>1. \A s \in SrcPorts : \E l \in LR : x1.prs[s] = rat0[l]
        <4>1. \A s \in SrcPorts : x1.prs[s] = rat0[win[1].lrs[s]]
          BY <1>3, <1>4, <1>8, Zenon DEF Renamed, rat_prs
        <4> QED
          BY <4>1, <1>3, <1>4, ZenonT(40)
      <3>2. pop[1] /\ x1.we => x1.prd \in fl0
        BY <1>2, <1>3, SMTT(30) DEF Renamed, FlAppend
      <3>3. x1.we => x1.pfree = rat0[x1.lrd]
        BY <1>3, <1>4, <1>8, Zenon DEF Renamed, rat_pfree
      <3> QED
        BY <3>1, <3>2, <3>3, <1>6, ZenonT(40) DEF RenamedFrom
    <2> QED
      BY <2>1, <1>2, <1>7, AppendConsistent, SMTT(30)
  <1>10. CASE pop[1]
    <2>1. FlAppend(fl0, x1) = fl_ff \ Allocated(win, pop)
      BY <1>2, <1>3, <1>10, Zenon DEF FlAppend, Renamed, Allocated
    <2>2. RatAppend(rat0, x1) = rat_nxt(win, pop)
      <3>1. rat0 \in [LR -> PR]
        BY <1>1, <1>2, <1>3, <1>4, ZenonT(40) DEF RatAppend, Renamed
      <3>2. \A l \in LR : RatAppend(rat0, x1)[l] =
                             IF win[1].lrd_we /\ win[1].lrd = l THEN fl_prd[1] ELSE rat0[l]
        BY <3>1, <1>3, <1>4, ZenonT(40) DEF RatAppend, Renamed
      <3>3. RatAppend(rat0, x1) \in [LR -> PR]
        BY <3>1, <1>2, <1>3, <1>4, ZenonT(40) DEF RatAppend, Renamed
      <3>4. \A l \in LR : rat_nxt(win, pop)[l] = RatAppend(rat0, x1)[l]
        BY <3>2, <1>8, <1>2, <1>10, Zenon DEF rat_nxt
      <3> QED
        BY <3>3, <3>4, SMTT(30) DEF rat_nxt
    <2>3. Append(Append(renamed, x0), x1) = renamed \o RenamedSeq(win, pop)
      <3>1. RenamedSeq(win, pop) = <<x0, x1>>
        BY <1>10 DEF RenamedSeq
      <3> QED
        BY <3>1, <1>1, <1>5, <1>6
    <2> QED
      BY <2>1, <2>2, <2>3, <1>9, <1>10, ZenonT(40) DEF pop
  <1>11. CASE ~pop[1] /\ pop[0]
    <2>1. fl0 = fl_ff \ Allocated(win, pop)
      BY <1>2, <1>3, <1>11, ZenonT(40) DEF FlAppend, Renamed, Allocated
    <2>2. rat0 = rat_nxt(win, pop)
      <3>1. rat0 \in [LR -> PR]
        BY <1>1, <1>2, <1>3, <1>4, Zenon DEF RatAppend, Renamed
      <3>2. \A l \in LR : rat_nxt(win, pop)[l] = rat0[l]
        BY <1>8, <1>11, Zenon DEF rat_nxt
      <3> QED
        BY <3>1, <3>2, ZenonT(40) DEF rat_nxt
    <2>3. Append(renamed, x0) = renamed \o RenamedSeq(win, pop)
      <3>1. RenamedSeq(win, pop) = <<x0>>
        BY <1>11 DEF RenamedSeq
      <3> QED
        BY <3>1, <1>1, <1>5
    <2> QED
      BY <2>1, <2>2, <2>3, <1>7, <1>11, ZenonT(40) DEF pop
  <1>12. CASE ~pop[1] /\ ~pop[0]
    <2>1. fl_ff = fl_ff \ Allocated(win, pop)
      BY <1>3, <1>12 DEF Allocated
    <2>2. rat_ff = rat_nxt(win, pop)
      BY <1>1, <1>12 DEF rat_nxt
    <2>3. renamed = renamed \o RenamedSeq(win, pop)
      BY <1>1, <1>12 DEF RenamedSeq
    <2> QED
      BY <2>1, <2>2, <2>3, Zenon DEF pop
  <1> QED
    BY <1>10, <1>11, <1>12, SMTT(30)

\* Taking the oldest instruction off the buffer, with new ones appended.
LEMMA RemoveOne ==
    ASSUME NEW S, NEW q \in Seq(S), NEW new \in Seq(S), Len(q) >= 1
    PROVE  /\ q \o new # <<>>
           /\ (q \o new)[1] = q[1]
           /\ SubSeq(q, 2, Len(q)) \o new = Tail(q \o new)
  OBVIOUS

\* Taking n instructions off the front of rob, with new ones appended.
LEMMA SubSeqFacts ==
    ASSUME NEW S, NEW q \in Seq(S), NEW new \in Seq(S)
    PROVE  /\ SubSeq(q, 1, Len(q)) \o new = q \o new
           /\ Len(q) >= 1 => /\ q \o new # <<>>
                             /\ (q \o new)[1] = q[1]
                             /\ SubSeq(q, 2, Len(q)) \o new = Tail(q \o new)
           /\ Len(q) >= 2 => /\ Tail(q \o new) # <<>>
                             /\ Tail(q \o new)[1] = q[2]
                             /\ SubSeq(q, 3, Len(q)) \o new = Tail(Tail(q \o new))
  <1>1. SubSeq(q, 1, Len(q)) \o new = q \o new
    <2>1. SubSeq(q, 1, Len(q)) = q
      OBVIOUS
    <2> QED
      BY <2>1, Zenon
  <1>2. Len(q) >= 1 => /\ q \o new # <<>>
                       /\ (q \o new)[1] = q[1]
                       /\ SubSeq(q, 2, Len(q)) \o new = Tail(q \o new)
    BY RemoveOne
  <1>3. Len(q) >= 2 => /\ Tail(q \o new) # <<>>
                       /\ Tail(q \o new)[1] = q[2]
                       /\ SubSeq(q, 3, Len(q)) \o new = Tail(Tail(q \o new))
    <2> SUFFICES ASSUME Len(q) >= 2
                 PROVE  /\ Tail(q \o new) # <<>>
                        /\ Tail(q \o new)[1] = q[2]
                        /\ SubSeq(q, 3, Len(q)) \o new = Tail(Tail(q \o new))
      BY Zenon
    <2> DEFINE t == SubSeq(q, 2, Len(q))
    <2>1. t \in Seq(S) /\ Len(t) = Len(q) - 1 /\ t[1] = q[2]
      OBVIOUS
    <2>2. SubSeq(q, 3, Len(q)) = SubSeq(t, 2, Len(t))
      <3>1. \A i \in 1 .. Len(q) - 2 : SubSeq(q, 3, Len(q))[i] = SubSeq(t, 2, Len(t))[i]
        OBVIOUS
      <3> QED
        BY <3>1, <2>1
    <2>3. t \o new = Tail(q \o new)
      BY <1>2
    <2>4. t \o new # <<>> /\ (t \o new)[1] = t[1] /\ SubSeq(t, 2, Len(t)) \o new = Tail(t \o new)
      <3>1. Len(t) >= 1
        BY <2>1
      <3> QED
        BY <2>1, <3>1, RemoveOne, Zenon
    <2> HIDE DEF t
    <2> QED
      BY <2>1, <2>2, <2>3, <2>4, Zenon
  <1> QED
    BY <1>1, <1>2, <1>3, Zenon

\* The two entries appended to the reorder buffer have the type of its entries.
LEMMA PairTyped ==
    ASSUME NEW S, NEW s \in Seq(S), NEW a, NEW b, s \o <<a, b>> \in Seq(S)
    PROVE  <<a, b>> \in Seq(S)
  <1> DEFINE t == s \o <<a, b>>
  <1>1. /\ Len(s) \in Nat
        /\ Len(t) = Len(s) + 2
        /\ t[Len(s) + 1] = a
        /\ t[Len(s) + 2] = b
    OBVIOUS
  <1>2. Len(s) + 1 \in 1 .. Len(t) /\ Len(s) + 2 \in 1 .. Len(t)
    BY <1>1
  <1>3. t \in Seq(S)
    OBVIOUS
  <1> HIDE DEF t
  <1>4. a \in S /\ b \in S
    BY <1>1, <1>2, <1>3
  <1> QED
    BY <1>4

\* A whole clock edge without flush keeps the tables consistent.
LEMMA ClockConsistent ==
    ASSUME Consistent(fl_ff, afl_ff, rat_ff, arat_ff, renamed),
           NEW win \in Window, NEW issue_ready \in BOOLEAN, NEW n \in 0 .. 2, NEW W,
           RnClock(win, issue_ready, n, W)
    PROVE  Consistent(fl_ff, afl_ff, rat_ff, arat_ff, renamed)'
  <1> DEFINE pop == fl_pop(win, issue_ready)
             new == RenamedSeq(win, pop)
             fl1 == fl_ff \ Allocated(win, pop)
             rat1 == rat_nxt(win, pop)
             q == renamed \o new
  <1>1. Consistent(fl1, afl_ff, rat1, arat_ff, q)
    BY RenameStep
  <1>2. /\ n <= Len(renamed)
        /\ fl_ff' = fl_nxt(win, pop, n)
        /\ afl_ff' = afl_nxt(n)
        /\ rat_ff' = rat1
        /\ arat_ff' = arat_nxt(n)
        /\ renamed' = SubSeq(renamed, n + 1, Len(renamed)) \o new
    BY SMTT(30) DEF RnClock
  <1>3. /\ renamed \in Seq(Entry) /\ q \in Seq(Entry) /\ fl1 \subseteq AllPR
        /\ Len(renamed) \in Nat
    <2>1. /\ renamed \in Seq(Entry) /\ q \in Seq(Entry) /\ fl1 \in SUBSET AllPR
      BY <1>1, Zenon DEF Consistent, TablesTyped
    <2>2. Len(renamed) \in Nat
      BY <2>1
    <2> QED
      BY <2>1, <2>2, Zenon
  <1>4. new \in Seq(Entry)
    <2>1. CASE pop[1]
      <3>1. new = <<Renamed(win, 0), Renamed(win, 1)>>
        BY <2>1 DEF RenamedSeq
      <3>2. renamed \o <<Renamed(win, 0), Renamed(win, 1)>> \in Seq(Entry)
        BY <3>1, <1>3, Zenon
      <3> QED
        BY <3>1, <3>2, <1>3, PairTyped, Zenon
    <2>2. CASE ~pop[1] /\ pop[0]
      <3>1. new = <<Renamed(win, 0)>>
        BY <2>2 DEF RenamedSeq
      <3>2. q[Len(renamed) + 1] = Renamed(win, 0) /\ Len(q) = Len(renamed) + 1
        BY <3>1, <1>3
      <3> QED
        BY <3>1, <3>2, <1>3
    <2>3. CASE ~pop[1] /\ ~pop[0]
      BY <2>3 DEF RenamedSeq
    <2> QED
      BY <2>1, <2>2, <2>3
  <1> HIDE DEF pop, new, fl1, rat1
  <1>5. /\ SubSeq(renamed, 1, Len(renamed)) \o new = q
        /\ Len(renamed) >= 1 => /\ q # <<>>
                                /\ q[1] = renamed[1]
                                /\ SubSeq(renamed, 2, Len(renamed)) \o new = Tail(q)
        /\ Len(renamed) >= 2 => /\ Tail(q) # <<>>
                                /\ Tail(q)[1] = renamed[2]
                                /\ SubSeq(renamed, 3, Len(renamed)) \o new = Tail(Tail(q))
    BY <1>3, <1>4, SubSeqFacts, Zenon
  <1> HIDE DEF q
  <1>6. CASE n = 0
    <2>1. fl_ff' = fl1
      BY <1>2, <1>3, <1>6, SMTT(30) DEF fl_nxt, cmt_pfree, cmt_prd_we, fl1, AllPR
    <2>2. afl_ff' = afl_ff /\ arat_ff' = arat_ff /\ renamed' = q
      BY <1>2, <1>5, <1>6 DEF afl_nxt, arat_nxt
    <2> QED
      BY <2>1, <2>2, <1>1, <1>2, SMTT(30)
  <1>7. CASE n = 1
    <2>1. Consistent(FlCommit(fl1, renamed[1]), AflStep(afl_ff, renamed[1]), rat1,
                     AratStep(arat_ff, renamed[1]), Tail(q))
      BY <1>1, <1>2, <1>3, <1>5, <1>7, CommitConsistent, SMTT(30)
    <2>2. fl_ff' = FlCommit(fl1, renamed[1])
      <3>1. cmt_prd_we(1) = IF renamed[1].we THEN {1} ELSE {}
        BY DEF cmt_prd_we
      <3>2. cmt_pfree(1) = IF renamed[1].we THEN {renamed[1].pfree} ELSE {}
        BY <3>1 DEF cmt_pfree
      <3> QED
        BY <3>2, <1>2, <1>3, <1>7, Zenon DEF fl_nxt, FlCommit, fl1, AllPR
    <2>3. afl_ff' = AflStep(afl_ff, renamed[1]) /\ arat_ff' = AratStep(arat_ff, renamed[1])
      BY <1>2, <1>7, SMTT(30) DEF afl_nxt, arat_nxt
    <2>4. renamed' = Tail(q)
      <3>1. n + 1 = 2 /\ Len(renamed) >= 1
        BY <1>2, <1>7
      <3> QED
        BY <3>1, <1>2, <1>5, Zenon
    <2> QED
      BY <2>1, <2>2, <2>3, <2>4, <1>2
  <1>8. CASE n = 2
    <2>1. Consistent(FlCommit(fl1, renamed[1]), AflStep(afl_ff, renamed[1]), rat1,
                     AratStep(arat_ff, renamed[1]), Tail(q))
      BY <1>1, <1>2, <1>3, <1>5, <1>8, CommitConsistent, SMTT(30)
    <2>2. Consistent(FlCommit(FlCommit(fl1, renamed[1]), renamed[2]), AflStep(AflStep(afl_ff, renamed[1]), renamed[2]),
                     rat1, AratStep(AratStep(arat_ff, renamed[1]), renamed[2]), Tail(Tail(q)))
      BY <2>1, <1>2, <1>3, <1>5, <1>8, CommitConsistent, Zenon
    <2>3. fl_ff' = FlCommit(FlCommit(fl1, renamed[1]), renamed[2])
      <3>1. cmt_prd_we(2) = (IF renamed[1].we THEN {1} ELSE {}) \cup (IF renamed[2].we THEN {2} ELSE {})
        BY SMTT(30) DEF cmt_prd_we
      <3>2. cmt_pfree(2) = (IF renamed[1].we THEN {renamed[1].pfree} ELSE {}) \cup
                           (IF renamed[2].we THEN {renamed[2].pfree} ELSE {})
        BY <3>1 DEF cmt_pfree
      <3> QED
        BY <3>2, <1>2, <1>3, <1>8, Zenon DEF fl_nxt, FlCommit, fl1, AllPR
    <2>4. /\ afl_ff' = AflStep(AflStep(afl_ff, renamed[1]), renamed[2])
          /\ arat_ff' = AratStep(AratStep(arat_ff, renamed[1]), renamed[2])
      BY <1>2, <1>8, SMTT(30) DEF afl_nxt, arat_nxt
    <2>5. renamed' = Tail(Tail(q))
      <3>1. n + 1 = 3 /\ Len(renamed) >= 2
        BY <1>2, <1>8
      <3> QED
        BY <3>1, <1>2, <1>5, Zenon
    <2> QED
      BY <2>2, <2>3, <2>4, <2>5, <1>2
  <1> QED
    BY <1>6, <1>7, <1>8

-----------------------------------------------------------------------------

BusyInv ==
    /\ busytable \in SUBSET PR
    /\ pending \in SUBSET PR
    /\ UnwrittenIsBusy
    /\ WrittenIsNotBusy

\* The inductive invariant.  The five tables only make sense together: that
\* nothing free is in use needs pfree to be the mapping that was replaced, and
\* that needs the alias table to be the replay of what is in flight.
RenameInv == Consistent(fl_ff, afl_ff, rat_ff, arat_ff, renamed) /\ BusyInv

\* The reset values of rn_fl.v, rn_rat.v and rn_busytable.v are consistent.
LEMMA RenameReset == RnInit => RenameInv
  <1> SUFFICES ASSUME RnInit PROVE RenameInv
    OBVIOUS
  <1>1. /\ fl_ff = AllPR /\ afl_ff = AllPR
        /\ rat_ff = [l \in LR |-> 0] /\ arat_ff = [l \in LR |-> 0]
        /\ busytable = {} /\ renamed = <<>> /\ pending = {}
    BY DEF RnInit
  <1>2. 0 \in PR /\ 0 \notin AllPR
    BY RenameConstants DEF PR, AllPR
  <1>3. /\ renamed \in Seq(Entry) /\ Len(renamed) = 0 /\ (\A i \in 1 .. Len(renamed) : FALSE)
        /\ (\A i \in 1 .. (Len(renamed) + 1) - 1 : FALSE)
    BY <1>1
  <1>4. TablesTyped(fl_ff, afl_ff, rat_ff, arat_ff, renamed)
    BY <1>1, <1>2, <1>3 DEF TablesTyped
  <1>5. \A p \in AllPR : ~InArat(arat_ff, p)
    BY <1>1, <1>2 DEF InArat
  <1>6. Partitioned(fl_ff, arat_ff, renamed)
    BY <1>1, <1>3, <1>5 DEF Partitioned, InArat
  <1>7. ComplementOf(afl_ff, arat_ff)
    BY <1>1, <1>5 DEF ComplementOf
  <1>8. Replays(rat_ff, arat_ff, renamed)
    BY <1>1, <1>3 DEF Replays, MappedBefore
  <1>9. FreesPrevious(arat_ff, renamed) /\ ReadsMapped(arat_ff, renamed)
    BY <1>3 DEF FreesPrevious, ReadsMapped
  <1>10. BusyInv
    BY <1>1 DEF BusyInv, UnwrittenIsBusy, WrittenIsNotBusy
  <1> QED
    BY <1>4, <1>6, <1>7, <1>8, <1>9, <1>10 DEF RenameInv, Consistent

\* Rollback: the architectural tables are consistent with nothing in flight.
LEMMA FlushConsistent ==
    ASSUME Consistent(fl_ff, afl_ff, rat_ff, arat_ff, renamed), Flush
    PROVE  Consistent(fl_ff, afl_ff, rat_ff, arat_ff, renamed)'
  <1>1. TablesTyped(fl_ff, afl_ff, rat_ff, arat_ff, renamed) /\ ComplementOf(afl_ff, arat_ff)
        /\ Partitioned(fl_ff, arat_ff, renamed)
    BY DEF Consistent
  <1>2. /\ fl_ff' = afl_ff /\ afl_ff' = afl_ff /\ rat_ff' = arat_ff /\ arat_ff' = arat_ff
        /\ renamed' = <<>>
    BY DEF Flush
  <1>3. /\ renamed' \in Seq(Entry) /\ Len(renamed') = 0 /\ (\A i \in 1 .. Len(renamed') : FALSE)
        /\ (\A i \in 1 .. (Len(renamed') + 1) - 1 : FALSE)
    BY <1>2, SMTT(30)
  <1>4. TablesTyped(fl_ff', afl_ff', rat_ff', arat_ff', renamed')
    BY <1>1, <1>2, <1>3 DEF TablesTyped
  <1>5. Partitioned(fl_ff', arat_ff', renamed')
    BY <1>1, <1>2, <1>3, SMTT(30) DEF Partitioned, ComplementOf
  <1>6. Replays(rat_ff', arat_ff', renamed')
    BY <1>2, <1>3 DEF Replays, MappedBefore
  <1>7. FreesPrevious(arat_ff', renamed') /\ ReadsMapped(arat_ff', renamed')
    BY <1>3 DEF FreesPrevious, ReadsMapped
  <1>8. ComplementOf(afl_ff', arat_ff')
    BY <1>1, <1>2
  <1> QED
    BY <1>4, <1>5, <1>6, <1>7, <1>8 DEF Consistent

\* A clock edge without flush keeps the busy table: rn_busytable.v sets the
\* registers given out and clears the ones written back.
LEMMA ClockBusy ==
    ASSUME RenameInv, NEW win \in Window, NEW issue_ready \in BOOLEAN, NEW n \in 0 .. 2,
           NEW W \in SUBSET pending, RnClock(win, issue_ready, n, W)
    PROVE  BusyInv'
  <1> DEFINE pop == fl_pop(win, issue_ready)
             set == {fl_prd[i] : i \in {j \in Slots : win[j].lrd_we}}
             alloc == Allocated(win, pop)
  <1>1. /\ busytable' = (busytable \ W) \cup set
        /\ pending' = (pending \ W) \cup alloc
        /\ fl_ff' = ((fl_ff \ alloc) \cup cmt_pfree(n)) \ {0}
    BY SMTT(30) DEF RnClock, busytable_nxt, fl_nxt
  <1>2. /\ fl_ff \in SUBSET AllPR
        /\ busytable \in SUBSET PR /\ pending \in SUBSET PR
        /\ pending \subseteq busytable
        /\ \A p \in AllPR : p \in busytable => p \in fl_ff \cup pending
    BY Zenon DEF RenameInv, Consistent, TablesTyped, BusyInv, UnwrittenIsBusy, WrittenIsNotBusy
  <1>3. /\ \A i \in Slots : fl_ff # {} => fl_prd[i] \in fl_ff
        /\ \A i \in Slots : fl_prd[i] \in PR
    BY <1>2, SlotFacts
  <1>4. \A i \in Slots : fl_ff = {} => fl_prd[i] = 0
    BY DEF fl_prd, Slots, LowestOf, HighestOf
  <1>5. alloc \subseteq set /\ set \in SUBSET PR /\ \A p \in set : p # 0 => p \in fl_ff
    BY <1>3, <1>4 DEF Allocated
  <1> HIDE DEF set, alloc
  <1>6. busytable' \in SUBSET PR /\ pending' \in SUBSET PR /\ pending' \subseteq busytable'
    BY <1>1, <1>2, <1>5
  <1>7. ASSUME NEW p \in AllPR, p \in busytable'
        PROVE  p \in fl_ff' \cup pending'
    <2>1. p \in fl_ff \/ p \in pending \ W
      BY <1>7, <1>1, <1>2, <1>5 DEF AllPR
    <2> QED
      BY <2>1, <1>1 DEF AllPR
  <1> QED
    BY <1>6, <1>7, SMTT(30) DEF BusyInv, UnwrittenIsBusy, WrittenIsNotBusy

\* Every clock edge of the rename stage, a flush or not, keeps the invariant.
LEMMA RenameNext == RenameInv /\ [RnNext]_rn_vars => RenameInv'
  <1> SUFFICES ASSUME RenameInv, [RnNext]_rn_vars PROVE RenameInv'
    OBVIOUS
  <1>1. ASSUME NEW win \in Window, NEW issue_ready \in BOOLEAN, NEW n \in 0 .. 2,
               NEW W \in SUBSET pending, RnClock(win, issue_ready, n, W)
        PROVE  RenameInv'
    BY <1>1, ClockConsistent, ClockBusy DEF RenameInv
  <1>2. CASE Flush
    <2>1. BusyInv'
      BY <1>2 DEF Flush, BusyInv, UnwrittenIsBusy, WrittenIsNotBusy
    <2> QED
      BY <2>1, <1>2, FlushConsistent DEF RenameInv
  <1>3. CASE UNCHANGED rn_vars
    BY <1>3 DEF rn_vars, RenameInv, BusyInv, UnwrittenIsBusy, WrittenIsNotBusy
  <1> QED
    BY <1>1, <1>2, <1>3 DEF RnNext

\* The invariant of rn_fl.v, rn_rat.v and rn_busytable.v holds at every clock edge.
THEOREM RenameInvariance == RnSpec => []RenameInv
  BY RenameReset, RenameNext, PTL DEF RnSpec

\* Every register of the rename stage keeps a value of its width.
THEOREM RenameTypeCorrect == RnSpec => []TypeOK
  <1>1. RenameInv => TypeOK
    BY Zenon DEF RenameInv, Consistent, TablesTyped, BusyInv, TypeOK
  <1> QED
    BY <1>1, RenameInvariance, PTL

\* For any register file and any number of instructions in flight, rn_fl.v never
\* allocates a register in use and never loses one.
THEOREM PartitionHolds == RnSpec => []PhysicalRegistersPartitioned
  <1>1. RenameInv => PhysicalRegistersPartitioned
    BY DEF RenameInv, Consistent, PhysicalRegistersPartitioned
  <1> QED
    BY <1>1, RenameInvariance, PTL

\* The state that rollback restores is exact at every moment.
THEOREM ArchFreeListHolds == RnSpec => []ArchFreeListExact
  <1>1. RenameInv => ArchFreeListExact
    BY DEF RenameInv, Consistent, ArchFreeListExact
  <1> QED
    BY <1>1, RenameInvariance, PTL

\* The alias table is always the replay of the instructions in flight.
THEOREM ReplayHolds == RnSpec => []RatIsReplay
  <1>1. RenameInv => RatIsReplay
    BY DEF RenameInv, Consistent, RatIsReplay
  <1> QED
    BY <1>1, RenameInvariance, PTL

\* An instruction in flight frees exactly the mapping it replaced.
THEOREM FreesPreviousHolds == RnSpec => []FreesPreviousMapping
  <1>1. RenameInv => FreesPreviousMapping
    BY SMTT(30) DEF RenameInv, Consistent, FreesPreviousMapping
  <1> QED
    BY <1>1, RenameInvariance, PTL

\* No source of an instruction in flight is freed or reallocated under it.
THEOREM SourcesHold == RnSpec => []SourcesStayLive
  <1>1. RenameInv => SourcesStayLive
    <2> SUFFICES ASSUME RenameInv, NEW i \in 1 .. Len(renamed), NEW s \in SrcPorts, renamed[i].prs[s] # 0
                 PROVE  /\ renamed[i].prs[s] \notin fl_ff
                        /\ \A j \in i .. Len(renamed) : ~Holds(renamed[j], renamed[i].prs[s])
      BY Zenon DEF SourcesStayLive
    <2> DEFINE p == renamed[i].prs[s]
    <2>1. renamed \in Seq(Entry) /\ Len(renamed) \in Nat
      BY SMTT(30) DEF RenameInv, Consistent, TablesTyped
    <2>2. PICK l \in LR : MappedBefore(arat_ff, renamed, i, l, p)
      BY Zenon DEF RenameInv, Consistent, ReadsMapped
    <2>3. InArat(arat_ff, p) \/ \E j \in 1 .. i - 1 : j \in 1 .. Len(renamed) /\ Holds(renamed[j], p)
      <3>1. i \in 1 .. Len(renamed) + 1
        BY <2>1
      <3> QED
        BY <2>1, <2>2, <3>1, MappedIsHeld
    <2>4. p \in AllPR
      <3>1. renamed[i] \in Entry
        BY <2>1, SMTT(30)
      <3> QED
        BY <3>1 DEF Entry, AllPR
    <2>5. /\ p \in fl_ff <=> /\ ~InArat(arat_ff, p)
                             /\ \A j \in 1 .. Len(renamed) : ~Holds(renamed[j], p)
          /\ \A k \in 1 .. Len(renamed) : Holds(renamed[k], p) =>
                /\ ~InArat(arat_ff, p)
                /\ \A j \in 1 .. Len(renamed) : Holds(renamed[j], p) => k = j
      BY <2>4, Zenon DEF RenameInv, Consistent, Partitioned
    <2>6. \A j \in i .. Len(renamed) : j \in 1 .. Len(renamed) /\ j \notin 1 .. i - 1
      BY <2>1
    <2> QED
      BY <2>3, <2>5, <2>6, SMTT(30)
  <1> QED
    BY <1>1, RenameInvariance, PTL

\* The busy table marks every register still to be written, and of the others
\* only free ones, so no instruction issues early or waits for ever.
THEOREM BusyHolds == RnSpec => [](UnwrittenIsBusy /\ WrittenIsNotBusy)
  <1>1. RenameInv => UnwrittenIsBusy /\ WrittenIsNotBusy
    BY DEF RenameInv, BusyInv
  <1> QED
    BY <1>1, RenameInvariance, PTL

-----------------------------------------------------------------------------
(* The commit stage.                                                       *)

Fe == {"no", "EIRQ", "EITM", "EIPF"}
LsuExc == {"EALIGN", "EDTM", "EDPF"}

RobEntry == [pc : PC, pred : {NotTaken} \cup PC, act : {NotTaken} \cup PC, fe : Fe]

\* Where the front end goes on after x.
follow(x) == IF x.pred = NotTaken THEN npc(x.pc) ELSE x.pred

Stage1 == [valid : BOOLEAN, exc : SUBSET {"EALIGN"}]
Lsu == [valid : BOOLEAN, exc : SUBSET LsuExc]

Typed ==
    /\ prog \in Programs
    /\ fetch_pc \in PC
    /\ rob \in Seq(RobEntry)
    /\ nready \in Nat /\ nready <= Len(rob)
    /\ fsm \in {"IDLE", "PENDING"}
    /\ se \in [fls : BOOLEAN, tgt : PC]
    /\ l1 \in Stage1 /\ l2 \in Lsu
    /\ tlb \in SUBSET {"EDTM", "EDPF"}
    /\ e1.wb_valid \in BOOLEAN
    /\ psr \in ISA!Psr /\ epsr \in ISA!Psr /\ epc \in PC

\* Only a branch is taken, to its target.
Branches(x) == x.act # NotTaken => x.fe = "no" /\ prog[x.pc].op = "b" /\ x.act = prog[x.pc].arg

\* The instructions in flight are those of the predicted path.
Walk ==
    /\ \A i \in 1 .. Len(rob) - 1 : rob[i + 1].pc = follow(rob[i])
    /\ rob # <<>> => fetch_pc = follow(rob[Len(rob)])
    /\ \A i \in 1 .. Len(rob) : Branches(rob[i])

\* x was fetched under the present PSR.
Current(x) ==
    /\ x.fe = "EIRQ" => psr.ire
    /\ x.fe \in {"EITM", "EIPF"} => psr.mme

\* So were all instructions, unless a flush is about to throw them away.
Allowed == ~se.fls => \A i \in 1 .. Len(rob) : Current(rob[i])

AtMostOne(S) == \A x, y \in S : x = y

\* What is in the stages of the LSU and the EPU is the head of the ROB.
Control ==
    /\ fsm = "IDLE" => ~l1.valid /\ ~l2.valid /\ e1 = NoEpu
    /\ fsm = "PENDING" => pipe_req
    /\ e1 # NoEpu => /\ e1.op = opc(rob[1]) /\ e1.exc = exc(rob[1]) /\ e1_pc = rob[1].pc
                     /\ e1.wb_valid <=> opc(rob[1]) # "dcop"
                     /\ ~l2.valid
    /\ e1.wb_valid => ~l1.valid
    /\ l1.valid => ~l2.valid
    /\ l1.valid \/ l2.valid => opc(rob[1]) \in {"ls", "dcop"} /\ e1_pc = rob[1].pc

\* The faults of the access in flight.
Faulting ==
    /\ AtMostOne(tlb)
    /\ l1.valid => AtMostOne(l1.exc \cup tlb)
    /\ l2.valid => AtMostOne(l2.exc)
    /\ l1.valid /\ opc(rob[1]) = "ls" /\ tlb # {} => psr.mme
    /\ l2.valid /\ opc(rob[1]) = "ls" /\ ~(l2.exc \subseteq {"EALIGN"}) => psr.mme

IInv == Typed /\ Walk /\ Allowed /\ Control /\ Faulting /\ AccessOnce

-----------------------------------------------------------------------------
\* The values a program can write are values of the registers (cpu.cc).
LEMMA ProgramFacts ==
    ASSUME NEW p \in Programs, NEW a \in PC
    PROVE  /\ p[a].op \in {"b", "epc"} => p[a].arg \in PC
           /\ p[a].op \in {"psr", "epsr"} => p[a].arg \in ISA!Psr
           /\ p[a].op \in {"alu", "barr", "rmsr", "tlb", "icinv", "dcop", "ls", "syscall", "rete", "undef",
                           "b", "epc", "psr", "epsr"}
  <1>1. p[a] \in ISA!Instr
    BY Parameters DEF PC
  <1> QED
    BY <1>1 DEF ISA!Instr, ISA!Plain, ISA!PC, PC

\* npc stays within the addresses.
LEMMA NextPc == \A a \in PC : npc(a) \in PC /\ (a + 0) % PCS = a /\ npc(a) = (a + 1) % PCS
                             /\ npc(npc(a)) = (a + 2) % PCS
  BY Parameters DEF npc, PC

\* So does where the front end goes on, predicted or not.
LEMMA FollowPc == \A x \in RobEntry : follow(x) \in PC
  BY NextPc DEF RobEntry, follow, NotTaken

\* What an edge does with the registers when nothing is pending (cmt.v, IDLE).
LEMMA IdleFacts ==
    ASSUME IInv, fsm = "IDLE", NEW p \in BOOLEAN, NEW w \in BOOLEAN
    PROVE  /\ excs = {}
           /\ ~pipe_finish(p) /\ ~refetch(p)
           /\ flush(p) <=> se.fls
           /\ psr_nxt(p) = psr /\ epsr_nxt(p) = epsr /\ epc_nxt(p) = epc
           /\ cmt_fire(p) = IF pipe_req \/ se.fls THEN 0 ELSE cmt_ready_2_fire
           /\ fsm_nxt(p, w) = IF pipe_req /\ w THEN "PENDING" ELSE "IDLE"
  <1>1. ~l1.valid /\ ~l2.valid /\ e1 = NoEpu
    BY DEF IInv, Control
  <1>2. e1.wb_valid = FALSE /\ e1.exc = "no" /\ e1.op = "no"
    BY <1>1 DEF NoEpu
  <1>3. excs = {}
    BY <1>1, <1>2 DEF excs
  <1>4. ~pipe_finish(p) /\ ~refetch(p)
    BY <1>1, <1>2 DEF pipe_finish, refetch
  <1>5. flush(p) <=> se.fls
    BY <1>3 DEF flush, exc_flush
  <1>6. psr_nxt(p) = psr /\ epsr_nxt(p) = epsr /\ epc_nxt(p) = epc
    BY <1>2, <1>3 DEF psr_nxt, epsr_nxt, epc_nxt
  <1>7. cmt_fire(p) = IF pipe_req \/ se.fls THEN 0 ELSE cmt_ready_2_fire
    BY <1>4, <1>5 DEF cmt_fire
  <1> QED
    BY <1>3, <1>4, <1>5, <1>6, <1>7 DEF fsm_nxt

\* And when an instruction is pending: it is at the head, no other enters, and
\* it leaves alone.
LEMMA PendingFacts ==
    ASSUME IInv, fsm = "PENDING", NEW p \in BOOLEAN
    PROVE  /\ pipe_req /\ nready > 0 /\ ~se.fls /\ rob # <<>>
           /\ ~s1i_valid /\ ~epu_req_valid /\ ~s1i_dcop
           /\ excs # {} => l2.valid \/ e1.wb_valid
           /\ flush(p) <=> p /\ excs # {}
           /\ cmt_fire(p) = IF pipe_finish(p) /\ ~flush(p) THEN 1 ELSE 0
           /\ fsm_nxt(p, p) = IF pipe_finish(p) THEN "IDLE" ELSE "PENDING"
  <1>1. pipe_req
    BY DEF IInv, Control
  <1>2. nready > 0 /\ ~se.fls /\ rob # <<>> /\ nready \in Nat
    BY <1>1 DEF IInv, Typed, pipe_req, lsu_req, epu_req
  <1>3. ~s1i_valid /\ ~epu_req_valid /\ ~s1i_dcop
    BY DEF s1i_valid, epu_req_valid, s1i_dcop, lsu_req_valid
  <1>4. excs # {} => l2.valid \/ e1.wb_valid
    <2>1. ASSUME ~l2.valid, ~e1.wb_valid PROVE excs = {}
      <3>1. CASE e1 = NoEpu
        BY <3>1, <2>1 DEF excs, NoEpu
      <3>2. CASE e1 # NoEpu
        <4>1. opc(rob[1]) = "dcop" /\ e1.exc = exc(rob[1])
          BY <3>2, <2>1 DEF IInv, Control
        <4>2. exc(rob[1]) = "no"
          BY <4>1 DEF opc, exc
        <4> QED
          BY <4>1, <4>2, <2>1 DEF excs
      <3> QED
        BY <3>1, <3>2
    <2> QED
      BY <2>1
  <1>5. flush(p) <=> p /\ excs # {}
    BY <1>2 DEF flush, exc_flush
  <1>6. cmt_ready_2_fire = 1
    BY <1>1, <1>2 DEF cmt_ready_2_fire, pipe_req, single_fu
  <1>7. cmt_fire(p) = IF pipe_finish(p) /\ ~flush(p) THEN 1 ELSE 0
    BY <1>1, <1>6 DEF cmt_fire
  <1> QED
    BY <1>1, <1>2, <1>3, <1>4, <1>5, <1>7 DEF fsm_nxt

\* What the decoder adds to the instructions in flight.
LEMMA DecodedFacts ==
    ASSUME Typed, NEW x \in Decoded
    PROVE  /\ x \in RobEntry /\ x.pc = fetch_pc /\ Branches(x)
           /\ x.fe = "EIRQ" => psr'.ire
           /\ x.fe \in {"EITM", "EIPF"} => psr'.mme
  <1>1. fetch_pc \in PC /\ Predictions \subseteq {NotTaken} \cup PC /\ prog \in Programs
    BY Parameters DEF Typed, PC
  <1>2. prog[fetch_pc].op = "b" => prog[fetch_pc].arg \in PC
    BY <1>1, ProgramFacts
  <1>3. CASE x \in [pc : {fetch_pc}, pred : Predictions, act : {NotTaken},
                    fe : (IF psr'.ire THEN {"EIRQ"} ELSE {}) \cup (IF psr'.mme THEN {"EITM", "EIPF"} ELSE {})]
    BY <1>1, <1>3 DEF RobEntry, Fe, Branches
  <1>4. CASE x \in [pc : {fetch_pc}, pred : Predictions, fe : {"no"},
                    act : {NotTaken} \cup IF prog[fetch_pc].op = "b" THEN {prog[fetch_pc].arg} ELSE {}]
    BY <1>1, <1>2, <1>4 DEF RobEntry, Fe, Branches
  <1> QED
    BY <1>3, <1>4 DEF Decoded

\* What is left of the instructions in flight when n of them leave.
LEMMA RestFacts ==
    ASSUME NEW q \in Seq(RobEntry), NEW n \in Nat, n <= Len(q)
    PROVE  LET r == SubSeq(q, n + 1, Len(q))
           IN  /\ r \in Seq(RobEntry) /\ Len(r) = Len(q) - n
               /\ \A i \in 1 .. Len(q) - n : r[i] = q[i + n]
  <1> DEFINE r == SubSeq(q, n + 1, Len(q))
  <1>1. r \in Seq(RobEntry)
    OBVIOUS
  <1>2. Len(r) = Len(q) - n
    OBVIOUS
  <1>3. \A i \in 1 .. Len(q) - n : r[i] = q[i + n]
    OBVIOUS
  <1> QED
    BY <1>1, <1>2, <1>3

\* What the decoder's instruction makes of the instructions in flight.
LEMMA AddFacts ==
    ASSUME NEW q \in Seq(RobEntry), NEW x \in RobEntry
    PROVE  LET r == q \o <<x>>
           IN  /\ r \in Seq(RobEntry) /\ Len(r) = Len(q) + 1
               /\ \A i \in 1 .. Len(q) : r[i] = q[i]
               /\ r[Len(q) + 1] = x
  OBVIOUS

\* The edge at which n instructions leave the reorder buffer and at most one
\* enters: the path goes on, and its head is where instruction n leads.
LEMMA AdvanceFacts ==
    ASSUME Typed, Walk, NEW n \in 0 .. 2, n <= nready, Advance(n), prog' = prog
    PROVE  /\ rob' \in Seq(RobEntry) /\ nready' \in Nat /\ nready' <= Len(rob') /\ fetch_pc' \in PC
           /\ Walk'
           /\ n = 0 /\ rob # <<>> => rob' # <<>> /\ rob'[1] = rob[1] /\ nready' >= nready
           /\ (IF rob' # <<>> THEN rob'[1].pc ELSE fetch_pc')
                = IF n > 0 THEN follow(rob[n]) ELSE IF rob # <<>> THEN rob[1].pc ELSE fetch_pc
           /\ \A i \in 1 .. Len(rob') :
                 \/ \E j \in 1 .. Len(rob) : rob'[i] = rob[j]
                 \/ /\ rob'[i].fe = "EIRQ" => psr'.ire
                    /\ rob'[i].fe \in {"EITM", "EIPF"} => psr'.mme
  <1> DEFINE r == SubSeq(rob, n + 1, Len(rob))
  <1>1. /\ rob \in Seq(RobEntry) /\ Len(rob) \in Nat /\ n \in Nat /\ n <= Len(rob) /\ nready \in Nat
        /\ nready <= Len(rob) /\ fetch_pc \in PC
    BY DEF Typed
  <1>2. /\ r \in Seq(RobEntry) /\ Len(r) = Len(rob) - n
        /\ \A i \in 1 .. Len(rob) - n : r[i] = rob[i + n]
    BY <1>1, RestFacts
  <1> HIDE DEF r
  <1>3. PICK new \in {<<>>} \cup {<<x>> : x \in Decoded} :
            /\ rob' = r \o new
            /\ nready' \in nready - n .. Len(rob) - n
            /\ fetch_pc' = IF new = <<>> THEN fetch_pc
                           ELSE IF new[1].pred = NotTaken THEN npc(fetch_pc) ELSE new[1].pred
    BY Zenon DEF Advance, r
  <1>4. nready' \in Nat /\ nready' <= Len(rob) - n /\ nready' >= nready - n
    BY <1>1, <1>3
  <1>5. CASE new = <<>>
    <2>1. rob' = r /\ fetch_pc' = fetch_pc
      BY <1>2, <1>3, <1>5
    <2>2. Len(rob') = Len(rob) - n /\ \A i \in 1 .. Len(rob') : rob'[i] = rob[i + n] /\ i + n \in 1 .. Len(rob)
      BY <2>1, <1>1, <1>2
    <2>3. rob' # <<>> <=> Len(rob') > 0
      BY <2>1, <1>2
    <2>4. Walk'
      <3>1. ASSUME NEW i \in 1 .. Len(rob') - 1 PROVE rob'[i + 1].pc = follow(rob'[i])
        <4>1. i \in 1 .. Len(rob') /\ i + 1 \in 1 .. Len(rob') /\ i + n \in 1 .. Len(rob) - 1
              /\ (i + 1) + n = (i + n) + 1
          BY <1>1, <2>2
        <4>2. rob'[i] = rob[i + n] /\ rob'[i + 1] = rob[(i + 1) + n]
          BY <4>1, <2>2
        <4>3. rob[(i + n) + 1].pc = follow(rob[i + n])
          BY <4>1 DEF Walk
        <4> QED
          BY <4>1, <4>2, <4>3
      <3>2. ASSUME rob' # <<>> PROVE fetch_pc' = follow(rob'[Len(rob')])
        <4>1. rob'[Len(rob')] = rob[Len(rob)] /\ rob # <<>>
          BY <3>2, <2>2, <2>3, <1>1
        <4> QED
          BY <4>1, <2>1 DEF Walk
      <3>3. ASSUME NEW i \in 1 .. Len(rob') PROVE Branches(rob[i])'
        <4>1. Branches(rob[i + n])
          BY <2>2 DEF Walk
        <4> QED
          BY <4>1, <2>2 DEF Branches
      <3> QED
        BY <3>1, <3>2, <3>3 DEF Walk, follow
    <2>5. n = 0 /\ rob # <<>> => rob' # <<>> /\ rob'[1] = rob[1] /\ nready' >= nready
      BY <1>1, <1>4, <2>2, <2>3
    <2>6. (IF rob' # <<>> THEN rob'[1].pc ELSE fetch_pc')
             = IF n > 0 THEN follow(rob[n]) ELSE IF rob # <<>> THEN rob[1].pc ELSE fetch_pc
      <3>1. CASE n = 0
        BY <3>1, <1>1, <2>1, <2>2, <2>3, <2>5
      <3>2. CASE n > 0 /\ n < Len(rob)
        <4>1. rob'[1] = rob[n + 1] /\ rob' # <<>>
          BY <3>2, <1>1, <2>2, <2>3
        <4> QED
          BY <4>1, <3>2, <1>1 DEF Walk
      <3>3. CASE n > 0 /\ n = Len(rob)
        BY <3>3, <1>1, <2>1, <2>2, <2>3 DEF Walk
      <3> QED
        BY <3>1, <3>2, <3>3, <1>1
    <2> QED
      BY <1>1, <1>2, <1>4, <2>1, <2>2, <2>4, <2>5, <2>6, Zenon
  <1>6. CASE \E x \in Decoded : new = <<x>>
    <2>1. PICK x \in Decoded : new = <<x>>
      BY <1>6
    <2>2. /\ x \in RobEntry /\ x.pc = fetch_pc /\ Branches(x)
          /\ x.fe = "EIRQ" => psr'.ire
          /\ x.fe \in {"EITM", "EIPF"} => psr'.mme
      BY DecodedFacts
    <2>3. /\ rob' \in Seq(RobEntry) /\ Len(rob') = Len(r) + 1
          /\ \A i \in 1 .. Len(r) : rob'[i] = r[i]
          /\ rob'[Len(r) + 1] = x
      BY <1>2, <1>3, <2>1, <2>2, AddFacts, Zenon
    <2>4. fetch_pc' = follow(x)
      BY <1>3, <2>1, <2>2 DEF follow
    <2>5. fetch_pc' \in PC
      BY <2>2, <2>4, FollowPc
    <2>6. /\ Len(rob') = Len(rob) - n + 1
          /\ \A i \in 1 .. Len(rob) - n : rob'[i] = rob[i + n] /\ i + n \in 1 .. Len(rob)
          /\ rob'[Len(rob) - n + 1] = x
      BY <2>3, <1>1, <1>2
    <2>7. rob' # <<>>
      BY <2>3, <1>1, <1>2
    <2>8. Walk'
      <3>1. ASSUME NEW i \in 1 .. Len(rob') - 1 PROVE rob'[i + 1].pc = follow(rob'[i])
        <4>1. i \in 1 .. Len(rob) - n
          BY <1>1, <2>6
        <4>2. rob'[i] = rob[i + n] /\ i + n \in 1 .. Len(rob)
          BY <4>1, <2>6
        <4>3. CASE i < Len(rob) - n
          <5>1. i + 1 \in 1 .. Len(rob) - n /\ i + n \in 1 .. Len(rob) - 1 /\ (i + 1) + n = (i + n) + 1
            BY <4>1, <4>3, <1>1
          <5>2. rob'[i + 1] = rob[(i + n) + 1]
            BY <5>1, <2>6
          <5> QED
            BY <5>1, <5>2, <4>2, Zenon DEF Walk
        <4>4. CASE i = Len(rob) - n
          <5>1. rob'[i + 1] = x /\ i + n = Len(rob) /\ rob # <<>>
            BY <4>1, <4>4, <1>1, <2>6
          <5> QED
            BY <5>1, <4>2, <2>2 DEF Walk
        <4> QED
          BY <4>1, <4>3, <4>4, <1>1
      <3>2. fetch_pc' = follow(rob'[Len(rob')])
        BY <2>4, <2>6
      <3>3. ASSUME NEW i \in 1 .. Len(rob') PROVE Branches(rob[i])'
        <4>1. CASE i \in 1 .. Len(rob) - n
          <5>1. Branches(rob[i + n])
            BY <4>1, <2>6 DEF Walk
          <5> QED
            BY <4>1, <5>1, <2>6 DEF Branches
        <4>2. CASE i = Len(rob) - n + 1
          BY <4>2, <2>2, <2>6 DEF Branches
        <4> QED
          BY <4>1, <4>2, <1>1, <2>6
      <3> QED
        BY <3>1, <3>2, <3>3 DEF Walk, follow
    <2>9. n = 0 /\ rob # <<>> => rob'[1] = rob[1] /\ nready' >= nready
      BY <1>1, <1>4, <2>6
    <2>10. rob'[1].pc = IF n > 0 THEN follow(rob[n]) ELSE IF rob # <<>> THEN rob[1].pc ELSE fetch_pc
      <3>1. CASE n < Len(rob) /\ n > 0
        <4>1. rob'[1] = rob[n + 1]
          BY <3>1, <1>1, <2>6
        <4> QED
          BY <4>1, <3>1, <1>1 DEF Walk
      <3>2. CASE n = Len(rob) /\ n > 0
        <4>1. rob'[1] = x
          BY <3>2, <1>1, <2>6
        <4> QED
          BY <4>1, <3>2, <1>1, <2>2 DEF Walk
      <3>3. CASE n = 0 /\ rob # <<>>
        BY <3>3, <2>9
      <3>4. CASE n = 0 /\ rob = <<>>
        BY <3>4, <2>2, <2>6
      <3> QED
        BY <3>1, <3>2, <3>3, <3>4, <1>1
    <2>11. ASSUME NEW i \in 1 .. Len(rob')
           PROVE  \/ \E j \in 1 .. Len(rob) : rob'[i] = rob[j]
                  \/ /\ rob'[i].fe = "EIRQ" => psr'.ire
                     /\ rob'[i].fe \in {"EITM", "EIPF"} => psr'.mme
      <3>1. CASE i \in 1 .. Len(rob) - n
        BY <3>1, <2>6
      <3>2. CASE i = Len(rob) - n + 1
        BY <3>2, <2>2, <2>6
      <3> QED
        BY <3>1, <3>2, <1>1, <2>6
    <2> QED
      BY <1>1, <1>4, <2>3, <2>5, <2>6, <2>7, <2>8, <2>9, <2>10, <2>11
  <1> QED
    BY <1>3, <1>5, <1>6

-----------------------------------------------------------------------------
\* The registers after an edge, with p for p_ce and w for p_ce_s1.
Registers(p, w, fault) ==
    /\ fsm' = fsm_nxt(p, w)
    /\ se' = se_nxt(p)
    /\ l1' = IF w THEN [valid |-> s1i_valid,
                        exc |-> IF w /\ s1i_valid /\ ~s1i_dcop THEN fault \cap {"EALIGN"} ELSE {}]
             ELSE l1
    /\ tlb' = IF w /\ s1i_valid /\ ~s1i_dcop THEN fault \ {"EALIGN"} ELSE tlb
    /\ l2' = IF p THEN [valid |-> l1.valid, exc |-> l1.exc \cup tlb] ELSE l2
    /\ e1' = IF ~w THEN e1
             ELSE IF epu_req_valid THEN [wb_valid |-> ~s1i_dcop, exc |-> exc(rob[1]), op |-> opc(rob[1])]
             ELSE NoEpu
    /\ e1_pc' = IF w /\ rob # <<>> THEN rob[1].pc ELSE e1_pc
    /\ psr' = psr_nxt(p) /\ epsr' = epsr_nxt(p) /\ epc' = epc_nxt(p)
    /\ sent' = IF flush(p) \/ cmt_fire(p) > 0 THEN 0 ELSE IF w /\ s1i_valid THEN sent + 1 ELSE sent
    /\ prog' = prog
    /\ flush(p) => rob' = <<>> /\ nready' = 0 /\ fetch_pc' = flush_tgt
    /\ ~flush(p) => Advance(cmt_fire(p))

\* An edge from IDLE, where nothing stalls stage 2.
LEMMA IdleEdge ==
    ASSUME IInv, fsm = "IDLE", Next
    PROVE  \E w \in BOOLEAN, fault \in Faults :
              /\ Registers(TRUE, w, fault)
              /\ ~w => epu_req_valid /\ opc(rob[1]) = "icinv"
  <1>1. PICK stall \in Stalls, icinv_ready \in IcinvReady, fault \in Faults : Clock(stall, icinv_ready, fault)
    BY DEF Next
  <1>2. stall = FALSE
    BY Zenon DEF IInv, Control, Stalls
  <1>3. Clock(FALSE, icinv_ready, fault)
    BY <1>1, <1>2, Zenon
  <1> DEFINE w == ~(epu_req_valid /\ opc(rob[1]) = "icinv" /\ ~icinv_ready)
  <1>4. Registers(TRUE, w, fault)
    BY <1>3, Zenon DEF Clock, Registers
  <1> QED
    BY <1>4, Zenon

\* An edge with an instruction pending: nothing enters stage 1.
LEMMA PendingEdge ==
    ASSUME IInv, fsm = "PENDING", Next
    PROVE  \E p \in BOOLEAN, fault \in Faults :
              /\ Registers(p, p, fault)
              /\ ~p => l2.valid
  <1>1. PICK stall \in Stalls, icinv_ready \in IcinvReady, fault \in Faults : Clock(stall, icinv_ready, fault)
    BY DEF Next
  <1>2. stall \in BOOLEAN /\ (stall => l2.valid)
    BY Zenon DEF Stalls
  <1>3. ~epu_req_valid
    BY PendingFacts, Zenon
  <1>4. CASE stall = FALSE
    <2>1. Clock(FALSE, icinv_ready, fault)
      BY <1>1, <1>4, Zenon
    <2>2. Registers(TRUE, TRUE, fault)
      BY <2>1, <1>3, Zenon DEF Clock, Registers
    <2> QED
      BY <2>2, Zenon
  <1>5. CASE stall = TRUE
    <2>1. Clock(TRUE, icinv_ready, fault)
      BY <1>1, <1>5, Zenon
    <2>2. Registers(FALSE, FALSE, fault)
      BY <2>1, <1>3, Zenon DEF Clock, Registers
    <2> QED
      BY <2>2, <1>2, <1>5, Zenon
  <1> QED
    BY <1>2, <1>4, <1>5, Zenon

\* The exception of the pending instruction: one of its access, or its own.
LEMMA ExcFacts ==
    ASSUME IInv, fsm = "PENDING", excs # {}
    PROVE  \E c \in ISA!Causes \cup {"ERET"} :
              /\ excs = {c}
              /\ exc_flush_tgt = IF c = "ERET" THEN epc ELSE Vector[c]
              /\ \/ l2.valid /\ c \in LsuExc /\ c \in l2.exc /\ e1 = NoEpu
                 \/ ~l2.valid /\ e1 # NoEpu /\ e1.exc = c /\ exc(rob[1]) = c
  <1>1. \A c : excs = {c} => exc_flush_tgt = IF c = "ERET" THEN epc ELSE Vector[c]
    <2> SUFFICES ASSUME NEW c, excs = {c}
                 PROVE  exc_flush_tgt = IF c = "ERET" THEN epc ELSE Vector[c]
      OBVIOUS
    <2>1. ~\E x, y \in excs : x # y
      OBVIOUS
    <2>2. (CHOOSE x \in excs : TRUE) = c
      OBVIOUS
    <2>3. excs = {"ERET"} <=> c = "ERET"
      BY Zenon
    <2> QED
      BY <2>1, <2>2, <2>3 DEF exc_flush_tgt
  <1>2. CASE l2.valid
    <2>1. e1 = NoEpu /\ AtMostOne(l2.exc) /\ l2.exc \subseteq LsuExc
      BY <1>2, Zenon DEF IInv, Control, Faulting, Typed, Stage1, Lsu
    <2>2. excs = l2.exc
      BY <1>2, <2>1 DEF excs, NoEpu
    <2>3. PICK c \in l2.exc : TRUE
      BY <2>2
    <2>4. excs = {c}
      BY <2>1, <2>2, <2>3 DEF AtMostOne
    <2>5. c \in LsuExc /\ c \in ISA!Causes
      BY <2>1, <2>3 DEF LsuExc, ISA!Causes
    <2> QED
      BY <1>1, <1>2, <2>1, <2>3, <2>4, <2>5
  <1>3. CASE ~l2.valid
    <2>1. excs = {e1.exc} \ {"no"}
      BY <1>3 DEF excs
    <2>2. e1.exc # "no" /\ excs = {e1.exc}
      BY <2>1
    <2>3. e1 # NoEpu
      BY <2>2 DEF NoEpu
    <2>4. e1.exc = exc(rob[1])
      BY <2>3 DEF IInv, Control
    <2>5. rob[1] \in RobEntry
      BY PendingFacts DEF IInv, Typed
    <2>6. exc(rob[1]) \in ISA!Causes \cup {"ERET", "no"}
      BY <2>5, Zenon DEF exc, RobEntry, Fe, ISA!Causes
    <2> QED
      BY <1>1, <1>3, <2>2, <2>3, <2>4, <2>6
  <1> QED
    BY <1>2, <1>3

\* While an instruction is pending, the state registers change only when it
\* finishes, to what it writes or to what its exception makes of them.
LEMMA PendingPsr ==
    ASSUME IInv, fsm = "PENDING", NEW p \in BOOLEAN
    PROVE  /\ ~pipe_finish(p) => psr_nxt(p) = psr /\ epsr_nxt(p) = epsr /\ epc_nxt(p) = epc
           /\ psr_nxt(p) \in ISA!Psr /\ epsr_nxt(p) \in ISA!Psr /\ epc_nxt(p) \in PC
           /\ p /\ excs = {} => /\ psr_nxt(p) = IF e1.op = "psr" THEN prog[rob[1].pc].arg ELSE psr
                                /\ epsr_nxt(p) = IF e1.op = "epsr" THEN prog[rob[1].pc].arg ELSE epsr
                                /\ epc_nxt(p) = IF e1.op = "epc" THEN prog[rob[1].pc].arg ELSE epc
  <1>1. rob[1].pc \in PC /\ psr \in ISA!Psr /\ epsr \in ISA!Psr /\ epc \in PC /\ prog \in Programs
    <2>1. rob[1] \in RobEntry
      BY PendingFacts DEF IInv, Typed
    <2> QED
      BY <2>1 DEF IInv, Typed, RobEntry
  <1>2. e1 # NoEpu => e1.op = opc(rob[1]) /\ e1_pc = rob[1].pc /\ (~e1.wb_valid => opc(rob[1]) = "dcop")
    BY DEF IInv, Control
  <1>3. e1 = NoEpu => e1.op = "no" /\ e1.exc = "no" /\ e1.wb_valid = FALSE
    BY DEF NoEpu
  <1>4. e1.op \in {"psr", "epsr", "epc"} => /\ e1.wb_valid /\ e1_pc = rob[1].pc
                                            /\ prog[rob[1].pc].op = e1.op
    BY <1>2, <1>3 DEF opc
  <1>5. e1.op \in {"psr", "epsr"} => prog[e1_pc].arg \in ISA!Psr
    BY <1>1, <1>4, ProgramFacts
  <1>6. e1.op = "epc" => prog[e1_pc].arg \in PC
    BY <1>1, <1>4, ProgramFacts
  <1>7. excs = {} => e1.exc = "no"
    BY DEF excs
  <1>8. ASSUME p, excs = {}
        PROVE  /\ psr_nxt(p) = IF e1.op = "psr" THEN prog[rob[1].pc].arg ELSE psr
               /\ epsr_nxt(p) = IF e1.op = "epsr" THEN prog[rob[1].pc].arg ELSE epsr
               /\ epc_nxt(p) = IF e1.op = "epc" THEN prog[rob[1].pc].arg ELSE epc
    BY <1>4, <1>7, <1>8 DEF psr_nxt, epsr_nxt, epc_nxt
  <1>9. ASSUME ~p PROVE psr_nxt(p) = psr /\ epsr_nxt(p) = epsr /\ epc_nxt(p) = epc
    BY <1>9 DEF psr_nxt, epsr_nxt, epc_nxt
  <1>10. ASSUME ~pipe_finish(p) PROVE psr_nxt(p) = psr /\ epsr_nxt(p) = epsr /\ epc_nxt(p) = epc
    <2>1. CASE p
      <3>1. ~l2.valid /\ ~e1.wb_valid
        BY <2>1, <1>10 DEF pipe_finish
      <3>2. excs = {}
        BY <3>1, PendingFacts
      <3> QED
        BY <2>1, <3>1, <3>2, <1>4, <1>8, Zenon
    <2> QED
      BY <2>1, <1>9
  <1>11. psr_nxt(p) \in ISA!Psr
    <2>1. [psr EXCEPT !.ire = FALSE, !.mme = FALSE] \in ISA!Psr
          /\ [psr EXCEPT !.ire = epsr.ire, !.mme = epsr.mme] \in ISA!Psr
      BY <1>1, Zenon DEF ISA!Psr
    <2> QED
      BY <2>1, <1>1, <1>5 DEF psr_nxt
  <1>12. epsr_nxt(p) \in ISA!Psr
    BY <1>1, <1>5 DEF epsr_nxt
  <1>13. epc_nxt(p) \in PC
    <2>1. e1_pc = rob[1].pc \/ ~(excs \ {"ERET"} # {})
      <3>1. CASE l2.valid
        BY <3>1 DEF IInv, Control
      <3>2. CASE ~l2.valid /\ e1 = NoEpu
        BY <3>2, <1>3 DEF excs
      <3>3. CASE e1 # NoEpu
        BY <3>3, <1>2
      <3> QED
        BY <3>1, <3>2, <3>3
    <2>2. npc(rob[1].pc) \in PC
      BY <1>1, NextPc
    <2> QED
      BY <2>1, <2>2, <1>1, <1>6 DEF epc_nxt
  <1> QED
    BY <1>8, <1>10, <1>11, <1>12, <1>13, Zenon

\* An edge at which nothing leaves.
LEMMA ZeroFacts == \A k : k = 0 => k \in Nat /\ ~(k > 0)
  OBVIOUS

\* The register of pending redirections (cmt.v, s1o_se_*).
LEMMA RedirectFacts ==
    ASSUME Typed, NEW p \in BOOLEAN, cmt_fire(p) \in Nat, cmt_fire(p) > 0 => rob # <<>>
    PROVE  /\ se_nxt(p) \in [fls : BOOLEAN, tgt : PC]
           /\ cmt_fire(p) = 0 => ~se_nxt(p).fls
  <1>1. 0 \in PC
    BY Parameters DEF PC
  <1>2. CASE cmt_fire(p) > 0
    <2>1. rob[1] \in RobEntry
      BY <1>2 DEF Typed
    <2>2. rob[1].pc \in PC /\ rob[1].act \in {NotTaken} \cup PC
      BY <2>1 DEF RobEntry
    <2>3. fls_tgt(rob[1]) \in PC /\ npc(rob[1].pc) \in PC
      BY <2>2, NextPc DEF fls_tgt
    <2> QED
      BY <1>1, <1>2, <2>3 DEF se_nxt
  <1>3. CASE ~(cmt_fire(p) > 0)
    BY <1>1, <1>3 DEF se_nxt
  <1>4. cmt_fire(p) = 0 => ~(cmt_fire(p) > 0)
    OBVIOUS
  <1> QED
    BY <1>2, <1>3, <1>4

\* Instructions fetched under the present PSR stay so while it is not written.
LEMMA StaysAllowed ==
    ASSUME Allowed, ~se.fls, psr' = psr,
           \A i \in 1 .. Len(rob') :
                 \/ \E j \in 1 .. Len(rob) : rob'[i] = rob[j]
                 \/ /\ rob'[i].fe = "EIRQ" => psr'.ire
                    /\ rob'[i].fe \in {"EITM", "EIPF"} => psr'.mme
    PROVE  Allowed'
  BY DEF Allowed, Current

\* Nothing in flight.
LEMMA EmptyRob ==
    ASSUME rob' = <<>>, nready' = 0
    PROVE  /\ rob' \in Seq(RobEntry) /\ nready' \in Nat /\ nready' <= Len(rob')
           /\ Walk' /\ Allowed'
  BY DEF Walk, Allowed

\* No instruction in the stages of the LSU and the EPU.
LEMMA EmptyStages ==
    ASSUME fsm' = "IDLE", ~l1'.valid, ~l2'.valid, e1' = NoEpu, sent' = 0, AtMostOne(tlb')
    PROVE  Control' /\ Faulting' /\ AccessOnce'
  BY DEF Control, Faulting, AccessOnce, NoEpu

\* Outside of a redirection, IDLE keeps the invariant while nothing is requested.
LEMMA IdleKeeps ==
    ASSUME SingleFaults, IInv, fsm = "IDLE", NEW w \in BOOLEAN, NEW fault \in Faults,
           Registers(TRUE, w, fault), ~w => epu_req_valid /\ opc(rob[1]) = "icinv",
           ~pipe_req
    PROVE  IInv'
  <1>1. w /\ ~s1i_valid /\ ~epu_req_valid
    BY DEF pipe_req, epu_req_valid, s1i_valid, lsu_req_valid
  <1>2. fsm' = "IDLE" /\ psr' = psr /\ epsr' = epsr /\ epc' = epc /\ prog' = prog
    BY IdleFacts, Zenon DEF Registers
  <1>3. /\ l1' = [valid |-> s1i_valid, exc |-> {}] /\ tlb' = tlb /\ e1' = NoEpu
        /\ l2' = [valid |-> l1.valid, exc |-> l1.exc \cup tlb]
        /\ ~l1.valid
    BY <1>1, Zenon DEF Registers, IInv, Control
  <1>4. l1' \in Stage1 /\ l2' \in Lsu /\ tlb' \in SUBSET {"EDTM", "EDPF"} /\ e1'.wb_valid \in BOOLEAN
    <2>1. l1.exc \cup tlb \in SUBSET LsuExc /\ l1.valid \in BOOLEAN
      BY Zenon DEF IInv, Typed, Stage1, Lsu, LsuExc
    <2>2. s1i_valid \in BOOLEAN
      BY DEF s1i_valid
    <2>3. e1'.wb_valid \in BOOLEAN
      BY <1>3 DEF NoEpu
    <2> QED
      BY <1>3, <2>1, <2>2, <2>3 DEF IInv, Typed, Stage1, Lsu
  <1>5. sent' = 0
    BY <1>1, Zenon DEF Registers, IInv, AccessOnce, Control
  <1>6. Control' /\ Faulting' /\ AccessOnce'
    <2>1. AtMostOne(tlb')
      BY <1>3, Zenon DEF IInv, Faulting
    <2>2. ~l1'.valid /\ ~l2'.valid
      BY <1>1, <1>3
    <2> QED
      BY <1>2, <1>3, <1>5, <2>1, <2>2, EmptyStages, ZenonT(40)
  <1>7. CASE se.fls
    <2>1. cmt_fire(TRUE) = 0 /\ flush(TRUE)
      BY <1>7, IdleFacts, Zenon
    <2>2. rob' = <<>> /\ nready' = 0 /\ fetch_pc' \in PC
      BY <1>7, <2>1 DEF Registers, flush_tgt, IInv, Typed
    <2>3. se' \in [fls : BOOLEAN, tgt : PC]
      <3>1. Typed
        BY DEF IInv
      <3>2. cmt_fire(TRUE) \in Nat /\ ~(cmt_fire(TRUE) > 0)
        BY <2>1, ZeroFacts, Zenon
      <3>3. se_nxt(TRUE) \in [fls : BOOLEAN, tgt : PC]
        BY <3>1, <3>2, RedirectFacts, Zenon
      <3> QED
        BY <3>3, Zenon DEF Registers
    <2> QED
      BY <1>2, <1>4, <1>6, <2>2, <2>3, EmptyRob DEF IInv, Typed
  <1>8. CASE ~se.fls
    <2> DEFINE n == cmt_ready_2_fire
    <2>1. cmt_fire(TRUE) = n /\ ~flush(TRUE) /\ Advance(n)
      BY <1>8, IdleFacts, Zenon DEF Registers
    <2>2. n \in 0 .. 2 /\ n <= nready /\ n \in Nat
      BY DEF cmt_ready_2_fire, IInv, Typed
    <2>3. Typed /\ Walk /\ Allowed
      BY Zenon DEF IInv
    <2>4. /\ rob' \in Seq(RobEntry) /\ nready' \in Nat /\ nready' <= Len(rob') /\ fetch_pc' \in PC
          /\ Walk'
          /\ \A i \in 1 .. Len(rob') :
                 \/ \E j \in 1 .. Len(rob) : rob'[i] = rob[j]
                 \/ /\ rob'[i].fe = "EIRQ" => psr'.ire
                    /\ rob'[i].fe \in {"EITM", "EIPF"} => psr'.mme
      <3> HIDE DEF n
      <3> QED
        BY <1>2, <2>1, <2>2, <2>3, AdvanceFacts, Zenon
    <2>5. Allowed'
      BY <1>2, <1>8, <2>3, <2>4, StaysAllowed, Zenon
    <2>6. n > 0 => rob # <<>>
      BY <2>2, <2>3 DEF Typed
    <2>7. se' \in [fls : BOOLEAN, tgt : PC]
      BY <2>1, <2>2, <2>3, <2>6, RedirectFacts, Zenon DEF Registers
    <2> QED
      BY <1>2, <1>4, <1>6, <2>3, <2>4, <2>5, <2>7 DEF IInv, Typed
  <1> QED
    BY <1>7, <1>8

\* IDLE with a request at the head: it enters stage 1, or the I$ keeps it out.
LEMMA RequestKeeps ==
    ASSUME SingleFaults, IInv, fsm = "IDLE", NEW w \in BOOLEAN, NEW fault \in Faults,
           Registers(TRUE, w, fault), ~w => epu_req_valid /\ opc(rob[1]) = "icinv",
           pipe_req
    PROVE  IInv'
  <1>1. ~se.fls /\ rob # <<>> /\ nready > 0 /\ nready \in Nat
    BY DEF pipe_req, lsu_req, epu_req, IInv, Typed
  <1>2. psr' = psr /\ epsr' = epsr /\ epc' = epc /\ prog' = prog
        /\ fsm' = (IF w THEN "PENDING" ELSE "IDLE")
    BY IdleFacts, Zenon DEF Registers
  <1>3. cmt_fire(TRUE) = 0 /\ ~flush(TRUE)
    BY <1>1, IdleFacts, Zenon
  <1>4. Typed /\ Walk /\ Allowed
    BY DEF IInv
  <1>5. ~l1.valid /\ ~l2.valid /\ e1 = NoEpu /\ sent = 0
    BY DEF IInv, Control, AccessOnce
  <1>6. Advance(0)
    BY <1>3, Zenon DEF Registers
  <1>7. /\ rob' \in Seq(RobEntry) /\ nready' \in Nat /\ nready' <= Len(rob') /\ fetch_pc' \in PC
        /\ Walk'
        /\ rob' # <<>> /\ rob'[1] = rob[1] /\ nready' >= nready
        /\ \A i \in 1 .. Len(rob') :
               \/ \E j \in 1 .. Len(rob) : rob'[i] = rob[j]
               \/ /\ rob'[i].fe = "EIRQ" => psr'.ire
                  /\ rob'[i].fe \in {"EITM", "EIPF"} => psr'.mme
    <2>1. 0 \in 0 .. 2 /\ 0 <= nready
      BY <1>1, CommitCounts, Zenon
    <2> QED
      BY <1>1, <1>2, <1>4, <1>6, <2>1, AdvanceFacts
  <1>8. Allowed'
    BY <1>1, <1>2, <1>4, <1>7, StaysAllowed, Zenon
  <1>9. se' \in [fls : BOOLEAN, tgt : PC] /\ ~se'.fls
    <2>1. cmt_fire(TRUE) \in Nat /\ ~(cmt_fire(TRUE) > 0)
      BY <1>3, ZeroFacts, Zenon
    <2>2. se_nxt(TRUE) \in [fls : BOOLEAN, tgt : PC] /\ ~se_nxt(TRUE).fls
      BY <1>3, <1>4, <2>1, RedirectFacts, Zenon
    <2> QED
      BY <2>2, Zenon DEF Registers
  <1>10. opc(rob[1])' = opc(rob[1]) /\ exc(rob[1])' = exc(rob[1])
    BY <1>2, <1>7 DEF opc, exc
  <1>11. pipe_req'
    <2>1. nready' > 0
      BY <1>1, <1>7
    <2> QED
      BY <1>1, <1>9, <1>10, <2>1 DEF pipe_req, lsu_req, epu_req
  <1>12. s1i_valid \in BOOLEAN /\ s1i_dcop \in BOOLEAN
    BY DEF s1i_valid, s1i_dcop
  <1>13. s1i_valid => opc(rob[1]) \in {"ls", "dcop"}
    BY DEF s1i_valid, s1i_dcop
  <1>14. s1i_valid /\ ~s1i_dcop => opc(rob[1]) = "ls" /\ ~epu_req_valid
    <2>1. opc(rob[1]) = "ls" => exc(rob[1]) = "no"
      BY DEF opc, exc
    <2> QED
      BY <2>1 DEF s1i_valid, epu_req_valid, epu_req
  <1>15. s1i_dcop <=> epu_req_valid /\ opc(rob[1]) = "dcop"
    BY DEF s1i_dcop
  <1>16. s1i_valid /\ ~s1i_dcop => /\ fault \in SUBSET LsuExc /\ AtMostOne(fault)
                                   /\ fault \ {"EALIGN"} # {} => psr.mme
    BY Parameters, Zenon DEF Faults, SingleFaults, AtMostOne, LsuExc
  <1>17. CASE ~w
    <2>1. l1' = l1 /\ tlb' = tlb /\ e1' = NoEpu /\ l2' = [valid |-> l1.valid, exc |-> l1.exc \cup tlb]
      BY <1>5, <1>17 DEF Registers
    <2>2. l1' \in Stage1 /\ l2' \in Lsu /\ tlb' \in SUBSET {"EDTM", "EDPF"} /\ e1'.wb_valid \in BOOLEAN
      <3>1. l1.exc \cup tlb \in SUBSET LsuExc /\ l1.valid \in BOOLEAN
        BY <1>4, Zenon DEF Typed, Stage1, Lsu, LsuExc
      <3> QED
        BY <1>4, <2>1, <3>1 DEF Typed, Stage1, Lsu, NoEpu
    <2>3. sent' = 0
      <3>1. ~(cmt_fire(TRUE) > 0)
        BY <1>3, ZeroFacts, Zenon
      <3> QED
        BY <1>3, <1>5, <1>17, <3>1 DEF Registers
    <2>4. ~l1'.valid /\ ~l2'.valid /\ AtMostOne(tlb')
      BY <1>5, <2>1, Zenon DEF IInv, Faulting
    <2>5. Control' /\ Faulting' /\ AccessOnce'
      BY <1>2, <1>17, <2>1, <2>3, <2>4, EmptyStages, Zenon
    <2> QED
      BY <1>2, <1>4, <1>7, <1>8, <1>9, <1>17, <2>2, <2>5, Zenon DEF IInv, Typed
  <1>18. CASE w
    <2>1. l1' = [valid |-> s1i_valid, exc |-> IF s1i_valid /\ ~s1i_dcop THEN fault \cap {"EALIGN"} ELSE {}]
      BY <1>18 DEF Registers
    <2>2. tlb' = IF s1i_valid /\ ~s1i_dcop THEN fault \ {"EALIGN"} ELSE tlb
      BY <1>18 DEF Registers
    <2>3. l2' = [valid |-> l1.valid, exc |-> l1.exc \cup tlb]
      BY Zenon DEF Registers
    <2>4. e1' = IF epu_req_valid THEN [wb_valid |-> ~s1i_dcop, exc |-> exc(rob[1]), op |-> opc(rob[1])] ELSE NoEpu
      BY <1>18 DEF Registers
    <2>5. e1_pc' = rob[1].pc
      BY <1>1, <1>18 DEF Registers
    <2>6. sent' = IF s1i_valid THEN 1 ELSE 0
      <3>1. ~(cmt_fire(TRUE) > 0)
        BY <1>3, ZeroFacts, Zenon
      <3>2. sent' = IF s1i_valid THEN sent + 1 ELSE sent
        BY <1>3, <1>18, <3>1, Zenon DEF Registers
      <3> QED
        BY <1>5, <3>2
    <2>7. l1'.valid = s1i_valid /\ ~l2'.valid
      BY <1>5, <2>1, <2>3
    <2>8. l1' \in Stage1
      BY <1>12, <1>16, <2>1 DEF Stage1, Lsu, LsuExc
    <2>9. l2' \in Lsu
      <3>1. l1.exc \cup tlb \in SUBSET LsuExc /\ l1.valid \in BOOLEAN
        BY <1>4, Zenon DEF Typed, Stage1, Lsu, LsuExc
      <3> QED
        BY <2>3, <3>1 DEF Stage1, Lsu
    <2>10. tlb' \in SUBSET {"EDTM", "EDPF"}
      <3>1. CASE s1i_valid /\ ~s1i_dcop
        BY <3>1, <1>16, <2>2 DEF LsuExc
      <3>2. CASE ~(s1i_valid /\ ~s1i_dcop)
        BY <3>2, <1>4, <2>2 DEF Typed
      <3> QED
        BY <3>1, <3>2
    <2>11. e1'.wb_valid \in BOOLEAN
      BY <2>4, <1>12, Zenon DEF NoEpu
    <2>12. Control'
      <3>1. fsm' = "PENDING"
        BY <1>2, <1>18
      <3>2. e1' # NoEpu => epu_req_valid /\ e1'.op = opc(rob[1]) /\ e1'.exc = exc(rob[1])
                           /\ (e1'.wb_valid <=> ~s1i_dcop)
        BY <2>4, Zenon
      <3>3. e1'.wb_valid => epu_req_valid /\ ~s1i_dcop
        BY <2>4, Zenon DEF NoEpu
      <3>4. e1'.wb_valid => ~l1'.valid
        BY <1>14, <2>7, <3>3
      <3>5. /\ e1' # NoEpu => /\ e1'.op = opc(rob[1]) /\ e1'.exc = exc(rob[1]) /\ e1_pc' = rob[1].pc
                              /\ e1'.wb_valid <=> opc(rob[1]) # "dcop"
        BY <1>15, <2>5, <3>2
      <3> QED
        BY <1>7, <1>10, <1>11, <1>13, <2>5, <2>7, <3>1, <3>4, <3>5 DEF Control
    <2>13. Faulting'
      <3>1. CASE s1i_valid /\ ~s1i_dcop
        <4>1. l1'.exc = fault \cap {"EALIGN"} /\ tlb' = fault \ {"EALIGN"}
          BY <3>1, <2>1, <2>2, Zenon
        <4>2. AtMostOne(tlb') /\ AtMostOne(l1'.exc \cup tlb')
          BY <3>1, <4>1, <1>16 DEF AtMostOne
        <4>3. tlb' # {} => psr'.mme
          BY <3>1, <4>1, <1>2, <1>16
        <4> QED
          BY <4>2, <4>3, <2>7, Zenon DEF Faulting
      <3>2. CASE ~(s1i_valid /\ ~s1i_dcop)
        <4>1. l1'.exc = {} /\ tlb' = tlb /\ AtMostOne(tlb)
          BY <3>2, <2>1, <2>2 DEF IInv, Faulting
        <4>2. AtMostOne(tlb') /\ AtMostOne(l1'.exc \cup tlb')
          BY <4>1 DEF AtMostOne
        <4>3. l1'.valid => opc(rob[1])' # "ls"
          BY <3>2, <1>10, <1>15, <2>7
        <4> QED
          BY <4>2, <4>3, <2>7, Zenon DEF Faulting
      <3> QED
        BY <3>1, <3>2, Zenon
    <2>14. AccessOnce'
      BY <2>6, <2>7 DEF AccessOnce
    <2> QED
      BY <1>2, <1>4, <1>7, <1>8, <1>9, <1>18, <2>8, <2>9, <2>10, <2>11, <2>12, <2>13, <2>14, Zenon DEF IInv, Typed
  <1> QED
    BY <1>17, <1>18

\* A pending instruction that does not finish: the D$ stalls, or it moves on to
\* stage 2, or nobody has taken it up.
LEMMA WaitKeeps ==
    ASSUME IInv, fsm = "PENDING", NEW p \in BOOLEAN, NEW fault \in Faults,
           Registers(p, p, fault), ~p => l2.valid, ~pipe_finish(p)
    PROVE  IInv'
  <1>1. /\ pipe_req /\ nready > 0 /\ nready \in Nat /\ ~se.fls /\ rob # <<>>
        /\ ~s1i_valid /\ ~epu_req_valid /\ ~s1i_dcop
    BY PendingFacts DEF IInv, Typed
  <1>2. Typed /\ Walk /\ Allowed /\ Control /\ Faulting /\ AccessOnce
    BY Zenon DEF IInv
  <1>3. psr' = psr /\ epsr' = epsr /\ epc' = epc /\ prog' = prog
    BY PendingPsr DEF Registers
  <1>4. ~flush(p)
    BY PendingFacts DEF pipe_finish
  <1>5. fsm' = "PENDING" /\ cmt_fire(p) = 0
    BY PendingFacts DEF Registers
  <1>6. cmt_fire(p) \in Nat /\ ~(cmt_fire(p) > 0)
    BY <1>5, ZeroFacts, Zenon
  <1>7. Advance(0) /\ sent' = sent
    BY <1>1, <1>4, <1>5, <1>6, Zenon DEF Registers
  <1>8. /\ rob' \in Seq(RobEntry) /\ nready' \in Nat /\ nready' <= Len(rob') /\ fetch_pc' \in PC
        /\ Walk'
        /\ rob' # <<>> /\ rob'[1] = rob[1] /\ nready' >= nready
        /\ \A i \in 1 .. Len(rob') :
               \/ \E j \in 1 .. Len(rob) : rob'[i] = rob[j]
               \/ /\ rob'[i].fe = "EIRQ" => psr'.ire
                  /\ rob'[i].fe \in {"EITM", "EIPF"} => psr'.mme
    <2>1. 0 \in 0 .. 2 /\ 0 <= nready
      BY <1>1
    <2> QED
      BY <1>1, <1>2, <1>3, <1>7, <2>1, AdvanceFacts
  <1>9. Allowed'
    BY <1>1, <1>2, <1>3, <1>8, StaysAllowed, Zenon
  <1>10. se' \in [fls : BOOLEAN, tgt : PC] /\ ~se'.fls
    <2>1. se_nxt(p) \in [fls : BOOLEAN, tgt : PC] /\ ~se_nxt(p).fls
      BY <1>2, <1>5, <1>6, RedirectFacts
    <2> QED
      BY <2>1 DEF Registers
  <1>11. opc(rob[1])' = opc(rob[1]) /\ exc(rob[1])' = exc(rob[1])
    BY <1>3, <1>8 DEF opc, exc
  <1>12. pipe_req'
    <2>1. nready' > 0
      BY <1>1, <1>8
    <2> QED
      BY <1>1, <1>10, <1>11, <2>1 DEF pipe_req, lsu_req, epu_req
  <1>13. CASE ~p
    <2>1. l1' = l1 /\ l2' = l2 /\ tlb' = tlb /\ e1' = e1 /\ e1_pc' = e1_pc
      BY <1>13, Zenon DEF Registers
    <2>2. Control'
      BY <1>2, <1>5, <1>8, <1>11, <1>12, <2>1, ZenonT(40) DEF Control
    <2>3. Faulting' /\ AccessOnce'
      BY <1>2, <1>3, <1>7, <1>11, <2>1 DEF Faulting, AccessOnce, AtMostOne
    <2> QED
      BY <1>2, <1>3, <1>5, <1>8, <1>9, <1>10, <2>1, <2>2, <2>3, Zenon DEF IInv, Typed
  <1>14. CASE p
    <2>1. ~l2.valid /\ ~e1.wb_valid
      BY <1>14, Zenon DEF pipe_finish
    <2>2. /\ l1' = [valid |-> s1i_valid, exc |-> {}]
          /\ l2' = [valid |-> l1.valid, exc |-> l1.exc \cup tlb]
          /\ tlb' = tlb /\ e1' = NoEpu /\ e1_pc' = rob[1].pc
      BY <1>1, <1>14, Zenon DEF Registers
    <2>3. l1.exc \cup tlb \in SUBSET LsuExc /\ l1.valid \in BOOLEAN
      BY <1>2, Zenon DEF Typed, Stage1, Lsu, LsuExc
    <2>4. s1i_valid \in BOOLEAN /\ e1'.wb_valid = FALSE
      BY <2>2, Zenon DEF s1i_valid, NoEpu
    <2>5. l1' \in Stage1 /\ l2' \in Lsu /\ tlb' \in SUBSET {"EDTM", "EDPF"}
      BY <1>2, <2>2, <2>3, <2>4 DEF Typed, Stage1, Lsu
    <2>6. ~l1'.valid /\ l2'.valid = l1.valid /\ l2'.exc = l1.exc \cup tlb
      BY <1>1, <2>2, Zenon
    <2>7. Control'
      <3>1. l2'.valid => opc(rob[1])' \in {"ls", "dcop"}
        BY <1>2, <1>11, <2>6, ZenonT(40) DEF Control
      <3> QED
        BY <1>5, <1>8, <1>12, <2>2, <2>4, <2>6, <3>1, Zenon DEF Control
    <2>8. Faulting'
      <3>1. l2'.valid => AtMostOne(l2'.exc)
        BY <1>2, <2>6 DEF Faulting
      <3>2. ASSUME l2'.valid, opc(rob[1])' = "ls", ~(l2'.exc \subseteq {"EALIGN"}) PROVE psr'.mme
        <4>1. l1.valid /\ opc(rob[1]) = "ls"
          BY <3>2, <1>11, <2>6
        <4>2. l1.exc \subseteq {"EALIGN"}
          BY <1>2 DEF Typed, Stage1
        <4>3. tlb # {}
          BY <3>2, <4>2, <2>6
        <4> QED
          BY <4>1, <4>3, <1>2, <1>3 DEF Faulting
      <3> QED
        BY <1>2, <2>2, <2>6, <3>1, <3>2 DEF Faulting
    <2>9. AccessOnce'
      BY <1>2, <1>7, <2>1, <2>6 DEF AccessOnce
    <2> QED
      BY <1>2, <1>3, <1>5, <1>8, <1>9, <1>10, <2>4, <2>5, <2>7, <2>8, <2>9, Zenon DEF IInv, Typed
  <1> QED
    BY <1>13, <1>14

\* A pending instruction finishes: what is left of it in the stages.
LEMMA FinishEmpties ==
    ASSUME IInv, fsm = "PENDING", NEW fault \in Faults, Registers(TRUE, TRUE, fault),
           pipe_finish(TRUE), flush(TRUE) \/ cmt_fire(TRUE) > 0
    PROVE  /\ fsm' = "IDLE" /\ Control' /\ Faulting' /\ AccessOnce'
           /\ l1' \in Stage1 /\ l2' \in Lsu /\ tlb' \in SUBSET {"EDTM", "EDPF"} /\ e1'.wb_valid \in BOOLEAN
           /\ psr' \in ISA!Psr /\ epsr' \in ISA!Psr /\ epc' \in PC /\ prog' \in Programs
  <1>1. ~s1i_valid /\ ~epu_req_valid /\ ~s1i_dcop /\ rob # <<>>
    BY PendingFacts, Zenon
  <1>2. Typed /\ Control /\ Faulting
    BY DEF IInv
  <1>3. fsm' = "IDLE" /\ prog' = prog
    BY PendingFacts, Zenon DEF Registers
  <1>4. ~l1.valid
    BY <1>2 DEF Control, pipe_finish
  <1>5. /\ l1' = [valid |-> s1i_valid, exc |-> {}]
        /\ l2' = [valid |-> l1.valid, exc |-> l1.exc \cup tlb]
        /\ tlb' = tlb /\ e1' = NoEpu /\ sent' = 0
    BY <1>1, Zenon DEF Registers
  <1>6. l1.exc \cup tlb \in SUBSET LsuExc /\ l1.valid \in BOOLEAN
    BY <1>2, Zenon DEF Typed, Stage1, LsuExc
  <1>7. s1i_valid \in BOOLEAN /\ e1'.wb_valid \in BOOLEAN
    BY <1>5 DEF s1i_valid, NoEpu
  <1>8. l1' \in Stage1 /\ l2' \in Lsu /\ tlb' \in SUBSET {"EDTM", "EDPF"}
    BY <1>2, <1>5, <1>6, <1>7, Zenon DEF Typed, Stage1, Lsu
  <1>9. ~l1'.valid /\ ~l2'.valid /\ AtMostOne(tlb')
    BY <1>1, <1>2, <1>4, <1>5, Zenon DEF Faulting
  <1>10. Control' /\ Faulting' /\ AccessOnce'
    BY <1>3, <1>5, <1>9, EmptyStages
  <1>11. psr' \in ISA!Psr /\ epsr' \in ISA!Psr /\ epc' \in PC
    BY PendingPsr, Zenon DEF Registers
  <1> QED
    BY <1>2, <1>3, <1>7, <1>8, <1>10, <1>11 DEF Typed

\* It finishes without an exception and commits.
LEMMA FinishKeeps ==
    ASSUME IInv, fsm = "PENDING", NEW fault \in Faults, Registers(TRUE, TRUE, fault),
           pipe_finish(TRUE), ~flush(TRUE)
    PROVE  IInv'
  <1>1. nready > 0 /\ nready \in Nat /\ ~se.fls /\ rob # <<>>
    BY PendingFacts DEF IInv, Typed
  <1>2. Typed /\ Walk /\ Allowed
    BY DEF IInv
  <1>3. cmt_fire(TRUE) = 1 /\ Advance(1) /\ prog' = prog
    BY PendingFacts, Zenon DEF Registers
  <1>4. cmt_fire(TRUE) \in Nat /\ cmt_fire(TRUE) > 0
    <2>1. \A k : k = 1 => k \in Nat /\ k > 0
      OBVIOUS
    <2> QED
      BY <1>3, <2>1, Zenon
  <1>5. /\ rob' \in Seq(RobEntry) /\ nready' \in Nat /\ nready' <= Len(rob') /\ fetch_pc' \in PC
        /\ Walk'
        /\ \A i \in 1 .. Len(rob') :
               \/ \E j \in 1 .. Len(rob) : rob'[i] = rob[j]
               \/ /\ rob'[i].fe = "EIRQ" => psr'.ire
                  /\ rob'[i].fe \in {"EITM", "EIPF"} => psr'.mme
    <2>1. 1 \in 0 .. 2 /\ 1 <= nready
      BY <1>1
    <2> QED
      BY <1>2, <1>3, <2>1, AdvanceFacts
  <1>6. se' \in [fls : BOOLEAN, tgt : PC]
    <2>1. se_nxt(TRUE) \in [fls : BOOLEAN, tgt : PC]
      BY <1>1, <1>2, <1>4, RedirectFacts, Zenon
    <2> QED
      BY <2>1, Zenon DEF Registers
  <1>7. Allowed'
    <2>1. CASE se'.fls
      BY <2>1, Zenon DEF Allowed
    <2>2. CASE ~se'.fls
      <3>1. ~refetch(TRUE)
        BY <2>2, <1>4, Zenon DEF Registers, se_nxt
      <3>2. e1.op # "psr"
        BY <3>1 DEF refetch
      <3>3. excs = {}
        BY PendingFacts, Zenon
      <3>4. psr' = psr
        BY <3>2, <3>3, PendingPsr, Zenon DEF Registers
      <3> QED
        BY <1>1, <1>2, <1>5, <3>4, StaysAllowed
    <2> QED
      BY <2>1, <2>2
  <1>8. /\ fsm' = "IDLE" /\ Control' /\ Faulting' /\ AccessOnce'
        /\ l1' \in Stage1 /\ l2' \in Lsu /\ tlb' \in SUBSET {"EDTM", "EDPF"} /\ e1'.wb_valid \in BOOLEAN
        /\ psr' \in ISA!Psr /\ epsr' \in ISA!Psr /\ epc' \in PC /\ prog' \in Programs
    BY <1>4, FinishEmpties, Zenon
  <1> QED
    BY <1>5, <1>6, <1>7, <1>8, Zenon DEF IInv, Typed

\* It traps, and everything behind it is thrown away.
LEMMA TrapKeeps ==
    ASSUME IInv, fsm = "PENDING", NEW fault \in Faults, Registers(TRUE, TRUE, fault), flush(TRUE)
    PROVE  IInv'
  <1>1. excs # {} /\ pipe_finish(TRUE) /\ ~se.fls
    BY PendingFacts, Zenon DEF pipe_finish
  <1>2. Typed
    BY DEF IInv
  <1>3. cmt_fire(TRUE) = 0
    BY PendingFacts, Zenon
  <1>4. cmt_fire(TRUE) \in Nat /\ ~(cmt_fire(TRUE) > 0)
    BY <1>3, ZeroFacts, Zenon
  <1>5. se' \in [fls : BOOLEAN, tgt : PC]
    <2>1. se_nxt(TRUE) \in [fls : BOOLEAN, tgt : PC]
      BY <1>2, <1>4, RedirectFacts, Zenon
    <2> QED
      BY <2>1, Zenon DEF Registers
  <1>6. rob' = <<>> /\ nready' = 0 /\ fetch_pc' = exc_flush_tgt
    BY <1>1 DEF Registers, flush_tgt
  <1>7. exc_flush_tgt \in PC
    <2>1. PICK c \in ISA!Causes \cup {"ERET"} : exc_flush_tgt = IF c = "ERET" THEN epc ELSE Vector[c]
      BY <1>1, ExcFacts
    <2>2. c # "ERET" => Vector[c] \in PC
      BY Parameters DEF PC
    <2> QED
      BY <1>2, <2>1, <2>2 DEF Typed
  <1>8. /\ fsm' = "IDLE" /\ Control' /\ Faulting' /\ AccessOnce'
        /\ l1' \in Stage1 /\ l2' \in Lsu /\ tlb' \in SUBSET {"EDTM", "EDPF"} /\ e1'.wb_valid \in BOOLEAN
        /\ psr' \in ISA!Psr /\ epsr' \in ISA!Psr /\ epc' \in PC /\ prog' \in Programs
    BY <1>1, FinishEmpties, Zenon
  <1>9. /\ rob' \in Seq(RobEntry) /\ nready' \in Nat /\ nready' <= Len(rob')
        /\ Walk' /\ Allowed'
    BY <1>6, EmptyRob
  <1> QED
    BY <1>5, <1>6, <1>7, <1>8, <1>9 DEF IInv, Typed

\* The stage starts empty, with the PSR of the reset.
LEMMA InitIInv == Init => IInv
  <1> SUFFICES ASSUME Init PROVE IInv
    OBVIOUS
  <1>1. 0 \in PC
    BY Parameters DEF PC
  <1>2. psr \in ISA!Psr /\ epsr \in ISA!Psr
    BY Zenon DEF Init, ISA!ResetPsr, ISA!Psr
  <1>3. Typed
    BY <1>1, <1>2 DEF Init, Typed, NoLsu, NoEpu, Stage1, Lsu
  <1>4. Walk /\ Allowed
    BY DEF Init, Walk, Allowed
  <1>5. Control /\ Faulting /\ AccessOnce
    BY DEF Init, Control, Faulting, AccessOnce, NoLsu, NoEpu, AtMostOne
  <1> QED
    BY <1>3, <1>4, <1>5 DEF IInv

\* Each edge keeps the invariant, as long as an access has one fault at most.
LEMMA NextIInv ==
    ASSUME SingleFaults, IInv, [Next]_vars
    PROVE  IInv'
  <1>1. CASE UNCHANGED vars
    BY <1>1 DEF IInv, Typed, Walk, Allowed, Control, Faulting, AccessOnce, vars, fetch_vars,
                Branches, Current, pipe_req, lsu_req, epu_req, opc, exc
  <1>2. CASE Next /\ fsm = "IDLE"
    <2>1. PICK w \in BOOLEAN, fault \in Faults :
              Registers(TRUE, w, fault) /\ (~w => epu_req_valid /\ opc(rob[1]) = "icinv")
      BY <1>2, IdleEdge, Zenon
    <2> QED
      BY <1>2, <2>1, IdleKeeps, RequestKeeps, Zenon
  <1>3. CASE Next /\ fsm = "PENDING"
    <2>1. PICK p \in BOOLEAN, fault \in Faults : Registers(p, p, fault) /\ (~p => l2.valid)
      BY <1>3, PendingEdge
    <2>2. CASE ~pipe_finish(p)
      BY <1>3, <2>1, <2>2, WaitKeeps
    <2>3. CASE pipe_finish(p)
      <3>1. p = TRUE
        BY <2>3 DEF pipe_finish
      <3>2. Registers(TRUE, TRUE, fault) /\ pipe_finish(TRUE)
        BY <2>1, <2>3, <3>1, Zenon
      <3> QED
        BY <1>3, <3>2, FinishKeeps, TrapKeeps, Zenon
    <2> QED
      BY <2>2, <2>3
  <1> QED
    BY <1>1, <1>2, <1>3, Zenon DEF IInv, Typed

-----------------------------------------------------------------------------
\* The invariant of the commit stage holds, for every program.
THEOREM CommitInvariant == ASSUME SingleFaults PROVE Spec => []IInv
  BY InitIInv, NextIInv, PTL DEF Spec

\* The D$ is asked exactly once for an access that commits (cmt_lsu.v).
THEOREM AccessOnceHolds == ASSUME SingleFaults PROVE Spec => []AccessOnce
  <1>1. IInv => AccessOnce
    BY DEF IInv
  <1> QED
    BY <1>1, CommitInvariant, PTL

\* Nothing finishes but a pending instruction, hence none at two edges in a row
\* (cmt.v), as the write port it takes from pipe 0 requires.
THEOREM FinishesPendingHolds == ASSUME SingleFaults PROVE Spec => []FinishesPending
  <1>1. IInv => FinishesPending
    BY DEF IInv, Typed, Control, FinishesPending, pipe_finish, NoEpu
  <1> QED
    BY <1>1, CommitInvariant, PTL

-----------------------------------------------------------------------------
\* What the RTL and the emulator do alike under CachesFixed and NoStaleFault: the
\* cache bits stay off, and a D$ operation meets no fault.
Alike ==
    /\ ~psr.ce /\ ~epsr.ce
    /\ l1.valid /\ opc(rob[1]) = "dcop" => l1.exc = {} /\ tlb = {}
    /\ l2.valid /\ opc(rob[1]) = "dcop" => l2.exc = {}

\* A flush sets the address of the next instruction (cmt.v, flush_tgt).
LEMMA FlushedPc ==
    ASSUME rob' = <<>>, ~se'.fls
    PROVE  arch_pc' = fetch_pc'
  BY DEF arch_pc

\* While nothing commits, the next instruction stays the same.
LEMMA WaitingPc ==
    ASSUME Typed, Walk, ~se.fls, Advance(0), prog' = prog, ~se'.fls
    PROVE  arch_pc' = arch_pc
  <1>1. 0 \in 0 .. 2 /\ 0 <= nready
    BY DEF Typed
  <1>2. (IF rob' # <<>> THEN rob'[1].pc ELSE fetch_pc') = IF rob # <<>> THEN rob[1].pc ELSE fetch_pc
    BY <1>1, AdvanceFacts
  <1> QED
    BY <1>2 DEF arch_pc

\* When the head commits alone, the next instruction is where it really leads,
\* whatever was predicted (cmt.v, s1o_se_tgt).
LEMMA FiredPc ==
    ASSUME Typed, Walk, ~se.fls, Advance(1), prog' = prog, nready > 0,
           NEW p \in BOOLEAN, cmt_fire(p) = 1, se' = se_nxt(p),
           refetch(p) => rob[1].act = NotTaken
    PROVE  /\ arch_pc = rob[1].pc /\ rob[1] \in RobEntry /\ Branches(rob[1])
           /\ arch_pc' = fls_tgt(rob[1])
  <1>1. nready \in Nat /\ rob # <<>> /\ rob[1] \in RobEntry /\ 1 <= Len(rob) /\ 1 <= nready
    BY DEF Typed
  <1>2. arch_pc = rob[1].pc
    BY <1>1 DEF arch_pc
  <1>3. Branches(rob[1])
    BY <1>1 DEF Walk
  <1>4. (IF rob' # <<>> THEN rob'[1].pc ELSE fetch_pc') = follow(rob[1])
    <2>1. 1 \in 0 .. 2 /\ 1 > 0
      BY CommitCounts, Zenon
    <2> QED
      BY <1>1, <2>1, AdvanceFacts
  <1>5. cmt_fire(p) > 0
    BY CommitCounts, Zenon
  <1>6. CASE fls(rob[1])
    <2>1. se' = [fls |-> TRUE, tgt |-> fls_tgt(rob[1])]
      BY <1>5, <1>6, Zenon DEF se_nxt
    <2> QED
      <3>1. se'.fls /\ se'.tgt = fls_tgt(rob[1])
        BY <2>1
      <3> QED
        BY <1>1, <1>2, <1>3, <3>1, Zenon DEF arch_pc
  <1>7. CASE ~fls(rob[1]) /\ refetch(p)
    <2>1. se' = [fls |-> TRUE, tgt |-> npc(rob[1].pc)]
      BY <1>5, <1>7 DEF se_nxt
    <2>2. fls_tgt(rob[1]) = npc(rob[1].pc)
      BY <1>7 DEF fls_tgt
    <2> QED
      <3>1. se'.fls /\ se'.tgt = fls_tgt(rob[1])
        BY <2>1, <2>2
      <3> QED
        BY <1>1, <1>2, <1>3, <3>1, Zenon DEF arch_pc
  <1>8. CASE ~fls(rob[1]) /\ ~refetch(p)
    <2>1. se' = [fls |-> FALSE, tgt |-> 0]
      BY <1>8 DEF se_nxt
    <2>2. arch_pc' = follow(rob[1])
      BY <1>4, <2>1 DEF arch_pc
    <2>3. follow(rob[1]) = fls_tgt(rob[1])
      BY <1>8 DEF fls, fls_tgt, follow
    <2> QED
      BY <1>1, <1>2, <1>3, <2>2, <2>3, Zenon
  <1> QED
    BY <1>6, <1>7, <1>8

\* The step of Isa that an instruction which just goes on is.
LEMMA StraightStep ==
    ASSUME prog[arch_pc].op \in ISA!Plain \cup {"ls"}, arch_pc' = npc(arch_pc),
           psr' = psr, epsr' = epsr, epc' = epc, prog' = prog
    PROVE  ISA!NextIsa
  <1>1. 1 \in 1 .. Width /\ arch_pc' = (arch_pc + 1) % PCS
    BY Parameters DEF npc
  <1>2. ISA!Straight
    BY <1>1 DEF ISA!Straight
  <1> QED
    BY <1>2 DEF ISA!NextIsa

\* IDLE: an edge executes no instruction, one, or two plain ones.
LEMMA IdleStep ==
    ASSUME IInv, fsm = "IDLE", NEW w \in BOOLEAN, NEW fault \in Faults, Registers(TRUE, w, fault)
    PROVE  ISA!NextIsa \/ UNCHANGED ISA!isa_vars
  <1>1. Typed /\ Walk
    BY DEF IInv
  <1>2. psr' = psr /\ epsr' = epsr /\ epc' = epc /\ prog' = prog
    BY IdleFacts, Zenon DEF Registers
  <1>3. se' = se_nxt(TRUE)
    BY DEF Registers
  <1>4. ASSUME cmt_fire(TRUE) = 0 PROVE ~se'.fls
    <2>1. cmt_fire(TRUE) \in Nat /\ ~(cmt_fire(TRUE) > 0)
      BY <1>4, ZeroFacts, Zenon
    <2> QED
      BY <1>1, <1>3, <1>4, <2>1, RedirectFacts, Zenon
  <1>5. CASE se.fls
    <2>1. cmt_fire(TRUE) = 0 /\ flush(TRUE)
      BY <1>5, IdleFacts, Zenon
    <2>2. rob' = <<>> /\ fetch_pc' = se.tgt
      BY <1>5, <2>1 DEF Registers, flush_tgt
    <2>3. arch_pc' = se.tgt
      BY <1>4, <2>1, <2>2, FlushedPc
    <2>4. arch_pc = se.tgt
      BY <1>5 DEF arch_pc
    <2> QED
      BY <1>2, <2>3, <2>4 DEF ISA!isa_vars
  <1>6. CASE ~se.fls /\ cmt_fire(TRUE) = 0
    <2>1. Advance(0)
      BY <1>6, IdleFacts, Zenon DEF Registers
    <2>2. arch_pc' = arch_pc
      BY <1>1, <1>2, <1>4, <1>6, <2>1, WaitingPc
    <2> QED
      BY <1>2, <2>2 DEF ISA!isa_vars
  <1>7. CASE ~se.fls /\ cmt_fire(TRUE) # 0
    <2>1. /\ ~pipe_req /\ cmt_fire(TRUE) = cmt_ready_2_fire /\ Advance(cmt_fire(TRUE))
          /\ ~refetch(TRUE)
      BY <1>7, IdleFacts, Zenon DEF Registers
    <2>2. cmt_ready_2_fire \in {1, 2} /\ (cmt_ready_2_fire = 2 => nready >= 2) /\ nready > 0 /\ nready \in Nat
      <3>1. cmt_ready_2_fire # 0
        BY <1>7, <2>1, Zenon
      <3>2. nready \in Nat
        BY <1>1 DEF Typed
      <3> QED
        BY <3>1, <3>2 DEF cmt_ready_2_fire
    <2>3. rob[1] \in RobEntry /\ rob # <<>> /\ arch_pc = rob[1].pc
      BY <1>1, <1>7, <2>2 DEF Typed, arch_pc
    <2>4. rob[1].pc \in PC /\ prog \in Programs
      BY <1>1, <2>3, Zenon DEF Typed, RobEntry
    <2>5. rob[1].fe = "no" /\ prog[rob[1].pc].op \in {"alu", "b"}
      <3>1. ~lsu_req(rob[1]) /\ ~epu_req(rob[1])
        BY <2>1, <2>2 DEF pipe_req
      <3>2. exc(rob[1]) = "no" /\ opc(rob[1]) \notin {"ls", "barr", "rmsr", "tlb", "icinv", "dcop", "psr", "epsr", "epc"}
        BY <3>1, <1>7 DEF lsu_req, epu_req
      <3>3. rob[1].fe = "no"
        BY <3>2 DEF exc
      <3>4. prog[rob[1].pc].op \notin {"syscall", "rete", "undef"}
        BY <3>2, <3>3 DEF exc
      <3>5. prog[rob[1].pc].op \in {"alu", "barr", "rmsr", "tlb", "icinv", "dcop", "ls", "syscall", "rete",
                                    "undef", "b", "epc", "psr", "epsr"}
        BY <2>4, ProgramFacts
      <3> QED
        BY <3>2, <3>3, <3>4, <3>5 DEF opc
    <2>6. CASE cmt_ready_2_fire = 1
      <3>1. cmt_fire(TRUE) = 1 /\ Advance(1)
        BY <2>1, <2>6, Zenon
      <3>2. Branches(rob[1]) /\ arch_pc' = fls_tgt(rob[1])
        BY <1>1, <1>2, <1>3, <1>7, <2>1, <2>2, <3>1, FiredPc, Zenon
      <3>3. CASE prog[rob[1].pc].op = "alu"
        <4>1. arch_pc' = npc(arch_pc)
          BY <2>3, <3>2, <3>3 DEF Branches, fls_tgt
        <4>2. prog[arch_pc].op \in ISA!Plain \cup {"ls"}
          BY <2>3, <3>3 DEF ISA!Plain
        <4> QED
          BY <1>2, <4>1, <4>2, StraightStep
      <3>4. CASE prog[rob[1].pc].op = "b"
        <4>1. arch_pc' \in {ISA!npc(arch_pc), prog[arch_pc].arg} /\ prog[arch_pc].op = "b"
          BY <2>3, <3>2, <3>4, Zenon DEF Branches, fls_tgt, npc, ISA!npc
        <4>2. ISA!Branch
          BY <1>2, <4>1 DEF ISA!Branch
        <4> QED
          BY <1>2, <4>2 DEF ISA!NextIsa
      <3> QED
        BY <2>5, <3>3, <3>4
    <2>7. CASE cmt_ready_2_fire = 2
      <3>1. cmt_fire(TRUE) = 2 /\ Advance(2)
        BY <2>1, <2>7, Zenon
      <3>2. ~single_fu(rob[1]) /\ ~single_fu(rob[2])
        BY <2>7 DEF cmt_ready_2_fire
      <3>3. rob[2] \in RobEntry /\ 2 \in 1 .. Len(rob) /\ 1 \in 1 .. Len(rob) - 1 /\ 2 <= nready
        BY <1>1, <2>2, <2>7 DEF Typed
      <3>4. Branches(rob[1]) /\ Branches(rob[2]) /\ rob[2].pc = follow(rob[1])
        BY <1>1, <3>3 DEF Walk
      <3>5. rob[2].pc \in PC
        BY <3>3 DEF RobEntry
      <3>6. rob[2].fe = "no" /\ prog[rob[2].pc].op = "alu"
        <4>1. exc(rob[2]) = "no"
              /\ opc(rob[2]) \notin {"b", "ls", "barr", "rmsr", "tlb", "icinv", "dcop", "psr", "epsr", "epc"}
          BY <3>2, <1>7 DEF single_fu, lsu_req, epu_req
        <4>2. rob[2].fe = "no"
          BY <4>1 DEF exc
        <4>3. prog[rob[2].pc].op \notin {"syscall", "rete", "undef"}
          BY <4>1, <4>2, Zenon DEF exc
        <4>4. prog[rob[2].pc].op \in {"alu", "barr", "rmsr", "tlb", "icinv", "dcop", "ls", "syscall", "rete",
                                      "undef", "b", "epc", "psr", "epsr"}
          BY <2>4, <3>5, ProgramFacts, Zenon
        <4> QED
          BY <4>1, <4>2, <4>3, <4>4 DEF opc
      <3>7. prog[rob[1].pc].op = "alu"
        BY <2>5, <3>2, Zenon DEF single_fu, opc
      <3>8. rob[1].pred = NotTaken /\ rob[2].pred = NotTaken
        BY <3>2, <3>4, <3>6, <3>7 DEF single_fu, fls, Branches
      <3>9. rob[2].pc = npc(rob[1].pc) /\ follow(rob[2]) = npc(npc(rob[1].pc))
        BY <3>4, <3>8 DEF follow
      <3>10. ~se'.fls
        BY <1>3, <2>1, <3>2, Zenon DEF se_nxt, single_fu
      <3>11. arch_pc' = follow(rob[2])
        <4>1. 2 \in 0 .. 2 /\ 2 > 0
          BY CommitCounts, ZenonT(40)
        <4>2. (IF rob' # <<>> THEN rob'[1].pc ELSE fetch_pc') = follow(rob[2])
          BY <1>1, <1>2, <3>1, <3>3, <4>1, AdvanceFacts, Zenon
        <4> QED
          BY <3>10, <4>2 DEF arch_pc
      <3>12. /\ arch_pc' = (arch_pc + 2) % PCS
             /\ (arch_pc + 0) % PCS = rob[1].pc /\ (arch_pc + 1) % PCS = rob[2].pc
        BY <2>3, <2>4, <3>9, <3>11, NextPc, Zenon
      <3>13. \A i \in 0 .. 2 - 1 : prog[(arch_pc + i) % PCS].op = "alu"
        <4>1. \A i \in 0 .. 2 - 1 : i = 0 \/ i = 1
          BY CommitCounts, Zenon
        <4> QED
          BY <3>6, <3>7, <3>12, <4>1
      <3>14. ISA!Straight
        <4>1. 2 \in 1 .. Width /\ 2 # 1
          BY Parameters
        <4> QED
          BY <1>2, <3>12, <3>13, <4>1, Zenon DEF ISA!Straight
      <3> QED
        BY <1>2, <3>14 DEF ISA!NextIsa
    <2> QED
      BY <2>2, <2>6, <2>7
  <1> QED
    BY <1>5, <1>6, <1>7, Zenon

\* PENDING without an end: no instruction is executed.
LEMMA WaitStep ==
    ASSUME IInv, Alike, fsm = "PENDING", NEW p \in BOOLEAN, NEW fault \in Faults, Registers(p, p, fault),
           ~pipe_finish(p)
    PROVE  UNCHANGED ISA!isa_vars /\ Alike'
  <1>1. Typed /\ Walk /\ ~se.fls /\ rob # <<>> /\ ~s1i_valid
    BY PendingFacts, Zenon DEF IInv
  <1>2. psr' = psr /\ epsr' = epsr /\ epc' = epc /\ prog' = prog
    BY PendingPsr, Zenon DEF Registers
  <1>3. ~flush(p)
    BY PendingFacts, Zenon DEF pipe_finish
  <1>4. cmt_fire(p) = 0 /\ Advance(0)
    BY <1>3, PendingFacts, Zenon DEF Registers
  <1>5. ~se'.fls
    <2>1. cmt_fire(p) \in Nat /\ ~(cmt_fire(p) > 0)
      BY <1>4, ZeroFacts, Zenon
    <2> QED
      BY <1>1, <1>4, <2>1, RedirectFacts DEF Registers
  <1>6. arch_pc' = arch_pc
    BY <1>1, <1>2, <1>4, <1>5, WaitingPc, Zenon
  <1>7. rob'[1] = rob[1]
    <2>1. 0 \in 0 .. 2 /\ 0 <= nready
      BY <1>1 DEF Typed
    <2> QED
      BY <1>1, <1>2, <1>4, <2>1, AdvanceFacts
  <1>8. opc(rob[1])' = opc(rob[1])
    BY <1>2, <1>7, Zenon DEF opc
  <1>9. /\ p => ~l1'.valid
        /\ p => l2'.valid = l1.valid /\ l2'.exc = l1.exc \cup tlb
        /\ ~p => l1' = l1 /\ l2' = l2
        /\ tlb' = tlb
    BY <1>1, Zenon DEF Registers
  <1>10. Alike'
    BY <1>2, <1>8, <1>9, Zenon DEF Alike
  <1> QED
    BY <1>2, <1>6, <1>10 DEF ISA!isa_vars

\* The instruction that finishes goes on, or writes its register.
LEMMA FinishStep ==
    ASSUME CachesFixed, IInv, Alike, fsm = "PENDING", NEW fault \in Faults, Registers(TRUE, TRUE, fault),
           pipe_finish(TRUE), ~flush(TRUE)
    PROVE  ISA!NextIsa /\ ~psr'.ce /\ ~epsr'.ce
  <1>1. Typed /\ Walk /\ ~se.fls /\ rob # <<>> /\ nready > 0 /\ excs = {}
    BY PendingFacts, Zenon DEF IInv
  <1>2. cmt_fire(TRUE) = 1 /\ Advance(1) /\ prog' = prog /\ se' = se_nxt(TRUE)
    BY PendingFacts, Zenon DEF Registers
  <1>3. /\ psr' = IF e1.op = "psr" THEN prog[rob[1].pc].arg ELSE psr
        /\ epsr' = IF e1.op = "epsr" THEN prog[rob[1].pc].arg ELSE epsr
        /\ epc' = IF e1.op = "epc" THEN prog[rob[1].pc].arg ELSE epc
    BY <1>1, PendingPsr, Zenon DEF Registers
  <1>4. rob[1] \in RobEntry
    BY <1>1 DEF Typed
  <1>5. rob[1].pc \in PC /\ prog \in Programs
    BY <1>1, <1>4 DEF Typed, RobEntry
  <1>6. /\ e1 # NoEpu => e1.op = opc(rob[1]) /\ e1.exc = exc(rob[1])
        /\ l2.valid => opc(rob[1]) \in {"ls", "dcop"} /\ e1 = NoEpu
        /\ e1 = NoEpu => l2.valid /\ e1.op = "no"
        /\ e1.exc = "no"
    <2>1. e1 # NoEpu => e1.op = opc(rob[1]) /\ e1.exc = exc(rob[1]) /\ ~l2.valid
      BY DEF IInv, Control
    <2>2. l2.valid => opc(rob[1]) \in {"ls", "dcop"}
      BY DEF IInv, Control
    <2>3. e1 = NoEpu => l2.valid /\ e1.op = "no"
      BY DEF pipe_finish, NoEpu
    <2>4. e1.exc = "no"
      BY <1>1 DEF excs
    <2> QED
      BY <2>1, <2>2, <2>3, <2>4
  <1>7. pipe_req
    BY PendingFacts, Zenon
  <1>8. exc(rob[1]) = "no" /\ rob[1].fe = "no" /\ prog[rob[1].pc].op = opc(rob[1])
    <2>1. CASE e1 # NoEpu
      BY <2>1, <1>6 DEF exc, opc
    <2>2. CASE e1 = NoEpu
      <3>1. opc(rob[1]) \in {"ls", "dcop"}
        BY <2>2, <1>6
      <3> QED
        BY <3>1 DEF exc, opc
    <2> QED
      BY <2>1, <2>2
  <1>9. opc(rob[1]) \in {"ls", "barr", "rmsr", "tlb", "icinv", "dcop", "psr", "epsr", "epc"}
    BY <1>7, <1>8 DEF pipe_req, lsu_req, epu_req
  <1>10. \A o \in {"psr", "epsr", "epc"} : e1.op = o <=> opc(rob[1]) = o
    BY <1>6
  <1>11. Branches(rob[1])
    <2>1. 1 \in 1 .. Len(rob)
      BY <1>1 DEF Typed
    <2> QED
      BY <1>1, <2>1 DEF Walk
  <1>12. rob[1].act = NotTaken
    BY <1>8, <1>9, <1>11 DEF Branches
  <1>13. arch_pc = rob[1].pc /\ arch_pc' = npc(arch_pc)
    <2>1. arch_pc = rob[1].pc /\ arch_pc' = fls_tgt(rob[1])
      BY <1>1, <1>2, <1>12, FiredPc, Zenon
    <2> QED
      BY <2>1, <1>12 DEF fls_tgt
  <1>14. ~psr'.ce /\ ~epsr'.ce
    <2>1. DOMAIN prog = PC
      BY <1>5, Parameters, ZenonT(40) DEF PC
    <2>2. opc(rob[1]) \in {"psr", "epsr"} => ~prog[rob[1].pc].arg.ce
      BY <1>5, <1>8, <2>1 DEF CachesFixed
    <2>3. ~psr.ce /\ ~epsr.ce
      BY DEF Alike
    <2> QED
      BY <1>3, <1>10, <2>2, <2>3
  <1>15. CASE opc(rob[1]) \in {"psr", "epsr", "epc"}
    <2>1. ISA!Wmsr
      BY <1>3, <1>8, <1>10, <1>13, <1>15, Zenon DEF ISA!Wmsr, npc, ISA!npc
    <2> QED
      BY <1>2, <1>14, <2>1, Zenon DEF ISA!NextIsa
  <1>16. CASE opc(rob[1]) \notin {"psr", "epsr", "epc"}
    <2>1. psr' = psr /\ epsr' = epsr /\ epc' = epc
      BY <1>3, <1>10, <1>16, Zenon
    <2>2. prog[arch_pc].op \in ISA!Plain \cup {"ls"}
      BY <1>8, <1>9, <1>13, <1>16 DEF ISA!Plain
    <2> QED
      BY <1>2, <1>13, <1>14, <2>1, <2>2, StraightStep, Zenon
  <1> QED
    BY <1>15, <1>16

\* The instruction that traps raises its own exception, or returns from one.
LEMMA TrapStep ==
    ASSUME IInv, Alike, fsm = "PENDING", NEW fault \in Faults, Registers(TRUE, TRUE, fault), flush(TRUE)
    PROVE  ISA!NextIsa /\ ~psr'.ce /\ ~epsr'.ce
  <1>1. Typed /\ Allowed /\ ~se.fls /\ rob # <<>> /\ excs # {}
    BY PendingFacts, Zenon DEF IInv
  <1>2. cmt_fire(TRUE) = 0 /\ prog' = prog
    BY PendingFacts, Zenon DEF Registers
  <1>3. ~se'.fls
    <2>1. cmt_fire(TRUE) \in Nat /\ ~(cmt_fire(TRUE) > 0)
      BY <1>2, ZeroFacts, Zenon
    <2> QED
      BY <1>1, <1>2, <2>1, RedirectFacts, Zenon DEF Registers
  <1>4. rob' = <<>> /\ fetch_pc' = exc_flush_tgt
    BY <1>1, Zenon DEF Registers, flush_tgt
  <1>5. arch_pc' = exc_flush_tgt /\ arch_pc = rob[1].pc
    <2>1. arch_pc' = fetch_pc'
      BY <1>3, <1>4, FlushedPc
    <2> QED
      BY <1>1, <1>4, <2>1 DEF arch_pc
  <1>6. rob[1] \in RobEntry /\ Current(rob[1])
    <2>1. 1 \in 1 .. Len(rob)
      BY <1>1 DEF Typed
    <2> QED
      BY <1>1, <2>1 DEF Typed, Allowed
  <1>7. psr \in ISA!Psr /\ epsr \in ISA!Psr /\ ~psr.ce /\ ~epsr.ce
    BY <1>1 DEF Typed, Alike
  <1>8. PICK c \in ISA!Causes \cup {"ERET"} :
              /\ excs = {c}
              /\ exc_flush_tgt = IF c = "ERET" THEN epc ELSE Vector[c]
              /\ \/ l2.valid /\ c \in LsuExc /\ c \in l2.exc /\ e1 = NoEpu
                 \/ ~l2.valid /\ e1 # NoEpu /\ e1.exc = c /\ exc(rob[1]) = c
    BY <1>1, ExcFacts, Zenon
  <1>9. e1_pc = rob[1].pc
    BY <1>8, Zenon DEF IInv, Control
  <1>10. e1.exc = "ERET" <=> c = "ERET"
    BY <1>8 DEF NoEpu, LsuExc
  <1>11. e1.op \notin {"psr", "epsr", "epc"}
    <2>1. CASE l2.valid
      BY <2>1, <1>8 DEF NoEpu
    <2>2. CASE ~l2.valid
      <3>1. e1.op = opc(rob[1]) /\ exc(rob[1]) # "no"
        <4>1. e1.op = opc(rob[1])
          BY <2>2, <1>8 DEF IInv, Control
        <4>2. c # "no"
          BY DEF ISA!Causes
        <4> QED
          BY <2>2, <1>8, <4>1, <4>2, Zenon
      <3> QED
        BY <3>1 DEF exc, opc
    <2> QED
      BY <2>1, <2>2
  <1>12. CASE c = "ERET"
    <2>1. excs \ {"ERET"} = {}
      BY <1>8, <1>12
    <2>2. psr' = [psr EXCEPT !.ire = epsr.ire, !.mme = epsr.mme] /\ epsr' = epsr /\ epc' = epc
      BY <1>10, <1>11, <1>12, <2>1 DEF Registers, psr_nxt, epsr_nxt, epc_nxt
    <2>3. psr' = epsr
      BY <1>7, <2>2, Zenon DEF ISA!Psr
    <2>4. exc(rob[1]) = "ERET"
      BY <1>8, <1>12 DEF LsuExc
    <2>5. prog[arch_pc].op = "rete"
      BY <1>5, <1>6, <2>4 DEF exc, RobEntry, Fe
    <2>6. ISA!Rete
      BY <1>5, <1>8, <1>12, <2>2, <2>3, <2>5 DEF ISA!Rete
    <2> QED
      BY <1>2, <1>7, <2>2, <2>3, <2>6, Zenon DEF ISA!NextIsa
  <1>13. CASE c # "ERET"
    <2>1. excs \ {"ERET"} # {} /\ exc_flush_tgt = Vector[c]
      BY <1>8, <1>13
    <2>2. /\ psr' = [psr EXCEPT !.ire = FALSE, !.mme = FALSE] /\ epsr' = psr
          /\ epc' = IF e1.exc = "ESYSCALL" THEN npc(arch_pc) ELSE arch_pc
      <3>1. psr' = [psr EXCEPT !.ire = FALSE, !.mme = FALSE]
        BY <1>10, <1>11, <1>13, <2>1 DEF Registers, psr_nxt
      <3>2. epsr' = psr
        BY <1>11, <2>1 DEF Registers, epsr_nxt
      <3>3. epc' = IF e1.exc = "ESYSCALL" THEN npc(e1_pc) ELSE e1_pc
        BY <1>11, <2>1 DEF Registers, epc_nxt
      <3> QED
        BY <1>5, <1>9, <3>1, <3>2, <3>3, Zenon
    <2>3. ~psr'.ce /\ ~epsr'.ce
      BY <1>7, <2>2 DEF ISA!Psr
    <2>4. \A r : epc' = r => ISA!raise_exception(c, r)
      BY <1>5, <2>1, <2>2 DEF ISA!raise_exception
    <2>5. CASE l2.valid
      <3>1. c \in {"EALIGN", "EDTM", "EDPF"} /\ e1.exc = "no" /\ opc(rob[1]) \in {"ls", "dcop"}
        <4>1. c \in LsuExc /\ e1 = NoEpu
          BY <2>5, <1>8, Zenon
        <4>2. opc(rob[1]) \in {"ls", "dcop"}
          BY <2>5, Zenon DEF IInv, Control
        <4>3. NoEpu.exc = "no"
          BY DEF NoEpu
        <4> QED
          BY <4>1, <4>2, <4>3, Zenon DEF LsuExc
      <3>2. opc(rob[1]) = "ls"
        BY <2>5, <3>1, <1>8, Zenon DEF Alike
      <3>3. prog[arch_pc].op = "ls"
        BY <1>5, <3>2 DEF opc
      <3>4. c # "EALIGN" => psr.mme
        BY <2>5, <3>2, <1>8, Zenon DEF IInv, Faulting
      <3>5. ISA!DataFault
        BY <2>2, <2>4, <3>1, <3>3, <3>4, Zenon DEF ISA!DataFault
      <3> QED
        BY <1>2, <2>3, <3>5, Zenon DEF ISA!NextIsa
    <2>6. CASE ~l2.valid
      <3>1. exc(rob[1]) = c /\ e1.exc = c
        BY <2>6, <1>8
      <3>2. rob[1].fe \in Fe
        BY <1>6 DEF RobEntry
      <3>3. CASE rob[1].fe = "EIRQ"
        <4>1. c = "EIRQ" /\ psr.ire
          BY <3>1, <3>3, <1>6 DEF exc, Current
        <4>2. ISA!Interrupt
          BY <2>2, <2>4, <3>1, <4>1 DEF ISA!Interrupt
        <4> QED
          BY <1>2, <2>3, <4>2 DEF ISA!NextIsa
      <3>4. CASE rob[1].fe \in {"EITM", "EIPF"}
        <4>1. c \in {"EITM", "EIPF"} /\ psr.mme
          BY <3>1, <3>4, <1>6 DEF exc, Current
        <4>2. ISA!FetchFault
          BY <2>2, <2>4, <3>1, <4>1 DEF ISA!FetchFault
        <4> QED
          BY <1>2, <2>3, <4>2 DEF ISA!NextIsa
      <3>5. CASE rob[1].fe = "no"
        <4>1. c # "no"
          BY DEF ISA!Causes
        <4>2. \/ c = "ESYSCALL" /\ prog[arch_pc].op = "syscall"
              \/ c = "EINSN" /\ prog[arch_pc].op = "undef"
          BY <1>5, <1>13, <3>1, <3>5, <4>1 DEF exc
        <4>3. CASE c = "ESYSCALL" /\ prog[arch_pc].op = "syscall"
          <5>1. ISA!Syscall
            BY <2>2, <2>4, <3>1, <4>3 DEF ISA!Syscall, npc, ISA!npc
          <5> QED
            BY <1>2, <2>3, <5>1 DEF ISA!NextIsa
        <4>4. CASE c = "EINSN" /\ prog[arch_pc].op = "undef"
          <5>1. ISA!Undefined
            BY <2>2, <2>4, <3>1, <4>4, Zenon DEF ISA!Undefined
          <5> QED
            BY <1>2, <2>3, <5>1 DEF ISA!NextIsa
        <4> QED
          BY <4>2, <4>3, <4>4
      <3> QED
        BY <3>2, <3>3, <3>4, <3>5 DEF Fe
    <2> QED
      BY <2>5, <2>6
  <1> QED
    BY <1>12, <1>13

\* From IDLE, a D$ operation enters without a fault.
LEMMA IdleAlike ==
    ASSUME IInv, Alike, NoStaleFault, fsm = "IDLE", NEW w \in BOOLEAN, NEW fault \in Faults,
           Registers(TRUE, w, fault)
    PROVE  Alike'
  <1>1. psr' = psr /\ epsr' = epsr /\ prog' = prog
    BY IdleFacts, Zenon DEF Registers
  <1>2. ~l2'.valid
    BY DEF Registers, IInv, Control
  <1>3. ASSUME l1'.valid, opc(rob[1])' = "dcop" PROVE l1'.exc = {} /\ tlb' = {}
    <2>1. w /\ s1i_valid
      BY <1>3 DEF Registers, IInv, Control
    <2>2. pipe_req
      BY <2>1 DEF s1i_valid, lsu_req_valid
    <2>3. ~se.fls /\ rob # <<>> /\ Typed /\ Walk
      BY <2>2 DEF pipe_req, lsu_req, epu_req, IInv, Typed
    <2>4. Advance(0)
      BY <2>2, <2>3, IdleFacts, ZenonT(40) DEF Registers
    <2>5. rob'[1] = rob[1]
      <3>1. 0 \in 0 .. 2 /\ 0 <= nready
        BY <2>3, CommitCounts, Zenon DEF Typed
      <3> QED
        BY <1>1, <2>3, <2>4, <3>1, AdvanceFacts, Zenon
    <2>6. opc(rob[1]) = "dcop"
      BY <1>1, <1>3, <2>5 DEF opc
    <2>7. s1i_dcop
      BY <2>1, <2>6 DEF s1i_valid
    <2> QED
      BY <2>1, <2>7, Zenon DEF Registers, NoStaleFault
  <1> QED
    BY <1>1, <1>2, <1>3 DEF Alike

\* Every edge is a step of the instruction set or none.
LEMMA StepRefines ==
    ASSUME SingleFaults, CachesFixed, IInv, Alike, NoStaleFault, [Next]_vars
    PROVE  [ISA!NextIsa]_ISA!isa_vars /\ Alike'
  <1>1. CASE UNCHANGED vars
    <2>1. arch_pc' = arch_pc
      BY <1>1, Zenon DEF vars, fetch_vars, arch_pc
    <2>2. opc(rob[1])' = opc(rob[1])
      BY <1>1, Zenon DEF vars, fetch_vars, opc
    <2>3. Alike'
      BY <1>1, <2>2, Zenon DEF vars, fetch_vars, Alike
    <2> QED
      BY <1>1, <2>1, <2>3, ZenonT(40) DEF vars, fetch_vars, ISA!isa_vars
  <1>2. CASE Next /\ fsm = "IDLE"
    <2>1. PICK w \in BOOLEAN, fault \in Faults : Registers(TRUE, w, fault)
      BY <1>2, IdleEdge, Zenon
    <2> QED
      BY <1>2, <2>1, IdleStep, IdleAlike, Zenon
  <1>3. CASE Next /\ fsm = "PENDING"
    <2>1. PICK p \in BOOLEAN, fault \in Faults : Registers(p, p, fault)
      BY <1>3, PendingEdge
    <2>2. CASE ~pipe_finish(p)
      BY <1>3, <2>1, <2>2, WaitStep, Zenon
    <2>3. CASE pipe_finish(p)
      <3>1. p = TRUE
        BY <2>3 DEF pipe_finish
      <3>2. Registers(TRUE, TRUE, fault) /\ pipe_finish(TRUE)
        BY <2>1, <2>3, <3>1, Zenon
      <3>3. fsm' = "IDLE" /\ IInv'
        BY <1>3, <3>2, NextIInv, PendingFacts, Zenon DEF Registers
      <3>4. ~l1'.valid /\ ~l2'.valid
        BY <3>3 DEF IInv, Control
      <3>5. ISA!NextIsa /\ ~psr'.ce /\ ~epsr'.ce
        BY <1>3, <3>2, FinishStep, TrapStep, Zenon
      <3> QED
        BY <3>4, <3>5 DEF Alike
    <2> QED
      BY <2>2, <2>3
  <1> QED
    BY <1>1, <1>2, <1>3 DEF IInv, Typed

\* The commit stage implements the instruction set, for every program that leaves
\* the caches alone, whatever is predicted, and however deep the reorder buffer
\* is, as long as an access has one fault at most and a D$ operation finds none
\* left in the DMMU (cmt.v, cmt_lsu.v, cmt_epu.v and cmt_psr.v against cpu.cc).
THEOREM CommitRefines ==
    ASSUME SingleFaults, CachesFixed
    PROVE  Spec /\ []NoStaleFault => ImplementsIsa
  <1>1. Init => ISA!InitIsa /\ Alike
    <2> SUFFICES ASSUME Init PROVE ISA!InitIsa /\ Alike
      OBVIOUS
    <2>1. arch_pc = 0
      BY DEF Init, arch_pc
    <2>2. ISA!InitIsa
      BY <2>1, Zenon DEF Init, ISA!InitIsa
    <2>3. Alike
      BY DEF Init, Alike, NoLsu, ISA!ResetPsr
    <2> QED
      BY <2>2, <2>3
  <1>2. IInv /\ Alike /\ NoStaleFault /\ [Next]_vars => [ISA!NextIsa]_ISA!isa_vars /\ Alike'
    BY StepRefines
  <1> QED
    BY <1>1, <1>2, CommitInvariant, PTL DEF Spec, ImplementsIsa, ISA!IsaSpec
=============================================================================
