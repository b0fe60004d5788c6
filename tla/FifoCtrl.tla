------------------------------ MODULE FifoCtrl ------------------------------
(***************************************************************************)
(* The first-word-fall-through FIFO controller fifo_fwft_ctrl_rp_wp.v with *)
(* its synchronous payload RAM, as functions of the registers.  The banks  *)
(* of the reorder buffer and of the prefetch buffer are made of it.        *)
(***************************************************************************)
EXTENDS Naturals

CONSTANTS DEPTH_WIDTH,   \* log2 of the number of entries
          Data,          \* the words stored
          NoData         \* the value of a register never loaded

Depth == 2 ^ DEPTH_WIDTH

(* The second conjunct is for the provers, who do not know of powers.       *)
ASSUME FifoConstants ==
    /\ DEPTH_WIDTH \in Nat \ {0} /\ NoData \notin Data
    /\ Depth \in Nat /\ Depth >= 2

Addr == 0 .. Depth - 1
Ptr == 0 .. 2 * Depth - 1     \* one bit more than an address
Word == Data \cup {NoData}

FifoState == [w_ptr : Ptr, r_ptr : Ptr, state_r : BOOLEAN, dat_r : Word,
              din_r : Word, rf_bypass : BOOLEAN, rf : [Addr -> Word], rdata : Word]

FifoInit == [w_ptr |-> 0, r_ptr |-> 0, state_r |-> FALSE, dat_r |-> NoData,
             din_r |-> NoData, rf_bypass |-> FALSE, rf |-> [a \in Addr |-> NoData],
             rdata |-> NoData]

Low(p) == p % Depth
Msb(p) == p \div Depth

\* A pointer after one push or pop, zeroed by flush.
PtrNxt(p, flush) == IF flush THEN 0 ELSE (p + 1) % (2 * Depth)

FifoReady(s) == Msb(s.w_ptr) = Msb(s.r_ptr) \/ Low(s.w_ptr) # Low(s.r_ptr)
FifoValid(s) == s.w_ptr # s.r_ptr

FifoDout(s) == IF s.state_r THEN s.dat_r
               ELSE IF s.rf_bypass THEN s.din_r ELSE s.rdata

\* The RAM reads the address it writes: its output is the old word.
rf_conflict(s, push, pop, flush) ==
    Low(s.w_ptr) = Low(PtrNxt(s.r_ptr, flush)) /\ push /\ pop

\* The registers after a clock edge.
FifoNext(s, push, din, pop, flush) ==
    LET fwft_nxt == ~s.state_r /\ ~FifoValid(s) /\ push
        clr_state == s.state_r /\ pop
        waddr == Low(s.w_ptr)
        raddr == Low(PtrNxt(s.r_ptr, flush))
        conflict == rf_conflict(s, push, pop, flush)
    IN  [w_ptr |-> IF push \/ flush THEN PtrNxt(s.w_ptr, flush) ELSE s.w_ptr,
         r_ptr |-> IF pop \/ flush THEN PtrNxt(s.r_ptr, flush) ELSE s.r_ptr,
         state_r |-> IF fwft_nxt \/ clr_state \/ flush
                     THEN (fwft_nxt \/ ~clr_state) /\ ~flush ELSE s.state_r,
         dat_r |-> IF fwft_nxt THEN din ELSE s.dat_r,
         din_r |-> IF pop THEN din ELSE s.din_r,
         rf_bypass |-> IF conflict \/ pop THEN conflict \/ ~pop ELSE s.rf_bypass,
         rf |-> IF push THEN [s.rf EXCEPT ![waddr] = din] ELSE s.rf,
         rdata |-> IF pop THEN s.rf[raddr] ELSE s.rdata]

\* The words held, oldest first: what the controller stands for.
FifoCount(s) == (s.w_ptr + 2 * Depth - s.r_ptr) % (2 * Depth)

FifoContents(s) ==
    [k \in 1 .. FifoCount(s) |->
        IF k = 1 THEN FifoDout(s) ELSE s.rf[Low(s.r_ptr + k - 1)]]
=============================================================================
