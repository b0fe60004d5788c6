-------------------------------- MODULE Uart --------------------------------
(***************************************************************************)
(* The simulated UART.  Its operations run to completion in one thread, so *)
(* each is a function of the state s of the simulator: s.uart[d] the       *)
(* registers of the device of tree d, s.irr the bit of the UART in the IRR *)
(* of the emulator, s.host the characters waiting in the host's serial     *)
(* port and s.dat the one virt-uart keeps for the other tree.  The         *)
(* registers no operation changes (rdy, tx_full, dout_overun) are the      *)
(* constants reset leaves in them.                                         *)
(***************************************************************************)
EXTENDS Memory

\* The tree of the RTL is built without a CPU.
in_difftest(d) == d = "rtl"

reset == [RBR |-> 0, DLR |-> 160, IER |-> 0, LCR_DLAB |-> FALSE, IIR |-> 1,
          dat_ready |-> FALSE, RBR_written |-> FALSE]

bit(x, i) == (x \div 2 ^ i) % 2 = 1
Idle(u) == u.IIR % 2 = 1
IIR_sel(u) == (u.IIR \div 2) % 4
RxEnabled(u) == bit(u.IER, 0)
TxEnabled(u) == bit(u.IER, 1)

irqc_set_interrupt(s, d, raise) == IF in_difftest(d) THEN s ELSE [s EXCEPT !.irr = raise]

\* What polls will get: the character kept for the other tree comes first.
Waiting(s) == s.dat \o s.host

\* virt_uart_poll_read: with two trees, a character is read once from the host
\* and kept for the poll that comes next.
virt_uart_poll_read(s) ==
    IF s.dat # <<>> THEN [s EXCEPT !.dat = <<>>]
    ELSE [s EXCEPT !.host = Tail(@), !.dat = IF s.in_difftest THEN <<Head(s.host)>> ELSE <<>>]

\* Mutant: the host is polled only when the last character has been taken.
Polled_WaitsForReader(s, d) ==
    IF Waiting(s) = <<>> \/ s.uart[d].dat_ready THEN s
    ELSE [virt_uart_poll_read(s) EXCEPT !.uart[d].RBR = Head(Waiting(s)), !.uart[d].dat_ready = TRUE]

Polled(s, d) ==
    IF Waiting(s) = <<>> THEN s
    ELSE [virt_uart_poll_read(s) EXCEPT !.uart[d].RBR = Head(Waiting(s)), !.uart[d].dat_ready = TRUE]

\* A received character comes before an empty transmitter.
Raised(s, d) ==
    LET u == s.uart[d]
    IN  IF u.dat_ready /\ RxEnabled(u)
        THEN irqc_set_interrupt([s EXCEPT !.uart[d].IIR = 4], d, TRUE)
        ELSE IF u.RBR_written /\ TxEnabled(u)
        THEN irqc_set_interrupt([s EXCEPT !.uart[d].IIR = 2, !.uart[d].RBR_written = FALSE], d, TRUE)
        ELSE s

\* Mutant: the host is polled with an interrupt pending.
step_PollAlways(s, d) == IF Idle(s.uart[d]) THEN Raised(Polled(s, d), d) ELSE Polled(s, d)

step(s, d) == IF Idle(s.uart[d]) THEN Raised(Polled(s, d), d) ELSE s

Accept(s, d) == irqc_set_interrupt([s EXCEPT !.uart[d].IIR = @ + 1], d, FALSE)

\* Mutant: the interrupt line is not lowered.
AcceptedByWrite_LineStays(s, d, reg) ==
    LET u == s.uart[d]
    IN  IF ~Idle(u) /\ IIR_sel(u) = 1 /\ reg = 0 /\ ~u.LCR_DLAB
        THEN [s EXCEPT !.uart[d].IIR = @ + 1] ELSE s

\* The interrupt a write accepts: the transmitter's, by the next character.
AcceptedByWrite(s, d, reg) ==
    LET u == s.uart[d]
    IN  IF ~Idle(u) /\ IIR_sel(u) = 1 /\ reg = 0 /\ ~u.LCR_DLAB THEN Accept(s, d) ELSE s

\* Mutant: the tree that does not print does not note the character either.
Transmitted_Printed(s, d) == step([s EXCEPT !.uart[d].RBR_written = @ \/ ~in_difftest(d)], d)

Transmitted(s, d) == step([s EXCEPT !.uart[d].RBR_written = TRUE], d)

\* DLR is eight bits wide: what is written to its high half is lost.
Written(s, d, reg, val) ==
    CASE reg = 0 -> IF s.uart[d].LCR_DLAB THEN [s EXCEPT !.uart[d].DLR = val] ELSE Transmitted(s, d)
      [] reg = 1 -> IF s.uart[d].LCR_DLAB THEN s ELSE [s EXCEPT !.uart[d].IER = val % 16]
      [] reg = 3 -> [s EXCEPT !.uart[d].LCR_DLAB = bit(val, 7)]
      [] OTHER -> s

\* Mutant: the register is written and the device is left as it is.
writem8_NoStep(s, d, addr, val) ==
    Written(AcceptedByWrite(s, d, addr % uart_size), d, addr % uart_size, val)

writem8(s, d, addr, val) ==
    step(Written(AcceptedByWrite(s, d, addr % uart_size), d, addr % uart_size, val), d)

\* LCR_DLAB holds bit 7 in place, so that shifting it left again leaves nothing
\* of it in the eight bits of LCR that are read.
Readout(u, reg) ==
    CASE reg = 0 -> IF u.LCR_DLAB THEN u.DLR ELSE u.RBR
      [] reg = 1 -> IF u.LCR_DLAB THEN 0 ELSE u.IER
      [] reg = 2 -> u.IIR
      [] reg = 3 -> 3
      [] reg = 5 -> 64 + 32 + (IF u.dat_ready THEN 1 ELSE 0)
      [] reg = 6 -> 128
      [] OTHER -> 0

\* The interrupt a read accepts, by RBR or by IIR; either drops the character.
AcceptedByRead(s, d, reg) ==
    LET u == s.uart[d]
        hit == (IIR_sel(u) = 2 /\ reg = 0) \/ (IIR_sel(u) = 1 /\ reg = 2)
    IN  IF ~Idle(u) /\ hit /\ ~u.LCR_DLAB
        THEN Accept([s EXCEPT !.uart[d].dat_ready = FALSE], d) ELSE s

readm8(s, d, addr) == step(AcceptedByRead(s, d, addr % uart_size), d)
=============================================================================
