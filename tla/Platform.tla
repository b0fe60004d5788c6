------------------------------ MODULE Platform ------------------------------
(***************************************************************************)
(* The main loops of the simulator: the emulator alone, the RTL alone, or  *)
(* both compared.  Under comparison each machine has a memory and a device *)
(* tree of its own; the RTL performs an access when its bus reaches the    *)
(* memory, the emulator the same access later, when the instruction        *)
(* commits, and the devices are clocked in between.  The bus of the RTL    *)
(* reads what it is about to write, devices included.                      *)
(***************************************************************************)
EXTENDS Uart

CONSTANTS
    Accesses,       \* the uncached accesses of the software:
                    \* [w : BOOLEAN, size, addr, val]
    Image,          \* the flash image, [0 .. n - 1 -> 0 .. 255]
    Chars,          \* the characters typed at the host
    device_clk_div,
    MaxTyped,       \* bound: characters waiting in the host
    MaxAhead        \* bound: accesses of the RTL that have not committed

VARIABLES
    mode,       \* args.mode
    s,          \* the state of both machines, and of the serial port
    device_clk,
    ahead,      \* accesses of the RTL the emulator has still to perform
    typed,      \* something has been typed
    fcr,        \* the RTL has written FCR under comparison
    agree       \* both machines read the same so far

vars == <<mode, s, device_clk, ahead, typed, fcr, agree>>

ASSUME AccessAssumption == \A op \in Accesses : op.addr \in Nat

Trees == {"emu", "rtl"}
None == [w |-> FALSE, size |-> 0, addr |-> 0, val |-> 0]

Init ==
    /\ mode \in {"standalone", "difftest", "simulate"}
    /\ s = [uart |-> [d \in Trees |-> reset],
            dram |-> [d \in Trees |-> [a \in 0 .. memory_size - 1 |-> 0]],
            flash |-> [d \in Trees |-> Image],
            irr |-> FALSE, host |-> <<>>, dat |-> <<>>,
            in_difftest |-> mode = "difftest", running |-> TRUE]
    /\ device_clk = 0
    /\ ahead = <<>>
    /\ typed = FALSE /\ fcr = FALSE /\ agree = TRUE

-----------------------------------------------------------------------------
(* The accesses of one machine.                                            *)

\* phy_writem8, 16, 32 and 64.
phy_writem(x, d, op) ==
    LET target == Target(op.size, op.addr, TRUE)
    IN  CASE target = "uart" -> writem8(x, d, op.addr, op.val)
          [] target = "flash" ->
                [x EXCEPT !.flash[d] = Flash_writem(@, op.addr - flash_base, op.val, op.size)]
          [] target = "dram" -> [x EXCEPT !.dram[d] = Stored(@, op.addr, op.val, op.size)]
          [] target = "dropped" -> x
          [] OTHER -> [x EXCEPT !.running = FALSE]

\* phy_readm8, 16, 32 and 64: the effect, and the value.
phy_readm(x, d, op) ==
    LET target == Target(op.size, op.addr, FALSE)
    IN  CASE target = "uart" -> readm8(x, d, op.addr)
          [] target \in {"flash", "dram"} -> x
          [] OTHER -> [x EXCEPT !.running = FALSE]

ReadValue(x, d, op) ==
    LET target == Target(op.size, op.addr, FALSE)
    IN  CASE target = "uart" -> Readout(x.uart[d], op.addr % uart_size)
          [] target = "flash" -> Flash_readm(x.flash[d], op.addr - flash_base, op.size)
          [] target = "dram" -> Loaded(x.dram[d], op.addr, op.size)
          [] OTHER -> 0

\* The memory after an access of the emulator, or after none.
Access(x, d, op) ==
    IF op = None THEN x ELSE IF op.w THEN phy_writem(x, d, op) ELSE phy_readm(x, d, op)

\* The memory after an access of the RTL: before a beat is written it is read, to
\* be merged with the strobes, and that read is as good as any other.
BusAccess(x, d, op) ==
    LET y == phy_readm(x, d, op)
    IN  IF op = None THEN x ELSE IF op.w /\ y.running THEN phy_writem(y, d, op) ELSE y

-----------------------------------------------------------------------------
(* The loops.                                                              *)

\* Something is typed at the host.
Type(c) ==
    /\ s.running /\ Len(s.host) < MaxTyped
    /\ s' = [s EXCEPT !.host = Append(@, c)]
    /\ typed' = TRUE
    /\ UNCHANGED <<mode, device_clk, ahead, fcr, agree>>

\* The clock of the devices, and run_step with the access of its instruction.
Standalone(op) ==
    /\ mode = "standalone" /\ s.running
    /\ LET tick == device_clk + 1 = device_clk_div
       IN  /\ device_clk' = IF tick THEN 0 ELSE device_clk + 1
           /\ s' = Access(IF tick THEN step(s, "emu") ELSE s, "emu", op)
    /\ UNCHANGED <<mode, ahead, typed, fcr, agree>>

\* Emu::clk with an access of the RTL, which uses the memory of the emulator.
SimulateOnly(op) ==
    /\ mode = "simulate" /\ s.running
    /\ s' = LET x == BusAccess(s, "emu", op) IN IF x.running THEN step(x, "emu") ELSE x
    /\ UNCHANGED <<mode, device_clk, ahead, typed, fcr, agree>>

WritesFCR(op) == op.w /\ op.addr = uart_base + 2

\* Emu::clk with an access of the RTL, then dpic_step, which may copy the IRR of
\* the RTL (its other interrupts are tied low) and commit the oldest access,
\* then both trees.
Difftest(op, eirq, commit) ==
    /\ mode = "difftest" /\ s.running
    /\ op # None => Len(ahead) < MaxAhead
    /\ commit => ahead # <<>>
    /\ \E x \in {BusAccess(s, "rtl", op)} :
       LET y == IF eirq THEN [x EXCEPT !.irr = FALSE] ELSE x
           old == IF commit THEN Head(ahead) ELSE [op |-> None, ret |-> 0]
           z == IF x.running THEN Access(y, "emu", old.op) ELSE x
       IN  /\ s' = IF z.running THEN step(step(z, "emu"), "rtl") ELSE z
           /\ ahead' = (IF commit THEN Tail(ahead) ELSE ahead)
                       \o IF op = None THEN <<>>
                          ELSE <<[op |-> op, ret |-> IF op.w THEN 0 ELSE ReadValue(s, "rtl", op)]>>
           /\ agree' = (agree /\ (commit /\ ~old.op.w => ReadValue(y, "emu", old.op) = old.ret))
    /\ fcr' = (fcr \/ WritesFCR(op))
    /\ UNCHANGED <<mode, device_clk, typed>>

Loop ==
    \E op \in Accesses \cup {None} :
        \/ Standalone(op)
        \/ SimulateOnly(op)
        \/ \E eirq, commit \in BOOLEAN : Difftest(op, eirq, commit)

Next == (\E c \in Chars : Type(c)) \/ Loop

\* The loop of the emulator never waits: every iteration of it clocks device_clk.
Fairness == mode = "standalone" => []<>(~s.running) \/ []<><<device_clk' # device_clk>>_vars

Spec == Init /\ [][Next]_vars /\ Fairness
-----------------------------------------------------------------------------
(* The properties.                                                         *)

\* No interrupt is missed: a device that has nothing pending has neither a
\* character nor an empty transmitter its software wants to hear of.
NoMissedInterrupt ==
    \A d \in Trees : LET u == s.uart[d]
                     IN  Idle(u) => ~(u.dat_ready /\ RxEnabled(u)) /\ ~(u.RBR_written /\ TxEnabled(u))

\* The IRR of the emulator follows the device: its bit is set exactly while IIR
\* tells of a pending interrupt (outside of difftest, where dpic_step
\* overwrites IRR).
IrqLine == mode # "difftest" => (s.irr <=> ~Idle(s.uart["emu"]))

\* Machine d performs op in this step; the emulator of a difftest when it commits.
Performs(d, op) ==
    \/ d = "emu" /\ (Standalone(op) \/ SimulateOnly(op))
    \/ d = "rtl" /\ \E e, c \in BOOLEAN : Difftest(op, e, c)
    \/ /\ d = "emu" /\ ahead # <<>> /\ Head(ahead).op = op
       /\ \E o \in Accesses \cup {None}, e \in BOOLEAN : Difftest(o, e, TRUE)

\* A character the software of machine d has been told of leaves RBR.
Replaced(d) == s.uart[d].IIR = 4 /\ s'.uart[d].RBR # s.uart[d].RBR

\* A character the software has been told of is not lost: in RBR it stays until
\* the machine that was told accesses register 0, the emulator to read it.  Only
\* on the bus of the RTL can that access be a write.
NoInputLost ==
    [][\A d \in Trees : Replaced(d) =>
          \E op \in Accesses : /\ op.addr = uart_base /\ Performs(d, op)
                               /\ op.w => mode = "simulate" \/ d = "rtl"]_vars

\* What the comment of readm8 says of the interrupt of a character: it is accepted
\* by "read RBR" (pb-uart.cc:153), so that nothing but a read makes room for the
\* next character.  The read before each write of the RTL's bus
\* (axi4-crossbar.cc:310) does so as well: printing loses what was typed.
InputReadFirst ==
    [][\A d \in Trees : Replaced(d) =>
          \E op \in Accesses : ~op.w /\ op.addr = uart_base /\ Performs(d, op)]_vars

\* The machines of a difftest agree: each read gives both the same value, and
\* when the emulator has caught up so are the devices and memories.
Together == agree /\ (ahead = <<>> => \A f \in {"uart", "dram", "flash"} : s[f]["emu"] = s[f]["rtl"])

\* As long as nothing is typed and FCR is not written, the machines agree however
\* far the emulator is behind and however often the devices are clocked in
\* between, and although only one of them reads what it is about to write.  A
\* write of FCR by the RTL reads IIR first (axi4-crossbar.cc:310) and so accepts
\* the interrupt of its transmitter; that of the emulator does not.
MachinesAgree == mode = "difftest" /\ s.running /\ ~typed /\ ~fcr => Together

\* What is typed is noticed, whatever the software does: it is read from the
\* host, or an older interrupt is waiting to be accepted.
InputNoticed ==
    mode = "standalone" /\ s.host # <<>> ~> s.host = <<>> \/ ~s.running \/ ~Idle(s.uart["emu"])
=============================================================================
