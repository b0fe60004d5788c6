# nano-cpu32k: a TLA+ verification project

nano-cpu32k is an out-of-order, two-wide RISC core in Verilog (`src/rtl`) with
a C++ emulator that runs beside it in simulation and is compared with it
instruction by instruction (`src/em/csrc`, `src/testbench`). This directory
models the core, the emulator where it defines what the core must do, the
simulated memory port between them, and the simulator's devices and main loops.
TLC checks the models on small instances. TLAPS proves, for every size, every
safety property that the runs check of the front end, renaming, the back end, the
reorder buffer and its FIFOs, commit, address translation, interrupts, both
caches, the memory port with its fabric, and the simulator's devices, and that
the emulator's cache is transparent. What is proved of commit and of interrupts
has hypotheses, which section 5 names. The execution of instructions and liveness
are checked by TLC only.

## 1. The system

| Part | State | Operations | What makes it hard |
|---|---|---|---|
| Front end (`frontend.v`, `prefetch_buf.v`, `id.v`) | PC, two fetch stages, banked queue | fetch, predict, redirect, push, pop | stalls on both sides, redirection while stalled, targets inside a window |
| Branch predictor (`bpu.v`) | BTB, PHT, global history | predict, train | trained long after the prediction |
| I$ (`icache.v`) | tags, words, FSM, counters | hit, refill, uncached, kill, ICINV | RAM output undefined after a write, ICINV while busy |
| MMUs (`immu.v`, `dmmu.v`) | TLBs and output registers | translate, write an entry | fetch runs ahead of TLB writes |
| Rename (`rn*.v`) | free lists, alias tables, busy table | rename, write back, commit, roll back | all at one edge, dependences inside a pair |
| Issue and execution (`issue*.v`, `ro.v`, `ex*.v`, `wb_mux.v`, `prf.v`) | stations, pipes, registers | push, wake, pick, execute, write back | write port shared with the LSU, choice by position |
| ROB (`rob.v`) | two banks of FIFOs, tags | push, write back, commit, flush | bank conflicts, pointer wrap, results after a flush |
| Commit (`cmt*.v`) | FSM, LSU stages, PSR, EPSR, EPC, timer, IRQ controller | retire, access, trap, refetch | D$ stalls, mispredictions behind a pending access |
| D$ (`dcache.v`) | tags, V, D, words, FSM | hit, evict, refill, flush, invalidate, uncached | eviction address, counters, five bus channels |
| AXI fabric (`rtl/fabric`) | locks, grants, slices | arbitrate, forward | drift of AW and W, starvation |
| Emulator (`cpu.cc`, `msr.cc`, `mmu.cc`, `cache.cc`, `irqc.cc`, `tsc.cc`) | registers, memory, caches | one call per instruction | is the reference, and has flaws of its own |
| Co-simulation (`dpi-c.cc`, `emu.cc`, `axi4-crossbar.cc`) | requests in flight | `clk_rising`, `clk_falling`, `dpic_step` | order of the calls around a clock edge |
| Devices and main loops (`memory.cc`, `flash.cc`, `pb-uart.cc`, `main.cc`) | DRAM, MMIO registry, UART, a device clock | access, clock the devices, run a machine or both | interrupt causes behind a pending one, two copies of each device that are accessed at different times |

Instructions go front end -> rename -> issue -> execution -> ROB -> commit.
Loads, stores and privileged instructions run at commit, in order. A commit may
redirect the front end and roll rename back. The caches share one memory port.
`PROJECT.json` lists every part, modelled or not, and the hazards with the
line where each bites.

## 2. How the code becomes TLA+

The core is synchronous. In its modules **one step is one clock edge**: the
registers are variables, a wire is an operator of the same name, and what the
neighbours do is an input chosen with `\E`. `Clock(...)` is therefore the whole
design at that edge, and simultaneous events (commit with flush, push with pop)
are one step. In `Exec` a step executes one instruction on both machines; in
`Crossbar` a step is one `Emu::clk`, and in `Platform` one turn of a main loop.

| Module | Models | Notes |
|---|---|---|
| `Rename` | `rn.v`, `rn_fl.v`, `rn_rat.v`, `rn_busytable.v` | bit vectors are sets; `rob` keeps what is in flight in program order |
| `BackendProofs`, `CommitProofs`, `CrossbarProofs`, `DCacheProofs`, `FrontendProofs`, `ICacheProofs`, `PlatformProofs`, `RobProofs` | | the theorems and their proofs (section 5) |
| `FifoCtrl`, `Fifo` | `fifo_fwft*.v` | pointers with wrap bit, RAM, bypass register |
| `BoundedQueue` | | abstract: what the FIFO promises |
| `Rob` | `rob.v` | a bank is FifoCtrl's pointers and the queue `Fifo` implements |
| `InOrderBuffer` | | abstract: in-order entry and exit, completion in any order |
| `HdsBuf`, `Axi` | `hds_buf.v`, `rtl/fabric` | arbiters, multiplexers and slices, with both caches as masters |
| `ICache`, `DCache` | `icache.v`, `dcache.v` | a word is its address and a version; junk is a value of its own |
| `Frontend` | `frontend.v`, `prefetch_buf.v`, `id.v` | any prediction, any I$ stall, any refused window |
| `Backend` | `issue*.v`, `ro.v`, `ex_pipe.v`, `wb_mux.v`, busy table | of a register, only whether it holds its instruction's value |
| `Exec` | `id_dec.v`, `ex_*.v`, `cmt_lsu.v` lanes; `CPU::step` | the pipeline and the emulator side by side |
| `Msr` | `cmt_psr.v`, `cmt_epu.v`; `msr.cc` | the privileged registers of both machines, used by `Exec` |
| `Commit` | `cmt.v`, `cmt_lsu.v`, `cmt_epu.v`, `cmt_psr.v` | programs with wrong predictions, faults, stalls |
| `Isa` | `cpu.cc` | abstract: control flow and exception state |
| `Mmu` | `immu.v`, `dmmu.v`, TLB writes; `mmu.cc` | both translations of each instruction |
| `Irq` | `cmt_tsc.v`, `cmt_irqc.v`, `id_dec.v`, `cmt_epu.v`; `dpi-c.cc`, `irqc.cc`, `tsc.cc` | |
| `EmuCache` | `cache.cc` | lookup, LRU, replacement, flush as functions of cache and memory, used by `Exec` |
| `Crossbar` | `axi4-crossbar.cc`, `emu.cc`, behind `Axi` | of DRAMsim3 (vendored), that it may refuse and delay; uncached accesses reach devices and DRAM |
| `Memory`, `Uart` | `memory.cc`, `flash.cc`; `pb-uart.cc`, `virt-uart.cc` | as functions of the device's record, used by `Platform` |
| `Platform` | `main.cc`, `device-tree.cc`, the accesses of `axi4-crossbar.cc` | the three main loops; a difftest with the emulator behind the RTL, whose bus reads what it is about to write |

Each `MC*` module gives the constants of its model; each `.cfg` is one run.
An operator named `X_Something` just before `X` is a wrong version of `X`, the
mutant that shows that a property can fail.

The modules are composed by contract. `Rob` uses the queue that `Fifo`
implements. `Backend` assumes what `Rename` and `Rob` show, and that late
instructions never finish at two edges in a row, which follows from the theorem
`FinishesPendingHolds` since the FSM of `Commit` is idle in between. `DCache`
gets one access at a time, which is `Commit!AccessOnce`.
`Frontend` takes the I$ as `ICache` shows it. These assumptions are matched by
reading, not by a machine-checked composition.

## 3. What the runs check

Each run takes a few seconds to three minutes with two workers. A bound is
large enough when the case it has to reach is in the instance; the right-hand
column says which that is.

| Run | Shows | Instance, and why it is enough |
|---|---|---|
| `rename_rob` | `PhysicalRegistersPartitioned`: a physical register is free, in flight, or the home of a logical one, and only one of these. `RatIsReplay`: the speculative table is the committed one with the instructions in flight replayed. `UnwrittenIsBusy`. `SourcesStayLive`: nothing frees a register that is still to be read. `ImplementsInOrder`: the two banks of the ROB are one in-order buffer (refinement of `InOrderBuffer`). `CommitsOwnResult`. | 2 logical, 4 physical registers, 4 in flight: the free list runs dry, and both lanes of a pair write the same register. Two banks of two: the pointers wrap, and two results fall in one bank. One of the two components runs while the other is in reset, as their product is beyond TLC. |
| `icache` | `DeliversWordAsked`, `FetchesAreFresh` (after an ICINV), `ReturnsToIdle`. | One set, 2 ways, 2 lines of 2 words, one store: the lines displace each other. |
| `dcache` | `LoadsLastStore`, `NothingLost`, `FlushReachesMemory`, `ReturnsToIdle`. | One set, 2 ways, 2 lines, one watched word of 2 lanes, one of which is stored to, so that a store has to keep its neighbour. |
| `commit` | `ImplementsIsa`: the stage refines `Isa`, the architecture. `AccessOnce`. `Finishes`. | All two-instruction programs over 12 opcodes, with two handlers, any prediction, fault, interrupt and D$ stall. |
| `frontend` | `DecodesPath`: what is decoded is the predicted path. `Supplies`. | 2 windows of 2; a prediction may land inside a window, any window may be refused, one redirection at any time. |
| `backend` | `OperandsWritten`, `ExecutedOnce`, `CommittedWritten`, `Leaves`. | Stations of 2, 4 ROB places, one logical register, loads that depend on what came before and instructions without operands that overtake them: write port conflicts and bypasses happen. |
| `exec` | `SameRegs`, `SamePc`, `SameMem`: the pipeline's results are the emulator's. | Words of 4 bits, all operand values that programs compute; five mixes (ALU, memory, modes, traps, cached). |
| `mmu` | `FetchTranslated`, `AccessTranslated`: each commits with the emulator's translation. | 2 I and 1 D sets, 2 pages per set, permissions that tell every check apart, 2 instructions fetched ahead. |
| `irq` | `InterruptsAgree`; `MatchTaken`: every match of the timer leads to an interrupt or is acknowledged, unless software keeps interrupts off; only a match at the very edge of an acknowledgement is dropped; `Served`. | A two-bit timer, 2 instructions in the pipe, refill of up to 3 edges. |
| `memory_path` | `BeatsConserved`, `AssertionsHold` (those of `clk_rising`), `ReadsBack`, `AccessesEnd`. | Lines of 4 beats, every aligned byte, halfword and word; DRAM that refuses and delays. |
| `platform` | `NoMissedInterrupt`, `IrqLine`, `NoInputLost`: a character that was announced stays in RBR until the machine it was announced to accesses that register; `InputNoticed`; `MachinesAgree`: two machines of a difftest read the same while nothing is typed and FCR is not written. | 2 bytes of DRAM, 2 of flash, the UART's registers, one typed character, an emulator one access behind, devices clocked at every second turn. |
| `platform_input` | A violation: `InputReadFirst`, only a read of RBR makes room for the next character. | As `platform`. |

The first eleven pass. `platform_input` fails, in the simulation of the RTL:
`clk_rising` reads every beat before it writes it (`axi4-crossbar.cc:310`, under
"FIXME For MMIO, wstrb behaves incorrectly"), and at the UART that read has the
effects of any other. A write of THR is a read of RBR first. It accepts the
interrupt of a character that nobody has read, and the next one takes its place,
while `pb-uart.cc:153` says of that interrupt "read RBR". `NoInputLost` is what
still holds. By the same read a write of FCR accepts the interrupt of the
transmitter in the RTL's device tree and not in the emulator's; from then on the
two may differ, so `MachinesAgree` speaks of a difftest in which FCR has not been
written.

Only the two runs of `Platform` may stop (the simulation ends on a panic), so they
are the only ones in which deadlock is not an error.

Instances leave these out, on purpose:

- `commit`: no MBARR (it never finishes, section 6), no access that is misaligned
  and misses the TLB at once, no D$ operation inside a TLB handler.
- `exec`: no JMP whose link register is its target register, MSRs only in root
  mode, none read before it is written, no RMSR of EVECT, no DCINV; CY, OV, OE,
  ICE and DCE of the PSR are left out. Sets and ways are equally many, so that
  the D flags of the emulator's cache start clear (`ConstructedCoherence` is
  about the other geometries).
- `irq`: software touches IMR and TCR, and returns from exceptions, only with
  interrupts disabled, never writes P and I of TCR together, and does not return
  to an address whose low byte is that of the vector.
- `backend`: two kinds of instructions. A third takes TLC beyond a few minutes.
- `platform`: a flash image is given.

## 4. Fairness

Nothing in a synchronous design chooses not to take a clock edge. What can be
delayed for ever is a neighbour, so each liveness property assumes weak fairness
of an edge at which the neighbours answer:

- `DCache`, `ICache`: the bus offers what is due. Its own progress is
  `AccessesEnd` of `Crossbar`.
- `Commit`: the D$ and the I$ are ready, which `ReturnsToIdle` of each shows, and
  what has been decoded is executed, which is `Backend!Leaves`.
- `Frontend`: neither the I$ nor the rename stage stalls. Stalls of any finite
  length remain. Redirections are bounded (`MaxFlush`).
- `Backend`: instructions come, what is pending at commit finishes
  (`Commit!Finishes`), and there is no flush.
- `Irq`: the fetch stages deliver and the commit stage is not held up.
- `Crossbar`: the DRAM accepts and answers. This is the part of the vendored
  DRAMsim3: `will_accept` is false while a queue is full and `check_response` is
  null until a request is finished (`cosimulation.cc`), and the DRAM is clocked at
  every tick. Its timing is not modelled.
- `Platform`: in a standalone run the loop reaches the device clock again and
  again, as its counter does. This holds only of the standalone loop.

## 5. What is proved

The proofs hold for every value of the constants. Five proof modules are about two
components and extend both, which is why the definitions of `Rename`, `Irq` and
`Mmu` that other components also have carry a prefix (`RnClock`, `IrqClock`,
`MmuClock`).

**`FrontendProofs`** (assumption `Parameters`: any width and depth of the prefetch
buffer, any program memory of whole windows, any predictions and redirections).
`DecodesPathHolds`. The property speaks of what leaves the buffer, so the
invariant `IInv` follows the path back to the PC: the entries of the buffer, taken
from head to tail across the banks, each lead to the next one (`Filled`), the last
leads to the first lane of the window in stage 2, that window's lanes lead to one
another and its last to `pc` (`Delivered`), and stage 1 has the window at `pc`
(`Fetched`). The work is in the banks: a push rotates a window over them and a
pop rotates the head, so the lemmas speak of the rows of the banks as seen from
the head.

Then interrupts, also in `FrontendProofs`. `InterruptsAgreeHolds` has the
hypothesis `Software`: software writes IMR and TCR and returns from exceptions
with interrupts disabled, returns to no address that looks like the vector, and
writes no TCR with P and I both set. The run `irq` assumes the same (section 3),
and section 6 lists the code that calls for it. The invariant `IrqInv` says that
the registers of the emulator, once the commit that it is handling is done, are
those of the pipeline (`Sync`); that a request the emulator knows of has passed
the synchroniser, and one that is withdrawn drains while interrupts are disabled
(`Requested`); and that an instruction in flight was decoded as an interrupt
exactly if it will be taken as one (`Foreseen`). `MatchTaken`
and `Served` are liveness and left to TLC.

**`RobProofs`** (assumptions `FifoConstants`: at least two slots, and
`FlushingData`: which instructions flush is any set of them). First the FIFO.
`FifoImplementsQueue`: with its fall-through and bypass registers it refines
`BoundedQueue`, at every overlap of push, pop and flush. `FifoFlagsExact`:
`ready` and `valid` are exact. The invariant `FifoInv` says that the pointers are
at most `Depth` apart and that the bypass is used only while there is a word.
The difficulty is arithmetic modulo `2 * Depth`: a lemma on integers says how the
distance of the pointers moves at an edge (`Distances`), another how the contents
shift (`Edge`), and `EdgeIsStep` reads that as a step of the queue. No run checks
the FIFO alone; `Rob` and `Frontend` use the queue.

Then the reorder buffer: its two properties of the run `rename_rob`, for every
depth.
`CommitsOwnResultHolds` needs to know that what is written back goes to the
instruction it is meant for, although places are reused and `wb_mux.v` makes port
0 repeat a write. The invariant `RobInv` therefore says that every place given
out belongs to an instruction in the buffer that is not yet ready, unless port 0
has to repeat it (`Issued`); that the tags of a ready instruction are its own
(`OwnTags`); and that the banks are filled in turn from head to tail
(`Balanced`). `PlacesDiffer` says that the words of a bank have places of their
own, `OnePort` that a bank is written by one port at an edge, and `EntriesMove`
what becomes of each instruction: it survives one step nearer to the head, or it
enters, not ready. `RobImplementsInOrder` is the refinement of `InOrderBuffer`:
instruction `k` from the head is number `k \div 2` of bank `(head + k) % 2`
(`Turns`), and after `n` have left, the one that was `k + n` (`SlotMoves`).

**`BackendProofs`** (assumption `Parameters`: stations of any depth, a reorder
buffer of any even size, any finite set of logical registers, any instructions).
`OperandsWrittenHolds`, `ExecutedOnceHolds` and `CommittedWrittenHolds`. The
invariant `IInv` has two halves. The first is about registers: destinations in
flight are distinct and none is committed (`Distinct`), sources are what was
mapped before the instruction (`Sources`), and a destination in flight is busy or
written (`Status`). The second is about instructions: whatever is in a station or
a pipe is in the reorder buffer, in one place only (`Held`, `Unique`); what is
not ready is in some place (`Waiting`); and what is ready is in none, unless
`wb_mux.v` refused its write because the LSU had the port, and it is in the
register in front of that port (`Ready`, `Done`). `Chosen` says that a station
offers what it still holds and what has its operands. An edge is taken apart by
what it does to each place.

**`CommitProofs`** (assumption `Parameters`: any number of addresses, any
program, vector table, predictions and depth of the reorder buffer, two
instructions at an edge). `CommitRefines`: the commit stage refines `Isa`. Three
hypotheses name the places where the RTL and the emulator differ (section 6), and
all three hold in the run `commit`: `SingleFaults`, no access is misaligned and
misses the TLB at once; `CachesFixed`, programs leave ICE and DCE off; and
`[]NoStaleFault`, no D$ operation follows a faulting access that is still in the
DMMU's registers. `AccessOnceHolds` and `FinishesPendingHolds` need only the
first. The refinement mapping takes as the architectural PC the target of a
pending redirection, else the head of the reorder buffer, else the fetch PC. The
invariant `IInv` is what makes it a mapping: the reorder buffer is a walk along
the predictions (`Walk`), each instruction in it was fetched under the present
PSR unless a flush is about to throw it away (`Allowed`), and what is in the
stages of the LSU and the EPU is the head (`Control`, `Faulting`). An edge is
taken apart by the FSM (`IdleFacts`, `PendingFacts`); `AdvanceFacts` says what
commit and decoder do to the walk; then each case is a step of `Isa` or a
stutter (`IdleStep`, `WaitStep`, `FinishStep`, `TrapStep`).

Then renaming, also in `CommitProofs` (assumption `RenameConstants`: some
logical and physical registers, any bound on the instructions in flight). Type
correctness, `PhysicalRegistersPartitioned`, `ArchFreeListExact`, `RatIsReplay`,
`FreesPreviousMapping`, `SourcesStayLive`, and that the busy table marks exactly
what is unwritten. None is inductive alone: that a commit may free `pfree`
follows from its being the mapping the instruction replaced, which follows from
the table being a replay. The invariant `RenameInv` is the conjunction
`Consistent` of the partition, the complement, the replay, the freed mapping and
the mapped sources, with `BusyInv`. An edge renames two and commits two
instructions at once; the proof shows that it equals appending one at a time and
removing one at a time, and that `Consistent` survives an append
(`AppendConsistent`) and a removal (`CommitConsistent`).

**`ICacheProofs`** (assumptions `Parameters` and `FetchType`: any number of sets,
ways, words and tags, where an invalid tag is none of them; any fetches and
stores). `DeliversWordAskedHolds` and `FetchesAreFreshHolds`. The invariant
`IInv` says that a valid line holds its own words, none older than the last
invalidation of its set, but for the words a refill has yet to bring (`Filled`);
that a line is in one way at most (`Unique`); that what stage 1 read is right for
its fetch and that its set has only lost ways since (`Read`), which is what lets
an ICINV and a pipelined hit overlap; and what stage 2 has got in each state of
the FSM (`Served`). `Control` ties the counters and the bus to the state,
`Versions` what must be fresh to what memory has.

Then address translation, also in `ICacheProofs` (assumption `MmuParameters`:
any number of sets and pages, any entries and PSR values that software writes,
any number of instructions in flight). `FetchTranslatedHolds` and
`AccessTranslatedHolds` state the two properties of the run `mmu`.
`FetchTranslated` speaks of the oldest instruction; the invariant `MmuInv` says
it of every one in flight and of the registers of the IMMU, unless the flush of a
refetch is pending (`UpToDate`), and that a pending access, a request to the EPU
and such a flush exclude one another (`Exclusive`). `ImmuTranslates` and
`DmmuTranslates` show that the Verilog's expressions and the emulator's tests
agree on equal registers; `FetchKeeps` follows the fetch stages through an edge;
`EpuFinishKeeps` is the case that matters, in which every write that changes a
translation either flushes or leaves the flush of a refetch.

**`DCacheProofs`** (assumption `Parameters`: any number of sets, ways, tags and
lanes, any even number of words in a line, any store masks). The three safety
properties of the run `dcache`: `LoadsLastStoreHolds`, `NothingLostHolds` and
`FlushReachesMemoryHolds`. They speak of the idle cache, so the invariant `IInv`
says in every state of the FSM where each word is current. A line at rest is
current in the way that holds it, and in memory unless that way is dirty
(`Resting`); the store in hand is left out, as the program has made it and the
cache has not (`Pending`). The lines that are not at rest (`Moving`) are the one
being refilled and the one being evicted: the first is right in memory and in its
way up to `refill_cnt` (`Refilled`), the second in its way and in memory up to
the beat of the write channel, which holds the next word (`Writeback`). `Bus` and
`Tagged` tie the counters, the channels and the tags to the state; `Unique` says
that a line is in one way at most, which makes the way multiplexer exact. Each
conjunct has a lemma that follows it through an edge (`BusNext`, `TaggedNext`,
`RestingNext`, `RefilledNext`, `WritebackNext`, `ResultNext`), taken apart by the
states of the FSM.

**`CrossbarProofs`** (assumptions `LineEven`: a line of any even length, and
`AccessAligned`: any uncached stores that are aligned, as `cmt_lsu.v:201` and
`cmt_lsu.v:264` see to). `BeatsConservedHolds`, `AssertionsHoldHolds` and
`ReadsBackHolds`. The invariant `IInv` says, for each direction, in which of a few
stages the one access is that may be beyond the arbiter. A read is in the AR slice
(`Sent`), at the memory with at most one beat ahead of it in the R slice
(`Served`), or its last beat is in that slice (`Ending`); the cache without the
bus has sent nothing (`Arbiter`). A write waits for the bus (`Asking`), has its
address and first beat in the slices (`Asked`), which `clk_falling` makes ready
together, has `n` beats in memory and at most one more in the W slice (`Sending`),
or has its response in the B slice (`Answered`). Outside a write the memory holds
the line (`Written`), and the D$ never reads and writes at once (`Separate`), so
what a read finds is the line. `StrobeExpected` shows that the lanes the D$ drives
for every beat are the ones `check_wstrb` computes from address and size.

**`PlatformProofs`** (assumptions: in `Memory` the `LayoutAssumption`, which the
proofs do not use, and `AlignedAssumption`: the UART is at a multiple of its
size, as in `device-tree.cc:13`; in `Platform` `AccessAssumption`: addresses are
natural numbers). For every set of accesses, address map and divider of the
device clock, in the three loops. `NoMissedInterruptHolds` and `IrqLineHolds`:
`Keeps` says that an operation on one tree leaves the other alone and moves the
interrupt line only together with IIR, and is transitive; `StepKeeps` shows that
`step` ends with nothing untold, and so does every access to the UART, since it
ends with `step`. `MachinesAgreeHolds`: while nothing is typed and FCR is
not written, every operation takes trees that are alike to trees that are alike
and returns the same value (`Alike`), and the read before a write of the RTL
leaves nothing behind that the write and the `step` after it do not level. The
emulator runs behind the RTL, so the invariant `Follows` has the history of the
RTL's tree: there is a course of states, one for each access that the emulator
still has to make, that starts at the emulator's tree and ends at the RTL's
(`Behind`). `NoInputLostHolds` is an action property: an operation that is not an
access of register 0 keeps a character its software was told of (`Holds`), and of
the emulator's own accesses only a read does not. The device looks at the low
three bits of an address only, so it takes an aligned base for `uart_base` to be
the one address of RBR.

The emulator's cache, also in `PlatformProofs` (assumption `CacheParameters`: any
number of sets, ways and bytes, any tags). `View(c, m, a)` is the byte a program
sees at `a`: the cache's if the line is in it, else memory's. `Coherent` says
that LRU ranks are a permutation, no line is held twice, only valid lines are
dirty, and a clean line equals memory. Every access keeps `Coherent` and every
byte of `View` (`AccessIsTransparent`), a read returns `View`, a write changes
just the bytes written, and a flush brings the line to memory.
`ConstructedCoherence` is about a new cache, whose words and uncleared flags are
whatever the heap had. The constructor exchanges the two indexes of `cache_dirty`
(section 6), so it clears the flags only where set and way numbers are in both
ranges. Through a new cache a program still sees memory, the sets that were
cleared are coherent, and every new cache is coherent if and only if there are as
many sets as ways. The shipped 2 ways of 16 sets are not: a flag that starts set
can belong to a line that is not valid.

Only model-checked: liveness and everything under fairness, which is beyond the
prover; what recursive definitions compute, which needs induction over data; and
the execution of instructions (`Exec`), whose operators on bits come from a module
the prover cannot load.

## 6. What the code does that a reader may not expect

Met while modelling. The runs above avoid or contain these cases.

- `icache.v:422` raises `msr_icinv_ready` while the I$ is *not* idle, whereas
  `cmt.v:620` says "Stall if ICINV is temporarily unavailable during access".
  The run shows what still holds: fetches are never older than the invalidation.
- `cmt_lsu.v:398`: an access can report EALIGN and EDTM together, which the
  assertion at `cmt_epu.v:685` rules out.
- `cmt_lsu.v:261`: DCINV and DCFLS see the DMMU fault of an earlier access.
- `cmt_lsu.v:185`: MBARR is accepted and never finished.
- `cmt_psr.v:138`: RETE does not restore ICE and DCE; `cpu.cc:542` does.
- `cmt_epu.v:386`: a write to IMR does not cause a refetch.
- `cmt_epu.v:289-297`: EVECT cannot be read; `msr.cc:305` reads it.
- WMSR and RMSR outside root mode: the emulator ignores them, the pipeline does not.
- PSR bits 0-3 read as zero in the RTL, EPSR keeps raw bits, and the emulator
  keeps CY, OV and OE.
- `cpu.cc:548` and `dpi-c.cc:211` OR the MSR address together; `ex_pipe.v:181`
  says "| EPU | operand1+imm |".
- `cpu.cc:259`: JMP writes the link register before it reads its target.
- `mmu.cc:68-74`: the comment on the uncached segment is not what the code tests.
- `cache.cc:51`: `cache_dirty` is allocated with its indexes swapped. With
  2 ways and 16 sets it is overrun and read uninitialised. `ConstructedCoherence`
  says what that leaves of coherence.
- `cache.cc:181` is never reached, and `cache.cc:325` leaves D alone: replaced
  and invalidated lines keep their D flag.
- `axi4-crossbar.cc:310`: every write of the RTL reads first, devices included
  (run `platform_input`). A wide write beyond DRAM, which the emulator drops,
  therefore panics in the RTL.
- `cmt_tsc.v:91`: a match at the edge at which software clears the interrupt is
  dropped (`MatchTaken` names the case).
- `dpi-c.cc:222` recognises an interrupt by the low byte of the next PC.
- `msr.cc:169`: writing P and I to TCR raises the interrupt in the emulator. In a
  difftest only TSR is synchronised, so reading TCR.P or IRR may differ.
- `pb-uart.cc:129, 156`: LCR reads back without DLAB. Reading IIR on a TX
  interrupt drops a character that is ready. A polled read of RBR does not
  clear `dat_ready`; with the RX interrupt off RBR is overwritten. Continuous
  input starves the TX interrupt.
- In a difftest one typed character can reach one device tree twice, and the
  emulator's UART raises an IRQ while the RTL's line is tied low.
- `flash.cc`: `image_size` is uninitialised without an image.
- `memory.cc:107`: ranges that share one address pass the overlap check. Wide
  writes beyond DRAM are dropped; other such accesses panic.
- `bpu.v:167`: a counter is written back from the value read at prediction.
  Only the quality of predictions depends on it.

## 7. Not modelled

- The tables of the branch predictor. Its output is a free input of `Frontend`,
  `Commit` and `Exec`, which is more than any table can do.
- Multiplier and divider, and MUL, DIV, MOD: not in the shipped configuration.
- Identification registers and debug ports: constants and prints.
- DCINV and ICINV of the emulator's cache: an invalidated line keeps its D flag
  and is written back later, so there is no promise to state.
- Traces, call stack (`ras.cc`, `pc-queue.cc`), symbol table, option parsing: they
  print or read files and change nothing the machines see.
- The inside of DRAMsim3 (vendored), the cell library, build scripts. `Crossbar`
  has the refusals and delays that `cosimulation.cc` passes on.
- Combinational helpers and RAM primitives have no module of their own. They
  appear as the choice, cardinality or undefined output they stand for.
- Values of full width: `Exec` computes in 4 bits. Addresses, tags and data are
  small sets elsewhere. Clock domains, reset sequencing beyond `Init`, and
  timing are outside of what a step per edge can say.
