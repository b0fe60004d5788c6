------------------------------- MODULE Memory -------------------------------
(***************************************************************************)
(* The physical memory of the simulator: DRAM and the devices a DeviceTree *)
(* registers on it.  An access is decided by its size, its direction and   *)
(* its address; the address map of the instance is a small one with the    *)
(* shape of the real one.                                                  *)
(***************************************************************************)
EXTENDS Naturals, Sequences

CONSTANTS
    memory_size,            \* DRAM is at 0 .. memory_size - 1
    mmio_phy_base, mmio_phy_end_addr,
    uart_base,              \* eight registers
    flash_base, flash_size  \* the window of the flash

nullptr == "nullptr"
uart_size == 8

mmio_node(write, start, size, callback) ==
    [write |-> write, start_addr |-> start, end_addr |-> start + size - 1, callback |-> callback]

\* The sanity check of mmio_append_node.
overlapped(domain, node) ==
    \E i \in DOMAIN domain :
        /\ domain[i].write = node.write
        /\ domain[i].start_addr < node.end_addr /\ domain[i].end_addr > node.start_addr

\* The newest node is the first of the list.
mmio_append_node(domain, node) == <<node>> \o domain

\* A device registers for writing and for reading.
mmio_register(domain, start, size, callback) ==
    mmio_append_node(mmio_append_node(domain, mmio_node(TRUE, start, size, callback)),
                     mmio_node(FALSE, start, size, callback))

\* What a DeviceTree leaves in the list for accesses of a size: the UART for
\* bytes, the flash for all but doublewords.
Domain(size) ==
    LET uart == IF size = 1 THEN mmio_register(<<>>, uart_base, uart_size, "uart") ELSE <<>>
    IN  IF size = 8 THEN <<>> ELSE mmio_register(uart, flash_base, flash_size, "flash")

\* The registration finds no overlap, and DRAM ends below the devices.
ASSUME LayoutAssumption ==
    /\ \A size \in {1, 2, 4, 8} : \A i \in DOMAIN Domain(size) :
          ~overlapped(SubSeq(Domain(size), i + 1, Len(Domain(size))), Domain(size)[i])
    /\ memory_size + 8 <= mmio_phy_base

\* The registers of the UART begin at a multiple of their size.
ASSUME AlignedAssumption == uart_base \in Nat /\ uart_base % uart_size = 0

\* The callback that serves an MMIO address; an address in the window that no
\* device has registered for is a panic.
match_mmio_handler(size, addr, w) ==
    LET domain == Domain(size)
        hits == {i \in DOMAIN domain : /\ domain[i].write = w
                                       /\ domain[i].start_addr <= addr /\ addr <= domain[i].end_addr}
        first == CHOOSE i \in hits : \A j \in hits : i <= j
    IN  IF addr < mmio_phy_base \/ addr > mmio_phy_end_addr THEN nullptr
        ELSE IF hits = {} THEN "panic" ELSE domain[first].callback

InDram(addr) == addr < memory_size

\* Who serves an access.  The bytes of a wide DRAM access are checked one by one;
\* a wide write that begins outside of it is dropped, everything else panics.
Target(size, addr, w) ==
    LET handler == match_mmio_handler(size, addr, w)
    IN  IF handler # nullptr THEN handler
        ELSE IF InDram(addr)
        THEN IF \A i \in 0 .. size - 1 : InDram(addr + i) THEN "dram" ELSE "panic"
        ELSE IF w /\ size > 1 THEN "dropped" ELSE "panic"

\* A value in memory order, and back.
Bytes(val, size) == [i \in 0 .. size - 1 |-> (val \div 256 ^ i) % 256]
Value(bytes, size) ==
    LET sum[i \in 0 .. size] == IF i = 0 THEN 0 ELSE sum[i - 1] + bytes[i - 1] * 256 ^ (i - 1)
    IN  sum[size]

Stored(ram, at, val, size) ==
    [a \in DOMAIN ram |-> IF a \in at .. at + size - 1 THEN Bytes(val, size)[a - at] ELSE ram[a]]
Loaded(ram, at, size) == Value([i \in 0 .. size - 1 |-> ram[at + i]], size)

\* The flash holds its image; beyond it a write is ignored and a read gives ones.
FlashHas(ram, at, size) == \A i \in 0 .. size - 1 : at + i \in DOMAIN ram
Flash_writem(ram, at, val, size) == IF FlashHas(ram, at, size) THEN Stored(ram, at, val, size) ELSE ram
Flash_readm(ram, at, size) == IF FlashHas(ram, at, size) THEN Loaded(ram, at, size) ELSE 256 ^ size - 1
=============================================================================
