----------------------------- MODULE MCPlatform -----------------------------
(* Two bytes of DRAM, one byte of flash image in a window of two, and the   *)
(* registers of the UART that have an effect.                               *)
EXTENDS Platform

R(size, addr) == [w |-> FALSE, size |-> size, addr |-> addr, val |-> 0]
W(size, addr, val) == [w |-> TRUE, size |-> size, addr |-> addr, val |-> val]

MCAccesses ==
    {R(1, uart_base + r) : r \in {0, 2, 5}}
        \cup {W(1, uart_base, 1), W(1, uart_base + 2, 0)}
        \cup {W(1, uart_base + 3, 0), W(1, uart_base + 3, 128)}
        \cup {W(1, uart_base + 1, v) : v \in {0, 3}}
        \cup {R(2, 0), W(2, 0, 256), R(1, flash_base), W(2, flash_base, 1)}
        \cup {W(2, memory_size, 1), R(2, uart_base)}

MCImage == [i \in {0} |-> 0]
=============================================================================
