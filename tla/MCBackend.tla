----------------------------- MODULE MCBackend -----------------------------
EXTENDS Backend

\* Instructions without operands, which overtake; loads whose address is the
\* result of the instruction before, such a one or another load.
Const == [srcs |-> {}, lrd |-> 1, late |-> FALSE]
Load == [srcs |-> {1}, lrd |-> 1, late |-> TRUE]

MCKinds == {Const, Load}
=============================================================================
