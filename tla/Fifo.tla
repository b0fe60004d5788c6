-------------------------------- MODULE Fifo --------------------------------
(***************************************************************************)
(* fifo_fwft.v: the controller and its RAM driven by users that look at    *)
(* ready before they push and at valid before they pop.                    *)
(***************************************************************************)
EXTENDS FifoCtrl, Sequences

VARIABLE s

FifoReset == s = FifoInit

\* A clock edge.  flush may come with a push and a pop (rob.v, prefetch_buf.v).
FifoClock(push, din, pop, flush) ==
    /\ push => FifoReady(s)
    /\ pop => FifoValid(s)
    /\ s' = FifoNext(s, push, din, pop, flush)

FifoStep == \E push, pop, flush \in BOOLEAN, din \in Data : FifoClock(push, din, pop, flush)

FifoSpec == FifoReset /\ [][FifoStep]_s

\* Every register has a value of its width.
TypeOK == s \in FifoState

\* The controller with its bypass registers implements a bounded queue: what is
\* popped is what was pushed, in order, with no word lost, repeated or left over
\* from before a flush, for every overlap of push, pop and flush.
Queue == INSTANCE BoundedQueue WITH Capacity <- Depth, q <- FifoContents(s)
ImplementsQueue == Queue!Spec

\* ready and valid are exact: no room is refused and no word hidden.
FlagsExact ==
    /\ FifoReady(s) <=> FifoCount(s) < Depth
    /\ FifoValid(s) <=> FifoContents(s) # <<>>
    /\ FifoCount(s) <= Depth
=============================================================================
