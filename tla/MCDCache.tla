------------------------------ MODULE MCDCache ------------------------------
(* One set of two ways and two lines, in which one word is watched.        *)
EXTENDS DCache

MCWatched == {[tag |-> 0, set |-> 0, word |-> 1]}
MCMasks == {{0}}
=============================================================================
