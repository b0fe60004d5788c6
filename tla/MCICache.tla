------------------------------ MODULE MCICache ------------------------------
(* One set of two ways and two lines.  The victim of a refill is the way   *)
(* the clock hand points to, so that the two lines displace each other.    *)
EXTENDS ICache

MCFetch ==
    [tag : {0, 1}, set : {0}, word : {0, 1}, kind : {"cached"}]
    \cup [tag : {1}, set : {0}, word : {0, 1}, kind : {"uncached"}]
    \cup [tag : {0}, set : {0}, word : {0}, kind : {"killed"}]

MCStored == {<<0, 0>>}
=============================================================================
