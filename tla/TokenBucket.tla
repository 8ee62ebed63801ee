---------------------------- MODULE TokenBucket ----------------------------
(***************************************************************************)
(* What the rate limiter promises: a bucket that fills continuously, one   *)
(* unit per tick up to Cap, and lets a request through exactly when it     *)
(* holds the Cost of one.                                                  *)
(***************************************************************************)
EXTENDS Integers

CONSTANTS Cap, Cost

VARIABLE level

Init == level = Cap

Fill == level' = IF level < Cap THEN level + 1 ELSE Cap

Grant == level >= Cost /\ level' = level - Cost

Next == Fill \/ Grant

Spec == Init /\ [][Next]_level
=============================================================================
