---------------------------- MODULE RateLimiter ----------------------------
(***************************************************************************)
(* The token bucket of data/ratelimit.py for one provider key: a Redis     *)
(* hash with the tokens and the time of the last call, which the Lua       *)
(* script reads, refills and writes in one step, for the worker, the API   *)
(* and the command line alike, and which expires when nobody calls.        *)
(*                                                                         *)
(* Time is counted in ticks of one refilled unit and a token is Cost       *)
(* units, so that all fractions the script computes with are whole.        *)
(***************************************************************************)
EXTENDS Integers

CONSTANTS
    Cap,        \* max_tokens, in units
    Cost,       \* units of one token
    Expire,     \* lifetime of the key after a call, in ticks (120 s)
    Quota,      \* requests the provider allows in one Window
    Window,     \* length of that window, in ticks
    Horizon     \* bound on the clock

ASSUME BucketAssumption == Cap \in Nat /\ Cost \in Nat \ {0}

\* per_minute fills every bucket in 60 s; the key lives 120 s.
ASSUME ExpireAssumption == Expire \in Nat /\ Expire >= Cap

ASSUME WindowAssumption == Quota \in Nat /\ Window \in Nat /\ Horizon \in Nat

VARIABLES
    clock,          \* TIME of the Redis server
    tokens,         \* fields of the hash, in units,
    last_refill,
    expires,        \* which is gone from this time on
    start, spent    \* history: a window that opened at start, and the requests in it

bucket == <<tokens, last_refill, expires>>
vars == <<clock, bucket, start, spent>>

Init ==
    /\ clock = 0
    /\ tokens = 0
    /\ last_refill = 0
    /\ expires = 0
    /\ start = 0
    /\ spent = 0

-----------------------------------------------------------------------------
Least(a, b) == IF a <= b THEN a ELSE b

Exists == clock < expires

\* HMGET with its defaults, and the refill.
Available == IF Exists THEN Least(Cap, tokens + (clock - last_refill)) ELSE Cap

\* Mutants: only whole tokens are kept; the key lives until one token is back.
Write_Floor(left) ==
    /\ tokens' = left - (left % Cost)
    /\ last_refill' = clock
    /\ expires' = clock + Expire
Write_Short(left) ==
    /\ tokens' = left
    /\ last_refill' = clock
    /\ expires' = clock + Cost

\* HMSET and EXPIRE.
Write(left) ==
    /\ tokens' = left
    /\ last_refill' = clock
    /\ expires' = clock + Expire

Acquire ==
    /\ Available >= Cost
    /\ Write(Available - Cost)
    /\ spent' = spent + 1
    /\ UNCHANGED <<clock, start>>

\* The caller gets RateLimitExceeded.
Refuse ==
    /\ Available < Cost
    /\ Write(Available)
    /\ UNCHANGED <<clock, start, spent>>

Tick ==
    /\ clock < Horizon
    /\ clock' = clock + 1
    /\ UNCHANGED <<bucket, start, spent>>

\* The window under observation may begin at any time.
Observe ==
    /\ start' = clock
    /\ spent' = 0
    /\ UNCHANGED <<clock, bucket>>

Next == Acquire \/ Refuse \/ Tick \/ Observe

Spec == Init /\ [][Next]_vars

-----------------------------------------------------------------------------
TypeOK ==
    /\ clock \in Nat /\ start \in 0..clock /\ spent \in Nat
    /\ tokens \in 0..Cap /\ last_refill \in 0..clock /\ expires \in 0..(clock + Expire)

\* A key that was written expires Expire later, and only when it would be full.
KeyAge == expires = last_refill + Expire \/ expires = 0

\* In a window of any length the processes together get through at most a full
\* bucket and what was refilled, also when the key expires in between.
WindowBound == spent * Cost <= Cap + (clock - start)

\* The inductive form: what is left now also counts.
BucketInv == TypeOK /\ KeyAge /\ Available + spent * Cost <= Cap + (clock - start)

\* The script, which refills late and forgets, is the bucket that fills all the time:
\* what it lets through the ideal bucket lets through, and being refused, or the
\* expiry of the key, neither costs nor gains a caller anything.
Ideal == INSTANCE TokenBucket WITH level <- Available
RefinesBucket == Ideal!Spec

\* ratelimit.py:8, "TwelveData free: 8 req/min -> bucket 7/min (safety margin)".
WithinQuota == clock - start < Window => spent <= Quota
=============================================================================
