------------------------------ MODULE ScanJobs ------------------------------
(***************************************************************************)
(* scheduler/jobs.py scan_job on top of the market data of a scan: the     *)
(* legs of a CompositeMarketDataProvider in order, the retries inside one  *)
(* leg, the TwelveData bucket that all keys and all processes draw on, and *)
(* the count of failures in a row that decides whether the operator is     *)
(* told.                                                                   *)
(*                                                                         *)
(* The bucket is that of RateLimiter.  OANDA and Binance have buckets of   *)
(* their own, wide enough that a refusal there is like a 429 of theirs.    *)
(* APScheduler runs one instance of a job at a time (max_instances is 1).  *)
(***************************************************************************)
EXTENDS RateLimiter, Sequences

CONSTANTS
    Jobs,           \* "symbol:timeframe"
    LegChoices,     \* the legs _make_market_provider may build for a job: functions
    RetryLimit,     \* stop_after_attempt of the REST providers
    Threshold,      \* _ALERT_THRESHOLD
    AlertCooldown   \* _ALERT_COOLDOWN, in ticks

ASSUME JobsAssumption ==
    /\ RetryLimit \in Nat \ {0} /\ Threshold \in Nat \ {0} /\ AlertCooldown \in Nat
    /\ \A legs \in LegChoices : DOMAIN legs = Jobs
    /\ \A legs \in LegChoices, k \in Jobs :
        legs[k] \in Seq({"twelvedata", "oanda", "binance"}) \ {<<>>}

VARIABLES
    legs,       \* the vendors of each job's provider, in order
    job,        \* the scan under way of each job
    fails,      \* _fail_counts, counted up to Threshold
    alertedAt,  \* _last_alert_at
    inARow      \* history: failed scans since the last success or restart, likewise

tells == <<fails, alertedAt, inARow>>
jobvars == <<legs, job, tells>>

Never == -1

\* op is the call being made: the bars, whose failure fails the scan, or the live
\* quote, whose failure does not.  now is scan_job's local; gone are the legs that
\* failed in this op.
Idle == [at |-> "idle", op |-> "bars", leg |-> 1, try |-> 1, gone |-> {}, now |-> 0]

JobsInit ==
    /\ Init
    /\ legs \in LegChoices
    /\ job = [k \in Jobs |-> Idle]
    /\ fails = [k \in Jobs |-> 0]
    /\ alertedAt = [k \in Jobs |-> Never]
    /\ inARow = [k \in Jobs |-> 0]

-----------------------------------------------------------------------------
Vendor(k) == legs[k][job[k].leg]

\* CcxtProvider is used as it is, and it does not retry.
Composite(k) == Vendor(k) # "binance"
Tries(k) == IF Composite(k) THEN RetryLimit ELSE 1

Move(k, changed) == job' = [job EXCEPT ![k] = changed]

\* Mutant of Fail: a limit returns before it is counted.
Fail_Uncounted(k, kind) ==
    LET count == IF kind = "limit" THEN fails[k] ELSE Least(fails[k] + 1, Threshold)
        due == alertedAt[k] = Never \/ clock - alertedAt[k] >= AlertCooldown
    IN  /\ fails' = [fails EXCEPT ![k] = count]
        /\ inARow' = [inARow EXCEPT ![k] = Least(@ + 1, Threshold)]
        /\ Move(k, IF kind # "limit" /\ count >= Threshold /\ due
                   THEN [Idle EXCEPT !.at = "alert", !.now = clock] ELSE Idle)
        /\ UNCHANGED alertedAt

\* The scan raised: count it; an alert unless it is the limit or the cooldown runs.
Fail(k, kind) ==
    LET count == Least(fails[k] + 1, Threshold)
        due == alertedAt[k] = Never \/ clock - alertedAt[k] >= AlertCooldown
    IN  /\ fails' = [fails EXCEPT ![k] = count]
        /\ inARow' = [inARow EXCEPT ![k] = Least(@ + 1, Threshold)]
        /\ Move(k, IF kind # "limit" /\ count >= Threshold /\ due
                   THEN [Idle EXCEPT !.at = "alert", !.now = clock] ELSE Idle)
        /\ UNCHANGED alertedAt

\* After the bars the quote, after the quote what is left of the scan.
OpDone(k) ==
    /\ Move(k, IF job[k].op = "bars" THEN [Idle EXCEPT !.at = "call", !.op = "quote"]
                                     ELSE [Idle EXCEPT !.at = "rest"])
    /\ UNCHANGED tells

\* A missing quote is only noted.
OpFails(k, kind) == IF job[k].op = "bars" THEN Fail(k, kind) ELSE OpDone(k)

\* Mutant of LegFails: only a plain ProviderError makes the composite go on.
LegFails_NotOnLimit(k, kind) ==
    LET gone == job[k].gone \cup {job[k].leg}
    IN  IF job[k].leg < Len(legs[k]) /\ kind # "limit"
        THEN /\ Move(k, [job[k] EXCEPT !.at = "call", !.leg = @ + 1, !.try = 1, !.gone = gone])
             /\ UNCHANGED tells
        ELSE OpFails(k, IF Composite(k) THEN "all legs" ELSE kind)

\* _attempt: the next leg, or ProviderError when there is none.  Binance has no
\* composite about it and its error reaches the scan as it is.
LegFails(k, kind) ==
    LET gone == job[k].gone \cup {job[k].leg}
    IN  IF job[k].leg < Len(legs[k])
        THEN /\ Move(k, [job[k] EXCEPT !.at = "call", !.leg = @ + 1, !.try = 1, !.gone = gone])
             /\ UNCHANGED tells
        ELSE OpFails(k, IF Composite(k) THEN "all legs" ELSE kind)

\* Mutant of Limited: the retries are not counted.
Limited_Forever(k) ==
    /\ Move(k, [job[k] EXCEPT !.at = "wait"])
    /\ UNCHANGED tells

\* RateLimitExceeded, from the bucket or as a 429: the leg waits and tries again.
Limited(k) ==
    IF job[k].try < Tries(k)
    THEN /\ Move(k, [job[k] EXCEPT !.at = "wait", !.try = @ + 1])
         /\ UNCHANGED tells
    ELSE LegFails(k, "limit")

-----------------------------------------------------------------------------
\* scan_job starts; when the newest bar is still the current one, nothing is fetched.
Begin(k) ==
    /\ job[k].at = "idle"
    /\ \E op \in {"bars", "quote"} : Move(k, [Idle EXCEPT !.at = "call", !.op = op])
    /\ UNCHANGED <<vars, legs, tells>>

\* A TwelveData leg takes a token of the bucket that all its keys share, ...
Granted(k) ==
    /\ job[k].at = "call" /\ Vendor(k) = "twelvedata"
    /\ Acquire
    /\ Move(k, [job[k] EXCEPT !.at = "http"])
    /\ UNCHANGED <<legs, tells>>

\* ... or is refused.
Refused(k) ==
    /\ job[k].at = "call" /\ Vendor(k) = "twelvedata"
    /\ Refuse
    /\ Limited(k)
    /\ UNCHANGED legs

\* The bucket of another vendor.
OwnBucket(k) ==
    /\ job[k].at = "call" /\ Vendor(k) # "twelvedata"
    /\ \/ Move(k, [job[k] EXCEPT !.at = "http"]) /\ UNCHANGED tells
       \/ Limited(k)
    /\ UNCHANGED <<vars, legs>>

Retry(k) ==
    /\ job[k].at = "wait"
    /\ Move(k, [job[k] EXCEPT !.at = "call"])
    /\ UNCHANGED <<vars, legs, tells>>

\* What a REST provider may make of an answer, if not Escapes: a result, a
\* RateLimitExceeded or another ProviderError.
RestAnswer(k) ==
    /\ OpDone(k) \/ Limited(k) \/ LegFails(k, "broken")
    /\ UNCHANGED <<vars, legs>>

\* Rows, of which the unusable are skipped, a 429 as a status or in the body, any other
\* error status or a connection that fails.
TwelveDataAnswers(k) == job[k].at = "http" /\ Vendor(k) = "twelvedata" /\ RestAnswer(k)

\* Likewise; candles that are not complete are skipped too.
OandaAnswers(k) == job[k].at = "http" /\ Vendor(k) = "oanda" /\ RestAnswer(k)

\* ccxt wraps every error, also Binance's own 429, in a plain ProviderError.
BinanceAnswers(k) ==
    /\ job[k].at = "http" /\ ~Composite(k)
    /\ OpDone(k) \/ LegFails(k, "broken")
    /\ UNCHANGED <<vars, legs>>

\* _attempt catches RateLimitExceeded and ProviderError.  Any other exception (an answer
\* that is no JSON, a price that is no number, a Redis that does not answer) leaves it
\* with no further leg tried, and fails the scan: run_scan does not catch it around the
\* quote either, and ingest_candles makes a ProviderError of it.
Escapes(k) ==
    /\ job[k].at \in {"call", "http"}
    /\ Move(k, [job[k] EXCEPT !.at = "raised"])
    /\ UNCHANGED <<vars, legs, tells>>

\* What follows in run_scan ends well or raises, a database that is gone for one.
Completes(k) ==
    /\ job[k].at = "rest"
    /\ Move(k, Idle)
    /\ fails' = [fails EXCEPT ![k] = 0]
    /\ inARow' = [inARow EXCEPT ![k] = 0]
    /\ UNCHANGED <<vars, legs, alertedAt>>

Raises(k) ==
    /\ job[k].at \in {"rest", "raised"}
    /\ Fail(k, "broken")
    /\ UNCHANGED <<vars, legs>>

\* _send_failure_alert has swallowed whatever happened: the cooldown begins at the
\* time that was read before it, whether or not Telegram took the message.
Alerted(k) ==
    /\ job[k].at = "alert"
    /\ alertedAt' = [alertedAt EXCEPT ![k] = job[k].now]
    /\ Move(k, Idle)
    /\ UNCHANGED <<vars, legs, fails, inARow>>

\* The worker ends and starts again: counts and cooldowns lived in the module.
Restart ==
    /\ \E k \in Jobs : fails[k] > 0 \/ job[k].at # "idle"
    /\ job' = [k \in Jobs |-> Idle]
    /\ fails' = [k \in Jobs |-> 0]
    /\ alertedAt' = [k \in Jobs |-> Never]
    /\ inARow' = [k \in Jobs |-> 0]
    /\ UNCHANGED <<vars, legs>>

\* Other processes on the same bucket, and the clock.
Elsewhere == Next /\ UNCHANGED jobvars

Step(k) ==
    \/ Granted(k) \/ Refused(k) \/ OwnBucket(k) \/ Retry(k)
    \/ TwelveDataAnswers(k) \/ OandaAnswers(k) \/ BinanceAnswers(k) \/ Escapes(k)
    \/ Completes(k) \/ Raises(k) \/ Alerted(k)

JobsNext == Elsewhere \/ Restart \/ \E k \in Jobs : Begin(k) \/ Step(k)

JobsSpec == JobsInit /\ [][JobsNext]_<<vars, jobvars>>

\* Every await of a scan ends: HTTP calls time out after 15 s, waits after 30 s.
FairJobs == JobsSpec /\ \A k \in Jobs : WF_<<vars, jobvars>>(Step(k))

-----------------------------------------------------------------------------
JobsTypeOK ==
    /\ legs \in LegChoices
    /\ \A k \in Jobs :
        /\ job[k].at \in {"idle", "call", "http", "wait", "raised", "rest", "alert"}
        /\ job[k].op \in {"bars", "quote"} /\ job[k].now \in 0..clock
        /\ job[k].leg \in DOMAIN legs[k] /\ job[k].gone \subseteq DOMAIN legs[k]
        /\ job[k].try \in 1..RetryLimit
        /\ fails[k] \in 0..Threshold /\ inARow[k] \in 0..Threshold
        /\ alertedAt[k] \in Never..clock

\* The scan of k ends in failure in this step.
FailsNow(k) ==
    job[k].at \notin {"idle", "alert"} /\ job'[k].at \in {"idle", "alert"} /\ inARow'[k] > 0

\* The scan of k fails while it is in a call, of a ProviderError that the legs raised.
FailsInCall(k) == FailsNow(k) /\ job[k].at \notin {"rest", "raised"}

\* jobs.py:84-97: when the Threshold-th or a later scan in a row fails, whatever the
\* earlier ones failed of, the operator is written to or was within the cooldown.
\* Only a limit that reaches scan_job as such may pass in silence: Binance's, whose
\* provider no composite wraps.
TellsInTime ==
    [][\A k \in Jobs :
        (FailsNow(k) /\ inARow'[k] = Threshold /\ (FailsInCall(k) => Composite(k))) =>
            \/ job'[k].at = "alert"
            \/ alertedAt[k] # Never /\ clock - alertedAt[k] < AlertCooldown]_<<vars, jobvars>>

\* composite_market.py:66-90: a limit or another ProviderError of a leg fails the scan only
\* when it is the last leg's and every leg before it has failed of one too.  It says
\* nothing of an exception of another kind, which Escapes the legs that are left.
FailsOverFirst ==
    [][\A k \in Jobs :
        (FailsInCall(k) /\ Composite(k)) =>
            job[k].gone \cup {job[k].leg} = DOMAIN legs[k]]_<<vars, jobvars>>

\* The retries and the failover are bounded: every scan ends, however long the
\* bucket stays empty.
ScansEnd == \A k \in Jobs : job[k].at # "idle" ~> job[k].at = "idle"

\* jobs.py:87, "Rate-limit bursts must never spam Telegram": an empty bucket alone
\* does not make a scan alert.
BurstsAreSilent ==
    [][\A k \in Jobs : (job'[k].at = "alert" /\ job[k].at # "alert") => job[k].at # "call"
        ]_<<vars, jobvars>>

\* composite_market.py:3, "Mirrors data/composite_calendar.py", which goes on to the next
\* source after any exception (:82): a scan fails in a call only when no leg is left.
NoLegLeft ==
    [][\A k \in Jobs :
        (FailsNow(k) /\ job[k].at # "rest" /\ Composite(k)) =>
            job[k].gone \cup {job[k].leg} = DOMAIN legs[k]]_<<vars, jobvars>>
=============================================================================
