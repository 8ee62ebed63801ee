--------------------------- MODULE ScanJobsProofs ---------------------------
(***************************************************************************)
(* The scan jobs and the bucket they draw on, for any number of jobs, legs *)
(* and retries, and for every capacity, cost and lifetime of the bucket's  *)
(* key.                                                                    *)
(*                                                                         *)
(* BucketInv is inductive: what was let through since `start', with what   *)
(* the bucket would give now, never exceeds a full bucket and the time     *)
(* elapsed.  The step that needs ExpireAssumption is the tick at which the *)
(* key expires: the bucket must be full by then, or forgetting it would    *)
(* give tokens away.                                                       *)
(*                                                                         *)
(* JobsInv ties what a scan counts to what happened: the legs that are     *)
(* gone are those before the present one, and the count of failures that   *)
(* decides about an alert is the number of failures in a row.              *)
(***************************************************************************)
EXTENDS ScanJobs, TLAPS

-----------------------------------------------------------------------------
\* The bucket.

\* What the bucket holds is a level of the ideal bucket.
LEMMA AvailableType ==
    ASSUME TypeOK
    PROVE  Available \in 0..Cap
BY BucketAssumption DEF TypeOK, Available, Least

\* A call leaves exactly what it wrote.
LEMMA AfterWrite ==
    ASSUME TypeOK, NEW left \in 0..Cap, Write(left), UNCHANGED clock
    PROVE  /\ Available' = left
           /\ tokens' \in 0..Cap /\ last_refill' \in 0..clock'
           /\ expires' \in 0..(clock' + Expire)
           /\ KeyAge'
<1>1. clock \in Nat /\ Cap \in Nat /\ Expire \in Nat /\ Expire >= Cap
  BY BucketAssumption, ExpireAssumption DEF TypeOK
<1>2. tokens' = left /\ last_refill' = clock /\ expires' = clock + Expire /\ clock' = clock
  BY DEF Write
<1>3. Available' = IF clock < clock + Expire THEN Least(Cap, left + (clock - clock)) ELSE Cap
  BY <1>2 DEF Available, Exists
<1>4. CASE Expire = 0
  <2>1. Cap = 0 /\ left = 0
    BY <1>1, <1>4
  <2>. QED
    BY <1>1, <1>2, <1>3, <2>1 DEF KeyAge, Least
<1>5. CASE Expire > 0
  BY <1>1, <1>2, <1>3, <1>5 DEF KeyAge, Least
<1>. QED
  BY <1>1, <1>4, <1>5

\* A tick adds one unit until the bucket is full, also when the key expires.
LEMMA AfterTick ==
    ASSUME TypeOK, KeyAge, Tick
    PROVE  Available' = IF Available < Cap THEN Available + 1 ELSE Cap
<1>1. /\ clock \in Nat /\ Cap \in Nat /\ Expire \in Nat /\ Expire >= Cap
      /\ tokens \in 0..Cap /\ last_refill \in 0..clock
  BY BucketAssumption, ExpireAssumption DEF TypeOK
<1>2. clock' = clock + 1 /\ tokens' = tokens /\ last_refill' = last_refill /\ expires' = expires
  BY DEF Tick, bucket
<1>3. CASE clock >= expires
  BY <1>1, <1>2, <1>3 DEF Available, Exists, TypeOK
<1>4. CASE clock + 1 = expires
  <2>1. expires = last_refill + Expire
    BY <1>1, <1>4 DEF KeyAge
  <2>2. tokens + (clock - last_refill) >= Cap - 1
    BY <1>1, <1>4, <2>1
  <2>3. Available' = Cap
    BY <1>1, <1>2, <1>4 DEF Available, Exists
  <2>4. Available = Least(Cap, tokens + (clock - last_refill))
    BY <1>1, <1>4 DEF Available, Exists
  <2>. QED
    BY <1>1, <2>2, <2>3, <2>4 DEF Least
<1>5. CASE clock + 1 < expires
  <2>1. Available = Least(Cap, tokens + (clock - last_refill))
    BY <1>1, <1>5 DEF Available, Exists, TypeOK
  <2>2. Available' = Least(Cap, tokens + (clock + 1 - last_refill))
    BY <1>1, <1>2, <1>5 DEF Available, Exists, TypeOK
  <2>. QED
    BY <1>1, <2>1, <2>2 DEF Least
<1>. QED
  BY <1>1, <1>3, <1>4, <1>5 DEF TypeOK

-----------------------------------------------------------------------------
\* The invariant of the bucket.
LEMMA InitInv == Init => BucketInv
BY BucketAssumption, ExpireAssumption
   DEF Init, BucketInv, TypeOK, KeyAge, Available, Exists, bucket

LEMMA StepInv == BucketInv /\ [Next]_vars => BucketInv'
<1>. SUFFICES ASSUME BucketInv, [Next]_vars
              PROVE  BucketInv'
  OBVIOUS
<1>. USE BucketAssumption, ExpireAssumption
<1>1. /\ TypeOK /\ KeyAge /\ Available \in 0..Cap
      /\ Available + spent * Cost <= Cap + (clock - start)
  BY AvailableType DEF BucketInv
<1>2. spent * Cost \in Nat /\ (spent + 1) * Cost = spent * Cost + Cost
  BY <1>1 DEF TypeOK
<1>3. CASE Acquire
  <2>1. Write(Available - Cost) /\ clock' = clock /\ start' = start /\ spent' = spent + 1
    BY <1>3 DEF Acquire
  <2>2. Available - Cost \in 0..Cap
    BY <1>1, <1>3 DEF Acquire
  <2>3. /\ Available' = Available - Cost
        /\ tokens' \in 0..Cap /\ last_refill' \in 0..clock'
        /\ expires' \in 0..(clock' + Expire)
        /\ KeyAge'
    BY <1>1, <2>1, <2>2, AfterWrite
  <2>4. TypeOK'
    BY <1>1, <2>1, <2>3 DEF TypeOK
  <2>5. spent' * Cost = spent * Cost + Cost
    BY <1>2, <2>1
  <2>6. Available' + spent' * Cost <= Cap + (clock' - start')
    BY <1>1, <1>2, <2>1, <2>3, <2>5 DEF TypeOK
  <2>. QED
    BY <2>3, <2>4, <2>6 DEF BucketInv
<1>4. CASE Refuse
  <2>1. Write(Available) /\ clock' = clock /\ start' = start /\ spent' = spent
    BY <1>4 DEF Refuse
  <2>2. /\ Available' = Available
        /\ tokens' \in 0..Cap /\ last_refill' \in 0..clock'
        /\ expires' \in 0..(clock' + Expire)
        /\ KeyAge'
    BY <1>1, <2>1, AfterWrite
  <2>3. TypeOK'
    BY <1>1, <2>1, <2>2 DEF TypeOK
  <2>. QED
    BY <1>1, <2>1, <2>2, <2>3 DEF BucketInv
<1>5. CASE Tick
  <2>1. /\ clock' = clock + 1 /\ start' = start /\ spent' = spent
        /\ tokens' = tokens /\ last_refill' = last_refill /\ expires' = expires
    BY <1>5 DEF Tick, bucket
  <2>2. Available' = IF Available < Cap THEN Available + 1 ELSE Cap
    BY <1>1, <1>5, AfterTick
  <2>3. TypeOK' /\ KeyAge'
    BY <1>1, <2>1 DEF TypeOK, KeyAge
  <2>4. Available' <= Available + 1 /\ Available' \in Int
    BY <1>1, <2>2
  <2>5. spent' * Cost = spent * Cost
    BY <2>1
  <2>6. Available' + spent' * Cost <= Cap + (clock' - start')
    <3>1. \A avail, next, sum, cap, age \in Int :
            avail + sum <= cap + age /\ next <= avail + 1 => next + sum <= cap + (age + 1)
      OBVIOUS
    <3>2. clock - start \in Int /\ Cap \in Int /\ clock' - start' = (clock - start) + 1
      BY <1>1, <2>1 DEF TypeOK
    <3>. QED
      BY <1>1, <1>2, <2>4, <2>5, <3>1, <3>2
  <2>. QED
    BY <2>3, <2>6 DEF BucketInv
<1>6. CASE Observe
  <2>1. /\ clock' = clock /\ start' = clock /\ spent' = 0
        /\ tokens' = tokens /\ last_refill' = last_refill /\ expires' = expires
    BY <1>6 DEF Observe, bucket
  <2>2. Available' = Available
    BY <2>1 DEF Available, Exists
  <2>. QED
    BY <1>1, <2>1, <2>2 DEF BucketInv, TypeOK, KeyAge
<1>7. CASE UNCHANGED vars
  BY <1>1, <1>7 DEF vars, bucket, BucketInv, TypeOK, KeyAge, Available, Exists
<1>. QED
  BY <1>3, <1>4, <1>5, <1>6, <1>7 DEF Next

\* In every reachable state the bucket is what its history allows (ratelimit.py).
THEOREM BucketInvariance == Spec => []BucketInv
<1>1. Init => BucketInv
  BY InitInv
<1>2. BucketInv /\ [Next]_vars => BucketInv'
  BY StepInv
<1>. QED
  BY <1>1, <1>2, PTL DEF Spec

\* RateLimiter.acquire: in any window the processes together get at most a full
\* bucket and what was refilled meanwhile.
THEOREM RequestsBounded == Spec => []WindowBound
<1>1. BucketInv => WindowBound
  <2>. SUFFICES ASSUME BucketInv
                PROVE  WindowBound
    OBVIOUS
  <2>1. Available \in 0..Cap /\ Available + spent * Cost <= Cap + (clock - start)
    BY AvailableType DEF BucketInv
  <2>2. spent * Cost \in Nat /\ Cap \in Nat /\ clock - start \in Int
    BY BucketAssumption DEF BucketInv, TypeOK
  <2>. QED
    BY <2>1, <2>2 DEF WindowBound
<1>. QED
  BY <1>1, BucketInvariance, PTL

\* The Lua script with its lazy refill and its expiring key implements the bucket
\* that fills all the time.
THEOREM ScriptRefinesBucket == Spec => RefinesBucket
<1>1. Init => Ideal!Init
  BY BucketAssumption DEF Init, Ideal!Init, Available, Exists, bucket
<1>2. BucketInv /\ [Next]_vars => [Ideal!Next]_Available
  <2>. SUFFICES ASSUME BucketInv, [Next]_vars
                PROVE  Ideal!Next \/ Available' = Available
    OBVIOUS
  <2>1. TypeOK /\ KeyAge /\ Available \in 0..Cap /\ Cap \in Nat /\ Cost \in Nat
    BY AvailableType, BucketAssumption DEF BucketInv
  <2>2. CASE Acquire
    <3>1. Available - Cost \in 0..Cap /\ Write(Available - Cost) /\ UNCHANGED clock
      BY <2>1, <2>2 DEF Acquire
    <3>2. Available' = Available - Cost
      BY <2>1, <3>1, AfterWrite
    <3>. QED
      BY <2>2, <3>2 DEF Acquire, Ideal!Next, Ideal!Grant
  <2>3. CASE Refuse
    BY <2>1, <2>3, AfterWrite DEF Refuse
  <2>4. CASE Tick
    BY <2>1, <2>4, AfterTick DEF Ideal!Next, Ideal!Fill
  <2>5. CASE Observe \/ UNCHANGED vars
    BY <2>5 DEF Observe, vars, bucket, Available, Exists
  <2>. QED
    BY <2>2, <2>3, <2>4, <2>5 DEF Next
<1>. QED
  BY <1>1, <1>2, BucketInvariance, PTL DEF Spec, RefinesBucket, Ideal!Spec

-----------------------------------------------------------------------------
\* The jobs.

JobShape ==
    [at : {"idle", "call", "http", "wait", "raised", "rest", "alert"}, op : {"bars", "quote"},
     leg : Nat \ {0}, try : 1..RetryLimit, gone : SUBSET Nat, now : 0..clock]

JobShapes ==
    /\ legs \in LegChoices
    /\ job \in [Jobs -> JobShape]
    /\ fails \in [Jobs -> 0..Threshold]
    /\ alertedAt \in [Jobs -> Never..clock]

\* A job is at one of its legs, and those before it have failed.
AtLeg(state, k) ==
    /\ state.leg \in 1..Len(legs[k])
    /\ state.gone = 1..(state.leg - 1)

JobsInv ==
    /\ BucketInv
    /\ JobShapes
    /\ inARow = fails
    /\ \A k \in Jobs : AtLeg(job[k], k)

\* A call leaves the scan where it goes on, with no failure counted, ...
GoesOn(k) ==
    /\ \E state \in JobShape :
        Move(k, state) /\ AtLeg(state, k) /\ state.at \notin {"idle", "alert"}
    /\ UNCHANGED tells

\* ... or fails it at the last leg, with a limit only where no composite is about it.
FailsLast(k) ==
    /\ job[k].leg = Len(legs[k])
    /\ \E kind \in {"limit", "broken", "all legs"} :
        Fail(k, kind) /\ (Composite(k) => kind # "limit")

LEMMA LegsFact ==
    ASSUME JobShapes, NEW k \in Jobs
    PROVE  Len(legs[k]) \in Nat \ {0} /\ DOMAIN legs[k] = 1..Len(legs[k])
BY JobsAssumption DEF JobShapes

LEMMA ClockFact ==
    ASSUME JobsInv
    PROVE  clock \in Nat /\ 0 \in 0..clock /\ clock \in 0..clock
BY DEF JobsInv, BucketInv, TypeOK

\* A scan that begins is at its first leg, ...
LEMMA IdleFact ==
    ASSUME legs \in LegChoices, clock \in Nat, NEW k \in Jobs
    PROVE  Idle \in JobShape /\ AtLeg(Idle, k) /\ Idle.at = "idle"
<1>1. /\ Len(legs[k]) \in Nat \ {0} /\ RetryLimit \in Nat \ {0} /\ 1..0 = {}
  BY JobsAssumption
<1>2. Idle \in JobShape
  BY <1>1 DEF JobShape, Idle
<1>3. Idle.leg = 1 /\ Idle.gone = {} /\ Idle.at = "idle"
  BY DEF Idle
<1>. QED
  BY <1>1, <1>2, <1>3 DEF AtLeg

\* ... and so it is when it goes on to the quote or the rest, or to an alert.
LEMMA FirstLeg ==
    ASSUME JobsInv, NEW k \in Jobs
    PROVE  /\ Idle \in JobShape /\ AtLeg(Idle, k)
           /\ \A op \in {"bars", "quote"} :
                LET call == [Idle EXCEPT !.at = "call", !.op = op]
                IN  call \in JobShape /\ AtLeg(call, k) /\ call.at = "call"
           /\ LET rest == [Idle EXCEPT !.at = "rest"]
              IN  rest \in JobShape /\ AtLeg(rest, k) /\ rest.at = "rest"
           /\ LET alert == [Idle EXCEPT !.at = "alert", !.now = clock]
              IN  alert \in JobShape /\ AtLeg(alert, k) /\ alert.at = "alert"
<1>1. Idle \in JobShape /\ AtLeg(Idle, k) /\ clock \in 0..clock
  BY ClockFact, IdleFact DEF JobsInv, JobShapes
<1>. QED
  BY <1>1 DEF JobShape, AtLeg

LEMMA OpDoneGoesOn ==
    ASSUME JobsInv, NEW k \in Jobs, OpDone(k)
    PROVE  GoesOn(k)
<1>. DEFINE quote == [Idle EXCEPT !.at = "call", !.op = "quote"]
            rest  == [Idle EXCEPT !.at = "rest"]
<1>1. (Move(k, quote) \/ Move(k, rest)) /\ UNCHANGED tells
  BY DEF OpDone
<1>2. /\ quote \in JobShape /\ AtLeg(quote, k) /\ quote.at = "call"
      /\ rest \in JobShape /\ AtLeg(rest, k) /\ rest.at = "rest"
  BY FirstLeg
<1>. HIDE DEF quote, rest
<1>. QED
  BY <1>1, <1>2 DEF GoesOn

\* A leg that fails hands over to the next one, or fails the call.
LEMMA LegFailsFact ==
    ASSUME JobsInv, NEW k \in Jobs, NEW kind \in {"limit", "broken"}, LegFails(k, kind)
    PROVE  GoesOn(k) \/ FailsLast(k)
<1>1. /\ job[k] \in JobShape /\ AtLeg(job[k], k) /\ Len(legs[k]) \in Nat \ {0}
      /\ RetryLimit \in Nat \ {0}
  BY LegsFact, JobsAssumption DEF JobsInv, JobShapes
<1>2. CASE job[k].leg < Len(legs[k])
  <2>. DEFINE gone == job[k].gone \cup {job[k].leg}
              state == [job[k] EXCEPT !.at = "call", !.leg = @ + 1, !.try = 1, !.gone = gone]
  <2>1. Move(k, state) /\ UNCHANGED tells
    BY <1>2 DEF LegFails
  <2>2. gone = 1..(job[k].leg + 1 - 1) /\ gone \in SUBSET Nat
    BY <1>1 DEF AtLeg
  <2>. HIDE DEF gone
  <2>3. state \in JobShape /\ state.at = "call"
    <3>1. job[k].leg + 1 \in Nat \ {0} /\ 1 \in 1..RetryLimit
      BY <1>1 DEF JobShape
    <3>. QED
      BY <1>1, <2>2, <3>1 DEF JobShape
  <2>4. AtLeg(state, k)
    BY <1>1, <1>2, <2>2 DEF AtLeg, JobShape
  <2>. QED
    BY <2>1, <2>3, <2>4 DEF GoesOn
<1>3. CASE ~(job[k].leg < Len(legs[k]))
  <2>1. job[k].leg = Len(legs[k])
    BY <1>1, <1>3 DEF AtLeg
  <2>2. OpFails(k, IF Composite(k) THEN "all legs" ELSE kind)
    BY <1>3 DEF LegFails
  <2>3. CASE job[k].op = "bars"
    <3>1. Fail(k, IF Composite(k) THEN "all legs" ELSE kind)
      BY <2>2, <2>3 DEF OpFails
    <3>. QED
      BY <2>1, <3>1 DEF FailsLast
  <2>4. CASE job[k].op # "bars"
    BY <2>2, <2>4, OpDoneGoesOn DEF OpFails
  <2>. QED
    BY <2>3, <2>4
<1>. QED
  BY <1>2, <1>3

\* A limit makes the leg wait and try again, RetryLimit times at most.
LEMMA LimitedFact ==
    ASSUME JobsInv, NEW k \in Jobs, Limited(k)
    PROVE  GoesOn(k) \/ FailsLast(k)
<1>1. /\ job[k] \in JobShape /\ AtLeg(job[k], k) /\ RetryLimit \in Nat \ {0}
  BY JobsAssumption DEF JobsInv, JobShapes
<1>2. CASE job[k].try < Tries(k)
  <2>. DEFINE state == [job[k] EXCEPT !.at = "wait", !.try = @ + 1]
  <2>1. Move(k, state) /\ UNCHANGED tells
    BY <1>2 DEF Limited
  <2>2. job[k].try + 1 \in 1..RetryLimit
    BY <1>1, <1>2 DEF Tries, JobShape
  <2>3. state \in JobShape /\ state.at = "wait"
    BY <1>1, <2>2 DEF JobShape
  <2>4. AtLeg(state, k)
    BY <1>1 DEF AtLeg, JobShape
  <2>. QED
    BY <2>1, <2>3, <2>4 DEF GoesOn
<1>3. CASE ~(job[k].try < Tries(k))
  BY <1>3, LegFailsFact DEF Limited
<1>. QED
  BY <1>2, <1>3

\* The steps of the calls of a scan.
Calls(k) ==
    \/ Granted(k) \/ Refused(k) \/ OwnBucket(k) \/ Retry(k)
    \/ TwelveDataAnswers(k) \/ OandaAnswers(k) \/ BinanceAnswers(k) \/ Escapes(k)

LEMMA CallsFact ==
    ASSUME JobsInv, NEW k \in Jobs, Calls(k)
    PROVE  /\ GoesOn(k) \/ FailsLast(k)
           /\ job[k].at \in {"call", "wait", "http"}
           /\ [Next]_vars /\ UNCHANGED <<clock, legs>>
<1>1. job[k] \in JobShape /\ AtLeg(job[k], k)
  BY DEF JobsInv, JobShapes
<1>2. ASSUME NEW at \in {"call", "http", "raised"}, Move(k, [job[k] EXCEPT !.at = at]), UNCHANGED tells
      PROVE  GoesOn(k)
  <2>. DEFINE state == [job[k] EXCEPT !.at = at]
  <2>1. state \in JobShape /\ state.at = at
    BY <1>1 DEF JobShape
  <2>2. AtLeg(state, k)
    BY <1>1 DEF AtLeg, JobShape
  <2>. QED
    BY <1>2, <2>1, <2>2 DEF GoesOn
<1>3. CASE Granted(k)
  <2>1. GoesOn(k)
    BY <1>2, <1>3 DEF Granted
  <2>. QED
    BY <1>3, <2>1 DEF Granted, Acquire, Next
<1>4. CASE Refused(k)
  <2>1. GoesOn(k) \/ FailsLast(k)
    BY <1>4, LimitedFact DEF Refused
  <2>. QED
    BY <1>4, <2>1 DEF Refused, Refuse, Next
<1>5. CASE OwnBucket(k)
  <2>1. GoesOn(k) \/ FailsLast(k)
    BY <1>2, <1>5, LimitedFact DEF OwnBucket
  <2>. QED
    BY <1>5, <2>1 DEF OwnBucket, vars
<1>6. CASE Retry(k)
  <2>1. GoesOn(k)
    BY <1>2, <1>6 DEF Retry
  <2>. QED
    BY <1>6, <2>1 DEF Retry, vars
<1>7. CASE TwelveDataAnswers(k) \/ OandaAnswers(k)
  <2>1. GoesOn(k) \/ FailsLast(k)
    BY <1>7, OpDoneGoesOn, LimitedFact, LegFailsFact
       DEF TwelveDataAnswers, OandaAnswers, RestAnswer
  <2>. QED
    BY <1>7, <2>1 DEF TwelveDataAnswers, OandaAnswers, RestAnswer, vars
<1>8. CASE BinanceAnswers(k)
  <2>1. GoesOn(k) \/ FailsLast(k)
    BY <1>8, OpDoneGoesOn, LegFailsFact DEF BinanceAnswers
  <2>. QED
    BY <1>8, <2>1 DEF BinanceAnswers, vars
<1>9. CASE Escapes(k)
  <2>1. GoesOn(k)
    BY <1>2, <1>9 DEF Escapes
  <2>. QED
    BY <1>9, <2>1 DEF Escapes, vars
<1>. QED
  BY <1>3, <1>4, <1>5, <1>6, <1>7, <1>8, <1>9 DEF Calls

-----------------------------------------------------------------------------
\* The invariant of the jobs.

LEMMA JobsInitInv ==
    ASSUME JobsInit
    PROVE  JobsInv
<1>1. BucketInv
  BY InitInv DEF JobsInit
<1>2. clock = 0 /\ RetryLimit \in Nat \ {0} /\ Threshold \in Nat \ {0} /\ 1..0 = {}
  BY JobsAssumption DEF JobsInit, Init
<1>3. Idle \in JobShape
  BY <1>2 DEF Idle, JobShape
<1>4. JobShapes
  BY <1>2, <1>3 DEF JobsInit, JobShapes, Never
<1>5. ASSUME NEW k \in Jobs
      PROVE  AtLeg(job[k], k)
  BY <1>2, IdleFact DEF JobsInit
<1>6. inARow = fails
  BY DEF JobsInit
<1>. QED
  BY <1>1, <1>4, <1>5, <1>6 DEF JobsInv

\* One job moves while the clock stands still.
LEMMA MoveKeeps ==
    ASSUME JobsInv, BucketInv', NEW k \in Jobs, NEW state \in JobShape, Move(k, state),
           AtLeg(state, k), UNCHANGED <<clock, legs>>,
           fails' \in [Jobs -> 0..Threshold], inARow' = fails',
           alertedAt' \in [Jobs -> Never..clock]
    PROVE  JobsInv'
<1>1. JobShapes'
  BY DEF JobsInv, JobShapes, JobShape, Move
<1>2. ASSUME NEW q \in Jobs
      PROVE  AtLeg(job[q], q)'
  BY DEF JobsInv, JobShapes, AtLeg, Move
<1>. QED
  BY <1>1, <1>2 DEF JobsInv

LEMMA FailKeeps ==
    ASSUME JobsInv, BucketInv', NEW k \in Jobs, NEW kind, Fail(k, kind), UNCHANGED <<clock, legs>>
    PROVE  JobsInv'
<1>. DEFINE alert == [Idle EXCEPT !.at = "alert", !.now = clock]
            count == Least(fails[k] + 1, Threshold)
<1>2. (Move(k, alert) \/ Move(k, Idle)) /\ alertedAt' = alertedAt
  BY DEF Fail
<1>3. fails' = [fails EXCEPT ![k] = count] /\ inARow' = [inARow EXCEPT ![k] = count]
  BY DEF Fail, JobsInv
<1>4. /\ alert \in JobShape /\ AtLeg(alert, k)
      /\ Idle \in JobShape /\ AtLeg(Idle, k)
  BY FirstLeg
<1>. HIDE DEF alert
<1>5. count \in 0..Threshold
  BY JobsAssumption DEF JobsInv, JobShapes, Least
<1>. HIDE DEF count
<1>6. fails' \in [Jobs -> 0..Threshold] /\ inARow' = fails'
  BY <1>3, <1>5 DEF JobsInv, JobShapes
<1>. QED
  BY <1>2, <1>4, <1>6, MoveKeeps DEF JobsInv, JobShapes

LEMMA JobsStep ==
    ASSUME JobsInv, [JobsNext]_<<vars, jobvars>>
    PROVE  JobsInv' /\ [Next]_vars
<1>1. CASE Elsewhere \/ UNCHANGED <<vars, jobvars>>
  <2>1. [Next]_vars /\ UNCHANGED jobvars
    BY <1>1 DEF Elsewhere
  <2>2. BucketInv' /\ clock \in Nat /\ clock' \in Nat /\ clock' >= clock
    BY <2>1, StepInv, ClockFact
       DEF JobsInv, BucketInv, TypeOK, Next, Acquire, Refuse, Tick, Observe, vars
  <2>3. 0..clock \subseteq 0..clock' /\ Never..clock \subseteq Never..clock'
    BY <2>2 DEF Never
  <2>4. JobShapes'
    BY <2>1, <2>3 DEF JobsInv, JobShapes, JobShape, jobvars, tells
  <2>. QED
    BY <2>1, <2>2, <2>4 DEF JobsInv, AtLeg, jobvars, tells
<1>2. CASE Restart
  <2>1. /\ UNCHANGED <<vars, legs>> /\ job' = [k \in Jobs |-> Idle]
        /\ fails' = [k \in Jobs |-> 0] /\ inARow' = fails'
        /\ alertedAt' = [k \in Jobs |-> Never]
    BY <1>2 DEF Restart
  <2>2. BucketInv' /\ clock' = clock
    BY <2>1, StepInv DEF JobsInv, vars
  <2>3. Never \in Never..clock /\ 0 \in 0..Threshold
    BY ClockFact, JobsAssumption DEF Never
  <2>4. \A k \in Jobs : Idle \in JobShape /\ AtLeg(Idle, k)
    BY FirstLeg
  <2>5. JobShapes'
    BY <2>1, <2>2, <2>3, <2>4 DEF JobsInv, JobShapes, JobShape
  <2>. QED
    BY <2>1, <2>2, <2>4, <2>5 DEF JobsInv, AtLeg
<1>3. ASSUME NEW k \in Jobs, Begin(k)
      PROVE  JobsInv' /\ [Next]_vars
  <2>1. UNCHANGED <<vars, legs, tells>> /\ clock' = clock
    BY <1>3 DEF Begin, vars
  <2>2. PICK op \in {"bars", "quote"} : Move(k, [Idle EXCEPT !.at = "call", !.op = op])
    BY <1>3 DEF Begin
  <2>. DEFINE state == [Idle EXCEPT !.at = "call", !.op = op]
  <2>3. Move(k, state)
    BY <2>2
  <2>4. state \in JobShape /\ AtLeg(state, k)
    BY FirstLeg
  <2>. HIDE DEF state
  <2>5. BucketInv'
    BY <2>1, StepInv DEF JobsInv
  <2>. QED
    BY <2>1, <2>3, <2>4, <2>5, MoveKeeps DEF JobsInv, JobShapes, tells
<1>4. ASSUME NEW k \in Jobs, Calls(k)
      PROVE  JobsInv' /\ [Next]_vars
  <2>1. (GoesOn(k) \/ FailsLast(k)) /\ [Next]_vars /\ UNCHANGED <<clock, legs>>
    BY <1>4, CallsFact
  <2>2. BucketInv'
    BY <2>1, StepInv DEF JobsInv
  <2>3. CASE GoesOn(k)
    BY <2>1, <2>2, <2>3, MoveKeeps DEF GoesOn, JobsInv, JobShapes, tells
  <2>4. CASE FailsLast(k)
    BY <2>1, <2>2, <2>4, FailKeeps DEF FailsLast
  <2>. QED
    BY <2>1, <2>3, <2>4
<1>5. ASSUME NEW k \in Jobs, Completes(k)
      PROVE  JobsInv' /\ [Next]_vars
  <2>1. UNCHANGED <<vars, legs, alertedAt>> /\ clock' = clock /\ Move(k, Idle)
    BY <1>5 DEF Completes, vars
  <2>2. fails' \in [Jobs -> 0..Threshold] /\ inARow' = fails'
    BY <1>5, JobsAssumption DEF Completes, JobsInv, JobShapes
  <2>3. BucketInv'
    BY <2>1, StepInv DEF JobsInv
  <2>. QED
    BY <2>1, <2>2, <2>3, FirstLeg, MoveKeeps DEF JobsInv, JobShapes
<1>6. ASSUME NEW k \in Jobs, Raises(k)
      PROVE  JobsInv' /\ [Next]_vars
  <2>1. UNCHANGED <<vars, legs>> /\ clock' = clock /\ Fail(k, "broken")
    BY <1>6 DEF Raises, vars
  <2>2. BucketInv'
    BY <2>1, StepInv DEF JobsInv
  <2>. QED
    BY <2>1, <2>2, FailKeeps
<1>7. ASSUME NEW k \in Jobs, Alerted(k)
      PROVE  JobsInv' /\ [Next]_vars
  <2>1. UNCHANGED <<vars, legs, fails, inARow>> /\ clock' = clock /\ Move(k, Idle)
    BY <1>7 DEF Alerted, vars
  <2>2. job[k].now \in Never..clock
    BY ClockFact DEF JobsInv, JobShapes, JobShape, Never
  <2>3. alertedAt' \in [Jobs -> Never..clock]
    BY <1>7, <2>2 DEF Alerted, JobsInv, JobShapes
  <2>4. BucketInv'
    BY <2>1, StepInv DEF JobsInv
  <2>. QED
    BY <2>1, <2>3, <2>4, FirstLeg, MoveKeeps DEF JobsInv, JobShapes
<1>. QED
  BY <1>1, <1>2, <1>3, <1>4, <1>5, <1>6, <1>7 DEF JobsNext, Step, Calls

\* jobs.py and composite_market.py: in every reachable state the legs that are gone are those
\* before the present one, the failures counted are those in a row, and the bucket is what
\* its history allows.
THEOREM JobsInvariance == JobsSpec => []JobsInv
<1>1. JobsInit => JobsInv
  BY JobsInitInv
<1>2. JobsInv /\ [JobsNext]_<<vars, jobvars>> => JobsInv'
  BY JobsStep
<1>. QED
  BY <1>1, <1>2, PTL DEF JobsSpec

\* The variables of the jobs keep their types.
THEOREM JobsTypeCorrect == JobsSpec => []JobsTypeOK
<1>1. JobsInv => JobsTypeOK
  <2>. SUFFICES ASSUME JobsInv, NEW k \in Jobs
                PROVE  /\ job[k].at \in {"idle", "call", "http", "wait", "raised", "rest", "alert"}
                       /\ job[k].op \in {"bars", "quote"} /\ job[k].now \in 0..clock
                       /\ job[k].leg \in DOMAIN legs[k] /\ job[k].gone \subseteq DOMAIN legs[k]
                       /\ job[k].try \in 1..RetryLimit
                       /\ fails[k] \in 0..Threshold /\ inARow[k] \in 0..Threshold
                       /\ alertedAt[k] \in Never..clock
    BY DEF JobsTypeOK, JobsInv, JobShapes
  <2>1. job[k] \in JobShape /\ AtLeg(job[k], k)
    BY DEF JobsInv, JobShapes
  <2>2. Len(legs[k]) \in Nat \ {0} /\ DOMAIN legs[k] = 1..Len(legs[k])
    BY LegsFact DEF JobsInv
  <2>3. job[k].leg \in DOMAIN legs[k] /\ job[k].gone \subseteq DOMAIN legs[k]
    BY <2>1, <2>2 DEF AtLeg
  <2>. QED
    BY <2>1, <2>3 DEF JobShape, JobsInv, JobShapes
<1>. QED
  BY <1>1, JobsInvariance, PTL

\* The jobs use the bucket as any caller does, so its bound and its refinement hold of what
\* they and all other processes draw together.
THEOREM JobsUseTheBucket == JobsSpec => []WindowBound /\ RefinesBucket
<1>1. JobsInit => Init
  BY DEF JobsInit
<1>2. JobsInv /\ [JobsNext]_<<vars, jobvars>> => [Next]_vars
  BY JobsStep
<1>3. JobsSpec => Spec
  BY <1>1, <1>2, JobsInvariance, PTL DEF JobsSpec, Spec
<1>. QED
  BY <1>3, RequestsBounded, ScriptRefinesBucket, PTL

-----------------------------------------------------------------------------
\* How a scan fails.

\* The only steps in which the scan of k fails: its last leg fails, or what follows raises.
LEMMA FailsHow ==
    ASSUME JobsInv, [JobsNext]_<<vars, jobvars>>, NEW k \in Jobs, FailsNow(k)
    PROVE  \/ Calls(k) /\ FailsLast(k)
           \/ Raises(k)
<1>. DEFINE Busy == job[k].at \notin {"idle", "alert"}
<1>1. Busy /\ job'[k].at \in {"idle", "alert"} /\ inARow'[k] > 0
  BY DEF FailsNow
<1>2. job \in [Jobs -> JobShape] /\ inARow \in [Jobs -> 0..Threshold]
  BY DEF JobsInv, JobShapes
<1>3. ~(Elsewhere \/ UNCHANGED <<vars, jobvars>>)
  BY <1>1 DEF Elsewhere, jobvars
<1>4. ~Restart
  BY <1>1 DEF Restart
<1>5. PICK q \in Jobs : Begin(q) \/ Step(q)
  BY <1>3, <1>4 DEF JobsNext
<1>6. q = k
  <2>1. \E state : Move(q, state)
    BY <1>5 DEF Begin, Step, Granted, Refused, OwnBucket, Retry, TwelveDataAnswers, OandaAnswers,
                BinanceAnswers, RestAnswer, Escapes, Completes, Raises, Alerted, Limited, LegFails, OpFails,
                OpDone, Fail
  <2>. QED
    BY <1>1, <1>2, <2>1 DEF Move
<1>7. ~Begin(k) /\ ~Alerted(k)
  BY <1>1 DEF Begin, Alerted
<1>8. ~Completes(k)
  BY <1>1, <1>2 DEF Completes
<1>9. CASE Calls(k)
  <2>1. ~GoesOn(k)
    BY <1>1, <1>2 DEF GoesOn, Move
  <2>. QED
    BY <1>9, <2>1, CallsFact
<1>. QED
  BY <1>5, <1>6, <1>7, <1>8, <1>9 DEF Step, Calls

\* A ProviderError does not fail a scan that has a leg left.
LEMMA LegsTried ==
    ASSUME JobsInv, [JobsNext]_<<vars, jobvars>>, NEW k \in Jobs, FailsInCall(k), Composite(k)
    PROVE  job[k].gone \cup {job[k].leg} = DOMAIN legs[k]
<1>1. job[k].leg = Len(legs[k])
  BY FailsHow DEF FailsInCall, FailsLast, Raises
<1>2. /\ AtLeg(job[k], k) /\ Len(legs[k]) \in Nat \ {0}
      /\ DOMAIN legs[k] = 1..Len(legs[k])
  BY LegsFact DEF JobsInv
<1>. QED
  BY <1>1, <1>2 DEF AtLeg

\* composite_market.py:66-90: a scan that fails of a ProviderError of its legs, a limit
\* included, has had one from every leg of its provider.  An exception of another kind
\* escapes the composite at once, and of it nothing is said.
THEOREM EveryLegIsTried == JobsSpec => FailsOverFirst
<1>1. JobsInv /\ [JobsNext]_<<vars, jobvars>>
        => [\A k \in Jobs :
              (FailsInCall(k) /\ Composite(k)) =>
                  job[k].gone \cup {job[k].leg} = DOMAIN legs[k]]_<<vars, jobvars>>
  BY LegsTried
<1>. QED
  BY <1>1, JobsInvariance, PTL DEF JobsSpec, FailsOverFirst

\* The Threshold-th failure in a row writes to the operator, unless it is a limit or the
\* cooldown runs.
LEMMA FailTells ==
    ASSUME JobsInv, NEW k \in Jobs, NEW kind, Fail(k, kind), kind # "limit",
           inARow'[k] = Threshold
    PROVE  \/ job'[k].at = "alert"
           \/ alertedAt[k] # Never /\ clock - alertedAt[k] < AlertCooldown
<1>. DEFINE count == Least(fails[k] + 1, Threshold)
            due == alertedAt[k] = Never \/ clock - alertedAt[k] >= AlertCooldown
            alert == [Idle EXCEPT !.at = "alert", !.now = clock]
<1>1. job \in [Jobs -> JobShape] /\ inARow \in [Jobs -> 0..Threshold] /\ inARow[k] = fails[k]
  BY DEF JobsInv, JobShapes
<1>2. count = Threshold
  BY <1>1 DEF Fail
<1>3. CASE due
  <2>1. Move(k, alert) /\ alert.at = "alert"
    BY <1>2, <1>3, JobsAssumption DEF Fail, Idle
  <2>. QED
    BY <1>1, <2>1 DEF Move
<1>4. CASE ~due
  <2>1. alertedAt[k] \in Int /\ clock \in Int /\ AlertCooldown \in Int
    BY ClockFact, JobsAssumption DEF JobsInv, JobShapes, Never
  <2>. QED
    BY <1>4, <2>1
<1>. QED
  BY <1>3, <1>4

LEMMA ToldInStep ==
    ASSUME JobsInv, [JobsNext]_<<vars, jobvars>>, NEW k \in Jobs,
           FailsNow(k), inARow'[k] = Threshold, FailsInCall(k) => Composite(k)
    PROVE  \/ job'[k].at = "alert"
           \/ alertedAt[k] # Never /\ clock - alertedAt[k] < AlertCooldown
<1>1. CASE Raises(k)
  BY <1>1, FailTells DEF Raises
<1>2. CASE Calls(k) /\ FailsLast(k)
  <2>1. Composite(k)
    BY <1>2, CallsFact DEF FailsInCall
  <2>. QED
    BY <1>2, <2>1, FailTells DEF FailsLast
<1>. QED
  BY <1>1, <1>2, FailsHow

\* jobs.py:84-97: the operator is written to, or was within the cooldown, when the
\* Threshold-th or a later scan in a row fails, whatever the earlier ones failed of.
THEOREM OperatorIsTold == JobsSpec => TellsInTime
<1>1. JobsInv /\ [JobsNext]_<<vars, jobvars>>
        => [\A k \in Jobs :
              (FailsNow(k) /\ inARow'[k] = Threshold /\ (FailsInCall(k) => Composite(k))) =>
                  \/ job'[k].at = "alert"
                  \/ alertedAt[k] # Never /\ clock - alertedAt[k] < AlertCooldown
             ]_<<vars, jobvars>>
  BY ToldInStep
<1>. QED
  BY <1>1, JobsInvariance, PTL DEF JobsSpec, TellsInTime
=============================================================================
