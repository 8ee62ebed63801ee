-------------------------- MODULE LlmBudgetProofs --------------------------
(***************************************************************************)
(* What the LLM part of a scan spends, decides and charges, for every      *)
(* number of scans, days and calls.                                        *)
(*                                                                         *)
(* That Redis never holds more than the providers billed rests on the lock *)
(* of the audit chain: only one scan is inside at a time, so what is in    *)
(* Redis and what that scan has yet to add are together covered by the     *)
(* bills (Covered).  A scan that crosses midnight forgets what it spent,   *)
(* which only makes its share smaller.                                     *)
(***************************************************************************)
EXTENDS LlmBudget, FoldLemmas

\* The sum over the days.
LEMMA TotalIsSum == \A f : TotalOver(f) = SumOf(f)
BY DEF TotalOver, SumOf

-----------------------------------------------------------------------------
\* The invariant.

Decision == {"none", "PUBLISH", "REJECTED", "ABSTAIN", "FALLBACK"}
SourceSets == {a.sources : a \in Assessments} \cup {{}}
Results == [decision : Decision, confidence : 0..100, sources : SourceSets, llmUsed : BOOLEAN]
States == [steps : 0..4, usd : Nat, day : Nat, stop : BOOLEAN]
ScanType ==
    [at : Stage, run : 0..2, score : 0..100, seed : Nat, state : States, cost : Nat,
     assessment : Assessments \cup {{}}, result : Results]

Shapes ==
    /\ lock \in Scanners \cup {NoOne}
    /\ day \in Days
    /\ store \in [Days -> Nat] /\ billed \in [Days -> Nat]
    /\ scans \in 0..MaxScans
    /\ sc \in [Scanners -> ScanType]

\* How many calls a scan in run r has recorded when it is at a stage.
StepsAt(at, r) ==
    CASE at \in {"analyst", "analyst_paid"} -> IF r = 1 THEN 0..0 ELSE 0..2
      [] at \in {"critic", "critic_paid"}   -> IF r = 1 THEN 1..1 ELSE 1..3
      [] at = "decided"                     -> IF r = 1 THEN 0..2 ELSE 0..4
      [] OTHER                              -> 0..4

\* The steps of a scan, in the order of the pipeline; an analyst has answered before
\* the critic is asked.
InOrder(s) ==
    /\ s.at \notin {"idle", "seed", "state"} => s.run \in {1, 2} /\ s.state.steps \in StepsAt(s.at, s.run)
    /\ s.at \in {"analyst_paid", "critic", "critic_paid"} => s.assessment \in Assessments

\* A scan that has stopped has decided without the LLM, so it is not run again; one
\* that has called, and not stopped, is below the cap.
Stops(s) ==
    /\ s.at \in {"seed", "state"} => s.state = NoState
    /\ s.state.stop => s.at \in {"idle", "decided", "gate"} /\ ~ s.result.llmUsed
    /\ s.state.steps > 0 /\ ~ s.state.stop => s.state.usd < CapUsd

\* What the second gate says of a result is what the pipeline says.
Agrees(r) ==
    /\ r.decision = "PUBLISH" => PostGate(r)
    /\ r.decision = "FALLBACK" => ~ PostGate(r)

\* What a scan has yet to add to Redis.
Share(s) ==
    IF s.at \in {"idle", "gate"} THEN 0
    ELSE (IF s.state.usd > s.seed THEN s.state.usd - s.seed ELSE 0) + s.cost

\* Only the holder of the lock is inside, and Redis with its share is billed.
Covered ==
    /\ TotalOver(store) <= TotalOver(billed)
    /\ \A p \in Scanners :
        /\ sc[p].at # "idle" => lock = p
        /\ TotalOver(store) + Share(sc[p]) <= TotalOver(billed)

BudgetInv ==
    /\ Shapes
    /\ Covered
    /\ \A p \in Scanners : InOrder(sc[p]) /\ Stops(sc[p]) /\ Agrees(sc[p].result)

-----------------------------------------------------------------------------
\* What the operators of a scan return.

LEMMA ClampFact ==
    ASSUME NEW x \in Int, NEW low \in Int, NEW high \in Int, low <= high
    PROVE  Clamp(x, low, high) \in low .. high
BY DEF Clamp

LEMMA ConfidenceType ==
    ASSUME NEW score \in 0..100, NEW a \in Assessments, NEW r \in Reviews
    PROVE  Confidence(score, a, r) \in 0..100
<1>. DEFINE serious == {i \in DOMAIN r.arguments : r.arguments[i].severity \in {"med", "high"}}
            adjust  == IF a.verdict = "CONFIRM" THEN Clamp(a.raw - 50, -15, 15) ELSE 0
            penalty == Clamp(5 * Cardinality(serious), 0, 15)
<1>1. IsFiniteSet(DOMAIN r.arguments)
  <2>1. r.arguments \in Seq(ToSet(r.arguments))
    BY AnswerAssumption
  <2>2. Len(r.arguments) \in Nat /\ DOMAIN r.arguments = 1 .. Len(r.arguments)
    BY <2>1
  <2>. QED
    BY <2>2, FS_Interval
<1>2. IsFiniteSet(serious)
  BY <1>1, FS_Subset
<1>3. Cardinality(serious) \in Nat
  BY <1>2, FS_CardinalityType
<1>. HIDE DEF serious
<1>4. penalty \in Int
  BY <1>3, ClampFact
<1>5. adjust \in Int
  <2>. DEFINE x   == a.raw - 50
              low == -15
  <2>1. a.raw \in 0..100
    BY AnswerAssumption
  <2>2. x \in Int /\ low \in Int /\ low <= 15
    BY <2>1
  <2>. HIDE DEF x, low
  <2>3. Clamp(x, low, 15) \in low .. 15
    BY <2>2, ClampFact
  <2>4. Clamp(x, low, 15) \in Int
    BY <2>2, <2>3
  <2>. QED
    BY <2>4 DEF x, low
<1>. HIDE DEF adjust, penalty
<1>6. Clamp(score + adjust - penalty, 0, 100) \in 0..100
  <2>. DEFINE x    == score + adjust - penalty
              low  == 0
              high == 100
  <2>1. x \in Int /\ low \in Int /\ high \in Int /\ low <= high
    BY <1>4, <1>5
  <2>. HIDE DEF x, low, high
  <2>2. Clamp(x, low, high) \in low .. high
    BY <2>1, ClampFact
  <2>. QED
    BY <2>2 DEF x, low, high
<1>7. Confidence(score, a, r) = Clamp(score + adjust - penalty, 0, 100)
  BY DEF Confidence, serious, adjust, penalty
<1>. QED
  BY <1>6, <1>7

LEMMA DecideFact ==
    ASSUME NEW score \in 0..100, NEW a \in Assessments, NEW r \in Reviews
    PROVE  LET d == Decide(score, a, r) IN d \in Results /\ Agrees(d)
<1>. DEFINE c == Confidence(score, a, r)
            v == a.verdict = "VETO" \/ r.recommendation = "VETO" \/ AutoVeto(r)
            h == Hallucinated(a, r)
            d == Decide(score, a, r)
<1>1. c \in 0..100 /\ a.sources \in SourceSets /\ a.sources # {}
  BY ConfidenceType, AnswerAssumption DEF SourceSets
<1>2. ~ h => a.sources \subseteq SourceIds
  BY DEF Hallucinated
<1>3. \/ h /\ d = Result("ABSTAIN", 0, a.sources, TRUE)
      \/ ~ h /\ v /\ d = Result("REJECTED", 0, a.sources, TRUE)
      \/ ~ h /\ ~ v /\ c < ConfidenceMin /\ d = Result("ABSTAIN", c, a.sources, TRUE)
      \/ ~ h /\ ~ v /\ ~ (c < ConfidenceMin) /\ d = Result("PUBLISH", c, a.sources, TRUE)
  BY DEF Decide
<1>. HIDE DEF c, v, h, d
<1>4. ~ (c < ConfidenceMin) => c >= ConfidenceMin
  BY <1>1, ConfidenceAssumption
<1>5. d \in Results
  <2>1. \A dec \in Decision, x \in 0..100 : Result(dec, x, a.sources, TRUE) \in Results
    BY <1>1 DEF Result, Results
  <2>2. {"ABSTAIN", "REJECTED", "PUBLISH"} \subseteq Decision /\ 0 \in 0..100
    BY DEF Decision
  <2>3. Result("ABSTAIN", 0, a.sources, TRUE) \in Results
    BY <2>1, <2>2
  <2>4. Result("REJECTED", 0, a.sources, TRUE) \in Results
    BY <2>1, <2>2
  <2>5. Result("ABSTAIN", c, a.sources, TRUE) \in Results
    BY <1>1, <2>1, <2>2
  <2>6. Result("PUBLISH", c, a.sources, TRUE) \in Results
    BY <1>1, <2>1, <2>2
  <2>. QED
    BY <1>3, <2>3, <2>4, <2>5, <2>6
<1>6. Agrees(d)
  BY <1>1, <1>2, <1>3, <1>4 DEF Agrees, PostGate, Result
<1>. QED
  BY <1>5, <1>6 DEF d

LEMMA FallbackFact ==
    ASSUME NEW score \in 0..100
    PROVE  Fallback(score) \in Results /\ Agrees(Fallback(score)) /\ ~ Fallback(score).llmUsed
BY DEF Fallback, Result, Results, Decision, SourceSets, Agrees, PostGate

LEMMA NoResultFact == NoResult \in Results /\ Agrees(NoResult)
BY DEF NoResult, Result, Results, Decision, SourceSets, Agrees

LEMMA ChargedFact ==
    ASSUME NEW s \in States, s.steps < 4, NEW cost \in Nat, NEW today \in Nat,
           NEW other \in BOOLEAN
    PROVE  LET t == Charged(s, cost, today, other)
           IN  /\ t \in States /\ t.steps = s.steps + 1
               /\ t.usd = (IF s.day = today THEN s.usd ELSE 0) + cost
               /\ ~ t.stop => t.usd < CapUsd
<1>. DEFINE usd  == (IF s.day = today THEN s.usd ELSE 0) + cost
            stop == other \/ usd >= CapUsd
<1>1. Charged(s, cost, today, other)
        = [steps |-> s.steps + 1, usd |-> usd, day |-> today, stop |-> stop]
  BY DEF Charged
<1>2. usd \in Nat /\ s.steps + 1 \in 0..4
  BY DEF States
<1>3. ~ stop => usd < CapUsd
  BY <1>2, BudgetAssumption
<1>4. stop \in BOOLEAN
  BY Zenon
<1>. HIDE DEF usd, stop
<1>5. [steps |-> s.steps + 1, usd |-> usd, day |-> today, stop |-> stop] \in States
  BY <1>2, <1>4 DEF States
<1>. QED
  BY <1>1, <1>3, <1>5 DEF usd

LEMMA IdleFact == Idle \in ScanType /\ InOrder(Idle) /\ Stops(Idle) /\ Agrees(Idle.result) /\ Share(Idle) = 0
BY NoResultFact DEF Idle, NoState, ScanType, States, Stage, InOrder, Stops, Share

\* Totals of the two tables.
LEMMA Totals ==
    ASSUME Shapes
    PROVE  /\ IsFiniteSet(Days) /\ store \in [Days -> Int] /\ billed \in [Days -> Int]
           /\ TotalOver(store) \in Int /\ TotalOver(billed) \in Int
<1>1. IsFiniteSet(Days)
  BY FS_Interval, BudgetAssumption DEF Days
<1>2. store \in [Days -> Int] /\ billed \in [Days -> Int]
  BY DEF Shapes
<1>. QED
  BY <1>1, <1>2, SumType, TotalIsSum

\* A step of the scan that holds the lock, whatever it does to the two tables, as
\* long as they cover its new share.
LEMMA HolderStep ==
    ASSUME BudgetInv, NEW p \in Scanners, NEW s \in ScanType,
           lock = p, lock' = p, day' = day, scans' \in 0..MaxScans,
           sc' = [sc EXCEPT ![p] = s],
           InOrder(s), Stops(s), Agrees(s.result),
           store' \in [Days -> Nat], billed' \in [Days -> Nat],
           TotalOver(store') + Share(s) <= TotalOver(billed')
    PROVE  BudgetInv'
<1>1. Shapes'
  BY DEF BudgetInv, Shapes
<1>2. TotalOver(store') \in Int /\ TotalOver(billed') \in Int
  <2>1. IsFiniteSet(Days)
    BY FS_Interval, BudgetAssumption DEF Days
  <2>2. store' \in [Days -> Int] /\ billed' \in [Days -> Int]
    OBVIOUS
  <2>. QED
    BY <2>1, <2>2, SumType, TotalIsSum
<1>3. Share(s) \in Nat
  BY DEF Share, ScanType, States
<1>4. TotalOver(store') <= TotalOver(billed')
  BY <1>2, <1>3
<1>5. ASSUME NEW q \in Scanners
      PROVE  /\ sc'[q].at # "idle" => lock' = q
             /\ TotalOver(store') + Share(sc'[q]) <= TotalOver(billed')
             /\ InOrder(sc'[q]) /\ Stops(sc'[q]) /\ Agrees(sc'[q].result)
  <2>1. CASE q = p
    <3>1. sc'[q] = s
      BY <2>1 DEF BudgetInv, Shapes
    <3>. QED
      BY <2>1, <3>1
  <2>2. CASE q # p
    <3>1. sc'[q] = sc[q] /\ sc[q].at = "idle"
      BY <2>2 DEF BudgetInv, Covered, Shapes
    <3>2. Share(sc[q]) = 0
      BY <3>1 DEF Share
    <3>. QED
      BY <1>2, <1>4, <3>1, <3>2 DEF BudgetInv
  <2>. QED
    BY <2>1, <2>2
<1>. QED
  BY <1>1, <1>4, <1>5 DEF BudgetInv, Covered

-----------------------------------------------------------------------------
\* One lemma for each action.

LEMMA BudgetInit ==
    ASSUME Init
    PROVE  BudgetInv
<1>1. IsFiniteSet(Days) /\ day \in Days
  BY FS_Interval, BudgetAssumption DEF Init, Days
<1>2. Shapes
  BY <1>1, IdleFact, BudgetAssumption DEF Init, Shapes
<1>3. TotalOver(store) = 0 /\ TotalOver(billed) = 0
  BY <1>1, SumZero, TotalIsSum DEF Init
<1>4. \A p \in Scanners : sc[p] = Idle
  BY DEF Init
<1>5. Covered
  BY <1>3, <1>4, IdleFact DEF Covered, Idle
<1>. QED
  BY <1>2, <1>4, <1>5, IdleFact DEF BudgetInv

\* Facts that every step of a scan needs.
LEMMA Inside ==
    ASSUME BudgetInv, NEW p \in Scanners, sc[p].at # "idle"
    PROVE  /\ lock = p /\ sc[p] \in ScanType
           /\ InOrder(sc[p]) /\ Stops(sc[p]) /\ Agrees(sc[p].result)
           /\ TotalOver(store) + Share(sc[p]) <= TotalOver(billed)
           /\ TotalOver(store) <= TotalOver(billed)
           /\ store \in [Days -> Nat] /\ billed \in [Days -> Nat]
           /\ scans \in 0..MaxScans /\ day \in Days /\ day \in Nat
           /\ IsFiniteSet(Days)
           /\ TotalOver(store) \in Int /\ TotalOver(billed) \in Int
<1>1. Shapes
  BY DEF BudgetInv
<1>. QED
  BY <1>1, Totals DEF BudgetInv, Covered, Shapes, Days

LEMMA StartStep ==
    ASSUME BudgetInv, NEW p \in Scanners, NEW score \in Scores, Start(p, score)
    PROVE  BudgetInv'
<1>. DEFINE s == [Idle EXCEPT !.at = "seed", !.score = score]
<1>1. s \in ScanType /\ InOrder(s) /\ Stops(s) /\ Agrees(s.result) /\ Share(s) = 0
  <2>1. score \in 0..100
    BY AnswerAssumption
  <2>2. Idle \in ScanType /\ Agrees(Idle.result)
    BY IdleFact
  <2>3. s \in ScanType /\ s.result = Idle.result
    BY <2>1, <2>2 DEF ScanType, Stage
  <2>4. s.at = "seed" /\ s.state = NoState /\ s.seed = 0 /\ s.cost = 0
    BY DEF Idle
  <2>. HIDE DEF s
  <2>5. InOrder(s) /\ Stops(s) /\ Share(s) = 0
    BY <2>4 DEF InOrder, Stops, Share, NoState
  <2>. QED
    BY <2>2, <2>3, <2>5
<1>2. /\ sc' = [sc EXCEPT ![p] = s] /\ lock = NoOne /\ lock' = p /\ scans' = scans + 1
      /\ scans < MaxScans /\ day' = day /\ store' = store /\ billed' = billed
  BY DEF Start
<1>. HIDE DEF s
<1>3. Shapes'
  BY <1>1, <1>2, BudgetAssumption DEF BudgetInv, Shapes
<1>4. TotalOver(store) \in Int /\ TotalOver(billed) \in Int
  BY Totals DEF BudgetInv
<1>5. ASSUME NEW q \in Scanners
      PROVE  /\ sc'[q].at # "idle" => lock' = q
             /\ TotalOver(store') + Share(sc'[q]) <= TotalOver(billed')
             /\ InOrder(sc'[q]) /\ Stops(sc'[q]) /\ Agrees(sc'[q].result)
  <2>1. CASE q = p
    BY <1>1, <1>2, <1>4, <2>1 DEF BudgetInv, Covered, Shapes
  <2>2. CASE q # p
    <3>1. sc'[q] = sc[q] /\ sc[q].at = "idle"
      BY <1>2, <2>2, BudgetAssumption DEF BudgetInv, Covered, Shapes
    <3>. QED
      BY <1>2, <3>1 DEF BudgetInv, Covered
  <2>. QED
    BY <2>1, <2>2
<1>. QED
  BY <1>2, <1>3, <1>5 DEF BudgetInv, Covered

LEMMA SeedStep ==
    ASSUME BudgetInv, NEW p \in Scanners, Seed(p)
    PROVE  BudgetInv'
<1>1. PICK ok \in {TRUE} \cup {~RedisFails} :
          sc' = [sc EXCEPT ![p].at = "state", ![p].seed = IF ok THEN store[day] ELSE 0]
  BY DEF Seed
<1>2. sc[p].at = "seed" /\ UNCHANGED <<lock, day, store, billed, scans>>
  BY DEF Seed
<1>. DEFINE seed == IF ok THEN store[day] ELSE 0
            s    == [sc[p] EXCEPT !.at = "state", !.seed = seed]
<1>3. seed \in Nat
  BY <1>2, Inside
<1>. HIDE DEF seed
<1>4. sc' = [sc EXCEPT ![p] = s]
  BY <1>1 DEF BudgetInv, Shapes, seed
<1>5. s \in ScanType /\ InOrder(s) /\ Stops(s) /\ Agrees(s.result) /\ s.state = NoState
  <2>1. sc[p] \in ScanType /\ Agrees(sc[p].result) /\ sc[p].state = NoState
    BY <1>2, Inside DEF Stops
  <2>2. s \in ScanType /\ s.at = "state" /\ s.result = sc[p].result /\ s.state = sc[p].state
    BY <1>3, <2>1 DEF ScanType, Stage
  <2>. HIDE DEF s
  <2>3. InOrder(s) /\ Stops(s)
    BY <2>1, <2>2 DEF InOrder, Stops, NoState
  <2>. QED
    BY <2>1, <2>2, <2>3
<1>6. Share(s) <= Share(sc[p]) /\ Share(s) \in Nat /\ Share(sc[p]) \in Nat
  BY <1>2, <1>3, <1>5, Inside DEF Share, ScanType, States, Stops, NoState
<1>. HIDE DEF s
<1>7. TotalOver(store') + Share(s) <= TotalOver(billed')
  BY <1>2, <1>6, Inside
<1>. QED
  BY <1>2, <1>4, <1>5, <1>7, Inside, HolderStep

LEMMA StartScanStep ==
    ASSUME BudgetInv, NEW p \in Scanners, StartScan(p)
    PROVE  BudgetInv'
<1>1. sc[p].at = "state" /\ UNCHANGED <<lock, day, store, billed, scans>>
  BY DEF StartScan
<1>. DEFINE t == [NoState EXCEPT !.usd = sc[p].seed, !.day = day]
            s == [sc[p] EXCEPT !.at = "analyst", !.run = 1, !.state = t]
<1>2. sc' = [sc EXCEPT ![p] = s]
  BY DEF StartScan, BudgetInv, Shapes
<1>3. t \in States /\ t.steps = 0 /\ t.stop = FALSE /\ t.usd = sc[p].seed
  <2>1. sc[p].seed \in Nat /\ day \in Nat
    BY <1>1, Inside DEF ScanType
  <2>2. NoState \in States /\ NoState.steps = 0 /\ NoState.stop = FALSE
    BY DEF NoState, States
  <2>3. t \in States /\ t.usd = sc[p].seed
    BY <2>1, <2>2 DEF States
  <2>4. t.steps = NoState.steps /\ t.stop = NoState.stop
    BY <2>2 DEF States
  <2>. QED
    BY <2>2, <2>3, <2>4
<1>. HIDE DEF t
<1>4. s \in ScanType /\ InOrder(s) /\ Stops(s) /\ Agrees(s.result)
  <2>1. sc[p] \in ScanType /\ Agrees(sc[p].result)
    BY <1>1, Inside
  <2>2. t \in States /\ "analyst" \in Stage /\ 1 \in 0..2
    BY <1>3 DEF Stage
  <2>3. s \in ScanType
    BY <2>1, <2>2 DEF ScanType
  <2>4. s.at = "analyst" /\ s.run = 1 /\ s.state = t /\ s.result = sc[p].result
    BY <2>1 DEF ScanType
  <2>. HIDE DEF s
  <2>5. InOrder(s) /\ Stops(s)
    BY <1>3, <2>4 DEF InOrder, Stops, StepsAt
  <2>. QED
    BY <2>1, <2>3, <2>4, <2>5
<1>5. Share(s) <= Share(sc[p]) /\ Share(s) \in Nat /\ Share(sc[p]) \in Nat
  BY <1>1, <1>3, Inside DEF Share, ScanType, States
<1>. HIDE DEF s
<1>6. TotalOver(store') + Share(s) <= TotalOver(billed')
  BY <1>1, <1>5, Inside
<1>. QED
  BY <1>1, <1>2, <1>4, <1>6, Inside, HolderStep

LEMMA AnswerStep ==
    ASSUME BudgetInv, NEW p \in Scanners, NEW agent \in Agent,
           NEW wasted \in Costs, NEW cost \in Costs, NEW output,
           \/ agent = "analyst" /\ output \in Assessments
           \/ agent = "critic" /\ output \in Reviews,
           Answer(p, agent, wasted, cost, output)
    PROVE  BudgetInv'
<1>1. /\ sc[p].at = agent /\ agent \in {"analyst", "critic"}
      /\ UNCHANGED <<lock, day, store, scans>>
      /\ billed' = [billed EXCEPT ![day] = @ + wasted + cost]
      /\ wasted \in Nat /\ cost \in Nat
  BY BudgetAssumption DEF Answer, Agent
<1>2. /\ sc[p] \in ScanType /\ InOrder(sc[p]) /\ Stops(sc[p]) /\ Agrees(sc[p].result)
      /\ lock = p /\ scans \in 0..MaxScans /\ day \in Days
      /\ store \in [Days -> Nat] /\ billed \in [Days -> Nat]
      /\ TotalOver(store) + Share(sc[p]) <= TotalOver(billed)
      /\ TotalOver(store) \in Int /\ TotalOver(billed) \in Int
  BY <1>1, Inside
<1>. DEFINE given  == IF agent = "analyst" THEN output ELSE sc[p].assessment
            result == IF agent = "analyst" THEN NoResult
                      ELSE Decide(sc[p].score, sc[p].assessment, output)
            s      == [sc[p] EXCEPT !.at = Paid(agent), !.cost = cost,
                                    !.assessment = given, !.result = result]
<1>3. sc' = [sc EXCEPT ![p] = s]
  BY DEF Answer, BudgetInv, Shapes
<1>4. given \in Assessments
  BY <1>1, <1>2 DEF InOrder
<1>5. result \in Results /\ Agrees(result)
  <2>1. CASE agent = "analyst"
    BY <2>1, NoResultFact
  <2>2. CASE agent = "critic"
    <3>1. sc[p].score \in 0..100 /\ sc[p].assessment \in Assessments /\ output \in Reviews
      BY <1>1, <1>2, <2>2 DEF ScanType, InOrder
    <3>. QED
      BY <2>2, <3>1, DecideFact
  <2>. QED
    BY <1>1, <2>1, <2>2
<1>. HIDE DEF given, result
<1>6. /\ s \in ScanType /\ s.at = Paid(agent) /\ s.run = sc[p].run /\ s.state = sc[p].state
      /\ s.result = result /\ s.assessment = given /\ s.cost = cost /\ s.seed = sc[p].seed
  BY <1>1, <1>2, <1>4, <1>5 DEF ScanType, Stage, Paid
<1>. HIDE DEF s
<1>7. InOrder(s)
  BY <1>1, <1>2, <1>4, <1>6 DEF InOrder, StepsAt, Paid
<1>8. Stops(s)
  BY <1>1, <1>2, <1>6 DEF Stops, Paid
<1>9. Share(s) \in Nat /\ Share(sc[p]) \in Nat /\ Share(s) <= Share(sc[p]) + cost
  BY <1>1, <1>2, <1>6 DEF Share, Paid, ScanType, States
<1>10. billed' \in [Days -> Nat] /\ TotalOver(billed') = TotalOver(billed) + (wasted + cost)
  <2>. DEFINE c == wasted + cost
  <2>1. /\ billed' \in [Days -> Nat] /\ c \in Int
        /\ billed'[day] = billed[day] + c
        /\ \A x \in Days : x # day => billed'[x] = billed[x]
    BY <1>1, <1>2
  <2>. HIDE DEF c
  <2>2. billed' \in [Days -> Int] /\ billed \in [Days -> Int] /\ IsFiniteSet(Days)
    BY <1>1, <1>2, <2>1, Inside
  <2>3. TotalOver(billed') = TotalOver(billed) + c
    BY <1>2, <2>1, <2>2, SumAdd, TotalIsSum
  <2>. QED
    BY <2>1, <2>3 DEF c
<1>11. TotalOver(store') + Share(s) <= TotalOver(billed')
  BY <1>1, <1>2, <1>9, <1>10
<1>. QED
  BY <1>1, <1>2, <1>3, <1>5, <1>6, <1>7, <1>8, <1>10, <1>11, HolderStep

LEMMA CallFailsStep ==
    ASSUME BudgetInv, NEW p \in Scanners, NEW failure \in Failures, NEW cost \in Costs,
           CallFails(p, failure, cost)
    PROVE  BudgetInv'
<1>1. /\ sc[p].at \in {"analyst", "critic"}
      /\ UNCHANGED <<lock, day, store, scans>>
      /\ billed' = [billed EXCEPT ![day] = @ + cost]
      /\ cost \in Nat /\ cost \in Int
  BY BudgetAssumption DEF CallFails, Agent
<1>2. /\ sc[p] \in ScanType /\ InOrder(sc[p]) /\ Stops(sc[p])
      /\ lock = p /\ scans \in 0..MaxScans /\ day \in Days
      /\ store \in [Days -> Nat] /\ billed \in [Days -> Nat] /\ billed \in [Days -> Int]
      /\ TotalOver(store) + Share(sc[p]) <= TotalOver(billed)
      /\ TotalOver(store) \in Int /\ TotalOver(billed) \in Int /\ IsFiniteSet(Days)
  BY <1>1, Inside
<1>. DEFINE result == IF failure = "unexpected" THEN Result("ABSTAIN", 0, {}, FALSE)
                      ELSE Fallback(sc[p].score)
            s      == [sc[p] EXCEPT !.at = "decided", !.result = result]
<1>3. sc' = [sc EXCEPT ![p] = s]
  BY DEF CallFails, BudgetInv, Shapes
<1>4. result \in Results /\ Agrees(result) /\ ~ result.llmUsed
  <2>1. CASE failure = "unexpected"
    BY <2>1 DEF Result, Results, Decision, SourceSets, Agrees
  <2>2. CASE failure # "unexpected"
    <3>1. sc[p].score \in 0..100
      BY <1>2 DEF ScanType
    <3>. QED
      BY <2>2, <3>1, FallbackFact
  <2>. QED
    BY <2>1, <2>2
<1>. HIDE DEF result
<1>5. /\ s \in ScanType /\ s.at = "decided" /\ s.run = sc[p].run /\ s.state = sc[p].state
      /\ s.result = result /\ s.cost = sc[p].cost /\ s.seed = sc[p].seed
  BY <1>2, <1>4 DEF ScanType, Stage
<1>. HIDE DEF s
<1>6. InOrder(s)
  BY <1>1, <1>2, <1>5 DEF InOrder, StepsAt
<1>7. Stops(s)
  BY <1>1, <1>2, <1>4, <1>5 DEF Stops
<1>8. Share(s) \in Nat /\ Share(s) = Share(sc[p])
  BY <1>1, <1>2, <1>5 DEF Share, ScanType, States
<1>9. billed' \in [Days -> Nat] /\ TotalOver(billed') = TotalOver(billed) + cost
  <2>1. /\ billed' \in [Days -> Nat]
        /\ billed'[day] = billed[day] + cost
        /\ \A x \in Days : x # day => billed'[x] = billed[x]
    BY <1>1, <1>2
  <2>2. billed' \in [Days -> Int] /\ cost \in Int
    BY <1>1, <2>1
  <2>3. TotalOver(billed') = TotalOver(billed) + cost
    BY <1>2, <2>1, <2>2, SumAdd, TotalIsSum
  <2>. QED
    BY <2>1, <2>3
<1>10. TotalOver(store') + Share(s) <= TotalOver(billed')
  BY <1>1, <1>2, <1>8, <1>9
<1>. QED
  BY <1>1, <1>2, <1>3, <1>4, <1>5, <1>6, <1>7, <1>9, <1>10, HolderStep

LEMMA RecordStep ==
    ASSUME BudgetInv, NEW p \in Scanners, NEW other \in BOOLEAN, Record(p, other)
    PROVE  BudgetInv'
<1>1. /\ sc[p].at \in {"analyst_paid", "critic_paid"}
      /\ UNCHANGED <<lock, day, store, billed, scans>>
  BY DEF Record
<1>2. /\ sc[p] \in ScanType /\ InOrder(sc[p]) /\ Stops(sc[p]) /\ Agrees(sc[p].result)
      /\ lock = p /\ scans \in 0..MaxScans /\ day \in Nat
      /\ store \in [Days -> Nat] /\ billed \in [Days -> Nat]
      /\ TotalOver(store) + Share(sc[p]) <= TotalOver(billed)
      /\ TotalOver(store) \in Int /\ TotalOver(billed) \in Int
  BY <1>1, Inside
<1>. DEFINE state  == Charged(sc[p].state, sc[p].cost, day, other)
            done   == state.stop \/ sc[p].at = "critic_paid"
            at     == IF done THEN "decided" ELSE "critic"
            result == IF state.stop THEN Fallback(sc[p].score) ELSE sc[p].result
            s      == [sc[p] EXCEPT !.state = state, !.cost = 0, !.at = at, !.result = result]
<1>3. sc' = [sc EXCEPT ![p] = s]
  BY DEF Record, BudgetInv, Shapes
<1>4. /\ sc[p].state \in States /\ sc[p].state.steps < 4
      /\ sc[p].cost \in Nat /\ sc[p].score \in 0..100
  BY <1>1, <1>2 DEF ScanType, InOrder, StepsAt, States
<1>5. /\ state \in States /\ state.steps = sc[p].state.steps + 1
      /\ state.usd = (IF sc[p].state.day = day THEN sc[p].state.usd ELSE 0) + sc[p].cost
      /\ ~ state.stop => state.usd < CapUsd
  BY <1>2, <1>4, ChargedFact
<1>. HIDE DEF state
<1>6. result \in Results /\ Agrees(result) /\ (state.stop => ~ result.llmUsed)
  <2>1. Fallback(sc[p].score) \in Results /\ Agrees(Fallback(sc[p].score))
        /\ ~ Fallback(sc[p].score).llmUsed
    BY <1>4, FallbackFact
  <2>2. sc[p].result \in Results
    BY <1>2 DEF ScanType
  <2>. QED
    BY <1>2, <2>1, <2>2
<1>7. /\ at \in {"decided", "critic"} /\ (state.stop => at = "decided")
      /\ (at = "critic" => sc[p].at = "analyst_paid")
  BY <1>1
<1>. HIDE DEF result, at
<1>8. s \in ScanType
  <2>1. at \in Stage /\ 0 \in Nat
    BY <1>7 DEF Stage
  <2>. QED
    BY <1>2, <1>5, <1>6, <2>1 DEF ScanType
<1>9. /\ s.at = at /\ s.run = sc[p].run /\ s.state = state /\ s.cost = 0
      /\ s.result = result /\ s.assessment = sc[p].assessment /\ s.seed = sc[p].seed
  BY <1>2 DEF ScanType
<1>. HIDE DEF s
<1>10. InOrder(s)
  BY <1>1, <1>2, <1>4, <1>5, <1>7, <1>9 DEF InOrder, StepsAt, States
<1>11. Stops(s)
  BY <1>5, <1>6, <1>7, <1>9 DEF Stops
<1>12. Share(s) \in Nat /\ Share(sc[p]) \in Nat /\ Share(s) <= Share(sc[p])
  <2>1. /\ Share(s) = IF state.usd > sc[p].seed THEN state.usd - sc[p].seed ELSE 0
        /\ sc[p].seed \in Nat /\ state.usd \in Nat
        /\ sc[p].state.usd \in Nat /\ sc[p].cost \in Nat
    BY <1>2, <1>4, <1>5, <1>7, <1>9 DEF Share, ScanType, States
  <2>2. Share(sc[p]) = (IF sc[p].state.usd > sc[p].seed
                        THEN sc[p].state.usd - sc[p].seed ELSE 0) + sc[p].cost
    BY <1>1 DEF Share
  <2>. QED
    BY <1>5, <2>1, <2>2
<1>13. TotalOver(store') + Share(s) <= TotalOver(billed')
  BY <1>1, <1>2, <1>12
<1>. QED
  BY <1>1, <1>2, <1>3, <1>6, <1>8, <1>9, <1>10, <1>11, <1>13, HolderStep

LEMMA EscalateStep ==
    ASSUME BudgetInv, NEW p \in Scanners, Escalate(p)
    PROVE  BudgetInv'
<1>1. /\ sc[p].at = "decided" /\ sc[p].run = 1 /\ sc[p].result.llmUsed
      /\ UNCHANGED <<lock, day, store, billed, scans>>
  BY DEF Escalate, ShouldEscalate
<1>2. /\ sc[p] \in ScanType /\ InOrder(sc[p]) /\ Stops(sc[p]) /\ Agrees(sc[p].result)
      /\ lock = p /\ scans \in 0..MaxScans
      /\ store \in [Days -> Nat] /\ billed \in [Days -> Nat]
      /\ TotalOver(store) + Share(sc[p]) <= TotalOver(billed)
  BY <1>1, Inside
<1>. DEFINE s == [sc[p] EXCEPT !.at = "analyst", !.run = 2]
<1>3. sc' = [sc EXCEPT ![p] = s]
  BY DEF Escalate, BudgetInv, Shapes
<1>4. /\ s \in ScanType /\ s.at = "analyst" /\ s.run = 2 /\ s.state = sc[p].state
      /\ s.result = sc[p].result /\ s.cost = sc[p].cost /\ s.seed = sc[p].seed
  <2>1. "analyst" \in Stage /\ 2 \in 0..2
    BY DEF Stage
  <2>2. s \in ScanType
    BY <1>2, <2>1 DEF ScanType
  <2>3. /\ s.at = "analyst" /\ s.run = 2 /\ s.state = sc[p].state
        /\ s.result = sc[p].result /\ s.cost = sc[p].cost /\ s.seed = sc[p].seed
    BY <1>2 DEF ScanType
  <2>. QED
    BY <2>2, <2>3
<1>. HIDE DEF s
<1>5. InOrder(s) /\ Stops(s)
  BY <1>1, <1>2, <1>4 DEF InOrder, Stops, StepsAt
<1>6. Share(s) = Share(sc[p])
  BY <1>1, <1>4 DEF Share
<1>7. TotalOver(store') + Share(s) <= TotalOver(billed')
  BY <1>1, <1>2, <1>6
<1>. QED
  BY <1>1, <1>2, <1>3, <1>4, <1>5, <1>7, HolderStep

\* The growth that is added to Redis was the share of the scan.
LEMMA PersistStep ==
    ASSUME BudgetInv, NEW p \in Scanners, Persist(p)
    PROVE  BudgetInv'
<1>1. sc[p].at = "decided" /\ UNCHANGED <<lock, day, billed, scans>>
  BY DEF Persist
<1>2. /\ sc[p] \in ScanType /\ InOrder(sc[p]) /\ Stops(sc[p]) /\ Agrees(sc[p].result)
      /\ lock = p /\ scans \in 0..MaxScans /\ day \in Days /\ IsFiniteSet(Days)
      /\ store \in [Days -> Nat] /\ billed \in [Days -> Nat]
      /\ TotalOver(store) + Share(sc[p]) <= TotalOver(billed)
      /\ TotalOver(store) \in Int /\ TotalOver(billed) \in Int
  BY <1>1, Inside
<1>3. PICK ok \in {TRUE} \cup {~RedisFails} :
          store' = [store EXCEPT ![day] = IF ok /\ Growth(p) > 0 THEN @ + Growth(p) ELSE @]
  BY DEF Persist
<1>. DEFINE s   == [sc[p] EXCEPT !.at = "gate"]
            add == IF ok /\ Growth(p) > 0 THEN Growth(p) ELSE 0
<1>4. sc' = [sc EXCEPT ![p] = s]
  BY DEF Persist, BudgetInv, Shapes
<1>5. /\ s \in ScanType /\ s.at = "gate" /\ s.run = sc[p].run /\ s.state = sc[p].state
      /\ s.result = sc[p].result
  BY <1>2 DEF ScanType, Stage
<1>. HIDE DEF s
<1>6. InOrder(s) /\ Stops(s) /\ Share(s) = 0
  BY <1>1, <1>2, <1>5 DEF InOrder, Stops, StepsAt, Share, ScanType, States
<1>7. add \in Nat /\ add <= Share(sc[p]) /\ Share(sc[p]) \in Nat
  BY <1>1, <1>2 DEF Growth, Share, ScanType, States
<1>8. /\ store' \in [Days -> Nat]
      /\ store'[day] = store[day] + add
      /\ \A x \in Days : x # day => store'[x] = store[x]
  <2>1. CASE ok /\ Growth(p) > 0
    BY <1>2, <1>3, <1>7, <2>1
  <2>2. CASE ~ (ok /\ Growth(p) > 0)
    <3>1. store' = store /\ store[day] \in Nat /\ add = 0
      BY <1>2, <1>3, <2>2
    <3>. QED
      BY <1>2, <3>1
  <2>. QED
    BY <2>1, <2>2
<1>. HIDE DEF add
<1>9. store' \in [Days -> Int] /\ store \in [Days -> Int] /\ add \in Int
  BY <1>2, <1>7, <1>8
<1>10. TotalOver(store') = TotalOver(store) + add
  BY <1>2, <1>8, <1>9, SumAdd, TotalIsSum
<1>11. TotalOver(store') + Share(s) <= TotalOver(billed')
  BY <1>1, <1>2, <1>6, <1>7, <1>10
<1>. QED
  BY <1>1, <1>2, <1>4, <1>5, <1>6, <1>8, <1>11, HolderStep

\* A scan leaves, through COMMIT or because it dies, and gives the lock back.
LEMMA LeaveStep ==
    ASSUME BudgetInv, NEW p \in Scanners, Finish(p) \/ Die(p)
    PROVE  BudgetInv'
<1>1. /\ sc[p].at # "idle" /\ sc' = [sc EXCEPT ![p] = Idle]
      /\ lock' = IF lock = p THEN NoOne ELSE lock
      /\ UNCHANGED <<day, store, billed, scans>>
  BY DEF Finish, Die
<1>2. lock = p /\ lock' = NoOne
  BY <1>1, Inside
<1>3. Shapes'
  BY <1>1, <1>2, IdleFact DEF BudgetInv, Shapes
<1>4. ASSUME NEW q \in Scanners
      PROVE  sc'[q].at = "idle" /\ (sc'[q] = sc[q] \/ sc'[q] = Idle)
  <2>1. CASE q = p
    BY <1>1, <2>1 DEF BudgetInv, Shapes, Idle
  <2>2. CASE q # p
    BY <1>1, <1>2, <2>2 DEF BudgetInv, Shapes, Covered
  <2>. QED
    BY <2>1, <2>2
<1>5. TotalOver(store) \in Int /\ TotalOver(billed) \in Int
  BY Totals DEF BudgetInv
<1>6. \A q \in Scanners : Share(sc'[q]) = 0
  BY <1>4 DEF Share
<1>7. Covered'
  <2>1. TotalOver(store)' <= TotalOver(billed)'
    BY <1>1 DEF BudgetInv, Covered
  <2>2. \A q \in Scanners : TotalOver(store)' + Share(sc'[q]) <= TotalOver(billed)'
    BY <1>1, <1>5, <1>6, <2>1
  <2>. QED
    BY <1>4, <2>1, <2>2 DEF Covered
<1>8. \A q \in Scanners : InOrder(sc'[q]) /\ Stops(sc'[q]) /\ Agrees(sc'[q].result)
  BY <1>4, IdleFact DEF BudgetInv
<1>. QED
  BY <1>3, <1>7, <1>8 DEF BudgetInv

LEMMA MidnightStep ==
    ASSUME BudgetInv, Midnight \/ UNCHANGED vars
    PROVE  BudgetInv'
<1>1. UNCHANGED <<lock, store, billed, scans, sc>> /\ day' \in Days
  BY BudgetAssumption DEF Midnight, vars, BudgetInv, Shapes, Days
<1>2. Shapes'
  BY <1>1 DEF BudgetInv, Shapes
<1>3. Covered'
  BY <1>1 DEF BudgetInv, Covered
<1>. QED
  BY <1>1, <1>2, <1>3 DEF BudgetInv

LEMMA BudgetStep ==
    ASSUME BudgetInv, [Next]_vars
    PROVE  BudgetInv'
<1>1. ASSUME NEW p \in Scanners, Step(p)
      PROVE  BudgetInv'
  <2>1. ASSUME NEW cost \in Costs, NEW wasted \in Costs, NEW a \in Assessments,
               Answer(p, "analyst", wasted, cost, a)
        PROVE  BudgetInv'
    BY <2>1, AnswerStep DEF Agent
  <2>2. ASSUME NEW cost \in Costs, NEW wasted \in Costs, NEW r \in Reviews,
               Answer(p, "critic", wasted, cost, r)
        PROVE  BudgetInv'
    BY <2>2, AnswerStep DEF Agent
  <2>. QED
    BY <1>1, <2>1, <2>2, StartStep, SeedStep, StartScanStep, CallFailsStep, RecordStep,
       EscalateStep, PersistStep, LeaveStep DEF Step
<1>. QED
  BY <1>1, LeaveStep, MidnightStep DEF Next

\* A scan that calls has not stopped: it has recorded nothing, or is below the cap.
LEMMA CallsBelowCap ==
    ASSUME BudgetInv, NEW p \in Scanners, sc[p].at \in Agent
    PROVE  sc[p].state.steps = 0 \/ (~ sc[p].state.stop /\ sc[p].state.usd < CapUsd)
<1>1. Stops(sc[p]) /\ sc[p].state.steps \in 0..4
  BY DEF BudgetInv, Shapes, ScanType, States
<1>. QED
  BY <1>1 DEF Stops, Agent

-----------------------------------------------------------------------------
\* Theorems.

\* BudgetInv holds in every state.
THEOREM BudgetInvariance == Spec => []BudgetInv
<1>1. Init => BudgetInv
  BY BudgetInit
<1>2. BudgetInv /\ [Next]_vars => BudgetInv'
  BY BudgetStep
<1>. QED
  BY <1>1, <1>2, PTL DEF Spec

\* The state of the budget is well typed: no scan records more than four calls.
THEOREM BudgetTypeCorrect == Spec => []TypeOK
<1>1. BudgetInv => TypeOK
  BY DEF BudgetInv, Shapes, TypeOK, ScanType, States, Results, Decision
<1>. QED
  BY <1>1, BudgetInvariance, PTL

\* What Redis holds, over all days, was billed by a provider, for any number of
\* scans, days and calls.
THEOREM RedisNeverOvercharges == Spec => []NeverOvercharged
<1>1. BudgetInv => NeverOvercharged
  BY DEF BudgetInv, Covered, NeverOvercharged
<1>. QED
  BY <1>1, BudgetInvariance, PTL

\* The second gate lets through what the pipeline decided to publish, and nothing
\* that was published without the LLM.
THEOREM SecondGateAgrees == Spec => []GateAgrees
<1>1. BudgetInv => GateAgrees
  BY DEF BudgetInv, Agrees, GateAgrees
<1>. QED
  BY <1>1, BudgetInvariance, PTL

\* A scan that has stopped, or reached the cap with what it recorded, calls nobody.
THEOREM StoppedScansCallNobody == Spec => StopsCalling
<1>. DEFINE Calls(p, agent) == sc[p].at = agent /\ sc'[p].at # agent /\ sc'[p].at # "idle"
            Under(p) == \/ sc[p].state.steps = 0
                        \/ ~ sc[p].state.stop /\ sc[p].state.usd < CapUsd
<1>1. BudgetInv /\ [Next]_vars
        => [\A p \in Scanners, agent \in Agent : Calls(p, agent) => Under(p)]_vars
  BY CallsBelowCap
<1>. QED
  BY <1>1, BudgetInvariance, PTL DEF Spec, StopsCalling
=============================================================================
