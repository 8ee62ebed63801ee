----------------------------- MODULE LlmBudget ------------------------------
(***************************************************************************)
(* The LLM part of a scan, from the seed of the day's spend to the second  *)
(* gate: two pipeline runs at most, each an analyst's call and a critic's, *)
(* charged to one BudgetState, whose growth is added to Redis at the end.  *)
(* A scan enters it with the lock of the audit chain (it has audited its   *)
(* candidate) and leaves it with the lock; midnight may fall anywhere.     *)
(***************************************************************************)
EXTENDS LlmDecision

CONSTANTS
    Scanners, NoOne,
    Scores,         \* confluence scores of candidates
    Assessments, Reviews,
    Costs,          \* what one call is billed
    Failures,       \* ways a call may fail: "output", "unavailable", "unexpected"
    CapUsd,         \* settings.llm.budget.max_usd_per_day
    RedisFails,     \* Redis may be unreachable
    MaxScans, MaxDay

ASSUME BudgetAssumption ==
    /\ NoOne \notin Scanners
    /\ Costs \subseteq Nat
    /\ CapUsd \in Nat \ {0}
    /\ Failures \subseteq {"output", "unavailable", "unexpected"}
    /\ RedisFails \in BOOLEAN /\ MaxScans \in Nat /\ MaxDay \in Nat
\* What the agents' schemas accept: a raw confidence in percent, and at least one source.
ASSUME AnswerAssumption ==
    /\ Scores \subseteq 0..100
    /\ \A a \in Assessments : a.raw \in 0..100 /\ a.sources # {}
    /\ \A r \in Reviews : r.arguments \in Seq(ToSet(r.arguments))

VARIABLES
    lock,    \* holder of the chain lock
    day,
    store,   \* rtrade:cost:<day> in Redis
    billed,  \* what the providers billed for calls on each day
    scans,
    sc       \* the scans

vars == <<lock, day, store, billed, scans, sc>>

Days == 0..MaxDay

NoState == [steps |-> 0, usd |-> 0, day |-> 0, stop |-> FALSE]

Idle == [at |-> "idle", run |-> 0, score |-> 0, seed |-> 0,
         state |-> NoState, cost |-> 0, assessment |-> {}, result |-> NoResult]

Init ==
    /\ lock = NoOne
    /\ day = 0
    /\ store = [d \in Days |-> 0]
    /\ billed = [d \in Days |-> 0]
    /\ scans = 0
    /\ sc = [p \in Scanners |-> Idle]

-----------------------------------------------------------------------------
\* The candidate passed the first gate; its audit row took the lock.
Start(p, score) ==
    /\ sc[p].at = "idle"
    /\ lock = NoOne
    /\ scans < MaxScans
    /\ lock' = p
    /\ scans' = scans + 1
    /\ sc' = [sc EXCEPT ![p] = [Idle EXCEPT !.at = "seed", !.score = score]]
    /\ UNCHANGED <<day, store, billed>>

\* _seed_daily_spend; without Redis the fresh KeyManager has nothing in memory.
Seed(p) ==
    /\ sc[p].at = "seed"
    /\ \E ok \in {TRUE} \cup {~RedisFails} :
        sc' = [sc EXCEPT ![p].at = "state",
                         ![p].seed = IF ok THEN store[day] ELSE 0]
    /\ UNCHANGED <<lock, day, store, billed, scans>>

\* BudgetGuard.start_scan, then run_llm_pipeline.
StartScan(p) ==
    /\ sc[p].at = "state"
    /\ sc' = [sc EXCEPT ![p].at = "analyst", ![p].run = 1,
                        ![p].state = [NoState EXCEPT !.usd = sc[p].seed, !.day = day]]
    /\ UNCHANGED <<lock, day, store, billed, scans>>

Agent == {"analyst", "critic"}
Paid(agent) == IF agent = "analyst" THEN "analyst_paid" ELSE "critic_paid"

\* An agent answers with an output that fits its schema; an attempt before it whose
\* output did not fit is billed too, but not counted by the client.
Answer(p, agent, wasted, cost, output) ==
    /\ sc[p].at = agent
    /\ "output" \in Failures \/ wasted = 0
    /\ billed' = [billed EXCEPT ![day] = @ + wasted + cost]
    /\ sc' = [sc EXCEPT ![p].at = Paid(agent), ![p].cost = cost,
                        ![p].assessment = IF agent = "analyst" THEN output ELSE @,
                        ![p].result = IF agent = "analyst" THEN NoResult
                                      ELSE Decide(sc[p].score, sc[p].assessment, output)]
    /\ UNCHANGED <<lock, day, store, scans>>

\* Every attempt gave text that is not the schema's JSON, or the providers could
\* not be reached: the call adds nothing to the client's statistics.
CallFails(p, failure, cost) ==
    /\ sc[p].at \in Agent
    /\ failure = "output" \/ cost = 0
    /\ billed' = [billed EXCEPT ![day] = @ + cost]
    /\ sc' = [sc EXCEPT ![p].at = "decided",
                        ![p].result = IF failure = "unexpected"
                                      THEN Result("ABSTAIN", 0, {}, FALSE)
                                      ELSE Fallback(sc[p].score)]
    /\ UNCHANGED <<lock, day, store, scans>>

\* BudgetGuard.record: a new day starts from zero; other is the breach of the
\* token, wall-clock or step cap.
Charged(state, cost, today, other) ==
    LET usd == (IF state.day = today THEN state.usd ELSE 0) + cost IN
    [steps |-> state.steps + 1, usd |-> usd, day |-> today,
     stop |-> other \/ usd >= CapUsd]

\* Mutant of Record: a stop is noted and the pipeline goes on.
Record_NoAbort(p, other) ==
    /\ sc[p].at \in {"analyst_paid", "critic_paid"}
    /\ LET state == Charged(sc[p].state, sc[p].cost, day, other) IN
        sc' = [sc EXCEPT ![p].state = state, ![p].cost = 0,
                         ![p].at = IF sc[p].at = "analyst_paid" THEN "critic" ELSE "decided"]
    /\ UNCHANGED <<lock, day, store, billed, scans>>

\* _record_usage, then _budget_abort or the next step of the pipeline.
Record(p, other) ==
    /\ sc[p].at \in {"analyst_paid", "critic_paid"}
    /\ LET state == Charged(sc[p].state, sc[p].cost, day, other)
           done  == state.stop \/ sc[p].at = "critic_paid" IN
        sc' = [sc EXCEPT ![p].state = state, ![p].cost = 0,
                         ![p].at = IF done THEN "decided" ELSE "critic",
                         ![p].result = IF state.stop THEN Fallback(sc[p].score) ELSE @]
    /\ UNCHANGED <<lock, day, store, billed, scans>>

\* The flagship model runs the whole pipeline again, once, on the same state.
Escalate(p) ==
    /\ sc[p].at = "decided" /\ sc[p].run = 1
    /\ ShouldEscalate(sc[p].result)
    /\ sc' = [sc EXCEPT ![p].at = "analyst", ![p].run = 2]
    /\ UNCHANGED <<lock, day, store, billed, scans>>

Growth(p) == sc[p].state.usd - sc[p].seed

\* Mutant of Persist: the state's total is added instead of its growth.
Persist_Total(p) ==
    /\ sc[p].at = "decided"
    /\ sc[p].run = 2 \/ ~ShouldEscalate(sc[p].result)
    /\ store' = [store EXCEPT ![day] = @ + sc[p].state.usd]
    /\ sc' = [sc EXCEPT ![p].at = "gate"]
    /\ UNCHANGED <<lock, day, billed, scans>>

\* _persist_scan_spend; a negative growth and a Redis failure add nothing.
Persist(p) ==
    /\ sc[p].at = "decided"
    /\ sc[p].run = 2 \/ ~ShouldEscalate(sc[p].result)
    /\ \E ok \in {TRUE} \cup {~RedisFails} :
        store' = [store EXCEPT ![day] = IF ok /\ Growth(p) > 0 THEN @ + Growth(p) ELSE @]
    /\ sc' = [sc EXCEPT ![p].at = "gate"]
    /\ UNCHANGED <<lock, day, billed, scans>>

\* The status mapping, the second gate, COMMIT.
Finish(p) ==
    /\ sc[p].at = "gate"
    /\ lock' = IF lock = p THEN NoOne ELSE lock
    /\ sc' = [sc EXCEPT ![p] = Idle]
    /\ UNCHANGED <<day, store, billed, scans>>

\* The run is cancelled or dies.
Die(p) ==
    /\ sc[p].at # "idle"
    /\ lock' = IF lock = p THEN NoOne ELSE lock
    /\ sc' = [sc EXCEPT ![p] = Idle]
    /\ UNCHANGED <<day, store, billed, scans>>

Midnight ==
    /\ day < MaxDay
    /\ day' = day + 1
    /\ UNCHANGED <<lock, store, billed, scans, sc>>

Step(p) ==
    \/ \E score \in Scores : Start(p, score)
    \/ Seed(p) \/ StartScan(p)
    \/ \E cost \in Costs :
        \/ \E wasted \in Costs, a \in Assessments : Answer(p, "analyst", wasted, cost, a)
        \/ \E wasted \in Costs, r \in Reviews : Answer(p, "critic", wasted, cost, r)
        \/ \E f \in Failures : CallFails(p, f, cost)
    \/ \E other \in BOOLEAN : Record(p, other)
    \/ Escalate(p) \/ Persist(p) \/ Finish(p)

Next == (\E p \in Scanners : Step(p) \/ Die(p)) \/ Midnight

Spec == Init /\ [][Next]_vars

\* Every await in between has a timeout, so a scan inside keeps moving.
FairSpec ==
    Spec /\ \A p \in Scanners : WF_vars(sc[p].at # "idle" /\ Step(p))

-----------------------------------------------------------------------------
Stage == {"idle", "seed", "state", "analyst", "critic", "analyst_paid", "critic_paid",
          "decided", "gate"}

TypeOK ==
    /\ lock \in Scanners \cup {NoOne}
    /\ day \in Days
    /\ store \in [Days -> Nat] /\ billed \in [Days -> Nat]
    /\ scans \in 0..MaxScans
    /\ \A p \in Scanners :
        /\ sc[p].at \in Stage /\ sc[p].run \in 0..2
        /\ sc[p].state.steps \in 0..4 /\ sc[p].state.usd \in Nat
        /\ sc[p].result.decision \in {"none", "PUBLISH", "REJECTED", "ABSTAIN", "FALLBACK"}
        /\ sc[p].result.confidence \in 0..100

TotalOver(f) == FoldFunction(+, 0, f)

\* Redis never holds more than the providers billed, whatever midnight does to the
\* difference that is persisted (scan.py:1218).
NeverOvercharged == TotalOver(store) <= TotalOver(billed)

\* Once its state has reached the cap, or stopped for another cap, a scan makes
\* no call but its first, in either of its two pipeline runs.
StopsCalling ==
    [][\A p \in Scanners, agent \in Agent :
        (sc[p].at = agent /\ sc'[p].at # agent /\ sc'[p].at # "idle")
            => \/ sc[p].state.steps = 0
               \/ ~sc[p].state.stop /\ sc[p].state.usd < CapUsd]_vars

\* What the pipeline decides to publish passes the second gate, and what it
\* publishes without the LLM never does, so GR-09 and GR-11 only ever refuse
\* fallbacks (scan.py:1281).
GateAgrees ==
    \A p \in Scanners : sc[p].at = "gate" =>
        CASE sc[p].result.decision = "PUBLISH"  -> PostGate(sc[p].result)
          [] sc[p].result.decision = "FALLBACK" -> ~PostGate(sc[p].result)
          [] OTHER -> TRUE

\* Every scan that enters leaves, and gives the chain lock back.
ScansFinish == \A p \in Scanners : (lock = p) ~> (lock # p)

\* What budget_guard.py:3 says, "USD/day (hard abort)": when the day's recorded
\* spend has reached the cap no further call is made.
HardAbort ==
    [][\A p \in Scanners, agent \in Agent :
        (sc[p].at = agent /\ sc'[p].at = Paid(agent)) => store[day] < CapUsd]_vars

\* What scan.py:132 says, "the persisted total is authoritative": when a scan has
\* finished and none had died, the store holds what was billed.
TotalIsAuthoritative ==
    [][\A p \in Scanners : Finish(p) => TotalOver(store) = TotalOver(billed)]_vars

\* What the escalation plan says, "True only for uncertain PUBLISH/ABSTAIN
\* results": a first abstention inside the doubt band is run again.
DoubtIsEscalated ==
    [][\A p \in Scanners :
        (sc[p].at = "decided" /\ sc[p].run = 1 /\ sc[p].result.llmUsed
          /\ sc[p].result.decision \in {"PUBLISH", "ABSTAIN"}
          /\ sc[p].result.confidence \in DoubtLow..DoubtHigh)
            => sc'[p].at # "gate"]_vars
=============================================================================
