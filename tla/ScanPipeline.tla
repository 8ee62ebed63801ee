---------------------------- MODULE ScanPipeline ----------------------------
(***************************************************************************)
(* Concurrent scans against one PostgreSQL database (READ COMMITTED).      *)
(*                                                                         *)
(* A scanner is one run of pipeline/scan.py:run_scan at a time: a job of   *)
(* the worker process, or a request of the API process.  A run reads the   *)
(* strategy state and the paper outcomes, audits its candidate (which      *)
(* takes the advisory lock of the audit chain until COMMIT), looks for a   *)
(* duplicate, counts the signals of the day, runs the gate, the LLM        *)
(* pipeline and the gate again, inserts one signal row and commits.  Only  *)
(* then does it send the Telegram message, and a second transaction        *)
(* records the delivery.  Around it the paper-tracker moves the statuses,  *)
(* an operator toggles strategies, time passes, and a run may die anywhere.*)
(*                                                                         *)
(* Time is counted in bars: at clock = c the last closed bar opened at     *)
(* c - 1.  A signal id is the number of the run that created it.           *)
(***************************************************************************)
EXTENDS Naturals, Sequences, FiniteSets

CONSTANTS
    Scanners,      \* concurrent runs of run_scan
    Instruments,
    Registry,      \* STRATEGY_REGISTRY, in its iteration order
    NoOne,         \* nobody holds the advisory lock
    LlmEnabled,    \* settings.llm.enabled
    MaxPerDay,     \* max_signals_per_day_per_instrument (GR-12)
    BarsPerDay,
    MaxLag,        \* candle_staleness_factor: how many bars old GR-06 accepts
    MaxClock,      \* bound: bars of time
    MaxRuns        \* bound: runs started

ASSUME ScannersAssumption == NoOne \notin Scanners
ASSUME InstrumentsAssumption == Instruments # {}
ASSUME LimitsAssumption ==
    /\ LlmEnabled \in BOOLEAN
    /\ MaxPerDay \in Nat /\ BarsPerDay \in Nat \ {0} /\ MaxLag \in Nat \ {0}
    /\ MaxClock \in Nat /\ MaxRuns \in Nat
ASSUME RegistryAssumption == Registry \in Seq(STRING)

VARIABLES
    clock,     \* bars elapsed
    runs,      \* runs started so far
    pc,        \* pc[p]: where the run of scanner p stands
    sc,        \* sc[p]: the locals of that run
    txn,       \* txn[p]: the uncommitted writes of its open transaction
    lock,      \* holder of pg_advisory_xact_lock
    lastId,    \* last value of the signal_audit.id sequence (never rolled back)
    audit,     \* committed signal_audit rows
    signals,   \* committed signals rows, by signal id
    enabled,   \* strategy_state
    chat       \* <<signal id, run>>: the messages the Telegram chat received

dbVars == <<audit, signals, enabled>>
vars == <<clock, runs, pc, sc, txn, lock, lastId, audit, signals, enabled, chat>>

Strategies == {Registry[i] : i \in DOMAIN Registry}

Day(t) == t \div BarsPerDay

Chain == INSTANCE AuditLog WITH log <- audit

-----------------------------------------------------------------------------
\* Rows and locals.

OpenStatus == {"PUBLISHED", "FILLED"}
FinalStatus == {"REJECTED", "ABSTAINED", "TP_HIT", "SL_HIT", "EXPIRED"}
Status == OpenStatus \cup FinalStatus

Stage == {"REGIME_SHADOW", "CANDIDATE", "GATE", "DELIVERY"}
Decision == {"PUBLISH", "FALLBACK", "REJECTED", "ABSTAIN"}
NoSignal == 0

AuditRow == [id : Nat, prev : Nat, stage : Stage, ok : BOOLEAN, sid : Nat]

\* strat is the strategy's place in Registry; day is the day of published_at.
SignalRow == [inst : Instruments, strat : Nat, bar : Nat, day : Nat,
              status : Status, delivery : {"none", "sent", "failed"}]

\* At most one element in each of insert, disable and deliver.
NoWrites == [rows |-> {}, insert |-> {}, disable |-> {}, deliver |-> {}]

\* run: number of the run; now, bar: its clock and newest stored bar; strat:
\* place in Registry; guardOk: GR-13's verdict on the outcomes read; today:
\* signals counted; decision: of the LLM pipeline; sid, message: its ScanResult.
Locals(run, i, now) ==
    [run |-> run, inst |-> i, now |-> now, bar |-> 0, strat |-> 1,
     guardOk |-> TRUE, today |-> 0, decision |-> "PUBLISH",
     sid |-> NoSignal, message |-> FALSE, sent |-> FALSE]

NoLocals == Locals(0, CHOOSE i \in Instruments : TRUE, 0)

Init ==
    /\ clock = 1
    /\ runs = 0
    /\ pc = [p \in Scanners |-> "idle"]
    /\ sc = [p \in Scanners |-> NoLocals]
    /\ txn = [p \in Scanners |-> NoWrites]
    /\ lock = NoOne
    /\ lastId = 0
    /\ audit = {}
    /\ signals = [id \in {} |-> NoSignal]
    /\ enabled = [s \in Strategies |-> TRUE]
    /\ chat = {}

Goto(p, label) == pc' = [pc EXCEPT ![p] = label]

\* The run returns, and its locals are gone.
Finish(p) == Goto(p, "idle") /\ sc' = [sc EXCEPT ![p] = NoLocals]

-----------------------------------------------------------------------------
\* AuditRepo.add: lock, read the head of the chain, insert the next row.

HeadId(rows) ==
    IF rows = {} THEN Chain!Genesis
    ELSE (CHOOSE r \in rows : \A s \in rows : s.id <= r.id).id

\* Mutant of Visible: autoflush is off, the transaction misses its own rows.
Visible_NoAutoflush(p) == audit

\* The rows a statement of scanner p sees: the committed ones and its own.
Visible(p) == audit \cup txn[p].rows

NextRow(p, stage, ok, sid) ==
    [id |-> lastId + 1, prev |-> HeadId(Visible(p)),
     stage |-> stage, ok |-> ok, sid |-> sid]

\* Mutant of AuditAdd: the lock is given back after the INSERT, before COMMIT.
AuditAdd_EarlyRelease(p, writes, stage, ok, sid) ==
    /\ lock = NoOne
    /\ lastId' = lastId + 1
    /\ txn' = [txn EXCEPT ![p] =
                  [writes EXCEPT !.rows = @ \cup {NextRow(p, stage, ok, sid)}]]
    /\ UNCHANGED lock

\* writes: the transaction with whatever else this step adds to it.
AuditAdd(p, writes, stage, ok, sid) ==
    /\ lock \in {NoOne, p}
    /\ lock' = p
    /\ lastId' = lastId + 1
    /\ txn' = [txn EXCEPT ![p] =
                  [writes EXCEPT !.rows = @ \cup {NextRow(p, stage, ok, sid)}]]

\* COMMIT and ROLLBACK end the transaction and release the advisory lock.
EndTxn(p) ==
    /\ txn' = [txn EXCEPT ![p] = NoWrites]
    /\ lock' = IF lock = p THEN NoOne ELSE lock

-----------------------------------------------------------------------------
\* run_scan up to the strategies.

Begin(p, i) ==
    /\ pc[p] = "idle"
    /\ runs < MaxRuns
    /\ runs' = runs + 1
    /\ sc' = [sc EXCEPT ![p] = Locals(runs + 1, i, clock)]
    /\ Goto(p, "frame")
    /\ UNCHANGED <<clock, txn, lock, lastId, dbVars, chat>>

\* ingested_context_only, or abstain_warmup: candles are committed, no signal.
EndWithoutSignal(p) ==
    /\ pc[p] = "frame"
    /\ Finish(p)
    /\ UNCHANGED <<clock, runs, txn, lock, lastId, dbVars, chat>>

\* The frame's newest bar is closed, and as old as the last ingestion left it.
LoadFrame(p, bar) ==
    /\ pc[p] = "frame"
    /\ bar < sc[p].now
    /\ sc' = [sc EXCEPT ![p].bar = bar]
    /\ \E next \in {"shadow", "strategy"} : Goto(p, next)
    /\ UNCHANGED <<clock, runs, txn, lock, lastId, dbVars, chat>>

\* An HMM model is on disk: its disagreement with the rule regime is audited,
\* and the transaction holds the chain lock from here on.
ShadowAudit(p, agrees) ==
    /\ pc[p] = "shadow"
    /\ AuditAdd(p, txn[p], "REGIME_SHADOW", agrees, NoSignal)
    /\ Goto(p, "strategy")
    /\ UNCHANGED <<clock, runs, sc, dbVars, chat>>

-----------------------------------------------------------------------------
\* The loop of _run_strategies.

\* Other regime, disabled, not applicable, news hard-block, or no candidate.
SkipStrategy(p) ==
    /\ pc[p] = "strategy"
    /\ sc[p].strat <= Len(Registry)
    /\ sc' = [sc EXCEPT ![p].strat = @ + 1]
    /\ UNCHANGED <<clock, runs, pc, txn, lock, lastId, dbVars, chat>>

\* is_enabled and recent_outcomes are read before the chain lock is taken; the
\* verdict of GR-13 on those outcomes is guardOk.
GenerateCandidate(p, guardOk) ==
    /\ pc[p] = "strategy"
    /\ sc[p].strat <= Len(Registry)
    /\ enabled[Registry[sc[p].strat]]
    /\ sc' = [sc EXCEPT ![p].guardOk = guardOk]
    /\ Goto(p, "audit")
    /\ UNCHANGED <<clock, runs, txn, lock, lastId, dbVars, chat>>

\* enforce_bias: a candidate against the H4 bias is audited and dropped.
AuditMisaligned(p) ==
    /\ pc[p] = "audit"
    /\ AuditAdd(p, txn[p], "CANDIDATE", FALSE, NoSignal)
    /\ sc' = [sc EXCEPT ![p].strat = @ + 1]
    /\ Goto(p, "strategy")
    /\ UNCHANGED <<clock, runs, dbVars, chat>>

\* Mutant of AuditCandidate: the row is written later, so the duplicate look-up
\* runs without the chain lock.
AuditCandidate_Deferred(p) ==
    /\ pc[p] = "audit"
    /\ Goto(p, "dedup")
    /\ UNCHANGED <<clock, runs, sc, txn, lock, lastId, dbVars, chat>>

AuditCandidate(p) ==
    /\ pc[p] = "audit"
    /\ AuditAdd(p, txn[p], "CANDIDATE", TRUE, sc[p].run)
    /\ Goto(p, "dedup")
    /\ UNCHANGED <<clock, runs, sc, dbVars, chat>>

\* Every strategy was passed over: status "no_signal".
NoCandidate(p) ==
    /\ pc[p] = "strategy"
    /\ sc[p].strat > Len(Registry)
    /\ Goto(p, "commit")
    /\ UNCHANGED <<clock, runs, sc, txn, lock, lastId, dbVars, chat>>

SameKey(s, l) == s.inst = l.inst /\ s.strat = l.strat /\ s.bar = l.bar

Duplicates(p) == {id \in DOMAIN signals : SameKey(signals[id], sc[p])}

\* Mutant of Dedup: the result of a duplicate carries a message.
Dedup_Resends(p) ==
    /\ pc[p] = "dedup"
    /\ IF Duplicates(p) = {}
       THEN Goto(p, "count") /\ UNCHANGED sc
       ELSE /\ \E id \in Duplicates(p) :
                   sc' = [sc EXCEPT ![p].sid = id, ![p].message = TRUE]
            /\ Goto(p, "commit")
    /\ UNCHANGED <<clock, runs, txn, lock, lastId, dbVars, chat>>

\* get_by_dedup: the result names the existing signal, without a message.
Dedup(p) ==
    /\ pc[p] = "dedup"
    /\ IF Duplicates(p) = {}
       THEN Goto(p, "count") /\ UNCHANGED sc
       ELSE /\ \E id \in Duplicates(p) : sc' = [sc EXCEPT ![p].sid = id]
            /\ Goto(p, "commit")
    /\ UNCHANGED <<clock, runs, txn, lock, lastId, dbVars, chat>>

\* count_since: rows still PUBLISHED whose bar_ts falls in the day of now.
CountedToday(i, day) ==
    {id \in DOMAIN signals :
        /\ signals[id].inst = i
        /\ signals[id].status = "PUBLISHED"
        /\ Day(signals[id].bar) = day}

CountSince(p) ==
    /\ pc[p] = "count"
    /\ sc' = [sc EXCEPT ![p].today =
                 Cardinality(CountedToday(sc[p].inst, Day(sc[p].now)))]
    /\ Goto(p, "gate")
    /\ UNCHANGED <<clock, runs, txn, lock, lastId, dbVars, chat>>

\* _signal_model of the candidate of scanner p.
NewSignal(p, status) ==
    [inst |-> sc[p].inst, strat |-> sc[p].strat, bar |-> sc[p].bar,
     day |-> Day(sc[p].now), status |-> status, delivery |-> "none"]

Insert(p, status) ==
    [txn[p] EXCEPT !.insert = {[id |-> sc[p].run, row |-> NewSignal(p, status)]}]

\* GR-06: the candidate's bar is fresh enough for the clock the run started with.
Fresh(p) == sc[p].now <= sc[p].bar + MaxLag

\* Mutant of GatePasses: the daily limit is off by one.
GatePasses_AtLimit(p, others) ==
    Fresh(p) /\ sc[p].today <= MaxPerDay /\ sc[p].guardOk /\ others

\* GR-06, GR-12, GR-13 and the gates about the candidate's own data.
GatePasses(p, others) ==
    Fresh(p) /\ sc[p].today < MaxPerDay /\ sc[p].guardOk /\ others

\* Mutant of GatePass: the LLM pipeline and the second gate are skipped.
GatePass_SkipsLlm(p) ==
    /\ pc[p] = "gate"
    /\ GatePasses(p, TRUE)
    /\ AuditAdd(p, txn[p], "GATE", TRUE, sc[p].run)
    /\ Goto(p, "publish")
    /\ UNCHANGED <<clock, runs, sc, dbVars, chat>>

\* run_gate on the deterministic path; others stands for the gates about the
\* candidate's own data.  A failing GR-13 also disables the strategy.
GatePass(p) ==
    /\ pc[p] = "gate"
    /\ GatePasses(p, TRUE)
    /\ AuditAdd(p, txn[p], "GATE", TRUE, sc[p].run)
    /\ Goto(p, IF LlmEnabled THEN "llm" ELSE "publish")
    /\ UNCHANGED <<clock, runs, sc, dbVars, chat>>

GateFail(p, others) ==
    /\ pc[p] = "gate"
    /\ ~ GatePasses(p, others)
    /\ AuditAdd(p,
                [Insert(p, "REJECTED") EXCEPT
                    !.disable = IF sc[p].guardOk THEN {} ELSE {Registry[sc[p].strat]}],
                "GATE", FALSE, sc[p].run)
    /\ sc' = [sc EXCEPT ![p].sid = sc[p].run]
    /\ Goto(p, "commit")
    /\ UNCHANGED <<clock, runs, dbVars, chat>>

\* run_llm_pipeline (and its escalation) while the lock is held.
\* _status_for_decision turns PUBLISH and FALLBACK into PUBLISHED.
LlmAccepts(p, d) ==
    /\ pc[p] = "llm"
    /\ d \in {"PUBLISH", "FALLBACK"}
    /\ sc' = [sc EXCEPT ![p].decision = d]
    /\ Goto(p, "postgate")
    /\ UNCHANGED <<clock, runs, txn, lock, lastId, dbVars, chat>>

LlmRefuses(p, d) ==
    /\ pc[p] = "llm"
    /\ d \in {"REJECTED", "ABSTAIN"}
    /\ txn' = [txn EXCEPT ![p] =
                  Insert(p, IF d = "REJECTED" THEN "REJECTED" ELSE "ABSTAINED")]
    /\ sc' = [sc EXCEPT ![p].decision = d, ![p].sid = sc[p].run]
    /\ Goto(p, "commit")
    /\ UNCHANGED <<clock, runs, lock, lastId, dbVars, chat>>

\* GR-11 of the second gate: a fallback cites only "deterministic_pipeline",
\* which no context pack contains.
CitationsValid(p) == sc[p].decision # "FALLBACK"

PostGatePass(p) ==
    /\ pc[p] = "postgate"
    /\ GatePasses(p, CitationsValid(p))
    /\ AuditAdd(p, txn[p], "GATE", TRUE, sc[p].run)
    /\ Goto(p, "publish")
    /\ UNCHANGED <<clock, runs, sc, dbVars, chat>>

PostGateFail(p, others) ==
    /\ pc[p] = "postgate"
    /\ ~ GatePasses(p, CitationsValid(p) /\ others)
    /\ AuditAdd(p, Insert(p, "REJECTED"), "GATE", FALSE, sc[p].run)
    /\ sc' = [sc EXCEPT ![p].sid = sc[p].run]
    /\ Goto(p, "commit")
    /\ UNCHANGED <<clock, runs, dbVars, chat>>

Publish(p) ==
    /\ pc[p] = "publish"
    /\ txn' = [txn EXCEPT ![p] = Insert(p, "PUBLISHED")]
    /\ sc' = [sc EXCEPT ![p].sid = sc[p].run, ![p].message = TRUE]
    /\ Goto(p, "commit")
    /\ UNCHANGED <<clock, runs, lock, lastId, dbVars, chat>>

-----------------------------------------------------------------------------
\* COMMIT, delivery, and the transaction that records the delivery.

\* uq_signals_dedup refuses a second row with the same key.
Conflicts(p) ==
    \E new \in txn[p].insert, id \in DOMAIN signals :
        SameKey(signals[id], new.row)

NewIds(p) == {new.id : new \in txn[p].insert}

\* The committed signals with the transaction's INSERT and UPDATE applied.
SignalsAfter(p) ==
    [id \in DOMAIN signals \cup NewIds(p) |->
        IF id \in NewIds(p)
        THEN (CHOOSE new \in txn[p].insert : new.id = id).row
        ELSE IF \E d \in txn[p].deliver : d.id = id
             THEN [signals[id] EXCEPT !.delivery =
                      (CHOOSE d \in txn[p].deliver : d.id = id).as]
             ELSE signals[id]]

Apply(p) ==
    /\ audit' = audit \cup txn[p].rows
    /\ signals' = SignalsAfter(p)
    /\ enabled' = [s \in Strategies |-> enabled[s] /\ s \notin txn[p].disable]
    /\ EndTxn(p)

Commit(p) ==
    /\ pc[p] = "commit"
    /\ ~ Conflicts(p)
    /\ Apply(p)
    /\ IF sc[p].sid = NoSignal THEN Finish(p)
       ELSE /\ Goto(p, IF sc[p].message THEN "deliver" ELSE "mark")
            /\ UNCHANGED sc
    /\ UNCHANGED <<clock, runs, lastId, chat>>

\* send_signal answers; it is called only when the result carries a message.
\* Without a token or with deliver=False nothing is sent, as when it fails.
Deliver(p, sent) ==
    /\ pc[p] = "deliver"
    /\ chat' = IF sent THEN chat \cup {<<sc[p].sid, sc[p].run>>} ELSE chat
    /\ sc' = [sc EXCEPT ![p].sent = sent]
    /\ Goto(p, "mark")
    /\ UNCHANGED <<clock, runs, txn, lock, lastId, dbVars>>

\* mark_delivery and its audit row, for any result that names a signal.
MarkDelivery(p) ==
    /\ pc[p] = "mark"
    /\ AuditAdd(p,
                [txn[p] EXCEPT !.deliver =
                    {[id |-> sc[p].sid, as |-> IF sc[p].sent THEN "sent" ELSE "failed"]}],
                "DELIVERY", sc[p].sent, sc[p].sid)
    /\ Goto(p, "markcommit")
    /\ UNCHANGED <<clock, runs, sc, dbVars, chat>>

MarkCommit(p) ==
    /\ pc[p] = "markcommit"
    /\ Apply(p)
    /\ Finish(p)
    /\ UNCHANGED <<clock, runs, lastId, chat>>

\* Mutant of Abort: the connection returns to the pool with its transaction open.
Abort_KeepsLock(p) ==
    /\ pc[p] # "idle"
    /\ txn' = [txn EXCEPT ![p] = NoWrites]
    /\ Finish(p)
    /\ UNCHANGED <<clock, runs, lock, lastId, dbVars, chat>>

\* The run dies (an exception, or its process): the open transaction rolls back.
Abort(p) ==
    /\ pc[p] # "idle"
    /\ EndTxn(p)
    /\ Finish(p)
    /\ UNCHANGED <<clock, runs, lastId, dbVars, chat>>

-----------------------------------------------------------------------------
\* The rest of the system.

\* track_paper_signals commits a new status for an open signal.
NextStatus(s) ==
    IF s = "PUBLISHED" THEN {"FILLED", "EXPIRED", "SL_HIT", "TP_HIT"}
    ELSE {"SL_HIT", "TP_HIT"}

\* Mutant of Track: signals are not filtered by open_for_tracking.
Track_AnySignal(id, status) ==
    /\ status \in NextStatus(signals[id].status)
    /\ signals' = [signals EXCEPT ![id].status = status]
    /\ UNCHANGED <<clock, runs, pc, sc, txn, lock, lastId, audit, enabled, chat>>

Track(id, status) ==
    /\ signals[id].status \in OpenStatus
    /\ status \in NextStatus(signals[id].status)
    /\ signals' = [signals EXCEPT ![id].status = status]
    /\ UNCHANGED <<clock, runs, pc, sc, txn, lock, lastId, audit, enabled, chat>>

\* /enable_strategy, and the promote command line, which enables and disables;
\* an uncommitted set_state of a scan holds the row.
Toggle(s) ==
    /\ \A p \in Scanners : s \notin txn[p].disable
    /\ enabled' = [enabled EXCEPT ![s] = ~ @]
    /\ UNCHANGED <<clock, runs, pc, sc, txn, lock, lastId, audit, signals, chat>>

Tick ==
    /\ clock < MaxClock
    /\ clock' = clock + 1
    /\ UNCHANGED <<runs, pc, sc, txn, lock, lastId, dbVars, chat>>

\* A step of a run in progress, its death excepted.
Step(p) ==
    \/ EndWithoutSignal(p)
    \/ \E bar \in 0 .. clock : LoadFrame(p, bar)
    \/ \E b \in BOOLEAN : ShadowAudit(p, b)
    \/ SkipStrategy(p)
    \/ \E b \in BOOLEAN : GenerateCandidate(p, b)
    \/ AuditMisaligned(p)
    \/ AuditCandidate(p)
    \/ NoCandidate(p)
    \/ Dedup(p)
    \/ CountSince(p)
    \/ GatePass(p)
    \/ \E b \in BOOLEAN : GateFail(p, b)
    \/ \E d \in Decision : LlmAccepts(p, d)
    \/ \E d \in Decision : LlmRefuses(p, d)
    \/ PostGatePass(p)
    \/ \E b \in BOOLEAN : PostGateFail(p, b)
    \/ Publish(p)
    \/ Commit(p)
    \/ \E b \in BOOLEAN : Deliver(p, b)
    \/ MarkDelivery(p)
    \/ MarkCommit(p)

Next ==
    \/ \E p \in Scanners, i \in Instruments : Begin(p, i)
    \/ \E p \in Scanners : Step(p)
    \/ \E p \in Scanners : Abort(p)
    \/ \E id \in DOMAIN signals, status \in Status : Track(id, status)
    \/ \E s \in Strategies : Toggle(s)
    \/ Tick

Spec == Init /\ [][Next]_vars

\* The event loop schedules every run, and PostgreSQL queues lock waiters in
\* order; nothing obliges time to pass, an operator to act or a run to start.
FairSpec == Spec /\ \A p \in Scanners : SF_vars(Step(p))

-----------------------------------------------------------------------------
\* Properties.

Label == {"idle", "frame", "shadow", "strategy", "audit", "dedup", "count",
          "gate", "llm", "postgate", "publish", "commit", "deliver", "mark",
          "markcommit"}

LocalsType ==
    [run : Nat, inst : Instruments, now : Nat, bar : Nat, strat : Nat,
     guardOk : BOOLEAN, today : Nat, decision : Decision, sid : Nat,
     message : BOOLEAN, sent : BOOLEAN]

WritesType ==
    [rows : SUBSET AuditRow, insert : SUBSET [id : Nat, row : SignalRow],
     disable : SUBSET Strategies, deliver : SUBSET [id : Nat, as : {"sent", "failed"}]]

\* The types of the state: locals, open transactions and tables.
TypeOK ==
    /\ clock \in Nat /\ runs \in Nat /\ lastId \in Nat
    /\ pc \in [Scanners -> Label]
    /\ sc \in [Scanners -> LocalsType]
    /\ txn \in [Scanners -> WritesType]
    /\ lock \in Scanners \cup {NoOne}
    /\ audit \subseteq AuditRow
    /\ DOMAIN signals \subseteq Nat
    /\ \A id \in DOMAIN signals : signals[id] \in SignalRow
    /\ enabled \in [Strategies -> BOOLEAN]
    /\ chat \subseteq Nat \X Nat

\* The committed rows of the audit table form one chain without a fork, gaps in
\* the id sequence left by rolled-back transactions notwithstanding: what
\* verify_chain and audit_chain_verify_job look for never raises a false alarm.
ChainLinked == Chain!Linked(audit) /\ Chain!ForkFree(audit)

\* The unique constraint uq_signals_dedup is never the one to stop a duplicate:
\* between the look-up of get_by_dedup and the COMMIT nobody inserts the key, so
\* no scan fails with an IntegrityError.
InsertNeverConflicts ==
    \A p \in Scanners : pc[p] = "commit" => ~ Conflicts(p)

\* The signals of an instrument that are PUBLISHED, for a bar of the day on
\* which they were published.
OpenToday(i, day) ==
    {id \in CountedToday(i, day) : signals[id].day = day}

\* GR-12 as count_since evaluates it holds under concurrency: two runs cannot
\* both see the last free place of the day.
DailyCapOpen ==
    \A i \in Instruments, day \in 0 .. Day(clock) :
        Cardinality(OpenToday(i, day)) <= MaxPerDay

GateRows(id, ok) == {r \in audit : r.stage = "GATE" /\ r.sid = id /\ r.ok = ok}

\* A signal that was ever PUBLISHED has its candidate row and every gate run
\* that let it through in the committed audit trail, and no gate run that failed.
PublishedIsAudited ==
    \A id \in DOMAIN signals :
        signals[id].status \notin {"REJECTED", "ABSTAINED"} =>
            /\ \E r \in audit : r.stage = "CANDIDATE" /\ r.ok /\ r.sid = id
            /\ Cardinality(GateRows(id, TRUE)) = IF LlmEnabled THEN 2 ELSE 1
            /\ GateRows(id, FALSE) = {}

\* Telegram receives a signal at most once, and only one that was published:
\* a later run on the same bar finds the duplicate and stays silent.
SentAtMostOnce ==
    \A m \in chat :
        /\ m[1] \in DOMAIN signals
        /\ signals[m[1]].status \notin {"REJECTED", "ABSTAINED"}
        /\ \A n \in chat : n[1] = m[1] => n = m

\* A committed signal keeps its key for ever, and its status only moves along
\* PUBLISHED -> FILLED -> TP_HIT / SL_HIT and PUBLISHED -> EXPIRED.
SignalLifecycle ==
    [][\A id \in DOMAIN signals :
          /\ id \in DOMAIN signals'
          /\ SameKey(signals'[id], signals[id])
          /\ \/ signals'[id].status = signals[id].status
             \/ /\ signals[id].status \in OpenStatus
                /\ signals'[id].status \in {"FILLED", "TP_HIT", "SL_HIT", "EXPIRED"}
                /\ signals[id].status = "FILLED" =>
                      signals'[id].status \in {"TP_HIT", "SL_HIT"}]_vars

\* The committed audit table implements the append-only chained log.
AuditRefinesLog == Chain!Spec

\* Every run ends: the lock of a run that died is released, and the waiters
\* for the chain lock all get their turn.
RunsEnd == \A p \in Scanners : pc[p] # "idle" ~> pc[p] = "idle"

-----------------------------------------------------------------------------
\* What documents of the repository say and the code does not do.

\* guardrails/gate.py: "GR-12: Rate cap (<= 3 signals/day/instrument)".
DailyRateCap ==
    \A i \in Instruments, day \in 0 .. Day(clock) :
        Cardinality({id \in DOMAIN signals :
            /\ signals[id].inst = i /\ signals[id].day = day
            /\ signals[id].status \notin {"REJECTED", "ABSTAINED"}}) <= MaxPerDay

\* llm/pipeline.py: "confidence >= 75 -> deterministic-only fallback (signal
\* published)": what the first gate accepted, the second one accepts as well.
FallbackPassesSecondGate ==
    \A p \in Scanners :
        pc[p] = "postgate" /\ sc[p].decision = "FALLBACK" =>
            GatePasses(p, CitationsValid(p))

\* scheduler/jobs.py: "All jobs are idempotent": scanning a bar again does not
\* change what is recorded of the signal's delivery.
DeliveryRecordKept ==
    [][\A id \in DOMAIN signals :
          signals[id].delivery = "sent" => signals'[id].delivery = "sent"]_vars
=============================================================================
