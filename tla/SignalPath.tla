----------------------------- MODULE SignalPath -----------------------------
(***************************************************************************)
(* One instrument's way from an indicator frame to a published signal: the *)
(* regime of the scan, the strategies it allows, generate_candidate, the   *)
(* gate, the LLM pipeline and the gate after it.  ScanPipeline has the     *)
(* concurrent runs and their transactions; here one run after the other    *)
(* computes what is published.                                             *)
(*                                                                         *)
(* The scans of an instrument on all its entry timeframes share one regime *)
(* memory, RegimeClassifier._prev.                                         *)
(***************************************************************************)
EXTENDS GuardrailGate, Strategies

CONSTANTS
    Frames,         \* per strategy, the indicator frames a scan may find
    Contexts,       \* scoring contexts
    Flaws,          \* sets of flaws of the trigger bar
    Tables,         \* sets of events the calendar may hold
    Adx,            \* values of the ADX
    Risks,          \* risk_pct, throttled or not, in tenths of a percent
    LotSteps,       \* lot_step of the instrument; 0 is None
    Prices,         \* live quotes; 0 is a quote that could not be had
    Profile,        \* per strategy: confluence_min, edge_min, confidence_min
    RrMin,          \* settings.risk.rr_min, in tenths
    MultiTimeframe, \* entry_timeframes are configured: the anchor's bias binds
    LlmEnabled      \* settings.llm.enabled: the values it may have

\* The floors that core/config.py puts under the settings.
ASSUME SettingsAssumption == RrMin \in Nat /\ RrMin >= 15 /\ Risks \subseteq 1..20

\* What the indicators, the calendar and the instrument deliver.
ASSUME InputAssumption ==
    /\ Adx \subseteq Nat /\ LotSteps \subseteq Nat
    /\ \A table \in Tables : \A e \in table : e.at \in Int
    /\ DOMAIN Frames = {"s1", "s2", "s3", "s4"}
    /\ \A s \in DOMAIN Frames : \A f \in Frames[s] : Frame(s, f)
    /\ Contexts \subseteq
        [close : Sides, ema50 : Sides, adx : Int, h4 : Sides \cup {"none"}, macd : Sides,
         rsi : Int, level : [kind : STRING, strength : Nat], gap : Sides, volume : Int,
         session : BOOLEAN, funding : BOOLEAN]

\* Prices are whole numbers, far above the tick: no level that a strategy computes lies
\* between zero and one tick.
ASSUME PricesAssumption ==
    \A s \in DOMAIN Frames : \A f \in Frames[s], action \in Actions :
        Setup(s, f, action) =>
            LET levels == Levels(s, f, action)
            IN  \A price \in {levels.entry, levels.stop, levels.target} :
                    price > 0 => price >= Tick

\* The point about which frames are mirrored is on a tick.
ASSUME CentreAssumption == Centre % Tick = 0

None == "none"

VARIABLES
    prev,           \* RegimeClassifier._prev; None is no entry
    run             \* the scan under way

vars == <<prev, run>>

Registry == <<"s1", "s2", "s3", "s4">>
RequiredRegime(s) == IF s = "s2" THEN "RANGE" ELSE "TREND"
EntryTimeframes(s) == IF s \in {"s1", "s2"} THEN {"1h"} ELSE {"5m", "15m"}
HardBlockHours(s) == IF s = "s2" THEN 12 ELSE 0

Idle == [at |-> "idle"]

Init == prev = None /\ run = Idle

-----------------------------------------------------------------------------
\* Mutant of Classified: the memory also decides below the band.
Classified_Sticky(adx, crisis) ==
    IF crisis THEN "CRISIS"
    ELSE IF adx >= 25 THEN "TREND"
    ELSE IF adx < 15 THEN "RANGE"
    ELSE IF prev \in {"TREND", "RANGE"} THEN prev ELSE "RANGE"

\* RegimeClassifier.classify: between 20 and 25 the regime stays what it was.
Classified(adx, crisis) ==
    IF crisis THEN "CRISIS"
    ELSE IF adx >= 25 THEN "TREND"
    ELSE IF adx < 20 THEN "RANGE"
    ELSE IF prev \in {"TREND", "RANGE"} THEN prev ELSE "RANGE"

\* A scan that is past its warm-up.
Begin(tf, adx, crisis, table) ==
    LET regime == Classified(adx, crisis)
    IN  /\ run.at = "idle"
        /\ prev' = regime
        /\ run' = [at |-> "strategies", tf |-> tf, adx |-> adx, crisis |-> crisis,
                   regime |-> regime, table |-> table, rest |-> Registry]

Strategy == Head(run.rest)

\* The run goes on with these fields set.
Pass(fields) ==
    /\ run' = [x \in DOMAIN fields \cup DOMAIN run |->
                IF x \in DOMAIN fields THEN fields[x] ELSE run[x]]
    /\ UNCHANGED prev

\* continue: the next strategy, with what only belonged to this one forgotten.
NextStrategy ==
    run' = [at |-> "strategies", tf |-> run.tf, adx |-> run.adx, crisis |-> run.crisis,
            regime |-> run.regime, table |-> run.table, rest |-> Tail(run.rest)]

NoSignal ==
    /\ run.at = "strategies"
    /\ run.rest = <<>>
    /\ run' = Idle
    /\ UNCHANGED prev

Events == Window(run.table)

\* Mutant of HardBlock: the block ends where the blackout does.
HardBlock_Short ==
    HardBlockHours(Strategy) > 0 /\ Blackout(Events)

HardBlock ==
    HardBlockHours(Strategy) > 0 /\ HighImpactWithin(Events, HardBlockHours(Strategy))

\* It is for this regime and this timeframe.
Applies ==
    RequiredRegime(Strategy) = run.regime /\ run.tf \in EntryTimeframes(Strategy)

\* It does not apply, it is disabled, or the calendar blocks it.
Skip ==
    /\ run.at = "strategies" /\ run.rest # <<>>
    /\ NextStrategy
    /\ UNCHANGED prev

Look(f) ==
    /\ run.at = "strategies" /\ run.rest # <<>>
    /\ Applies /\ ~HardBlock
    /\ "adx" \in DOMAIN f => f.adx = run.adx
    /\ Pass([at |-> "looked", frame |-> f, action |-> EntrySignal(Strategy, f)])

NoSetup ==
    /\ run.at = "looked" /\ run.action = ""
    /\ NextStrategy
    /\ UNCHANGED prev

\* custom_entry_price; a LevelSet that cannot be built is caught.
Price ==
    /\ run.at = "looked" /\ run.action # ""
    /\ LET levels == Levels(Strategy, run.frame, run.action)
       IN  IF LevelSetValid(levels) THEN Pass([at |-> "priced", levels |-> levels])
           ELSE NextStrategy /\ UNCHANGED prev

\* validate_and_round_levels; the LevelSet it builds is not caught.
Round ==
    /\ run.at = "priced"
    /\ IF Validated(run.levels, run.action, ATR, RrMin)
       THEN Pass([at |-> IF LevelSetValid(RoundLevels(run.levels)) THEN "rounded" ELSE "raised",
                  levels |-> RoundLevels(run.levels)])
       ELSE NextStrategy /\ UNCHANGED prev

\* confirm_signal; the frame is not looked at again.
Confirm ==
    /\ run.at = "rounded"
    /\ IF ConfirmSignal(Strategy, run.frame, run.levels)
       THEN Pass([at |-> "confirmed", frame |-> None]) ELSE NextStrategy /\ UNCHANGED prev

\* assess_edge_quality.
Edge(flaws) ==
    /\ run.at = "confirmed"
    /\ IF EdgePassed(flaws, Profile[Strategy].edge_min)
       THEN Pass([at |-> "clean", edge |-> EdgeScore(flaws)]) ELSE NextStrategy /\ UNCHANGED prev

EventAhead == HighImpactWithin(Events, 12)

Score(context) ==
    LET ctx == [context EXCEPT !.adx = run.adx]
        total == TotalScore(Breakdown(ctx, run.action, EventAhead))
    IN  /\ run.at = "clean"
        /\ IF total >= Profile[Strategy].confluence_min
           THEN Pass([at |-> IF BreakdownValid(Breakdown(ctx, run.action, EventAhead))
                             THEN "scored" ELSE "raised", score |-> total])
           ELSE NextStrategy /\ UNCHANGED prev

\* compute_position_size and the constructor of SignalCandidate, which raises when
\* the numbers break GR-02 to GR-05; a size of nothing is an abstention.
Size(risk, step) ==
    LET risked == RiskOf(risk, StopDistance(run.levels), step)
        c == [levels |-> run.levels, action |-> run.action, risk |-> risk, risked |-> risked]
    IN  /\ run.at = "scored"
        /\ IF risked = 0 THEN NextStrategy /\ UNCHANGED prev
           ELSE Pass([at |-> IF NumberFailures(c, ATR) = {} THEN "candidate" ELSE "raised",
                      risk |-> risk, risked |-> risked])

\* enforce_bias: the trend of the anchor timeframe is another, or there is none.
Misaligned(bias) ==
    /\ run.at = "candidate"
    /\ MultiTimeframe
    /\ bias # With(run.action)
    /\ NextStrategy
    /\ UNCHANGED prev

\* The arguments of both gates: what the run knew of candles, quote, calendar,
\* regime and past signals when it began, and which gates it requires.
FirstGate(age, live, stale, today, losing) ==
    [require |-> {"GR-06", "GR-07", "GR-08", "GR-13"},
     candle_age |-> Given(age), live_price |-> IF live = 0 THEN Absent ELSE Given(live),
     live_quote_required |-> TRUE, events |-> Given(Events), calendar_stale |-> stale,
     regime |-> Given(run.regime), required_regime |-> RequiredRegime(Strategy),
     signals_today |-> today, losing |-> Given(losing),
     confidence |-> Absent, confidence_min |-> 55, original |-> Absent,
     sources |-> Absent, pack |-> {}]

SecondGate(in, confidence, sources) ==
    [in EXCEPT !.require = @ \cup {"GR-09", "GR-11"},
               !.confidence = Given(confidence),
               !.confidence_min = Profile[Strategy].confidence_min,
               !.original = Given(<<run.levels, run.risked>>),
               !.sources = Given(sources), !.pack = {"pack"}]

\* The first gate; what fails is stored as REJECTED and ends the scan.
Gate(in) ==
    /\ run.at = "candidate"
    /\ IF GateFailures(run, in, ATR) = {}
       THEN \E llm \in LlmEnabled :
                Pass([at |-> IF llm THEN "passed" ELSE "graded",
                      in |-> in, confidence |-> run.score])
       ELSE run' = Idle /\ UNCHANGED prev

\* run_llm_pipeline decides to publish, or falls back; then the second gate.
Llm(confidence, sources) ==
    /\ run.at = "passed"
    /\ IF GateFailures(run, SecondGate(run.in, confidence, sources), ATR) = {}
       THEN Pass([at |-> "graded", confidence |-> confidence])
       ELSE run' = Idle /\ UNCHANGED prev

\* It rejects or abstains.
LlmDeclines == run.at = "passed" /\ run' = Idle /\ UNCHANGED prev

\* grade_signal, and the signal is stored as PUBLISHED.
Publish ==
    /\ run.at = "graded"
    /\ LET grade == Grade(run.score, run.edge, EventAhead, run.confidence)
       IN  Pass([at |-> "published", grade |-> grade,
                 scaled |-> (run.risked * RiskMultiplier(grade)) \div 100])

Done == run.at = "published" /\ run' = Idle /\ UNCHANGED prev

Candidate ==
    \/ NoSignal \/ Skip \/ NoSetup \/ Price \/ Round \/ Confirm
    \/ run.at = "strategies" /\ run.rest # <<>> /\ \E f \in Frames[Strategy] : Look(f)
    \/ \E flaws \in Flaws : Edge(flaws)
    \/ \E context \in Contexts : Score(context)
    \/ \E risk \in Risks, step \in LotSteps : Size(risk, step)
    \/ \E bias \in {"UP", "DOWN", None} : Misaligned(bias)

\* The inputs that do not come from the candidate; stale candles and calendars, a
\* full day and losing outcomes one at a time.
Decide ==
    \/ \E live \in Prices :
        /\ run.at = "candidate"
        /\ \E in \in {FirstGate(4, live, FALSE, 0, FALSE), FirstGate(5, live, FALSE, 0, FALSE),
                      FirstGate(0, live, TRUE, 0, FALSE), FirstGate(0, live, FALSE, MaxPerDay, FALSE),
                      FirstGate(0, live, FALSE, 0, TRUE)} : Gate(in)
    \/ \E confidence \in {50, 54, 55, 65}, sources \in {{}, {"pack"}, {"deterministic"}} :
            Llm(confidence, sources)
    \/ LlmDeclines \/ Publish \/ Done

Next ==
    \/ \E tf \in {"1h", "15m"}, adx \in Adx, crisis \in BOOLEAN, table \in Tables :
            Begin(tf, adx, crisis, table)
    \/ Candidate
    \/ Decide

Spec == Init /\ [][Next]_vars

-----------------------------------------------------------------------------
\* The long and the short side of every strategy are mirror images, up to and with
\* the rounding of the levels: no setup, stop or target favours a side (s1 to s4,
\* levels.py, confluence.py).
MirrorSymmetric ==
    /\ run.at = "looked" =>
        \A action \in Actions :
            LET mirror == Mirror(Strategy, run.frame)
                here == Levels(Strategy, run.frame, action)
                there == Levels(Strategy, mirror, Other(action))
            IN  /\ Setup(Strategy, run.frame, action) <=> Setup(Strategy, mirror, Other(action))
                /\ Setup(Strategy, run.frame, action) =>
                    /\ RoundLevels(there) = FlipLevels(RoundLevels(here))
                    /\ Validated(here, action, ATR, RrMin)
                        <=> Validated(there, Other(action), ATR, RrMin)
                    /\ Validated(here, action, ATR, RrMin) =>
                        (ConfirmSignal(Strategy, run.frame, RoundLevels(here))
                            <=> ConfirmSignal(Strategy, mirror, RoundLevels(there)))
    /\ run.at = "clean" =>
        \A context \in Contexts :
            Breakdown(context, run.action, EventAhead)
                = Breakdown(FlipContext(context), Other(run.action), EventAhead)

\* What the level engine and the sizing let through no later constructor refuses:
\* the three places that test GR-02 to GR-05 agree, whatever was rounded between
\* them, and no scan ends with an exception (levels.py, schemas.py, gate.py).
CandidateIsSound ==
    /\ run.at # "raised"
    /\ run.at = "candidate" => NumberFailures(run, ATR) = {}

\* GR-05 and B3: the position that is advised loses at its stop at most its budget
\* and 2 % of the equity, with any lot step and after grading.
NeverOverRisks ==
    run.at \in {"candidate", "published"} =>
        /\ run.risked <= Budget(run.risk) /\ 50 * run.risked <= Equity
        /\ run.at = "published" => run.scaled <= run.risked

\* Of all the events in the table, none that matters lies in the blackout of a signal
\* that is published, nor within 12 hours ahead of one of S2: the window that the
\* scan loads, the hard block and GR-07 leave no gap between them.
NoNewsAtPublish ==
    run.at = "published" =>
        \A e \in Important(run.table) :
            /\ e.at \notin (-BlackoutAfter)..BlackoutBefore
            /\ Strategy = "s2" => e.at \notin (-BlackoutAfter)..48

\* Whatever other scans left in the shared regime memory, a trend strategy publishes
\* only with an ADX of 20 or more, S2 only below 20, and none in a crisis (GR-08).
TradesItsRegime ==
    run.at = "published" =>
        ~run.crisis /\ IF Strategy = "s2" THEN run.adx < 20 ELSE run.adx >= 20

=============================================================================
