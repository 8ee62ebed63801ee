----------------------------- MODULE RiskGuards -----------------------------
(***************************************************************************)
(* The guards that feed on a strategy's own results: the expectancy guard  *)
(* GR-13, which disables the strategy, and the throttle, which halves its  *)
(* risk.  Both read recent_outcomes at the start of a scan; the tracker    *)
(* resolves signals meanwhile, an operator enables and disables, and the   *)
(* scan acts on what it read only after its wait for the audit chain.      *)
(* One strategy, scanned for several instruments at once.                  *)
(***************************************************************************)
EXTENDS Integers, SequencesExt

CONSTANTS
    Scanners,        \* concurrent runs that reach this strategy
    Outcomes,        \* R-multiples of resolved trades
    GuardWindow,     \* settings.risk.expectancy_guard_window
    ThrottleWindow,  \* settings.risk.throttle_window
    MaxSignals       \* bound: signals open or resolved

ASSUME ScannersAssumption == IsFiniteSet(Scanners)
ASSUME OutcomesAssumption == Outcomes \subseteq Int
ASSUME WindowAssumption ==
    /\ GuardWindow \in Nat \ {0} /\ ThrottleWindow \in Nat \ {0}
    /\ MaxSignals \in Nat

VARIABLES
    resolved,   \* outcome_r of the resolved signals, by resolved_at, oldest first
    open,       \* number of PUBLISHED or FILLED signals
    enabled,    \* the row of strategy_state
    sc,         \* the runs: stage and what recent_outcomes returned
    reviewed,   \* no trade was resolved since an operator enabled the strategy
    strays      \* signals published since the strategy was disabled

guardsVars == <<resolved, open, enabled, sc, reviewed, strays>>

Idle == [at |-> "idle", outcomes |-> <<>>]

Total(s) == FoldSeq(+, 0, s)

Newest(s, n) == IF Len(s) <= n THEN s ELSE SubSeq(s, Len(s) - n + 1, Len(s))

\* Mutant of RecentOutcomes: one outcome short of the window.
RecentOutcomes_Short(limit) == Reverse(Newest(resolved, limit - 1))

\* SignalRepo.recent_outcomes: newest first.
RecentOutcomes(limit) == Reverse(Newest(resolved, limit))

\* What both guards compute: the last `window` of the list has a negative mean.
Losing(outcomes, window) ==
    /\ Len(outcomes) >= window
    /\ Total(Newest(outcomes, window)) < 0

Throttled(outcomes) == Losing(outcomes, ThrottleWindow)

GuardFails(outcomes) == Losing(outcomes, GuardWindow)

GuardsInit ==
    /\ resolved = <<>>
    /\ open = 0
    /\ enabled \in BOOLEAN
    /\ sc = [p \in Scanners |-> Idle]
    /\ reviewed = FALSE
    /\ strays = 0

-----------------------------------------------------------------------------
\* Mutant of CheckState: a disabled strategy is scanned as well.
CheckState_Always(p) ==
    /\ sc[p].at = "idle"
    /\ sc' = [sc EXCEPT ![p].at = "checked"]
    /\ UNCHANGED <<resolved, open, enabled, reviewed, strays>>

\* is_enabled; a disabled strategy is skipped.
CheckState(p) ==
    /\ sc[p].at = "idle"
    /\ enabled
    /\ sc' = [sc EXCEPT ![p].at = "checked"]
    /\ UNCHANGED <<resolved, open, enabled, reviewed, strays>>

\* recent_outcomes, one statement later; the candidate is sized with the
\* throttled risk and the run queues for the lock of the audit chain.
ReadOutcomes(p) ==
    /\ sc[p].at = "checked"
    /\ sc' = [sc EXCEPT ![p] = [at |-> "read", outcomes |-> RecentOutcomes(GuardWindow)]]
    /\ UNCHANGED <<resolved, open, enabled, reviewed, strays>>

\* Both gates pass GR-13 and the run commits a PUBLISHED signal.
Publish(p) ==
    /\ sc[p].at = "read"
    /\ ~GuardFails(sc[p].outcomes)
    /\ open + Len(resolved) < MaxSignals
    /\ open' = open + 1
    /\ sc' = [sc EXCEPT ![p] = Idle]
    /\ strays' = IF enabled THEN 0 ELSE strays + 1
    /\ UNCHANGED <<resolved, enabled, reviewed>>

\* The first gate fails GR-13: set_state(enabled=False) in the same transaction.
Disable(p) ==
    /\ sc[p].at = "read"
    /\ GuardFails(sc[p].outcomes)
    /\ enabled' = FALSE
    /\ sc' = [sc EXCEPT ![p] = Idle]
    /\ UNCHANGED <<resolved, open, reviewed, strays>>

\* No candidate, another gate, the LLM, or the end of the process.
Drop(p) ==
    /\ sc[p].at # "idle"
    /\ sc' = [sc EXCEPT ![p] = Idle]
    /\ UNCHANGED <<resolved, open, enabled, reviewed, strays>>

\* The tracker books an outcome; resolved_at is the time of a bar, so a trade of
\* a slower timeframe may be booked behind a newer one.
Resolve(r, at) ==
    /\ open > 0
    /\ at \in {Len(resolved), Len(resolved) + 1} \ {0}
    /\ resolved' = InsertAt(resolved, at, r)
    /\ open' = open - 1
    /\ reviewed' = FALSE
    /\ UNCHANGED <<enabled, sc, strays>>

\* A signal that was never filled expires without an outcome.
Expire ==
    /\ open > 0
    /\ open' = open - 1
    /\ UNCHANGED <<resolved, enabled, sc, reviewed, strays>>

\* /enable_strategy and promote.
Enable ==
    /\ ~enabled
    /\ enabled' = TRUE
    /\ reviewed' = TRUE
    /\ strays' = 0
    /\ UNCHANGED <<resolved, open, sc>>

\* promote --shadow.
Shadow ==
    /\ enabled
    /\ enabled' = FALSE
    /\ UNCHANGED <<resolved, open, sc, reviewed, strays>>

Scan(p) ==
    \/ CheckState(p) \/ ReadOutcomes(p) \/ Publish(p) \/ Disable(p) \/ Drop(p)

GuardsNext ==
    \/ \E p \in Scanners : Scan(p)
    \/ \E r \in Outcomes, at \in 1..MaxSignals : Resolve(r, at)
    \/ Expire \/ Enable \/ Shadow

GuardsSpec == GuardsInit /\ [][GuardsNext]_guardsVars

-----------------------------------------------------------------------------
GuardsTypeOK ==
    /\ resolved \in Seq(Outcomes)
    /\ open \in Nat
    /\ open + Len(resolved) <= MaxSignals
    /\ enabled \in BOOLEAN /\ reviewed \in BOOLEAN
    /\ \A p \in Scanners :
        /\ sc[p].at \in {"idle", "checked", "read"}
        /\ sc[p].outcomes \in Seq(Outcomes)
        /\ Len(sc[p].outcomes) <= GuardWindow
    /\ strays \in Nat

\* A disabled strategy publishes only through the runs that had found it enabled:
\* at most one signal each (is_enabled is read once, long before the COMMIT).
OnlyInFlightPublish ==
    ~enabled => strays + Cardinality({p \in Scanners : sc[p].at # "idle"})
                    <= Cardinality(Scanners)

\* GR-13 is failing on the newest outcomes, no open signal can change them, and
\* no run holds older ones.
LockedOut ==
    /\ open = 0
    /\ Losing(resolved, GuardWindow)
    /\ \A p \in Scanners : sc[p].at = "read" => GuardFails(sc[p].outcomes)

\* From there the strategy never publishes again, whatever the operator does: the
\* guard looks at a count of trades and not at a period, and a strategy that does
\* not publish resolves nothing (scan.py:1111).
LockOutIsFinal == [][LockedOut => LockedOut']_guardsVars

\* What limits.py:55 says, "disabled until review": an operator's review holds
\* until there is a new result to judge.
ReviewHolds == [][(\E p \in Scanners : Disable(p)) => ~reviewed]_guardsVars

\* What limits.py:95 and settings.yaml:50 say: the throttle reacts to a losing
\* streak, the newest ThrottleWindow outcomes of those the guard reads.
ThrottleSeesStreak ==
    [][\A p \in Scanners :
        ReadOutcomes(p) => (Throttled(sc'[p].outcomes) <=> Losing(resolved, ThrottleWindow))]_guardsVars
=============================================================================
