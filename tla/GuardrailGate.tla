---------------------------- MODULE GuardrailGate ----------------------------
(***************************************************************************)
(* run_gate of guardrails/gate.py, which a scan calls before and, with an  *)
(* LLM, after the LLM pipeline, and the two questions that a scan asks the *)
(* economic calendar: is there a blackout now, is an important event ahead *)
(* of us.  Pure functions of their arguments.                              *)
(*                                                                         *)
(* Times are relative to the `now` of the scan, in quarters of an hour.    *)
(***************************************************************************)
EXTENDS Scoring

CONSTANTS
    BlackoutBefore, \* settings.risk.news_blackout_before_min
    BlackoutAfter,  \* settings.risk.news_blackout_after_min
    DriftMax,       \* settings.signal.price_drift_max_pct, in tenths of a percent
    MaxPerDay       \* max_signals_per_day_per_instrument

ASSUME GateAssumption ==
    BlackoutBefore \in Nat /\ BlackoutAfter \in Nat /\ DriftMax \in Nat /\ MaxPerDay \in Nat

\* An optional argument: a set of at most one value, empty for None.
Absent == {}
Given(x) == {x}

-----------------------------------------------------------------------------
\* An event of the calendar: high by its impact or by its name, related when its
\* currency is one of the instrument's.
Important(events) == {e \in events : e.related /\ e.high}

\* EventRepo.get_window as run_scan asks it: two hours back, 72 ahead.
Window(table) == {e \in table : e.at >= -8 /\ e.at < 4 * 72}

\* check_news_blackout.
Blackout(events) == \E e \in Important(events) : e.at \in (-BlackoutAfter)..BlackoutBefore

\* high_impact_within.
HighImpactWithin(events, hours) == \E e \in Important(events) : e.at \in 0..(4 * hours)

-----------------------------------------------------------------------------
\* A required gate whose input is left out.
Missing(in) ==
    {gate \in in.require :
        CASE gate = "GR-06" -> in.candle_age = Absent
          [] gate = "GR-07" -> in.events = Absent
          [] gate = "GR-08" -> in.regime = Absent
          [] gate = "GR-09" -> in.confidence = Absent
          [] gate = "GR-11" -> in.sources = Absent
          [] gate = "GR-13" -> in.losing = Absent}

\* GR-02 to GR-05: the candidate's own numbers.
NumberFailures(c, atr) ==
    {gate \in {"GR-02", "GR-03", "GR-04", "GR-05"} :
        CASE gate = "GR-02" -> ~DirectionHolds(c.levels, c.action)
          [] gate = "GR-03" -> ~RatioHolds(c.levels, 15)
          [] gate = "GR-04" -> ~WithinAtr(c.levels, atr)
          [] gate = "GR-05" -> c.risk > 20}

\* GR-06: the candle closed at most two of its periods ago (candle_age counts half
\* periods), and there is a live quote, not too far from the entry.
Drifted(live, entry) ==
    DriftMax > 0 /\ 1000 * (IF live > entry THEN live - entry ELSE entry - live) > DriftMax * entry

Stale(in, entry) ==
    \/ \E age \in in.candle_age : age > 4
    \/ in.live_price = Absent /\ in.live_quote_required
    \/ \E live \in in.live_price : Drifted(live, entry)

WrongRegime(in) == \E r \in in.regime : r = "CRISIS" \/ r # in.required_regime

\* The gates that fail; in holds the other arguments of run_gate.
GateFailures(c, in, atr) ==
    Missing(in) \cup NumberFailures(c, atr) \cup
    {gate \in {"GR-06", "GR-07", "GR-08", "GR-09", "GR-10", "GR-11", "GR-12", "GR-13"} :
        CASE gate = "GR-06" -> Stale(in, c.levels.entry)
          [] gate = "GR-07" -> in.calendar_stale \/ \E events \in in.events : Blackout(events)
          [] gate = "GR-08" -> WrongRegime(in)
          [] gate = "GR-09" -> \E x \in in.confidence : x < in.confidence_min
          [] gate = "GR-10" -> \E o \in in.original : o # <<c.levels, c.risked>>
          [] gate = "GR-11" -> \E s \in in.sources : s = {} \/ ~(s \subseteq in.pack)
          [] gate = "GR-12" -> in.signals_today >= MaxPerDay
          [] gate = "GR-13" -> TRUE \in in.losing}
=============================================================================
