---------------------------- MODULE CandleIngest ----------------------------
(***************************************************************************)
(* The candles of one instrument and timeframe: a scan calls               *)
(* _ingest_incremental, which asks the composite provider from two bars    *)
(* before the newest stored one for a few bars; the composite tries its    *)
(* legs in order; ingest_candles drops the bar that is forming and upserts *)
(* the rest.  Scans are missed when the worker is down, every leg fails,   *)
(* or the run dies, and rows may not validate.                             *)
(*                                                                         *)
(* Bars are numbered by their opening time; the market never closes, as    *)
(* for crypto.  Bar `clock' is forming, the bars before it have closed.    *)
(* Time passes while a leg is asked: what was forming when the provider    *)
(* answered may have closed when the cut-off is computed, and is then      *)
(* stored with the values it had.                                          *)
(***************************************************************************)
EXTENDS Integers, Sequences, FiniteSets

CONSTANTS
    Legs,       \* the legs, each [newest, complete]: see Counted and Delivered
    Limit,      \* bars asked for incrementally (10)
    ColdLimit,  \* bars asked for at the first run (5000)
    GapBars,    \* max_consecutive_gaps (3)
    MaxBad,     \* bound on the malformed rows of one answer
    Horizon     \* bound on the clock

ASSUME LegsAssumption == Legs \in Seq([newest : BOOLEAN, complete : BOOLEAN]) /\ Legs # <<>>
ASSUME LimitAssumption == Limit \in Nat \ {0} /\ ColdLimit \in Nat \ {0} /\ GapBars \in Nat
ASSUME HorizonAssumption == Horizon \in Nat /\ MaxBad \in Nat

VARIABLES
    clock,
    stored,     \* the bars in the candles table
    partial,    \* those of them that hold the values of a bar still forming
    fetch,      \* the scan's ingestion: where it stands, what it asks, the answer
    skipped,    \* history: bars that came malformed and were left out
    warned      \* history: missing bars that detect_candle_gaps reported

vars == <<clock, stored, partial, fetch, skipped, warned>>

NoFetch == [at |-> "idle", leg |-> 1, since |-> 0, count |-> 1,
            bars |-> {}, bad |-> {}, forming |-> {}]

Init ==
    /\ clock = 1
    /\ stored = {} /\ partial = {}
    /\ fetch = NoFetch
    /\ skipped = {} /\ warned = {}

-----------------------------------------------------------------------------
IsLatest(b, bars) == b \in bars /\ \A c \in bars : c <= b

\* CandleRepo.latest.
Latest == CHOOSE b \in stored : IsLatest(b, stored)

\* BUG 5, the short-circuit: the newest bar opened no longer than a bar ago.  Of the
\* moments at which bar `clock' is forming only the first is such a one.
MayBeFresh == stored # {} /\ clock - Latest <= 1

SkipFetch == fetch.at = "idle" /\ MayBeFresh /\ UNCHANGED vars

\* Mutants of Since: an overlap of Limit bars; no overlap; a step past the newest bar.
Since_Wide == IF stored = {} THEN clock - ColdLimit + 1 ELSE Latest - Limit
Since_NoOverlap == IF stored = {} THEN clock - ColdLimit + 1 ELSE Latest + 1
Since_Past == IF stored = {} THEN clock - ColdLimit + 1 ELSE Latest + 2

\* _ingest_incremental: where to start, and how many bars to ask for.
Since == IF stored = {} THEN clock - ColdLimit + 1 ELSE Latest - 2
Count == IF stored = {} THEN ColdLimit ELSE Limit

Begin ==
    /\ fetch.at = "idle"
    /\ fetch' = [NoFetch EXCEPT !.at = "ask", !.since = Since, !.count = Count]
    /\ UNCHANGED <<clock, stored, partial, skipped, warned>>

\* The bars the vendor selects: TwelveData the newest `count' ones since then,
\* Binance and OANDA the first `count' ones.
Counted(leg) ==
    {b \in 0..clock : b >= fetch.since /\ IF leg.newest THEN b > clock - fetch.count
                                                        ELSE b < fetch.since + fetch.count}

\* OANDA marks a bar complete, and its leg leaves the others out.
Delivered(leg) == {b \in Counted(leg) : leg.complete => b < clock}

\* A leg answers; bad are the bars whose rows do not validate.
LegAnswers(bad) ==
    /\ fetch.at = "ask"
    /\ LET bars == Delivered(Legs[fetch.leg]) IN
        /\ bad \subseteq bars /\ Cardinality(bad) <= MaxBad
        /\ fetch' = [fetch EXCEPT !.at = "answered", !.bars = bars \ bad, !.bad = bad,
                                  !.forming = {clock}]
    /\ UNCHANGED <<clock, stored, partial, skipped, warned>>

\* Rate limited three times, or an error of the vendor: the composite goes on to
\* its next leg, and after the last one the run ends.
LegFails ==
    /\ fetch.at = "ask"
    /\ fetch' = IF fetch.leg < Len(Legs) THEN [fetch EXCEPT !.leg = @ + 1] ELSE NoFetch
    /\ UNCHANGED <<clock, stored, partial, skipped, warned>>

\* ingest_candles: drop the forming bar.
Closed(bars) == {b \in bars : b < clock}

\* detect_candle_gaps over one answer of the provider.
Gaps(bars) ==
    {g \in 0..clock : /\ g \notin bars
                      /\ \E b, c \in bars : /\ b < g /\ g < c /\ c - b > GapBars + 1
                                            /\ \A d \in bars : d <= b \/ c <= d}

\* Cut off, check for gaps, upsert.
Store ==
    /\ fetch.at = "answered"
    /\ LET bars == Closed(fetch.bars) IN
        /\ stored' = stored \cup bars
        /\ partial' = (partial \ bars) \cup (bars \cap fetch.forming)
        /\ skipped' = (skipped \cup fetch.bad) \ bars
        /\ warned' = warned \cup Gaps(bars)
    /\ fetch' = NoFetch
    /\ UNCHANGED clock

\* An error leaves _attempt or run_scan, or the worker dies.
Die ==
    /\ fetch.at # "idle"
    /\ fetch' = NoFetch
    /\ UNCHANGED <<clock, stored, partial, skipped, warned>>

\* The next bar closes; what scans do in between, and whether there are any, is open.
Tick ==
    /\ clock < Horizon
    /\ clock' = clock + 1
    /\ UNCHANGED <<stored, partial, fetch, skipped, warned>>

Next ==
    \/ Begin \/ SkipFetch \/ LegFails \/ Store \/ Die \/ Tick
    \/ \E bad \in SUBSET Delivered(Legs[fetch.leg]) : LegAnswers(bad)

Spec == Init /\ [][Next]_vars

\* The scheduler goes on scanning and a run ends one way or the other; in the end a
\* leg gives a well-formed answer, and a run comes through with one.
FairSpec ==
    /\ Spec /\ WF_vars(Begin) /\ WF_vars(Store \/ Die)
    /\ SF_vars(LegAnswers({})) /\ SF_vars(Store /\ fetch.bad = {})

-----------------------------------------------------------------------------
\* Types.  Only bars that had closed are stored (ingestion.py:145).
TypeOK ==
    /\ clock \in Nat \ {0}
    /\ stored \subseteq 0..(clock - 1) /\ partial \subseteq stored
    /\ fetch.at \in {"idle", "ask", "answered"} /\ fetch.leg \in DOMAIN Legs
    /\ fetch.bars \subseteq 0..clock /\ fetch.bad \subseteq 0..clock
    /\ skipped \subseteq 0..clock /\ warned \subseteq 0..(clock - 1)

\* With legs that count forward nothing is lost to an outage, however long: between
\* any two stored bars each bar is stored too, or its row was malformed the last time
\* it came (scan.py:212, "Fetch only what's missing").  A leg that answers with the
\* newest bars breaks it: see FreshIsComplete.
NoHole == \A b, c \in stored : \A g \in b..c : g \in stored \cup skipped

\* The overlap of two bars repairs a bar that closed between the answer and the
\* cut-off: once a newer bar is stored, all older ones hold their final values, or
\* came malformed when they were asked for again (scan.py:230).
PartialIsNewest == \A b \in partial : b \in skipped \/ IsLatest(b, stored)

\* After an outage of any length repeated scans reach the newest closed bar
\* (scan.py:229: each asks only for ten bars after two it has).
CatchesUp == clock = Horizon ~> stored # {} /\ Latest = Horizon - 1

-----------------------------------------------------------------------------
\* What documents of the repository say and the code does not do.

\* incident-data-gap.md, "no signal rather than a signal from incomplete data": a
\* table that is fresh for GR-06 has no hole that is not a malformed row.
FreshIsComplete == (stored # {} /\ clock - Latest <= 3) => NoHole

\* ingestion.py:7: a hole of more than GapBars bars is reported.
HolesAreReported ==
    \A b, c \in stored :
        c - b > GapBars + 1 /\ (\A g \in (b + 1)..(c - 1) : g \notin stored)
            => \A g \in (b + 1)..(c - 1) : g \in warned

\* IMPLEMENTATION_PLAN_v2.md:104, absolute no look-ahead by dropping forming bars:
\* what a scan reads after its ingestion is final.
OnlyFinalBars == partial = {}
=============================================================================
