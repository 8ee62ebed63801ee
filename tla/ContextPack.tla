---------------------------- MODULE ContextPack -----------------------------
(***************************************************************************)
(* What the LLM is told about a candidate and may cite                     *)
(* (llm/context_pack.py, _build_pack of pipeline/scan.py), and what the    *)
(* verifier makes of the claims in its answers (llm/verifier.py).          *)
(*                                                                         *)
(* Numbers are in hundredths.  A text is what the verifier finds in it:    *)
(* the numbers, each with the words around it, and the symbols.            *)
(***************************************************************************)
EXTENDS Integers, SequencesExt

CONSTANTS
    Market,         \* what the scan knows when it builds the pack (see MarketAssumption)
    Indicators,     \* the snapshot's field names, in the order of the pack
    Suspicious      \* event names that look like an instruction to the model

ASSUME MarketAssumption ==
    /\ {Market.entry, Market.stop, Market.target, Market.rr} \subseteq Nat
    /\ DOMAIN Market.indicators \subseteq ToSet(Indicators)
    /\ Market.breakdown \in Seq(Nat)
    /\ DOMAIN Market.found = {"swing_high", "swing_low", "sr_level", "gap_zone"}
    /\ {Market.derivatives, Market.similar} \subseteq BOOLEAN
    /\ Market.bars \in Nat
    /\ {Market.now, Market.dayAgo, Market.weekAgo} \subseteq Nat \ {0}
    /\ Market.low20 <= Market.high20

-----------------------------------------------------------------------------
\* Ids of the pack.  Every indicator has one, with a value or without.
IndicatorIds == {<<"ind", f>> : f \in ToSet(Indicators)}

\* All levels of one kind share an id.
StructureIds == {<<"str", kind>> : kind \in {k \in DOMAIN Market.found : Market.found[k] > 0}}

\* Untrusted text is replaced as a whole when it looks like an instruction.
Sanitized(text) == IF text \in Suspicious THEN "[REDACTED:suspicious]" ELSE text

MaxEvents == 20

EventIds ==
    {<<"cal", Sanitized(Market.events[i])>> : i \in {j \in DOMAIN Market.events : j <= MaxEvents}}

DerivativeIds == IF Market.derivatives THEN {<<"der", "funding_rate">>, <<"der", "oi_change">>}
                                       ELSE {}

DayOfBars == 24
WeekOfBars == 168

SummaryIds == IF Market.bars >= DayOfBars THEN {<<"sum", "return_24h">>} ELSE {}
SimilarIds == IF Market.similar THEN {<<"mem", "similar">>} ELSE {}

SourceIds ==
    UNION {IndicatorIds, StructureIds, {<<"reg", "state">>}, EventIds, DerivativeIds,
           SummaryIds, SimilarIds}

\* Numbers of the pack in the order the verifier collects them; a loose one may be
\* missed by half a point.
Number(value, loose) == [value |-> value, loose |-> loose]
Prices(values) == [i \in DOMAIN values |-> Number(values[i], FALSE)]
Points(values) == [i \in DOMAIN values |-> Number(values[i], TRUE)]

Percent(part, whole) == (2 * 10000 * part + whole) \div (2 * whole)

Oscillators == {"rsi", "adx", "plus_di", "minus_di", "atr_percentile"}

IndicatorNumbers ==
    LET known == SelectSeq(Indicators, LAMBDA f : f \in DOMAIN Market.indicators)
    IN  [i \in DOMAIN known |-> Number(Market.indicators[known[i]], known[i] \in Oscillators)]

\* The last closes against those of a day and a week ago, and the place of the
\* last one in the range of the last 20 bars.
Summary ==
    IF Market.bars < DayOfBars THEN <<>>
    ELSE <<Percent(Market.now - Market.dayAgo, Market.dayAgo)>>
         \o (IF Market.bars < WeekOfBars THEN <<>>
             ELSE <<Percent(Market.now - Market.weekAgo, Market.weekAgo)>>)
         \o (IF Market.high20 = Market.low20 THEN <<>>
             ELSE <<Percent(Market.now - Market.low20, Market.high20 - Market.low20)>>)

PackNumbers ==
    Prices(<<Market.entry, Market.stop, Market.target, Market.rr>>)
        \o IndicatorNumbers \o Points(Market.breakdown) \o Points(Summary)

-----------------------------------------------------------------------------
\* The expression that finds numbers in a text does not see a sign.
Quoted(value) == IF value < 0 THEN -value ELSE value

Distance(x, y) == Quoted(x - y)

Whole(x) == x % 100 = 0

\* Small whole numbers count things.
Significant(x) == ~(Whole(x) /\ x <= 1000)

\* Durations, and whole numbers next to "reasons", "risks" or the like, claim
\* nothing about the market.
ShouldVerify(claim) ==
    /\ Significant(claim.value)
    /\ "duration" \notin claim.near
    /\ ~(Whole(claim.value) /\ "count" \in claim.near)

\* The number of the pack that is closest; of two as close, the first.
Closest(x) ==
    PackNumbers[CHOOSE i \in DOMAIN PackNumbers : \A j \in DOMAIN PackNumbers :
                    LET mine  == Distance(x, PackNumbers[i].value)
                        yours == Distance(x, PackNumbers[j].value)
                    IN  mine < yours \/ (mine = yours /\ i <= j)]

\* Half a point, or a thousandth of the number and no less than a hundredth.
Within(x, number) ==
    IF number.loose THEN Distance(x, number.value) <= 50
    ELSE 1000 * Distance(x, number.value) <= Max({Quoted(number.value), 1000})

Supported(text) ==
    /\ \A claim \in text.claims : ShouldVerify(claim) => Within(claim.value, Closest(claim.value))
    /\ text.symbols \subseteq {Market.symbol}

\* verify: a source outside the pack, or a number or symbol that is not its own.
Hallucinated(assessment, review) ==
    \/ ~(assessment.sources \subseteq SourceIds)
    \/ ~Supported(assessment.text)
    \/ \E i \in DOMAIN review.arguments :
        \/ ~(review.arguments[i].sources \subseteq SourceIds)
        \/ ~Supported(review.arguments[i].text)
=============================================================================
