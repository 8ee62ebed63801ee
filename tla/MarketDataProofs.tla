-------------------------- MODULE MarketDataProofs --------------------------
(***************************************************************************)
(* What a scan may believe of the data it is given, whatever came before   *)
(* it: outages, answers that lack what was asked for, crashes, alerts that *)
(* are or are not delivered.                                               *)
(*                                                                         *)
(* Candles.  An answer of a leg that counts forward from where it is asked *)
(* has, up to its newest bar, each bar or a row that did not validate.  It *)
(* is asked for from two bars before the newest stored one, and no other   *)
(* run of the same candles stores anything meanwhile: so what it brings    *)
(* joins what is there, and covers the newest stored bar again when it     *)
(* brings a newer one.                                                     *)
(*                                                                         *)
(* The calendar.  No time in the tables is newer than the fetch of events  *)
(* that were stored, for an answer without events leaves the health it     *)
(* hands over without a success.                                           *)
(***************************************************************************)
EXTENDS CandleIngest, CalendarSources, FoldLemmas

-----------------------------------------------------------------------------
\* Candles.

\* Every leg answers with the first bars from since on.
LegsCountForward == \A i \in DOMAIN Legs : ~Legs[i].newest

FetchShape ==
    [at : {"idle", "ask", "answered"}, leg : DOMAIN Legs, since : Int, count : Nat,
     bars : SUBSET Nat, bad : SUBSET Nat, forming : SUBSET Nat]

\* What is asked for goes on from what is stored, two bars back.
Overlaps(f) ==
    stored # {} => /\ f.count = Limit
                   /\ f.since + 2 \in stored
                   /\ \A c \in stored : c <= f.since + 2

\* An answer given while bar t was forming.
GivenAt(f, t) ==
    /\ t <= clock /\ f.forming = {t}
    /\ \A c \in stored : c < t
    /\ \A g \in Nat : f.since <= g /\ g < f.since + f.count /\ g < t => g \in f.bars \cup f.bad
    /\ \A g \in f.bars : g <= t /\ f.since <= g /\ g < f.since + f.count

Whole(f) == \E t \in Nat : GivenAt(f, t)

IngestInv ==
    /\ clock \in Nat
    /\ stored \in SUBSET Nat /\ \A c \in stored : c < clock
    /\ partial \subseteq stored
    /\ fetch \in FetchShape
    /\ fetch.at # "idle" => Overlaps(fetch)
    /\ fetch.at = "answered" => Whole(fetch)
    /\ PartialIsNewest

LEMMA LegsFact == DOMAIN Legs = 1..Len(Legs) /\ Len(Legs) \in Nat \ {0}
BY LegsAssumption

LEMMA NoFetchFact == NoFetch \in FetchShape /\ NoFetch.at = "idle"
<1>1. 1 \in DOMAIN Legs
  BY LegsFact
<1>. QED
  BY <1>1 DEF NoFetch, FetchShape

LEMMA IngestInitially == Init => IngestInv
BY NoFetchFact DEF Init, IngestInv, PartialIsNewest

\* The newest stored bar.
LEMMA LatestFact ==
    ASSUME IngestInv, stored # {}
    PROVE  Latest \in stored /\ \A c \in stored : c <= Latest
<1>1. clock \in Nat /\ stored \in SUBSET Nat /\ \A c \in stored : c < clock
  BY DEF IngestInv
<1>2. stored \in SUBSET (0..clock)
  BY <1>1
<1>3. IsFiniteSet(stored)
  <2>1. IsFiniteSet(0..clock)
    BY <1>1, FS_Interval
  <2>. QED
    BY <1>2, <2>1, FS_Subset
<1>4. Max(stored) \in stored /\ \A c \in stored : c <= Max(stored)
  BY <1>1, <1>3, MaxFact
<1>. QED
  BY <1>4 DEF Latest, IsLatest

LEMMA BeginInv ==
    ASSUME IngestInv, Begin
    PROVE  IngestInv'
<1>. DEFINE f == [NoFetch EXCEPT !.at = "ask", !.since = Since, !.count = Count]
<1>1. /\ fetch' = f /\ clock' = clock /\ stored' = stored /\ partial' = partial
      /\ skipped' = skipped
  BY DEF Begin
<1>2. stored # {} => Latest \in stored /\ \A c \in stored : c <= Latest
  BY LatestFact
<1>3. clock \in Nat /\ stored \in SUBSET Nat
  BY DEF IngestInv
<1>4. Since \in Int /\ Count \in Nat
  <2>1. Limit \in Nat /\ ColdLimit \in Nat
    BY LimitAssumption
  <2>2. CASE stored = {}
    BY <1>3, <2>1, <2>2 DEF Since, Count
  <2>3. CASE stored # {}
    <3>1. Latest \in Nat
      BY <1>2, <1>3, <2>3
    <3>2. Latest - 2 \in Int
      BY <3>1
    <3>. QED
      BY <2>1, <2>3, <3>2 DEF Since, Count
  <2>. QED
    BY <2>2, <2>3
<1>5. f \in FetchShape /\ f.at = "ask" /\ f.since = Since /\ f.count = Count
  BY <1>4, NoFetchFact DEF FetchShape
<1>. HIDE DEF f
<1>6. Overlaps(f)
  <2>. SUFFICES ASSUME stored # {}
                PROVE  /\ f.count = Limit /\ f.since + 2 \in stored
                       /\ \A c \in stored : c <= f.since + 2
    BY DEF Overlaps
  <2>1. f.since = Latest - 2 /\ f.count = Limit /\ Latest \in Nat
    BY <1>2, <1>3, <1>5 DEF Since, Count
  <2>2. f.since + 2 = Latest
    BY <2>1
  <2>. QED
    BY <1>2, <2>1, <2>2
<1>. QED
  BY <1>1, <1>5, <1>6 DEF IngestInv, Overlaps, PartialIsNewest, IsLatest

\* A step that leaves the tables alone, and the fetch as it is or gone.
LEMMA QuietStep ==
    ASSUME IngestInv, clock' \in Nat, clock <= clock', stored' = stored, partial' = partial,
           skipped' = skipped, fetch' = fetch \/ fetch' = NoFetch
    PROVE  IngestInv'
<1>1. /\ clock \in Nat /\ stored \in SUBSET Nat /\ \A c \in stored : c < clock
      /\ fetch \in FetchShape
  BY DEF IngestInv
<1>2. \A c \in stored : c < clock'
  BY <1>1
<1>3. PartialIsNewest'
  BY DEF IngestInv, PartialIsNewest, IsLatest
<1>4. CASE fetch' = NoFetch
  BY <1>1, <1>2, <1>3, <1>4, NoFetchFact DEF IngestInv
<1>5. CASE fetch' = fetch
  <2>1. ASSUME NEW t \in Nat, GivenAt(fetch, t)
        PROVE  GivenAt(fetch, t)'
    <3>1. t <= clock'
      BY <1>1, <2>1 DEF GivenAt
    <3>. QED
      BY <1>5, <2>1, <3>1 DEF GivenAt
  <2>2. Whole(fetch) => Whole(fetch)'
    BY <2>1 DEF Whole
  <2>3. Overlaps(fetch) => Overlaps(fetch)'
    BY <1>5 DEF Overlaps
  <2>. QED
    BY <1>1, <1>2, <1>3, <1>5, <2>2, <2>3 DEF IngestInv
<1>. QED
  BY <1>4, <1>5

LEMMA LegFailsInv ==
    ASSUME IngestInv, LegFails
    PROVE  IngestInv'
<1>1. /\ clock' = clock /\ stored' = stored /\ partial' = partial /\ skipped' = skipped
      /\ clock \in Nat
  BY DEF LegFails, IngestInv
<1>2. CASE ~ (fetch.leg < Len(Legs))
  BY <1>1, <1>2, QuietStep DEF LegFails
<1>3. CASE fetch.leg < Len(Legs)
  <2>. DEFINE f == [fetch EXCEPT !.leg = @ + 1]
  <2>1. fetch' = f /\ fetch.at = "ask" /\ fetch \in FetchShape /\ Overlaps(fetch)
    BY <1>3 DEF LegFails, IngestInv
  <2>2. fetch.leg + 1 \in DOMAIN Legs
    <3>1. fetch.leg \in DOMAIN Legs
      BY <2>1 DEF FetchShape
    <3>. QED
      BY <1>3, <3>1, LegsFact
  <2>3. f \in FetchShape /\ f.at = "ask" /\ f.since = fetch.since /\ f.count = fetch.count
    BY <2>1, <2>2 DEF FetchShape
  <2>. HIDE DEF f
  <2>4. Overlaps(f)
    BY <2>1, <2>3 DEF Overlaps
  <2>. QED
    BY <1>1, <2>1, <2>3, <2>4 DEF IngestInv, Overlaps, PartialIsNewest, IsLatest
<1>. QED
  BY <1>2, <1>3

LEMMA LegAnswersInv ==
    ASSUME LegsCountForward, IngestInv, NEW bad, LegAnswers(bad)
    PROVE  IngestInv'
<1>. DEFINE got == Delivered(Legs[fetch.leg])
            f == [fetch EXCEPT !.at = "answered", !.bars = got \ bad, !.bad = bad,
                               !.forming = {clock}]
<1>1. /\ fetch' = f /\ clock' = clock /\ stored' = stored /\ partial' = partial
      /\ skipped' = skipped /\ bad \subseteq got /\ fetch.at = "ask"
  BY DEF LegAnswers
<1>2. /\ fetch \in FetchShape /\ Overlaps(fetch) /\ clock \in Nat
      /\ \A c \in stored : c < clock
  BY <1>1 DEF IngestInv
<1>3. fetch.leg \in DOMAIN Legs /\ fetch.since \in Int /\ fetch.count \in Nat
  BY <1>2 DEF FetchShape
<1>4. ~Legs[fetch.leg].newest
  BY <1>3 DEF LegsCountForward
<1>5. /\ \A g \in got : g \in Nat /\ g <= clock
                         /\ fetch.since <= g /\ g < fetch.since + fetch.count
      /\ \A g \in Nat : fetch.since <= g /\ g < fetch.since + fetch.count /\ g < clock
                         => g \in got
  BY <1>2, <1>4 DEF Delivered, Counted
<1>. HIDE DEF got
<1>6. got \ bad \in SUBSET Nat /\ bad \in SUBSET Nat /\ {clock} \in SUBSET Nat
  BY <1>1, <1>2, <1>5
<1>7. /\ f \in FetchShape /\ f.at = "answered" /\ f.since = fetch.since
      /\ f.count = fetch.count /\ f.bars = got \ bad /\ f.bad = bad /\ f.forming = {clock}
  BY <1>2, <1>6 DEF FetchShape
<1>. HIDE DEF f
<1>8. f.bars \cup f.bad = got
  BY <1>1, <1>7
<1>9. GivenAt(f, clock)
  BY <1>2, <1>5, <1>7, <1>8 DEF GivenAt
<1>10. Whole(f)
  BY <1>2, <1>9 DEF Whole
<1>11. Overlaps(f)
  BY <1>2, <1>7 DEF Overlaps
<1>. QED
  BY <1>1, <1>7, <1>10, <1>11 DEF IngestInv, Overlaps, Whole, GivenAt, PartialIsNewest, IsLatest

\* What an answer stores.
LEMMA StoreFact ==
    ASSUME IngestInv, Store
    PROVE  \E t \in Nat : GivenAt(fetch, t)
                        /\ stored' = stored \cup Closed(fetch.bars)
                        /\ partial' = (partial \ Closed(fetch.bars)) \cup (Closed(fetch.bars) \cap {t})
                        /\ skipped' = (skipped \cup fetch.bad) \ Closed(fetch.bars)
                        /\ fetch' = NoFetch /\ clock' = clock
<1>1. PICK t \in Nat : GivenAt(fetch, t)
  BY DEF IngestInv, Whole, Store
<1>2. fetch.forming = {t}
  BY <1>1 DEF GivenAt
<1>. QED
  BY <1>1, <1>2 DEF Store

LEMMA StoreInv ==
    ASSUME IngestInv, Store
    PROVE  IngestInv'
<1>. DEFINE bars == Closed(fetch.bars)
<1>1. PICK t \in Nat : /\ GivenAt(fetch, t) /\ stored' = stored \cup bars
                       /\ partial' = (partial \ bars) \cup (bars \cap {t})
                       /\ skipped' = (skipped \cup fetch.bad) \ bars
                       /\ fetch' = NoFetch /\ clock' = clock
  BY StoreFact
<1>2. /\ clock \in Nat /\ stored \in SUBSET Nat /\ \A c \in stored : c < clock
      /\ partial \subseteq stored /\ fetch \in FetchShape /\ PartialIsNewest
      /\ Overlaps(fetch)
  BY DEF IngestInv, Store
<1>3. fetch.bars \in SUBSET Nat /\ fetch.since \in Int /\ fetch.count \in Nat
  BY <1>2 DEF FetchShape
<1>4. \A g : g \in bars <=> g \in fetch.bars /\ g < clock
  BY DEF Closed
<1>5. /\ \A c \in stored : c < t
      /\ \A g \in Nat : fetch.since <= g /\ g < fetch.since + fetch.count /\ g < t
                         => g \in fetch.bars \cup fetch.bad
      /\ \A g \in bars : g \in Nat /\ g <= t /\ g < clock
                         /\ fetch.since <= g /\ g < fetch.since + fetch.count
  BY <1>1, <1>3, <1>4 DEF GivenAt
<1>. HIDE DEF bars
<1>6. stored' \in SUBSET Nat /\ (\A c \in stored' : c < clock) /\ partial' \subseteq stored'
  BY <1>1, <1>2, <1>5
<1>7. ASSUME NEW b \in partial'
      PROVE  b \in skipped' \/ IsLatest(b, stored')
  <2>1. CASE b \in bars /\ b = t
    <3>1. \A c \in stored' : c <= t
      BY <1>1, <1>2, <1>5
    <3>. QED
      BY <1>1, <2>1, <3>1 DEF IsLatest
  <2>2. CASE b \in partial /\ b \notin bars
    <3>1. b \in stored /\ b \in Nat /\ (b \in skipped \/ IsLatest(b, stored))
      BY <1>2, <2>2 DEF PartialIsNewest
    <3>2. CASE b \in skipped
      BY <1>1, <2>2, <3>2
    <3>3. CASE IsLatest(b, stored)
      <4>1. \A c \in stored : c <= b
        BY <3>3 DEF IsLatest
      <4>2. CASE \A c \in bars : c <= b
        BY <1>1, <3>1, <4>1, <4>2 DEF IsLatest
      <4>3. CASE ~ \A c \in bars : c <= b
        <5>1. PICK c \in bars : ~ (c <= b)
          BY <4>3
        <5>2. c \in Nat /\ b < c /\ c <= t /\ c < clock /\ c < fetch.since + fetch.count
          BY <1>5, <3>1, <5>1
        <5>3. b = fetch.since + 2
          <6>1. fetch.since + 2 \in stored /\ b <= fetch.since + 2
            BY <1>2, <3>1 DEF Overlaps
          <6>2. fetch.since + 2 <= b
            BY <4>1, <6>1
          <6>. QED
            BY <1>3, <3>1, <6>1, <6>2
        <5>4. b \in fetch.bars \cup fetch.bad
          <6>1. fetch.since <= b /\ b < fetch.since + fetch.count /\ b < t
            BY <1>3, <3>1, <5>2, <5>3
          <6>. QED
            BY <1>5, <3>1, <6>1
        <5>5. b < clock
          BY <1>2, <3>1
        <5>. QED
          BY <1>1, <1>4, <2>2, <5>4, <5>5
      <4>. QED
        BY <4>2, <4>3
    <3>. QED
      BY <3>1, <3>2, <3>3
  <2>. QED
    BY <1>1, <1>7, <2>1, <2>2
<1>8. PartialIsNewest'
  BY <1>7 DEF PartialIsNewest, IsLatest
<1>. QED
  BY <1>1, <1>2, <1>6, <1>8, NoFetchFact DEF IngestInv

LEMMA IngestStep ==
    ASSUME LegsCountForward, IngestInv, [Next]_vars
    PROVE  IngestInv'
<1>1. clock \in Nat
  BY DEF IngestInv
<1>2. CASE SkipFetch \/ UNCHANGED vars
  BY <1>1, <1>2, QuietStep DEF SkipFetch, vars
<1>3. CASE Die
  BY <1>1, <1>3, QuietStep DEF Die
<1>4. CASE Tick
  <2>1. clock' \in Nat /\ clock <= clock'
    BY <1>1, <1>4 DEF Tick
  <2>. QED
    BY <1>4, <2>1, QuietStep DEF Tick
<1>. QED
  BY <1>2, <1>3, <1>4, BeginInv, LegFailsInv, LegAnswersInv, StoreInv DEF Next

LEMMA NoHoleStep ==
    ASSUME IngestInv, NoHole, [Next]_vars, Limit > 1
    PROVE  NoHole'
<1>1. CASE stored' = stored /\ skipped' = skipped
  BY <1>1 DEF NoHole
<1>2. CASE Store
  <2>. DEFINE bars == Closed(fetch.bars)
  <2>1. PICK t \in Nat : /\ GivenAt(fetch, t) /\ stored' = stored \cup bars
                         /\ skipped' = (skipped \cup fetch.bad) \ bars
    BY <1>2, StoreFact
  <2>2. /\ clock \in Nat /\ stored \in SUBSET Nat /\ fetch \in FetchShape /\ Overlaps(fetch)
        /\ \A c \in stored : c < clock
    BY <1>2 DEF IngestInv, Store
  <2>3. fetch.bars \in SUBSET Nat /\ fetch.since \in Int /\ fetch.count \in Nat /\ Limit \in Nat
    BY <2>2, LimitAssumption DEF FetchShape
  <2>4. \A g : g \in bars <=> g \in fetch.bars /\ g < clock
    BY DEF Closed
  <2>5. /\ \A c \in stored : c < t
        /\ \A g \in Nat : fetch.since <= g /\ g < fetch.since + fetch.count /\ g < t
                           => g \in fetch.bars \cup fetch.bad
        /\ \A g \in bars : g \in Nat /\ g <= t /\ g < clock
                           /\ fetch.since <= g /\ g < fetch.since + fetch.count
    BY <2>1, <2>3, <2>4 DEF GivenAt
  <2>. HIDE DEF bars
  <2>6. \A g : g \in stored \cup skipped => g \in stored' \cup skipped'
    BY <2>1
  \* What the answer brought or could not read.
  <2>7. ASSUME NEW g \in Nat, fetch.since <= g, g < fetch.since + fetch.count, g < t, g < clock
        PROVE  g \in stored' \cup skipped'
    BY <2>1, <2>4, <2>5, <2>7
  <2>8. ASSUME NEW b \in stored', NEW c \in stored', NEW g \in b..c
        PROVE  g \in stored' \cup skipped'
    <3>1. b \in Nat /\ c \in Nat /\ g \in Nat /\ b <= g /\ g <= c
      BY <2>1, <2>2, <2>5, <2>8
    <3>2. CASE g = c
      BY <3>2
    <3>3. CASE b \in stored /\ c \in stored
      BY <2>6, <3>3 DEF NoHole
    <3>4. CASE g # c /\ c \in bars /\ fetch.since <= g
      <4>1. c <= t /\ c < clock /\ c < fetch.since + fetch.count /\ g < c
        BY <2>5, <3>1, <3>4
      <4>2. g < t /\ g < clock /\ g < fetch.since + fetch.count
        BY <2>2, <2>3, <3>1, <4>1
      <4>. QED
        BY <2>7, <3>1, <3>4, <4>2
    <3>5. CASE c \in bars /\ ~ (fetch.since <= g)
      <4>1. b \notin bars /\ b \in stored
        BY <2>1, <2>3, <2>5, <3>1, <3>5
      <4>2. fetch.since + 2 \in stored /\ g \in b..(fetch.since + 2)
        BY <2>2, <2>3, <3>1, <3>5, <4>1 DEF Overlaps
      <4>. QED
        BY <2>6, <4>1, <4>2 DEF NoHole
    <3>6. CASE g # c /\ b \in bars /\ c \in stored
      <4>1. fetch.count = Limit /\ c <= fetch.since + 2 /\ c < t /\ c < clock
        BY <2>2, <2>5, <3>6 DEF Overlaps
      <4>2. fetch.since <= g
        BY <2>3, <2>5, <3>1, <3>6
      <4>3. g < fetch.since + fetch.count
        BY <2>3, <3>1, <3>6, <4>1
      <4>. QED
        BY <2>2, <2>7, <3>1, <3>6, <4>1, <4>2, <4>3
    <3>. QED
      BY <2>1, <2>8, <3>2, <3>3, <3>4, <3>5, <3>6
  <2>. QED
    BY <2>8 DEF NoHole
<1>. QED
  BY <1>1, <1>2 DEF Next, Begin, SkipFetch, LegFails, LegAnswers, Die, Tick, vars

\* What is being asked for, and what was answered, joins what is stored
\* (_ingest_incremental).
THEOREM IngestInvariance ==
    ASSUME LegsCountForward
    PROVE  Spec => []IngestInv
<1>1. Init => IngestInv
  BY IngestInitially
<1>2. IngestInv /\ [Next]_vars => IngestInv'
  BY IngestStep
<1>. QED
  BY <1>1, <1>2, PTL DEF Spec

\* scan.py:230: the overlap of two bars repairs what was stored before it had closed,
\* for every outage and every number of bars that is asked for, with legs that count
\* forward.
THEOREM OverlapRepairs ==
    ASSUME LegsCountForward
    PROVE  Spec => []PartialIsNewest
<1>1. IngestInv => PartialIsNewest
  BY DEF IngestInv
<1>. QED
  BY <1>1, IngestInvariance, PTL

\* scan.py:212: nothing is lost to an outage, with legs that count forward and a limit
\* that reaches beyond the overlap.
THEOREM NothingIsLost ==
    ASSUME LegsCountForward, Limit > 1
    PROVE  Spec => []NoHole
<1>1. Init => NoHole
  BY DEF Init, NoHole
<1>2. IngestInv /\ NoHole /\ [Next]_vars => NoHole'
  BY NoHoleStep
<1>. QED
  BY <1>1, <1>2, IngestInvariance, PTL DEF Spec

-----------------------------------------------------------------------------
\* The calendar.

Positions == 1..Len(Sources)
Times == [Names -> Nat]
SyncShape ==
    [at : {"idle", "fallback", "ask", "recovered", "empty", "outage", "failing", "store"},
     i : Positions, failed : SUBSET Names, empty : SUBSET Names, success : Times, events : Nat]

\* The health that a sync hands over has a success only if it has events, and then one
\* of their time.
Hands(s) ==
    /\ \A n \in Names : s.success[n] # Never => s.events # Never
    /\ s.events # Never => \E n \in Names : s.success[n] = s.events

\* No stored time is newer than the fetch of events that were stored.
NotNewer ==
    /\ \A n \in Names : lastSuccess[n] <= verified[n]
    /\ fetchedAt # Never => \E n \in Names : fetchedAt <= verified[n]

CalendarInv ==
    /\ now \in Nat \ {0} /\ fetchedAt \in Nat
    /\ lastSuccess \in Times /\ verified \in Times
    /\ sync \in SyncShape /\ Hands(sync)
    /\ NotNewer

LEMMA SourcesFact ==
    /\ Len(Sources) \in Nat \ {0} /\ DOMAIN Sources = Positions
    /\ \A i \in Positions : Sources[i] \in Names
    /\ IsFiniteSet(Names) /\ Names # {}
<1>1. Len(Sources) \in Nat \ {0} /\ DOMAIN Sources = Positions
  BY SourcesAssumption DEF Positions
<1>2. 1 \in Positions
  BY <1>1 DEF Positions
<1>3. IsFiniteSet(Positions)
  BY <1>1, FS_Interval DEF Positions
<1>4. IsFiniteSet({Sources[i] : i \in Positions})
  <2>1. Sources \in [Positions -> SourceNames]
    BY <1>1, SourcesAssumption
  <2>. QED
    BY <1>3, <2>1, ImageIsFinite
<1>5. Names = {Sources[i] : i \in Positions}
  BY <1>1 DEF Names
<1>. QED
  BY <1>1, <1>2, <1>4, <1>5

LEMMA IdleSync == Idle \in SyncShape /\ Hands(Idle)
<1>1. Clean \in Times /\ \A n \in Names : Clean[n] = Never
  BY DEF Clean, Times, Never
<1>2. 1 \in Positions /\ Never \in Nat
  BY SourcesFact DEF Positions, Never
<1>3. /\ Idle \in SyncShape /\ Idle.success = Clean /\ Idle.events = Never
  BY <1>1, <1>2 DEF Idle, SyncShape
<1>. QED
  BY <1>1, <1>3 DEF Hands

LEMMA CalendarInitially == CalendarInit => CalendarInv
<1>1. Clean \in Times /\ \A n \in Names : Clean[n] = Never
  BY DEF Clean, Times, Never
<1>. QED
  BY <1>1, IdleSync DEF CalendarInit, CalendarInv, NotNewer, Never

\* A step that leaves the tables alone.
LEMMA TablesKept ==
    ASSUME CalendarInv, UNCHANGED <<tables, verified>>, now' \in Nat \ {0},
           sync' \in SyncShape, Hands(sync')
    PROVE  CalendarInv'
<1>1. Hands(sync)'
  BY DEF Hands
<1>. QED
  BY <1>1 DEF CalendarInv, NotNewer, tables

\* The next source is asked, or none is left.
LEMMA NextSourceFact ==
    ASSUME NEW s \in SyncShape, Hands(s)
    PROVE  NextSource(s) \in SyncShape /\ Hands(NextSource(s))
<1>. DEFINE j == IF s.i < Len(Sources) THEN s.i + 1 ELSE s.i
            a == IF s.at = "ask" /\ sync.i = Len(Sources)
                 THEN IF s.empty = {} THEN "outage" ELSE "empty"
                 ELSE IF s.failed = {} THEN "ask" ELSE "fallback"
            n == [s EXCEPT !.i = j, !.at = a]
<1>1. j \in Positions
  BY SourcesFact DEF SyncShape, Positions
<1>2. a \in {"outage", "empty", "ask", "fallback"}
  OBVIOUS
<1>3. NextSource(s) = n
  BY DEF NextSource
<1>. HIDE DEF j, a
<1>4. n \in SyncShape /\ n.success = s.success /\ n.events = s.events
  BY <1>1, <1>2 DEF SyncShape
<1>. QED
  BY <1>3, <1>4 DEF Hands

\* Steps in which the sync only moves on.
LEMMA MovesOn ==
    ASSUME CalendarInv, NEW at \in {"ask", "store", "failing"}, sync' = [sync EXCEPT !.at = at],
           UNCHANGED <<now, tables, verified>>
    PROVE  CalendarInv'
<1>1. sync \in SyncShape /\ Hands(sync) /\ now \in Nat \ {0}
  BY DEF CalendarInv
<1>2. sync' \in SyncShape /\ sync'.success = sync.success /\ sync'.events = sync.events
  BY <1>1 DEF SyncShape
<1>3. Hands(sync')
  BY <1>1, <1>2 DEF Hands
<1>. QED
  BY <1>1, <1>2, <1>3, TablesKept

LEMMA AskedInv ==
    ASSUME CalendarInv, SourceFails \/ SourceEmpty \/ SourceAnswers
    PROVE  CalendarInv'
<1>. DEFINE name == Sources[sync.i]
<1>1. /\ sync \in SyncShape /\ Hands(sync) /\ now \in Nat \ {0}
      /\ now' = now /\ UNCHANGED <<tables, verified>>
  BY DEF CalendarInv, SourceFails, SourceEmpty, SourceAnswers
<1>2. name \in Names
  BY <1>1, SourcesFact DEF SyncShape
<1>. HIDE DEF name
<1>3. CASE SourceFails
  <2>. DEFINE s == [sync EXCEPT !.failed = @ \cup {name}]
  <2>1. s \in SyncShape /\ s.success = sync.success /\ s.events = sync.events
    BY <1>1, <1>2 DEF SyncShape
  <2>2. sync' = NextSource(s)
    BY <1>3 DEF SourceFails, name
  <2>. HIDE DEF s
  <2>3. Hands(s)
    BY <1>1, <2>1 DEF Hands
  <2>. QED
    BY <1>1, <2>1, <2>2, <2>3, NextSourceFact, TablesKept
<1>4. CASE SourceEmpty
  <2>. DEFINE s == [sync EXCEPT !.empty = @ \cup {name}]
  <2>1. s \in SyncShape /\ s.success = sync.success /\ s.events = sync.events
    BY <1>1, <1>2 DEF SyncShape
  <2>2. sync' = NextSource(s)
    BY <1>4 DEF SourceEmpty, name
  <2>. HIDE DEF s
  <2>3. Hands(s)
    BY <1>1, <2>1 DEF Hands
  <2>. QED
    BY <1>1, <2>1, <2>2, <2>3, NextSourceFact, TablesKept
<1>5. CASE SourceAnswers
  <2>. DEFINE given == [sync.success EXCEPT ![name] = now]
              at == IF sync.failed = {} THEN "store" ELSE "recovered"
              s == [sync EXCEPT !.success = given, !.events = now, !.at = at]
  <2>1. /\ given \in Times /\ given[name] = now
        /\ at \in {"store", "recovered"}
    BY <1>1, <1>2 DEF SyncShape, Times
  <2>2. sync' = s
    BY <1>1, <1>5 DEF SourceAnswers, name, SyncShape
  <2>. HIDE DEF given, at
  <2>3. s \in SyncShape /\ s.success = given /\ s.events = now
    BY <1>1, <2>1 DEF SyncShape
  <2>. HIDE DEF s
  <2>4. Hands(s)
    BY <1>1, <1>2, <2>1, <2>3 DEF Hands, Never
  <2>. QED
    BY <1>1, <2>2, <2>3, <2>4, TablesKept
<1>. QED
  BY <1>3, <1>4, <1>5

LEMMA StoreEventsInv ==
    ASSUME CalendarInv, StoreEvents
    PROVE  CalendarInv'
<1>1. /\ sync \in SyncShape /\ Hands(sync) /\ now' = now /\ now \in Nat \ {0} /\ sync' = Idle
      /\ lastSuccess' = sync.success
      /\ fetchedAt' = IF sync.events # Never THEN sync.events ELSE fetchedAt
      /\ verified' = [n \in Names |-> IF sync.events # Never /\ sync.success[n] # Never
                                       THEN sync.success[n] ELSE verified[n]]
      /\ verified \in Times /\ fetchedAt \in Nat /\ NotNewer
  BY DEF CalendarInv, StoreEvents
<1>2. sync.success \in Times /\ sync.events \in Nat
  BY <1>1 DEF SyncShape
<1>3. \A n \in Names : sync.success[n] \in Nat /\ verified[n] \in Nat
  BY <1>1, <1>2 DEF Times
<1>4. verified' \in Times /\ fetchedAt' \in Nat
  BY <1>1, <1>2, <1>3 DEF Times
<1>5. ASSUME NEW n \in Names
      PROVE  lastSuccess'[n] <= verified'[n]
  <2>1. sync.success[n] # Never => verified'[n] = sync.success[n]
    BY <1>1 DEF Hands
  <2>2. sync.success[n] = Never => verified'[n] = verified[n]
    BY <1>1
  <2>. QED
    BY <1>1, <1>3, <2>1, <2>2 DEF Never
<1>6. ASSUME fetchedAt' # Never
      PROVE  \E n \in Names : fetchedAt' <= verified'[n]
  <2>1. CASE sync.events # Never
    <3>1. PICK n \in Names : sync.success[n] = sync.events
      BY <1>1, <2>1 DEF Hands
    <3>. QED
      BY <1>1, <1>2, <2>1, <3>1
  <2>2. CASE sync.events = Never
    BY <1>1, <1>6, <2>2 DEF NotNewer
  <2>. QED
    BY <2>1, <2>2
<1>7. NotNewer'
  BY <1>5, <1>6 DEF NotNewer
<1>8. sync' \in SyncShape /\ Hands(sync)'
  BY <1>1, IdleSync DEF Hands
<1>. QED
  BY <1>1, <1>2, <1>4, <1>7, <1>8 DEF CalendarInv

LEMMA CalendarStep ==
    ASSUME CalendarInv, [CalendarNext]_calendarVars
    PROVE  CalendarInv'
<1>1. sync \in SyncShape /\ Hands(sync) /\ now \in Nat \ {0}
  BY DEF CalendarInv
<1>2. CASE BeginSync
  <2>. DEFINE s == [Idle EXCEPT !.at = "ask"]
  <2>1. s \in SyncShape /\ s.success = Idle.success /\ s.events = Idle.events
    BY IdleSync DEF SyncShape
  <2>2. sync' = s /\ now' = now /\ UNCHANGED <<tables, verified>>
    BY <1>2 DEF BeginSync
  <2>. HIDE DEF s
  <2>3. Hands(s)
    BY <2>1, IdleSync DEF Hands
  <2>. QED
    BY <1>1, <2>1, <2>2, <2>3, TablesKept
<1>3. CASE Fallback \/ Recovered \/ AllEmpty \/ Outage
  <2>1. UNCHANGED <<now, tables, verified>>
    BY <1>3 DEF Fallback, Recovered, AllEmpty, Outage
  <2>2. \E at \in {"ask", "store", "failing"} : sync' = [sync EXCEPT !.at = at]
    BY <1>3 DEF Fallback, Recovered, AllEmpty, Outage
  <2>. QED
    BY <2>1, <2>2, MovesOn
<1>4. CASE JobFails \/ SyncDies
  <2>1. sync' = Idle /\ now' = now /\ UNCHANGED <<tables, verified>>
    BY <1>4 DEF JobFails, SyncDies
  <2>. QED
    BY <1>1, <2>1, IdleSync, TablesKept
<1>5. CASE CalendarTick \/ UNCHANGED calendarVars
  <2>1. /\ sync' = sync /\ UNCHANGED <<tables, verified>> /\ now' \in Nat \ {0}
    BY <1>1, <1>5 DEF CalendarTick, calendarVars, tables
  <2>. QED
    BY <1>1, <2>1, TablesKept
<1>. QED
  BY <1>2, <1>3, <1>4, <1>5, AskedInv, StoreEventsInv DEF CalendarNext

\* A scan that sees the calendar fresh sees it by a time that is not newer than the
\* newest fetch.
LEMMA FreshIsVerified ==
    ASSUME CalendarInv
    PROVE  FailsClosed
<1>. DEFINE L == {lastSuccess[n] : n \in Names}
            V == {verified[n] : n \in Names}
<1>1. /\ lastSuccess \in Times /\ verified \in Times /\ NotNewer
      /\ now \in Nat /\ fetchedAt \in Nat
  BY DEF CalendarInv
<1>2. IsFiniteSet(L) /\ IsFiniteSet(V)
  <2>1. lastSuccess \in [Names -> Nat] /\ verified \in [Names -> Nat]
    BY <1>1 DEF Times
  <2>. QED
    BY <2>1, SourcesFact, ImageIsFinite
<1>3. L \in SUBSET Int /\ V \in SUBSET Int /\ L # {} /\ V # {}
  BY <1>1, SourcesFact DEF Times
<1>4. Max(L) \in L /\ Max(V) \in V /\ \A v \in V : v <= Max(V)
  <2>. HIDE DEF L, V
  <2>. QED
    BY <1>2, <1>3, MaxFact
<1>5. Verified = Max(V)
  BY DEF Verified
<1>6. /\ Verified \in Nat /\ \A n \in Names : verified[n] <= Verified /\ verified[n] \in Nat
      /\ \A n \in Names : lastSuccess[n] \in Nat
  BY <1>1, <1>4, <1>5 DEF Times
<1>7. CalendarTs = IF Max(L) # Never THEN Max(L) ELSE fetchedAt
  BY DEF CalendarTs
<1>8. PICK m \in Names : Max(L) = lastSuccess[m]
  BY <1>4
<1>. HIDE DEF L, V
<1>9. CalendarTs # Never => CalendarTs \in Nat /\ \E n \in Names : CalendarTs <= verified[n]
  <2>1. CASE Max(L) # Never
    BY <1>1, <1>6, <1>7, <1>8, <2>1 DEF NotNewer
  <2>2. CASE Max(L) = Never
    BY <1>1, <1>7, <2>2 DEF NotNewer
  <2>. QED
    BY <2>1, <2>2
<1>10. SUFFICES ASSUME CalendarTs # Never, ~ (now - CalendarTs > StaleAfter)
                PROVE  Verified # Never /\ now - Verified <= StaleAfter
  BY DEF FailsClosed, Stale
<1>11. StaleAfter \in Nat
  BY TimesAssumption
<1>12. CalendarTs \in Nat /\ CalendarTs <= Verified
  BY <1>6, <1>9, <1>10
<1>. QED
  BY <1>1, <1>6, <1>10, <1>11, <1>12 DEF Never

\* sync_calendar's tables never claim a fetch that did not bring events.
THEOREM CalendarInvariance == CalendarSpec => []CalendarInv
<1>1. CalendarInit => CalendarInv
  BY CalendarInitially
<1>2. CalendarInv /\ [CalendarNext]_calendarVars => CalendarInv'
  BY CalendarStep
<1>. QED
  BY <1>1, <1>2, PTL DEF CalendarSpec

\* composite_calendar.py:24: a scan that sees the calendar fresh has events that were
\* fetched and stored within the staleness window, for any list of sources, window and
\* order of failures, empty answers and crashes.
THEOREM GateFailsClosed == CalendarSpec => []FailsClosed
<1>1. CalendarInv => FailsClosed
  BY FreshIsVerified
<1>. QED
  BY <1>1, CalendarInvariance, PTL
=============================================================================
