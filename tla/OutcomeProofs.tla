---------------------------- MODULE OutcomeProofs ----------------------------
(***************************************************************************)
(* What becomes of a trade, and of a strategy by its trades.               *)
(*                                                                         *)
(* The paper tracker, for every trade, every price path and every split of *)
(* the bars between its runs.  A run replays bars it read a while ago and  *)
(* commits later, when more bars have closed and the row has been written  *)
(* by somebody else.  The invariant therefore says of the update a run     *)
(* carries what it says of the committed row: it is Supported by the bars  *)
(* there are now.  Bars are only appended, so the first bar that touches   *)
(* the order stays the first and what is Supported stays so.               *)
(*                                                                         *)
(* The smart exit, for every risk, target, trail and reach of the bars.    *)
(* ExitInv is inductive: the type invariant, which ties the break-even     *)
(* flag to the stop, and the bounds on a closed trade.  The assumption     *)
(* BreakevenAt <= TrailAt is needed: with a trail that starts before       *)
(* break-even, break-even would pull a trailed stop back to entry.         *)
(*                                                                         *)
(* The guards on a strategy's own results, for every number of scans and   *)
(* outcomes.  A run that read the newest outcomes judges them from behind, *)
(* so that a window is lost for it when it is lost in the table needs that *)
(* a sum does not depend on its order (SumReversed).                       *)
(***************************************************************************)
EXTENDS BacktestReplay, SmartExit, RiskGuards, FoldLemmas, SequenceTheorems

-----------------------------------------------------------------------------
\* One replay.

\* What a status at bar `at' says about the bars: somebody was filled, and a take
\* profit was reached before any stop loss.
Supported(t, bs, status, at) ==
    /\ status \in Resolved \cup {"FILLED"} => Fills(t, bs) # {}
    /\ status = "TP_HIT" =>
        \A i \in Min(Fills(t, bs)) .. at : SlHit(t, bs[i]) => Crypto /\ i = at

\* The fills of an order are bar numbers.
LEMMA FillsFact ==
    ASSUME NEW t \in Trades, NEW bs \in Seq(Bars)
    PROVE  /\ Fills(t, bs) \in SUBSET Nat /\ Fills(t, bs) \subseteq 1 .. Len(bs)
           /\ Fills(t, bs) # {} =>
                /\ Min(Fills(t, bs)) \in 1 .. Len(bs)
                /\ \A k \in Fills(t, bs) : Min(Fills(t, bs)) <= k
<1>1. Fills(t, bs) \subseteq 1 .. Len(bs) /\ Fills(t, bs) \in SUBSET Nat
  BY DEF Fills
<1>. QED
  BY <1>1, MinFact

\* So are the bars that end it, whatever bar it was filled on.
LEMMA EndsFact ==
    ASSUME NEW t \in Trades, NEW bs \in Seq(Bars), NEW fill \in Nat, Ends(t, bs, fill) # {}
    PROVE  LET at == Min(Ends(t, bs, fill))
           IN  /\ at \in Ends(t, bs, fill) /\ at \in 1 .. Len(bs) /\ fill <= at
               /\ \A i \in fill .. (at - 1) : i # 0 => ~ SlHit(t, bs[i])
<1>. DEFINE E == Ends(t, bs, fill)
            at == Min(E)
<1>1. E \in SUBSET Nat /\ E \subseteq 1 .. Len(bs) /\ \A i \in E : fill <= i
  BY DEF Ends
<1>2. at \in E /\ \A k \in E : at <= k
  BY <1>1, MinFact
<1>3. ASSUME NEW i \in fill .. (at - 1), i # 0, SlHit(t, bs[i])
      PROVE  FALSE
  <2>1. i \in Nat /\ i \in 1 .. Len(bs) /\ fill <= i /\ i < at
    BY <1>1, <1>2, <1>3
  <2>2. i \in E
    BY <1>3, <2>1 DEF Ends
  <2>3. at <= i
    BY <1>2, <2>2
  <2>4. at \in Nat
    BY <1>1, <1>2
  <2>. HIDE DEF at
  <2>. QED
    BY <2>1, <2>3, <2>4
<1>. QED
  BY <1>1, <1>2, <1>3

\* An outcome is the stop loss or the take profit of the first bar that ends the
\* trade.  A take profit is Supported: no bar from the fill on touched the stop.
LEMMA OutcomeSupported ==
    ASSUME NEW t \in Trades, NEW bs \in Seq(Bars), NEW fill \in Nat,
           Fills(t, bs) # {}, fill <= Min(Fills(t, bs)), Ends(t, bs, fill) # {}
    PROVE  LET out == Outcome(t, bs, Min(Ends(t, bs, fill)))
           IN  /\ out.status \in Resolved /\ out.at \in 1 .. Len(bs)
               /\ Supported(t, bs, out.status, out.at)
               /\ Crypto => Supported(t, bs, "TP_HIT", out.at)
<1>. DEFINE at == Min(Ends(t, bs, fill))
            out == Outcome(t, bs, at)
<1>1. at \in 1 .. Len(bs) /\ \A i \in fill .. (at - 1) : i # 0 => ~ SlHit(t, bs[i])
  BY EndsFact
<1>2. Min(Fills(t, bs)) \in 1 .. Len(bs)
  BY FillsFact
<1>3. \A i \in Min(Fills(t, bs)) .. at : SlHit(t, bs[i]) => i = at
  BY <1>1, <1>2
<1>4. out.status \in Resolved /\ out.at = at
  BY DEF Outcome, Resolved
<1>5. out.status = "TP_HIT" => ~ SlHit(t, bs[at])
  BY DEF Outcome
<1>6. Supported(t, bs, out.status, out.at)
  BY <1>3, <1>4, <1>5 DEF Supported
<1>7. Crypto => Supported(t, bs, "TP_HIT", out.at)
  BY <1>3, <1>4 DEF Supported
<1>. QED
  BY <1>1, <1>4, <1>6, <1>7

\* What replay_signal answers a run that reads a PUBLISHED or a FILLED row: an
\* update of a later status, of a bar that has closed, and Supported.
LEMMA ReplaySupported ==
    ASSUME NEW t \in Trades, NEW bs \in Seq(Bars), NEW filled \in BOOLEAN,
           filled => Fills(t, bs) # {}, Replay(t, filled, bs).status # "none"
    PROVE  LET up == Replay(t, filled, bs)
           IN  /\ up.status \in Resolved \cup {"EXPIRED", "FILLED"}
               /\ up.at \in 0 .. Len(bs)
               /\ Supported(t, bs, up.status, up.at)
               /\ Crypto /\ up.status = "SL_HIT" => Supported(t, bs, "TP_HIT", up.at)
<1>. DEFINE up    == Replay(t, filled, bs)
            first == Min(Fills(t, bs))
            fill  == IF filled THEN 0 ELSE first
<1>1. t.validUntil \in Nat /\ Len(bs) \in Nat
  BY TradesAssumption
<1>2. CASE ~ filled /\ Fills(t, bs) = {}
  <2>1. Len(bs) > t.validUntil /\ up = [status |-> "EXPIRED", at |-> t.validUntil + 1]
    BY <1>2 DEF Replay, NoUpdate
  <2>2. Supported(t, bs, "EXPIRED", up.at)
    BY DEF Supported, Resolved
  <2>. QED
    BY <1>1, <2>1, <2>2
<1>3. CASE Fills(t, bs) # {}
  <2>1. first \in 1 .. Len(bs) /\ fill \in Nat /\ fill <= first
    BY <1>3, FillsFact
  <2>2. CASE Ends(t, bs, fill) # {}
    <3>1. up = Outcome(t, bs, Min(Ends(t, bs, fill)))
      BY <1>3, <2>2 DEF Replay
    <3>. HIDE DEF fill
    <3>2. /\ up.status \in Resolved /\ up.at \in 1 .. Len(bs)
          /\ Supported(t, bs, up.status, up.at)
          /\ Crypto => Supported(t, bs, "TP_HIT", up.at)
      BY <1>3, <2>1, <2>2, <3>1, OutcomeSupported
    <3>. QED
      BY <3>2
  <2>3. CASE Ends(t, bs, fill) = {}
    <3>1. up = [status |-> "FILLED", at |-> first]
      BY <1>3, <2>3 DEF Replay, NoUpdate
    <3>2. Supported(t, bs, "FILLED", first)
      BY <1>3 DEF Supported
    <3>. QED
      BY <2>1, <3>1, <3>2
  <2>. QED
    BY <2>2, <2>3
<1>. QED
  BY <1>2, <1>3

\* A later bar changes neither the first fill nor what is Supported.
LEMMA SupportedKept ==
    ASSUME NEW t \in Trades, NEW bs \in Seq(Bars), NEW bar \in Bars,
           NEW status, NEW at \in 0 .. Len(bs), Supported(t, bs, status, at)
    PROVE  Supported(t, Append(bs, bar), status, at)
<1>. DEFINE more == Append(bs, bar)
<1>1. /\ more \in Seq(Bars) /\ Len(more) = Len(bs) + 1 /\ Len(bs) \in Nat
      /\ \A i \in 1 .. Len(bs) : more[i] = bs[i]
  OBVIOUS
<1>2. DOMAIN bs = 1 .. Len(bs) /\ DOMAIN more = 1 .. Len(more)
  BY <1>1
<1>. HIDE DEF more
<1>3. Fills(t, bs) \subseteq Fills(t, more)
  BY <1>1, <1>2 DEF Fills
<1>4. ASSUME Fills(t, bs) # {}
      PROVE  Min(Fills(t, more)) = Min(Fills(t, bs))
  <2>. DEFINE first == Min(Fills(t, bs))
  <2>1. first \in Fills(t, bs) /\ first \in 1 .. Len(bs) /\ \A k \in Fills(t, bs) : first <= k
    BY <1>4, FillsFact, MinFact
  <2>. HIDE DEF first
  <2>2. \A k \in Fills(t, more) : k \in Fills(t, bs) \/ k = Len(bs) + 1
    BY <1>1, <1>2 DEF Fills
  <2>3. \A k \in Fills(t, more) : first <= k
    BY <1>1, <2>1, <2>2
  <2>4. first \in Fills(t, more) /\ Fills(t, more) \in SUBSET Nat
    BY <1>1, <1>3, <2>1, FillsFact
  <2>5. Min(Fills(t, more)) = first
    BY <2>3, <2>4, MinUnique
  <2>. QED
    BY <2>5 DEF first
<1>5. status \in Resolved \cup {"FILLED"} => Fills(t, more) # {}
  BY <1>3 DEF Supported
<1>6. ASSUME status = "TP_HIT"
      PROVE  \A i \in Min(Fills(t, more)) .. at : SlHit(t, more[i]) => Crypto /\ i = at
  <2>1. Fills(t, bs) # {}
    BY <1>6 DEF Supported, Resolved
  <2>2. Min(Fills(t, more)) = Min(Fills(t, bs)) /\ Min(Fills(t, bs)) \in 1 .. Len(bs)
    BY <1>4, <2>1, FillsFact
  <2>3. \A i \in Min(Fills(t, bs)) .. at : more[i] = bs[i]
    BY <1>1, <2>2
  <2>. QED
    BY <1>6, <2>2, <2>3 DEF Supported
<1>. QED
  BY <1>5, <1>6 DEF Supported, more

-----------------------------------------------------------------------------
\* The tracker and the delivery transaction.

\* The update a run carries between its read and its COMMIT.
Updates == [status : Resolved \cup {"EXPIRED", "FILLED"}, at : 0 .. Len(bars)]

Shapes ==
    /\ row \in [status : Open \cup Resolved \cup {"EXPIRED"}, at : 0 .. Len(bars),
                payload : SUBSET Key]
    /\ track \in [stage : {"idle", "read", "written"}, payload : SUBSET Key,
                  update : Updates \cup {NoUpdate}]
    /\ mark \in [stage : {"due", "read", "written", "done"}, payload : SUBSET Key]

\* A run that carries an update has read a row that was still open, and it still is:
\* only a run of the tracker writes the status.
Carried ==
    track.stage # "idle" =>
        /\ row.status \in Open
        /\ track.update \in Updates
        /\ Supported(trade, bars, track.update.status, track.update.at)

\* The inductive invariant.
PaperInv ==
    /\ trade \in Trades /\ bars \in Seq(Bars)
    /\ Shapes
    /\ Supported(trade, bars, row.status, row.at)
    /\ Carried

LEMMA PaperInit ==
    ASSUME Init
    PROVE  PaperInv
BY DEF Init, PaperInv, Shapes, Carried, Supported, NoTrack, NoUpdate, Open, Resolved, Key

\* A bar closes: what is Supported stays so.
LEMMA NewBarStep ==
    ASSUME PaperInv, NEW bar \in Bars, NewBar(bar)
    PROVE  PaperInv'
<1>1. /\ trade \in Trades /\ bars \in Seq(Bars) /\ bars' = Append(bars, bar)
      /\ trade' = trade /\ row' = row /\ track' = track /\ mark' = mark
  BY DEF PaperInv, NewBar
<1>2. bars' \in Seq(Bars) /\ Len(bars') = Len(bars) + 1 /\ Len(bars) \in Nat
  BY <1>1
<1>3. Shapes'
  BY <1>1, <1>2 DEF PaperInv, Shapes, Updates
<1>4. Supported(trade, bars, row.status, row.at)'
  <2>1. row.at \in 0 .. Len(bars) /\ Supported(trade, bars, row.status, row.at)
    BY DEF PaperInv, Shapes
  <2>2. Supported(trade, bars', row.status, row.at)
    BY <1>1, <2>1, SupportedKept
  <2>. QED
    BY <1>1, <2>2
<1>5. Carried'
  <2>. SUFFICES ASSUME track.stage # "idle"
                PROVE  /\ row.status \in Open
                       /\ track.update \in Updates'
                       /\ Supported(trade, bars', track.update.status, track.update.at)
    BY <1>1 DEF Carried
  <2>1. /\ row.status \in Open /\ track.update \in Updates
        /\ Supported(trade, bars, track.update.status, track.update.at)
    BY DEF PaperInv, Carried
  <2>2. track.update.at \in 0 .. Len(bars) /\ track.update \in Updates'
    BY <1>2, <2>1 DEF Updates
  <2>3. Supported(trade, bars', track.update.status, track.update.at)
    BY <1>1, <2>1, <2>2, SupportedKept
  <2>. QED
    BY <2>1, <2>2, <2>3
<1>. QED
  BY <1>1, <1>2, <1>3, <1>4, <1>5 DEF PaperInv

\* A run reads: its update is Supported, with the minute bars or without them.
LEMMA TrackReadStep ==
    ASSUME PaperInv, NEW minutes \in Minutes, TrackRead(minutes)
    PROVE  PaperInv'
<1>. DEFINE filled == row.status = "FILLED"
            up     == Replay(trade, filled, bars)
            res    == MinuteResolved(up, minutes)
<1>1. /\ trade \in Trades /\ bars \in Seq(Bars)
      /\ row.status \in Open /\ up.status # "none"
      /\ track' = [stage |-> "read", payload |-> row.payload, update |-> res]
      /\ trade' = trade /\ bars' = bars /\ row' = row /\ mark' = mark
  BY DEF PaperInv, TrackRead
<1>2. filled \in BOOLEAN /\ (filled => Fills(trade, bars) # {})
  BY DEF PaperInv, Supported
<1>. HIDE DEF filled
<1>3. /\ up.status \in Resolved \cup {"EXPIRED", "FILLED"} /\ up.at \in 0 .. Len(bars)
      /\ Supported(trade, bars, up.status, up.at)
      /\ Crypto /\ up.status = "SL_HIT" => Supported(trade, bars, "TP_HIT", up.at)
  BY <1>1, <1>2, ReplaySupported
<1>4. up \in Updates
  BY <1>3 DEF Updates, Replay, Outcome, NoUpdate
<1>. HIDE DEF up
<1>5. FirstHit(trade, minutes) \in {"SL_HIT", "TP_HIT"}
  BY DEF FirstHit
<1>6. res \in Updates /\ Supported(trade, bars, res.status, res.at)
  <2>1. CASE res = up
    BY <1>3, <1>4, <2>1
  <2>2. CASE Crypto /\ up.status = "SL_HIT" /\ res = [up EXCEPT !.status = FirstHit(trade, minutes)]
    <3>1. res \in Updates /\ res.at = up.at /\ res.status \in {"SL_HIT", "TP_HIT"}
      BY <1>4, <1>5, <2>2 DEF Updates, Resolved
    <3>2. Supported(trade, bars, "SL_HIT", up.at) /\ Supported(trade, bars, "TP_HIT", up.at)
      BY <1>3, <2>2
    <3>. QED
      BY <3>1, <3>2
  <2>. QED
    BY <2>1, <2>2 DEF MinuteResolved
<1>. HIDE DEF res
<1>7. Shapes'
  BY <1>1, <1>6 DEF PaperInv, Shapes, Updates
<1>8. Carried'
  BY <1>1, <1>6 DEF Carried, Updates
<1>9. Supported(trade, bars, row.status, row.at)'
  BY <1>1 DEF PaperInv
<1>. QED
  BY <1>1, <1>7, <1>8, <1>9 DEF PaperInv

\* A run commits the update it carries.
LEMMA TrackCommitStep ==
    ASSUME PaperInv, TrackCommit
    PROVE  PaperInv'
<1>1. /\ track.update \in Updates
      /\ Supported(trade, bars, track.update.status, track.update.at)
  BY DEF PaperInv, TrackCommit, Carried
<1>2. row'.status = track.update.status /\ row'.at = track.update.at
  BY DEF TrackCommit
<1>3. track' = NoTrack /\ trade' = trade /\ bars' = bars /\ mark' = mark
  BY DEF TrackCommit
<1>4. Shapes'
  BY <1>1, <1>3 DEF PaperInv, TrackCommit, Shapes, Updates, NoTrack, Open, Resolved, Key
<1>5. Carried' /\ Supported(trade, bars, row.status, row.at)'
  BY <1>1, <1>2, <1>3 DEF Carried, NoTrack
<1>. QED
  BY <1>3, <1>4, <1>5 DEF PaperInv

\* The other steps move neither the bars, nor the status, nor a carried update.
LEMMA QuietStep ==
    ASSUME PaperInv,
           \/ TrackUpdate \/ TrackAbort \/ MarkRead \/ MarkUpdate \/ MarkCommit
           \/ MarkAbort \/ UNCHANGED vars
    PROVE  PaperInv'
<1>1. trade' = trade /\ bars' = bars
  BY DEF TrackUpdate, TrackAbort, MarkRead, MarkUpdate, MarkCommit, MarkAbort, vars
<1>2. row'.status = row.status /\ row'.at = row.at
  BY DEF PaperInv, Shapes, TrackUpdate, TrackAbort, MarkRead, MarkUpdate, MarkCommit, MarkAbort,
         vars
<1>3. \/ track'.stage = "idle"
      \/ track'.update = track.update /\ track.stage # "idle"
  BY DEF PaperInv, Shapes, TrackUpdate, TrackAbort, MarkRead, MarkUpdate, MarkCommit, MarkAbort,
         vars, NoTrack
<1>4. Shapes'
  <2>1. CASE TrackUpdate \/ TrackAbort
    BY <2>1 DEF PaperInv, Shapes, Updates, TrackUpdate, TrackAbort, NoTrack
  <2>2. CASE MarkRead \/ MarkUpdate \/ MarkCommit \/ MarkAbort \/ UNCHANGED vars
    BY <2>2 DEF PaperInv, Shapes, Updates, MarkRead, MarkUpdate, MarkCommit, MarkAbort, vars, Key
  <2>. QED
    BY <2>1, <2>2
<1>5. Supported(trade, bars, row.status, row.at)'
  BY <1>1, <1>2 DEF PaperInv
<1>6. Carried'
  BY <1>1, <1>2, <1>3 DEF PaperInv, Carried, Updates
<1>. QED
  BY <1>1, <1>4, <1>5, <1>6 DEF PaperInv

LEMMA PaperStep ==
    ASSUME PaperInv, [Next]_vars
    PROVE  PaperInv'
BY NewBarStep, TrackReadStep, TrackCommitStep, QuietStep DEF Next

\* A committed outcome is not written again: a run that could write one would carry
\* an update, and then the row would still be open.
LEMMA FinalStep ==
    ASSUME PaperInv, [Next]_vars, row.status \notin Open
    PROVE  row'.status = row.status /\ row'.at = row.at
<1>1. track.stage = "idle"
  BY DEF PaperInv, Carried
<1>. QED
  BY <1>1 DEF PaperInv, Shapes, Next, NewBar, TrackRead, TrackUpdate, TrackCommit, TrackAbort,
              MarkRead, MarkUpdate, MarkCommit, MarkAbort, vars

-----------------------------------------------------------------------------
\* The tracker and the backtest.

\* The tracker's bars are the last of the backtest's.
LEMMA AllBarsFact ==
    ASSUME NEW t \in Trades, NEW bs \in Seq(Bars)
    PROVE  /\ Late(t) \in Nat /\ Len(bs) \in Nat /\ DOMAIN bs = 1 .. Len(bs)
           /\ DOMAIN AllBars(t, bs) = 1 .. (Late(t) + Len(bs))
           /\ \A i \in 1 .. Len(bs) : AllBars(t, bs)[Late(t) + i] = bs[i]
<1>1. t.missed \in Seq(Bars)
  BY BacktestAssumption
<1>. QED
  BY <1>1 DEF Late, AllBars

\* The least member of a set of numbers and that of the same set shifted.
LEMMA MinShifted ==
    ASSUME NEW S \in SUBSET Nat, NEW m \in Nat, S # {}
    PROVE  Min({m + i : i \in S}) = m + Min(S)
<1>. DEFINE least == Min(S)
            moved == {m + i : i \in S}
<1>1. least \in S /\ \A k \in S : least <= k
  BY MinFact
<1>. HIDE DEF least
<1>2. moved \in SUBSET Nat /\ m + least \in moved /\ \A k \in moved : m + least <= k
  BY <1>1
<1>. HIDE DEF moved
<1>3. Min(moved) = m + least
  BY <1>2, MinUnique
<1>. QED
  BY <1>3 DEF moved, least

\* A bar that both try fills the order for both, and the first one does for both.
LEMMA SameFill ==
    ASSUME NEW t \in Trades, NEW bs \in Seq(Bars),
           ~ FilledTooEarly(t, bs), ~ TriedByOne(t, bs),
           Fills(t, bs) # {} \/ FillBars(t, bs) # {}
    PROVE  /\ Fills(t, bs) # {} /\ FillBars(t, bs) # {}
           /\ Min(Fills(t, bs)) \in 1 .. Len(bs)
           /\ Min(FillBars(t, bs)) = Late(t) + Min(Fills(t, bs))
<1>. DEFINE m == Late(t)
            T == Fills(t, bs)
            S == FillBars(t, bs)
            first == Min(T)
<1>1. /\ m \in Nat /\ Len(bs) \in Nat /\ DOMAIN bs = 1 .. Len(bs)
      /\ DOMAIN AllBars(t, bs) = 1 .. (m + Len(bs))
      /\ \A i \in 1 .. Len(bs) : AllBars(t, bs)[m + i] = bs[i]
      /\ t.validBars \in Nat /\ t.validUntil \in Nat
  BY AllBarsFact, BacktestAssumption, TradesAssumption
<1>2. /\ T \in SUBSET Nat /\ S \in SUBSET Nat
      /\ \A i \in T : i \in 1 .. Len(bs) /\ i <= t.validUntil /\ Touches(t, bs[i])
      /\ \A i \in 1 .. Len(bs) : i <= t.validUntil /\ Touches(t, bs[i]) => i \in T
  BY <1>1 DEF Fills, FillBars
<1>3. \A i \in 1 .. Len(bs) : m + i \in S <=> m + i <= t.validBars /\ Touches(t, bs[i])
  BY <1>1 DEF FillBars
<1>4. \A s \in S : s - m \in 1 .. Len(bs) /\ s = m + (s - m)
  <2>. SUFFICES ASSUME NEW s \in S
                PROVE  s - m \in 1 .. Len(bs) /\ s = m + (s - m)
    OBVIOUS
  <2>1. ~ (s <= m)
    BY DEF FilledTooEarly
  <2>2. s \in 1 .. (m + Len(bs))
    BY <1>1 DEF FillBars
  <2>. HIDE DEF m, S
  <2>. QED
    BY <1>1, <2>1, <2>2
<1>5. PICK both \in T : m + both \in S
  BY DEF TriedByOne
<1>6. first \in T /\ first \in Nat /\ \A i \in T : first <= i
  BY <1>2, <1>5, MinFact
<1>. HIDE DEF m, T, S, first
<1>7. m + first \in S
  <2>1. first <= both /\ m + both <= t.validBars
    BY <1>2, <1>3, <1>5, <1>6
  <2>2. m + first <= t.validBars /\ first \in 1 .. Len(bs) /\ Touches(t, bs[first])
    BY <1>1, <1>2, <1>5, <1>6, <2>1
  <2>. QED
    BY <1>3, <2>2
<1>8. ASSUME NEW s \in S
      PROVE  m + first <= s
  <2>1. s - m \in 1 .. Len(bs) /\ s = m + (s - m)
    BY <1>4
  <2>2. Touches(t, bs[s - m])
    BY <1>3, <2>1
  <2>3. CASE s - m <= t.validUntil
    <3>1. s - m \in T
      BY <1>2, <2>1, <2>2, <2>3
    <3>. QED
      BY <1>1, <1>6, <2>1, <3>1
  <2>4. CASE ~ (s - m <= t.validUntil)
    <3>1. first <= t.validUntil
      BY <1>2, <1>6
    <3>. QED
      BY <1>1, <1>6, <2>1, <2>4, <3>1
  <2>. QED
    BY <2>3, <2>4
<1>9. Min(S) = m + first
  BY <1>2, <1>7, <1>8, MinUnique
<1>10. first \in 1 .. Len(bs)
  BY <1>2, <1>6
<1>. QED
  BY <1>5, <1>7, <1>9, <1>10 DEF m, T, S, first

\* After the same fill the same bars end the trade, unless the stop is reached on it.
LEMMA SameEnd ==
    ASSUME NEW t \in Trades, NEW bs \in Seq(Bars), NEW fill \in 1 .. Len(bs),
           ~ SlHit(t, bs[fill])
    PROVE  LET ends == Ends(t, bs, fill)
               ending == ExitAt(t, bs, Late(t) + fill)
           IN  /\ ends = {} => ending = 0
               /\ ends # {} =>
                    /\ Min(ends) \in 1 .. Len(bs) /\ ending = Late(t) + Min(ends)
                    /\ ending # 0
                    /\ AllBars(t, bs)[ending] = bs[Min(ends)]
<1>. DEFINE m == Late(t)
            ends == Ends(t, bs, fill)
            all == AllBars(t, bs)
            exits == {i \in DOMAIN all : i > m + fill /\ ExitHit(t, all[i])}
<1>1. /\ m \in Nat /\ Len(bs) \in Nat /\ DOMAIN bs = 1 .. Len(bs)
      /\ DOMAIN all = 1 .. (m + Len(bs))
      /\ \A i \in 1 .. Len(bs) : all[m + i] = bs[i]
  BY AllBarsFact
<1>2. ExitAt(t, bs, m + fill) = IF exits = {} THEN 0 ELSE Min(exits)
  BY DEF ExitAt
<1>. HIDE DEF m, all
<1>3. ends = {i \in 1 .. Len(bs) : i > fill /\ ExitHit(t, bs[i])}
  BY <1>1 DEF Ends, ExitHit
<1>4. exits = {m + i : i \in ends}
  <2>1. ASSUME NEW x \in exits
        PROVE  x \in {m + i : i \in ends}
    <3>1. x - m \in 1 .. Len(bs) /\ x = m + (x - m) /\ x - m > fill
      BY <1>1
    <3>2. ExitHit(t, bs[x - m])
      BY <1>1, <3>1
    <3>. QED
      BY <1>3, <3>1, <3>2
  <2>2. ASSUME NEW i \in ends
        PROVE  m + i \in exits
    BY <1>1, <1>3
  <2>. QED
    BY <2>1, <2>2
<1>5. ends \in SUBSET Nat /\ \A i \in ends : i \in 1 .. Len(bs)
  BY <1>1, <1>3
<1>. HIDE DEF ends, exits
<1>6. CASE ends = {}
  <2>1. exits = {}
    BY <1>4, <1>6
  <2>. QED
    BY <1>2, <1>6, <2>1 DEF m, ends
<1>7. CASE ends # {}
  <2>1. exits # {} /\ Min(exits) = m + Min(ends)
    BY <1>1, <1>4, <1>5, <1>7, MinShifted
  <2>2. Min(ends) \in 1 .. Len(bs)
    BY <1>5, <1>7, MinFact
  <2>3. m + Min(ends) # 0 /\ all[m + Min(ends)] = bs[Min(ends)]
    BY <1>1, <2>2
  <2>. QED
    BY <1>2, <1>7, <2>1, <2>2, <2>3 DEF m, ends, all
<1>. QED
  BY <1>6, <1>7

LEMMA TrackedIs ==
    ASSUME NEW t, NEW bs, NEW update, Replay(t, FALSE, bs) = update
    PROVE  Tracked(t, bs) =
             IF update.status \in {"none", "EXPIRED"} THEN [status |-> "EXPIRED", at |-> 0]
             ELSE [status |-> IF update.status = "FILLED" THEN "OPEN" ELSE update.status,
                   at |-> Late(t) + update.at]
BY DEF Tracked

\* Off the three exceptions the two agree on every trade and all bars.
LEMMA ReplayAgrees ==
    ASSUME trade \in Trades, bars \in Seq(Bars)
    PROVE  DifferOnlyAtTheFill
<1>. DEFINE T == Fills(trade, bars)
            S == FillBars(trade, bars)
            first == Min(T)
            ends == Ends(trade, bars, first)
<1>. SUFFICES ASSUME ~ FilledTooEarly(trade, bars), ~ TriedByOne(trade, bars),
                     ~ StoppedOnFill(trade, bars)
              PROVE  Tracked(trade, bars) = Backtest(trade, bars)
  BY DEF DifferOnlyAtTheFill
<1>1. CASE T = {} /\ S = {}
  <2>1. Backtest(trade, bars) = [status |-> "EXPIRED", at |-> 0]
    BY <1>1 DEF Backtest
  <2>2. Replay(trade, FALSE, bars).status \in {"none", "EXPIRED"}
    BY <1>1 DEF Replay, NoUpdate
  <2>. QED
    BY <2>1, <2>2 DEF Tracked
<1>2. CASE T # {} \/ S # {}
  <2>1. /\ T # {} /\ S # {} /\ first \in 1 .. Len(bars)
        /\ Min(S) = Late(trade) + first
    BY <1>2, SameFill
  <2>2. ~ SlHit(trade, bars[first])
    BY <2>1 DEF StoppedOnFill
  <2>. DEFINE ending == ExitAt(trade, bars, Late(trade) + first)
  <2>3. /\ ends = {} => ending = 0
        /\ ends # {} => /\ Min(ends) \in 1 .. Len(bars) /\ ending = Late(trade) + Min(ends)
                        /\ ending # 0
                        /\ AllBars(trade, bars)[ending] = bars[Min(ends)]
    <3>. HIDE DEF first
    <3>. QED
      BY <2>1, <2>2, SameEnd
  <2>4. Backtest(trade, bars) =
          IF ending = 0 THEN [status |-> "OPEN", at |-> Late(trade) + first]
          ELSE Outcome(trade, AllBars(trade, bars), ending)
    BY <2>1 DEF Backtest
  <2>5. Replay(trade, FALSE, bars) =
          IF ends # {} THEN Outcome(trade, bars, Min(ends))
          ELSE [status |-> "FILLED", at |-> first]
    BY <2>1 DEF Replay
  <2>. HIDE DEF first, ends, ending
  <2>6. CASE ends = {}
    <3>1. Backtest(trade, bars) = [status |-> "OPEN", at |-> Late(trade) + first]
      BY <2>3, <2>4, <2>6
    <3>2. Replay(trade, FALSE, bars) = [status |-> "FILLED", at |-> first]
      BY <2>5, <2>6
    <3>3. Tracked(trade, bars) = [status |-> "OPEN", at |-> Late(trade) + first]
      <4>. DEFINE filled == [status |-> "FILLED", at |-> first]
      <4>1. filled.status = "FILLED" /\ filled.at = first
        OBVIOUS
      <4>2. Replay(trade, FALSE, bars) = filled
        BY <3>2
      <4>. HIDE DEF filled
      <4>3. Tracked(trade, bars) =
              IF filled.status \in {"none", "EXPIRED"} THEN [status |-> "EXPIRED", at |-> 0]
              ELSE [status |-> IF filled.status = "FILLED" THEN "OPEN" ELSE filled.status,
                    at |-> Late(trade) + filled.at]
        BY <4>2, TrackedIs
      <4>. QED
        BY <4>1, <4>3
    <3>. QED
      BY <3>1, <3>3
  <2>7. CASE ends # {}
    <3>. DEFINE at == Min(ends)
    <3>1. Backtest(trade, bars) = Outcome(trade, AllBars(trade, bars), ending)
          /\ Replay(trade, FALSE, bars) = Outcome(trade, bars, at)
      BY <2>3, <2>4, <2>5, <2>7
    <3>2. ending = Late(trade) + at /\ AllBars(trade, bars)[ending] = bars[at]
      BY <2>3, <2>7
    <3>. HIDE DEF at
    <3>3. Outcome(trade, AllBars(trade, bars), ending) =
            [status |-> Outcome(trade, bars, at).status, at |-> Late(trade) + at]
      BY <3>2 DEF Outcome
    <3>4. Outcome(trade, bars, at).status \in {"SL_HIT", "TP_HIT"} /\ Outcome(trade, bars, at).at = at
      BY DEF Outcome
    <3>. QED
      BY <3>1, <3>3, <3>4 DEF Tracked
  <2>. QED
    BY <2>6, <2>7
<1>. QED
  BY <1>1, <1>2

-----------------------------------------------------------------------------
\* Theorems.

\* PaperInv holds in every state: the committed row, and the update a run carries,
\* say of the bars what they mean.
THEOREM PaperInvariance == Spec => []PaperInv
<1>1. Init => PaperInv
  BY PaperInit
<1>2. PaperInv /\ [Next]_vars => PaperInv'
  BY PaperStep
<1>. QED
  BY <1>1, <1>2, PTL DEF Spec

\* The tracker's state is well typed.
THEOREM TrackerTypeCorrect == Spec => []TypeOK
<1>1. PaperInv => TypeOK
  BY DEF PaperInv, Shapes, TypeOK
<1>. QED
  BY <1>1, PaperInvariance, PTL

\* A trade has an outcome only if its limit order was touched while it was valid,
\* however the runs of the tracker split the bars between them.
THEOREM OutcomesWereFilled == Spec => []ResolvedWasFilled
<1>1. PaperInv => ResolvedWasFilled
  BY DEF PaperInv, Supported, ResolvedWasFilled
<1>. QED
  BY <1>1, PaperInvariance, PTL

\* No bar between the fill and a take profit touched the stop loss, except the bar
\* of the take profit itself when its minute bars are there to decide.
THEOREM WorstCaseFirst == Spec => []WorstCase
<1>1. PaperInv => WorstCase
  BY DEF PaperInv, Supported, WorstCase
<1>. QED
  BY <1>1, PaperInvariance, PTL

\* tracker.py:155, "consistent with backtester", as far as it goes: whatever the bars and
\* however late the publication, the replay and the backtest fill and end a trade alike,
\* unless the backtest fills it before it was published, the touch is on a bar only one of
\* them tries, or the fill bar reaches the stop.
THEOREM BacktestAgrees == Spec => []DifferOnlyAtTheFill
<1>1. PaperInv => DifferOnlyAtTheFill
  BY ReplayAgrees DEF PaperInv
<1>. QED
  BY <1>1, PaperInvariance, PTL

\* A resolved or expired trade is never reopened, changed or moved to another bar,
\* although the tracker and the delivery transaction write rows they read before.
THEOREM OutcomesAreFinal == Spec => OutcomeIsFinal
<1>1. PaperInv /\ [Next]_vars
        => [row.status \notin Open => row'.status = row.status /\ row'.at = row.at]_vars
  BY FinalStep
<1>. QED
  BY <1>1, PaperInvariance, PTL DEF Spec, OutcomeIsFinal

-----------------------------------------------------------------------------
\* The smart exit.

ExitInv == ExitTypeOK /\ LossIsBounded

LEMMA UpdateKeeps ==
    ASSUME ExitTypeOK, NEW best \in Gains, NEW trail \in Trails, Update(best, trail)
    PROVE  /\ stop' \in Int /\ stop' >= stop
           /\ partial_taken' \in BOOLEAN /\ be_moved' \in BOOLEAN /\ trailing' \in BOOLEAN
           /\ ~ be_moved' => stop' = -Risk
           /\ be_moved' => stop' >= 0
           /\ trailing' => be_moved'
<1>1. /\ best \in Int /\ trail \in Nat /\ stop \in Int /\ Risk \in Nat
      /\ BreakevenAt \in Nat /\ TrailAt \in Nat /\ BreakevenAt <= TrailAt
  <2>1. trail \in Nat
    BY TrailsAssumption
  <2>2. best \in Int
    BY RiskAssumption DEF Gains
  <2>. QED
    BY <2>1, <2>2, RiskAssumption, LevelsAssumption DEF ExitTypeOK
<1>2. /\ partial_taken' = (partial_taken \/ best >= PartialAt)
      /\ be_moved' = (be_moved \/ best >= BreakevenAt)
      /\ trailing' = (trailing \/ best >= TrailAt)
  BY DEF Update
<1>3. partial_taken' \in BOOLEAN /\ be_moved' \in BOOLEAN /\ trailing' \in BOOLEAN
  BY <1>2 DEF ExitTypeOK
<1>4. trailing' => be_moved'
  <2>1. best >= TrailAt => best >= BreakevenAt
    BY <1>1
  <2>2. trailing => be_moved
    BY DEF ExitTypeOK
  <2>. QED
    BY <1>2, <2>1, <2>2, Zenon
<1>. DEFINE from == IF Breakeven(best) THEN 0 ELSE stop
<1>5. /\ from \in Int /\ from >= stop
      /\ ~ be_moved' => from = -Risk
      /\ be_moved' => from >= 0
  <2>1. CASE Breakeven(best)
    <3>1. from = 0 /\ ~ be_moved /\ best >= BreakevenAt
      BY <2>1 DEF Breakeven
    <3>2. be_moved' /\ stop = -Risk
      BY <1>2, <3>1, Zenon DEF ExitTypeOK
    <3>. QED
      BY <1>1, <3>1, <3>2
  <2>2. CASE ~ Breakeven(best)
    <3>1. from = stop /\ be_moved' = be_moved
      <4>1. be_moved \/ ~ (best >= BreakevenAt)
        BY <2>2 DEF Breakeven
      <4>2. be_moved' = be_moved
        BY <1>2, <4>1, Zenon DEF ExitTypeOK
      <4>. QED
        BY <2>2, <4>2
    <3>2. (~ be_moved => stop = -Risk) /\ (be_moved => stop >= 0)
      BY Zenon DEF ExitTypeOK
    <3>. HIDE DEF from
    <3>3. from \in Int /\ from >= stop
      BY <1>1, <3>1
    <3>4. (~ be_moved' => from = -Risk) /\ (be_moved' => from >= 0)
      BY <3>1, <3>2, Zenon
    <3>. QED
      BY <3>3, <3>4
  <2>. QED
    BY <2>1, <2>2
<1>6. stop' = IF trailing' THEN Trailed(from, best, trail) ELSE from
  BY DEF Update
<1>. HIDE DEF from
<1>7. Trailed(from, best, trail) \in Int /\ Trailed(from, best, trail) >= from
  BY <1>1, <1>5 DEF Trailed, Higher
<1>8. stop' \in Int /\ stop' >= from /\ (~ trailing' => stop' = from)
  BY <1>5, <1>6, <1>7
<1>9. stop' >= stop
  BY <1>1, <1>5, <1>8
<1>10. ~ be_moved' => stop' = -Risk
  BY <1>4, <1>5, <1>8
<1>11. be_moved' => stop' >= 0
  BY <1>1, <1>5, <1>8
<1>. QED
  BY <1>3, <1>4, <1>8, <1>9, <1>10, <1>11

LEMMA InitInv == ExitInit => ExitInv
<1>1. -Risk \in Int /\ 0 \in Int
  BY RiskAssumption
<1>. QED
  BY <1>1, Zenon DEF ExitInit, ExitInv, ExitTypeOK, LossIsBounded

\* One step keeps the invariant and does not loosen the stop.
LEMMA StepInv ==
    ASSUME ExitInv, [ExitNext]_exitVars
    PROVE  ExitInv' /\ stop' >= stop
<1>1. ExitTypeOK /\ stop \in Int /\ Target \in Int /\ Risk \in Nat
  <2>1. ExitTypeOK /\ stop \in Int
    BY Zenon DEF ExitInv, ExitTypeOK
  <2>. QED
    BY <2>1, RiskAssumption
<1>2. ASSUME NEW from \in Gains, NEW worst \in Gains, StopOut(from, worst)
      PROVE  ExitInv' /\ stop' >= stop
  <2>1. /\ reason' = "SL" /\ exit' = StopFill(from) /\ gapped' = (from < stop)
        /\ stop' = stop /\ partial_taken' = partial_taken
        /\ be_moved' = be_moved /\ trailing' = trailing
    BY <1>2 DEF StopOut, flags
  <2>2. exit' \in Int /\ (~ gapped' => exit' = stop)
    <3>1. from \in Int
      BY RiskAssumption DEF Gains
    <3>2. StopFill(from) \in Int /\ (~ (from < stop) => StopFill(from) = stop)
      BY <1>1, <3>1 DEF StopFill, Lower
    <3>. QED
      BY <2>1, <3>2, Zenon
  <2>3. ExitTypeOK'
    <3>1. (from < stop) \in BOOLEAN
      OBVIOUS
    <3>. QED
      BY <1>1, <2>1, <2>2, <3>1, Zenon DEF ExitTypeOK
  <2>4. LossIsBounded'
    BY <1>1, <2>1, <2>2 DEF LossIsBounded, ExitTypeOK
  <2>. QED
    BY <1>1, <2>1, <2>3, <2>4 DEF ExitInv
<1>3. ASSUME NEW worst \in Gains, NEW best \in Gains, NEW trail \in Trails,
             TakeProfit(worst, best, trail)
      PROVE  ExitInv' /\ stop' >= stop
  <2>1. Update(best, trail) /\ reason' = "TP" /\ exit' = Target /\ gapped' = gapped
    BY <1>3 DEF TakeProfit
  <2>2. ExitTypeOK' /\ stop' >= stop
    BY <1>1, <2>1, UpdateKeeps DEF ExitTypeOK
  <2>. QED
    BY <2>1, <2>2 DEF ExitInv, LossIsBounded
<1>4. ASSUME reason = "", NEW worst \in Gains, NEW best \in Gains, NEW trail \in Trails,
             Survive(worst, best, trail)
      PROVE  ExitInv' /\ stop' >= stop
  <2>1. Update(best, trail) /\ reason' = reason /\ exit' = exit /\ gapped' = gapped
    BY <1>4 DEF Survive
  <2>2. ExitTypeOK' /\ stop' >= stop
    BY <1>1, <2>1, UpdateKeeps DEF ExitTypeOK
  <2>. QED
    BY <1>4, <2>1, <2>2 DEF ExitInv, LossIsBounded
<1>5. CASE Bar
  BY <1>2, <1>3, <1>4, <1>5 DEF Bar
<1>6. CASE DataEnds
  <2>1. /\ reason' = "OPEN" /\ exit' \in Int /\ gapped' = gapped
        /\ stop' = stop /\ partial_taken' = partial_taken
        /\ be_moved' = be_moved /\ trailing' = trailing
    <3>1. \A close \in Gains : close \in Int
      BY RiskAssumption DEF Gains
    <3>. QED
      BY <1>6, <3>1, Zenon DEF DataEnds, flags
  <2>2. ExitTypeOK'
    BY <1>1, <2>1 DEF ExitTypeOK
  <2>. QED
    BY <1>1, <2>1, <2>2 DEF ExitInv, LossIsBounded
<1>7. CASE UNCHANGED exitVars
  <2>1. /\ reason' = reason /\ exit' = exit /\ gapped' = gapped
        /\ stop' = stop /\ partial_taken' = partial_taken
        /\ be_moved' = be_moved /\ trailing' = trailing
    BY <1>7, Zenon DEF exitVars, flags
  <2>2. ExitInv'
    BY <2>1, Zenon DEF ExitInv, ExitTypeOK, LossIsBounded
  <2>. QED
    BY <1>1, <2>1, <2>2
<1>. QED
  BY <1>5, <1>6, <1>7 DEF ExitNext

-----------------------------------------------------------------------------
\* Types, and the stop follows its flags.
THEOREM ExitTypeCorrect == ExitSpec => []ExitTypeOK
<1>1. ExitInit => ExitInv
  BY InitInv
<1>2. ExitInv /\ [ExitNext]_exitVars => ExitInv'
  BY StepInv
<1>3. ExitInv => ExitTypeOK
  BY DEF ExitInv
<1>. QED
  BY <1>1, <1>2, <1>3, PTL DEF ExitSpec

\* A stop without a gap costs at most the risk, and nothing after break-even.
THEOREM LossBounded == ExitSpec => []LossIsBounded
<1>1. ExitInit => ExitInv
  BY InitInv
<1>2. ExitInv /\ [ExitNext]_exitVars => ExitInv'
  BY StepInv
<1>3. ExitInv => LossIsBounded
  BY DEF ExitInv
<1>. QED
  BY <1>1, <1>2, <1>3, PTL DEF ExitSpec

\* apply_smart_exit never loosens a stop.
THEOREM StopTightens == ExitSpec => StopNeverLoosens
<1>1. ExitInit => ExitInv
  BY InitInv
<1>2. ExitInv /\ [ExitNext]_exitVars => ExitInv'
  BY StepInv
<1>3. ExitInv /\ [ExitNext]_exitVars => [stop' >= stop]_exitVars
  BY StepInv
<1>. QED
  BY <1>1, <1>2, <1>3, PTL DEF ExitSpec, StopNeverLoosens

-----------------------------------------------------------------------------
\* Who took the partial had reached break-even, if the partial is not the nearer one.
PartialIsSafe == partial_taken /\ PartialAt >= BreakevenAt => be_moved

LEMMA StepPartial ==
    ASSUME PartialIsSafe, [ExitNext]_exitVars
    PROVE  PartialIsSafe'
<1>1. ASSUME NEW best \in Gains, NEW trail \in Trails, Update(best, trail)
      PROVE  PartialIsSafe'
  <2>1. best \in Int /\ PartialAt \in Int /\ BreakevenAt \in Int
    BY RiskAssumption, LevelsAssumption DEF Gains
  <2>2. best >= PartialAt /\ PartialAt >= BreakevenAt => best >= BreakevenAt
    BY <2>1
  <2>3. /\ partial_taken' = (partial_taken \/ best >= PartialAt)
        /\ be_moved' = (be_moved \/ best >= BreakevenAt)
    BY <1>1 DEF Update
  <2>. QED
    BY <2>2, <2>3, Zenon DEF PartialIsSafe
<1>2. ASSUME partial_taken' = partial_taken, be_moved' = be_moved
      PROVE  PartialIsSafe'
  BY <1>2, Zenon DEF PartialIsSafe
<1>3. CASE Bar
  BY <1>1, <1>2, <1>3 DEF Bar, StopOut, TakeProfit, Survive, flags
<1>4. CASE DataEnds
  BY <1>2, <1>4 DEF DataEnds, flags
<1>5. CASE UNCHANGED exitVars
  BY <1>2, <1>5 DEF exitVars, flags
<1>. QED
  BY <1>3, <1>4, <1>5 DEF ExitNext

\* A trade that closed half at break-even's level or beyond keeps that half's gain.
THEOREM WinnersKept == ExitSpec => []WinnerStaysWinner
<1>1. ExitInit => PartialIsSafe
  BY Zenon DEF ExitInit, PartialIsSafe
<1>2. PartialIsSafe /\ [ExitNext]_exitVars => PartialIsSafe'
  BY StepPartial
<1>3. ExitTypeOK /\ LossIsBounded /\ PartialIsSafe => WinnerStaysWinner
  <2>. SUFFICES ASSUME ExitTypeOK, LossIsBounded, PartialIsSafe, reason = "SL", ~ gapped,
                       partial_taken, PartialAt >= BreakevenAt
                PROVE  Result >= PartialAt
    BY DEF WinnerStaysWinner
  <2>1. be_moved
    BY DEF PartialIsSafe
  <2>2. exit >= 0
    BY <2>1, Zenon DEF LossIsBounded
  <2>3. exit \in Int /\ PartialAt \in Int
    BY LevelsAssumption DEF ExitTypeOK
  <2>4. Result = PartialAt + exit
    BY DEF Result
  <2>. QED
    BY <2>2, <2>3, <2>4
<1>. QED
  BY <1>1, <1>2, <1>3, ExitTypeCorrect, LossBounded, PTL DEF ExitSpec

-----------------------------------------------------------------------------
\* The guards on a strategy's own results.

ScanStages == {"idle", "checked", "read"}
ScanShape == [at : ScanStages, outcomes : Seq(Outcomes)]

\* The runs that have found the strategy enabled and not ended.
Busy == {p \in Scanners : sc[p].at # "idle"}

\* A signal of a disabled strategy is one that a run less is busy.
GuardsInv ==
    /\ resolved \in Seq(Outcomes) /\ open \in Nat /\ strays \in Nat
    /\ enabled \in BOOLEAN
    /\ sc \in [Scanners -> ScanShape]
    /\ enabled => strays = 0
    /\ OnlyInFlightPublish

LEMMA BusyFact ==
    /\ IsFiniteSet(Busy) /\ Cardinality(Busy) \in Nat
    /\ Cardinality(Scanners) \in Nat /\ Cardinality(Busy) <= Cardinality(Scanners)
<1>1. Busy \in SUBSET Scanners
  BY DEF Busy
<1>. QED
  BY <1>1, ScannersAssumption, FS_Subset, FS_CardinalityType

\* The newest outcomes of a list, and the list from behind.
LEMMA NewestFact ==
    ASSUME NEW S, NEW s \in Seq(S), NEW n \in Nat \ {0}
    PROVE  /\ Newest(s, n) \in Seq(S) /\ Len(Newest(s, n)) <= n
           /\ Len(s) >= n => Len(Newest(s, n)) = n
           /\ Len(s) <= n => Newest(s, n) = s
<1>1. Len(s) \in Nat /\ \A i \in 1..Len(s) : s[i] \in S
  OBVIOUS
<1>2. CASE Len(s) <= n
  BY <1>1, <1>2 DEF Newest
<1>3. CASE Len(s) > n
  <2>1. Newest(s, n) = SubSeq(s, Len(s) - n + 1, Len(s))
    BY <1>1, <1>3 DEF Newest
  <2>2. (Len(s) - n) + 1 \in 1..(Len(s) + 1) /\ Len(s) \in 0..Len(s)
    BY <1>1, <1>3
  <2>3. /\ SubSeq(s, (Len(s) - n) + 1, Len(s)) \in Seq(S)
        /\ Len(SubSeq(s, (Len(s) - n) + 1, Len(s))) = n
    BY <1>1, <1>3, <2>2, SubSeqProperties
  <2>. QED
    BY <1>1, <1>3, <2>1, <2>3
<1>. QED
  BY <1>1, <1>2, <1>3

LEMMA ReverseFact ==
    ASSUME NEW S, NEW s \in Seq(S)
    PROVE  /\ Reverse(s) \in Seq(S) /\ Len(Reverse(s)) = Len(s)
           /\ \A i \in 1..Len(s) : Reverse(s)[i] = s[(Len(s) - i) + 1]
<1>1. Len(s) \in Nat /\ \A i \in 1..Len(s) : s[i] \in S /\ (Len(s) - i) + 1 \in 1..Len(s)
  OBVIOUS
<1>2. Reverse(s) = [i \in 1..Len(s) |-> s[(Len(s) - i) + 1]]
  BY DEF Reverse
<1>3. Reverse(s) \in Seq(S)
  BY <1>1, <1>2, IsASeq
<1>. QED
  BY <1>1, <1>2, <1>3

LEMMA TotalReversed ==
    ASSUME NEW s \in Seq(Outcomes)
    PROVE  Total(Reverse(s)) = Total(s)
<1>. DEFINE n == Len(s)
            h == Reverse(s)
<1>0. ASSUME NEW r \in Seq(Outcomes)
      PROVE  Len(r) \in Nat /\ r \in [1..Len(r) -> Int]
  <2>1. r \in [1..Len(r) -> Outcomes] /\ Len(r) \in Nat
    BY LenProperties
  <2>. QED
    BY <2>1, OutcomesAssumption
<1>1. n \in Nat /\ s \in [1..n -> Int]
  BY <1>0
<1>2. h \in [1..n -> Int] /\ \A i \in 1..n : h[i] = s[(n - i) + 1]
  <2>1. h \in Seq(Outcomes) /\ Len(h) = n /\ \A i \in 1..n : h[i] = s[(n - i) + 1]
    BY ReverseFact
  <2>. HIDE DEF h, n
  <2>. QED
    BY <1>0, <2>1
<1>. HIDE DEF n, h
<1>3. SumOf(h) = SumOf(s)
  BY <1>1, <1>2, SumReversed
<1>4. \A f : Total(f) = SumOf(f)
  BY DEF Total, FoldSeq, SumOf
<1>. QED
  BY <1>3, <1>4 DEF h

\* A window that is lost in the table is lost for a run that reads it now.
LEMMA LostIsRead ==
    ASSUME GuardsInv, Losing(resolved, GuardWindow)
    PROVE  GuardFails(RecentOutcomes(GuardWindow))
<1>. DEFINE t == Newest(resolved, GuardWindow)
<1>1. /\ GuardWindow \in Nat \ {0} /\ resolved \in Seq(Outcomes)
      /\ Len(resolved) >= GuardWindow /\ Total(t) < 0
  BY WindowAssumption DEF GuardsInv, Losing
<1>2. t \in Seq(Outcomes) /\ Len(t) = GuardWindow
  BY <1>1, NewestFact
<1>. HIDE DEF t
<1>3. Reverse(t) \in Seq(Outcomes) /\ Len(Reverse(t)) = GuardWindow
  BY <1>2, ReverseFact
<1>4. Newest(Reverse(t), GuardWindow) = Reverse(t)
  BY <1>1, <1>3, NewestFact
<1>5. Total(Reverse(t)) = Total(t)
  BY <1>2, TotalReversed
<1>6. RecentOutcomes(GuardWindow) = Reverse(t)
  BY DEF RecentOutcomes, t
<1>. QED
  BY <1>1, <1>3, <1>4, <1>5, <1>6 DEF GuardFails, Losing, t

\* One run moves.
LEMMA OneScan ==
    ASSUME GuardsInv, NEW p \in Scanners, NEW s \in ScanShape, sc' = [sc EXCEPT ![p] = s]
    PROVE  /\ sc' \in [Scanners -> ScanShape]
           /\ Cardinality(Busy) \in Nat /\ Cardinality(Busy') \in Nat
           /\ Cardinality(Busy') <= Cardinality(Scanners)
           /\ sc[p].at # "idle" => Cardinality(Busy') <= Cardinality(Busy)
           /\ sc[p].at # "idle" /\ s.at = "idle" => Cardinality(Busy') = Cardinality(Busy) - 1
<1>1. sc \in [Scanners -> ScanShape]
  BY DEF GuardsInv
<1>2. /\ sc' \in [Scanners -> ScanShape] /\ sc'[p] = s
      /\ \A q \in Scanners : q # p => sc'[q] = sc[q]
  BY <1>1
<1>3. /\ Cardinality(Busy) \in Nat /\ IsFiniteSet(Busy)
      /\ Busy' \in SUBSET Scanners
  BY BusyFact DEF Busy
<1>4. /\ IsFiniteSet(Busy') /\ Cardinality(Busy') \in Nat
      /\ Cardinality(Busy') <= Cardinality(Scanners)
  BY <1>3, ScannersAssumption, FS_Subset, FS_CardinalityType
<1>5. ASSUME sc[p].at # "idle"
      PROVE  Cardinality(Busy') <= Cardinality(Busy)
  <2>1. Busy' \in SUBSET Busy
    BY <1>2, <1>5 DEF Busy
  <2>. QED
    BY <1>3, <2>1, FS_Subset
<1>6. ASSUME sc[p].at # "idle", s.at = "idle"
      PROVE  Cardinality(Busy') = Cardinality(Busy) - 1
  <2>1. Busy' = Busy \ {p} /\ p \in Busy
    BY <1>2, <1>6 DEF Busy
  <2>. QED
    BY <1>3, <2>1, FS_RemoveElement
<1>. QED
  BY <1>2, <1>3, <1>4, <1>5, <1>6

LEMMA GuardsStep ==
    ASSUME GuardsInv, [GuardsNext]_guardsVars
    PROVE  GuardsInv'
<1>. DEFINE C == Cardinality(Busy)
            M == Cardinality(Scanners)
<1>1. /\ resolved \in Seq(Outcomes) /\ open \in Nat /\ strays \in Nat
      /\ enabled \in BOOLEAN /\ sc \in [Scanners -> ScanShape]
      /\ enabled => strays = 0
      /\ ~enabled => strays + C <= M
  BY DEF GuardsInv, OnlyInFlightPublish, Busy
<1>2. C \in Nat /\ M \in Nat /\ C <= M
  BY BusyFact
<1>3. Idle \in ScanShape /\ Idle.at = "idle"
  BY EmptySeq DEF Idle, ScanShape, ScanStages
<1>4. M' = M
  OBVIOUS
<1>. HIDE DEF C, M
\* It suffices to count.
<1>5. ASSUME resolved' \in Seq(Outcomes), open' \in Nat, strays' \in Nat, enabled' \in BOOLEAN,
             sc' \in [Scanners -> ScanShape], enabled' => strays' = 0,
             ~enabled' => strays' + C' <= M
      PROVE  GuardsInv'
  BY <1>4, <1>5 DEF GuardsInv, OnlyInFlightPublish, Busy, C, M
<1>6. ASSUME NEW p \in Scanners, NEW s \in ScanShape, sc' = [sc EXCEPT ![p] = s]
      PROVE  /\ sc' \in [Scanners -> ScanShape] /\ C' \in Nat /\ C' <= M
             /\ sc[p].at # "idle" => C' <= C
             /\ sc[p].at # "idle" /\ s.at = "idle" => C' = C - 1
  BY <1>6, OneScan DEF C, M
<1>7. ASSUME NEW p \in Scanners, CheckState(p)
      PROVE  GuardsInv'
  <2>. DEFINE s == [sc[p] EXCEPT !.at = "checked"]
  <2>1. s \in ScanShape
    BY <1>1 DEF ScanShape, ScanStages
  <2>2. sc' = [sc EXCEPT ![p] = s]
    BY <1>7 DEF CheckState
  <2>3. sc' \in [Scanners -> ScanShape]
    BY <1>6, <2>1, <2>2
  <2>. QED
    BY <1>1, <1>5, <1>7, <2>3 DEF CheckState
<1>8. ASSUME NEW p \in Scanners, ReadOutcomes(p)
      PROVE  GuardsInv'
  <2>. DEFINE s == [at |-> "read", outcomes |-> RecentOutcomes(GuardWindow)]
  <2>1. RecentOutcomes(GuardWindow) \in Seq(Outcomes)
    BY <1>1, WindowAssumption, NewestFact, ReverseFact DEF RecentOutcomes
  <2>2. s \in ScanShape
    BY <2>1 DEF ScanShape, ScanStages
  <2>3. sc' = [sc EXCEPT ![p] = s] /\ sc[p].at # "idle"
    BY <1>8 DEF ReadOutcomes
  <2>4. sc' \in [Scanners -> ScanShape] /\ C' \in Nat /\ C' <= C
    BY <1>6, <2>2, <2>3
  <2>5. /\ strays' = strays /\ enabled' = enabled /\ open' = open /\ resolved' = resolved
    BY <1>8 DEF ReadOutcomes
  <2>6. strays \in Nat /\ C \in Nat /\ M \in Nat /\ C' \in Nat /\ C' <= C
    BY <1>1, <1>2, <2>4
  <2>7. \A k, c, d, m \in Nat : d <= c /\ k + c <= m => k + d <= m
    OBVIOUS
  <2>8. ~enabled => strays + C' <= M
    BY <1>1, <2>6, <2>7
  <2>. QED
    BY <1>1, <1>5, <2>4, <2>5, <2>8
<1>9. ASSUME NEW p \in Scanners, sc' = [sc EXCEPT ![p] = Idle], sc[p].at # "idle"
      PROVE  sc' \in [Scanners -> ScanShape] /\ C' \in Nat /\ C' = C - 1
  BY <1>3, <1>6, <1>9
<1>10. ASSUME NEW p \in Scanners, Publish(p)
       PROVE  GuardsInv'
  <2>1. sc' \in [Scanners -> ScanShape] /\ C' \in Nat /\ C' = C - 1
    BY <1>9, <1>10 DEF Publish
  <2>2. /\ strays' = IF enabled THEN 0 ELSE strays + 1
        /\ enabled' = enabled /\ open' = open + 1 /\ resolved' = resolved
    BY <1>10 DEF Publish
  <2>3. CASE enabled
    BY <1>1, <1>5, <2>1, <2>2, <2>3
  <2>4. CASE ~enabled
    <3>1. strays' = strays + 1 /\ strays' + C' <= M
      BY <1>1, <1>2, <2>1, <2>2, <2>4
    <3>. QED
      BY <1>1, <1>5, <2>1, <2>2, <2>4, <3>1
  <2>. QED
    BY <2>3, <2>4
<1>11. ASSUME NEW p \in Scanners, Disable(p)
       PROVE  GuardsInv'
  <2>1. sc' \in [Scanners -> ScanShape] /\ C' \in Nat /\ C' = C - 1
    BY <1>9, <1>11 DEF Disable
  <2>2. enabled' = FALSE /\ strays' = strays /\ open' = open /\ resolved' = resolved
    BY <1>11 DEF Disable
  <2>3. strays + C' <= M
    BY <1>1, <1>2, <2>1
  <2>. QED
    BY <1>1, <1>5, <2>1, <2>2, <2>3
<1>12. ASSUME NEW p \in Scanners, Drop(p)
       PROVE  GuardsInv'
  <2>1. sc' \in [Scanners -> ScanShape] /\ C' \in Nat /\ C' = C - 1
    BY <1>9, <1>12 DEF Drop
  <2>2. enabled' = enabled /\ strays' = strays /\ open' = open /\ resolved' = resolved
    BY <1>12 DEF Drop
  <2>3. ~enabled => strays + C' <= M
    BY <1>1, <1>2, <2>1
  <2>. QED
    BY <1>1, <1>5, <2>1, <2>2, <2>3
\* The steps that move no run.
<1>13. ASSUME sc' = sc
       PROVE  C' = C
  BY <1>13 DEF C, Busy
<1>14. ASSUME NEW r \in Outcomes, NEW at \in 1..MaxSignals, Resolve(r, at)
       PROVE  GuardsInv'
  <2>1. InsertAt(resolved, at, r) \in Seq(Outcomes)
    <3>1. at \in {Len(resolved), Len(resolved) + 1} \ {0} /\ Len(resolved) \in Nat
      BY <1>1, <1>14 DEF Resolve
    <3>2. /\ 1 \in 1..(Len(resolved) + 1) /\ at - 1 \in 0..Len(resolved)
          /\ at \in 1..(Len(resolved) + 1) /\ Len(resolved) \in 0..Len(resolved)
      BY <3>1
    <3>3. /\ SubSeq(resolved, 1, at - 1) \in Seq(Outcomes)
          /\ SubSeq(resolved, at, Len(resolved)) \in Seq(Outcomes)
      BY <1>1, <3>2, SubSeqProperties
    <3>4. <<r>> \in Seq(Outcomes)
      OBVIOUS
    <3>. QED
      BY <3>3, <3>4, ConcatProperties DEF InsertAt
  <2>2. /\ resolved' = InsertAt(resolved, at, r) /\ open' = open - 1 /\ open > 0
        /\ enabled' = enabled /\ sc' = sc /\ strays' = strays
    BY <1>14 DEF Resolve
  <2>. QED
    BY <1>1, <1>5, <1>13, <2>1, <2>2
<1>15. CASE Expire
  <2>1. /\ open' = open - 1 /\ open > 0 /\ resolved' = resolved
        /\ enabled' = enabled /\ sc' = sc /\ strays' = strays
    BY <1>15 DEF Expire
  <2>. QED
    BY <1>1, <1>5, <1>13, <2>1
<1>16. CASE Enable
  <2>1. /\ open' = open /\ resolved' = resolved
        /\ enabled' = TRUE /\ sc' = sc /\ strays' = 0
    BY <1>16 DEF Enable
  <2>. QED
    BY <1>1, <1>5, <2>1
<1>17. CASE Shadow
  <2>1. /\ open' = open /\ resolved' = resolved /\ enabled
        /\ enabled' = FALSE /\ sc' = sc /\ strays' = strays
    BY <1>17 DEF Shadow
  <2>2. strays' + C' <= M
    BY <1>1, <1>2, <1>13, <2>1
  <2>. QED
    BY <1>1, <1>5, <2>1, <2>2
<1>18. CASE UNCHANGED guardsVars
  <2>1. /\ open' = open /\ resolved' = resolved
        /\ enabled' = enabled /\ sc' = sc /\ strays' = strays
    BY <1>18 DEF guardsVars
  <2>. QED
    BY <1>1, <1>5, <1>13, <2>1
<1>. QED
  BY <1>7, <1>8, <1>10, <1>11, <1>12, <1>14, <1>15, <1>16, <1>17, <1>18 DEF GuardsNext, Scan

LEMMA GuardsInitially == GuardsInit => GuardsInv
<1>. SUFFICES ASSUME GuardsInit PROVE GuardsInv
  OBVIOUS
<1>1. Idle \in ScanShape /\ <<>> \in Seq(Outcomes)
  BY EmptySeq DEF Idle, ScanShape, ScanStages
<1>2. sc \in [Scanners -> ScanShape]
  BY <1>1 DEF GuardsInit
<1>3. strays + Cardinality(Busy) <= Cardinality(Scanners)
  BY BusyFact DEF GuardsInit
<1>. QED
  BY <1>1, <1>2, <1>3 DEF GuardsInit, GuardsInv, OnlyInFlightPublish, Busy

LEMMA LockedOutStays ==
    ASSUME GuardsInv, LockedOut, [GuardsNext]_guardsVars
    PROVE  LockedOut'
<1>1. /\ open = 0 /\ Losing(resolved, GuardWindow)
      /\ \A p \in Scanners : sc[p].at = "read" => GuardFails(sc[p].outcomes)
      /\ sc \in [Scanners -> ScanShape]
  BY DEF LockedOut, GuardsInv
<1>2. ASSUME NEW p \in Scanners, NEW s \in ScanShape, sc' = [sc EXCEPT ![p] = s],
             s.at = "read" => GuardFails(s.outcomes),
             resolved' = resolved, open' = open
      PROVE  LockedOut'
  <2>1. \A q \in Scanners : sc'[q] = IF q = p THEN s ELSE sc[q]
    BY <1>1, <1>2
  <2>2. \A q \in Scanners : sc'[q].at = "read" => GuardFails(sc'[q].outcomes)
    BY <1>1, <1>2, <2>1
  <2>. QED
    BY <1>1, <1>2, <2>2 DEF LockedOut, GuardFails
<1>3. Idle \in ScanShape /\ Idle.at = "idle"
  BY EmptySeq DEF Idle, ScanShape, ScanStages
<1>4. ASSUME NEW p \in Scanners, CheckState(p)
      PROVE  LockedOut'
  <2>. DEFINE s == [sc[p] EXCEPT !.at = "checked"]
  <2>1. s \in ScanShape /\ s.at = "checked"
    BY <1>1 DEF ScanShape, ScanStages
  <2>2. sc' = [sc EXCEPT ![p] = s] /\ resolved' = resolved /\ open' = open
    BY <1>4 DEF CheckState
  <2>. HIDE DEF s
  <2>. QED
    BY <1>2, <2>1, <2>2
<1>5. ASSUME NEW p \in Scanners, ReadOutcomes(p)
      PROVE  LockedOut'
  <2>. DEFINE s == [at |-> "read", outcomes |-> RecentOutcomes(GuardWindow)]
  <2>1. RecentOutcomes(GuardWindow) \in Seq(Outcomes)
    BY WindowAssumption, NewestFact, ReverseFact DEF RecentOutcomes, GuardsInv
  <2>2. s \in ScanShape
    BY <2>1 DEF ScanShape, ScanStages
  <2>3. s.outcomes = RecentOutcomes(GuardWindow)
    OBVIOUS
  <2>4. GuardFails(s.outcomes)
    BY <1>1, <2>3, LostIsRead
  <2>5. sc' = [sc EXCEPT ![p] = s] /\ resolved' = resolved /\ open' = open
    BY <1>5 DEF ReadOutcomes
  <2>. HIDE DEF s
  <2>. QED
    BY <1>2, <2>2, <2>4, <2>5
<1>6. ASSUME NEW p \in Scanners, Publish(p)
      PROVE  LockedOut'
  BY <1>1, <1>6 DEF Publish
<1>7. ASSUME NEW p \in Scanners, Disable(p) \/ Drop(p)
      PROVE  LockedOut'
  <2>1. sc' = [sc EXCEPT ![p] = Idle] /\ resolved' = resolved /\ open' = open
    BY <1>7 DEF Disable, Drop
  <2>. QED
    BY <1>2, <1>3, <2>1
<1>8. CASE Expire \/ \E r \in Outcomes, at \in 1..MaxSignals : Resolve(r, at)
  BY <1>1, <1>8 DEF Expire, Resolve
<1>9. CASE Enable \/ Shadow \/ UNCHANGED guardsVars
  <2>1. sc' = sc /\ resolved' = resolved /\ open' = open
    BY <1>9 DEF Enable, Shadow, guardsVars
  <2>. QED
    BY <1>1, <2>1 DEF LockedOut, GuardFails
<1>. QED
  BY <1>4, <1>5, <1>6, <1>7, <1>8, <1>9 DEF GuardsNext, Scan

\* Every signal of a disabled strategy costs a run that had found it enabled
\* (scan.py, is_enabled is read once and long before the COMMIT).
THEOREM GuardsInvariance == GuardsSpec => []GuardsInv
<1>1. GuardsInit => GuardsInv
  BY GuardsInitially
<1>2. GuardsInv /\ [GuardsNext]_guardsVars => GuardsInv'
  BY GuardsStep
<1>. QED
  BY <1>1, <1>2, PTL DEF GuardsSpec

\* A disabled strategy publishes at most one signal for each run that was in flight, for
\* any number of runs.
THEOREM OnlyRunsInFlightPublish == GuardsSpec => []OnlyInFlightPublish
<1>1. GuardsInv => OnlyInFlightPublish
  BY DEF GuardsInv
<1>. QED
  BY <1>1, GuardsInvariance, PTL

\* GR-13 never opens again (limits.py, check_expectancy_guard): a full window with a
\* negative sum, with no signal open and no run that read an older one, is the end of
\* the strategy, for every window and all outcomes.
THEOREM LockOutNeverEnds == GuardsSpec => LockOutIsFinal
<1>. DEFINE Final == LockedOut => LockedOut'
<1>1. GuardsInv /\ [GuardsNext]_guardsVars => [Final]_guardsVars
  BY LockedOutStays
<1>. QED
  BY <1>1, GuardsInvariance, PTL DEF GuardsSpec, LockOutIsFinal
=============================================================================
