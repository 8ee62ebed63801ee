---------------------------- MODULE MCSignalPath ----------------------------
\* Small instances of SignalPath for TLC: frames about a centre of 20000.
EXTENDS SignalPath

MCBar(o, c, wick, ema50, rsi) ==
    [open |-> o, close |-> c, low |-> Lowest({o, c}) - wick, high |-> Highest({o, c}) + wick,
     ema21 |-> 20000, ema50 |-> ema50, rsi |-> rsi]

MCBody(o, c) == [open |-> o, close |-> c]

MCSwing(price, is_high) == [price |-> price, is_high |-> is_high]

MCStructure ==
    { [swings |-> {}, supertrend |-> "", bias |-> ""],
      [swings |-> {MCSwing(19900, FALSE), MCSwing(20130, TRUE)}, supertrend |-> "UP", bias |-> ""],
      [swings |-> {MCSwing(19600, FALSE), MCSwing(20020, TRUE)}, supertrend |-> "", bias |-> "DOWN"] }

MCS1 ==
    { [bars |-> <<MCBar(p.open, p.close, 20, ema50, r1), MCBar(b.open, b.close, wick, ema50, 60)>>,
       ema200 |-> ema200, adx |-> 30, swings |-> st.swings,
       supertrend |-> st.supertrend, bias |-> st.bias] :
        p \in {MCBody(20030, 20050), MCBody(20070, 19920), MCBody(19910, 19900)}, r1 \in {40, 52},
        b \in {MCBody(20070, 19920), MCBody(20070, 20010), MCBody(20070, 20080), MCBody(19890, 19920)},
        wick \in {0, 90}, ema50 \in {19940, 20070},
        ema200 \in {19800, 20200}, st \in MCStructure }

MCS2 ==
    { [adx |-> 15, close |-> c, band_low |-> 19900, band_high |-> high, rsi |-> rsi,
       width_start |-> 100, width_end |-> w, confirms |-> cf] :
        c \in {19840, 19900, 19940, 20080, 20100, 20360, 20400}, high \in {20100, 20400},
        rsi \in {30, 50, 70}, w \in {100, 135}, cf \in {{"BUY", "SELL"}, {"BUY"}} }

MCS3 ==
    { f \in { [ema_fast |-> ema, ema_mid |-> 20000 + m, ema_fast_prev |-> 20000 + p, vwap |-> 20000 + v,
               low |-> 20000 + l, high |-> 20000 + h, close |-> c, rsi_prev |-> rp, rsi |-> r,
               volume_ok |-> ok] :
                ema \in {20000, 20012}, m \in {-45, 45}, p \in {-30, 30}, v \in {-10, 10},
                l \in {-60, -20}, h \in {20, 60}, c \in {19980, 20020}, rp \in {40, 50, 60},
                r \in {45, 55}, ok \in {TRUE, FALSE} } : f.ema_fast = 20012 => f.volume_ok }

MCZone(idx, dir, bottom, top) == [idx |-> idx, direction |-> dir, bottom |-> bottom, top |-> top]

MCS4 ==
    { [window |-> 8, events |-> ev, sweeps |-> sw, blocks |-> bl, gaps |-> gp] :
        ev \in SUBSET { [idx |-> 10, direction |-> "bullish"], [idx |-> 12, direction |-> "bearish"],
                        [idx |-> 14, direction |-> "bullish"] },
        sw \in SUBSET { [idx |-> 6, side |-> "low", level |-> 19830],
                        [idx |-> 5, side |-> "high", level |-> 20260] },
        bl \in SUBSET { MCZone(9, "bullish", 19950, 19990), MCZone(11, "bearish", 20010, 20050),
                        MCZone(13, "bullish", 19900, 20100) },
        gp \in { {}, {MCZone(8, "bullish", 19930, 19980), MCZone(8, "bearish", 20000, 20090)} } }

MCFrames == [s \in {"s1", "s2", "s3", "s4"} |->
    CASE s = "s1" -> MCS1 [] s = "s2" -> MCS2 [] s = "s3" -> MCS3 [] s = "s4" -> MCS4]

MCContexts ==
    { [close |-> c, ema50 |-> "UP", adx |-> 0, h4 |-> h4, macd |-> "UP", rsi |-> rsi,
       level |-> l, gap |-> g, volume |-> v, session |-> TRUE, funding |-> v = 14] :
        c \in {"UP", "DOWN"}, h4 \in {"none", "UP"}, rsi \in {38, 50, 63},
        l \in {[kind |-> "support", strength |-> 3], [kind |-> "resistance", strength |-> 1]},
        g \in {"UP", "DOWN"}, v \in {NoVolume, 14} }

MCFlaws == {{}, {"body"}, {"body", "wick body", "volume"}, {"spread"}, {"wick", "distance"}}

MCEvent(at, high, related) == [at |-> at, high |-> high, related |-> related]
MCTables == { {}, {MCEvent(-2, TRUE, TRUE)}, {MCEvent(-1, TRUE, TRUE)},
              {MCEvent(1, FALSE, TRUE), MCEvent(2, TRUE, FALSE), MCEvent(3, TRUE, TRUE)},
              {MCEvent(2, TRUE, TRUE)}, {MCEvent(48, TRUE, TRUE)},
              {MCEvent(49, TRUE, TRUE)} }

MCProfile == [s \in {"s1", "s2", "s3", "s4"} |->
    IF s \in {"s1", "s2"} THEN [confluence_min |-> 60, edge_min |-> 65, confidence_min |-> 55]
                          ELSE [confluence_min |-> 50, edge_min |-> 55, confidence_min |-> 50]]

MCAdx == {15, 22, 30}
MCRisks == {5, 10, 20}
MCLotSteps == {0, 1}
MCPrices == {0, 19980, 20300}
MCBoth == BOOLEAN
=============================================================================
