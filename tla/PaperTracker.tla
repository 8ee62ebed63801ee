---------------------------- MODULE PaperTracker ----------------------------
(***************************************************************************)
(* pipeline/scan.py:track_paper_signals on one published signal, next to   *)
(* the transaction that records the signal's delivery.                     *)
(*                                                                         *)
(* Each run of the tracker reads the signal and every closed bar since its *)
(* publication, replays them, and commits the new status together with a   *)
(* payload it computed from the one it read.  mark_delivery reads the      *)
(* payload too, waits for the lock of the audit chain, and writes it back. *)
(* Both hold the row lock from their first UPDATE to their COMMIT.         *)
(***************************************************************************)
EXTENDS PaperReplay

CONSTANTS
    Trades,     \* the signals that may be published
    Bars,       \* the bars the market may print
    Minutes,    \* sequences of minute bars
    Crypto,     \* minute bars are fetched for crypto only
    MaxBars     \* bound: closed bars after the publication

ASSUME TradesAssumption ==
    \A t \in Trades :
        /\ t.action \in {"BUY", "SELL"}
        /\ t.sl \in Int /\ t.entry \in Int /\ t.tp \in Int /\ t.validUntil \in Nat
ASSUME BarsAssumption ==
    \A b \in Bars : b.low \in Int /\ b.high \in Int /\ b.low <= b.high
ASSUME BoundAssumption == MaxBars \in Nat /\ Crypto \in BOOLEAN

VARIABLES
    trade,   \* the signal's levels
    bars,    \* closed bars with open time at or after published_at
    row,     \* the committed row: status, resolution bar, payload keys
    track,   \* the tracker's transaction: stage, what it read, its update
    mark     \* the delivery transaction: stage and the payload it read

vars == <<trade, bars, row, track, mark>>

Open == {"PUBLISHED", "FILLED"}
Resolved == {"TP_HIT", "SL_HIT"}
Key == {"delivery", "resolution", "exits"}

NoTrack == [stage |-> "idle", payload |-> {}, update |-> NoUpdate]

Init ==
    /\ trade \in Trades
    /\ bars = <<>>
    /\ row = [status |-> "PUBLISHED", at |-> 0, payload |-> {}]
    /\ track = NoTrack
    /\ mark = [stage |-> "due", payload |-> {}]

\* Ingestion stores the next closed bar.
NewBar(bar) ==
    /\ Len(bars) < MaxBars
    /\ bars' = Append(bars, bar)
    /\ UNCHANGED <<trade, row, track, mark>>

-----------------------------------------------------------------------------
\* The tracker.

\* On an ambiguous bar the minute bars, if they can be fetched, may turn a stop
\* loss into a take profit.
MinuteResolved(update, minutes) ==
    IF Crypto /\ minutes # <<>> /\ update.status = "SL_HIT"
          /\ Ambiguous(trade, bars, update.at)
    THEN [update EXCEPT !.status = FirstHit(trade, minutes)]
    ELSE update

\* Mutant of TrackRead: the status of the row is not looked at.
TrackRead_AnyStatus(minutes) ==
    /\ track.stage = "idle"
    /\ LET update == Replay(trade, row.status = "FILLED", bars) IN
        /\ update.status \notin {"none", row.status}
        /\ track' = [stage |-> "read", payload |-> row.payload,
                     update |-> MinuteResolved(update, minutes)]
    /\ UNCHANGED <<trade, bars, row, mark>>

\* open_for_tracking, get_range and replay_signal; a run that finds no update
\* leaves the signal alone.
TrackRead(minutes) ==
    /\ track.stage = "idle"
    /\ row.status \in Open
    /\ LET update == Replay(trade, row.status = "FILLED", bars) IN
        /\ update.status \notin {"none", row.status}
        /\ track' = [stage |-> "read", payload |-> row.payload,
                     update |-> MinuteResolved(update, minutes)]
    /\ UNCHANGED <<trade, bars, row, mark>>

\* update_tracking_status takes the row lock; the coroner's LLM call and the
\* rest of the run happen while it is held.
TrackUpdate ==
    /\ track.stage = "read"
    /\ mark.stage # "written"
    /\ track' = [track EXCEPT !.stage = "written"]
    /\ UNCHANGED <<trade, bars, row, mark>>

\* merge_payload adds its keys to the payload as it was read.
TrackCommit ==
    /\ track.stage = "written"
    /\ row' = [status |-> track.update.status, at |-> track.update.at,
               payload |-> track.payload \cup {"resolution"}
                    \cup (IF track.update.status \in Resolved THEN {"exits"} ELSE {})]
    /\ track' = NoTrack
    /\ UNCHANGED <<trade, bars, mark>>

\* The run fails, on this signal or another one: nothing of it is committed.
TrackAbort ==
    /\ track.stage # "idle"
    /\ track' = NoTrack
    /\ UNCHANGED <<trade, bars, row, mark>>

-----------------------------------------------------------------------------
\* The second transaction of run_scan.

MarkRead ==
    /\ mark.stage = "due"
    /\ mark' = [stage |-> "read", payload |-> row.payload]
    /\ UNCHANGED <<trade, bars, row, track>>

\* The flush before the audit row's SELECT, once the chain lock is granted.
MarkUpdate ==
    /\ mark.stage = "read"
    /\ track.stage # "written"
    /\ mark' = [mark EXCEPT !.stage = "written"]
    /\ UNCHANGED <<trade, bars, row, track>>

MarkCommit ==
    /\ mark.stage = "written"
    /\ row' = [row EXCEPT !.payload = mark.payload \cup {"delivery"}]
    /\ mark' = [mark EXCEPT !.stage = "done"]
    /\ UNCHANGED <<trade, bars, track>>

\* The run dies before its second COMMIT: the delivery is never recorded.
MarkAbort ==
    /\ mark.stage # "done"
    /\ mark' = [mark EXCEPT !.stage = "done"]
    /\ UNCHANGED <<trade, bars, row, track>>

-----------------------------------------------------------------------------
Next ==
    \/ \E bar \in Bars : NewBar(bar)
    \/ \E minutes \in Minutes : TrackRead(minutes)
    \/ TrackUpdate
    \/ TrackCommit
    \/ TrackAbort
    \/ MarkRead
    \/ MarkUpdate
    \/ MarkCommit
    \/ MarkAbort

Spec == Init /\ [][Next]_vars

\* The tracker runs every 15 minutes; a run may fail, but not every one does.
\* A delivery transaction that holds the row lock ends, one way or the other.
FairSpec ==
    /\ Spec
    /\ WF_vars(\E minutes \in Minutes : TrackRead(minutes))
    /\ SF_vars(TrackUpdate) /\ SF_vars(TrackCommit)
    /\ WF_vars(MarkCommit \/ MarkAbort)

-----------------------------------------------------------------------------
\* Properties.

\* The types of the state.
TypeOK ==
    /\ trade \in Trades
    /\ bars \in Seq(Bars)
    /\ row.status \in Open \cup Resolved \cup {"EXPIRED"}
    /\ row.at \in 0 .. Len(bars) /\ row.payload \subseteq Key
    /\ track.stage \in {"idle", "read", "written"} /\ track.payload \subseteq Key
    /\ mark.stage \in {"due", "read", "written", "done"} /\ mark.payload \subseteq Key

\* A paper trade has an outcome only if its limit order was touched while it was
\* valid, however the runs of the tracker split the bars between them.
ResolvedWasFilled ==
    row.status \in Resolved => Fills(trade, bars) # {}

\* Worst case first: from the fill to the bar of a take profit no bar touched the
\* stop loss, unless the minute bars of that very bar say which came first.
WorstCase ==
    row.status = "TP_HIT" =>
        \A i \in Min(Fills(trade, bars)) .. row.at :
            SlHit(trade, bars[i]) => Crypto /\ i = row.at

\* What was committed as resolved or expired is never taken back or moved to another
\* bar, however often the tracker runs and although the delivery transaction writes
\* the row with a payload it read before (repositories.py:359).
OutcomeIsFinal ==
    [][row.status \notin Open => row'.status = row.status /\ row'.at = row.at]_vars

\* An order that was not touched while it was valid does not stay PUBLISHED once
\* a later bar has closed.
UnfilledExpires ==
    Len(bars) > trade.validUntil ~> row.status # "PUBLISHED"

-----------------------------------------------------------------------------
\* What documents of the repository say and the code does not do.

\* replay_signal, on all the bars at once, is the outcome the tracker reaches run
\* after run ("consistent with backtester ... TP on fill bar IGNORED").
OutcomeIsReplay ==
    row.status \in Resolved /\ ~ Crypto =>
        Replay(trade, FALSE, bars) = [status |-> row.status, at |-> row.at]

\* papertrack/tracker.py: "FILLED -> TP_HIT / SL_HIT / EXPIRED": a run that sees a
\* bar past valid_until does not leave the signal FILLED.
FilledExpires ==
    row.status = "FILLED" /\ Len(bars) > trade.validUntil =>
        Replay(trade, TRUE, bars) # NoUpdate

\* merge_payload: "Read-modify-write one key": the other keys stay.
PayloadKept == [][row.payload \subseteq row'.payload]_vars
=============================================================================
