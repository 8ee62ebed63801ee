--------------------------- MODULE CalendarFeeds ----------------------------
(***************************************************************************)
(* One calendar source's fetch_events: what it makes of what its server,   *)
(* or for the curated calendar its file, gives it                          *)
(* (data/{investing,nasdaq,finnhub,static}_calendar.py).                   *)
(*                                                                         *)
(* An exchange is one request, or one reading of the file: how it went,    *)
(* and the rows of a body that holds a list of events.                     *)
(***************************************************************************)
EXTENDS Integers, Sequences, FiniteSetsExt

SourceNames == {"investing", "nasdaq", "finnhub", "static_high_impact"}

\* "lost" never reached the server; "limited" is 429, "refused" any other status
\* above 400, or a file that cannot be read; "garbled" is not JSON; "headless" is a
\* JSON object without the list of events, "drift" any other JSON.
Unlisted == {"lost", "limited", "refused", "garbled", "headless", "drift"}

\* day: "full" is YYYY-MM-DD HH:MM:SS, "iso" another ISO form, "odd" neither; asked:
\* it is one of the days that were asked for.
Row == [record : {TRUE}, name : {"absent", "text", "other"}, asked : BOOLEAN,
        day : {"absent", "full", "iso", "odd"}]
NoRow == [record |-> FALSE, name |-> "absent", asked |-> FALSE, day |-> "absent"]

\* Nasdaq's rows are lists, which only the names of the columns make records.
Listed(rows, named) == [went |-> "listed", rows |-> rows, named |-> named]
Failed(how) == [went |-> how, rows |-> {}, named |-> TRUE]

\* No row, one or two: enough for a body in which one is good and another is not.
Body == LET row == Row \cup {NoRow} IN {{}} \cup {{first, second} : first, second \in row}

Exchange ==
    {Failed(how) : how \in Unlisted} \cup {Listed(rows, named) : rows \in Body, named \in BOOLEAN}

-----------------------------------------------------------------------------
\* tenacity: three attempts while what came back is what this provider retries.
MaxAttempts == 3

Transient(source) ==
    CASE source \in {"investing", "nasdaq"} -> {"lost"}
      [] source = "finnhub"                 -> {"limited"}
      [] source = "static_high_impact"      -> {}

Answer(source, exchanges) ==
    exchanges[Min({i \in DOMAIN exchanges :
                    i = MaxAttempts \/ exchanges[i].went \notin Transient(source)})]

\* Investing and Nasdaq read a full date and time, and else any ISO form.
ReadableDay == {"full", "iso"}

\* What a web source makes of its rows: those it cannot use it leaves out, whichever
\* days they are about, but a row that raises condemns them all.
Kept(usable, raising) ==
    IF raising # {} THEN "failed" ELSE IF usable # {} THEN "events" ELSE "empty"

Named(rows) == {row \in rows : row.name # "absent" /\ row.day \in ReadableDay}
NoRecord(rows) == {row \in rows : ~row.record}

InvestingReply(answer) ==
    IF answer.went = "listed" THEN Kept(Named(answer.rows), NoRecord(answer.rows)) ELSE "failed"

\* Without the columns' names every row is bare.
NasdaqReply(answer) ==
    CASE answer.went # "listed"                 -> "failed"
      [] answer.went = "listed" /\ answer.named -> Kept(Named(answer.rows), NoRecord(answer.rows))
      [] OTHER                                  -> "empty"

\* Finnhub reads the full form only, and a name that is no text raises.
FinnhubReply(answer) ==
    LET usable == {row \in answer.rows : row.name # "absent" /\ row.day = "full"}
        raising == NoRecord(answer.rows) \cup {row \in usable : row.name = "other"}
    IN  IF answer.went = "listed" THEN Kept(usable, raising) ELSE "failed"

\* One bad entry condemns the curated file, a file without the list is an empty one,
\* and only the days asked for are given.
StaticReply(answer) ==
    LET bad(row) == ~row.record \/ row.name = "absent" \/ row.day \notin ReadableDay IN
    CASE answer.went \in Unlisted \ {"headless"} \/ (\E row \in answer.rows : bad(row))
            -> "failed"
      [] (\A row \in answer.rows : ~bad(row)) /\ (\E row \in answer.rows : row.asked)
            -> "events"
      [] OTHER -> "empty"

Reply(source, answer) ==
    CASE source = "investing"          -> InvestingReply(answer)
      [] source = "nasdaq"             -> NasdaqReply(answer)
      [] source = "finnhub"            -> FinnhubReply(answer)
      [] source = "static_high_impact" -> StaticReply(answer)

\* How a call of a source may end, whichever attempt meets an exchange.
Outcomes ==
    [source \in SourceNames |->
        LET attempts == [1..MaxAttempts -> {Failed(how) : how \in Transient(source) \cup {"refused"}}]
        IN  {Reply(source, Answer(source, [exchanges EXCEPT ![i] = exchange])) :
                exchanges \in attempts, i \in 1..MaxAttempts, exchange \in Exchange}]
=============================================================================
