-------------------------- MODULE CalendarSources --------------------------
(***************************************************************************)
(* The economic calendar: sync_calendar asks the sources of a              *)
(* CompositeCalendarProvider in order, stores the first non-empty answer   *)
(* and the health of every source, and tells the operator through          *)
(* AlertManager; run_scan derives from the stored times whether the        *)
(* calendar is stale, which closes GR-07b.                                 *)
(*                                                                         *)
(* The composite is built for one sync and forgotten after it, so the      *)
(* health it hands over to the table knows nothing of earlier syncs.       *)
(***************************************************************************)
EXTENDS CalendarFeeds

CONSTANTS
    Configured,     \* names of the enabled sources, a sequence in configured order
    FinnhubKey,     \* is there a FINNHUB_API_KEY
    StaleAfter,     \* calendar.stale_after_hours, in ticks
    AlertCooldown,  \* cooldown of PROVIDER_DOWN alerts, in ticks
    TelegramAnswers,  \* may a message be delivered, may it fail: a set of booleans
    LastTick         \* bound on the clock

\* _make_calendar_provider: an unknown name and a Finnhub without its key are skipped.
CanBeBuilt(name) == name \in SourceNames /\ (name = "finnhub" => FinnhubKey)

Sources == SelectSeq(Configured, CanBeBuilt)

ASSUME SourcesAssumption ==
    /\ FinnhubKey \in BOOLEAN
    /\ Sources \in Seq(SourceNames) /\ Sources # <<>>
    /\ \A i, j \in DOMAIN Sources : Sources[i] = Sources[j] => i = j
ASSUME TimesAssumption == StaleAfter \in Nat \ {0} /\ AlertCooldown \in Nat /\ LastTick \in Nat

VARIABLES
    now,
    lastSuccess,    \* calendar_source_health.last_success; Never is NULL
    failures,       \* calendar_source_health.consecutive_failures
    fetchedAt,      \* newest fetched_at of the stored events
    sync,           \* the sync under way
    lastSent,       \* AlertManager._last_sent of the provider_down alerts
    verified,       \* history: when each source last gave events that were stored
    lastSync,       \* history: how the last sync ended
    told            \* history: what Telegram delivered during that sync

tables == <<lastSuccess, failures, fetchedAt>>
calendarVars == <<now, lastSuccess, failures, fetchedAt, sync, lastSent, verified, lastSync, told>>

Never == 0
Names == {Sources[i] : i \in DOMAIN Sources}
Clean == [s \in Names |-> Never]

\* i is the source being asked; failed and empty are fetch_events' lists, success
\* and errors the health that the composite keeps.
Idle == [at |-> "idle", i |-> 1, failed |-> {}, empty |-> {}, success |-> Clean, events |-> Never]

CalendarInit ==
    /\ now = 1
    /\ lastSuccess = Clean
    /\ failures = [s \in Names |-> 0]
    /\ fetchedAt = Never
    /\ sync = Idle
    /\ lastSent = Never
    /\ verified = Clean
    /\ lastSync = "none"
    /\ told = {}

-----------------------------------------------------------------------------
\* _calendar_alert: all of these alerts share one type and one title, so one
\* cooldown; only a delivered message starts it.
Suppressed == lastSent # Never /\ now - lastSent < AlertCooldown

Alert(message) ==
    \E delivered \in TelegramAnswers :
        LET sent == delivered /\ ~Suppressed
        IN  /\ lastSent' = IF sent THEN now ELSE lastSent
            /\ told' = IF sent THEN told \cup {message} ELSE told

BeginSync ==
    /\ sync.at = "idle"
    /\ sync' = [Idle EXCEPT !.at = "ask"]
    /\ told' = {}
    /\ lastSync' = "none"
    /\ UNCHANGED <<now, tables, lastSent, verified>>

\* After the source at i gave nothing: the next one, or the end of the list.
NextSource(s) ==
    [s EXCEPT !.i = IF @ < Len(Sources) THEN @ + 1 ELSE @,
              !.at = IF @ = "ask" /\ sync.i = Len(Sources)
                     THEN IF s.empty = {} THEN "outage" ELSE "empty"
                     ELSE IF s.failed = {} THEN "ask" ELSE "fallback"]

\* The fallback alert comes before the next source is asked.
Fallback ==
    /\ sync.at = "fallback"
    /\ Alert("fallback")
    /\ sync' = [sync EXCEPT !.at = "ask"]
    /\ UNCHANGED <<now, tables, verified, lastSync>>

SourceFails ==
    /\ sync.at = "ask"
    /\ "failed" \in Outcomes[Sources[sync.i]]
    /\ sync' = NextSource([sync EXCEPT !.failed = @ \cup {Sources[sync.i]}])
    /\ UNCHANGED <<now, tables, lastSent, verified, lastSync, told>>

\* Mutant of SourceEmpty, the defect B1: an empty answer counts as a success.
SourceEmpty_Counts ==
    /\ sync.at = "ask"
    /\ "empty" \in Outcomes[Sources[sync.i]]
    /\ sync' = [sync EXCEPT !.success[Sources[sync.i]] = now, !.at = "store"]
    /\ UNCHANGED <<now, tables, lastSent, verified, lastSync, told>>

SourceEmpty ==
    /\ sync.at = "ask"
    /\ "empty" \in Outcomes[Sources[sync.i]]
    /\ sync' = NextSource([sync EXCEPT !.empty = @ \cup {Sources[sync.i]}])
    /\ UNCHANGED <<now, tables, lastSent, verified, lastSync, told>>

SourceAnswers ==
    /\ sync.at = "ask"
    /\ "events" \in Outcomes[Sources[sync.i]]
    /\ sync' = [sync EXCEPT !.success[Sources[sync.i]] = now, !.events = now,
                            !.at = IF sync.failed = {} THEN "store" ELSE "recovered"]
    /\ UNCHANGED <<now, tables, lastSent, verified, lastSync, told>>

Recovered ==
    /\ sync.at = "recovered"
    /\ Alert("recovered")
    /\ sync' = [sync EXCEPT !.at = "store"]
    /\ UNCHANGED <<now, tables, verified, lastSync>>

\* No source failed to answer and none gave events: an empty list is stored.
AllEmpty ==
    /\ sync.at = "empty"
    /\ Alert("empty")
    /\ sync' = [sync EXCEPT !.at = "store"]
    /\ UNCHANGED <<now, tables, verified, lastSync>>

\* Every source failed: the alert, then ProviderError, and nothing is stored.
Outage ==
    /\ sync.at = "outage"
    /\ Alert("outage")
    /\ sync' = [sync EXCEPT !.at = "failing"]
    /\ UNCHANGED <<now, tables, verified, lastSync>>

\* _run_job tells the operator of the exception without a type: no cooldown.
JobFails ==
    /\ sync.at = "failing"
    /\ \E delivered \in TelegramAnswers :
        told' = IF delivered THEN told \cup {"job failed"} ELSE told
    /\ lastSync' = "outage"
    /\ sync' = Idle
    /\ UNCHANGED <<now, tables, lastSent, verified>>

\* Events and the health of every source, in one transaction.
StoreEvents ==
    /\ sync.at = "store"
    /\ lastSuccess' = sync.success
    /\ failures' = [s \in Names |-> IF s \in sync.failed THEN 1 ELSE 0]
    /\ fetchedAt' = IF sync.events # Never THEN sync.events ELSE fetchedAt
    /\ verified' = [s \in Names |-> IF sync.events # Never /\ sync.success[s] # Never
                                    THEN sync.success[s] ELSE verified[s]]
    /\ lastSync' = IF sync.events # Never THEN "stored" ELSE "empty"
    /\ sync' = Idle
    /\ UNCHANGED <<now, lastSent, told>>

\* The process ends; the restarted one has an AlertManager without a past.
SyncDies ==
    /\ sync.at # "idle"
    /\ sync' = Idle
    /\ lastSent' = Never
    /\ lastSync' = "none"
    /\ UNCHANGED <<now, tables, verified, told>>

CalendarTick ==
    /\ now < LastTick
    /\ now' = now + 1
    /\ UNCHANGED <<tables, sync, lastSent, verified, lastSync, told>>

CalendarNext ==
    \/ BeginSync \/ Fallback \/ SourceFails \/ SourceEmpty \/ SourceAnswers
    \/ Recovered \/ AllEmpty \/ Outage \/ JobFails \/ StoreEvents \/ SyncDies \/ CalendarTick

CalendarSpec == CalendarInit /\ [][CalendarNext]_calendarVars

-----------------------------------------------------------------------------
\* run_scan: the newest success, or else the newest event that was stored.
CalendarTs ==
    LET freshest == Max({lastSuccess[s] : s \in Names})
    IN  IF freshest # Never THEN freshest ELSE fetchedAt

\* calendar_stale of a scan at this moment (not for crypto).
Stale == CalendarTs = Never \/ now - CalendarTs > StaleAfter

Verified == Max({verified[s] : s \in Names})

CalendarTypeOK ==
    /\ now \in 1..Max({LastTick, 1})
    /\ lastSuccess \in [Names -> 0..now] /\ verified \in [Names -> 0..now]
    /\ failures \in [Names -> 0..1]
    /\ fetchedAt \in 0..now /\ lastSent \in 0..now
    /\ sync.at \in {"idle", "fallback", "ask", "recovered", "empty", "outage", "failing", "store"}
    /\ sync.at = "outage" => sync.failed = Names
    /\ sync.i \in DOMAIN Sources
    /\ sync.failed \cup sync.empty \subseteq Names
    /\ sync.success \in [Names -> 0..now] /\ sync.events \in 0..now
    /\ lastSync \in {"none", "stored", "empty", "outage"}
    /\ told \subseteq {"fallback", "recovered", "empty", "outage", "job failed"}

\* The gate fails closed (composite_calendar.py:24): whatever order of failures,
\* empty answers, fallbacks and crashes came before, a scan that sees a fresh
\* calendar has one whose events were fetched and stored within StaleAfter.
FailsClosed == ~Stale => Verified # Never /\ now - Verified <= StaleAfter

\* composite_calendar.py:23: last_success is the last verified fetch of a source.
LastSuccessKept == lastSuccess = verified

\* IMPLEMENTATION_PLAN_v2.md, P1-2: an outage shows in the stored health within
\* one sync.
OutageIsShown == lastSync = "outage" => \E s \in Names : failures[s] > 0

\* audit-remediation.md:169: after a sync in which all sources were empty the
\* staleness gate blocks.
EmptyBlocks == lastSync = "empty" => Stale

\* composite_calendar.py:3: an alert is emitted on total staleness.  With a
\* Telegram that answers, the operator hears of a sync that brought nothing.
EmptyIsTold ==
    (lastSync = "empty" /\ sync.at = "idle") => told \cap {"empty", "job failed"} # {}
=============================================================================
