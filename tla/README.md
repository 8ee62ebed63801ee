# Robil-Trade: a TLA+ verification development

Robil-Trade watches instruments (metals, forex, crypto), looks for a trading
setup on every closed bar, sends at most a few signals a day to a Telegram
chat, and follows each signal as a paper trade. It never trades by itself, so
what can go wrong is what it *says*: a signal sent twice or never recorded, a
limit exceeded because two scans ran at once, an audit trail with a hole, an
outcome booked wrongly and then used to steer the next signals. This directory
models those parts in TLA+, checks them with TLC on small instances and proves
the central ones with TLAPS for every instance. Paths below are relative to
`src/rtrade/` of the repository.

## The system

| Component | State | Operations | Talks to |
|---|---|---|---|
| Scheduler `scheduler/` | APScheduler jobs, failure counters | cron scans per instrument and timeframe, tracker every 15 min, calendar sync, health, HMM training, audit verification | calls every job below |
| Scan pipeline `pipeline/scan.py` | none of its own; one session per run | `run_scan`: ingest, frames, regime, candidate, gate, LLM, gate, insert, COMMIT, deliver, record | database, providers, LLM, Telegram |
| Audit chain `persistence/audit_chain.py`, `AuditRepo` | `signal_audits`, each row carrying the hash of the one before | `add` under `pg_advisory_xact_lock`, `verify_chain` | every transaction that audits |
| Signals `SignalRepo` | `signals` rows: key, status, JSON payload | insert, `get_by_dedup`, `count_since`, `recent_outcomes`, `update_tracking_status`, `mark_delivery`, `merge_payload` | scans, tracker, reports |
| Strategy state `StrategyStateRepo` | `strategy_state` | `is_enabled`, `set_state` | scans (GR-13), `/enable_strategy`, `cli/promote.py` |
| Guardrail gate `guardrails/gate.py` | none | `run_gate`: GR-01 .. GR-13, fail-closed on missing required inputs | scans, twice per signal |
| Paper tracker `papertrack/` | none; works on `signals` and candles | `track_paper_signals`, `replay_signal`, minute resolution, analytics | database, providers, LLM coroner |
| Risk `risk/` | none | daily limit, expectancy guard, throttle, sizing | gate, scans |
| LLM pipeline `llm/` | budget of the scan, spend of the day in Redis | analyst, critic, verifier, confidence, escalation, fallback | LLM client |
| LLM client, credential pool `llm/client.py`, `llm/key_manager.py`, `llm/auth/pool.py` | cooldowns, position in the pool | acquire, report | model providers |
| Building the pool `llm/pool_builder.py`, `llm/auth/registry.py`, `cli/auth.py`, `cli/setup.py` | `settings.yaml` routes and profiles, `.env` keys, the pool cached per process | `use`, setup wizard, `build_scan_pool` | token store, LLM client |
| OAuth tokens `llm/auth/oauth2.py`, `cli_oauth.py`, `token_store.py` | one file per login | login, logout, `resolve` with refresh | token endpoints |
| Market data `data/` | rate-limit buckets in Redis, failover state | fetch, ingest, upsert | exchanges |
| Calendar `data/*_calendar.py` | per-source health | read each source's answer, take the first that has events | scans (GR-07) |
| Strategies, scoring `strategies/`, `signals/`, `risk/sizing.py` | none | entry rules, levels, rounding, score, edge filter, grade, size | scans |
| Regime `regime/` | previous regime per symbol | classify with hysteresis, HMM shadow | scans |
| Alerts `monitoring/` | counters, cooldowns | threshold, suppress, send | jobs |
| Delivery `delivery/` | muted flag, API limiter | send, commands, `trigger_scan` | Telegram, HTTP |
| Backtest, ML, CLI, indicators | files, none | numeric evaluation | offline or called by the scan |

What is hard: the jobs share one event loop and one database, so scans, the
tracker and API-triggered scans interleave at every await; one advisory lock
orders all of them, for as long as an LLM call takes; a run may die between
any two of its commits; results are sent after one commit and recorded by
another; the tracker is incremental, and what it records feeds the guards of
the next scan; several processes share a Redis bucket and a token file without
a lock; and a candidate passes a dozen numeric tests, some of them twice, with
rounding in between. `PROJECT.json` lists each of these hazards at its line.

## What makes each part correct

- **Audit chain**: one chain from the genesis, never forked, never rewritten,
  whatever runs interleave and wherever they die.
- **Scan**: one signal per bar and strategy, one message per signal, at most the
  day's number of open signals, a complete audit trail behind every published
  one, and every run ends although runs wait for each other.
- **Tracker and backtest**: an outcome needs a fill, takes the worst case, is
  final, and does not depend on when the tracker ran; where the two differ on a
  trade, they differ in how it is filled.
- **Guards**: they judge the newest outcomes, and a strategy they disabled
  publishes nothing new.
- **LLM budget**: no more is charged than was billed, the calls stop at the cap,
  and the second gate agrees with what the pipeline decided.
- **Credentials**: no credential is asked twice in a call, exhaustion is real;
  a refresh token that reached the file is alive; a command that sets one route
  leaves it, and those that resolved before, resolving.
- **Calendar**: the news gate is open only while the stored events are fresh.
- **Signal path**: no side is favoured, no exception lies between two tests of
  the same rule, no position above its risk, nothing published in a blackout or
  in a regime the strategy does not trade.
- **Scan jobs**: every leg is tried before a scan fails of what providers report,
  every scan ends, and the operator hears of the third failure in a row.
- **Candles**: no holes, no unfinished bars among old ones, and the table
  catches up after an outage.
- **Rate limiter**: the requests of any window are bounded, across processes.
- **Smart exit**: the stop only tightens, and a loss is bounded by the risk.

## Modules

| Module | What it models | Built on |
|---|---|---|
| `AuditLog` | what the audit table promises: an append-only log that is one chain | |
| `ScanPipeline` | concurrent `run_scan`s on one PostgreSQL database, with tracker, operator, clock and crashes around them | instance of `AuditLog` |
| `PaperReplay` | `replay_signal`, `_bar_is_ambiguous`, `resolve_ambiguous_bar` as operators | |
| `PaperTracker` | the tracker's transaction on one signal next to the delivery transaction | `PaperReplay` |
| `BacktestReplay` | `run_backtest` on the same trade and the same market, from an earlier bar on | `PaperTracker` |
| `RiskGuards` | GR-13 and the throttle between scans, tracker and operator | |
| `Strategies` | the setups, levels and confirmations of S1 to S4, as operators on indicator frames | |
| `Scoring` | rounding, level checks, confluence, edge quality, grade, size, as operators in integers | |
| `GuardrailGate` | `run_gate`, GR-02 to GR-13, and the windows of the economic calendar, as operators | `Scoring` |
| `SignalPath` | one candidate from the regime to the published signal, over scans that share the regime memory | `GuardrailGate`, `Strategies` |
| `ContextPack` | the ids and numbers an LLM may cite, and the verifier's checks of its claims | |
| `LlmDecision` | confidence, veto, floor, fallback, doubt band, second gate, as operators | `ContextPack` |
| `LlmBudget` | the LLM part of a scan: calls, caps, escalation, the day's spend in Redis | `LlmDecision` |
| `CredentialPool` | `LLMClient.complete` by two callers over one pool with cooldowns | |
| `OAuthTokens` | one token file: logins, logouts, and processes that refresh a rotating token | |
| `PoolBuilding` | routes and profiles, and `build_scan_pool` on them, as operators | |
| `LlmAccounts` | the commands that change keys, routes and logins, next to processes that build their pool from them | `OAuthTokens`, `PoolBuilding` |
| `CalendarFeeds` | what each calendar source makes of an answer, with its retries, as operators | |
| `CalendarSources` | `sync_calendar`, the composite, the stored health, the alerts, the staleness of a scan | `CalendarFeeds` |
| `CandleIngest` | `_ingest_incremental`, the legs of the composite, `ingest_candles` | |
| `TokenBucket` | what a rate limiter promises: a bucket that fills all the time | |
| `RateLimiter` | the Lua script of `data/ratelimit.py` and the expiring key it works on | instance of `TokenBucket` |
| `ScanJobs` | `scan_job`: legs, retries, failover and the failure alert over the shared bucket | `RateLimiter` |
| `SmartExit` | `apply_smart_exit` bar by bar, the exit price and the result | |
| `FoldLemmas` | induction over finite sets, and what minima, maxima and sums of them are | |
| `ScanPipelineProofs` | theorems about the scan and its audit chain | `ScanPipeline` |
| `OutcomeProofs` | theorems about tracker and backtest, the smart exit, and the guards that read the outcomes | `BacktestReplay`, `SmartExit`, `RiskGuards` |
| `LlmBudgetProofs` | theorems about the spend of the LLM part | `LlmBudget` |
| `LlmAccountsProofs` | theorems about tokens and routes, and about the pool of credentials | `LlmAccounts`, `CredentialPool` |
| `MarketDataProofs` | theorems about candles and the calendar | `CandleIngest`, `CalendarSources` |
| `ScanJobsProofs` | theorems about the rate limiter and the jobs that draw on it | `ScanJobs` |
| `SignalPathProofs` | theorems about one candidate from regime to signal | `SignalPath` |
| `MC...` | small instances of the module in their name | |

A module names what it does not compute: prices, indicator values and texts
are free choices over small sets, and so is whether a provider
answers. Operators called `X_Something`, next to `X`, are mutants: the
plausible bugs with which the properties were tested. They are used nowhere.

### ScanPipeline

One process per concurrent run (`pc`, `sc`: where it stands and its locals),
its open transaction (`txn`: rows, insert, disable, deliver), the advisory
lock, the identity sequence of the audit table, the committed tables, the
clock in bars and the messages in the chat. A statement of a transaction is an
action, READ COMMITTED is the rule that a read sees the committed tables and
the transaction's own rows (`Visible`), COMMIT applies the writes in one step
(`Apply`), and `Abort` is an exception or the death of the process at any
point: its transaction vanishes, the lock is released, the sequence is not.

    run_scan                             Begin, EndWithoutSignal, LoadFrame, ShadowAudit
    _run_strategies, per strategy        SkipStrategy, GenerateCandidate, AuditMisaligned,
                                         AuditCandidate, NoCandidate
    get_by_dedup, count_since            Dedup, CountSince
    run_gate and its audit row           GatePass, GateFail
    run_llm_pipeline                     LlmAccepts, LlmRefuses
    run_gate "post_llm"                  PostGatePass, PostGateFail
    insert, COMMIT                       Publish, Commit
    send_signal, mark_delivery, COMMIT   Deliver, MarkDelivery, MarkCommit
    track_paper_signals                  Track
    /enable_strategy, promote            Toggle

What the code computes from prices is a free choice here (`SignalPath` computes
it, for one run after the other): whether a strategy has a
candidate, whether the gates on its own numbers pass, what the LLM decides,
whether Telegram answers. What it computes from shared state is modelled: the
duplicate, the count of the day, the freshness, the strategy's state, the chain.

### PaperTracker

A signal with its levels, the bars closed since its publication, the committed
row, the tracker's transaction (what it read, the update it computed) and the
delivery transaction. Both read the payload first and write it back later, and
both hold the row lock from their first UPDATE to COMMIT. `Replay` is the loop of
`replay_signal` written as "first bar that ends the trade".

### BacktestReplay

`Backtest` is the two phases of `run_backtest` for one limit order without
smart exits: the bars on which the order is tried, the first bar after the fill
that ends the trade. It works on `trade` and `bars` of `PaperTracker`, so that
`DifferOnlyAtTheFill` compares the two on the same prices. They do not look at
the same bars. The backtest tries `valid_bars` bars from the one after the
signal bar (`engine.py:120`); that one is forming when a scan publishes, and the
tracker takes only bars that opened at `published_at` or later (`scan.py:659`).
So a trade carries `missed`, the bars between its signal bar and its
publication: at least one, more for a scan that waited long for the lock. The
tracker goes on to the bar that opens at `valid_until`, `valid_bars` timeframes
after the close of the signal bar, which is one bar past the backtest's last, or
several bars before it when the market closes in between: the backtest counts
bars and the tracker hours, so `validUntil` and `validBars` are independent here.
`Tracked` is the tracker's replay of all its bars in the backtest's terms. What
holds is that the two fill a trade on the same bar and end it on the same bar
alike, with three exceptions, each of which occurs: the backtest fills it before
it was published (`FilledTooEarly`), the first touch is on a bar that only one
of them tries (`TriedByOne`), the bar of the fill reaches the stop
(`StoppedOnFill`), which the tracker books as a loss and the backtest ignores.

### RiskGuards

One strategy: `resolved` is the R-multiples of `recent_outcomes`' query, oldest
first, `open` the number of unresolved signals, `enabled` its row of
`strategy_state`, `sc` what each run has read.

    StrategyStateRepo.is_enabled        CheckState
    SignalRepo.recent_outcomes          ReadOutcomes (newest first, as the query orders)
    throttled_risk_pct, GR-13           Throttled, GuardFails
    the rest of the scan                Publish, Disable, Drop
    tracker                             Resolve, Expire
    /enable_strategy, promote           Enable, Shadow

`Publish` counts a stray when the strategy had been disabled since the run
looked.

### ContextPack, LlmDecision and LlmBudget

`ContextPack` derives from what a scan knows (`Market`) the source ids and the
numbers that the agents are shown, and says which claims of an answer the
verifier supports: a text is the numbers in it, each with the kind of words next
to it, and its symbols. `LlmDecision` is the arithmetic of `llm/pipeline.py` and
the two gates behind it
(`Decide`, `Fallback`, `ShouldEscalate`, `PostGate`). `LlmBudget` runs both: the
scan that holds the chain lock seeds its `BudgetState` from Redis, asks the
analyst and the critic, records each call against four caps, runs the flagship
model once more when in doubt, and adds the growth of its state to Redis.

    _seed_daily_spend, start_scan       Seed, StartScan
    run_analyst, run_critic             Answer, CallFails
    _record_usage, _budget_abort        Record
    should_escalate                     Escalate
    _persist_scan_spend                 Persist
    second gate, COMMIT; death          Finish, Die
    midnight UTC                        Midnight

`billed` is what the providers charge, the wasted attempts whose output did not
fit the schema included, which the client never counts.

### CredentialPool

`call[c]` is one `complete` of a caller: the credentials it tried, where its
`acquire` walks, the round of the model fallback. The two callers are tasks of
one event loop, so a step is what runs between two awaits: looking at one
cooldown (`SkipCooling`, `SkipTried`, `Acquire`), asking the provider
(`AttemptFails`, `AttemptRaises`, `Succeed`), reporting the failure (`GiveUp`).
`index` is read before such an await and written after it.

### CalendarFeeds and CalendarSources

`CalendarFeeds` maps an exchange with a server (how it went, and the rows of the
body) to events, an empty list or a failure, per source and with its retries;
`Outcomes` is what a call of a source may come to. The rest is in
`CalendarSources`. The `stored` side: per-source `lastSuccess` and `failures`, `fetchedAt` of the
newest event; `sync` is the run of the job with the composite it built. One
action per outcome of a source (`SourceFails`, `SourceEmpty`, `SourceAnswers`),
of the composite (`AllEmpty`, `Outage`, `Recovered`), of the job (`Store`,
`JobFails`, `Die`). `Stale` is what a scan derives from the table; `verified`
remembers when a source really was fetched and stored.

### OAuthTokens, PoolBuilding and LlmAccounts

A token is the number of the answer that brought it. `file` is absent, torn
(truncated, or overwritten by two writers) or holds a token; `user[p]` is the
refresh under way in a process, `login` the command that logs in, and the
endpoint rotates refresh tokens or does not.

    CliOAuthProvider.resolve            Expired; Refresh: RefreshGranted, RefreshFails, AnswerLost
    save_token, write_bytes             SaveFails, Truncates, Writes, WriteFails
    device_login                        LoginBegins, Polls, CodeExpires, LoginTimesOut,
                                        LoginGranted, LoginFails, CodexCode
    pkce_paste_login                    PastedLogin
    storing a login, delete_token       LoginTruncates, LoginWrites, LoginKilled, Logout

A refresh is a read, a request, a truncation and a write, with any step of
another process in between; a process may end at each. `PoolBuilding` has the
functions of the settings (`Routed`, `Resolves`, `BuildPool`; a route that does not
resolve either `Dangles`, with a `ConfigError` that the builder of the pool
skips, or `Raises` the `ValueError` of an account name that is not valid, which
it does not), and `LlmAccounts` puts `use`, the wizard, the building of each process's pool and its restart
next to the token file: only a process whose pool holds the login refreshes it.
The operator changes routes while the processes are stopped: a pool is cached
per process, and a change reaches it with the next restart.

### CandleIngest

Bars are numbered; bar `clock` is forming. `Begin` computes the window from the
newest stored bar, `LegAnswers` and `LegFails` walk the legs of the composite,
`Store` applies the cut-off, the gap report and the upsert, `Die` is any end in
between, and `Tick` may happen at every point, so that outages last as long as
they like and a bar may close between the answer and the cut-off: `partial` are
the bars that were stored with the values they had then. A leg is characterised
by two facts of its API that the code depends on: from which end it counts and
whether it marks complete bars. One ingestion of a series at a time: two that
overlap upsert what each of them fetched, which the model does not cover.

### RateLimiter and TokenBucket

The key is a hash (`tokens`, `last_refill`) with an expiry; the script runs
atomically in Redis, so the callers need no identity. Time is counted in units
of refill and a token is `Cost` of them, which makes the script's fractions
whole numbers. `Observe` may start a window at any time, and `spent` counts the
requests in it. `RefinesBucket` maps the ideal bucket's level to what the
script would find if it were called now.

### ScanJobs

`job[k]` is the scan of one symbol and timeframe: the call it makes (bars, whose
failure fails the scan, or the quote, whose failure does not), the leg and the
attempt. A TwelveData leg takes its token from the bucket of `RateLimiter`
(`Granted`, `Refused`), on which other processes draw as well (`Elsewhere`); other
vendors have their own (`OwnBucket`). `Limited` is a leg's retry, `LegFails` the
failover, `Fail` the count and the decision to alert; `fails` and `alertedAt`
live in the process and are lost by `Restart`. A composite catches
`RateLimitExceeded` and `ProviderError`: any other exception of a call (an answer
that is no JSON, a price that is no number, a Redis that is down) is `Escapes`,
which ends the walk over the legs, the quote's included, and fails the scan.

### Strategies, Scoring, GuardrailGate and SignalPath

A strategy is a function of a frame, the indicator values it reads, and has a
branch for BUY and one for SELL as in the code, so that their symmetry is a
property. Prices are whole numbers of a small unit, the tick is 20 of them, and
rounding is Python's (`RoundDiv`: a tie to the even). `SignalPath` takes one scan
at a time through

    RegimeClassifier.classify           Begin
    entry_signal, custom_entry_price    Look, NoSetup, Price
    validate_and_round_levels           Round
    confirm_signal, assess_edge_quality Confirm, Edge
    confluence, sizing, schemas         Score, Size
    bias, gate, LLM, second gate        Misaligned, Gate, Llm, LlmDeclines
    grade, publish                      Publish

A constructor that raises, which nothing catches, is the state `raised`. The
inputs of both gates are what the scan read when it began (`FirstGate`,
`SecondGate`): the code passes the same ones twice.

### SmartExit

Prices are counted as gains over the entry, so that BUY and SELL are one case,
in half ticks, so that half a partial is whole. `StopOut`, `TakeProfit` and
`Survive` are the three ends of `apply_smart_exit` on a bar, `Update` its
changes to the stop in their order, `Result` the engine's gross result.

## Runs

| Run | Question | Answer |
|---|---|---|
| `scan_safety` | Do two runs, dying anywhere, with tracker, operator and time around them, keep chain, duplicates, daily limit, audit trail and messages right? | yes; and the table implements `AuditLog` |
| `scan_liveness` | Do the runs end although they queue for one lock, and do signals only move forward? | yes |
| `paper_outcomes` | On every path of three bars, split between tracker runs in every way: are outcomes final, filled and worst-case, and does the backtest agree? | yes; it does, but for three exceptions at the fill |
| `guards_lockout` | Who may publish after a disable, and can a strategy leave a losing window? | only runs in flight; never |
| `llm_budget` | Is the spend right under failures, deaths and midnight; do calls stop; does the second gate agree? | yes, as stated |
| `pool_calls` | Do two calls that disturb each other's pool each ask a credential once, give up only when they must, and end? | yes |
| `token_refresh` | Two processes share a login that is refreshed, replaced, removed and rerouted: is what the file holds alive, do logins end, do routes resolve? | yes, except after a lost answer or a failed save, and for an account name that is not valid |
| `calendar_gate` | Is GR-07 open only while the events are fresh, whatever the sources answer and wherever a sync dies? | yes |
| `ingest_forward` | With legs that count forward: holes, unfinished bars, catching up? | none; repaired by the next fetch; yes |
| `scan_jobs` | Does the script with lazy refill and expiring key bound every window, and do scans on an empty or failing vendor fail over, end and tell? | yes |
| `signal_path` | Are the sides symmetric, do the three tests of the levels agree, and is what is published within its risk, its regime and outside blackouts? | yes |
| `smart_exit` | Do partial, break-even and trail in any order keep the stop monotone and the loss bounded? | yes |

Each property of a run was also tried against a mutant, a definition changed the
way a plausible bug would change it, and TLC finds the property violated. The
type invariants (`TypeOK`, `JobsTypeOK`, `TokenTypeOK`, ...) hold on the same
configurations when they are added to them; most of them are proved as well, as
parts of the inductive invariants below.

### Bounds, and why they are enough

- `scan_*`: two runs in flight, two runs in all, one instrument. A run that
  waits for the lock, one that holds it, and the transaction of the first
  between its two commits are all there; the limit of the day is 1, so that
  two runs compete for it; `MaxClock` gives a second bar and with `BarsPerDay`
  3 a scan of a later bar of the same day (the liveness run has days of two
  bars). The tracker, the operator and deaths are unbounded. One strategy in the TLC runs:
  with two the instance is too large for a routine run, and the theorems of
  `ScanPipelineProofs` hold for every `Registry`. Liveness runs on the
  deterministic path, where a run has fewer steps of the same kind.
- `paper_outcomes`: prices 1 to 5 with stop 1, entry 3, target 5 (and the mirror
  image) give every order of a bar's extremes relative to the levels; three
  bars give a bar before the fill, the fill, one after, and the expiry on
  either side of `validUntil`. Of the three trades one is published before its
  order was touched; one after a bar that both filled and stopped it; and one, a
  SELL, two bars late and over a break of the market, so that its `validUntil` of
  1 ends before its four bars do.
- `guards_lockout`: a guard window of 3, a throttle window of 2 and 5 signals let the
  window fill, roll and be overtaken by a slower timeframe's outcome.
- `llm_budget`: costs 0 and 2 with a cap of 5 cross the cap on the third paid
  call; two scans, two days. The assessments and reviews are chosen so that
  every branch of `Decide` and both ends of the doubt band occur, with fair and
  wrong quotes and citations of a redacted event and of a foreign source.
- `pool_calls`: three credentials of two providers, so that one is skipped as
  incompatible; every class of failure and three cooldown lengths. Longer
  cooldowns only delay: 1 and 2 already outlive or end within a call.
- `token_refresh`: two processes and three answers of the endpoint: a login and
  two refreshes, or two logins and a race between them. One `use` or wizard call
  on routes of which the critic's dangles from the start and the flagship's
  resolves; one `use` has an account name that is not valid, on the profile that
  the flagship shares. A limit of two polls shows both ends of the loop.
- `calendar_gate`: the sources of `settings.yaml` and a Finnhub without a key;
  a body has no row, one or two, of every kind; five ticks with a staleness of
  2 let every source's success age, be replaced and be forgotten.
- `ingest_forward`: a limit of 5 with an overlap of 2 has the same shape as
  10 with 2 (each fetch advances), eight bars hold an outage longer than a
  fetch, and one malformed row per answer is more than the overlap forgives.
- `scan_jobs`: one job (others are callers of the bucket like any process), on
  two legs of one vendor, of two, and on the one leg without a composite. The
  bucket has three units, a request takes two, and the key has the shortest
  lifetime the assumption allows (the code's is twice the fill time); two
  attempts per leg, an alert on the third failure, a cooldown that ends within
  the horizon. The theorems of `ScanJobsProofs` hold for every bucket and all jobs.
- `signal_path`: frames on both sides of the thresholds of each strategy, about
  a centre of 20000 with an ATR of 100 and a tick of 20, so that rounding moves
  levels over bounds; events on each edge of the two blackouts and of S2's twelve
  hours; ADX below, in and above the hysteresis band; live quotes absent, near
  and far. The inputs of the gates deviate one at a time, because the gates do
  not depend on each other.
- `smart_exit`: gains of -12..12 with levels 4, 4, 6, 10 put every bar extreme
  on, between and beyond the levels, gaps included.

Deadlock is checked except where the system may rest: `paper_outcomes` (all resolved),
`llm_budget` (scans used up), `smart_exit` (trade closed).

### Fairness

- `ScanPipeline`: `SF_vars(Step(p))`. The event loop runs every task whose await
  is done; calls to providers, models and Telegram have timeouts, and PostgreSQL
  serves an advisory lock's waiters in order, so a run that could proceed again
  and again does. Nothing obliges a run to start, time to pass or the operator
  to act, and `Abort` needs no fairness: a run that dies also ends.
- `PaperTracker`: the job runs every 15 minutes; one run may fail, all of them
  for ever may not (`SF` on the statements of the transaction), and a delivery
  transaction ends one way or the other.
- `CredentialPool`: `WF` on a caller's steps: HTTP calls time out.
- `ScanJobs`: `WF` on a job's steps: HTTP calls time out after 15 s, waits for a
  retry after 30 s. Nothing makes the bucket fill for this job: `ScansEnd` holds
  although others may drain it for ever.
- `LlmAccounts`: `WF` on the steps of a refresh and of a login (requests have a
  timeout, a file is written at once). No person is obliged to confirm a login.
- `CandleIngest`: the scheduler keeps scanning, a run ends somehow, and legs do
  not fail, answer with malformed rows, or die with the run for ever.
  `CatchesUp` is a statement about the code's window under that assumption.

## Proofs

TLAPS checks these for every value of the constants that the named assumptions of
the modules allow. `PROJECT.json` lists the theorems with the properties they state;
here is the argument of each, and what had to be added to a property to make it
inductive.

**ScanPipelineProofs** (any number of scanners, instruments, strategies, runs).
`TypeOK` is not inductive: the step of the loop over the registry needs that the
index is within it (`LoopOK`), and the types of the audit rows need that the head of
the chain is a number. Hence `TypeInv == TypeOK /\ LoopOK` and `ChainInv`, proved
together (`Invariance`): every transaction sees a well-linked chain whose ids are at
most the sequence's, rows it has not committed are newer than all committed ones,
and only the holder of the lock has any. Its steps are grouped first (`StepKinds`:
quiet, appends, commits, drops), so that the chain argument has four cases and not
thirty. From these follow `TypeCorrect`, `AuditChainIntact` and, by step simulation,
`AuditTableRefinesLog`. `InsertsNeverConflict` needs `DedupInv`: between the look-up
and the commit a run holds the lock, because its candidate's audit row took it, and
nobody else can commit a row with its key. The argument shows what the code relies
on without saying so: the duplicate check is atomic *only* because the audit row is
written first. `ScanInv` says for each stage of a run what its locals, its
transaction and the committed tables owe each other: which rows of the trail exist,
that the count of the day it read is still an upper bound (it holds the lock, and
everything else can only take signals away), that a signal it is to send was
committed and has not been sent. From it follow `DailyCapHolds`,
`PublishedLeavesTrail`, `NoSignalSentTwice` and, step by step,
`SignalsOnlyMoveForward`.

**OutcomeProofs**. *Tracker*: `PaperInv` says what a status means in terms of the
bars (`Supported`: filled or resolved, that a bar touched the limit while it was
valid; won, that from the first such bar on none touched the stop, but for the
winning bar where minute bars decide), for the committed row and for the update a
tracker run carries, and that the row a run has read is still open when it commits
(`Carried`). New bars keep it because each clause speaks of bars that have closed.
Hence `OutcomesWereFilled`, `WorstCaseFirst` and `OutcomesAreFinal`.
`BacktestAgrees` needs only that the bars are well typed: outside the exceptions
the first bar the tracker finds touched is, shifted by the missed bars, the first
of the backtest's (`SameFill`), and from there on, the fill bar aside, both look
for the first bar with a level (`SameEnd`); a minimum moves with the bars
(`MinShifted`).
*Smart exit*: `ExitInv` (types and `LossIsBounded`) for `ExitTypeCorrect`,
`LossBounded` and `StopTightens`, which use `BreakevenAt <= TrailAt` from
`LevelsAssumption`; `PartialIsSafe` (a taken partial at break-even's level or beyond
implies a stop at the entry or better) for `WinnersKept`.
*Guards*: `GuardsInv` counts: with the strategy disabled, a stray published is one
run less in flight, so that both together stay at most the number of runs that may
overlap (`OnlyRunsInFlightPublish`, for any finite set of scanners).
`LockOutNeverEnds` is a chain of facts: with nothing open no outcome can be added,
so the newest outcomes stay the ones that locked the strategy out; a run reads them
newest first and sums them in that order, and `SumReversed` says that the sum is the
same.

**LlmBudgetProofs**: `BudgetInv` says that what Redis holds over all days, with the
growth that a scan still carries (`Share`), is at most what was billed (`Covered`),
and what a scan at each stage has recorded (`InOrder`, `Stops`). Only the holder of
the lock has a share, so its share can be moved into the sum; over single days the
statement is false, because a scan that crosses midnight books its growth on the new
day. Hence `RedisNeverOvercharges`, and from the other clauses `SecondGateAgrees`
and `StoppedScansCallNobody`.

**LlmAccountsProofs**. *Tokens*: `TokenInv` adds to the types that a token that is
about to be stored is alive (`NewIsAlive`), that under rotation nobody else knows it
yet and so nobody can revoke it (`NewIsSecret`), and that a dead token in the file
was orphaned by a lost answer or is about to be replaced by its successor
(`FileCovered`). Hence `StoredTokenIsAlive`. `RoutesDoNotDangle` is about the commands that write
settings, whatever the settings were: `RoutedResolves` is the role they are called
for, `RouteKept` the others, of which those on the same profile lose what `Routed`
overwrites. The wizard's account is `default`, which `AccountAssumption` takes for a
valid name, as the pattern of `token_store.py` does.
*Pool*: `PoolInv` follows the walk round the ring of credentials: while a call
acquires, its last looks were at a row of consecutive positions (`Row`), at least as
many as its counters say although other calls move the shared index meanwhile, and
each was found cooling or tried. A full round is then all credentials (`FullRound`,
modular arithmetic): `ExhaustionIsTrue`. `CredentialsAskedOnce` follows from
`PoolInv` step by step.

**MarketDataProofs**. *Candles*: `IngestInv` says that an answer is an interval that
starts two bars before the newest stored one (`Overlaps`) and lacks, but for
malformed rows, no bar up to the one that was forming when it was given (`GivenAt`).
Hence `OverlapRepairs` and `NothingIsLost`, under `LegsCountForward` (with a leg
that answers with the newest bars, as TwelveData's, both are false: see
`FreshIsComplete` below) and, for the second, `Limit > 1`: with an overlap of two
bars a limit of one would ask for the same bar for ever. The code's limit is 10.
*Calendar*: `CalendarInv` says that a sync hands over a success only with events of
the same time (`Hands`), and that no stored time is newer than a fetch that really
was stored (`NotNewer`). Hence `GateFailsClosed`, for any list of sources.

**ScanJobsProofs**. *Bucket*: `BucketInv` adds to `WindowBound` what is still
available and that the key outlives the time the bucket takes to fill (`KeyAge`,
`ExpireAssumption`); then `RequestsBounded` and `ScriptRefinesBucket`.
*Jobs*: the jobs and all other processes move the bucket only by its own steps
(`JobsUseTheBucket` carries both over). `JobsInv` says that the legs that are gone
are exactly those before the present one, and counts the failures in a row:
`EveryLegIsTried`, which speaks of the errors a composite catches and of no others
(`NoLegLeft` below is false), and `OperatorIsTold`, which speaks of all.

**SignalPathProofs**: `RunInv` states what each stage of a run has established and
that later stages keep it. `CandidatesAreSound` needs that rounding to the tick
keeps levels positive and that three distinct levels stay in order;
`PositionsFitTheirBudget` is the arithmetic of the lots (`BudgetBound`, `RiskFits`);
`RegimesAreRespected` holds whatever the other scans leave in the regime memory.
`NoSignalIntoTheNews` has a hypothesis: `BlackoutIsLoaded`, that the configured
blackout is no longer than the events a scan loads (`scan.py:401`, two hours back,
three days ahead). `config.py:149` asks only for numbers that are not negative, so a
blackout of more than two hours after an event would be configured and not enforced.
`SidesAreMirrored` compares the branches of each strategy on a frame and on its
mirror image: minima and maxima change places (`LowestFlipped`, `HighestFlipped`),
rounding to the tick with its ties to even commutes with the reflection because the
centre is on a tick (`TickFlipped`), and the newest break, sweep and zone stay the
same ones (`NewestMirrored`). Here the proof found what the runs had not: with a
stop that rounding puts on the entry, the two sides of S1's `confirm_signal`
disagree; the level engine refuses such levels first (`ValidatedMirrored`), so that
the property now says so. It speaks of frames: the detector of the sweeps itself is
not symmetric (a bar that sweeps both sides counts as a sweep of the high,
`indicators/smc.py:234`).

**FoldLemmas**: the library's induction theorems take a predicate and none of the
installed provers can instantiate one; `NatSetInduction` and `SubsetInduction` state
the same for sets instead of predicates, which a proof can name. From them come the
facts about minima, maxima and sums over finite sets (`MinFact`, `MaxFact`,
`SumFact`, `SumRemove`, `SumReversed`) that the other modules cite.

### Assumptions

All are about constants, and TLC evaluates each on the instances. Those that say
more than a type:

- `ExpireAssumption`: the key lives at least the fill time; the code sets twice
  that.
- `LevelsAssumption`: break-even not beyond the start of the trail, as in the
  settings.
- `AnswerAssumption`, `KindAssumption`, `AccountAssumption`: what the answers of
  models and the manifest of providers can be; commands name providers of the
  manifest.
- `ScannersAssumption` of the guards: finitely many runs, so that they can be
  counted.
- `SourcesAssumption`, `JobsAssumption`: at least one source, and a leg for each
  job.
- `InputAssumption`, `PricesAssumption`, `PriceAssumption`: the frames are of the
  shape the strategies read, and prices are far from zero compared to the ATR. A
  level that rounds to zero would raise, uncaught.
- `CentreAssumption`: frames are mirrored about a point on a tick; it concerns the
  statement of `MirrorSymmetric` only.
- `SettingsAssumption`: the least ratio is at least 1.5 and the risk at most 2 %,
  the bounds that `core/config.py` enforces.

### Only model-checked

Liveness under fairness is out of the prover's reach: `RunsEnd`, `UnfilledExpires`,
`CallsEnd`, `CatchesUp`, `ScansEnd`, `LoginEnds`. The parsing of the calendar
(`CalendarFeeds`), the verifier (`ContextPack`) and the settings beyond
`RoutesDoNotDangle` enter the proofs through their types only.

## Where the documents and the code disagree

Each line is a definition of a module, stated as the document words it, and
what TLC finds when the definition is added to the named configuration: it is
violated. They are not part of the routine runs. The first two are the ones that
change what the system advises.

| Property (configuration) | The document | The code |
|---|---|---|
| `OutcomeIsReplay` (paper_outcomes, `Crypto = FALSE`) | `papertrack/tracker.py:158` "TP on fill bar IGNORED" | after a fill is committed, the next run calls `replay_signal` with `already_filled=True` on all bars since the publication (`scan.py:688`): a take profit touched on the fill bar, or before the fill, is booked as a win |
| `ThrottleSeesStreak` (guards_lockout) | `risk/limits.py:95`: newest last; `settings.yaml:50`: a losing streak is throttled | `recent_outcomes` is newest first (`repositories.py:296`) and the end of the list is taken (`scan.py:979`): an old streak is throttled, a present one is not |
| `DailyRateCap` (scan_safety) | `guardrails/gate.py:16` "GR-12: Rate cap (<= 3 signals/day/instrument)" | `count_since` counts rows still PUBLISHED (`repositories.py:277`): resolved signals give their place back |
| `DeliveryRecordKept` (scan_safety) | `scheduler/jobs.py:9`: jobs are idempotent | a second scan of the bar records "failed" over "sent" (`scan.py:517`) |
| `FallbackPassesSecondGate` (scan_safety) | `llm/pipeline.py:10`: the fallback is published | the second gate refuses it: no citations (`scan.py:1281`) |
| `FilledExpires` (paper_outcomes) | `papertrack/tracker.py:6` FILLED may expire | `tracker.py:169` looks at `valid_until` only before the fill |
| `PayloadKept` (paper_outcomes) | `repositories.py:368` "Read-modify-write one key" | both writers store the whole payload they read (`:353`) |
| `ConsistentWithTracker` (paper_outcomes) | `tracker.py:155` "consistent with backtester" | the backtest starts on the bar that is forming at the publication and the tracker after it (`scan.py:659`), so an order can be filled, stopped or won there in the backtest alone; the tracker goes on to the bar at `valid_until`; and only the tracker stops a trade on its fill bar |
| `ReviewHolds` (guards_lockout) | `risk/limits.py:55`: disabled until review | after the review the next scan disables again on the same outcomes |
| `HardAbort` (llm_budget) | `llm/budget_guard.py:3` "USD/day (hard abort)" | a seeded scan over the cap still makes one call before the cap is tested |
| `TotalIsAuthoritative` (llm_budget, `RedisFails = FALSE`) | `scan.py:132`: the persisted total is authoritative | answers that do not parse, and a scan over midnight, are not counted |
| `DoubtIsEscalated` (llm_budget) | `IMPLEMENTATION_TASKS_2.md:423` | `cascade.py:43` takes PUBLISH and FALLBACK, so an abstention in the doubt band is never run again |
| `CooldownKept` (pool_calls, `Flavors <- MCAlike`, `Errors <- MCLimits`, `SubscriptionTtl = 3`) | `llm/auth/pool.py:76`: a long cooldown | a later, shorter one replaces it (`key_manager.py:103`) |
| `LastSuccessKept`, `OutageIsShown`, `EmptyBlocks`, `EmptyIsTold` (calendar_gate) | `composite_calendar.py:23`, `IMPLEMENTATION_PLAN_v2.md` P1-2, `audit-remediation.md:169`, `composite_calendar.py:3` | the composite is new for each sync and its health overwrites the table's; an outage raises before it is stored; alerts share one cooldown |
| `FreshIsComplete`, `HolesAreReported` (ingest_forward, `Legs <- MCFallback`) | `incident-data-gap.md`; `data/ingestion.py:7` | TwelveData answers with the newest bars: after an outage longer than a fetch the bars between are never asked for again, and the gap check looks at one answer, not at the table |
| `OnlyFinalBars` (ingest_forward) | `IMPLEMENTATION_PLAN_v2.md:104`: no forming bars | the cut-off is computed after the answer: a bar that closes in between is stored unfinished, until the next fetch |
| `BurstsAreSilent` (scan_jobs) | `scheduler/jobs.py:87` "Rate-limit bursts must never spam Telegram" | a composite turns the `RateLimitExceeded` of its last leg into a plain `ProviderError`, so a burst on TwelveData or OANDA does alert |
| `NoLegLeft` (scan_jobs) | `data/composite_market.py:3` "Mirrors data/composite_calendar.py" | the calendar's composite goes on after any exception (`composite_calendar.py:82`), the market's, as its next lines say, only after `RateLimitExceeded` and `ProviderError` (`:79`): an answer that is no JSON ends the scan with legs untried |
| `UseResolves` (token_refresh) | `llm/auth/routing.py:54`: the entry is written "supaya route TIDAK menggantung", so that the route does not dangle | `use` does not check `--account`: with a name that is not valid, `account_store_id` raises (`token_store.py:55`) for every role on that profile, past the `except ConfigError` of the builder, and no process has a pool |
| `NeverTorn` (token_refresh) | `token_store.py:90`: a file that exists holds a token | two overlapping `write_bytes` may leave one that does not parse, and every process is told to log in |
| `LogoutHolds` (token_refresh) | `cli/auth.py:211`: logged out | the save of a refresh under way brings the file back |
| `WithinQuota` (scan_jobs) | `data/ratelimit.py:8` "8 req/min -> bucket 7/min (safety margin)" | a full bucket and a minute's refill are 14 in a minute |

Reading the code against its documents for these models showed more, which no
definition states:

- **Signals.** S1's limit may lie beyond the market, and S4 buys on a bullish break
  although a newer one is bearish. The edge filter's minimum score never
  rejects by itself: soft deductions take at most 30 points, so the score is at
  least 70. `strategies/s2_range_mr.py:15` discards a setup whose ratio is below 1.5;
  the code moves its take profit. A RANGE at an ADX of 20 to 25, which the
  hysteresis can keep, is refused by S2's own `adx < 20`. `sl_atr_min` and
  `sl_atr_max` of the settings are never passed to `generate_candidate`. A level
  that rounds to zero would raise uncaught (`PriceAssumption` excludes it). A log
  line of the scan says that the drift gate is skipped without a live price; the
  gate fails closed.
- **Rate limits.** `core/errors.py:27`, "caller must back off, not retry-loop": the REST
  providers retry three times. `ratelimit.py`, "Per-account/key bucket": all
  keys of TwelveData share one. A failed Telegram send still starts `scan_job`'s
  two hours of silence.
- **Tokens.** The loser of a refresh race goes on with the expired token. An
  answer that is lost, or whose save fails, after the provider rotated leaves a
  dead token, silently; any transport error ends a device login.
  `OAuth2Provider.resolve` and `build_credential_provider` have no caller
  outside the tests.
- **Pool.** `pool_builder.py:10`: an identical store enters once; a store that a route
  and an account both name enters twice. Two roles that share a profile with
  different flavors get one entry, and `use --account` for one role moves the
  other. The wizard's login for "google" is not in the manifest and is skipped.
- **Calendar.** `investing_calendar.py:182` says that schema drift must raise; that
  covers the container only: rows of which none can be read, or Nasdaq rows
  without column names, are an empty calendar, and one readable row makes the
  answer a success. The static file without an `events` key is empty, not
  malformed. Finnhub's docstring falls back to an empty list; the code raises.
  The web sources do not check that an event lies in the days asked for, and
  one event from two sources has two ids.
- **Verifier.** `verifier.py:6`, "Every number quoted matches pack value": the sign
  is lost, so an exact quote of a negative number is flagged; the closest number
  is chosen before its tolerance is, so that a wrong price near an oscillator's
  value passes, and a fair oscillator near a price is flagged. An indicator
  without a value has a source id all the same, and all levels of one kind
  share one. `truncate_to_budget` has no caller, and nobody reads the flag that
  an injection was detected.

`GateAgrees` and `LockOutIsFinal`, which hold, say two more things of this kind:
no fallback ever passes the second gate, and a strategy that GR-13 disabled
with a full losing window can never publish again, whatever an operator does.

## Not modelled

- Indicators, the HMM and the ML models, the statistics, costs and equity of the
  backtest, the analytics of resolved trades: arithmetic on series without
  interleaved state. Frames and scoring contexts hold their results.
- Prompts, the JSON of the agents, formatting of messages, charts, the HTTP
  routes and Telegram commands that only read, health and metrics: text and I/O.
- The self test of the guardrails, which replays fixed cases at start-up; `backfill`
  and the jobs that only report; quotes, funding and open interest as data;
  the statistical criteria of a promotion.
- In what is modelled: rounding of LLM costs to four decimals; a restart of Redis
  that loses keys, and the 14 digits the script stores; `partial_pct` other than
  one half; hash collisions in the audit chain; encryption of the token files
  and `rotate_key`; a server that revokes a whole family of tokens on reuse; the
  failure of a timeframe that a vendor does not have; two overlapping
  ingestions of one series.

`PROJECT.json` gives each component its status.

## Plan

Done: the scan with its audit chain first, because every other part writes
through it; then the parts that feed on its results (tracker, guards), the
parts it waits for (LLM budget, credentials, calendar, candles, limiter), the
exits of the backtest; then the inside of a scan (strategies, scoring, gate), the
jobs around it (failover, alerts), and the logins and routes behind the models.

Every safety invariant and action property of the runs is a theorem by now. What is
worth adding next:

1. `PoolBuilding`: that the pool a process builds holds each store once per profile,
   and that an account's route reaches it, with `SubsetInduction` where the folds
   need it.
2. `CandleIngest` with overlapping ingestions of one series.
3. A step simulation of `ScanJobs` for the alert state across restarts, and a
   restart of Redis in `RateLimiter`.
