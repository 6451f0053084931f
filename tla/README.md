# A TLA+ verification of SiemLess

SiemLess is a small SIEM: a FastAPI backend on one asyncio event loop, with
PostgreSQL (SQLAlchemy, async sessions), optional Redis and Kafka, and a React
frontend. Logs come in by syslog, HTTP, file, Kafka and cloud connectors; they
are parsed, stored, correlated into alerts, announced on notification channels,
and answered by playbooks.

What is hard in it is not the parsing. It is that

- hundreds of coroutines share in-memory state (the correlation counters, the
  loaded rules, the login tables) and interleave at every `await`;
- that state, and what the sessions hold, changes in other steps than the
  database does, so a failed commit or a restart tears the two apart;
- the loops (cleanup, connectors, Kafka, retention, feeds, syslog) retry, are
  cancelled, and share one session for many pieces of work;
- requests and background tasks work on the same rows in transactions of their
  own, and wait for, overwrite or clash with each other.

This directory models that behaviour. Paths below are relative to `src/`, and
most to `src/backend/app/`.

## 1. Contents

| module | models | run by | proved in |
|---|---|---|---|
| `CorrelationWindow` | `services/correlation.py`: counters, locked evaluation, rule edits, cleanup | `correlation_edited` | `CorrelationWindowProofs` |
| `Detector` | the abstract detector: a pool of recent reports per key | `correlation_prompt` (refinement) | `CorrelationDetectionProofs` |
| `CorrelationDetection` | the counters implement `Detector` | `correlation_prompt` | `CorrelationDetectionProofs` |
| `RuleCache` | `load_rules`, `reload_rules_if_stale`, `routers/rules.py`: the engine's copy of the rule table | `correlation_prompt` | |
| `AlertPipeline` | `store_event`, the syslog path, `_create_alert`, sessions, commits, tasks, analyst | `alert_races`, `alert_settles`, `alert_unannounced`, `alert_twice` | `AlertPipelineProofs` |
| `AlertLedger` | the abstract alert table of one deduplication key | `alert_serial` (refinement) | `AlertPipelineProofs` |
| `ConnectorPolling` | `services/connectors/manager.py` with the poll methods and the router | `receiving`, `connector_poisoned` | `ReceivingProofs` |
| `KafkaConsumer` | `services/kafka_consumer.py` and one partition | `receiving` | `ReceivingProofs` |
| `SyslogQueue` | `services/syslog_server.py`: listeners, bounded queue, processor, `start`, `stop` | `receiving` | `ReceivingProofs` |
| `BulkIngest` | `routers/ingest.py`: batches and files, one session each | `receiving` | `ReceivingProofs` |
| `ThreatIndicators` | `services/threat_intel.py`, `routers/threat_intel.py` | `threat_feeds` | `ReceivingProofs` |
| `ThreatFeeds` | `services/feed_connectors/`, `routers/threat_feeds.py`, on top of `ThreatIndicators` | `threat_feeds` | `ReceivingProofs` |
| `Retention` | `services/retention.py`, `routers/retention.py` | `background` | `BackgroundProofs` |
| `UserBaselines` | `services/baseline.py`, `services/anomaly_detector.py`, `routers/ueba.py` | `background` | `BackgroundProofs` |
| `LoginRateLimit` | the throttle of `routers/auth.py` | `serving` | `LoginRateLimitProofs` |
| `OidcLogin` | `routers/auth_oidc.py` over `services/redis_client.py` | `serving` | `ServingProofs` |
| `SearchLanguage` | tokens, parser and conditions of `routers/search.py` | `serving` | `SearchLanguageProofs` |
| `CaseDesk` | `routers/cases.py` | `serving` | `ServingProofs` |
| `AssetInventory` | `routers/assets.py`, `services/asset_discovery.py` | `serving` | `ServingProofs` |
| `NetworkScanner` | `services/network_scanner.py`, its router, on top of `AssetInventory` | `serving` | `ServingProofs` |
| `PlaybookRuns` | `services/playbook_engine.py`, and the routers its runs meet | `serving` | `ServingProofs` |

The `MC*` modules give the constants of a run their values. Five of them
(`MCReceiving`, `MCServing`, `MCBackground`, `MCThreatFeeds`, `MCDetection`) also
put several components into one run. The components of such a run have no
variable in common (`ThreatFeeds` and `NetworkScanner` contain the component
they are built on); a variable `part`, chosen by the initial state and never
changed, says which of them moves, so the run's states are the sum of the
components' states and not their product. A property of one component says
nothing in the other parts, where that component stays in its initial state.

`PROJECT.json` maps every definition that stands for code to its lines, gives
each checked property a mutation of the code that breaks it, and lists the
hazards with the properties that watch them. A mutated form stands before the
definition it mutates, with a comment that says what was changed.

To repeat a check: `tlc -config CorrelationEdited.cfg MCCorrelationWindow`, and
`tlapm CorrelationWindowProofs.tla` for the proofs.

## 2. The system

### How an event travels

``` syslog UDP/TCP --> queue (10000) --> processor --+      analyst -->
routers/alerts HTTP, file, batch --> request session -----------+
| Kafka loop --> session per message --------------+--> events, assets, alerts
(PostgreSQL) connector loop --> one session per pass ---------+        |
^      | |        |        | commit | evaluate_event <---------+        |
|        +-> retention: cold events _rules, _counters  (memory) -----+-->
_create_alert ^         ^                            | routers/rules   cleanup
task       notification task, (load_rules)                       playbook task,
UEBA task ```

Everything runs in one process on one thread; a coroutine gives way only at an
`await`. The components call each other directly. They share the engine's
`_rules` and `_counters` (under one `asyncio.Lock`), module-level singletons,
and the database. Callbacks are tasks: `store_event` creates a notification, a
playbook and a UEBA task.

### Components

For each component: the state it keeps, its operations, what is hard, and what
makes it correct (the properties in brackets).

**Correlation engine** (`services/correlation.py`). State: `_rules`,
`_counters[(rule, group)]`, each counter a list of (timestamp, event id).
Operations: `load_rules`, `reload_rules_if_stale`, `evaluate_event`,
`_evaluate_rule`, `_purge_old_counters`. Hard: concurrent evaluations, rules
replaced during a loop over the old ones, event time against wall clock,
counters deleted and created again. Correct: no evidence used twice, every
firing sufficient, nothing inside a window missed, memory bounded
(`FiringsDisjoint`, `FiringsJustified`, `NothingMissed`, `CountersBounded`,
`QuietKeysReclaimed`, `ImplementsDetector`).

**Rule cache** (`_rules`, `routers/rules.py`). State: the table, `_rules` with
its age, and the session that its objects belong to. Hard: `load_rules` reads
in one step and assigns in another, loads overlap, and a reload that fails
after the commit of an edit leaves the old rules. Correct: in the end the
enabled rules are those evaluated (`EnabledRulesRun`).

**Alert pipeline** (`services/event_store.py`, `_create_alert`,
`syslog_server._store_event`, `asset_discovery.upsert_from_event`,
`routers/alerts.py`, `database.get_db`). State: rows of events, assets and
alerts; per request a session with its identity map, dirty rows and row locks;
the tasks it created. Hard: read-modify-write across awaits, swallowed
exceptions in a session that stays broken, ORM objects of rules shared between
sessions, a crash between commit and announcement. Correct: hits backed by
committed firings, evidence not shared, announced implies committed (on
`store_event`'s path; the syslog path announces first), an analyst's decision
stays, sessions end (`HitsBacked`, `EvidenceNotShared`,
`NotifiedIsSaved`, `SavedIsDispatched`, `StatusBelongsToAnalyst`,
`EverySessionCloses`, `ImplementsLedger`).

**Syslog listener and queue** (`services/syslog_server.py`). State: a bounded
queue, one processor task, the UDP and TCP servers. Hard: overflow drops
messages silently; `stop()` closes and cancels in an order that decides what is
lost, and connections outlive both; the only consumer waits for the database
and notification channels. Correct: what is accepted is finished in order, or
was there when the processor was cancelled, or came later over a connection
that was still open (`OnlyTcpIsStrandedLate`, `AcceptedIsFinished`).

**Bulk ingestion** (`routers/ingest.py`). State: one session for up to 1000
events, which commits per event. Hard: one failure poisons the rest; two
uploads insert one asset. Correct: the answer counts what is in the table
(`AnswersExact`).

**Kafka consumer** (`services/kafka_consumer.py`). State: position, offset
commit requests in flight, the task. Hard: asynchronous commits of "the current
position", failures that the next commit covers, stops between the two stores.
Correct: the committed offset never ahead of the database
(`CommittedIsHandled`, `CommittedIsFinal`, `MessagesArrive`).

**Cloud connectors** (`services/connectors/`). State: `last_polled_at` and
`last_error` per row; one session per pass. Hard: one session for all
connectors, committed once per stored record; swallowed exceptions; manual
polls beside the loop; a first poll that asks for ten minutes only. Correct: the
watermark skips nothing else, everything else arrives (`NothingSkipped`,
`RecordsArrive`).

**Threat intelligence** (`services/threat_intel.py`). State: the indicator
table and its unique index; sessions with dirty rows and locks. Hard: two
sessions persist one indicator; the loser rolls back its caller's session; two
requests lock rows in opposite orders. Correct: every request ends
(`RequestsEnd`).

**Threat feeds** (`services/feed_connectors/`). The same scheduler as the
connectors, but a pass commits what it pulled at the next flush. Hard: pages
and filters that cut an answer off, equal indicators in one answer, manual
pulls. Correct: the watermark passes nothing that is not listed, every feed has
its turn (`PulledIsListed`, `FeedsComeRound`).

**Playbook engine** (`services/playbook_engine.py`). State: runs, `run_count`,
one transaction per run. Hard: concurrent runs lock the same rows in different
orders, steps act outside before the commit that records them, the answer of a
webhook that was delivered may be lost, a failed flush leaves a session that
refuses everything. Correct: a run's record agrees with what it did, and runs
end (`RecordsExplain`, `EveryRunEnds`).

**Retention** (`services/retention.py`). Hot and cold event tables, the
archive, policies. Hard: the loop and manual runs select the same rows,
analysts delete events in between. Correct: an event is in exactly one table,
and aged events leave (`InOneTable`, `AgedEventsLeave`).

**UEBA** (`services/baseline.py`, `services/anomaly_detector.py`). State:
profiles, the nightly and manual refreshes in one transaction each, a detector
task per event. Hard: two refreshes create one profile and one of them loses
all its users; a detector starts before its event is committed. Correct: users
with events get a baseline (`RefreshedBaselinesArrive`).

**Login throttle** (`routers/auth.py`). State: `_failed_attempts`,
`_lockout_until`. Hard: boundaries, and a lockout that forgets the failures
which caused it. Correct: bounded guesses per window (`GuessesBounded`).

**OIDC login and Redis client** (`routers/auth_oidc.py`,
`services/redis_client.py`). State: the provider's row, the verifiers kept in
Redis, the client with `_available`. Hard: state read and deleted in two calls,
failures suppressed, concurrent first use, a probe that fails. Correct: a
verifier is redeemed once, and no login is lost without a fault
(`VerifierOnce`, `LoginsFinish`).

**Search language** (`routers/search.py`). No state: tokenizer, recursive
descent, translation to SQL. Hard: implied AND, precedence, nesting, NOT with
empty columns. Correct: what is selected is what the grammar says
(`AnswersWhatIsAsked`).

**Cases** (`routers/cases.py`). State: cases, links, comments, artifacts. Hard:
check and insert of a link in two statements, updates that read an older row.
Correct: an item is linked once, a closed case is dated (`LinkedOnce`,
`ClosedIsDated`).

**Asset inventory** (`services/asset_discovery.py`, `routers/assets.py`).
State: assets, software, vulnerabilities, `cve_count`; one task per lookup.
Hard: two lookups of one asset count and insert at once, a session does not see
its own unflushed rows. Correct: the count promises no more than is there
(`CountIsBacked`).

**Network scanner** (`services/network_scanner.py`). State: scans, host rows,
a registry of tasks. Hard: a transaction per host, a host linked to an asset
that others create or delete, a database error after which the error handler's
own commit fails, a restart. Correct: counters equal rows, and scans end that
met neither of the last two (`CountersAreRows`, `ScansEnd`).

The rest: **notification channels** are one step of `AlertPipeline`, **ticket
integrations** one step of `PlaybookRuns`, **watchlists** the entry that
playbooks and analysts both insert (`PlaybookRuns`); **events** are deleted in
`Retention`. The **process life cycle** (`main.py`, `database.py`) appears as
crash and restart, and as the life of a session.

### Not modelled

- **Log parsers and normalizer, risk scoring**: regular expressions and
  arithmetic on one row; no order of steps, and no modelled property depends on
  what they compute. `_matches_condition` in detail belongs here too: which
  events a rule's condition matches is an input.
- **Statistics, compliance views, saved searches, timelines**: queries.
- **Roles and users**: one lookup per request.
- **Notification and ticket channels, the S3 client, NVD and the feeds'
  servers**: network I/O behind one step each, whose answer is chosen freely.
- **Search's rate limit, timeout, redaction and highlighting.**
- **Database migrations** (run once by a tool) and the **web frontend** (a
  client that keeps no state the backend's properties depend on).

## 3. How the models correspond to the code

**Atomicity.** A step ends where the code awaits something that lets another
coroutine in: a database round trip, a notification, a provider's answer. The
body of `async with self._lock` in `_evaluate_rule` has no await, so it is one
step (`EvaluateRule`); so is a login request, which awaits nothing.

**Database.** PostgreSQL with SQLAlchemy as `database.py:40-46` configures it:
READ COMMITTED, row locks from a flush or an UPDATE to the end of the
transaction, `autoflush=False`, `expire_on_commit=False`. A session writes only
the columns it changed, and its queries do not see what it has added and not
flushed. A failed flush leaves the session unusable until a rollback. `close()`
detaches its objects, and a rollback or failed flush expires them. An object
attached to one session raises when another adds it. A session keeps the
columns with which it first read an object, as long as the object lives. Two
transactions that insert one unique key: the second waits, and fails if the
first commits. Transactions that wait in a circle: one of them is aborted. A
commit that fails has changed nothing (an answer lost after the server has
committed is left out).

**Requests and tasks** are records in a function from the requests to where
each is (`pc`), what it has read, and what it has changed and not committed.

**CorrelationWindow.** `now` is the wall clock. `task[e]` is the coroutine of
event *e*: its timestamp, the rules as loaded when its loop began (`rules`), and
the rules it has still to come to (`todo`). `counters` is `_counters`; `fired`
is history. A counter's list of pairs is a set of event ids, since a stored
event's timestamp does not change. `LoadRules` gives the engine any rule table,
which covers every edit and reload. Thresholds and windows are integers of any
sign, because the API does not check them.

**RuleCache.** How the rules come to be that `CorrelationWindow` is given. A
desk is a request of `routers/rules.py` (read, commit, refresh, load), a feeder
a session of ingestion that may store several events. `ReadRules` is the SELECT
of `load_rules`, `AssignRules` what follows it; the rows a SELECT returns are
the session's own objects where it still has them. `SessionFails` is a failure
at any point, after the commit too.

**AlertPipeline.** `task[t]` is the coroutine that ingests event *t*, with the
state of its session; `objects` says which session each loaded rule object
belongs to and if it is expired; `jobs` are playbook tasks not run yet.
`Serial` makes events and edits come one after the other, which is the
condition under which the alert table is the abstract ledger. `WaitsFor` is the
row a session stands before and the session that has it. Left out: rule
statistics, risk scores, several rules or groups, several events per session, and
the indicator rows that `store_event` may lock first (see `ThreatIndicators`).
A lookup of the rule for the announcement may fail (`Notify`, `Dispatch`), on
the syslog path with what follows it; `unheard` remembers the events of such.

**ConnectorPolling.** A provider's log is numbered, and a clock reading is the
number of records written so far. `session["loop"]` is the pass,
`session["manual"]` a request to poll now. A record can be left out of an
answer (`Gaps`), raise by itself (`Rejects`), or be refused by the database
(`Poison`). Clock readings fall between records; storing a record is one step.
That a record is stored is followed, not how often, nor `events_ingested_total`.
`aged` says how many records are more than ten minutes old: a poll of a connector
without `last_polled_at` asks for later ones only, worked out anew at each retry
(`StartTime`). What the first one that is answered no longer asks for joins
`unseen`, with what the provider kept back, and is what the properties leave out.

**KafkaConsumer.** The loop, its position, and the requests `consumer.commit()`
has sent. The broker is external: it serves a consumer's requests in order, may
lose one, and refuses those of a consumer that was replaced.

**SyslogQueue.** `server.pc` is where `start()` or `stop()` is. The image runs
`uvicorn[standard]`, hence uvloop, whose `Server.wait_closed` returns at once and
leaves connections open; that of asyncio waits for them since Python 3.12. So the
step that cancels the processor waits for none, and allows for any that have
ended. From then to the end of the process (`ProcessEnds`) a TCP client may still
put lines into the queue (`late`), which nobody takes out. The processing of a
message is one step that may fail.

**BulkIngest.** An upload is a sequence of lines and a session. A line that
does not parse is an error of its own; an asset that another session has
inserted meanwhile fails the flush and, as nothing rolls back, everything
after it.

**ThreatIndicators, ThreatFeeds.** A request looks indicators up in order;
`seen` rows are dirty, `new` ones added, `held` ones flushed and locked. What an
external service says is chosen freely. A pull asks (`AskFeed`), with the filter
and the page size of its type, and commits when it found anything new; that
commit also writes what earlier turns of the pass left dirty. Items have an hour
of publication, and `unasked` remembers what no filter or page shows.

**PlaybookRuns.** One alert and the watchlist key that its source yields. A run
reads its playbook, performs its steps and commits once. `Waits` is the lock
order of the rows that runs share: the alert and the key.

**Retention.** A cycle reads the policies once, moves batches (`Select`,
`Flush`), archives, and commits once. `Deadlock` aborts one of a circle.

**UserBaselines.** The age of an event is a class (hour, month, older), and its
`flushed` state is the time between the creation of the detector task and the
commit of the event. Of a profile the hours and addresses are kept.

**LoginRateLimit.** One action per outcome of `login`: refused by a lockout,
starting a lockout, failing, succeeding.

**OidcLogin.** A login or callback goes through `_get_client` (with `Probe` on
first use), the operation, and, for a callback, the token exchange. Every
failure of Redis may take the request or only the answer.

**SearchLanguage.** A term is a model value: what it matches is data, so an
event is the function that says of each term true, false or unknown (a column
that is NULL), and a condition is the two sets of events of which it is true and
false. `Parse` is `_Parser`: one recursive function of rule and position, with
an operator per method (`Expr`, `AndExpr`, `NotExpr`, `Atom`), the loops written
as recursion on the right. Groups nested deeper than `MaxNesting` are refused,
as Python's recursion limit does with an error that is answered with 500; the
length of a query (500 characters) is checked before there are tokens, and is
left out. `Meanings` is the reference: the conditions of all derivations in the
grammar that the docstring and the route describe, which repeats on the left
(`OrMeans`, `AndMeans`, `NotMeans`, `AtomMeans`).

**CaseDesk, AssetInventory, NetworkScanner.** A request reads in one step and
writes in later ones. `enrich_cves` is a task per asset, with one commit at its
end; a scan is a task with a transaction per host. An exception that leaves its
session usable ends it as failed (`FailScan`); a database error does not, since
the handler's commit fails as well, nor does one outside the `try` (`LoseScan`),
and with restarts these leave `abandoned` scans. `overlapped`, `repeated`,
`cleared` and `abandoned` are history that properties need to name the case they
leave out. `EstateSpec` puts scans beside everything else that others do to the
inventory (`InventoryWork`): assets of any name, software, lookups, deletions,
all on one asset table.

## 4. What the runs show

| run | bounds | what holds (or fails) |
|---|---|---|
| `correlation_prompt` | windows: 4 events, threshold 3, window 2, clock 0..3, prompt, live timestamps; rules: 1 rule, 2 desks, 1 feeder, 1 fault, every edit | `NothingMissed`, `ImplementsDetector`, `QuietKeysReclaimed`; `EnabledRulesRun` |
| `correlation_edited` | 3 events, 2 groups, 3 versions of a rule, lag 1, skew 1, clock 0..2, free interleaving | type invariant, `FiringsDisjoint`, `FiringsJustified`, `CountersBounded` |
| `alert_serial` | 3 events (1 syslog), 1 reload, 1 fault, analyst, asset discovery, threshold 1 | `ImplementsLedger`, `SavedIsDispatched` |
| `alert_races` | 4 sessions, threshold 2 (so two firings), 1 reload, 1 fault, analyst | `HitsBacked`, `NotifiedIsSaved`, `EvidenceNotShared`, `StatusBelongsToAnalyst` |
| `alert_settles` | 3 sessions (1 syslog), threshold 1, 1 reload, 1 fault, asset discovery | `EverySessionCloses` under fairness |
| `alert_unannounced` | 2 sessions, threshold 1 | `SavedIsDispatched` **violated** |
| `alert_twice` | 2 sessions, 2 reloads | `OpensOneAlert` **violated** |
| `connector_poisoned` | 2 connectors, 1 record the database refuses, nothing else | `RecordsArrive` **violated** |
| `receiving` | polling: 2 connectors, 2 records, 1 that ages, 1 gap, 1 rejected record, 1 failure, crash, edit or manual poll | `NothingSkipped`, `RecordsArrive` |
| | Kafka: 4 messages, 1 malformed, 2 faults, 2 stops | `CommittedIsHandled`, `CommittedIsFinal`, `MessagesArrive` |
| | syslog: 2 datagrams, 1 line of 1 TCP client, queue of 2, 1 fault, 2 restarts | `OnlyTcpIsStrandedLate`, `AcceptedIsFinished` |
| | uploads: 2 of 3 and 4 lines that share hosts, 1 above the limit of 4, 1 fault | `AnswersExact` |
| `threat_feeds` | requests: a check, an import and a creation over 2 indicators; feeds: 3 (one of each type), 3 items of which two are one indicator, 2 hours, 2 edits, 1 fault | `RequestsEnd`; `PulledIsListed`, `FeedsComeRound` |
| `background` | retention: 2 events, 2 policies, batches of 1, loop and a manual run, 2 days, 2 edits, 1 fault; baselines: 3 events of 2 users, nightly and manual refresh, 1 fault | `InOneTable`, `AgedEventsLeave`; `RefreshedBaselinesArrive` |
| `serving` | throttle: 2 users, 2 failures, window 2, lockout 3, clock 0..6, 4 attempts | `GuessesBounded` |
| | OIDC: 2 logins, 2 callbacks, 2 edits of the provider, 1 fault of Redis or the process | `VerifierOnce`, `LoginsFinish` |
| | search: every query of at most 5 tokens over 3 terms and the 5 marks, groups nested once | `AnswersWhatIsAsked` |
| | cases: 1 case, 2 items, 1 note, 2 desks, 5 requests | `LinkedOnce`, `ClosedIsDated` |
| | inventory and scans: 3 assets of one name, 2 products with one CVE, 2 lookups; 2 scans of 2 addresses, 1 fault | `CountIsBacked`; `CountersAreRows`, `ScansEnd` |
| | playbooks: 2 rows, 3 definitions, 2 runs, 2 edits, 1 change by others, 1 fault | `RecordsExplain`, `EveryRunEnds` |

Why the bounds suffice. In `correlation_edited` three events with thresholds 1
to 3 give two firings of one key, or one firing and events left over, on either
side of a purge and an edit; the invariants of that run are also proved for all
bounds. In `correlation_prompt` four events with threshold three give a firing
and the start of the next, and the clock passes the window once with events
waiting; `EnabledRulesRun` was also checked once with one desk and two feeders.
In `alert_races` two firings is the least number that can race on one alert, and
each takes two events so that evidence could be shared. In `receiving` one event
of the world is enough to fail any step of a polling pass, and one record that
ages between two polls is one that a first poll misses; four messages and three
consumers leave requests behind; three lines fill the syslog queue, overflow it
and stand on either side of a stop (four were checked once); two uploads meet at
a host that both insert and at one that only one does. In `threat_feeds` two
indicators locked in opposite orders are the least circle, and a page of one
item leaves another out. In `background` and `serving` two tasks are enough, as
each race of that code is between two of them, and one fault falls at any of
their steps. Search queries of five tokens reach every pair of operators, nested
groups, and each misplaced mark; six tokens over two terms were checked once as
well (137,257 queries).

Symmetry is used only in runs of invariants and step properties (events with
the same path are interchangeable, as are groups), never with liveness.
Deadlock checking is off in `receiving`, `threat_feeds`, `background` and
`serving`: their logs, attempts, requests and clocks are bounded, so the models
stop where the system would not.

**Fairness**, and why the code justifies it. The event loop resumes a coroutine
whose await is answered: weak fairness of each task's steps. In particular:

- `CorrelationWindow`: weak fairness of `PurgeOldCounters`. `start_cleanup_loop`
  sleeps and purges until the process stops, and the step is always enabled.
- `RuleCache`: weak fairness of the sessions' steps, and of a minute's passing.
  That events keep coming and edits stop is a condition of the property.
- `AlertPipeline`: weak fairness of each coroutine's steps and of its playbook
  task. A session waiting for a row lock is not enabled, so freedom from lock
  cycles is what the property shows, not something fairness assumes.
- `ConnectorPolling`: weak fairness of the loop task, and strong fairness of
  `BeginPoll(c)`: a connector that comes up pass after pass is due in one of
  them, since its interval is finite. No fairness for providers, users or the
  manual poll.
- `KafkaConsumer`: weak fairness of the loop and of `Start`; none for the
  broker's service of commit requests.
- `SyslogQueue`: weak fairness of the processor (`TakeMessage`, `FinishMessage`),
  none for clients or for `stop()`.
- `ThreatIndicators`, `Retention`, `UserBaselines`: weak fairness of the tasks,
  and strong fairness of the steps that take a row lock which others take and
  release again and again (`WriteRow`, `Flush`, `FlushBaseline`): PostgreSQL
  grants a lock in the order of the queue for it. A circle of waiting is ended
  by the deadlock check, which is an action.
- `ThreatFeeds`: weak fairness of the pass; none for manual pulls.
- `PlaybookRuns`, `NetworkScanner`: weak fairness of each run and scan.

In a run of several components, fairness of a step in one part and of another in
another part is stated as one formula, which is the same because `part` never
changes. Failures are bounded by named constants (`MaxFaults`, `MaxStops`,
`MaxEvents`, `MaxRuleFaults`, ...): a system that fails for ever promises nothing.

Each module states its type invariant; `correlation_edited` checks one, the
proofs show six of them and, in a form that suits the proof, the others they
need, and the rest were checked while the modules were written.

## 5. What is proved

36 theorems, for every value of the constants that satisfies the named
assumptions of the modules. These ask that the sets which are counted are finite
(events, hosts, items, CVEs), that bounds are not negative, that marks are
distinct from the values they stand in for, and little else: there is no
assumption on how many sessions, rules, users or failures there are. A theorem
about a component is about its own specification (`Spec`, or `OidcSpec`,
`CaseSpec`, `EstateSpec`, ...: initial states and `[][Next]_vars`, without
fairness); the runs that check several components at once use the same actions.

Every safety proof has one shape: the property is a conjunct, or a plain
consequence, of an invariant that holds initially and is kept by each action;
one lemma per action says so. What makes each of these invariants inductive is
the interesting part. Each was first checked by TLC on the instance of its run.
So were the properties that theorems state and no run checks:
`NobodyWaitsInACircle`, `EstateSpec`'s, `RowsHeldApart`, `CountedIsListed`,
`UebaTypeOK`, `BaselinesAreLearnt`.

**`CorrelationWindowProofs`.** `TypeCorrect`, `EvidenceUsedOncePerKey`
(`FiringsDisjoint`), `FiringsAreJustified` (`FiringsJustified`) and
`CountersStayBounded` (`CountersBounded`). The type invariant is not inductive
alone: an evaluation reads the threshold of a rule in its `todo`, so `TypeInv`
adds `TodoEnabled` (the coroutine's own copy of the rules has that rule enabled,
whatever was loaded since). `FiringsDisjoint` needs `WaitingIsUnconsumed`, since
a firing takes what waits; and both need "what is evaluated stays evaluated",
because a coroutine never returns to a rule. So `EvidenceInv` is the type
invariant and three properties, and says nothing about time: the theorems hold
for every lag, skew and edit. The bound of the counters is inductive with
`TypeInv`: an evaluation adds one event, and a counter that it does not fire
from is below the threshold of the coroutine's own copy of the rule, which no
version sets above `ThresholdBound`.

**`CorrelationDetectionProofs`.** `DetectionIsComplete` (`NothingMissed`) and
`EngineImplementsDetector` (`ImplementsDetector`, the refinement), both under
`PromptAndLive`: one version of the rule with a window that is not negative,
evaluation in the second of the event, no lag and no skew. The code does not
guarantee these, and without them `NothingMissed` fails (section 6); they are
what `correlation_prompt` assumes as well. A counter is purged lazily, when it
is next used or by the cleanup, with the window it was created with and by the
wall clock. `DetectionInv` says that it does not matter: what waits (evaluated,
in no firing) and is inside the window is in the counter (`LiveIsWaiting`), a
coroutine at work has an event of this second (`Timely`), and counters have the
window of the rule (`OneWindow`). `NothingMissed` is about all windows, also
past ones, so it needs `Sparse`: the events up to each waiting one are fewer
than the threshold, which a new event at the end cannot spoil for earlier ones.

**`AlertPipelineProofs`.** `PipelineTyped` (`TypeOK`), `EvidenceUsedOnce`
(`EvidenceNotShared`), `HitsAreBacked` (`HitsBacked`), `AnnouncedIsSaved`
(`NotifiedIsSaved`), `StatusIsTheAnalysts` (`StatusBelongsToAnalyst`), for any
interleaving of sessions, reloads, failures and crashes. `PipelineInv` adds to
the type invariant what a coroutine has at each place of its way (`Phases`),
that an alert's row is the work of the coroutine it is named after (`Rows`), and
that an event counted is in the counter or in one firing, never both
(`Evidence`). `Hits` is about values that were read and will be written later:
what a row holds and what a coroutine has read are backed by committed firings;
what it is to write is backed but for its own firing. That is inductive although
the update is a read-modify-write without a lock, because backing only grows: a
lost update makes the number smaller, never larger.
`SavedIsAnnounced` (`SavedIsDispatched`: saved is announced, or its rule could not
be looked up) and `PipelineImplementsLedger`
(`ImplementsLedger`, the refinement of the abstract alert table) have the
hypothesis `Serial`, which the runs `alert_unannounced` and `alert_twice` show
to be needed. `OneAtATime` says that one coroutine is in flight, that rule
objects are its own or nobody's, and that what it read from the table is still
there when it writes (`FreshRead`); each step then maps to a step of the ledger
or to none.

`LocksFormNoCircle` (`NobodyWaitsInACircle`) is the safety behind
`EverySessionCloses`: among any set of sessions there is one that waits for none
of them, as far as rows of assets, rules and alerts go. The indicator rows that
`store_event` may lock before these are not in it: they are locked in the order
of an event's fields and do form circles (`ThreatIndicators`). PostgreSQL would
break a circle by aborting a session; the theorem says that sessions of one
event each never make one. Two facts make it inductive (`LockOrder`): a session
that has still to write the asset's row has not written it, and one session at
most holds the rule's row. So the one that holds the rule waits for nobody, and
where there is none, whoever holds an asset's row does not.

**`ReceivingProofs`.** `NoRecordIsSkipped` (`NothingSkipped`),
`BulkAnswersAreExact` (`AnswersExact`), `FeedItemsAreListed` (`PulledIsListed`),
`LateMessagesCameOverTcp` (`OnlyTcpIsStrandedLate`), `ConsumerCorrect` (`TypeOK`,
`CommittedIsHandled`, `RepeatsBounded`), `CommittedStays` (`CommittedIsFinal`) and
`CountedIndicatorsAreListed` (`RowsHeldApart`, `CountedIsListed`).

- `PollingInv`: a watermark passes only records that are settled, and this is so
  of the rows of the table and of every object that a session has loaded or
  changed, whatever became of the table meanwhile (a later commit may write it).
  Of a poll under way: what is before the time it will note is settled or still
  to be stored, as long as the session is not broken.
- `UploadInv`: where a request is and what it has counted (`Counts`), with the
  refused lines before its place; unless it met another upload, the asset it is
  about to insert is not there, so the flush does not fail.
- `FeedsInv`: the same idea as in `PollingInv`, stated with two sets that only
  grow: the items that nobody needs to ask for again (`SettledItems`) and the
  pairs of feed and hour before which all is settled (`Told`). Rows, loaded
  objects and dirty objects name pairs of `Told`.
- `SyslogInv`: a listener is open only while the server is up, and then the
  processor is there, so only a connection can outlive it (`Attended`); the line
  of messages finished, in hand and queued for a processor is in the order of
  arrival, and lacks only what was stranded or late (`Orderly`).
- `ConsumerInv`: everything below the position is handled but the message in hand
  (`PositionInv`), each request in flight asks for something handled
  (`RequestInv`), committed offset, requests and position are in that order while
  a consumer runs (`OrderInv`), and a message the running consumer has not come
  to was stored at most once per stop (`RepeatInv`). `OrderInv` is what makes the
  late requests of a stopped consumer harmless.
- `IndicatorInv`: of each session's own record and the table, what it flushed as
  new is not there yet and what it flushed as changed still is (`HoldsItsOwn`),
  and a request that adds rows has counted exactly those (`CountsItsNew`); no two
  sessions hold one row (`Apart`). A commit publishes only what was flushed, hence
  held, so no other session's new row is suddenly there.

**`BackgroundProofs`.** `RetentionTyped` (`RetentionTypeOK`) and
`EventsAreInOneTable` (`InOneTable`). The property is inductive once events that
have not arrived have no copy and what a transaction has moved has arrived
(`Tables`); a cycle's own record must be known to be empty when it is idle or
done, and to hold its batch among what it moved when it uploads (`TasksSound`).
`ProfilesAreLearnt` (`UebaTypeOK`, `BaselinesAreLearnt`): a refresh computes a
profile, waits for another transaction, and commits much later, so what must be
kept is about all values under way, in the table, computed or flushed
(`AllLearnt`): they stem from committed events of their user. That survives the
waiting because what is committed stays so while it ages (`Later`). A detector
that went further than the profile has found one, and profiles stay.

**`LoginRateLimitProofs`.** `ThrottleCorrect`. Forgetting the failures at a
lockout is safe only because the lockout outlasts the window
(`ThrottleAssumption`: `LockoutDuration > FailureWindow`; in the code 900 and
300 seconds). The invariant says that a guess no longer recorded has left the
window or is covered by a lockout that began after it (`Forgotten`), that every
lockout is over or still in `unlockAt` (`Pending`), and that recorded failures
are guesses and nothing lies in the future (`Past`).

**`ServingProofs`.**

- `VerifierRedeemedOnce` (`VerifierOnce`) and `LoginsAreNotLost`
  (`LoginsFinish`), with `OidcInv`: of a login that nothing spoilt one callback
  at most is under way, and no verifier is redeemed, or about to be, while its
  key can be found (`OneRedeems`); while Redis has not failed, the key of a
  login waits for its callback (`KeysWait`).
- `ItemsAreLinkedOnce` (`LinkedOnce`) and `ClosedCasesAreDated`
  (`ClosedIsDated`), with `CaseInv`: on a case that no two requests overlapped
  on, what a link request is still to insert is not linked; an update under way
  writes a date whenever it writes a status that needs one, or finds the date
  written (`DatesKept`).
- `ScanCountersAreRows` (`CountersAreRows`), with `ScannerInv`: the targets a
  scan has left are those without a row (`TargetsLeft`), which is why each row
  is counted once and a completed scan has them all.
- `RunRecordsExplain` (`RecordsExplain`), with `PlaybookInv`: nothing of a run
  is committed before its record is, afterwards the run is over, and until then
  its results say which steps were done (`RunExplained`, `TaskExplained`). What it
  wrote it calls done, what it calls done it wrote or delivered, and what it
  delivered is among its steps: one whose answer was lost is recorded as failed.
- `CountsAreBacked` (`CountIsBacked`), with `InventoryInv`: a count that waits
  for its commit is one of rows that are there (`PendingIsBacked`), and rows
  stay as long as their asset does. Two lemmas about the set of rows
  (`ListedIsFinite`, `ListedGrows`) replace an induction over the CVEs.
- `EstateIsAnInventory` (`EstateSpec => InventorySpec`) and
  `EstateNumbersAreTrue` (`CountersAreRows`, `CountIsBacked`): every step of a
  scan is a step of the inventory or none (`ScannerStepIsInventoryStep`), and
  everything else that others do keeps `ScannerInv`. So both invariants hold
  together when scans, lookups and analysts work on one table.

**`SearchLanguageProofs`.** `ParserIsTheGrammar`: for every sequence of tokens,
`Meanings` is the one condition that `Parse` returns if it reads the sequence to
its end, and empty otherwise. So the parser is sound and complete for the
documented grammar, and the grammar is unambiguous. `SearchAnswersWhatIsAsked`
(`AnswersWhatIsAsked`) follows, for queries of every length. The library's
induction rules are out of the prover's reach (see below), so `LeastNumber`,
which follows from `<` being well-founded on `Nat`, takes their place: a set of
numbers without a least element is empty (`NoLeast`). All inductions here are of
that form. `ParserIsDefined` and `GrammarIsDefined` show that the two recursive
definitions define functions, the parser's from the end of the query backwards,
the grammar's from shorter to longer stretches. `ReadIsDerived` and
`MeantIsFound` show that what is read can be derived, and the converse. Between
the two lies that the parser repeats an operator on the right and the grammar on
the left; And and Or are associative, and `AndFromRight` and `AndHasFirst`, with
those of Or, carry one form into the other.

**Only model-checked.** All liveness (`QuietKeysReclaimed`, `EnabledRulesRun`,
`EverySessionCloses`, `RecordsArrive`, `MessagesArrive`, `AcceptedIsFinished`,
`RequestsEnd`, `FeedsComeRound`, `AgedEventsLeave`, `RefreshedBaselinesArrive`,
`EveryRunEnds`, `ScansEnd`): fairness and ENABLED are beyond the prover. So is
`RuleCache` as a whole, of which nothing but liveness is claimed: at any moment
the engine may run rules that are gone, and what should hold is that it does not
stay so. All invariants and step properties that the passing runs check are
proved.

The provers cannot instantiate the library's induction theorems, which take an
operator as a parameter; where an induction over data was needed it is by the
least counterexample, as above. No module declares a RECURSIVE operator.

## 6. Where the code and its documentation disagree

Three disagreements have a run of their own (see `findings` in `PROJECT.json`):

1. `alert_twice`: two sessions that both find no open alert both open one;
   `dedup_key` is indexed but not unique.
2. `alert_unannounced`: a rule object held by another live session makes
   `db.add(rule)` raise after `db.add(alert)`. The exception is swallowed and
   the alert is committed without notification or playbooks.
3. `connector_poisoned`: one record the database refuses breaks the pass's
   shared session. The other records of the answer fail too, the pass ends,
   and connectors whose turn comes later are not polled.

The modules state more promises that the code breaks; each is a definition
beside the checked properties, which no run checks:

- `NothingMissed` (`CorrelationWindow`) with late timestamps (`MaxLag = 2`):
  logs that arrive late are purged by the wall clock before their window, in
  event time, is counted.
- `AlertPipeline`, at its end: `HitsOnlyOpenAlerts` (an alert resolved between
  SELECT and commit still gets the hit), `HitsExact` (a lost update),
  `EvidenceStored` (an alert lists an event whose session failed),
  `SyslogFiringSaved` (the syslog path drops a firing whose rule object was
  taken), `StoredIsEvaluated` (one rollback expires the rule objects for all
  later evaluations until the reload), `PlaybooksRun` (with UEBA off,
  `AsyncSessionLocal` is unbound in `_run_playbooks`).
- `LatestRulesRun` (`RuleCache`; `routers/rules.py:83`, `132`): a session that
  still has a rule's object with its old columns publishes those when it
  reloads, and the engine evaluates an old threshold until a later load.
- `RunCountExact` (`PlaybookRuns`; `playbook_engine.py:102`): concurrent runs
  overwrite each other's count. `SentIsRecorded`: a webhook or ticket has gone
  out and the commit that records the run fails.
- `CvesListedOnce`, `CveCountExact` (`AssetInventory`; `asset_discovery.py:56`):
  two products with one CVE in one lookup, or two lookups at once, list it twice
  and leave a count that is neither.
- `LinkedOnce` (`CaseDesk`) leaves out cases on which two link requests
  overlapped, since those do double a link: check and insert are two statements
  and the table has no unique key.
- `AnswersExact` leaves out a clash over one new asset, after which the upload's
  later events all fail. `ScansEnd` leaves out scans that met such a clash or
  another database error: the handler's own commit (`network_scanner.py:227`)
  fails too, and the scan says "queued" or "running" for ever.
- `FeedsComeRound` leaves out a feed whose answer has one new indicator twice:
  it ends every pass, as in `connector_poisoned`.
- `LoginsFinish` needs Redis to work: `auth_oidc.py:105` says that Redis
  failures do not stop the flow, but the provider refuses the code without the
  verifier. A failed first probe turns Redis off until the process is restarted.
- `SavedIsDispatched` leaves out firings whose rule could not be looked up after
  the commit (`event_store.py:206`): they are saved and never announced.

Met while reading, without a definition: the default rule fires at five failures
where its description says "more than 5"; the port-scan rule counts events, not
distinct ports; `tests/test_auth/test_brute_force.py` expects other limits than
`_LOGIN_MAX_FAILURES` and imports a function that does not exist;
`CORRELATION_ENABLED` only controls the cleanup task; the syslog path notifies
before it commits the alert; a record that arrives between the clock reading
and the provider's answer is stored again by the next poll; a manual poll
repeats records and is not counted in `events_ingested_total`; a Kafka message
that fails before the first committed offset is skipped by a restart;
`test_unknown_field_falls_through_to_fulltext` expects a query that
`routers/search.py:276` refuses; NOT leaves out events whose column is NULL; the
tokenizer splits a quoted value with a space after a field; `test_rule` ignores
the time window, and groups by keys that the events it builds do not have;
`RedisClient.close` is never called; a webhook that is delivered and answers too
late is recorded as failed, and may be sent again by whoever reads the record;
a connector whose first polls fail for long loses what has become older than ten
minutes; lines that TCP clients send during a shutdown are queued and lost.

## 7. Plan

The components that keep state with an order of steps are modelled, and every
invariant and step property that a run checks is proved. What is left:

1. More of what the liveness properties rest on, as safety: that a due connector
or feed is in a pass's `todo` until its turn (`RecordsArrive`,
`FeedsComeRound`), and that the runs of `PlaybookRuns` wait in a circle only
over the alert and the key.
2. `RuleCache`: a history of the loads that overlap an edit would let one state,
as an invariant, when the engine's rules may differ from the table's.
3. `CorrelationWindow` with `RuleCache` in one specification, as
   `EstateSpec` is for scans and the inventory.

Candidates for modelling beyond that: several rules and groups in
`AlertPipeline`, and the creation of connectors while the polling loop runs.
