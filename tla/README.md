# TLA+ models of the instance metric collector

An **agent** collects a snapshot of its machine at every tick, serves it to its
own dashboard and pushes it to a **hub**. The hub keeps the latest snapshots per
agent in memory, writes them to SQLite, evaluates alert rules on each of them,
notifies webhook channels and serves the dashboard of all agents. Both are one
Go code base (`src/go`), the dashboard is a React application
(`src/go/web/frontend`). Paths below are relative to `src/go/internal` unless
they start with `src/`.

## Inventory

| Component | State | Operations | Talks to | What is hard |
|---|---|---|---|---|
| push client, spool (`push/`) | channel of 3, SQLite table, the snapshot in flight | Enqueue, Run, drain, flush, send; Put, Peek, Delete, trim | ticker goroutine, hub (HTTP) | two goroutines on one queue, lost answers, full stages, process end |
| agent loop (`runtime/runner.go`) | tickers, contexts | collect, enqueue, shutdown | collectors, push, store | order of shutdown |
| hub registry (`hub/`) | ring and latest snapshot per agent, summaries | Ingest, Latest, History, ListAgents, Hydrate | ingest, stale checker, queries | read and update are two calls |
| ingest and queries (`web/server.go`, `server_agents.go`) | none of its own | ingest, agents, current, history, alerts, config | registry, history, alert engine | writes in goroutines of their own |
| alert engine (`alert/engine.go`, `fanout.go`, `persist.go`) | queue of 64, lastSent, ring of 100 | OnIngest, RunStaleChecker, enqueue, deliver | rules, channels, history | several producers, retries, deadlines, restart |
| silences (`alert/silence.go`) | list in memory and in `hub_settings` | Add, List, IsSilenced, load | HTTP, engine, SQLite | memory against database, time |
| alert configuration (`alert/config_*.go`) | thresholds in memory and in `hub_settings` | Get, Update, Persist, load | HTTP, rules, engine | update and save are two steps |
| history (`history/store.go`, `catalog.go`, `insight.go`) | samples, agents, alert events, insights | write, list, acknowledge, retention | ingest, queries | order of asynchronous writes, text times |
| rollups (`history/rollup*.go`) | hourly and daily rows | hourly, daily, downsample | retention ticker, queries | late samples, failures between passes |
| diagnostics (`diagnostic/engine.go`) | none | Analyze, detections | history | thresholds |
| live store, SSE (`store/snapshot.go`, `web/server.go`) | latest snapshot, one channel per reader | Push, broadcast, register, serve, close | browser | send against close, a full channel, what happens between the first event and the registration |
| docker cache (`docker/collector.go`) | cached lists, flag | refresh, read | Docker daemon | refresh in flight |
| collectors, probes, payload, config, demo, log output | none | one reading each | OS | none |
| data hooks (`src/go/web/frontend/src/api`) | the last answer, loading, error, requests under way | poll, answer, clean-up | hub or agent (HTTP, SSE) | answers out of order, of a selection that is gone, failures in between |
| pages (`routes`, `components`, `lib`, `context`) | address, selection, search, order, tabs, view mode, drafts | navigate, select, follow a link, scrub, edit and save | hooks, address bar | a selection that outlives its row, links across pages, numbers at the edge of a chart |

What makes each correct: the *push path* forgets no snapshot off the record and
keeps their order; the *alert engine* settles each event once, keeps cooldowns and
silences; the *registry* never shows an agent fresher than it is and stored samples
are there after a restart; *rollups* count what is deleted; the *configuration* on
disk follows the memory; the *stream* reaches every open page and never sends on a
closed channel; a *page* shows what belongs to the agent, range or container in its
heading, in the end and whatever came late.

## Modules

| Module | Models |
|---|---|
| `Outbox` | the promise of the push path: at-least-once, nothing forgotten off the record |
| `PushClient` | `push/client.go`, `push/spool.go`, the ticker and the end of the process in `runtime/runner.go`, the answers of `handleIngest` |
| `PushClientProofs` | theorems about `PushClient` |
| `AlertEngine` | `alert/engine.go`, `silence.go`, `fanout.go`, `persist.go`, the silence handlers, a restart of the hub |
| `AlertEngineProofs` | theorems about `AlertEngine` |
| `HubIngest` | `handleIngest` and its goroutine (`web/server.go`), `hub/`, `history/catalog.go`, the CPU spike of `diagnostic/engine.go`, the stale checker, the start and the end of the hub |
| `HubIngestProofs` | theorems about `HubIngest` |
| `HistoryRollup` | `history/rollup.go`, `rollup_daily.go`, `RunRetention`, the goroutine that runs them |
| `HistoryRollupProofs` | theorems about `HistoryRollup` |
| `DrillDown` | the hub page, the drill-down's layout and pages, `useHubAgents`, `useHubAgentMetrics`, `useDiagnostics`, the view mode |
| `HistoryPane` | `useHistorySamples`, `useMeta`, the range picker, the scrubber, the charts and the queries that serve them |
| `HistoryPaneProofs` | theorems about `HistoryPane` |
| `AlertPages` | `useAlerts`, the alert page, `useHubAlertConfig`, the settings form; the acknowledgement, silence and configuration handlers with `config_store.go`, `config_load.go` |
| `AlertPagesProofs` | theorems about `AlertPages` |
| `LiveStream` | `store/snapshot.go`, `sseHub` of `web/server.go`, `useMetrics` |
| `LiveStreamProofs` | theorems about `LiveStream` |
| `SplitViews` | what the master-detail views compute: search, order, tree, links between services and processes, cards of the diagnoses |
| `Workbench` | extends `SplitViews`: dashboard, processes, services, containers, container metrics, diagnoses, `useContainerMetrics` |
| `BrowserProofs` | theorems about `Workbench` and `DrillDown`; it extends both |
| `MC...` | instances for TLC, one per module that has runs |

The modules meet where the components do. What `PushClient` delivers, `HubIngest`
takes: `Outbox` promises each snapshot at least once and in no order, and
`HubIngest` accepts any snapshot at any time and any number of times. What a
rule finds in an ingested snapshot, or the stale checker in the registry, is
`Raise` in `AlertEngine`. The samples `HubIngest` writes are those that
`HistoryRollup` sums up and deletes and `HistoryPane` loads; the statuses it
lists are those `DrillDown` polls. A module of the browser contains the part of
the server it talks to (`hubVars`, `serverVars`), so that each request and its
handler's statements interleave with everything else.

### PushClient

A snapshot is the number of the tick that collected it, so `<` is the order of
collection. `queue` is the channel, `spool` the table `push_spool` as a function
from row id to snapshot, `held` and `evicted` the snapshot offered to `Enqueue`
and the one it popped, `cur` and `peeked` what the worker took from the queue or
read from the spool. The program counters `cpc` (ticker) and `wpc` (worker) stop
between any two statements another goroutine can interleave with: the two
selects of `Enqueue`, the INSERT and the trim of `Put` (which hold `Spool.mu`,
so `SpoolFree` guards the worker's statements), the request and its answer.
`wire` holds requests the hub has not handled: after a timeout they are still
there, and the hub may ingest them later. `Exit`, `Crash` and `Restart` lose the
memory and keep the spool file. `lost` is a record for the properties: memory
(the process ended), squeezed (a full stage made room), rejected (a 4xx on the
flush), storage (an INSERT failed).

What is abstracted: times (a timer is an action that may fire), payloads,
gzip and headers, the token, Stats counters.

### AlertEngine

An event is a number and its key, agent and type. Each producer is a goroutine
inside `enqueue` (ingest handlers, the stale checker) at one of its three
selects. The worker goes through the silence check, the cooldown check,
attempts and backoffs. `now` is a clock that any number of steps may share;
`lastSent`, `silences` and `saved` hold times, 0 standing for an absent entry.
`Reachable` is what one context of 5 s for the whole fan-out comes to: the
channels after one that hangs are not reached. `sent`, `outcome`, `acked`,
`unread` and `life` are records for the properties.

What is abstracted: which rule fires on which values (any key may), the text of
the notification, the statistics, the backoff's length.

### HubIngest

A snapshot is the time it was collected, which is never after its arrival (an
agent whose clock is ahead of the hub's is outside the model). `ring` and
`lastSeen` are the registry, `raw`, `catalog` and `insight` the tables.
A request stops between its two calls of the registry and before the diagnosis;
its goroutine (`writers`) stops between the sample and the catalog row, and goes
on after the answer. `Halt` takes everything in memory; `Boot` is `Open` with the
backfill and `Hydrate`, before the server listens, and either statement may
fail. `StaleScan` takes the copy of the registry that `StaleRaise` works on.
`heard`, `acked`, `gone` and `alarms` are records.

What is abstracted: the summary's hostname and figures, the payload but the CPU
load, the answers 400 and 401, the counters, the `minimal` profile (which stores
no samples) and a hub without history, the limit of `History`; the text order of
times, which `HistoryRollup` has.

### HistoryRollup

Time is counted in instants, `Hour` of them in an hour. `Text` is the order of
RFC3339Nano texts, which is not the order of time: a fraction of the first second
of an hour is before the whole second. `rows` holds, per tier, agent and slot,
the set of samples that the averages and counts of a row stand for; `mark` the
watermarks. `job` is where the goroutine is: it stops between any two statements
of a pass, and samples are written there. A pass reads the end from the clock
once per tier. `due` are the two tickers, which the goroutine's one `select`
serves. `PassFails` is a failing statement anywhere, after which a rollup pass
goes on with the daily tier and a retention pass stops; `HubRestart` drops the
pass and keeps the tables. `deleted`, `missed` and `early` are records: samples
deleted, samples that came when their hour had been summed up, days that were
summed up before all of their hours.

What is abstracted: the averages themselves, the queries per resolution.
At the bound of the clock the tickers go on firing, so that the last passes of a
behaviour are not cut off.

### DrillDown

`agent`, `agentPage` are the address, `agents`, `agentSnapshot`, `live`, `agentItems`
the states of the three hooks, `fetch` their requests: a slot is idle, sent or answered, and
`Poll`, `Serve` and one action per hook (`LoadAgents`, `LoadMetrics`,
`LoadDiagnostics`) are the interval, the handler and the continuation of the
promise, of which none is cancelled. `Moved` is the effect of a new agent id,
`ShowStatus` the effect in `HubAgentLayout` that switches to history. `status`
changes on the hub by itself, as time passes. `chosen` is a record. The names of this module
(`HubInit`, `agentPage`, ...) are none of `Workbench`'s, so that one module of proofs
extends both.

### HistoryPane

The key of a load is the agent (or `Local`) and the range; `loads` are those under
way, each with the `cancelled` flag of its closure. `Effect` is the clean-up and the
new load when meta, agent, range or mode change. `Held` is what the server answers:
the latest of the window up to the limit, raw or hourly. `Chart` translates
`MetricTrendChart` with integer pixels (tenths), `Selected` the clamped scrubber.

A sample carries `lists`, the lists of its payload that are not null: Go sends a slice
that was never made as `null`, so the containers are null without Docker
(`docker/collector.go:186`), the disks after a failed reading (`collector/system.go:43`),
a container's ports when it publishes none (`docker/collector.go:169`). Which readings
lack which is the constant `Reading`; a row of the hub's hourly rollup has none (`Row`).
`Walked` are the lists a page goes through without a guard, with the panel of a row open
also those the panel goes through (`findServicesForProcess`, `findProcessesForService`);
which row is selected is left open, and `SelectRow` is a click on one. `Draws` says whether it can,
`Renders` looks at every sample that a render of History mode draws (the dashboard all of
them, another page the one selected, before and after the scrubber returns to the
first), `LiveShows` at a live one. `crashed` is a render that threw; there is no error
boundary, so only a reload of the page goes on.

### AlertPages

`status`, `silenced`, `mem` and `disk` are the hub's. `posts` stop between the
SELECT and the UPDATE of the acknowledgement, `puts` between `Update`, the reading
back and the saving of `Persist`. `reloads`, `load` are GETs. A field of the
configuration is its default, another number or out of range, which `Normalize`
maps to the default. `Others` are a second browser's acknowledgements and saves.
`drift`, `raced` and `unsaved` are records.

### LiveStream

A handler (`conn[c].pc`) registers its channel, sends the first event, loops and
leaves; `Broadcast` holds the lock and takes one non-blocking send per reader.
`Leave` and `Close` are the deferred unregistration and close. `wire` is what the
server has written and the browser not read. Every mounted `useMetrics` has an
`EventSource` and one GET of its own: on an agent the header has one and the page one, two
or three, since each component that reads the context where no provider is mounted has
its own. A page stands in the model for one of them; they share nothing but the
server, and the properties are about each hook by itself. `Restart` empties the store and ends every
connection.

### SplitViews, Workbench

A row carries the searches it matches instead of its text, a process in `links` the names
of the services that match its command line: the scores, the order of the matches and
their limits (20 and 15) are left out. A service name is the sequence of its path segments.
`Select` is `Array.filter` (the prover knows no `SelectSeq`). `Workbench` adds the
address, the selection and the mounted list; `ViewAt` is the state a list is mounted
with, `Asked`, `Answer` and `OlderAnswer` are `useContainerMetrics`, where the answer for an
older container may come last. `Show` is a render: every action that changes the place
goes through it. Every action of the user begins with `Click` or `Count`, the bound.

Where a snapshot comes from depends on `site`. On an agent's own pages no provider is
mounted: each page has hooks of its own that begin without a snapshot, so a link leads to
a page without one (`Leave`), and the snapshot that comes (`HostSnapshot`) may be another
than that of the page left. In the drill-down the layout has one for all pages. At the
root of a hub none ever comes. `Peers`, in the overview of a container, reads by a hook of
its own, so on an agent its snapshot may be any.

Whether a page belongs to a hub's agent is asked by each `useAgentBasePath` for itself:
`known` holds the hooks whose `/api/meta` has answered (`MetaArrives`), `MetaHooks` those a
page mounts. One that has not answered yet and one that has failed are the same state,
for a failure is for good and `MetaArrives` need not happen. Until then `InHub` is false, so
the container pages of the drill-down ask the hub for a container's metrics and show the
page in full, and `Base` leads to the root. `named` is a record: what a related link named,
until the next click. The payloads of `Workbench` have all of their lists; `HistoryPane`
has those that lack some.

## Runs

| Run | Shows | Bounds |
|---|---|---|
| `push` | stages stay ordered, nothing is lost off the record, the push path implements `Outbox`, every snapshot is delivered or given up in the end | queue 2, spool 2, 2 attempts, 6 snapshots (enough to fill queue and spool and to trim, with one in the worker's hands), one of them rejected, 1 fault, 1 halt |
| `push_poison_head` | **violated**: a permanently rejected row at the head of the spool blocks the rows behind it (finding) | 4 snapshots, no fault |
| `alert_dispatch` | each event settles once, cooldowns hold within a process, suppression has a cause, an accepted silence lasts across failed saves, prunings and a restart | 2 producers on a queue of 1, 3 events of one key, clock to 3, 2 faults, 1 restart |
| `alert_settled` | with a fair worker every event settles though the first channel hangs | 2 producers, 3 events, clock to 2 |
| `hub_ingest` | no agent is shown fresher than it is, no `AGENT_STALE` for an agent that pushes, answered samples are stored or on record | 2 agents, 2 handlers, 3 requests, ring of 1, clock to 3, 2 faults or ends of the process |
| `history` | nothing that came in time is deleted uncounted, days match their hours, everything in time is summed up in the end | 1 agent, an hour of 2 instants, a day of 2 hours, 2 samples up to 2 hours old, clock to 9 (two days and a midnight), 2 faults |
| `drill_down` | an agent under the last-data banner is shown in history unless the user chose otherwise; in the end cards, snapshot and diagnoses are of the agent of the address | 2 agents, 2 metrics requests under way (so that one overtakes), 3 clicks, 1 change of status, 1 failure |
| `history_pane` | samples are of the selection unless a load is under way, scrubber and points stay in the frame, a page is lost only to a null list it walks, the last selection is shown in the end | 2 agents and the local history, 2 ranges, 3 samples (a load over 100 %, no disk, no memory total; one lacks services and ports, one disks and containers), limit 2, 2 loads under way, 3 clicks, 1 failure |
| `history_week` | **violated**: the answer for 7 days has no disk list, and the render throws (finding) | the same, every raw list there |
| `alert_pages` | what is shown as acknowledged is stored, the form shows the hub's configuration, disk follows memory, the list becomes true in the end | 2 agents with an alert each, 2 reloads, 2 posts, 2 saves under way, 3 clicks, 1 request of another browser, 1 failure |
| `live_stream` | no send on a closed channel, no reader waits for what the server has passed on, every open page becomes fresh | channel of 1, 2 connections, 2 snapshots, 1 reload or page, 1 failure |
| `workbench` | the page of an agent container has figures, a notice or a request under way, the tree shows each service once, a related link ends at what it names or at nothing | lists of up to 3 rows with names that nest, a payload that lacks a container, a process and a service of the other, 2 cards, 2 snapshots, 1 older request, 5 clicks |

A samples table per agent is independent of the others, so one agent is enough
for `history`. The clock of `hub_ingest` lets a summary become
offline, and goes one instant beyond `StaleAfter` and `Retention`, so that the
stale checker and retention act. Two agents (or containers) are enough for the
pages: what is late or stale is of one other than the selected. Three clicks leave
an agent, come back or change the range; five reach a page, a row, a tab and a link, and two snapshots are
that of the page left and that of the page the link leads to.

The capacities are 1 or 2 where the code has 3, 4, 64, 100 or 10 000: what the
properties are about happens at the full and the empty stage, between them
nothing depends on the number. The theorems hold for every capacity.
`CHECK_DEADLOCK FALSE` stands where the bounds on clicks and polls, or a page that
crashed, end a behaviour.

## Fairness

The Go scheduler runs every goroutine that is not blocked, timers fire, and a
5 s context ends a notification: weak fairness of the goroutine's steps. A
`select` with several ready cases chooses at random, so a ready case is not
passed over for ever: strong fairness of `RunTake`. The hub answers what reaches
it (weak fairness of `HubIngest`), and the service manager restarts the agent
(`src/docker-compose.yml:18`, `restart: unless-stopped`). The rollup goroutine runs
and time passes (`WF(Pass)`, `WF(Tick)` in `HistoryRollup`). In the browser the
intervals fire, a request is answered or rejected and its continuation runs
(`WF(Poll)`, `WF(Serve)`, `WF` of each continuation), an `EventSource` that lost its
connection tries again (`WF(Connect)`), and the handlers of the server are
goroutines. No fairness is assumed of faults, of users, of other browsers, of
requests or of samples: the liveness properties of the pages say `<>[]`, that is,
once the user, the faults and the agent's snapshots have come to rest.
`hub_ingest` and `workbench` have safety properties only.

## Proofs

The theorems hold for every value of the constants that satisfies the named
assumption of the module (`ConstantsAssumption`; two for `Workbench`, see below): every
capacity, number of producers, keys, channels, retries, cooldown, window and bound.
Nothing else is assumed. The one limit that is not a bound of the model is that of a load of samples,
1 to 500: the page asks for 120 or 500 (`useHistorySamples.ts:42`, `:49`), and with more
samples than tenths of a pixel two of them would share a place.

**`PushClientProofs`.** `IInv` is inductive. `PipelineOrdered`, `Accounted` and
`DropsOldest` are not so by themselves: they need that the answer the worker acts
on is the answer to the request it waits for (`ControlOK`: the program counters
agree with `cur`, `peeked`, `reply` and `delivered`), and that the row it deletes
is the row it sent or has been trimmed (`RowsOK`: row ids are bounded by `lastId`
and never used again). Most actions leave the stages alone (`QuietSteps`); the
nine others are treated one by one in `QueuedStep`, `OrderStep`, `DropsStep` and
`Simulation`. Theorems: `TypeCorrect`, `StagesStayOrdered`, `NothingUnaccounted`,
`OldestGiveWay`, `RowsLeaveSafely` (an action property, by `TrimKeepsMax`) and
`ImplementsOutbox`, the refinement of `Outbox` step by step.

**`AlertEngineProofs`.** `CooldownRespected` rests on `LastSentOK` (`lastSent` is
the time of the last notification of this process) and `AdmissionOK` (what the
worker was let through with is still good after any number of attempts, for no
one else writes `lastSent`). `SilencesSurvive` rests on `SavedOK`: the database
has each acknowledged window too, so the next start reads it. `ProducersOK` is
what the types of `enqueue` need. Each part has a step lemma; `StepKinds` and the
frame lemmas sort out the actions that leave its variables alone. Theorems:
`TypeCorrect`, `CooldownsHold`, `SilencesLast`, `WindowsNeverShrink`,
`SuppressedForAReason`, `EventsOnce`. The last one says that the places an event can be
in are disjoint; a step moves one event from one place to the next, and `IdleOK` (who
is idle has no event) says that the place it leaves is empty then.

**`HubIngestProofs`.** `HeardOK` bounds everything the hub holds of an agent
(snapshots, summary, catalog row, samples, the goroutines that still write) by the
latest it has heard of; `RingOK` says that a summary with a snapshot in memory has
heard of that one. From them `NeverShownFresher`, and with `StaleOK` (the copy the
checker works on is not ahead either) `StaleJustified`. `AckedStored` needs `AckOK`:
what a request under diagnosis has handed to its goroutine is written, being
written or on record, and stays so (`KeptGrows`). The backfill takes the earliest and
the latest sample of an agent, which exist because times are
well-founded and bounded (`Extremes`). Theorems: `Invariance`, `TypeCorrect`, `ShownNoFresher`,
`AlarmsJustified`, `AnsweredIsKept`.

**`HistoryRollupProofs`.** `CountedBeforeDeleted` needs three facts at once.
`SummedUp`: what is before `Front` (the slot of an hourly pass, else the watermark)
is in a row, unless it came too late; `HourSummed` says so of the hour between its
SELECT and its last INSERT. `DeletedBelow`: only what is before the watermark was ever
deleted, so that a row that a repeated pass overwrites has nothing of it; this uses
that a retention pass deletes after the watermark reached the hour it began in
(`JobOK`, `ClockOK`) and that the retention is longer than an hour and a pass.
`RowsOK`, `BatchOK`: rows hold samples of their own hour. `DailyMatchesHourly` follows
from `DaysDone`: a day before the front of the daily tier is below the watermark of the
hours, where no later hourly pass writes; `DayBatch` is the day in hand, and `DayHeld`
(a day with a row has samples in its hours) the case where nothing is inserted.
`SummedStaysSummed` is an action property no run has: the passes write with INSERT OR
REPLACE, and `RowsNeverShrink` says that a pass that is repeated, with samples written or
deleted since, takes no sample out of a row. It needs `Growth`: a row at or after the
watermark has samples of the table only (`RowsRaw`, again because retention deletes
below the watermark), so the next SELECT of its slot has them all (`RowInBatch`); a day
has no sample its hours do not have (`DaysWithin`).
Theorems: `Invariance`, `TypeCorrect`, `NothingDeletedUncounted`, `DaysMatchHours`,
`SummedStaysSummed`.

**`LiveStreamProofs`.** `NoSendOnClosed` says that every registered channel is open.
`RegisteredOpen` adds where its handler is: between registration and the deferred
removal, which comes before the close. `NoneHeldBack` is about one hook and what its
connection holds. Snapshots are broadcast in the order in which they are stored
(`Ordered`); the connection of a hook is its own and, from the first event on, among
the registered ones (`StreamsOwn`); and the last element of the channel, or of the wire
when the channel is empty, is as new as the last broadcast, or the hook shows it
already (`StreamsNew`). A broadcast between the registration and the first event goes
to the channel, behind which the first event does not fall back. `Capacities` bounds
channel and wire. Theorems: `Invariance`, `TypeCorrect`, `SendsAreSafe`,
`NothingHeldBack`.

**`HistoryPaneProofs`.** `SamplesOwn` needs `LoadsOwn`: a load that is not cancelled is
of the current selection, because `Effect` cancels every load when it sends a new
one. `InFrame` is arithmetic on top of the types: the rank of a sample among n is a
number below n (`RankFacts`, `RankOnto`), so its place, rank times the width by n - 1,
rounded down, is in the frame and grows with the time as long as there are fewer
samples than pixels; the scale is the largest value shown (`LargestFacts`: a finite,
not empty set of numbers has a largest one), so no value is above its top.
`LossExplained` is the other side of what `history_week` finds: it says what a page can be lost to. `CrashInv` follows the lists of a row from the reading, or
the rollup, to the answer (`RowLoads`, `HeldRows`) and to the page (`RowsShown`): only the
answer to the current selection brings them there (`LoadsOwn`). A page that lives and is not
the containers page has no hourly rows of a hub (`NoRollupDrawn`), for it walks a list they
lack; and Live mode has no samples and no load that could bring some (`LiveEmpty`), so that
what crashes it is a reading of the agent. Theorems: `Invariance`, `ShownAreOwn`,
`TypeCorrect`, `LinesInFrame`, `LossExplained`.

**`AlertPagesProofs`.** Three invariants, each with a step lemma in which the steps of
the others are quiet. `AckInv`, for `AckShownStored`: acknowledgements are never taken
back by a handler, so a list that was read, or an answer under way, shows at most what
is stored. `DiskInv`, for `DiskFollows`: a handler that has updated the memory and not
saved yet accounts for the difference; what it read back is the memory unless another
update was recorded in `raced`. `FormInv`, for `FormCurrent`: the form on the page has
one request under way at most, while it saves, and none while it loads (`SaveOwn`,
`LoadOwn`), and what the hub has taken of it is normal and still the configuration, or
`drift` (`PutCurrent`); so the answer, whenever it comes, is current. Theorems:
`AcksAreStored`, `SettingsFollow`, `TypeCorrect`, `FormShowsHub`.

**`BrowserProofs`**, about `Workbench` first. `BrowserInv` has two parts. `PageInv` says of
the hook of a container's metrics that it is idle where no page has it mounted and has
asked, where one has, for the container of the page, or for none when the hook that knows
of the hub says so or the container is no agent (`HookFits`), and that then it has figures,
a notice or its own request (`HookSound`); of the hooks that know, that they are mounted; of the list, that it has no state when it is not mounted. A render
changes place, hook and list in one step, so every step that renders is an instance of
one lemma (`ShowKeeps`); the other steps are the answers (`AnswerKeeps`) and the fields
of a list (`FieldsKeep`). `TypeOK` and `FiguresOrNotice` follow. `NamedInv` is for `LinkLands`: from the click on a
related link to the next click, the page is the one the link names, its address holds what
was named, and its list has no search, whatever snapshots, answers and lists come and go in
between (`RenderNamed`, `StaysNamed`); `FollowNamed` is the click itself, whose page has, on an
agent, no snapshot yet. `NameFound` and `PidFound` then say that the detail is a row of that
name or pid when the list has one, and absent when it has none.

`TreeShowsEach` and `EachCauseOnce` are about what a page computes. The second has no run: it
is about one answer, and the hub lists a cause once already (`history/insight.go`); that
it holds of any list is what the page adds. They need what the folds
of `SplitViews` return for sequences of any length, which would take an induction over
data; the library's induction theorems cannot be instantiated here, so the induction is
done by hand, once, from the well-foundedness of `<` on Nat (`Counting`, by the least
counterexample), over the positions of the sequence. A fold is first shown to exist
(`FoldExists`, `SelectExists`), then unfolded: a filter keeps the rows that pass
(`SelectKeeps`), a sort by date keeps its cards and is in order (`CardsInOrder`), the Map of
`dedupeInsights` has one insight for a cause and none older than one it was given
(`NewestKept`, `CardsOfCauses`). `TreeShowsEach` counts how often a row is listed
(`Times`). The recursive function of `TreeRows` exists because the nodes have a greatest
depth (`TreeExists`, from the deepest nodes up) and the children of a node are finitely
many (`ChildrenFinite`), so that their order lists each once (`Ordered`); of the children
at most one is on the path of a service (`LevelTimes`), and a node adds the services of
its own name where it is open (`NodeTimes`). Theorems: `PagesConsistent`, `PagesTyped`,
`NoneLeftWaiting`, `CausesOnce`, `TreeComplete`, `LinksLand`.

Two assumptions: `BoundsAssumption` (the bounds are numbers, and the absent snapshot, id
and query are none of the present ones), and `DataAssumption`: the lists of a snapshot are
sequences, an insight has a time, and a service has a name, which is a sequence, and so
tells its row from the row of a branch (`types.ts`: `serviceName`; `serviceDomainPath` splits
it). Names and pids need not be unique: of two services of one name, `ServiceSplitView.tsx:111`
finds the first, and `LinkLands` asks for one of them.

About `DrillDown`, in the same module: `OfflineShownInHistory` is inductive, for the
banner changes only with what the layout sees (`ShowStatus`, whose effect switches) or
with the mode (`Toggle`, which records `chosen`). `HubTypeOK` is so too: a request under way
has an agent because a hook that needs one is not mounted on /hub (`SentTyped`,
`MovedTyped`), so its answer is a list, or a snapshot of some agent. Theorems:
`OfflineInHistory`, `HubTyped`.

**Model-checked only.** Liveness (`EventuallyDelivered`, `EventuallySettled`,
`EventuallyCaughtUp`, `EventuallyOwn`, `EventuallyCurrent`, `EventuallyShown`,
`EventuallyFresh`): fairness and `ENABLED` are beyond the prover. Every invariant and
every action property of the passing runs has a theorem.

## Observed differences between code and documents

Those with a run are the findings of `PROJECT.json`. The others, which the models
have and no run is spent on:

- `push/client.go:79`: `Enqueue` may spill a snapshot although the worker has made
  room since, because the full queue is found in one `select` and popped in
  another; the comment at `client.go:70` speaks of a full queue.
- `push/client.go:83`: SQLite on the collection's goroutine, against
  `src/docs/DECISIONS/ADR-013-agent-lightness.md:27`.
- `alert/engine.go:144`: when another producer refills the queue after the
  eviction, the fresh event is dropped.
- `alert/engine.go:150`: retries do not look at silences again, against
  `ADR-011-alert-lifecycle.md:41`; `alert/persist.go:20`: a breach whose
  notification failed is in no history, against `ADR-011:16`.
- `alert/engine.go:47`: cooldowns are forgotten at a restart, against
  `src/docs/HUB.md:149`.
- `history/catalog.go:66`: `last_seen` is whatever was written last; it may go
  back, even before `first_seen`, when two writers of an agent race.
- `alert/engine.go:114`: after a restart an agent may be reported stale for the age
  of the last snapshot stored, though it pushed shortly before.
- `alert/engine.go:175`: the channels share one 5 s context: a first one that hangs
  leaves nothing to those after it, against `alert/fanout.go:5` ("succeeds if any
  channel succeeds").
- `history/rollup.go:50`: a sample that arrives after its hour was rolled up is never
  summed up, and retention deletes it
  (`src/docs/HISTORY_ALERTS_DIAGNOSTICS_PLAN.md:155`).
- `history/rollup_daily.go:46`: a pass that crosses midnight, or whose hourly part
  failed, completes a day without its last hour.
- `HubAgentLayout.tsx:23`: only a change of the status seen switches to history. An
  agent opened at an unchanged status stays in the mode chosen before, against
  `src/README.md:77`; a failed poll of the agents empties the list, and the next
  one takes the user's Live back. The mode never returns to Live by itself.
- `useHubAgentMetrics.ts`: an agent without a snapshot (204) keeps the previous
  agent's snapshot on the screen, marked as it was.
- `useHistorySamples.ts`: the samples of the previous selection stay while the new
  ones load; overlapping loads may leave an error above good samples; when
  `/api/meta` fails, a hub's page loads the local history for ever.
- `useSelectedHistorySnapshot.ts`: the scrubber returns to the first sample
  whenever their number changes, at each poll.
- `useAlerts.ts:56`: a reload answered before an acknowledgement and applied after it
  shows the alert open until the next poll; acknowledging two alerts enables the
  first one's button again, and its 409 is an unhandled rejection.
- `useHubAlertConfig.ts`: after a failed load the form shows the defaults, and a save
  writes all of them; a failed save closes the form and loses the draft.
- `web/server.go:411`: two saves may leave memory and disk apart, and a failure to save
  is answered with 200.
- `useContainerMetrics.ts:17`: the figures of the container left behind stay when its answer
  comes last, and nothing asks again; also when the new answer is late, empty or fails,
  with a notice on the metrics page only. `FiguresOrNotice` says that there are figures or
  a notice, not whose. For an agent that does not answer, the server serves the host's
  own snapshot.
- `useAgentBasePath.ts:12`: until its `/api/meta` has answered, and for good after a failure, a
  link of a page in the drill-down leads to the hub's own pages, where no snapshot ever
  comes, against the comment on `useAgentBasePath.ts:5`; and the container pages ask the hub
  for a container's metrics, which it does not have, and show the page of an agent with
  the notice "unavailable".
- `DashboardPage.tsx:29`: without Docker the containers are null (`docker/collector.go:186`),
  and the live dashboard of a single server throws, against
  `src/docs/GO_REWRITE_STEPS.md:120`: empty or absent, no error ("boş veya yok, hata yok").
- `ContainersPage.tsx:60`: one container without published ports (null) takes the
  containers page down, live and in history; `ServiceSplitView.tsx` walks a null list of
  services in the same way, and the panel of a process throws where `systemctl` gave no
  services (`services_linux.go:18`). `history_pane` has these crashes, `CrashExplained` their extent.
- `useMetrics.ts`: each consumer opens an event stream of its own; a stream may show an
  older snapshot for a moment.
- Related links lead to the root lists, also from a container and from the
  drill-down of a hub's agent (the prefixes default to `/services` and `/processes`): at the root of
  a hub nothing is ever shown, and a pid of a container is looked up among the host's,
  where it may be another process. `LinkLands` asks for the pid, not for the process.
- `DiagnosticsPage.tsx`: the view of all agents' diagnoses is reached by no route;
  `useHubConfig` and `globalSearch` are used by no page.

## Plan

All modules of the plan are written: `Outbox`, `PushClient`, `AlertEngine`,
`HubIngest`, `HistoryRollup`, then the browser's `DrillDown`, `HistoryPane`,
`AlertPages`, `LiveStream`, `SplitViews` and `Workbench`, each of them but the last two
with its proofs. Left: the threshold rules and the diagnosis rules as operators against
their documented meaning.

## Not modelled

- Collectors, probes, demo data, footprint, log output: readings and output, one at
  a time, with no state kept.
- Configuration and payload types, payload texts of webhook and Slack: parsing and
  layout.
- Docker cache (`docker/collector.go`): one writer that replaces a list under a lock.
- Threshold rules and diagnoses on one snapshot: comparisons, each of which a unit
  test reaches; that any of them may fire is in `AlertEngine`.
- The snapshot of a container's own agent on the containers page (`ContainersPage.tsx:113`):
  `HistoryPane` draws the host's, the container's is in `Workbench` without its lists.
- The copy of a container's detail that is mounted for narrow windows and hidden in wide
  ones: it sends a second request for the same container, with the same outcomes.
- The narrow window (`mobileDetail`), the hub page's text search, texts, icons, CSS
  and languages.
- Commands and embedded assets: start-up.
