# A verification project for the data-centre cooling optimizer

The repository is a monitoring and optimization platform for the cooling
plant of a data centre (`src/README.md`): a Go backend that polls 120 devices
over Modbus/TCP, computes the PUE, allocates cooling to areas, raises alarms and
serves a dashboard over HTTP and WebSocket; a Python simulator of the devices; a
browser dashboard; a TimescaleDB schema.  This directory holds TLA+ models of
the parts in which something can go wrong that a test would hardly find, the
TLC configurations that check them on small instances, and theorems that the
TLA+ proof system checks for every instance.

Paths below are relative to the repository; `notifier.go` is
`src/backend/internal/alarm_notifier/notifier.go`, and so on.

## 1. The system

### Components

| Component | State | Operations | Modelled by |
|---|---|---|---|
| `modbus_gateway` (gateway.go) | one cached TCP connection with its age and last use, the transaction counter, an output channel of 500 | a round over all devices at each tick, exchange of one request, retry on a fresh connection, clean-up of an idle connection, shutdown | ModbusGateway |
| `pue_calculator` (calculator.go) | the latest power of each device, an output channel of 64 | listener; snapshot, sum, insert and publish at each tick | PUEPath |
| `cooling_optimizer` (optimizer.go) | the last PUE (never read), an output channel of 32 | listener; one run of `Optimize` at each tick: histories, sorting, greedy allocation, suggestions, inserts, publication | CoolingOptimizer |
| `alarm_notifier` (notifier.go) | the latest reading of each device, the latest PUE, a timer for each exceeded threshold, an output channel of 64; the `alerts` table | two listeners; at each tick a pass over devices and PUE that starts, drops and matures timers; insert, publish, post to DingTalk with retries, mark as sent | AlarmNotifier, AlarmPromise, PUEPath (PUE threshold) |
| `ws` hub (hub.go) | the set of clients, one buffered channel per client, three unbuffered channels | register, unregister, broadcast, shutdown; a read pump and a write pump per client | WSHub |
| wiring (cmd/main.go) | the channels between the above, the forwarders to the hub, the context | start, forwarding, cancellation | EventPipeline, PUEPath |
| `db` (db.go, models.go) | the tables and a pool of connections | one SQL statement per call | RestAPI; the alerts also in AlarmNotifier, the readings and PUEs also in LegacyMonitor |
| `api` (api.go) | none | at most one statement per request, with a deadline; `PUT /api/alerts/:id/acknowledge` is the only one that writes | RestAPI |
| `config`, `metrics` | none that changes / counters | loading, counting | constants of the models / left out |
| simulator (scripts/modbus_simulator.py) | registers, anomalies, control server threads | answers, drift, injection | its answers, as the gateway's peer |
| dashboard (frontend/js) | tables, charts, WebSocket with reconnection | polling, pushing, acknowledging | its requests, as RestAPI's clients; its connection, as WSHub's client |
| `alert`, `pue` (backend/internal) | predecessors of the notifier and the calculator: one timer per device and one for the PUE; the sum under way | a pass over the devices and the PUE, a calculation, which meet in the tables only | LegacyMonitor |
| `collector` | predecessor of the gateway: the same connection | the gateway's, with one retry and a round before the first tick | Collector |
| `optimizer` | predecessor of `cooling_optimizer` | the same run, with a callback for a channel | LegacyOptimizer |
| schema (scripts/init_db.sql) | tables, hypertables, policies, seed rows; the view `device_data_5min` | the database brings the view up to date | the view, in RestAPI and LegacyMonitor; the rest is data |

Nothing starts the four predecessors at this commit; they share the
database layer with the rest and make the same promises in the same words, so
they are held to the same properties.

`frontend/dist` is a copy of `frontend`.  As committed, gateway.go does not
compile (line 149 names an undeclared `cfg`, in a log line's format argument);
the models take the evident reading, which has no bearing on any property.

### How they interact

The gateway writes each reading to the database and offers it, without
waiting, to one channel.  Three goroutines receive from that channel: the
calculator's listener, the notifier's device listener and a forwarder to the
hub (main.go:119-137).  The calculator offers each PUE to a second channel, from
which the optimizer, the notifier and another forwarder receive
(main.go:125-152).  The optimizer's and the notifier's own channels have one
reader each, a forwarder.  Forwarders hand messages to the hub synchronously.
Every goroutine selects on a shared context; `Stop` of the components closes a
second channel with the same effect, and `main` never calls it.  Listeners and
loops of one component share its caches under a mutex.  Nothing but the database
survives the process.

Requests and goroutines share one pool of connections.  The process starts only
if the database answers (db.go:15-32).  On a signal it cancels the context,
waits for the requests under way for at most ten seconds, and closes the pool,
which waits for every connection that is out (main.go:230-245).

### What is hard

* **Interleaving**: listeners replace readings while a pass or a calculation
  runs over several database calls; the hub broadcasts while readers and writers
  of connections come and go; three readers compete for one channel.
* **Failure**: every database call, dial, read, write and webhook post may fail,
  some after having taken effect (an insert whose answer is lost, a post whose
  answer times out); the process may die anywhere.
* **Ordering**: an answer that arrives after its timeout lies in front of the
  next; timers must follow the snapshots of consecutive passes.
* **Liveness**: loops that wait in the database, in the webhook, in a WebSocket or
  in the hub; some of these calls have no deadline and some no context, and
  whoever is in one waits as long as the other side does.
* **Staleness**: what was read before a query is used after it; a device that
  stops answering keeps its last reading in the caches; the view that shows the
  devices' readings lags behind their table.
* **Bounds**: full channels drop events; full client buffers drop clients;
  requests wait for a connection.

Every such place is listed with its line under `hazards` in `PROJECT.json`,
with the properties that would notice it going wrong.

### What makes each component correct

* gateway: a reading belongs to the request it answers; one socket at a time;
  nothing but an answer cut short of its fields stops the process; a failing
  device does not end the round; cancellation closes the socket.
* calculator: the power of a PUE is that of one moment; the loop never waits
  for readers.
* optimizer: no more is allocated than there is; the hottest area is served
  first and nothing is left idle; an area without data gets no advice.
* notifier: an alert follows an unbroken excess of the whole duration, every such
  excess has its row in the alerts table unless the insert reported an error,
  alerts of one threshold are a duration apart, only what the robot accepted is
  marked sent, repeated posts are bounded, a pass and the shutdown end unless a
  call never returns.
* hub: a channel is closed once and not sent on afterwards; a client sees a
  contiguous stream or is dropped; nobody but its own writer waits for a client;
  whoever is dropped or dead is cleaned up, once its last write has ended.
* API: an acknowledgement that was confirmed lasts, whatever the notifier writes
  to the row; what was listed can be acknowledged; an answer is as fresh as what
  could be read when it was asked for; a request is answered though the database
  hangs; the process ends after the signal, unless the one statement hangs that
  nothing cancels.
* the former alert manager: what the notifier promises, with timers that survive
  a failing query.
* wiring: no reader sees readings out of order; the polling never waits.

## 2. The modules

Each `MC*` module EXTENDS its component and only names values for its CONSTANTS.

**AlarmNotifier** (notifier.go, with the alerts table of db.go:110-129).  State:
`latestDeviceData`, `latestPUE`, `violationStart` (both maps of timers),
the check loop's position (`pc`, `dev`, `active`, `todo`), the alert being
raised, the table, the channel.  `TakeTick`, `GetAllDevices`, `SkipDevice`,
`SnapshotDevice`, `CheckViolation`, `ClearInactive`, `CheckPUE` are the stages
of a pass between which the lock is released or the database is called;
`InsertAlert`/`InsertFails`, `PostAccepted`/`PostFails`, `MarkDingTalkSent`,
`Rearm` are those of raising one alert.  A measured value is abstracted to the
set of thresholds it exceeds.  An event in the channel holds the address of the
loop variable, as in the code (go 1.21), so `live` events change with `dev`.
`Restart` loses everything but the table.  A call may hang (`Hang`): a
statement under the loop's context returns when that is cancelled (`Returns`), the
post by the default client and the update of `dingtalk_sent` under
`context.Background()` never.  `spell` and `refused` are history variables: the
unbroken run of checks that found a threshold exceeded, and whether an insert
reported an error in it.

**AlarmPromise**: the same without goroutines, calls, queue or robot: timers that
start, calm down and are used up by an alert.  `PromiseKept` says that
AlarmNotifier implements it under `Since`/`Log`: a timer counts as used up from
the moment its row is inserted, although the code deletes it only after the
push.

**LegacyMonitor** (alert.go, pue.go, with the statements of db.go they use): the
two goroutines that the notifier and the calculator replaced.  `TakeTick`,
`GetAllDevices`, `CheckDevice`, `SkipDevice`, `CheckPUE`, `SkipPUE`,
`InsertAlert`/`InsertFails`, `SendDingTalk` are the alert manager's;
`CalcTakeTick`, `CalcGetAllDevices`, `SumPower`, `InsertPUERecord` the
calculator's.  They have no memory in common: `latest`, `bucket` and `highPUE` are
the last rows of `device_data`, of its view of five minutes, which PostgreSQL
refreshes when it likes (`RefreshBucket`), and of `pue_records`.  A query that
fails leaves a timer running; silence of a device for a day (`DataWindow`) counts
as calm.  This package has one timer a device, whatever it exceeds, and so has the
model: an alert names the violation its last check found (`AlertType`, which is
left out), and AlertIsUnbroken says that some threshold of the device was exceeded
at every check, not that this one was.  The module has a refinement of AlarmPromise of its own: both
generations of the alarm are shown to implement one specification.

**ModbusGateway** (gateway.go).  One goroutine: `StartRound`, the connection
(`ReuseConn`, `DialConn`, `DialFails`), the exchange (`WriteRequest`,
`ReadHeader`, `ReadPDU`, `ExchangeFails`), `Retry`, `GiveUp`, `InsertFails`,
`InsertAndOffer`, `Cleanup`, `Stop`; the peer answers late, never, or something
else.  A frame is a sequence of fields in which one field stands for all
registers; its length is on the wire, and a faulty peer may announce any of
`Lengths` and sends no more than it announces.  The parser trusts that length:
a length of 0 asks for a buffer of negative size (`ReadHeader`), and fewer fields
than an answer has put an index past the end (`OutOfRange`); both are a panic,
which ends the process.  `cut` notes that such an answer came, or that a read
returned a piece of one.  The peer's layout is a constant: `standard` frames are what the
simulator sends; in `repeated` ones the unit precedes the function code once
more, which is what the parser accepts (gateway.go:259).  The properties of
accepted readings are checked with the second, since with the first no reading is
ever accepted (see the findings).

**Collector** (collector.go) EXTENDS ModbusGateway: function by function the
collector takes the gateway's steps.  `CollectorInit` begins with a round and
`CollectorNext` names the steps after the functions of collector.go; `legacy`
chooses, in the initial state, which of the two packages the behaviour is of, so
that one run checks both.

**WSHub** (hub.go).  `Hub*` are the cases of `Run`'s select; a broadcast is
taken (`HubTake`), delivered to one client after the other (`HubDeliver`) and
finished (`HubDelivered`); `Broadcast` blocks in `sending`.  `Connect`,
`StartPumps`, `ReadFails`, `ReaderCloses`, `Writer*`, `WriteSucceeds`,
`PingSucceeds`, `WriteEnds` are the two pumps: a message, a ping and the close
frame are each written in a step that begins and one that ends, and between them
the writer waits for a browser that may not read.  A message is its number.

**EventPipeline** (main.go:119-137, gateway.go:138-153).  The gateway's rounds,
the channel with its queue of blocked readers, and what the two listeners hold.
An offer to an empty channel hands the reading to the reader that has waited
longest, as Go does.

**PUEPath** (calculator.go; notifier.go:228-278; main.go:125-152).  Readings
update the cache while `StartCalculation`, `GetAllDevices`, `AddPower`,
`Calculated`, `InsertAndPublish` run; the PUE channel is shared by the notifier
(`ReceivePUE`) and others (`OtherReader`; which of the waiting receivers is served
is left open, although the runtime serves them in the order they came: the
model has more behaviours than the program, and finding 4 does not need
them); `CheckPUEAlert` and `AlertInserted`
are the notifier's timer.  `moments` and `calmSince` are history variables.

**CoolingOptimizer** (optimizer.go).  `StartRun`, `ReadChiller`,
`ReadTerminal` (areas in any order, devices of one in theirs, each history
failing or empty or showing a reading), `Sort` (any order `sort.Slice` may
return), `Allocate` one area at a time, `Suggest`, `InsertAllocation`, `Publish`,
`Stop`.  A run that a tick begins after the cancellation is refused its devices,
since its queries' context is done, and changes nothing, so it is no step of the
model.  Averages are compared by cross-multiplication, percentages are
integers.  Left out: the estimated PUE and the chillers' COP (they only word the
result) and `lastPUE` (nobody reads it).

**LegacyOptimizer** (optimizer/optimizer.go) EXTENDS CoolingOptimizer in the same
way: its margins are written in the code (`WrittenMargins`, which its initial
states ask of the constants), and the result goes to a callback
(`StoreAndReturn`) where the new package has a channel.

**RestAPI** (api.go, db.go, main.go:110-114 and 224-260).  A user of the pool, a
client's handler or the goroutine that writes, is `idle`, `waiting` for a
connection, `querying` or `responding`.  `Request`, `Refuse`, `Acquire`, `Query`,
`Fail`, `Respond` are a request's life; `InsertAlert`, `MarkDingTalkSent`,
`Record`, `Done`, `Abandon` the writer's; `Start`, `Signal`, `ShutdownReturns`,
`CloseReturns` main's; `Refresh` is the policy of `device_data_5min`, through
which alone the API reads the readings of the devices, and which shows a prefix of
their table (`DeviceData5Min`, init_db.sql:209-231).  A statement that fails may have taken effect, if it had a
connection.  The queries are operators named after their functions
(`COPHistory`, `LatestDeviceStatus`, `ActiveAlerts`, ...) on a table, which is the
sequence of its rows.  `workload` says, in the initial state, which table is
written and who asks what.  A call remembers in `known` what its answer will be
held against; `told` and `listed` are history variables.

Definitions that stand before another one with the same shape and are used
nowhere (`KeepOpen` beside `CloseExpired`, `Keep` beside `Forget`, ...) are
variants with a plausible bug.  Each property is known to fail when the
variant named under `mutants` in `PROJECT.json` takes its neighbour's place.

## 3. The runs

Deadlock checking is off in the runs whose system may really stop: the clock
is bounded and a cancelled component ends.

| Run | Instance | What it shows |
|---|---|---|
| notifier | 1 device and the PUE, webhook, 1 retry, 1 restart, durations 2 and 1, clock to 3, cancellation, fairness; 569,414 states | AlarmPromise is implemented; NoFalseAlarm and NoMissedAlarm, relating alerts to the run of checks before them and to the errors of inserts; SentWasAccepted, RetriesBounded through lost answers, failed updates and crashes; PassCompletes and ShutdownCompletes, with calls that hang |
| notifier_alias | 2 devices | finding 1 |
| hub | 1 client with a buffer of 1, 2 producers, 3 messages, fairness; 6,043 states | NoPanic, RegisteredMissesNothing; BroadcastReturns, DroppedClientEnds, DeadConnectionLeaves, ShutdownDrops |
| gateway | gateway and collector, 2 devices, 1 retry, data, exceptions and other answers, with their own length or one of 0, 4 and 6, connections that expire by age and idleness, clock to 4, fairness; 624,907 states | ReadingIsAnswer, OneSocket, PanicNeedsCutAnswer, RoundReachesAll, ShutdownCloses |
| gateway_framing | the simulator's frames | finding 2 |
| gateway_short_read | answers that arrive in pieces | finding 3 |
| pipeline | 2 devices, channel of 2, 2 rounds, fairness for the gateway only; 45,268 states | CachesNeverRegress, PollingGoesOn |
| pue_path | 2 cooling devices and another, 2 powers, 2 ticks, fairness for the calculator only; 527,175 states | SumOfOneMoment, ShutdownCompletes |
| pue_stale | 1 device, channel of 3 | finding 4 |
| optimizer | the optimizer and its predecessor, 3 areas, 2 chillers, 4 terminals, 3 readings or none each; 60,936 states | WithinCapacity, HottestFirst, NoAdviceWithoutReading, ShutdownCompletes |
| api | 2 clients and the writer on 1 connection, each table in turn written and read through every route, the view refreshed at any time, 1 alert, 2 rows, clock to 2, fairness; 243,870 states | AcknowledgedForGood, ListedCanBeAcknowledged, AnswersAreFresh; EveryRequestAnswered, ProcessExits |
| legacy | 1 device, calm or not, durations 1 and 2, silence after 2, the calculator at every second check, clock to 4; 3.2 million states | AlertIsUnbroken; AlarmPromise is implemented |

Every run of the table that does not show a finding also checks its module's
TypeOK, except `legacy`, whose types are part of the proof.

**Bounds.**  `MaxTime` ends the clock; it is large enough for a timer to start,
mature, be used up and start again (notifier, legacy), for a connection to
expire and be replaced (gateway), for the PUE timer to mature after its PUE
became stale (PUEPath), for a record to leave the window of an hour (RestAPI).
`MaxRestarts` bounds the crashes: one suffices to lose the timers between any two
steps.  `MaxMessages` is the buffer plus two, so that a client overflows and
others go on.  `MaxRound` is the number of rounds that readings are told apart
by; rounds go on after it.  Channels hold one to three elements where the code has
32 to 500: what matters is that they can be full.  The pool has one connection
for three users, so that each can keep the others from it.  `Newest` is 1 with two
rows, so that a listing leaves one out.  Three areas are enough for one to be
served, one to be short and one to get nothing.  The runs of the notifier, the
hub and the former alert manager have one device or client and both
thresholds or two producers: that several do not disturb each other is what the
theorems show, for every number of them.

**Fairness**, and why the code justifies it.  A goroutine that can run does; a
`select` with several ready cases picks one at random, so a case that is ready
again and again is taken: strong fairness of the stop, tick and hub cases.  What
a call waits for is assumed only where the code bounds it:

* Dials, reads and writes of the gateway have deadlines: weak fairness of
  `Poll`.  Its insert has none and is only sure to return once the context is
  cancelled, so RoundReachesAll lets a round wait in it for good.
* A call of the notifier's check loop ends unless it hangs, and any call may.  One
  under the loop's context then ends with the cancellation, http.Post without a
  timeout and the update under `context.Background()` (notifier.go:311, 319) do
  not.  PassCompletes and ShutdownCompletes name what is left to wait for
  (`Stuck`); in ShutdownCompletes that is the check loop alone.
* A write of the hub has no deadline: only on a connection that this side has
  closed is it sure to end.  DroppedClientEnds lets the writer of a browser that
  lives and does not read wait (`Blocked`): the hub drops such a client and cannot
  end it.  The ping ticker makes a write on a closed connection happen.
* In `api` the database need not answer anything: deadlines fire (every handler
  has one of 5 or 10 seconds), cancelled statements end, `Shutdown` and `Close`
  return once they may.  The statement of `MarkDingTalkSent` cannot be cancelled;
  ProcessExits says that a process that does not end waits for it.
* The statements of a calculation or a run (`pue_path`, `optimizer`) are assumed to
  return.  ShutdownCompletes needs that only after the cancellation, when each ends
  with the context it runs in.

Of browsers, robots, Modbus peers and other readers nothing is assumed: in
`pipeline`, `pue_path` and `optimizer` the consumers of the channels may stand
still forever.

## 4. Findings

1. *notifier.go:192* stores `&d.ID`, the address of the loop variable: under
   go 1.21 (go.mod) an event still queued names the device the loop has moved on
   to.  `BroadcastNamesDevice` fails; the row and the message are right.
2. *gateway.go:259* compares the function code with the unit id, because the
   header read has consumed the unit already.  `AnswerIsAccepted` fails for the
   simulator's frames: no device is ever read.
3. *gateway.go:247, 254* take a short `conn.Read` for a whole one: a reading of
   zeros is accepted.  `ReadingIsAnswer` fails when answers arrive in pieces.
4. *main.go:119-137, 125-152* give several readers one channel, where
   `src/README.md:60-64` draws a fan-out.  `PUEAlertIsCurrent` fails: the notifier keeps a high PUE and alerts on it when
   others have taken every normal one since.

Observations that contradict no statement of the repository, and so are no
findings: the update of `dingtalk_sent` is the one statement that the shutdown
cannot cancel, and the post before it has no timeout, so that a robot that hangs
ends the notifier's passes for good; an insert that reports an error uses its
timer up, and the excess is alerted a whole duration later, if it lasts
(notifier.go:199-213); a device that announces a length shorter than its answer
stops the process (gateway.go:252-278); a browser that does not read keeps its
writer for good (hub.go:183); what the API shows of the devices lags some minutes
behind their table (init_db.sql:209-231); `PoolMaxConns` is read from
the configuration and never applied; a device that stops answering keeps its last
reading in the notifier, which goes on alerting (the former alert manager stopped
after a day); the former PUE timer survives passes that find no record
(alert.go:142-144); the HTTP metrics middleware hides the connection that the
upgrade to a WebSocket needs.

## 5. The proofs

All theorems are checked by TLAPS for every value of the constants that
satisfies the ASSUMEs of the module, which only type the constants.

Every safety invariant and every safety action property that the passing runs
check is proved; what is left to the runs alone is named at the end.

* **AlarmNotifierProofs**: `TypeCorrect`; `NotifierKeepsPromise`, the refinement,
  by `DueInv` (the alert under way comes from a timer that is still set and old
  enough: the refinement mapping hides the timer only once the row exists) and
  one lemma per kind of step (`PromiseSteps`).  The table is mapped to the
  log as a sequence, which takes the lemmas on appending and updating.
  `PromiseRateLimited` is about AlarmPromise alone.  RateLimited is not inductive
  there: a timer older than the last alert would break it at the next one.
  `PromiseInv` adds that a running timer is no older than its threshold's last
  alert (`TimersFollowAlerts`) and not in the future (`TimersStarted`).
  `AlertsRateLimited` carries the result over through the refinement.

  `AlarmsAreTrue`, `EveryExcessAlerted`, `MarksAreTrue` and `ReceiptsBounded`: for
  the first two, `SpellInv` ties every timer to the
  run of checks it was started in: a timer is set only within such a run and is
  no older than it (`TimerInSpell`); until the run has raised its first alert it is
  exactly as old (`TimerIsSpell`); and the alert under way belongs to a run that
  has raised one (`AlertOfSpell`).  A run that has raised one has its row, is at
  the insert, or met an error there, which is NoMissedAlarm.  The first part excludes a false alert, the second
  a missed one; for a duration of 0
  no timer would be needed, hence the assumption of positive durations.  For the
  other two, `ReceiptInv` counts: the robot has accepted a row at most as often
  as it has been posted, and the row under way has been posted once per attempt.
* **LegacyMonitorProofs**: `AlertsFollowExcess` and `MonitorKeepsPromise`, the
  refinement.  `MonitorInv` says that a timer is no older than the run of checks
  it was started in, that no run lies in the future, and that the alert under way
  comes from a timer old enough.  A query that fails belongs to no run, and leaves
  both alone.  `MonitorRateLimited` carries the spacing of the alerts over, as
  above.
* **ModbusGatewayProofs**, each once for the gateway (`Gateway...`) and once for
  the run that lets either package act (`Either...`): types; `OneSocket`;
  `ReadingIsAnswer`; `PanicNeedsCutAnswer`; and `StandardPeerIsNeverHeard`.  `SocketInv` says
  that there is one socket at most and that an exchange has it.  The parser never
  compares the transaction number; `Wire` is why it need not: outside an exchange
  nothing is asked and nothing waits to be read, inside one there is only the
  request just written, or its answer, or what the header left of it.  Every exit
  from an exchange keeps that, the failed ones by closing the connection, so that
  the late answer is lost with it.  `ReadingIsAnswer` is proved
  under `~Segmented`, answers that arrive whole, with any length: otherwise it is
  false (finding 3).  `PanicNeedsCutAnswer` needs no hypothesis, nor do types and
  the one socket: `WholeInv` keeps all that is known of the wire for as long as no
  answer was read in pieces, and after that there is nothing to show.
  `StandardPeerIsNeverHeard` is finding 2 for all constants: over the standard
  layout no behaviour in which answers arrive whole stores a reading.
* **EventPipelineProofs**: `PipelineTypeCorrect` and `PipelineNeverRegresses`.  The
  channel is in order, but a slow reader keeps an old reading in its hand while
  others take the later ones; `OrderInv` therefore compares what each reader has
  had, in its hand and in its cache, with all that is still to come
  (`ReadersBehind`, `NothingFromTheFuture`) and the hand with the cache it will
  overwrite (`HandNotOlder`).  A reader waits in one place only (`WaitsOnce`).
* **PUEPathProofs**: `CalculatorTypeCorrect` and `PowerOfOneMoment`.  `SumInv`: the
  sum so far and the powers of the devices to come make up the power of the copy,
  which the cache had at a moment since the tick.  `CachedPower` folds a set in
  the order of CHOOSE and the loop goes by the devices' numbers; that both give
  the same is `SumInAnyOrder`, an induction over the sets of devices.
* **RestAPIProofs**: `PoolIsRespected`, `AcknowledgementLasts`,
  `ListedIsFound` and `AnswersStayFresh`.  A promise to a client is made before the client hears of it,
  so `APIInv` speaks of the answers under way: each call is honest
  (`CallHonest`), that is, a question knows no more than the tables hold, an answer
  "acknowledged" names an acknowledged row, a list holds none of the rows that
  were known to be acknowledged.  `EffectGrows` shows that no statement takes
  an acknowledgement back or shortens a table, and `HonestyLasts` that growing
  tables leave an honest call honest; then one lemma, `CallStep`, serves every
  action.  The requests are assumed to name none of the goroutines' own statements.

  Freshness rests on `FreshInv`: the rows lie in the order of their times
  (`RowsInOrder`), because the one writer takes the time before its insert and makes
  one insert at a time (`InsertInOrder`), and a question under way knows no row that
  the table does not hold or, if it is about the devices, that the view does not
  show (`CallFresh`); the view only grows (`ViewGrows`).  Each query is then shown to
  return what is asked of it for every table in that order and every part of it
  that the view may show.
* **WSHubProofs**: `HubTypeCorrect`, `HubNeverPanics` and `NothingMissed`.  The
  invariant `HubInv` adds to the types that a client in the map, or registering,
  has an open channel, and that a client waiting for a broadcast is in the map.
  `StreamInv` says of each client that what it was handed, what its channel holds
  and what the broadcast under way still owes it follow each other without a gap.
* **CoolingOptimizerProofs**: `OptimizerInvariant` with `OptimizerTypeCorrect`,
  `NeverOverCapacity`, `GreedyAllocation` (HottestFirst), and
  `SilentWithoutReading`.  `Greedy` speaks of the areas served so far: given and
  remaining make up the capacity, a short area has exhausted it, and the areas
  after it got nothing; with the sortedness of `order` (`Ordered`) this is
  inductive, and at the end of the loop it covers all areas.  `Blank` says that
  an area without a reading still has all sums zero.  `EitherAllocatesAlike`
  repeats all four for the run of the optimizer or its predecessor.

The library's induction theorems take an operator as a parameter, which the
provers cannot instantiate.  Where an induction was needed (the sum over a set of
devices, the newest rows of a query) it is made from the
well-foundedness of the naturals: `LeastNatural` gives the least counterexample,
and what holds of the smaller ones contradicts it.

Only model-checked: the liveness properties, that is PassCompletes, both
ShutdownCompletes, BroadcastReturns, DroppedClientEnds, DeadConnectionLeaves,
ShutdownDrops, RoundReachesAll, ShutdownCloses, PollingGoesOn,
EveryRequestAnswered and ProcessExits: they rest on fairness, hence on ENABLED,
which the prover does not handle.  The findings 1, 3 and 4 are counterexamples and
need no proof.

## 6. Plan

Done, in this order:

1. AlarmNotifier, AlarmPromise and their refinement, checked and proved.
2. WSHub; safety, liveness; types, absence of panics and streams proved.
3. ModbusGateway with its connection, framing and rounds.
4. EventPipeline: how readings are shared out.
5. PUEPath: calculator, PUE channel, PUE threshold.
6. CoolingOptimizer, checked and proved.
7. RestAPI: the handlers, the statements, the pool and the shutdown; its safety
   proved.
8. The predecessors: LegacyMonitor with a second refinement of AlarmPromise,
   checked and proved; Collector and LegacyOptimizer in the runs of their
   successors.
9. NoFalseAlarm, NoMissedAlarm, SentWasAccepted, RetriesBounded,
   RegisteredMissesNothing proved.

10. The gateway and the collector: one socket, own answers, panics, finding 2.
11. The order of readings (CachesNeverRegress), the power of one moment
    (SumOfOneMoment), the freshness of answers (AnswersAreFresh), and the former
    optimizer.

Left, most useful first:

12. The gateway's and the listeners' part of EventPipeline as an abstraction of
    ModbusGateway and PUEPath, and a proof of it.
13. The parts of the liveness arguments that are safety: that a step brings a
    pass, a round or a shutdown closer to its end.

## 7. Not modelled, and why

* SQL, compression, retention: run by PostgreSQL; the models have each call
  succeed, fail, or fail after it took effect.  Of the continuous aggregate only
  its lag is modelled: a row stands for its bucket, and averages are left out.
* Float arithmetic: the properties compare sums and products of values, which
  integers show as well; rounding is not a subject here.
* Configuration: read once, before any goroutine runs; its values are the
  constants of the models.  Metrics: counters nobody reads back.
* The dashboard: drawing, and a reconnection of which no property is stated
  anywhere; it keeps nothing that depends on an order.  Its optimistic
  acknowledgement is listed under the hazards.
* The simulator's drift, injection and control threads: they change the values
  that a register shows, and the models leave every value open.
* In `main`: reading the configuration, static files, compression, debug pages.
* In the predecessors: CheckDeviceAlert, the callbacks and the setters, which
  nothing calls.
* JSON encoding and wording of messages; no property is about them.
