# Formal models of bftrader

bftrader is a family of Qt programs that trade futures: a gateway to the CTP
counter (`ctpgateway`), a simulated gateway for back tests (`btgateway`), the
strategy host (`cta`), the market data store (`datafeed`) and a recorder
(`datarecorder`). They talk gRPC. This directory holds TLA+ models of their
core, TLC configurations that check them on small instances, and TLAPS proofs of
the main properties for every instance. `PROJECT.json` is the index: which
definition stands for which lines of `src/`, which run checks which property,
and which hazards of the code the properties are for.

To check a run: `tlc -config MCBtMatch.cfg MCBtMatch.tla`. To check proofs:
`tlapm BtMatchProofs.tla`.

## 1. The system

### Threads and how a handler becomes one step

Every program has the same skeleton (`servicemgr.cpp`): a few `QThread`s, each
with an event queue and one service object: MAIN (the window), BLOGIC
(`GatewayMgr`), DB (`DbService`), PUSH (`PushService`), RPC (`RpcService`), plus
threads that the program does not own: gRPC handlers, CTP callbacks, readers of
streams. Services call each other by queued signals and
`QMetaObject::invokeMethod(..., Qt::QueuedConnection)`; `checkCurrentOn` aborts a
handler that runs on another thread. So a slot runs without another slot of its
thread in between, and one slot is one step of a model. What interleaves is
slots of different threads, CTP callbacks, gRPC handlers and what waits in the
queues. A signal emitted on the thread of its receiver is not queued: it runs
inside the emitter, and the models put both in one step (`xxSM_STOPPED`).

### Components

| Component | State | Operations | Hard behaviour | Correct means | Model |
|---|---|---|---|---|---|
| ctpgateway login session (`gatewaymgr`, `mdsm`, `tdsm`) | the MdSm and TdSm objects, login and auto-login flags, the command queue, contract and ring-buffer maps | start, stop, status handlers, command timer, instrument query, subscription, ticks | links drop and answers come late, in any order with clicks; commands outlive objects; one queue for two links | a stop ends, a login is retried, commands meet their own object, data reloads are clean | `CtpSession` |
| ctpgateway orders and trades (`tdsm`, `ctputils`, order and position windows) | order reference, front and session, map from exchange ids to order ids, open queries, commands kept by flow control, the lists of the windows | send, cancel, query, order and trade returns | ids made on gRPC threads, relogin between order and trade, queries cut by a drop, answers and returns in any order | a trade carries its own order's id, an order the id that was answered, a list is one answer's | `CtpOrders` |
| push stream, server (`rpcservice`, `pushservice`, `safequeue`) | registry of clients, a queue per stream, the server | ConnectPush, DisconnectPush, pushes, start, stop | handler threads against PUSH, reconnects, dropped links, shutdown | every handler can be ended, ended streams are forgotten | `PushStream` |
| push stream, client (`cta/gatewaymgr`, `datarecorder/gatewaymgr`) | the gateway, its reader thread, the ping timer | connect, disconnect, reconnect | BLOGIC waits for the reader, deadlines, late calls | the stream comes back | `PushStream` |
| btgateway matching engine (`gatewaymgr`, `rpcservice`) | order id counter, orders, trades, two positions | SendOrder, CancelOrder, ticks, start, stop | concurrent RPC threads, orders queued across sessions, closes accepted against the same lots | positions, frozen lots, orders and trades agree; nothing is oversold | `BtMatch` |
| btgateway replay (`dbservice`) | datafeed client, reader thread, stop flag | BtStart, BtStop, connect, disconnect, PushTick | a session's reader still runs when the next starts; three threads hear of a session in their own time | ticks reach clients under their own session's contracts; a session plays to its end | `BtReplay` |
| datafeed store (`dbservice`, `protoutils`, the four forms) | one ordered LevelDB, the contract list, the statistics, a page | inserts, deletes, cleanAll, range and count reads, pages | key order, end items, iterators on gRPC threads, cleanAll under readers, stale rows | reads leave out no record they name and stay in their series, deletes remove what they say | `DatafeedStore` |
| datarecorder (`pushservice`, `gatewaymgr`) | its gateway client under a mutex, its datafeed client | notification, getContract, InsertContract, InsertTick | notification and list come from two threads of the gateway; PUSH and BLOGIC share a mutex and wait under it | contracts before ticks, no notification left for ever, each as far as the calls and the gateway's list allow | `Recorder` |
| service manager (`servicemgr`, `rpcservice`, `runextensions.h`) | five threads, the gRPC server, the reader thread of a client, the thread pool | start, NetStart, NetStop, connect and disconnect, quit | calls arrive while threads are joined; stop waits for streams, BLOGIC for its reader, MAIN for the pool | services outlive the calls, readers and tasks that use them, quitting ends | `ServiceMgr` |
| nezipdump (`tools/nezipdump`, `nezipdrv`) | four lists between driver and PUSH, the labels asked for | ask, driver callback, ping, push | lists grow while they are emptied, calls fail half way | nothing vanishes, index contracts come first, the push ends | `NezipDump` |
| ring buffers (`base/ringbuffer.h`) | slots, head, count | put, get | readers on other threads hold pointers | | existence and content in `CtpSession`, freed ticks in `Recorder` |
| cta push and robots | as the gateways, robots as clients | as the gateways | stop order differs from the gateways | | stop and ping in `ServiceMgr`, the stream as in `PushStream` |
| profiles, logging, crash handling, other tools | | | | | not modelled |

The parts interact so: the window posts start, stop and orders to BLOGIC; BLOGIC
owns the CTP objects, whose callbacks post back; its signals (ticks, orders,
trades) go to PUSH, which copies them into the queue of every connected stream;
a stream's gRPC handler writes its queue to the client; the client's reader
thread posts to its own BLOGIC, which calls SendOrder, handled on a gRPC thread
of the gateway, which posts to BLOGIC. datarecorder is such a client too: it
asks for contracts when the gateway announces them and forwards contracts and
ticks to datafeed. btgateway and nezipdump are clients of datafeed.

## 2. Modules

| Module | What it is |
|---|---|
| `CtpSession` | the login session of ctpgateway with CTP's fronts as environment |
| `SessionLifecycle` | what a session promises the user: stopped, running, stopping, and it ends |
| `CtpOrders` | orders, trades and queries of ctpgateway, with CTP and the window's lists |
| `PushStream` | the stream between a gateway and its clients, both sides |
| `BtMatch` | the matching engine of btgateway with its callers |
| `BtReplay` | the replay of btgateway: window, BLOGIC, DB, reader thread, PUSH |
| `DatafeedStore` | datafeed's database, its writers, readers and windows |
| `Recorder` | datarecorder between a gateway and datafeed |
| `ServiceMgr` | the threads and the server of a program, from start to quit |
| `NezipDump` | nezipdump: driver, lists, push to datafeed |
| `MCCtpSession`, `MCCtpOrders`, `MCBtMatch`, `MCDatafeedStore` | values for the runs; the other runs give theirs in the `.cfg` |
| `CtpSessionProofs`, `BtMatchProofs`, `PushStreamProofs`, `CtpOrdersProofs`, `BtReplayProofs`, `RecorderProofs`, `ServiceMgrProofs` | theorems and proofs about the module of that name |
| `DatafeedProofs` | theorems and proofs about `DatafeedStore` and `NezipDump`, which fills it |

Definitions marked `\* mutant` are the faulty variants of a
definition that show what each property is sensitive to; nothing else uses them.

### CtpSession

`sm` holds the generation of the MdSm and TdSm object (0 is `nullptr`), `events`
is the Qt queue of BLOGIC, `cmds` is `cmds_`. A command is its call, its side and
the object its closure captured, so a command of a deleted object is visible.
Each status handler, `start`, `stop` and the timer is one action with all it
calls: `StopObjects` is `TdSm::stop` with the `TDSM_STOPPED` handler that deletes
the object and empties the queue, because that signal is delivered in place.
`RunCmd` is the timer calling the head of the queue, with the return values the
api can give (`ResultsOf`): `-1` without a link, `-2` while a query is open, `-3`
or `-2` of flow control as `Refusals` allows. Time is left out: a command whose
delay is positive may be called at any later moment. The abort paths (`qFatal` in
the maps, a call through a deleted or null object) set `crash` and stop
everything. External: fronts connect, drop, answer and refuse.

Orders, cancels, account and position queries are one kind of command
(`request`): in this module only their place in the queue matters. `ResetData`
is `resetData` in its parts, `FreeContracts`, `ResetLists` and `FreeRingBuffer`.

### CtpOrders

`handlers` are the SendOrder handlers between the two accesses of `getOrderRef`
and the read of front and session; `answered` are the ids they returned. BLOGIC
runs the commands (`RunCmd`), keeps those that flow control refuses and tries
them again (`RunKeptCmd`), and empties the kept ones when it hears of a
disconnection. CTP has the orders of the day and two flows to the api, `rsp` for
answers and `rtn` for returns; the CTP thread takes them in any order, one
callback at a time. `known` is `sysid2bfid_`, with the two kinds of keys the code
uses. A callback includes what the window's forms do with its signals: the order
lists and the rows of `PositionForm` (how often a record was added), emptied at
BEGIN. Front and session are one number; sessions count down to keep their
numbers bounded. `hist` is history: whether two SendOrder calls, or one and a
login, overlapped (`disturbed`: then ids may repeat, as `getOrderRef` allows), an
answer was cut, an order query met no change. Left out: partial fills (an order
has one trade), the account query, and the special id that `genOrderId` gives a
gateway without a login.

### BtMatch

`counted` are the SendOrder handlers between the two accesses of `getOrderId`
(increment, then read). `onGotTick` loops over `orders_`; a step is one order,
visited in the order of the decimal strings that are the keys (`Before`), while
BLOGIC takes nothing else (`tick # NoTick`) and RPC threads run on. Positions
keep `position` and `frozen`; prices of positions are left out. `reused` is a
history variable: an order of this session was filed under a taken id.

### BtReplay

Sessions are numbered as BLOGIC starts them; a signal of BLOGIC is an event for
DB and for PUSH at once. `step` is the handler DB is in: after `OnTradeWillBegin`
it sleeps, asks for the contracts, posts them, sleeps and starts the reader
thread; `stopPushTick` and the destructor of the client wait for that thread
(`Join`). `stopping` is the flag the sessions share. Sleeps take no time, except
that what others post meanwhile is posted. `announced` and `heard` are history:
what clients were told.

### DatafeedStore

A key is a tuple, and the order of tuples is the byte order of the keys' texts;
the end items of a series sort before and behind its records. Three of the
nineteen periods stand for all: two that share a text (`formatPeriod` gives `h04`
for H03 too) and one that does not. Writes are queued by gRPC threads, which
answer at once, and carried out on DB. A read is an iterator: a snapshot of the
database and the key it is at; a step is one turn of its loop. Pages and
statistics of the window are one step, because MAIN competes with DB only for
what an iterator sees. `cleanAll` is close, reset, open and init in four steps,
under readers and windows; what a closed database does to an open iterator is a
choice between dying and going on. `Left` are databases that earlier
runs of the program can have left, among them ticks without a contract. `opened()`
is lost on forms that are not yet connected at the start.

LevelDB is vendored in `src/third_party/leveldb`; the model has the order of its
keys (`Before`), the steps of its iterators and single writes, and no more of it.

What a finished read has to give is stated from its request (`period`, `from`,
`to`, `count`) and from the records of its snapshot alone (`ReadMatchesRequest`).
Two things there are what the code does and not what `bfdatafeed.proto` says:

* The proto calls `toDate` and `toTime` the cut-off (截止, lines 63-64 and 78-79).
  A read of the newest records starts at the first key at or behind it
  (`dbservice.cpp:295`), so that it may give one record behind the cut-off.
  `GivesNewest` allows that one record, where no record has the time of the
  cut-off itself, and nothing else.
* The proto and `translatePeriod` (`protoutils.cpp:159`) tell H03 and H04 apart,
  `formatPeriod` (`protoutils.cpp:110-113`) gives both the text `h04`. Their bars
  share the keys: one replaces the other, and a read of H04 gives bars of H03. A
  read whose snapshot mixes them is outside the property (`OfOnePeriod`); the run
  reaches such reads. `ReadsStayInSeries` and `NothingElseLost` look at keys only:
  for them bars of H03 and H04 are one series, and a bar that another replaced
  under its key is not lost.

Two corners. The key that the del button deletes is that of the row it was
clicked on, and the contract whose ticks or bars a form shows is one listed now;
the lines these stand in can be typed over or be older than the list, and that is
left out. A next page behind a last row that has been deleted meanwhile
(`tickform.cpp:117-166`) is exempt from `ReadsStayInSeries`: `Seek` lands on the
record behind it, which `Next` then skips, or on the last key of the series,
behind which the page goes on into the next series, and stops there only if that
series has its first key. The step is in the model (`Next128`), and nothing
in the repository says what such a page should show.

### Recorder

The gateway's side is two event queues, `blogic` (contracts to list and to
subscribe) and `gpush` (what PUSH sends and registers); the recorder's is
`rpush`. `link` is its gateway client with the reader thread, as far as it
matters here; `PushStream` has the rest. `clients_mutex_` is held exactly while
BLOGIC frees the reader thread (`link` is `"calling"`, then `"closing"`) and while
PUSH asks (`step \in {"get", "read"}`). A ring buffer that a query freed under a
waiting tick gives a tick or the death of the gateway (`OnFreedTick`).

The handlers of ConnectPush and DisconnectPush post from gRPC threads of their
own: `opening` is a ConnectPush that has not posted yet, and a DisconnectPush may
post before it. DisconnectPush may also fail or time out, which is only logged
(`DisconnectPushFails`); the gateway then never runs it or runs it later (`late`),
when it may end the next stream. BLOGIC waits for the reader in any case.
`unheard` marks that the stream it waits for did not hear the disconnect: the
call failed, or it found no client while the stream was still to be registered.

Two histories say why a contract may be missing in datafeed. `missed`: its
notification was lost with a stream or ignored without a datafeed or a gateway, or
a call failed, GetContract or InsertContract. `unlisted`: the notification arrived,
but GetContract gave a list without it, because PUSH of the gateway notifies while
BLOGIC, which fills the list, may be behind (`rpcservice.cpp:75`), or because the
next query has cleared it. `ListContracts` counts a contract there only if BLOGIC
has not processed it or the gateway no longer has it. In both cases the ticks go
to datafeed without their contract; `TicksFramed` says that there is no third.

### ServiceMgr

`servicemgr.cpp` is nearly the same file in seven programs. `program` is their
kind: `"gateway"` (ctpgateway and btgateway), datafeed and cta differ in what
their `RpcService::stop` and `shutdown` do; datarecorder, nezipdump and qtdemo
have no server. MAIN joins the threads in `JoinOrder`; a thread that was told to
quit may leave events in its queue. A ConnectPush handler has a queue that only
`DisconnectClient`, `OnGatewayClosed` or the end of PUSH shuts. `late` is
history: handlers whose connectClient was posted behind onGatewayClosed.

`reader` is the gateway client of cta and datarecorder, as far as quitting
depends on it: BLOGIC waits for its thread when the client is deleted, in
`disconnectGateway` (`blogic = "freeing"`) or in its finished slot
(`thread["blogic"] = "leaving"`), and the wait lasts until the other side closes
the stream. `tasks` are the tasks of the thread pool that qtdemo gives out with
the `run` of `runextensions.h`; MAIN frees log and services (`main = Freed`) and
waits for the pool only then (`WaitForDone`, `main = Exited`).

`aborted` is the death of the process where the code dereferences the null
`grpcServer_`, where cta's DB thread pings or connects to datafeed under a check
for PUSH, and where a task writes to the log that MAIN has freed.

### NezipDump

A datum is its label. The driver's callback appends a packet, already without
other markets, to one of four lists; PUSH is between two calls to datafeed or to
the lists at any time (`step`). `count` is history (`Tallies`: arrived, stored,
skipped, dropped). A call that fails may have been carried out. The specification is
`DumpSpec`, its parts `DumpInit`, `DumpNext` and so on, so that one module of
proofs can take it together with `DatafeedStore`.

### PushStream

A stream is one ConnectPush call: its handler thread, its SafeQueue (only the
number of messages), and whether its connection dropped. `push` is the Qt queue
of PUSH, with `connectClient`, `disconnectClient` and `onGatewayClosed`;
`registered` is `clients_`. On the client, `freeing` is the progress of
`freeReaderThread`, during which BLOGIC takes nothing. `disconnectClient` carries
the client's name and no stream, as in the code. `late` are DisconnectPush calls
whose deadline passed on the client and which the server may still handle.
`Settled` says that the second PUSH sleeps after it shut a queue down is enough
for the handler to leave; a handler stuck in `Write` for longer would touch a
deleted queue, and nothing in the code bounds that (a hazard in `PROJECT.json`).
A dropped connection is ready again at once, as a lengthy outage only delays the
ping timer. Dead ends of the code (BLOGIC or RPC waiting for ever) are states
without a fair way out, not actions.

## 3. What the runs show

| Run | Kind | Bounds | Shows |
|---|---|---|---|
| `session` | pass | 3 object generations, 3 clicks, 1 drop, 1 negative answer, 1 subscribed and 1 other contract | commands belong to live objects, login flags too, stop order, no lost stop or login, clean reloads; a running session gets its trading login, and the session implements `SessionLifecycle`, its liveness included |
| `orders` | pass | 5 budgets of at most 2 orders, 1 cancel, 2 queries, 2 relogins, 1 refusal; 2 threads, 2 positions | trades carry their order's id, ids are those answered, lists are right after a query, rows are one answer's |
| `push` | pass | 1 client with 2 clicks, 2 streams, 1 drop, 1 missed deadline, 1 restart | no handler out of reach, ended streams leave the registry, ended readers are freed, the stream comes back, handlers of broken streams end |
| `bt_match` | pass | 3 orders of 2 threads, 1 cancel, 2 ticks, 1 session with its stop | the books agree, nothing is oversold, complete orders stay |
| `replay` | pass | 2 sessions of 2 ticks, 2 connects, 1 error | ticks under their own session's contracts, a session plays to its end |
| `store` | pass | 2 contracts, 3 times, 4 databases, 3 events of at most 2 writes, 1 read, 3 clicks | reads stay in their series and, among bars of one period, give the records they name and at most one behind a cut-off; frames stand, no other key is lost |
| `recorder` | pass | 1 symbol; at most 6 of 2 instrument queries, 2 ticks, 1 drop, 1 error, 3 clicks | contracts before ticks unless missed or unlisted, every notification is dealt with unless the disconnect went unheard |
| `services` | pass | 6 kinds of program, 2 clients, 3 clicks, 2 calls | services outlive calls, readers and tasks, a stop has every stream closed, quitting ends |
| `nezip` | pass | 2 labels, 3 data in packets of up to 2, batches of 1, 1 error | nothing vanishes, index contracts first, the push ends |
| `session_tick` | violation | 1 session, 1 drop | a tick finds no ring buffer after a trading relogin: the process aborts |
| `orders_requery` | violation | 1 order, 1 query, 1 relogin | a query after a relogin does not rebuild the map: the trade is ignored |
| `store_deletebar` | violation | as `store` | deleteBar deletes no bar |

Why the bounds are enough. The session's hazards are between an object and the
one after it, and a drop between any two steps. Three generations show them: a
logout answered so late that it stops the trading object of the next session
makes `tryStartSubscrible` create a third. Three
orders of `bt_match` are two closes that compete for the lots of an open, two
ticks fill them in both orders; the id counter needs two callers. In `orders` a
budget is what a behaviour may spend, so that each mix of orders, cancels,
queries and relogins that can meet is explored with two of the kind that matters.
The stream's hazards are between a stream and the one that replaces it; a message
queue of one message distinguishes empty from not. Replay needs a session and its
successor. The store's reads stop at a neighbour, so two contracts have every kind of
neighbour; three times put a gap between two records, in which a cut-off may lie;
a page of one row turns a page at each record.
The three clicks of `services` are a start and a stop of the server with a connect
between, or a connect, a disconnect and another; its two calls are two streams at
once or after each other, or a stream and the call that ends it; the run has some
226,000 states.
Every property of `Recorder` speaks of one symbol at a time; six events (461,483
states) are two clicks that connect, a query, a tick and two of what may go wrong:
a drop, a failing call, another query, a disconnect. The proofs remove the bounds for the properties they cover.

`CHECK_DEADLOCK FALSE` is set everywhere because every bound lets the system
come to rest: a user may stop clicking, and a died process is at rest.

The three violations are findings: each contradicts a sentence of the repository
that the finding quotes. Other steps that go wrong and of which the repository
says nothing are kept in the models and named in the hazards: a trading drop
that throws away the login market data had queued, two orders of btgateway with
one id (`reused`), a disconnect that hangs because DisconnectPush overtook
ConnectPush, a stop that waits for a stream opened behind onGatewayClosed
(`late`), a null `grpcServer_`, a task of the thread pool
that writes to a freed log, a getContract that finds its contract freed.

### Fairness

`CtpSession`: BLOGIC takes events and its 100 ms timer fires; the api reconnects
(it does so every five seconds, `tdsm.cpp:25`); a front answers logins and
logouts one way or the other; a command is not refused for ever. Nothing is
assumed of clicks, drops and ticks. `PushStream`: threads that can run do, event
loops take their events, the five-second timers fire, and calls that meet no
failure are answered. `StreamReturns` is checked for a user who connects once:
a client that hangs in a disconnect gets no stream. `ServiceMgr`: the program's
threads and the handlers run; clicks, clients and the quit need not come, and a
stream need not end. `QuitEnds` says that a quit comes to its end or the process
dies, unless from some point on it waits for others for ever: for a robot's or a
late client's stream, or for the gateway to close the one that BLOGIC reads.
`BtReplay`, `NezipDump` and `Recorder`: the threads run and datafeed answers,
well or with an error; clicks, ticks, data, errors and drops need not come. In
`Recorder` the gateway's handlers get to post (`GatewayCalls`), for a call is
answered or fails; a call that timed out need never be run. `ContractsStored`
leaves out the wait that may last for ever: BLOGIC with the mutex, for a stream
that did not hear its disconnect, and PUSH for the mutex.
Drops, missed deadlines and stops are never forced, and bounded so that liveness
is not vacuous: after the last of them the promise has to be kept.

## 4. What is proved

Every theorem holds for all sets and all bounds, from the `ASSUME`s of the
modules: the configured symbols are among the listed ones, refusals are `-2` or
`-3`, offered requests are well-typed, budgets and other bounds are numbers,
`None` and `NoSymbol` are not elements. Each proof shows that an invariant holds
at the start, that each action keeps it, and that it implies the property; types
are proved first, for every module.

* `CtpSessionProofs`. `IInv` = types, `TdCommandsLive`, `StopOrder`,
  `LoginedAlive`. None is inductive alone: `stop` sends a logout if
  `tdsm_logined_`, so a queued command is of a live object only because the flag
  implies the object. From it, four safety theorems and
  `LifecycleImplemented`: every step maps to a step of `SessionLifecycle` or a
  stutter under `phase <- Phase`. `ReloadsAlwaysClean` has `Reloading`: while a
  query is answered, what it has not listed yet is not there. Two theorems assume
  `Refusals \subseteq {"tooFast"}`, as a command refused with `-2` is
  lost: `StopsNeverForgotten` follows the logout from the queue to the
  signal of its answer (`StopOnWay`), `LoginsNeverForgotten` the login in the same
  way (`LInv`); the queue that `TDSM_DISCONNECTED` empties is no loss because a
  front that is linked again has its `CONNECTED` behind it (`DropsAnswered`).
* `CtpOrdersProofs`. `Typed` adds to the types what the queues name: a callback
  its order or position, a command to send its request, a login a session.
  `TradesAlwaysAttributed` needs `KnownRight`: under an order's full key the map
  has that order's id or nothing, whatever sessions the order, the lesson and the
  trade belong to. `IdsAlwaysNameOrders` needs two more. `Linked`: a login on its
  way is of a session below the last (`LoginsFall`), and while the link is down
  and commands are kept, the disconnection is in the flow or in BLOGIC's queue
  (`DownHeard`), so that `resetCmds` runs before the next login. `Ordered`, for
  behaviours without a disturbed handler: one handler runs at a time and has
  read the reference nobody else has (`Fresh`), and events, kept commands and
  orders have the ids that were answered, the kept ones those of the connection's
  session (`AllNamed`).
  `PositionsAlwaysOneAnswer` needs the flow of answers: behind each record of an
  answer but the last comes the next one or the end of the connection
  (`AnswersWhole`), and while the window has had some rows, the others wait in
  the flow (`RestEmpty`), so that BEGIN never empties half an answer that goes on.
  `OrderListsAlwaysRight` needs, beside the ids of orders (`OwnIds`), that what
  says an order is done is said of a done one (`DoneStays`), that the last return
  of an order has its present status (`ReturnsLatest`), that no return is on
  its way behind an undisturbed query (`Quiet`), and that the record of an answer which met no
  change is either right or overtaken by a return behind it (`AnswerCurrent`).
  Then each order that has no return pending is in its list (`FreshRight`).
* `BtMatchProofs`. `Books` = open orders are valid, trades have positive volume,
  the sets of lots are finite, positions are not negative and equal what the
  trades opened less what they closed, frozen lots cover the open orders. A
  volume is summed by counting lots (pairs of an id and a number), so that the
  library's facts about finite sets apply. `MatchedInFull`, `CompleteStays` and
  `TradesMatchOrders` need the types and `TradesBooked` (an order is traded iff a
  trade names it, one trade each, price within its limit).
* `BtReplayProofs`. `TicksAlwaysFollowContracts` rests on `Alternating`: starts
  and stops alternate in the window, in BLOGIC's queue and in DB's, and a reader
  runs only between them. With it `Framed` is inductive: the last contracts ahead
  of a tick in PUSH's queue, or the last that clients heard, are of the tick's
  session, and so for the session whose reader is at work.
* `RecorderProofs`. `Listing` says that the last list on its way to the gateway's
  `symbols_my_` has all its contracts (`ListCurrent`), so that what an answer leaves
  out is `unlisted` (`AnswerExplained`). `Framed` says of each of the three queues a message crosses
  that a tick in it has its notification ahead of it or behind it for good
  (`QueuesFine`), that only notified symbols are subscribed (`SymbolsNotified`),
  and `TicksFramed` itself. A queue is fine relative to what was settled
  downstream, so that moving a message from one to the next keeps both.
* `PushStreamProofs`. `StreamInv` = what is registered is open, its owner's and
  not announced; what is announced is announced once, idle and open; and the two
  properties `NoOrphanStream` and `DeadUnregistered`. They are needed together:
  `connectClient` may replace a stream only because no announced stream is
  registered. `ReaderInv` gives `ReaderNotForgotten`: `freeReaderThread` runs to
  its wait whenever the posted event is taken, because a thread that ended is
  still there to be freed.
* `ServiceMgrProofs`. `ServicesAlwaysOutlive` from `Joined`: threads are asked to
  quit in the order of the joins (`AskedInOrder`), and once RPC has finished the
  server is off, without handlers, in all programs but cta (`ServerDown`).
  `OwnThreads` adds that a BLOGIC that has finished has no reader thread and that
  no task is left at `Exited`. `StopAlwaysClosesStreams` from `Closing`: a handler
  that reads is registered or announced (`ReadingKnown`), and a stop that waits
  has `onGatewayClosed` behind every announcement that was in time (`StopPosted`).
* `DatafeedProofs`, the store. Keys are tuples of numbers; `Order` shows that
  `Before` orders them strictly, and `NextInside` and `PrevInside` that a step of
  an iterator from a place between the first and the last key of a series stays
  between them. `DatafeedInv` = types, `StoreFramed` (no step but `cleanAll` takes
  away a first or a last key of a contract that is stored), `WindowFramed` (what
  the window lists is of framed series, until `cleanAll` and then again once
  `opened()` has come), `RowsInside` (no row of a page is an empty item, so that
  the del button cannot remove one) and `ReadsPassed`: what a reader has given out
  is what lies between the place it started from and the place it has come to
  (`Passed`, for each of the four loops). The loop variable alone says nothing of
  the result, so `ReadMatchesRequest` is not inductive: `ReadsPassed` is what
  makes it so. At the end of the loop it gives the first or last records by number
  (`EndBack`, `EndForward`); for a backward read `BackGives` splits them into those
  up to the cut-off and the one behind it, for series of one period. From it
  `ListedAlwaysFramed`, `ReadsAlwaysInSeries`, `ReadsAlwaysMatch` and, as an action
  property, `NothingElseEverLost`.
* `DatafeedProofs`, nezipdump. `NothingEverVanishes` with `NoBatch` (a batch exists
  only between `TakeList` and its insertion), `IndexContractsAlwaysFirst` from
  `IndexFramed`, which follows `pushIndexData` through its loop: what was asked
  for before is stored or still to be.

Only model-checked: liveness under fairness, which is out of the prover's reach.
That is `TdLogsIn`, `ImplementsLifecycle` (its steps are proved), `StreamReturns`,
`BrokenStreamEnds`, `QuitEnds`, `ReplayPlays`, `PushEnds` and `ContractsStored`.
Every invariant and every action property that a passing run checks is proved.

## 5. Not modelled, and why

* What the windows draw (plots, tables, texts), conversions between CTP structs,
  protobuf and text, profiles, logs and minidumps: data and input/output without
  a protocol. So is the account query: one answer, passed on to window and
  clients.
* `dbCompact`, `Ping` of datafeed and requests with empty fields: they change
  nothing, or are refused at the door.
* The numbers of ticks: `GetTickCount` wraps after 49.7 days, and the ring
  buffers wrap at their capacity. The models have no clock, and ticks are
  present or not.
* Which robot hears of an order or trade of cta (the code stops at the first):
  `PushStream` has a queue per client and leaves out which message goes where.
  cta's threads, stop order, reader thread and ping are in `ServiceMgr`.
* In `CtpOrders` partial fills; in `NezipDump` what is inside a packet.
* The refusal `-2` of flow control for a login or logout. `CtpSession` has it
  (`Refusals`), the runs leave it out: when a front gives it is not in this
  repository. With it, `StopNotForgotten` fails, as the timer keeps a command
  refused with `-3` only.
* `src/third_party` (but the part of LevelDB named above and the callback of
  nezipdrv), bugreport, and of qtdemo all but its threads and its thread
  pool (`ServiceMgr`). CTP, gRPC and the driver are the environment of the models,
  as far as the code shows how they behave.

## 6. What is left

1. The ring buffer as a module of its own, with its wrap-around under a reader,
   and the command timer with its 32-bit clock.
2. cta's pushes with an owner for each order, so that an order and its trades
   reach the robot that sent it.
3. The numbers behind the lists: partial fills in `CtpOrders`, the average price
   of a position in `BtMatch`.
