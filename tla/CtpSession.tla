------------------------------ MODULE CtpSession ------------------------------
(***************************************************************************)
(* The login session of ctpgateway: GatewayMgr on the BLOGIC thread, the   *)
(* two connection objects it owns (MdSm for market data, TdSm for          *)
(* trading), its command queue with the 100 ms timer, and the contract and *)
(* ring-buffer maps that a session (re)loads.                              *)
(*                                                                         *)
(* BLOGIC takes one event at a time from its Qt queue.  A status signal    *)
(* emitted by a CTP thread is queued; one emitted on BLOGIC itself (only   *)
(* xxSM_STOPPED) runs at once, inside the call that emits it.  So stopping *)
(* an object, deleting it and clearing the command queue are one step.     *)
(* The CTP fronts are external: they connect, drop, answer and refuse.     *)
(***************************************************************************)
EXTENDS Naturals, Sequences

CONSTANTS
  Symbols,      \* the contracts the trading front lists
  MySymbols,    \* those that match the configured prefixes
  Refusals,     \* flow-control results: "tooMany" is -2, "tooFast" is -3
  MaxObjects,   \* bound: MdSm/TdSm generations
  MaxClicks,    \* bound: clicks on ctpStart and ctpStop, and requests of the user
  MaxDrops,     \* bound: connections the fronts drop
  MaxErrors     \* bound: negative answers of the fronts

ASSUME SymbolsAssumption == MySymbols \subseteq Symbols
ASSUME RefusalsAssumption == Refusals \subseteq {"tooMany", "tooFast"}
ASSUME BoundsAssumption ==
  /\ MaxObjects \in Nat /\ MaxClicks \in Nat
  /\ MaxDrops \in Nat /\ MaxErrors \in Nat

VARIABLES
  sm,         \* mdsm_ and tdsm_: the generation of the object, 0 for nullptr
  logined,    \* mdsm_logined_ and tdsm_logined_
  autoLogin,  \* autoLoginMd_ and autoLoginTd_
  cmds,       \* cmds_, the commands waiting for the timer
  contracts,  \* the keys of contracts_
  listed,     \* symbols_all_ of TdSmSpi; its symbols_my_ is listed \cap MySymbols
  rbs,        \* rbs_: no ring buffer, an empty one, or one with ticks
  ids,        \* symbols_my_ of GatewayMgr
  events,     \* the Qt event queue of BLOGIC
  canStart,   \* ctpStart is enabled in the window (and ctpStop is not)
  front,      \* external: per side the link, the login and the open requests
  query,      \* external: the instrument query being answered
  subscribed, \* external: the symbols the md front sends ticks of
  crash,      \* "none", or how the process died
  used        \* how much of each bound is used

gatewayVars == <<sm, logined, autoLogin, cmds, ids>>
dataVars == <<contracts, listed, rbs>>
frontVars == <<front, query, subscribed>>
vars == <<gatewayVars, dataVars, frontVars, events, canStart, crash, used>>

Sides == {"md", "td"}
Other(s) == IF s = "md" THEN "td" ELSE "md"

-----------------------------------------------------------------------------
(* Types of the records *)

Results == {"sent", "noLink", "tooMany", "tooFast"}   \* 0, -1, -2, -3

\* A CtpCmd: the call its closure makes and the object the closure captured.
Commands == [fn : {"login", "logout", "instruments", "subscribe", "request"},
             side : Sides, on : Nat, syms : SUBSET MySymbols]

Statuses == {"connected", "disconnected", "logined", "loginFail",
             "logouted", "logoutFail"}
Events ==
  [src : Sides, what : Statuses, syms : {{}}]
    \cup [src : {"ui"}, what : {"start", "stop", "request"}, syms : {{}}]
    \cup [src : {"spi"}, what : {"gotContracts"}, syms : SUBSET MySymbols]

Fronts == [link : BOOLEAN, session : BOOLEAN, asked : SUBSET {"login", "logout"}]
Queries == [busy : BOOLEAN, left : SUBSET Symbols]
Bounds == {"objects", "clicks", "drops", "errors"}

\* The three aborts (qFatal) of the data maps, and a call through a null or
\* deleted MdSm or TdSm.
Crashes == {"oldContract", "oldRingBuffers", "noRingBuffer", "freedObject"}

Hung == [link |-> FALSE, session |-> FALSE, asked |-> {}]
NoQuery == [busy |-> FALSE, left |-> {}]

Cmd(fn, s, syms) == [fn |-> fn, side |-> s, on |-> sm[s], syms |-> syms]
Ev(src, what) == [src |-> src, what |-> what, syms |-> {}]

\* What MdSm and TdSm put into a CtpCmd.  A request is a call whose answer changes
\* nothing here: queryAccount, reqSettlementInfoConfirm, and those of CtpOrders.
LoginCmd(s) == Cmd("login", s, {})
SubscribeCmd(syms) == Cmd("subscribe", "md", syms)
LogoutCmd == Cmd("logout", "td", {})
InstrumentsCmd == Cmd("instruments", "td", {})
RequestCmd == Cmd("request", "td", {})

TypeOK ==
  /\ sm \in [Sides -> Nat]
  /\ logined \in [Sides -> BOOLEAN]
  /\ autoLogin \in [Sides -> BOOLEAN]
  /\ cmds \in Seq(Commands)
  /\ contracts \in SUBSET Symbols
  /\ listed \in SUBSET Symbols
  /\ rbs \in [MySymbols -> {"none", "empty", "ticks"}]
  /\ ids \in SUBSET MySymbols
  /\ events \in Seq(Events)
  /\ canStart \in BOOLEAN
  /\ front \in [Sides -> Fronts]
  /\ query \in Queries
  /\ subscribed \in SUBSET MySymbols
  /\ crash \in {"none"} \cup Crashes
  /\ used \in [Bounds -> Nat]

Init ==
  /\ sm = [s \in Sides |-> 0]
  /\ logined = [s \in Sides |-> FALSE]
  /\ autoLogin = [s \in Sides |-> TRUE]
  /\ cmds = <<>>
  /\ contracts = {} /\ listed = {} /\ ids = {}
  /\ rbs = [x \in MySymbols |-> "none"]
  /\ events = <<>>
  /\ canStart = TRUE
  /\ front = [s \in Sides |-> Hung]
  /\ query = NoQuery
  /\ subscribed = {}
  /\ crash = "none"
  /\ used = [b \in Bounds |-> 0]

-----------------------------------------------------------------------------
(* What the handlers are built from *)

Running == crash = "none"

\* BLOGIC takes its next event.
Take(src, what) ==
  /\ Running
  /\ events # <<>>
  /\ Head(events).src = src /\ Head(events).what = what
  /\ events' = Tail(events)
  /\ UNCHANGED <<canStart, used>>

Spend(what, limit) == used[what] < limit /\ used' = [used EXCEPT ![what] = @ + 1]

\* What a call on the CTP api can return: a query that is still being answered
\* keeps the next one out, and flow control may refuse any call.
ResultsOf(c) ==
  IF ~front[c.side].link THEN {"noLink"}
  ELSE IF c.fn = "instruments" /\ query.busy THEN {"tooMany"}
  ELSE {"sent"} \cup Refusals

\* The fronts after call c returned r.
FrontAfter(c, r) ==
  IF r = "sent" /\ c.fn \in {"login", "logout"}
  THEN [front EXCEPT ![c.side].asked = @ \cup {c.fn}] ELSE front
SubscribedAfter(c, r) ==
  IF r = "sent" /\ c.fn = "subscribe" THEN subscribed \cup c.syms ELSE subscribed

\* GatewayMgr::runCmd with delayTick 0: the call is made at once and returned r.
Queued(q, c, r) == IF r \in {"tooFast", "tooMany"} THEN Append(q, c) ELSE q

\* MdSm::stop and TdSm::stop for the objects of S, with the xxSM_STOPPED handler
\* they run: the api is released, the object deleted, and TDSM_STOPPED empties
\* the command queue.
FreeObjectsKeepsLogins(S) ==   \* mutant
  /\ sm' = [s \in Sides |-> IF s \in S THEN 0 ELSE sm[s]]
  /\ front' = [s \in Sides |-> IF s \in S THEN Hung ELSE front[s]]
  /\ query' = IF "td" \in S THEN NoQuery ELSE query
  /\ listed' = IF "td" \in S THEN {} ELSE listed
  /\ subscribed' = IF "md" \in S THEN {} ELSE subscribed
  /\ UNCHANGED <<logined, contracts, rbs, ids, crash>>

FreeObjects(S) ==
  /\ sm' = [s \in Sides |-> IF s \in S THEN 0 ELSE sm[s]]
  /\ logined' = [s \in Sides |-> IF s \in S THEN FALSE ELSE logined[s]]
  /\ front' = [s \in Sides |-> IF s \in S THEN Hung ELSE front[s]]
  /\ query' = IF "td" \in S THEN NoQuery ELSE query
  /\ listed' = IF "td" \in S THEN {} ELSE listed
  /\ subscribed' = IF "md" \in S THEN {} ELSE subscribed
  /\ UNCHANGED <<contracts, rbs, ids, crash>>

StopObjectsKeepsCmds(S) == FreeObjects(S) /\ cmds' = cmds   \* mutant

StopObjects(S) ==
  /\ FreeObjects(S)
  /\ cmds' = IF "td" \in S THEN <<>> ELSE cmds

-----------------------------------------------------------------------------
(* Calls of the user, and GatewayMgr::start, stop and the query slots *)

ClickStart ==
  /\ Running /\ canStart
  /\ Spend("clicks", MaxClicks)
  /\ canStart' = FALSE
  /\ events' = Append(events, Ev("ui", "start"))
  /\ UNCHANGED <<gatewayVars, dataVars, frontVars, crash>>

ClickStop ==
  /\ Running /\ ~canStart
  /\ Spend("clicks", MaxClicks)
  /\ canStart' = TRUE
  /\ events' = Append(events, Ev("ui", "stop"))
  /\ UNCHANGED <<gatewayVars, dataVars, frontVars, crash>>

ClickRequest ==
  /\ Running
  /\ Spend("clicks", MaxClicks)
  /\ events' = Append(events, Ev("ui", "request"))
  /\ UNCHANGED <<gatewayVars, dataVars, frontVars, canStart, crash>>

StartAllowedByMd == sm["md"] = 0   \* mutant
StartAllowed == sm["md"] = 0 /\ sm["td"] = 0

NewObject == used["objects"] + 1

OnStart ==
  /\ Running /\ events # <<>> /\ Head(events) = Ev("ui", "start")
  /\ StartAllowed
  /\ Spend("objects", MaxObjects)
  /\ events' = Tail(events)
  /\ sm' = [s \in Sides |-> NewObject]
  /\ autoLogin' = [s \in Sides |-> TRUE]
  /\ UNCHANGED <<logined, cmds, ids, dataVars, frontVars, canStart, crash>>

\* An object of the last session is left, or a parameter is empty.
OnStartRefused ==
  /\ Take("ui", "start")
  /\ UNCHANGED <<gatewayVars, dataVars, frontVars, crash>>

AutoLoginAfterStopKept == autoLogin   \* mutant
AutoLoginAfterStop == [s \in Sides |-> IF sm[s] # 0 THEN FALSE ELSE autoLogin[s]]

\* Without a trading login the objects stop at once; with one a logout goes out
\* and TdSm stops when it is answered or the front drops the link.
OnStop ==
  /\ Take("ui", "stop")
  /\ ~logined["td"]
  /\ autoLogin' = AutoLoginAfterStop
  /\ StopObjects({s \in Sides : sm[s] # 0})

OnStopLogout(r) ==
  /\ Take("ui", "stop")
  /\ logined["td"]
  /\ r \in ResultsOf(LogoutCmd)
  /\ autoLogin' = AutoLoginAfterStop
  /\ sm' = [sm EXCEPT !["md"] = 0]
  /\ logined' = [logined EXCEPT !["md"] = FALSE]
  /\ cmds' = Queued(cmds, LogoutCmd, r)
  /\ front' = [FrontAfter(LogoutCmd, r) EXCEPT !["md"] = Hung]
  /\ subscribed' = {}
  /\ UNCHANGED <<ids, dataVars, query, crash>>

\* queryAccount, queryPosition, queryOrders, sendOrder, cancelOrder.
OnRequest(r) ==
  /\ Take("ui", "request")
  /\ IF sm["td"] = 0 THEN cmds' = cmds
     ELSE /\ r \in ResultsOf(RequestCmd)
          /\ cmds' = Queued(cmds, RequestCmd, r)
  /\ UNCHANGED <<sm, logined, autoLogin, ids, dataVars, frontVars, crash>>

-----------------------------------------------------------------------------
(* onMdSmStateChanged and onTdSmStateChanged *)

\* The object a queued status came from is deleted by now.
OnStatusIgnored(s) ==
  /\ sm[s] = 0
  /\ \E what \in Statuses : Take(s, what)
  /\ UNCHANGED <<gatewayVars, dataVars, frontVars, crash>>

\* login(1000), or stop when the user stopped the session.
OnConnected(s) ==
  /\ Take(s, "connected")
  /\ sm[s] # 0
  /\ UNCHANGED autoLogin
  /\ IF autoLogin[s]
     THEN /\ logined' = [logined EXCEPT ![s] = FALSE]
          /\ cmds' = Append(cmds, LoginCmd(s))
          /\ UNCHANGED <<sm, ids, dataVars, frontVars, crash>>
     ELSE StopObjects({s})

\* The trading side empties the command queue, of both sides.
OnDisconnected(s) ==
  /\ Take(s, "disconnected")
  /\ sm[s] # 0
  /\ UNCHANGED autoLogin
  /\ IF autoLogin[s]
     THEN /\ logined' = [logined EXCEPT ![s] = FALSE]
          /\ cmds' = IF s = "td" THEN <<>> ELSE cmds
          /\ UNCHANGED <<sm, ids, dataVars, frontVars, crash>>
     ELSE StopObjects({s})

\* tryStartSubscrible: with both logins the contracts are queried one second
\* later; a missing TdSm is created.
OnLogined(s) ==
  /\ Take(s, "logined")
  /\ sm[s] # 0
  /\ logined' = [logined EXCEPT ![s] = TRUE]
  /\ cmds' = IF logined[Other(s)] THEN Append(cmds, InstrumentsCmd)
             ELSE cmds
  /\ sm["td"] # 0
  /\ UNCHANGED <<sm, autoLogin, ids, dataVars, frontVars, crash>>

OnLoginedRestartNone ==   \* mutant
  /\ Take("md", "logined")
  /\ sm["md"] # 0 /\ sm["td"] = 0
  /\ logined' = [logined EXCEPT !["md"] = TRUE]
  /\ UNCHANGED <<sm, autoLogin, cmds, ids, dataVars, frontVars, crash>>

\* An answer to a logout that comes when another status has already stopped the
\* session, and the next has started, stops the TdSm of that one; it is made anew.
OnLoginedRestart ==
  /\ Running /\ events # <<>> /\ Head(events) = Ev("md", "logined")
  /\ sm["md"] # 0 /\ sm["td"] = 0
  /\ Spend("objects", MaxObjects)
  /\ events' = Tail(events)
  /\ logined' = [logined EXCEPT !["md"] = TRUE]
  /\ sm' = [sm EXCEPT !["td"] = NewObject]
  /\ autoLogin' = [autoLogin EXCEPT !["td"] = TRUE]
  /\ UNCHANGED <<cmds, ids, dataVars, frontVars, canStart, crash>>

\* login(60000), or stop.
OnLoginFail(s) ==
  /\ Take(s, "loginFail")
  /\ sm[s] # 0
  /\ UNCHANGED autoLogin
  /\ IF autoLogin[s]
     THEN /\ cmds' = Append(cmds, LoginCmd(s))
          /\ UNCHANGED <<sm, logined, ids, dataVars, frontVars, crash>>
     ELSE StopObjects({s})

OnLogoutedKeepsTd ==   \* mutant
  /\ Take("td", "logouted") \/ Take("td", "logoutFail")
  /\ sm["td"] # 0
  /\ logined' = [logined EXCEPT !["td"] = FALSE]
  /\ UNCHANGED <<sm, autoLogin, cmds, ids, dataVars, frontVars, crash>>

OnLogouted ==
  /\ Take("td", "logouted") \/ Take("td", "logoutFail")
  /\ sm["td"] # 0
  /\ UNCHANGED autoLogin
  /\ StopObjects({"td"})

-----------------------------------------------------------------------------
(* The command timer: onRunCmdInterval *)

\* The head's closure uses the object it captured; queryInstrument resets the
\* data of both objects before it asks.
CommandSafe(c) == c.on = sm[c.side] /\ (c.fn = "instruments" => sm["md"] # 0)

ResetDataKeepsContracts(c) ==   \* mutant
  IF c.fn = "instruments"
  THEN /\ ids' = {} /\ listed' = {}
       /\ rbs' = [x \in MySymbols |-> "none"]
       /\ UNCHANGED contracts
  ELSE UNCHANGED <<contracts, listed, ids, rbs>>

FreeContracts == contracts' = {}
ResetLists == listed' = {} /\ ids' = {}
FreeRingBuffer == rbs' = [x \in MySymbols |-> "none"]

ResetData(c) ==
  IF c.fn = "instruments" THEN ResetLists /\ FreeContracts /\ FreeRingBuffer
  ELSE UNCHANGED <<contracts, listed, ids, rbs>>

QueryAfter(c, r) ==
  IF c.fn = "instruments" /\ r = "sent" THEN [busy |-> TRUE, left |-> Symbols] ELSE query

\* Only -3 keeps the head, every other result consumes it.
CmdsAfterRunDropped(r) == Tail(cmds)   \* mutant
CmdsAfterRun(r) == IF r = "tooFast" THEN cmds ELSE Tail(cmds)

\* A due head is called.
RunCmd(r) ==
  /\ Running /\ cmds # <<>>
  /\ CommandSafe(Head(cmds))
  /\ r \in ResultsOf(Head(cmds))
  /\ cmds' = CmdsAfterRun(r)
  /\ ResetData(Head(cmds))
  /\ front' = FrontAfter(Head(cmds), r)
  /\ query' = QueryAfter(Head(cmds), r)
  /\ subscribed' = SubscribedAfter(Head(cmds), r)
  /\ UNCHANGED <<sm, logined, autoLogin, events, canStart, crash, used>>

\* Its object is deleted, or resetData goes through a null mdsm_.
RunCmdCrash ==
  /\ Running /\ cmds # <<>>
  /\ ~CommandSafe(Head(cmds))
  /\ crash' = "freedObject"
  /\ UNCHANGED <<gatewayVars, dataVars, frontVars, events, canStart, used>>

-----------------------------------------------------------------------------
(* The contract list: OnRspQryInstrument on the CTP thread, onGotContracts on   *)
(* BLOGIC, OnRtnDepthMarketData on the md thread                                *)

\* One record; insertContract aborts on a symbol it already has.
RspInstrument(x) ==
  /\ Running /\ query.busy /\ x \in query.left
  /\ query' = [query EXCEPT !.left = @ \ {x}]
  /\ IF x \in contracts
     THEN crash' = "oldContract" /\ UNCHANGED <<contracts, listed>>
     ELSE /\ contracts' = contracts \cup {x} /\ listed' = listed \cup {x}
          /\ UNCHANGED crash
  /\ UNCHANGED <<gatewayVars, rbs, front, subscribed, events, canStart, used>>

GotContractsAll == [src |-> "spi", what |-> "gotContracts", syms |-> listed]   \* mutant
GotContracts == [src |-> "spi", what |-> "gotContracts", syms |-> listed \cap MySymbols]

\* bIsLast, of a complete answer or of an error: initRingBuffer aborts unless
\* rbs_ is empty.
QueryEnds ==
  /\ query' = NoQuery
  /\ IF \E x \in MySymbols : rbs[x] # "none"
     THEN crash' = "oldRingBuffers" /\ UNCHANGED <<rbs, events>>
     ELSE /\ rbs' = [x \in MySymbols |-> IF x \in listed THEN "empty" ELSE "none"]
          /\ events' = Append(events, GotContracts)
          /\ UNCHANGED crash
  /\ UNCHANGED <<gatewayVars, contracts, listed, front, subscribed, canStart>>

RspInstrumentLast ==
  /\ Running /\ query.busy /\ query.left = {}
  /\ QueryEnds /\ UNCHANGED used

RspInstrumentError ==
  /\ Running /\ query.busy
  /\ Spend("errors", MaxErrors)
  /\ QueryEnds

\* OnRspError: the query is over and nothing reacts to it.
RspError ==
  /\ Running /\ query.busy
  /\ Spend("errors", MaxErrors)
  /\ query' = NoQuery
  /\ UNCHANGED <<gatewayVars, dataVars, front, subscribed, events, canStart, crash>>

\* The list is kept, md subscribes it and td confirms the settlement, both at
\* once; neither pointer is checked.
OnGotContracts(rSub, rConf) ==
  /\ Take("spi", "gotContracts")
  /\ ids' = Head(events).syms
  /\ UNCHANGED <<sm, logined, autoLogin, dataVars, front, query>>
  /\ IF sm["md"] = 0 \/ sm["td"] = 0
     THEN crash' = "freedObject" /\ UNCHANGED <<cmds, subscribed>>
     ELSE LET sub == SubscribeCmd(Head(events).syms)
              conf == RequestCmd
          IN /\ rSub \in ResultsOf(sub) /\ rConf \in ResultsOf(conf)
             /\ cmds' = Queued(Queued(cmds, sub, rSub), conf, rConf)
             /\ subscribed' = SubscribedAfter(sub, rSub)
             /\ UNCHANGED crash

\* getRingBuffer aborts on a symbol without a ring buffer.
Tick(x) ==
  /\ Running /\ front["md"].session /\ x \in subscribed
  /\ IF rbs[x] = "none" THEN crash' = "noRingBuffer" /\ UNCHANGED rbs
     ELSE rbs' = [rbs EXCEPT ![x] = "ticks"] /\ UNCHANGED crash
  /\ UNCHANGED <<gatewayVars, contracts, listed, frontVars, events, canStart, used>>

-----------------------------------------------------------------------------
(* The fronts' threads: OnFrontConnected, OnFrontDisconnected, OnRspUserLogin,  *)
(* OnRspUserLogout                                                              *)

Post(s, what) == events' = Append(events, Ev(s, what))

FrontConnected(s) ==
  /\ Running /\ sm[s] # 0 /\ ~front[s].link
  /\ front' = [front EXCEPT ![s].link = TRUE]
  /\ Post(s, "connected")
  /\ UNCHANGED <<gatewayVars, dataVars, query, subscribed, canStart, crash, used>>

\* A dropped link loses the login, the open requests and the subscriptions; the
\* api reconnects by itself.
FrontDisconnected(s) ==
  /\ Running /\ front[s].link
  /\ Spend("drops", MaxDrops)
  /\ front' = [front EXCEPT ![s] = Hung]
  /\ query' = IF s = "td" THEN NoQuery ELSE query
  /\ subscribed' = IF s = "md" THEN {} ELSE subscribed
  /\ Post(s, "disconnected")
  /\ UNCHANGED <<gatewayVars, dataVars, canStart, crash>>

Answered(s, fn, session) ==
  /\ Running /\ fn \in front[s].asked
  /\ front' = [front EXCEPT ![s].asked = @ \ {fn}, ![s].session = session]
  /\ UNCHANGED <<gatewayVars, dataVars, query, subscribed, canStart, crash>>

RspUserLogin(s) == Answered(s, "login", TRUE) /\ Post(s, "logined") /\ UNCHANGED used

RspUserLoginError(s) ==
  /\ Answered(s, "login", FALSE) /\ Post(s, "loginFail")
  /\ Spend("errors", MaxErrors)

RspUserLogout == Answered("td", "logout", FALSE) /\ Post("td", "logouted") /\ UNCHANGED used

RspUserLogoutError ==
  /\ Answered("td", "logout", FALSE) /\ Post("td", "logoutFail")
  /\ Spend("errors", MaxErrors)

-----------------------------------------------------------------------------
User == ClickStart \/ ClickStop \/ ClickRequest

BlogicTakes ==
  \/ OnStart \/ OnStartRefused \/ OnStop
  \/ \E r \in Results : OnStopLogout(r) \/ OnRequest(r)
  \/ \E s \in Sides :
       \/ OnStatusIgnored(s) \/ OnConnected(s) \/ OnDisconnected(s)
       \/ OnLogined(s) \/ OnLoginFail(s)
  \/ OnLoginedRestart \/ OnLogouted
  \/ \E r1, r2 \in Results : OnGotContracts(r1, r2)

Timer == RunCmdCrash \/ \E r \in Results : RunCmd(r)

FrontsAnswer ==
  \/ \E s \in Sides : FrontConnected(s) \/ RspUserLogin(s) \/ RspUserLoginError(s)
  \/ RspUserLogout \/ RspUserLogoutError
  \/ \E x \in Symbols : RspInstrument(x)
  \/ RspInstrumentLast \/ RspInstrumentError \/ RspError

Environment ==
  \/ FrontsAnswer
  \/ \E s \in Sides : FrontDisconnected(s)
  \/ \E x \in MySymbols : Tick(x)

Next == User \/ BlogicTakes \/ Timer \/ Environment

Spec == Init /\ [][Next]_vars

(***************************************************************************)
(* The event loop takes events, the 100 ms timer calls the head command    *)
(* (and is not refused for ever), the api reconnects every five seconds    *)
(* and a front answers what it was asked, one way or the other.  Nothing   *)
(* is assumed of the user, of dropped links and of ticks.                  *)
(***************************************************************************)
Fairness ==
  /\ WF_vars(BlogicTakes)
  /\ WF_vars(Timer) /\ WF_vars(RunCmd("sent"))
  /\ \A s \in Sides : WF_vars(FrontConnected(s))
  /\ \A s \in Sides : WF_vars(RspUserLogin(s) \/ RspUserLoginError(s))
  /\ WF_vars(RspUserLogout \/ RspUserLogoutError)

FairSpec == Spec /\ Fairness

-----------------------------------------------------------------------------
(* Properties *)

\* Every command that TdSm queued belongs to the live TdSm: no closure of a
\* deleted TdSm, and none of an earlier session, is ever called (resetCmds on
\* TDSM_STOPPED; MdSm has no such reset).
TdCommandsLive ==
  \A i \in DOMAIN cmds : cmds[i].side = "td" => cmds[i].on = sm["td"] /\ sm["td"] # 0

\* A stop takes market data down at once, and while trading is alive its
\* automatic login is off exactly as long as it waits alone for the logout: a
\* refused start, a late signal or a reconnect never turns it on again.
StopOrder ==
  /\ sm["md"] # 0 => autoLogin["md"]
  /\ sm["td"] # 0 => (~autoLogin["td"] <=> sm["md"] = 0)

\* A login flag is only up while its object exists, so stop() and
\* tryStartSubscrible never log out or query through a null tdsm_.
LoginedAlive == \A s \in Sides : logined[s] => sm[s] # 0

Pending(s) == \E i \in DOMAIN events : events[i].src = s
CmdQueued(s, fn) == \E i \in DOMAIN cmds : cmds[i].side = s /\ cmds[i].fn = fn

\* A stop that waits for the logout is never forgotten: the logout is queued or
\* asked, a signal is on its way, or the link is down and CONNECTED will stop it
\* (the comment above OnRspUserLogout).
StopNotForgotten ==
  Running /\ sm["td"] # 0 /\ ~autoLogin["td"] =>
    CmdQueued("td", "logout") \/ front["td"].asked # {} \/ Pending("td") \/ ~front["td"].link

\* As long as the connected trading side with automatic login has no login, one
\* is queued or asked, or a signal that leads to one is on its way.  Market data
\* has no such promise: TDSM_DISCONNECTED drops the login it has queued.
TdLoginNotForgotten ==
  Running /\ sm["td"] # 0 /\ autoLogin["td"] /\ front["td"].link /\ ~front["td"].session =>
    CmdQueued("td", "login") \/ front["td"].asked # {} \/ Pending("td")

\* However queries overlap with relogins, refusals and late answers, an answer
\* never meets contracts or ring buffers of an earlier one: the qFatals of
\* insertContract and initRingBuffer are out of reach.
ReloadClean == crash \notin {"oldContract", "oldRingBuffers"}

\* The qFatal of getRingBuffer: a tick always finds its ring buffer.
TickHasRingBuffer == crash # "noRingBuffer"

\* A session gets its trading login, unless it is stopped: also one whose TdSm a
\* late answer to the logout of the last session has stopped.  Its MdSm runs on
\* alone, and tryStartSubscrible makes it whole again when market data logs in.
TdLogsIn ==
  sm["md"] # 0 ~> (logined["td"] /\ front["td"].session) \/ sm["md"] = 0 \/ ~Running

Phase ==
  IF ~Running THEN "dead"
  ELSE IF sm["md"] # 0 THEN "running"
  ELSE IF sm["td"] # 0 THEN "stopping" ELSE "stopped"

Lifecycle == INSTANCE SessionLifecycle WITH phase <- Phase

\* The session is what SessionLifecycle promises: a start works only when both
\* objects of the last session are gone, and a session that is stopping is never
\* revived, whatever the fronts send late.
ImplementsLifecycleSteps == Lifecycle!Spec

\* And a session that is stopping ends: the logout is answered or the link drops.
ImplementsLifecycle == Lifecycle!FairSpec

=============================================================================
