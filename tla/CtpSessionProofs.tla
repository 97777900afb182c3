--------------------------- MODULE CtpSessionProofs ---------------------------
(***************************************************************************)
(* Theorems about CtpSession for every set of symbols, every flow control  *)
(* and every bound.  IInv is inductive: StopOrder needs LoginedAlive (a    *)
(* logout goes out only through a live tdsm_), TdCommandsLive needs both,  *)
(* and each needs the types.  Three properties have invariants of their    *)
(* own, each at the end: Reloading, and for refusals of -3 only StopOnWay  *)
(* and LInv.                                                               *)
(***************************************************************************)
EXTENDS CtpSession, TLAPS

IInv == TypeOK /\ TdCommandsLive /\ StopOrder /\ LoginedAlive

AllLive(q, n) == \A i \in DOMAIN q : q[i].side = "td" => q[i].on = n /\ n # 0

-----------------------------------------------------------------------------
(* The command queue *)

\* Appending a command of the live TdSm, or one of MdSm, keeps the queue live.
LEMMA AppendLive ==
  ASSUME NEW q \in Seq(Commands), NEW c \in Commands, NEW n \in Nat,
         AllLive(q, n), c.side = "td" => c.on = n /\ n # 0
  PROVE  Append(q, c) \in Seq(Commands) /\ AllLive(Append(q, c), n)
  BY DEF AllLive

\* So does the queueing that runCmd does after a refused call.
LEMMA QueuedLive ==
  ASSUME NEW q \in Seq(Commands), NEW c \in Commands, NEW n \in Nat, NEW r,
         AllLive(q, n), c.side = "td" => c.on = n /\ n # 0
  PROVE  Queued(q, c, r) \in Seq(Commands) /\ AllLive(Queued(q, c, r), n)
  BY AppendLive DEF Queued

\* And consuming the head.
LEMMA TailLive ==
  ASSUME NEW q \in Seq(Commands), NEW n \in Nat, AllLive(q, n), q # <<>>
  PROVE  Tail(q) \in Seq(Commands) /\ AllLive(Tail(q), n)
  BY DEF AllLive

\* The commands that the handlers build are commands.
LEMMA CmdType ==
  ASSUME TypeOK, NEW s \in Sides, NEW syms \in SUBSET MySymbols,
         NEW fn \in {"login", "logout", "instruments", "subscribe", "request"}
  PROVE  /\ Cmd(fn, s, syms) \in Commands
         /\ Cmd(fn, s, syms).side = s /\ Cmd(fn, s, syms).on = sm[s]
  BY DEF TypeOK, Cmd, Commands

\* Taking an event leaves a queue of events.
LEMMA TakeType ==
  ASSUME TypeOK, events # <<>>
  PROVE  Tail(events) \in Seq(Events) /\ Head(events) \in Events
  BY DEF TypeOK

LEMMA SpendType ==
  ASSUME TypeOK, NEW what \in Bounds, NEW limit, Spend(what, limit)
  PROVE  used' \in [Bounds -> Nat]
  BY DEF TypeOK, Spend

-----------------------------------------------------------------------------
(* Types *)

\* A call on the api leaves the fronts and the subscriptions well typed.
LEMMA CallType ==
  ASSUME TypeOK, NEW c \in Commands, NEW r
  PROVE  /\ FrontAfter(c, r) \in [Sides -> Fronts]
         /\ SubscribedAfter(c, r) \in SUBSET MySymbols
         /\ QueryAfter(c, r) \in Queries
<1>1. FrontAfter(c, r) \in [Sides -> Fronts]
  <2>1. CASE r = "sent" /\ c.fn \in {"login", "logout"}
    <3>1. c.side \in Sides /\ front[c.side] \in Fronts
      BY DEF TypeOK, Commands
    <3>2. [front[c.side] EXCEPT !.asked = @ \cup {c.fn}] \in Fronts
      BY <2>1, <3>1 DEF Fronts
    <3>3. QED
      BY <2>1, <3>2 DEF TypeOK, FrontAfter
  <2>2. CASE ~(r = "sent" /\ c.fn \in {"login", "logout"})
    BY <2>2 DEF TypeOK, FrontAfter
  <2>3. QED  BY <2>1, <2>2
<1>2. SubscribedAfter(c, r) \in SUBSET MySymbols
  BY DEF TypeOK, SubscribedAfter, Commands
<1>3. QueryAfter(c, r) \in Queries
  BY DEF TypeOK, QueryAfter, Queries
<1>4. QED  BY <1>1, <1>2, <1>3

\* Stopping objects leaves everything they own well typed.
LEMMA StopType ==
  ASSUME TypeOK, NEW S \in SUBSET Sides, StopObjects(S)
  PROVE  /\ sm' \in [Sides -> Nat] /\ logined' \in [Sides -> BOOLEAN]
         /\ front' \in [Sides -> Fronts] /\ query' \in Queries
         /\ listed' \in SUBSET Symbols /\ subscribed' \in SUBSET MySymbols
         /\ cmds' \in Seq(Commands)
         /\ UNCHANGED <<contracts, rbs, ids, crash>>
<1>1. Hung \in Fronts /\ NoQuery \in Queries
  BY DEF Hung, Fronts, NoQuery, Queries
<1>2. cmds' \in Seq(Commands)
  BY DEF TypeOK, StopObjects
<1>3. /\ sm' \in [Sides -> Nat] /\ logined' \in [Sides -> BOOLEAN]
      /\ front' \in [Sides -> Fronts]
  BY <1>1 DEF TypeOK, StopObjects, FreeObjects
<1>4. /\ query' \in Queries /\ listed' \in SUBSET Symbols
      /\ subscribed' \in SUBSET MySymbols
      /\ UNCHANGED <<contracts, rbs, ids, crash>>
  BY <1>1 DEF TypeOK, StopObjects, FreeObjects
<1>5. QED  BY <1>2, <1>3, <1>4

LEMMA PostType ==
  ASSUME TypeOK, NEW s \in Sides, NEW what \in Statuses
  PROVE  Append(events, Ev(s, what)) \in Seq(Events)
<1>1. Ev(s, what) \in Events
  BY DEF Ev, Events
<1>2. QED  BY <1>1 DEF TypeOK

LEMMA UserTypes ==
  ASSUME TypeOK, User
  PROVE  TypeOK'
<1> USE DEF TypeOK, gatewayVars, dataVars, frontVars
<1>1. ASSUME NEW what \in {"start", "stop", "request"}
      PROVE  Append(events, Ev("ui", what)) \in Seq(Events)
  <2>1. Ev("ui", what) \in Events  BY DEF Ev, Events
  <2>2. QED  BY <2>1
<1>2. CASE ClickStart
  BY <1>1, <1>2, SpendType DEF ClickStart, Bounds
<1>3. CASE ClickStop
  BY <1>1, <1>3, SpendType DEF ClickStop, Bounds
<1>4. CASE ClickRequest
  BY <1>1, <1>4, SpendType DEF ClickRequest, Bounds
<1>5. QED  BY <1>2, <1>3, <1>4 DEF User

LEMMA BlogicTypes ==
  ASSUME TypeOK, BlogicTakes
  PROVE  TypeOK'
<1> USE DEF gatewayVars, dataVars, frontVars, LoginCmd, SubscribeCmd, LogoutCmd,
           InstrumentsCmd, RequestCmd
<1>1. ASSUME NEW src, NEW what, Take(src, what)
      PROVE  events' \in Seq(Events) /\ canStart' \in BOOLEAN /\ used' \in [Bounds -> Nat]
  BY <1>1, TakeType DEF Take, TypeOK
<1>2. CASE OnStart
  <2>1. used' \in [Bounds -> Nat] /\ NewObject \in Nat
    BY <1>2, SpendType DEF OnStart, NewObject, Bounds, TypeOK
  <2>2. QED
    BY <1>2, <2>1, TakeType DEF OnStart, TypeOK
<1>3. CASE OnStartRefused
  BY <1>1, <1>3 DEF OnStartRefused, TypeOK
<1>4. CASE OnStop
  <2>1. StopObjects({s \in Sides : sm[s] # 0})  BY <1>4 DEF OnStop
  <2>2. QED
    BY <1>1, <1>4, <2>1, StopType DEF OnStop, AutoLoginAfterStop, TypeOK
<1>5. ASSUME NEW r \in Results, OnStopLogout(r)
      PROVE  TypeOK'
  <2> DEFINE c == Cmd("logout", "td", {})
  <2>1. c \in Commands  BY CmdType DEF Sides
  <2>2. Queued(cmds, c, r) \in Seq(Commands)  BY <2>1 DEF Queued, TypeOK
  <2>3. Hung \in Fronts  BY DEF Hung, Fronts
  <2>4. front' \in [Sides -> Fronts]
    BY <1>5, <2>1, <2>3, CallType DEF OnStopLogout
  <2>5. QED
    BY <1>1, <1>5, <2>2, <2>4 DEF OnStopLogout, AutoLoginAfterStop, TypeOK
<1>6. ASSUME NEW r \in Results, OnRequest(r)
      PROVE  TypeOK'
  <2>1. Queued(cmds, Cmd("request", "td", {}), r) \in Seq(Commands)
    BY CmdType DEF Queued, TypeOK, Sides
  <2>2. QED
    BY <1>1, <1>6, <2>1 DEF OnRequest, TypeOK
<1>7. ASSUME NEW s \in Sides, OnStatusIgnored(s)
      PROVE  TypeOK'
  BY <1>1, <1>7 DEF OnStatusIgnored, TypeOK
<1>8. ASSUME NEW s \in Sides
      PROVE  Append(cmds, Cmd("login", s, {})) \in Seq(Commands)
  BY <1>8, CmdType DEF TypeOK
<1>9. ASSUME NEW s \in Sides, OnConnected(s)
      PROVE  TypeOK'
  <2>1. CASE autoLogin[s]
    BY <1>1, <1>8, <1>9, <2>1 DEF OnConnected, TypeOK
  <2>2. CASE ~autoLogin[s]
    BY <1>1, <1>9, <2>2, StopType DEF OnConnected, TypeOK
  <2>3. QED  BY <2>1, <2>2
<1>10. ASSUME NEW s \in Sides, OnDisconnected(s)
       PROVE  TypeOK'
  <2>1. CASE autoLogin[s]
    <3>1. <<>> \in Seq(Commands)
      OBVIOUS
    <3>2. cmds' = <<>> \/ cmds' = cmds
      BY <1>10, <2>1 DEF OnDisconnected
    <3>3. cmds' \in Seq(Commands)
      BY <3>1, <3>2 DEF TypeOK
    <3>4. QED
      BY <1>1, <1>10, <2>1, <3>3 DEF OnDisconnected, TypeOK
  <2>2. CASE ~autoLogin[s]
    BY <1>1, <1>10, <2>2, StopType DEF OnDisconnected, TypeOK
  <2>3. QED  BY <2>1, <2>2
<1>11. ASSUME NEW s \in Sides, OnLogined(s)
       PROVE  TypeOK'
  <2>1. Append(cmds, Cmd("instruments", "td", {})) \in Seq(Commands)
    BY CmdType DEF TypeOK, Sides
  <2>2. QED
    BY <1>1, <1>11, <2>1 DEF OnLogined, TypeOK
<1>12. ASSUME NEW s \in Sides, OnLoginFail(s)
       PROVE  TypeOK'
  <2>1. CASE autoLogin[s]
    BY <1>1, <1>8, <1>12, <2>1 DEF OnLoginFail, TypeOK
  <2>2. CASE ~autoLogin[s]
    BY <1>1, <1>12, <2>2, StopType DEF OnLoginFail, TypeOK
  <2>3. QED  BY <2>1, <2>2
<1>13. CASE OnLoginedRestart
  <2>1. used' \in [Bounds -> Nat] /\ NewObject \in Nat
    BY <1>13, SpendType DEF OnLoginedRestart, NewObject, Bounds, TypeOK
  <2>2. QED
    BY <1>13, <2>1, TakeType DEF OnLoginedRestart, TypeOK
<1>14. CASE OnLogouted
  BY <1>1, <1>14, StopType DEF OnLogouted, TypeOK, Sides
<1>15. ASSUME NEW r1 \in Results, NEW r2 \in Results, OnGotContracts(r1, r2)
       PROVE  TypeOK'
  <2> DEFINE sub == Cmd("subscribe", "md", Head(events).syms)
             conf == Cmd("request", "td", {})
  <2>1. Head(events).syms \in SUBSET MySymbols
    BY <1>15, TakeType DEF OnGotContracts, Take, Events, Sides
  <2>2. sub \in Commands /\ conf \in Commands
    BY <2>1, CmdType DEF Sides
  <2>3. Queued(Queued(cmds, sub, r1), conf, r2) \in Seq(Commands)
    BY <2>2 DEF Queued, TypeOK
  <2>4. SubscribedAfter(sub, r1) \in SUBSET MySymbols
    BY <2>2, CallType
  <2>5. events' \in Seq(Events) /\ canStart' \in BOOLEAN /\ used' \in [Bounds -> Nat]
    BY <1>1, <1>15 DEF OnGotContracts
  <2>6. QED
    BY <1>15, <2>1, <2>3, <2>4, <2>5 DEF OnGotContracts, TypeOK, Crashes
<1>16. QED
  BY <1>2, <1>3, <1>4, <1>5, <1>6, <1>7, <1>9, <1>10, <1>11, <1>12, <1>13, <1>14, <1>15
     DEF BlogicTakes

LEMMA TimerTypes ==
  ASSUME TypeOK, Timer
  PROVE  TypeOK'
<1> USE DEF gatewayVars, dataVars, frontVars
<1>1. CASE RunCmdCrash
  BY <1>1 DEF RunCmdCrash, TypeOK, Crashes
<1>2. ASSUME NEW r \in Results, RunCmd(r)
      PROVE  TypeOK'
  <2>1. Head(cmds) \in Commands /\ cmds' \in Seq(Commands)
    BY <1>2 DEF RunCmd, CmdsAfterRun, TypeOK
  <2>2. /\ contracts' \in SUBSET Symbols /\ listed' \in SUBSET Symbols
        /\ ids' \in SUBSET MySymbols
        /\ rbs' \in [MySymbols -> {"none", "empty", "ticks"}]
    BY <1>2 DEF RunCmd, ResetData, FreeContracts, ResetLists, FreeRingBuffer, TypeOK
  <2>3. /\ front' \in [Sides -> Fronts] /\ query' \in Queries
        /\ subscribed' \in SUBSET MySymbols
    BY <1>2, <2>1, CallType DEF RunCmd
  <2>4. QED
    BY <1>2, <2>1, <2>2, <2>3 DEF RunCmd, TypeOK
<1>3. QED  BY <1>1, <1>2 DEF Timer

LEMMA EnvironmentTypes ==
  ASSUME TypeOK, Environment
  PROVE  TypeOK'
<1> USE DEF gatewayVars, dataVars, frontVars
<1>1. ASSUME NEW x \in Symbols, RspInstrument(x)
      PROVE  TypeOK'
  <2>1. query' \in Queries  BY <1>1 DEF RspInstrument, TypeOK, Queries
  <2>2. QED
    BY <1>1, <2>1 DEF RspInstrument, TypeOK, Crashes
<1>2. ASSUME QueryEnds, used' \in [Bounds -> Nat]
      PROVE  TypeOK'
  <2>1. query' \in Queries  BY <1>2 DEF QueryEnds, NoQuery, Queries
  <2>2. events' \in Seq(Events)
    <3>1. GotContracts \in Events  BY SymbolsAssumption DEF GotContracts, Events
    <3>2. Append(events, GotContracts) \in Seq(Events)  BY <3>1 DEF TypeOK
    <3>3. QED  BY <1>2, <3>2 DEF QueryEnds, TypeOK
  <2>3. rbs' \in [MySymbols -> {"none", "empty", "ticks"}]
    BY <1>2 DEF QueryEnds, TypeOK
  <2>4. QED
    BY <1>2, <2>1, <2>2, <2>3 DEF QueryEnds, TypeOK, Crashes
<1>3. CASE RspInstrumentLast
  BY <1>2, <1>3 DEF RspInstrumentLast, TypeOK
<1>4. CASE RspInstrumentError
  BY <1>2, <1>4, SpendType DEF RspInstrumentError, Bounds
<1>5. CASE RspError
  <2>1. query' \in Queries  BY <1>5 DEF RspError, NoQuery, Queries
  <2>2. QED
    BY <1>5, <2>1, SpendType DEF RspError, Bounds, TypeOK
<1>6. ASSUME NEW x \in MySymbols, Tick(x)
      PROVE  TypeOK'
  BY <1>6 DEF Tick, TypeOK, Crashes
<1>7. ASSUME NEW s \in Sides, FrontConnected(s)
      PROVE  TypeOK'
  <2>1. front' \in [Sides -> Fronts]
    BY <1>7 DEF FrontConnected, TypeOK, Fronts
  <2>2. events' \in Seq(Events)
    BY <1>7, PostType DEF FrontConnected, Post, Statuses
  <2>3. QED
    BY <1>7, <2>1, <2>2 DEF FrontConnected, TypeOK
<1>8. ASSUME NEW s \in Sides, FrontDisconnected(s)
      PROVE  TypeOK'
  <2>1. front' \in [Sides -> Fronts] /\ query' \in Queries
    BY <1>8 DEF FrontDisconnected, TypeOK, Fronts, Hung, NoQuery, Queries
  <2>2. events' \in Seq(Events)
    BY <1>8, PostType DEF FrontDisconnected, Post, Statuses
  <2>3. used' \in [Bounds -> Nat]
    BY <1>8, SpendType DEF FrontDisconnected, Bounds
  <2>4. QED
    BY <1>8, <2>1, <2>2, <2>3 DEF FrontDisconnected, TypeOK
<1>9. ASSUME NEW s \in Sides, NEW fn \in {"login", "logout"}, NEW up \in BOOLEAN,
             NEW what \in Statuses, Answered(s, fn, up), Post(s, what),
             used' \in [Bounds -> Nat]
      PROVE  TypeOK'
  <2>1. front' \in [Sides -> Fronts]
    <3>1. front[s] \in Fronts  BY DEF TypeOK
    <3>2. [front[s] EXCEPT !.asked = @ \ {fn}, !.session = up] \in Fronts
      BY <1>9, <3>1 DEF Fronts
    <3>3. front' = [front EXCEPT ![s] =
                      [front[s] EXCEPT !.asked = @ \ {fn}, !.session = up]]
      BY <1>9 DEF Answered, TypeOK, Fronts
    <3>4. QED  BY <3>2, <3>3 DEF TypeOK
  <2>2. events' \in Seq(Events)
    BY <1>9, PostType DEF Post
  <2>3. QED
    BY <1>9, <2>1, <2>2 DEF Answered, TypeOK
<1>10. ASSUME NEW s \in Sides, RspUserLogin(s)
       PROVE  TypeOK'
  BY <1>9, <1>10 DEF RspUserLogin, Statuses, TypeOK
<1>11. ASSUME NEW s \in Sides, RspUserLoginError(s)
       PROVE  TypeOK'
  <2>1. used' \in [Bounds -> Nat]
    BY <1>11, SpendType DEF RspUserLoginError, Bounds
  <2>2. QED  BY <1>9, <1>11, <2>1 DEF RspUserLoginError, Statuses
<1>12. CASE RspUserLogout
  BY <1>9, <1>12 DEF RspUserLogout, Statuses, Sides, TypeOK
<1>13. CASE RspUserLogoutError
  <2>1. used' \in [Bounds -> Nat]
    BY <1>13, SpendType DEF RspUserLogoutError, Bounds
  <2>2. QED  BY <1>9, <1>13, <2>1 DEF RspUserLogoutError, Statuses, Sides
<1>14. QED
  BY <1>1, <1>3, <1>4, <1>5, <1>6, <1>7, <1>8, <1>10, <1>11, <1>12, <1>13
     DEF Environment, FrontsAnswer

\* The state of the gateway, of the fronts and of the queues keeps its type.
THEOREM TypeCorrect == Spec => []TypeOK
<1>1. Init => TypeOK
  BY DEF Init, TypeOK, Hung, Fronts, NoQuery, Queries, Crashes
<1>2. TypeOK /\ [Next]_vars => TypeOK'
  <2> SUFFICES ASSUME TypeOK, [Next]_vars PROVE TypeOK'
    OBVIOUS
  <2>1. CASE Next
    BY <2>1, UserTypes, BlogicTypes, TimerTypes, EnvironmentTypes DEF Next
  <2>2. CASE UNCHANGED vars
    BY <2>2 DEF vars, gatewayVars, dataVars, frontVars, TypeOK
  <2>3. QED  BY <2>1, <2>2
<1>3. QED  BY <1>1, <1>2, PTL DEF Spec

-----------------------------------------------------------------------------
(* The inductive invariant *)

LEMMA LiveDef == TdCommandsLive <=> AllLive(cmds, sm["td"])
  BY DEF TdCommandsLive, AllLive

LEMMA LiveDefNext == TdCommandsLive' <=> AllLive(cmds', sm'["td"])
  BY DEF TdCommandsLive, AllLive

\* What stopping objects does to the flags and to the command queue.
LEMMA StopEffect ==
  ASSUME IInv, NEW S \in SUBSET Sides, StopObjects(S)
  PROVE  /\ \A s \in Sides : sm'[s] = (IF s \in S THEN 0 ELSE sm[s])
         /\ LoginedAlive' /\ TdCommandsLive'
<1> USE DEF IInv
<1>1. \A s \in Sides : sm'[s] = (IF s \in S THEN 0 ELSE sm[s])
  BY DEF StopObjects, FreeObjects
<1>2. LoginedAlive'
  BY DEF StopObjects, FreeObjects, LoginedAlive, TypeOK
<1>3. CASE "td" \in S
  <2>1. cmds' = <<>>  BY <1>3 DEF StopObjects
  <2>2. TdCommandsLive'  BY <2>1 DEF TdCommandsLive
  <2>3. QED  BY <1>1, <1>2, <2>2
<1>4. CASE "td" \notin S
  <2>1. cmds' = cmds /\ sm'["td"] = sm["td"]
    BY <1>1, <1>4 DEF StopObjects, Sides
  <2>2. TdCommandsLive'  BY <2>1 DEF TdCommandsLive, IInv
  <2>3. QED  BY <1>1, <1>2, <2>2
<1>5. QED  BY <1>3, <1>4

\* A handler that stops the one object whose automatic login is off.
LEMMA StopOne ==
  ASSUME IInv, NEW s \in Sides, StopObjects({s}), UNCHANGED autoLogin,
         ~autoLogin[s] \/ s = "td"
  PROVE  TdCommandsLive' /\ StopOrder' /\ LoginedAlive'
<1>1. \A z \in Sides : sm'[z] = (IF z = s THEN 0 ELSE sm[z])
  BY StopEffect
<1>2. StopOrder'
  BY <1>1 DEF IInv, StopOrder, Sides, TypeOK
<1>3. QED  BY <1>2, StopEffect

\* A handler that keeps both objects and appends a command of a live one.
LEMMA AppendStep ==
  ASSUME IInv, UNCHANGED <<sm, autoLogin>>, LoginedAlive', NEW s \in Sides,
         sm[s] # 0, NEW fn \in {"login", "instruments", "request", "logout"},
         cmds' = Append(cmds, Cmd(fn, s, {}))
  PROVE  TdCommandsLive' /\ StopOrder' /\ LoginedAlive'
<1>1. StopOrder'  BY DEF IInv, StopOrder
<1>2. /\ Cmd(fn, s, {}) \in Commands
      /\ Cmd(fn, s, {}).side = s /\ Cmd(fn, s, {}).on = sm[s]
  BY CmdType DEF IInv
<1>3. AllLive(cmds', sm["td"])
  BY <1>2, AppendLive, LiveDef DEF IInv, TypeOK, Sides
<1>4. QED  BY <1>1, <1>3, LiveDefNext

LEMMA BlogicInv ==
  ASSUME IInv, BlogicTakes
  PROVE  TdCommandsLive' /\ StopOrder' /\ LoginedAlive'
<1> USE DEF IInv, gatewayVars, dataVars, frontVars, LoginCmd, SubscribeCmd, LogoutCmd,
           InstrumentsCmd, RequestCmd
<1>1. CASE OnStart
  <2>1. NewObject \in Nat /\ NewObject # 0
    BY DEF NewObject, TypeOK, Bounds
  <2>2. sm'["md"] = NewObject /\ sm'["td"] = NewObject /\ autoLogin'["md"] /\ autoLogin'["td"]
    BY <1>1 DEF OnStart, Sides
  <2>3. StopOrder'
    BY <2>1, <2>2 DEF StopOrder
  <2>4. LoginedAlive'
    BY <1>1, <2>1, <2>2 DEF OnStart, StartAllowed, LoginedAlive, Sides
  <2>5. TdCommandsLive'
    BY <1>1 DEF OnStart, StartAllowed, TdCommandsLive
  <2>6. QED  BY <2>3, <2>4, <2>5
<1>2. CASE OnStartRefused
  BY <1>2 DEF OnStartRefused, TdCommandsLive, StopOrder, LoginedAlive
<1>3. CASE OnStop
  <2> DEFINE S == {s \in Sides : sm[s] # 0}
  <2>1. StopObjects(S)  BY <1>3 DEF OnStop
  <2>2. \A s \in Sides : sm'[s] = 0  BY <2>1, StopEffect
  <2>3. StopOrder'  BY <2>2 DEF StopOrder, Sides
  <2>4. QED  BY <2>1, <2>3, StopEffect
<1>4. ASSUME NEW r \in Results, OnStopLogout(r)
      PROVE  TdCommandsLive' /\ StopOrder' /\ LoginedAlive'
  <2> DEFINE c == Cmd("logout", "td", {})
  <2>1. sm["td"] # 0
    BY <1>4 DEF OnStopLogout, LoginedAlive, Sides
  <2>2. sm'["md"] = 0 /\ sm'["td"] = sm["td"] /\ ~autoLogin'["td"]
    BY <1>4, <2>1 DEF OnStopLogout, AutoLoginAfterStop, TypeOK, Sides
  <2>3. c \in Commands /\ c.on = sm["td"]
    BY CmdType DEF Sides
  <2>4. sm["td"] \in Nat /\ cmds \in Seq(Commands)
    BY DEF TypeOK, Sides
  <2>5. AllLive(Queued(cmds, c, r), sm["td"])
    BY <2>1, <2>3, <2>4, QueuedLive, LiveDef
  <2>6. cmds' = Queued(cmds, c, r)
    BY <1>4 DEF OnStopLogout
  <2>7. TdCommandsLive'
    BY <2>2, <2>5, <2>6, LiveDefNext
  <2>8. LoginedAlive'
    BY <1>4, <2>1, <2>2 DEF OnStopLogout, LoginedAlive, TypeOK, Sides
  <2>9. StopOrder'  BY <2>2 DEF StopOrder
  <2>10. QED  BY <2>7, <2>8, <2>9
<1>5. ASSUME NEW r \in Results, OnRequest(r)
      PROVE  TdCommandsLive' /\ StopOrder' /\ LoginedAlive'
  <2> DEFINE c == Cmd("request", "td", {})
  <2>1. StopOrder' /\ LoginedAlive' /\ sm' = sm
    BY <1>5 DEF OnRequest, StopOrder, LoginedAlive
  <2>2. CASE sm["td"] = 0
    BY <1>5, <2>1, <2>2 DEF OnRequest, TdCommandsLive
  <2>3. CASE sm["td"] # 0
    <3>1. c \in Commands /\ c.on = sm["td"]  BY CmdType DEF Sides
    <3>2. sm["td"] \in Nat /\ cmds \in Seq(Commands)  BY DEF TypeOK, Sides
    <3>3. AllLive(Queued(cmds, c, r), sm["td"])
      BY <2>3, <3>1, <3>2, QueuedLive, LiveDef
    <3>4. cmds' = Queued(cmds, c, r)  BY <1>5, <2>3 DEF OnRequest
    <3>5. QED  BY <2>1, <3>3, <3>4, LiveDefNext
  <2>4. QED  BY <2>2, <2>3
<1>6. ASSUME NEW s \in Sides, OnStatusIgnored(s)
      PROVE  TdCommandsLive' /\ StopOrder' /\ LoginedAlive'
  BY <1>6 DEF OnStatusIgnored, TdCommandsLive, StopOrder, LoginedAlive
<1>7. ASSUME NEW s \in Sides, OnConnected(s)
      PROVE  TdCommandsLive' /\ StopOrder' /\ LoginedAlive'
  <2>1. CASE autoLogin[s]
    <3>1. LoginedAlive'
      BY <1>7, <2>1 DEF OnConnected, LoginedAlive, TypeOK
    <3>2. QED
      BY <1>7, <2>1, <3>1, AppendStep DEF OnConnected
  <2>2. CASE ~autoLogin[s]
    BY <1>7, <2>2, StopOne DEF OnConnected
  <2>3. QED  BY <2>1, <2>2
<1>8. ASSUME NEW s \in Sides, OnDisconnected(s)
      PROVE  TdCommandsLive' /\ StopOrder' /\ LoginedAlive'
  <2>1. CASE autoLogin[s]
    <3>1. LoginedAlive' /\ StopOrder'
      BY <1>8, <2>1 DEF OnDisconnected, LoginedAlive, StopOrder, TypeOK
    <3>2. cmds' = <<>> \/ cmds' = cmds
      BY <1>8, <2>1 DEF OnDisconnected
    <3>3. QED
      BY <1>8, <2>1, <3>1, <3>2 DEF OnDisconnected, TdCommandsLive
  <2>2. CASE ~autoLogin[s]
    BY <1>8, <2>2, StopOne DEF OnDisconnected
  <2>3. QED  BY <2>1, <2>2
<1>9. ASSUME NEW s \in Sides, OnLogined(s)
      PROVE  TdCommandsLive' /\ StopOrder' /\ LoginedAlive'
  <2>1. LoginedAlive' /\ StopOrder' /\ UNCHANGED <<sm, autoLogin>> /\ sm["td"] # 0
    BY <1>9 DEF OnLogined, LoginedAlive, StopOrder, TypeOK
  <2>2. CASE logined[Other(s)]
    BY <1>9, <2>1, <2>2, AppendStep DEF OnLogined, Sides
  <2>3. CASE ~logined[Other(s)]
    BY <1>9, <2>1, <2>3 DEF OnLogined, TdCommandsLive
  <2>4. QED  BY <2>2, <2>3
<1>10. ASSUME NEW s \in Sides, OnLoginFail(s)
       PROVE  TdCommandsLive' /\ StopOrder' /\ LoginedAlive'
  <2>1. CASE autoLogin[s]
    <3>1. LoginedAlive'
      BY <1>10, <2>1 DEF OnLoginFail, LoginedAlive
    <3>2. QED
      BY <1>10, <2>1, <3>1, AppendStep DEF OnLoginFail
  <2>2. CASE ~autoLogin[s]
    BY <1>10, <2>2, StopOne DEF OnLoginFail
  <2>3. QED  BY <2>1, <2>2
<1>11. CASE OnLoginedRestart
  <2>1. NewObject \in Nat /\ NewObject # 0
    BY DEF NewObject, TypeOK, Bounds
  <2>2. /\ sm'["md"] = sm["md"] /\ sm'["td"] = NewObject
        /\ autoLogin'["md"] = autoLogin["md"] /\ autoLogin'["td"]
    BY <1>11 DEF OnLoginedRestart, TypeOK, Sides
  <2>3. StopOrder'
    BY <1>11, <2>1, <2>2 DEF OnLoginedRestart, StopOrder
  <2>4. LoginedAlive'
    BY <1>11, <2>1, <2>2 DEF OnLoginedRestart, LoginedAlive, Sides
  <2>5. TdCommandsLive'
    BY <1>11 DEF OnLoginedRestart, TdCommandsLive
  <2>6. QED  BY <2>3, <2>4, <2>5
<1>12. CASE OnLogouted
  BY <1>12, StopOne DEF OnLogouted, Sides
<1>13. ASSUME NEW r1 \in Results, NEW r2 \in Results, OnGotContracts(r1, r2)
       PROVE  TdCommandsLive' /\ StopOrder' /\ LoginedAlive'
  <2> DEFINE sub == Cmd("subscribe", "md", Head(events).syms)
             conf == Cmd("request", "td", {})
  <2>1. StopOrder' /\ LoginedAlive' /\ sm' = sm
    BY <1>13 DEF OnGotContracts, StopOrder, LoginedAlive
  <2>2. CASE sm["md"] = 0 \/ sm["td"] = 0
    BY <1>13, <2>1, <2>2 DEF OnGotContracts, TdCommandsLive
  <2>3. CASE ~(sm["md"] = 0 \/ sm["td"] = 0)
    <3>1. Head(events).syms \in SUBSET MySymbols
      BY <1>13, TakeType DEF OnGotContracts, Take, Events, Sides
    <3>2. sub \in Commands /\ sub.side = "md" /\ conf \in Commands /\ conf.on = sm["td"]
      BY <3>1, CmdType DEF Sides
    <3>3. sm["td"] \in Nat /\ cmds \in Seq(Commands)  BY DEF TypeOK, Sides
    <3>4. Queued(cmds, sub, r1) \in Seq(Commands) /\ AllLive(Queued(cmds, sub, r1), sm["td"])
      BY <3>2, <3>3, QueuedLive, LiveDef
    <3>5. AllLive(Queued(Queued(cmds, sub, r1), conf, r2), sm["td"])
      BY <2>3, <3>2, <3>3, <3>4, QueuedLive
    <3>6. cmds' = Queued(Queued(cmds, sub, r1), conf, r2)
      BY <1>13, <2>3 DEF OnGotContracts
    <3>7. QED  BY <2>1, <3>5, <3>6, LiveDefNext
  <2>4. QED  BY <2>2, <2>3
<1>14. QED
  BY <1>1, <1>2, <1>3, <1>4, <1>5, <1>6, <1>7, <1>8, <1>9, <1>10, <1>11, <1>12, <1>13
     DEF BlogicTakes

\* The user, the timer and the fronts leave the objects and the flags alone; the
\* timer only consumes the head of the queue.
LEMMA OthersInv ==
  ASSUME IInv, User \/ Timer \/ Environment
  PROVE  /\ UNCHANGED <<sm, logined, autoLogin>>
         /\ cmds' = cmds \/ (cmds # <<>> /\ cmds' = Tail(cmds))
<1> USE DEF gatewayVars, dataVars, frontVars
<1>1. CASE User
  BY <1>1 DEF User, ClickStart, ClickStop, ClickRequest
<1>2. CASE Timer
  BY <1>2 DEF Timer, RunCmdCrash, RunCmd, CmdsAfterRun
<1>3. CASE Environment
  <2>1. CASE FrontsAnswer
    BY <2>1 DEF FrontsAnswer, FrontConnected, RspUserLogin, RspUserLoginError,
                RspUserLogout, RspUserLogoutError, Answered, RspInstrument,
                RspInstrumentLast, RspInstrumentError, QueryEnds, RspError
  <2>2. QED
    BY <1>3, <2>1 DEF Environment, FrontDisconnected, Tick
<1>4. QED  BY <1>1, <1>2, <1>3

\* IInv holds in every reachable state: trading commands are live, stops are
\* ordered and login flags belong to live objects.
THEOREM Inductive == Spec => []IInv
<1>1. Init => IInv
  BY DEF Init, IInv, TypeOK, TdCommandsLive, StopOrder, LoginedAlive,
         Hung, Fronts, NoQuery, Queries, Crashes, Sides
<1>2. IInv /\ TypeOK' /\ [Next]_vars => IInv'
  <2> SUFFICES ASSUME IInv, TypeOK', [Next]_vars
               PROVE  TdCommandsLive' /\ StopOrder' /\ LoginedAlive'
    BY DEF IInv
  <2>1. CASE BlogicTakes  BY <2>1, BlogicInv
  <2>2. CASE User \/ Timer \/ Environment
    <3>1. UNCHANGED <<sm, logined, autoLogin>>
      BY <2>2, OthersInv
    <3>2. AllLive(cmds', sm["td"])
      BY <2>2, OthersInv, LiveDef, TailLive DEF IInv, TypeOK, Sides
    <3>3. QED
      BY <3>1, <3>2, LiveDefNext DEF IInv, StopOrder, LoginedAlive
  <2>3. CASE UNCHANGED vars
    BY <2>3 DEF vars, gatewayVars, IInv, TdCommandsLive, StopOrder, LoginedAlive
  <2>4. QED  BY <2>1, <2>2, <2>3 DEF Next
<1>3. QED  BY <1>1, <1>2, TypeCorrect, PTL DEF Spec

\* No closure of a deleted or earlier TdSm is ever called.
THEOREM TdCommandsAlwaysLive == Spec => []TdCommandsLive
<1>1. IInv => TdCommandsLive  BY DEF IInv
<1>2. QED  BY <1>1, Inductive, PTL

\* A stop takes md down at once and is never revoked.
THEOREM StopAlwaysOrdered == Spec => []StopOrder
<1>1. IInv => StopOrder  BY DEF IInv
<1>2. QED  BY <1>1, Inductive, PTL

\* stop() and tryStartSubscrible never go through a null tdsm_.
THEOREM LoginedAlwaysAlive == Spec => []LoginedAlive
<1>1. IInv => LoginedAlive  BY DEF IInv
<1>2. QED  BY <1>1, Inductive, PTL

-----------------------------------------------------------------------------
(* The session implements SessionLifecycle *)

\* While the process lives, a step that keeps both objects keeps the phase, or
\* the process dies in it.
LEMMA SamePhase ==
  ASSUME Running, UNCHANGED sm
  PROVE  UNCHANGED Phase \/ Lifecycle!Die
<1>1. CASE Running'
  BY <1>1 DEF Phase
<1>2. CASE ~Running'
  BY <1>2 DEF Phase, Lifecycle!Die
<1>3. QED  BY <1>1, <1>2

\* A step that stops objects stops the running session or finishes the stop.
LEMMA StopPhase ==
  ASSUME IInv, Running, Running', NEW S \in SUBSET Sides,
         \A s \in Sides : sm'[s] = (IF s \in S THEN 0 ELSE sm[s])
  PROVE  UNCHANGED Phase \/ Lifecycle!Stop \/ Lifecycle!Finish
<1>1. /\ sm'["md"] = 0 \/ sm'["md"] = sm["md"]
      /\ sm'["td"] = 0 \/ sm'["td"] = sm["td"]
  BY DEF Sides
<1>2. CASE sm["md"] # 0 /\ sm'["md"] # 0
  BY <1>2 DEF Phase
<1>3. CASE sm["md"] # 0 /\ sm'["md"] = 0
  BY <1>3 DEF Phase, Lifecycle!Stop
<1>4. CASE sm["md"] = 0
  BY <1>1, <1>4 DEF Phase, Lifecycle!Finish
<1>5. QED  BY <1>2, <1>3, <1>4

LEMMA StopObjectsPhase ==
  ASSUME IInv, Running, NEW S \in SUBSET Sides, StopObjects(S)
  PROVE  UNCHANGED Phase \/ Lifecycle!Stop \/ Lifecycle!Finish
<1>1. Running'  BY DEF StopObjects, FreeObjects, Running
<1>2. QED  BY <1>1, StopEffect, StopPhase

LEMMA LifecycleStep ==
  ASSUME IInv, Next
  PROVE  Lifecycle!Next \/ UNCHANGED Phase
<1> USE DEF gatewayVars, dataVars, frontVars
<1>1. Running
  BY DEF Next, User, ClickStart, ClickStop, ClickRequest, BlogicTakes, Take, OnStart,
         OnStartRefused, OnStop, OnStopLogout, OnRequest, OnStatusIgnored, OnConnected,
         OnDisconnected, OnLogined, OnLoginFail, OnLoginedRestart, OnLogouted,
         OnGotContracts, Timer, RunCmdCrash, RunCmd, Environment, FrontsAnswer,
         FrontConnected, RspUserLogin, RspUserLoginError, RspUserLogout,
         RspUserLogoutError, Answered, RspInstrument, RspInstrumentLast,
         RspInstrumentError, RspError, FrontDisconnected, Tick
<1>2. CASE User \/ Timer \/ Environment
  BY <1>1, <1>2, OthersInv, SamePhase DEF Lifecycle!Next
<1>3. CASE OnStart
  <2>1. NewObject # 0 /\ sm'["md"] = NewObject /\ Running'
    BY <1>1, <1>3 DEF OnStart, NewObject, IInv, TypeOK, Bounds, Sides, Running
  <2>2. Lifecycle!Start
    BY <1>1, <1>3, <2>1 DEF OnStart, StartAllowed, Phase, Lifecycle!Start
  <2>3. QED  BY <2>2 DEF Lifecycle!Next
<1>4. CASE OnStartRefused
  BY <1>1, <1>4, SamePhase DEF OnStartRefused, Lifecycle!Next
<1>5. CASE OnStop
  BY <1>1, <1>5, StopObjectsPhase DEF OnStop, Lifecycle!Next
<1>6. ASSUME NEW r \in Results, OnStopLogout(r)
      PROVE  Lifecycle!Next \/ UNCHANGED Phase
  <2>1. Running' /\ \A s \in Sides : sm'[s] = (IF s \in {"md"} THEN 0 ELSE sm[s])
    BY <1>1, <1>6 DEF OnStopLogout, IInv, TypeOK, Running
  <2>2. QED
    BY <1>1, <2>1, StopPhase DEF Lifecycle!Next, Sides
<1>7. ASSUME NEW r \in Results, OnRequest(r)
      PROVE  Lifecycle!Next \/ UNCHANGED Phase
  BY <1>1, <1>7, SamePhase DEF OnRequest, Lifecycle!Next
<1>8. ASSUME NEW s \in Sides, OnStatusIgnored(s)
      PROVE  Lifecycle!Next \/ UNCHANGED Phase
  BY <1>1, <1>8, SamePhase DEF OnStatusIgnored, Lifecycle!Next
<1>9. ASSUME NEW s \in Sides, OnConnected(s) \/ OnDisconnected(s) \/ OnLoginFail(s)
      PROVE  Lifecycle!Next \/ UNCHANGED Phase
  <2>1. CASE autoLogin[s]
    <3>1. UNCHANGED sm
      BY <1>9, <2>1 DEF OnConnected, OnDisconnected, OnLoginFail
    <3>2. QED  BY <1>1, <3>1, SamePhase DEF Lifecycle!Next
  <2>2. CASE ~autoLogin[s]
    <3>1. StopObjects({s})
      BY <1>9, <2>2 DEF OnConnected, OnDisconnected, OnLoginFail
    <3>2. QED  BY <1>1, <3>1, StopObjectsPhase DEF Lifecycle!Next
  <2>3. QED  BY <2>1, <2>2
<1>10. ASSUME NEW s \in Sides, OnLogined(s)
       PROVE  Lifecycle!Next \/ UNCHANGED Phase
  BY <1>1, <1>10, SamePhase DEF OnLogined, Lifecycle!Next
<1>11. CASE OnLoginedRestart
  <2>1. sm'["md"] = sm["md"] /\ Running'
    BY <1>1, <1>11 DEF OnLoginedRestart, IInv, TypeOK, Sides, Running
  <2>2. QED
    BY <1>1, <1>11, <2>1 DEF OnLoginedRestart, Phase
<1>12. CASE OnLogouted
  BY <1>1, <1>12, StopObjectsPhase DEF OnLogouted, Lifecycle!Next, Sides
<1>13. ASSUME NEW r1 \in Results, NEW r2 \in Results, OnGotContracts(r1, r2)
       PROVE  Lifecycle!Next \/ UNCHANGED Phase
  BY <1>1, <1>13, SamePhase DEF OnGotContracts, Lifecycle!Next
<1>14. QED
  BY <1>2, <1>3, <1>4, <1>5, <1>6, <1>7, <1>8, <1>9, <1>10, <1>11, <1>12, <1>13
     DEF Next, BlogicTakes

\* Every behaviour of the gateway is one that SessionLifecycle allows.
THEOREM LifecycleImplemented == Spec => ImplementsLifecycleSteps
<1>1. Init => Lifecycle!Init
  BY DEF Init, Phase, Running, Sides, Lifecycle!Init
<1>2. IInv /\ [Next]_vars => [Lifecycle!Next]_Phase
  <2>1. ASSUME UNCHANGED vars PROVE UNCHANGED Phase
    BY <2>1 DEF vars, gatewayVars, Phase, Running
  <2>2. QED  BY <2>1, LifecycleStep
<1>3. QED
  BY <1>1, <1>2, Inductive, PTL DEF Spec, ImplementsLifecycleSteps, Lifecycle!Spec
-----------------------------------------------------------------------------
(* Reloads: while a query is being answered, what it has not listed yet is not there, and no
   ring buffer is. *)

Reloading ==
  query.busy => contracts \cap query.left = {} /\ \A x \in MySymbols : rbs[x] = "none"

LEMMA ReloadingKept ==
  ASSUME Reloading, ReloadClean, UNCHANGED <<contracts, rbs>>, query' \in {query, NoQuery},
         crash' \notin {"oldContract", "oldRingBuffers"}
  PROVE  Reloading' /\ ReloadClean'
  BY DEF Reloading, ReloadClean, NoQuery

LEMMA ReloadStep ==
  ASSUME TypeOK, Reloading, ReloadClean, [Next]_vars
  PROVE  Reloading' /\ ReloadClean'
<1>1. CASE User \/ BlogicTakes \/ RunCmdCrash \/ UNCHANGED vars
  <2>1. UNCHANGED <<contracts, rbs>> /\ query' \in {query, NoQuery}
        /\ crash' \in {crash, "freedObject"}
    BY <1>1 DEF User, ClickStart, ClickStop, ClickRequest, BlogicTakes, OnStart, OnStartRefused,
         OnStop, OnStopLogout, OnRequest, OnStatusIgnored, OnConnected, OnDisconnected, OnLogined,
         OnLoginFail, OnLoginedRestart, OnLogouted, OnGotContracts, RunCmdCrash, StopObjects,
         FreeObjects, vars, gatewayVars, dataVars, frontVars
  <2>2. QED  BY <2>1, ReloadingKept DEF ReloadClean
<1>2. ASSUME NEW r \in Results, RunCmd(r)
      PROVE  Reloading' /\ ReloadClean'
  <2>1. UNCHANGED crash
    BY <1>2 DEF RunCmd
  <2>2. CASE Head(cmds).fn = "instruments"
    <3>1. contracts' = {} /\ rbs' = [x \in MySymbols |-> "none"]
      BY <1>2, <2>2 DEF RunCmd, ResetData, FreeContracts, FreeRingBuffer
    <3>2. QED  BY <2>1, <3>1 DEF Reloading, ReloadClean
  <2>3. CASE Head(cmds).fn # "instruments"
    <3>1. UNCHANGED <<contracts, rbs, query>>
      BY <1>2, <2>3 DEF RunCmd, ResetData, QueryAfter
    <3>2. QED  BY <2>1, <3>1 DEF Reloading, ReloadClean
  <2>4. QED  BY <2>2, <2>3
<1>3. ASSUME NEW x \in Symbols, RspInstrument(x)
      PROVE  Reloading' /\ ReloadClean'
  <2>1. query.busy /\ x \in query.left /\ x \notin contracts
    BY <1>3 DEF RspInstrument, Reloading
  <2>2. /\ contracts' = contracts \cup {x} /\ UNCHANGED <<rbs, crash>>
        /\ query' = [query EXCEPT !.left = @ \ {x}]
    BY <1>3, <2>1 DEF RspInstrument
  <2>3. query'.busy = query.busy /\ query'.left = query.left \ {x}
    BY <2>2 DEF TypeOK, Queries
  <2>4. QED  BY <2>1, <2>2, <2>3 DEF Reloading, ReloadClean
<1>4. CASE RspInstrumentLast \/ RspInstrumentError
  <2>1. query.busy /\ QueryEnds
    BY <1>4 DEF RspInstrumentLast, RspInstrumentError
  <2>2. \A x \in MySymbols : rbs[x] = "none"
    BY <2>1 DEF Reloading
  <2>3. UNCHANGED crash /\ query' = NoQuery
    BY <2>1, <2>2 DEF QueryEnds
  <2>4. QED  BY <2>3 DEF Reloading, ReloadClean, NoQuery
<1>5. ASSUME NEW x \in MySymbols, Tick(x)
      PROVE  Reloading' /\ ReloadClean'
  <2>1. UNCHANGED <<contracts, query>> /\ crash' \in {crash, "noRingBuffer"}
        /\ (rbs[x] = "none" => UNCHANGED rbs)
    BY <1>5 DEF Tick, frontVars
  <2>2. QED  BY <2>1 DEF Reloading, ReloadClean
<1>6. CASE RspError \/ \E s \in Sides : \/ FrontConnected(s) \/ RspUserLogin(s) \/ RspUserLoginError(s)
                                        \/ FrontDisconnected(s)
  <2>1. UNCHANGED <<contracts, rbs, crash>> /\ query' \in {query, NoQuery}
    BY <1>6 DEF RspError, FrontConnected, RspUserLogin, RspUserLoginError, FrontDisconnected, Answered,
                dataVars
  <2>2. QED  BY <2>1, ReloadingKept DEF ReloadClean
<1>7. CASE RspUserLogout \/ RspUserLogoutError
  <2>1. UNCHANGED <<contracts, rbs, crash, query>>
    BY <1>7 DEF RspUserLogout, RspUserLogoutError, Answered, dataVars
  <2>2. QED  BY <2>1, ReloadingKept DEF ReloadClean
<1>8. QED  BY <1>1, <1>2, <1>3, <1>4, <1>5, <1>6, <1>7 DEF Next, Timer, Environment, FrontsAnswer

\* An answer never meets contracts or ring buffers of an earlier one, however queries, relogins
\* and late answers overlap: ReloadClean is an invariant.
THEOREM ReloadsAlwaysClean == Spec => []ReloadClean
<1>1. Init => Reloading /\ ReloadClean
  BY DEF Init, Reloading, ReloadClean, NoQuery
<1>2. TypeOK /\ Reloading /\ ReloadClean /\ [Next]_vars => (Reloading /\ ReloadClean)'
  BY ReloadStep
<1>3. QED  BY <1>1, <1>2, TypeCorrect, PTL DEF Spec

-----------------------------------------------------------------------------
(* Stops.  What ends a stop is its logout, from the queue to its answer, or a signal that the
   link broke or came back. *)

HasCmd(q, fn) == \E i \in DOMAIN q : q[i].side = "td" /\ q[i].fn = fn
HasEvent(q, kinds) == \E i \in DOMAIN q : q[i].src = "td" /\ q[i].what \in kinds
Ends == {"logouted", "logoutFail", "connected", "disconnected"}
StopOnWay ==
  Running /\ sm["td"] # 0 /\ ~autoLogin["td"] =>
    \/ HasCmd(cmds, "logout") \/ "logout" \in front["td"].asked
    \/ HasEvent(events, Ends) \/ ~front["td"].link

LEMMA AppendKeeps ==
  ASSUME NEW S, NEW q \in Seq(S), NEW e
  PROVE  /\ \A i \in DOMAIN q : i \in DOMAIN Append(q, e) /\ Append(q, e)[i] = q[i]
         /\ Len(q) + 1 \in DOMAIN Append(q, e) /\ Append(q, e)[Len(q) + 1] = e
  OBVIOUS

LEMMA TailKeeps ==
  ASSUME NEW S, NEW q \in Seq(S), q # <<>>, NEW i \in DOMAIN q
  PROVE  q[i] = Head(q) \/ \E j \in DOMAIN Tail(q) : Tail(q)[j] = q[i]
<1>1. i = 1 \/ (i - 1 \in DOMAIN Tail(q) /\ Tail(q)[i - 1] = q[i])
  OBVIOUS
<1>2. QED  BY <1>1

LEMMA HasCmdAppend ==
  ASSUME NEW q \in Seq(Commands), NEW e, NEW fn
  PROVE  /\ HasCmd(q, fn) => HasCmd(Append(q, e), fn)
         /\ e.side = "td" /\ e.fn = fn => HasCmd(Append(q, e), fn)
  BY AppendKeeps DEF HasCmd

LEMMA HasCmdTail ==
  ASSUME NEW q \in Seq(Commands), q # <<>>, NEW fn, HasCmd(q, fn)
  PROVE  HasCmd(Tail(q), fn) \/ (Head(q).side = "td" /\ Head(q).fn = fn)
  BY TailKeeps DEF HasCmd

LEMMA HasEventAppend ==
  ASSUME NEW q \in Seq(Events), NEW e, NEW kinds
  PROVE  /\ HasEvent(q, kinds) => HasEvent(Append(q, e), kinds)
         /\ e.src = "td" /\ e.what \in kinds => HasEvent(Append(q, e), kinds)
  BY AppendKeeps DEF HasEvent

LEMMA HasEventTail ==
  ASSUME NEW q \in Seq(Events), q # <<>>, NEW kinds, HasEvent(q, kinds)
  PROVE  HasEvent(Tail(q), kinds) \/ (Head(q).src = "td" /\ Head(q).what \in kinds)
  BY TailKeeps DEF HasEvent

\* The signals of TdSm that a login or a stop can hang on.
Signals == Ends \cup {"loginFail"}
IsSignal(e, kinds) == e.src = "td" /\ e.what \in kinds
TakesEvent == events # <<>> /\ events' = Tail(events)

\* A step that leaves the trading side alone.
EventsKept ==
  \/ UNCHANGED events
  \/ \E e : events' = Append(events, e) /\ ~ IsSignal(e, Signals)
  \/ TakesEvent /\ ~ IsSignal(Head(events), Signals)
CmdsKept ==
  /\ \A fn : HasCmd(cmds, fn) => HasCmd(cmds', fn)
  /\ HasCmd(cmds', "logout") => HasCmd(cmds, "logout")
TdKept ==
  /\ sm'["td"] = sm["td"] /\ autoLogin'["td"] = autoLogin["td"] /\ front'["td"] = front["td"]
  /\ CmdsKept /\ EventsKept
\* Its object is made, deleted, or it is gone and a signal of it is thrown away.
TdMade ==
  /\ sm["td"] = 0 /\ autoLogin'["td"] /\ UNCHANGED <<cmds, front>> /\ EventsKept
TdGone == sm'["td"] = 0 /\ front'["td"] = Hung /\ cmds' = <<>> /\ TakesEvent
TdIgnores ==
  sm["td"] = 0 /\ UNCHANGED <<sm, autoLogin, front, cmds>> /\ TakesEvent
\* Its signal leads to a login, or throws away what was queued.
TdRelogins ==
  /\ sm["td"] # 0 /\ autoLogin["td"] /\ UNCHANGED <<sm, autoLogin, front>> /\ TakesEvent
  /\ \/ /\ IsSignal(Head(events), {"connected", "loginFail"})
        /\ cmds' = Append(cmds, LoginCmd("td"))
     \/ IsSignal(Head(events), {"disconnected"}) /\ cmds' = <<>>
\* Its front.
TdFront ==
  \/ FrontConnected("td") \/ FrontDisconnected("td") \/ RspUserLogin("td") \/ RspUserLoginError("td")
  \/ RspUserLogout \/ RspUserLogoutError

LEMMA HasCmdAdded ==
  ASSUME NEW q \in Seq(Commands), NEW e, ~ (e.side = "td" /\ e.fn = "logout"), NEW r
  PROVE  /\ HasCmd(Append(q, e), "logout") => HasCmd(q, "logout")
         /\ HasCmd(Queued(q, e, r), "logout") => HasCmd(q, "logout")
         /\ \A fn : HasCmd(q, fn) => HasCmd(Queued(q, e, r), fn)
<1>1. HasCmd(Append(q, e), "logout") => HasCmd(q, "logout")
  <2>1. \A i \in DOMAIN Append(q, e) : Append(q, e)[i] = e \/ (i \in DOMAIN q /\ Append(q, e)[i] = q[i])
    OBVIOUS
  <2>2. QED  BY <2>1 DEF HasCmd
<1>2. QED  BY <1>1, HasCmdAppend DEF Queued

LEMMA CmdsKeptAppend ==
  ASSUME TypeOK, NEW e, ~ (e.side = "td" /\ e.fn = "logout"),
         cmds' = cmds \/ cmds' = Append(cmds, e) \/ \E r : cmds' = Queued(cmds, e, r)
  PROVE  CmdsKept
<1>1. cmds \in Seq(Commands)
  BY DEF TypeOK
<1>2. CASE cmds' = cmds
  BY <1>2 DEF CmdsKept
<1>3. CASE cmds' = Append(cmds, e)
  BY <1>1, <1>3, HasCmdAppend, HasCmdAdded DEF CmdsKept
<1>4. ASSUME NEW r, cmds' = Queued(cmds, e, r)
      PROVE  CmdsKept
  BY <1>1, <1>4, HasCmdAdded DEF CmdsKept
<1>5. QED  BY <1>2, <1>3, <1>4

\* Stopping objects, for the trading side.
LEMMA TdStopped ==
  ASSUME TypeOK, NEW S \in SUBSET Sides, StopObjects(S)
  PROVE  /\ "td" \in S => sm'["td"] = 0 /\ front'["td"] = Hung /\ cmds' = <<>>
         /\ "td" \notin S => sm'["td"] = sm["td"] /\ front'["td"] = front["td"] /\ cmds' = cmds
  BY DEF StopObjects, FreeObjects, Sides, TypeOK

LEMMA SidesAre == Sides = {"md", "td"}
  BY DEF Sides

LEMMA TdOfBlogic ==
  ASSUME IInv, BlogicTakes, Running'
  PROVE  TdKept \/ TdMade \/ TdGone \/ TdIgnores \/ TdRelogins \/ \E r \in Results : OnStopLogout(r)
<1> USE DEF IInv, gatewayVars, dataVars, frontVars
<1>1. TypeOK /\ TakesEvent
  BY DEF BlogicTakes, OnStart, OnStartRefused, OnStop, OnStopLogout, OnRequest, OnStatusIgnored,
         OnConnected, OnDisconnected, OnLogined, OnLoginFail, OnLoginedRestart, OnLogouted,
         OnGotContracts, Take, TakesEvent
<1>2. CASE OnStart \/ OnLoginedRestart
  <2>1. sm["td"] = 0 /\ autoLogin'["td"] /\ UNCHANGED <<cmds, front>>
    BY <1>2, SidesAre DEF OnStart, OnLoginedRestart, StartAllowed, TypeOK
  <2>2. ~ IsSignal(Head(events), Signals)
    BY <1>2 DEF OnStart, OnLoginedRestart, Ev, IsSignal
  <2>3. QED  BY <1>1, <2>1, <2>2 DEF TdMade, EventsKept
<1>3. CASE OnStartRefused
  BY <1>1, <1>3 DEF OnStartRefused, Take, TdKept, CmdsKept, EventsKept, IsSignal
<1>4. CASE OnStop
  <2> DEFINE S == {s \in Sides : sm[s] # 0}
  <2>1. StopObjects(S) /\ autoLogin' = AutoLoginAfterStop /\ ~ IsSignal(Head(events), Signals)
    BY <1>4 DEF OnStop, Take, IsSignal
  <2>2. CASE sm["td"] # 0
    BY <1>1, <2>1, <2>2, TdStopped, SidesAre DEF TdGone
  <2>3. CASE sm["td"] = 0
    <3>1. autoLogin'["td"] = autoLogin["td"]
      BY <2>1, <2>3, SidesAre DEF AutoLoginAfterStop
    <3>2. QED  BY <1>1, <2>1, <2>3, <3>1, TdStopped DEF TdKept, CmdsKept, EventsKept
  <2>4. QED  BY <2>2, <2>3
<1>5. ASSUME NEW r \in Results, OnRequest(r)
      PROVE  TdKept
  <2>1. RequestCmd.fn = "request"
    BY DEF RequestCmd, Cmd
  <2>2. cmds' = cmds \/ cmds' = Queued(cmds, RequestCmd, r)
    BY <1>5 DEF OnRequest
  <2>3. CmdsKept
    BY <1>1, <2>1, <2>2, CmdsKeptAppend
  <2>4. QED  BY <1>1, <1>5, <2>3 DEF OnRequest, Take, TdKept, EventsKept, IsSignal
<1>6. ASSUME NEW s \in Sides, OnStatusIgnored(s)
      PROVE  TdKept \/ TdIgnores
  BY <1>1, <1>6, SidesAre DEF OnStatusIgnored, Take, TdKept, TdIgnores, CmdsKept, EventsKept, IsSignal
<1>7. ASSUME NEW s \in Sides, OnConnected(s) \/ OnLoginFail(s)
      PROVE  TdKept \/ TdGone \/ TdRelogins
  <2>1. sm[s] # 0 /\ UNCHANGED autoLogin /\ Head(events).src = s
        /\ Head(events).what \in {"connected", "loginFail"}
    BY <1>7 DEF OnConnected, OnLoginFail, Take
  <2>2. CASE autoLogin[s]
    <3>1. cmds' = Append(cmds, LoginCmd(s)) /\ UNCHANGED <<sm, front>>
      BY <1>7, <2>2 DEF OnConnected, OnLoginFail
    <3>2. CASE s = "td"
      BY <1>1, <2>1, <2>2, <3>1, <3>2 DEF TdRelogins, IsSignal
    <3>3. CASE s = "md"
      <4>1. LoginCmd(s).fn = "login"
        BY DEF LoginCmd, Cmd
      <4>2. CmdsKept
        BY <1>1, <3>1, <4>1, CmdsKeptAppend
      <4>3. QED  BY <1>1, <2>1, <3>1, <3>3, <4>2 DEF TdKept, EventsKept, IsSignal
    <3>4. QED  BY <3>2, <3>3, SidesAre
  <2>3. CASE ~ autoLogin[s]
    <3>1. StopObjects({s})
      BY <1>7, <2>3 DEF OnConnected, OnLoginFail
    <3>2. CASE s = "td"
      BY <1>1, <3>1, <3>2, TdStopped DEF TdGone
    <3>3. CASE s = "md"
      <4>1. ~ IsSignal(Head(events), Signals)
        BY <2>1, <3>3 DEF IsSignal
      <4>2. sm'["td"] = sm["td"] /\ front'["td"] = front["td"] /\ cmds' = cmds
        BY <1>1, <3>1, <3>3, TdStopped
      <4>3. QED  BY <1>1, <2>1, <4>1, <4>2 DEF TdKept, CmdsKept, EventsKept
    <3>4. QED  BY <3>2, <3>3, SidesAre
  <2>4. QED  BY <2>2, <2>3
<1>8. ASSUME NEW s \in Sides, OnDisconnected(s)
      PROVE  TdKept \/ TdGone \/ TdRelogins
  <2>1. sm[s] # 0 /\ UNCHANGED autoLogin /\ Head(events).src = s /\ Head(events).what = "disconnected"
    BY <1>8 DEF OnDisconnected, Take
  <2>2. CASE s = "md"
    <3>1. ~ IsSignal(Head(events), Signals)
      BY <2>1, <2>2 DEF IsSignal
    <3>2. sm'["td"] = sm["td"] /\ front'["td"] = front["td"] /\ cmds' = cmds
      BY <1>1, <1>8, <2>2, TdStopped DEF OnDisconnected
    <3>3. QED  BY <1>1, <2>1, <3>1, <3>2 DEF TdKept, CmdsKept, EventsKept
  <2>3. CASE s = "td" /\ autoLogin[s]
    BY <1>1, <1>8, <2>1, <2>3 DEF OnDisconnected, TdRelogins, IsSignal
  <2>4. CASE s = "td" /\ ~ autoLogin[s]
    BY <1>1, <1>8, <2>4, TdStopped DEF OnDisconnected, TdGone
  <2>5. QED  BY <2>2, <2>3, <2>4, SidesAre
<1>9. ASSUME NEW s \in Sides, OnLogined(s)
      PROVE  TdKept
  <2>1. InstrumentsCmd.fn = "instruments"
    BY DEF InstrumentsCmd, Cmd
  <2>2. cmds' = cmds \/ cmds' = Append(cmds, InstrumentsCmd)
    BY <1>9 DEF OnLogined
  <2>3. CmdsKept
    BY <1>1, <2>1, <2>2, CmdsKeptAppend
  <2>4. QED  BY <1>1, <1>9, <2>3 DEF OnLogined, Take, TdKept, EventsKept, IsSignal, Signals, Ends
<1>10. CASE OnLogouted
  BY <1>1, <1>10, TdStopped, SidesAre DEF OnLogouted, TdGone
<1>11. ASSUME NEW rSub \in Results, NEW rConf \in Results, OnGotContracts(rSub, rConf)
       PROVE  TdKept
  <2> DEFINE sub == SubscribeCmd(Head(events).syms)
  <2>1. cmds' = Queued(Queued(cmds, sub, rSub), RequestCmd, rConf)
    BY <1>11 DEF OnGotContracts, Running
  <2>2. sub.fn = "subscribe" /\ RequestCmd.fn = "request" /\ sub \in Commands
    <3>1. Head(events).syms \in SUBSET MySymbols
      BY <1>1, TakeType DEF TakesEvent, Events
    <3>2. sub \in Commands
      BY <1>1, <3>1, CmdType, SidesAre DEF SubscribeCmd
    <3>3. QED  BY <3>2 DEF SubscribeCmd, RequestCmd, Cmd
  <2> HIDE DEF sub
  <2>3. cmds \in Seq(Commands) /\ Queued(cmds, sub, rSub) \in Seq(Commands)
    BY <1>1, <2>2 DEF TypeOK, Queued
  <2>4. CmdsKept
    BY <2>1, <2>2, <2>3, HasCmdAdded DEF CmdsKept
  <2>5. QED  BY <1>1, <1>11, <2>4 DEF OnGotContracts, Take, TdKept, EventsKept, IsSignal
<1>12. QED
  BY <1>2, <1>3, <1>4, <1>5, <1>6, <1>7, <1>8, <1>9, <1>10, <1>11 DEF BlogicTakes

\* The user, and the fronts: a front's answer that is not the trading side's keeps it.
LEMMA TdOfOthers ==
  ASSUME IInv, User \/ Environment \/ UNCHANGED vars, Running'
  PROVE  TdKept \/ TdFront
<1> USE DEF gatewayVars, dataVars, frontVars
<1>1. CASE User
  <2>1. PICK what : events' = Append(events, Ev("ui", what))
    BY <1>1 DEF User, ClickStart, ClickStop, ClickRequest
  <2>2. ~ IsSignal(Ev("ui", what), Signals)
    BY DEF Ev, IsSignal
  <2>3. QED  BY <1>1, <2>1, <2>2 DEF User, ClickStart, ClickStop, ClickRequest, TdKept, CmdsKept, EventsKept
<1>2. CASE UNCHANGED vars
  BY <1>2 DEF vars, TdKept, CmdsKept, EventsKept
<1>3. CASE FrontConnected("md") \/ FrontDisconnected("md") \/ RspUserLogin("md") \/ RspUserLoginError("md")
  <2>1. front'["td"] = front["td"]
    <3>1. front \in [Sides -> Fronts] /\ "td" \in Sides
      BY SidesAre DEF IInv, TypeOK
    <3>2. PICK f : front' = [front EXCEPT !["md"] = f]
      <4>1. CASE FrontConnected("md") \/ FrontDisconnected("md")
        BY <4>1 DEF FrontConnected, FrontDisconnected
      <4>2. CASE RspUserLogin("md") \/ RspUserLoginError("md")
        <5>1. PICK up : Answered("md", "login", up)
          BY <4>2 DEF RspUserLogin, RspUserLoginError
        <5>2. QED  BY <5>1 DEF Answered
      <4>3. QED  BY <1>3, <4>1, <4>2
    <3>3. QED  BY <3>1, <3>2
  <2>2. PICK what : events' = Append(events, Ev("md", what))
    BY <1>3 DEF FrontConnected, FrontDisconnected, RspUserLogin, RspUserLoginError, Post
  <2>3. ~ IsSignal(Ev("md", what), Signals)
    BY DEF Ev, IsSignal
  <2>4. UNCHANGED <<sm, autoLogin, cmds>>
    BY <1>3 DEF FrontConnected, FrontDisconnected, RspUserLogin, RspUserLoginError, Answered
  <2>5. QED  BY <2>1, <2>2, <2>3, <2>4 DEF TdKept, CmdsKept, EventsKept
<1>4. CASE RspInstrumentLast \/ RspInstrumentError
  <2>1. events' = events \/ events' = Append(events, GotContracts)
    BY <1>4 DEF RspInstrumentLast, RspInstrumentError, QueryEnds
  <2>2. ~ IsSignal(GotContracts, Signals)
    BY DEF GotContracts, IsSignal
  <2>3. UNCHANGED <<sm, autoLogin, cmds, front>>
    BY <1>4 DEF RspInstrumentLast, RspInstrumentError, QueryEnds
  <2>4. QED  BY <2>1, <2>2, <2>3 DEF TdKept, CmdsKept, EventsKept
<1>5. CASE RspError \/ (\E x \in Symbols : RspInstrument(x)) \/ (\E x \in MySymbols : Tick(x))
  <2>1. UNCHANGED <<sm, autoLogin, cmds, front, events>>
    BY <1>5 DEF RspError, RspInstrument, Tick
  <2>2. QED  BY <2>1 DEF TdKept, CmdsKept, EventsKept
<1>6. QED
  BY <1>1, <1>2, <1>3, <1>4, <1>5, SidesAre DEF Environment, FrontsAnswer, TdFront

LEMMA TdSteps ==
  ASSUME IInv, [Next]_vars, Running'
  PROVE  \/ TdKept \/ TdMade \/ TdGone \/ TdIgnores \/ TdRelogins \/ TdFront
         \/ \E r \in Results : OnStopLogout(r) \/ RunCmd(r)
<1>1. ~ RunCmdCrash
  BY DEF RunCmdCrash, Running
<1>2. QED  BY <1>1, TdOfBlogic, TdOfOthers DEF Next, Timer

LEMMA EventsKeepSignals ==
  ASSUME TypeOK, EventsKept, NEW kinds \in SUBSET Signals, HasEvent(events, kinds)
  PROVE  HasEvent(events', kinds)
<1>1. events \in Seq(Events)
  BY DEF TypeOK
<1>2. CASE TakesEvent /\ ~ IsSignal(Head(events), Signals)
  <2>1. ~ (Head(events).src = "td" /\ Head(events).what \in kinds)
    BY <1>2 DEF IsSignal
  <2>2. QED  BY <1>1, <1>2, <2>1, HasEventTail DEF TakesEvent
<1>3. ASSUME NEW e, events' = Append(events, e)
      PROVE  HasEvent(events', kinds)
  <2>1. HasEvent(Append(events, e), kinds)
    BY <1>1, HasEventAppend
  <2>2. QED  BY <1>3, <2>1
<1>4. CASE UNCHANGED events
  BY <1>4
<1>5. QED  BY <1>2, <1>3, <1>4 DEF EventsKept

\* A command sent to the trading front, and what became of it.
LEMMA Called ==
  ASSUME TypeOK, NEW c \in Commands, NEW r \in ResultsOf(c), Refusals \subseteq {"tooFast"},
         NEW f, f = FrontAfter(c, r)
  PROVE  /\ f["td"].link = front["td"].link /\ f["td"].session = front["td"].session
         /\ front["td"].asked \subseteq f["td"].asked
         /\ \A fn \in f["td"].asked \ front["td"].asked :
              c.side = "td" /\ c.fn = fn
         /\ c.side = "td" /\ c.fn \in {"login", "logout"} =>
              r = "tooFast" \/ ~ front["td"].link \/ c.fn \in f["td"].asked
<1>1. front \in [Sides -> Fronts] /\ "td" \in Sides /\ c.side \in Sides
  BY SidesAre DEF TypeOK, Commands
<1>2. CASE r = "sent" /\ c.fn \in {"login", "logout"}
  <2>1. f = [front EXCEPT ![c.side].asked = @ \cup {c.fn}]
    BY <1>2 DEF FrontAfter
  <2>2. f["td"] = IF c.side = "td" THEN [front["td"] EXCEPT !.asked = @ \cup {c.fn}] ELSE front["td"]
    BY <1>1, <2>1
  <2>3. front["td"] \in Fronts
    BY <1>1
  <2>4. QED  BY <2>2, <2>3 DEF Fronts
<1>3. CASE ~ (r = "sent" /\ c.fn \in {"login", "logout"})
  <2>1. f = front
    BY <1>3 DEF FrontAfter
  <2>2. c.side = "td" /\ c.fn \in {"login", "logout"} => r = "tooFast" \/ ~ front["td"].link
    BY <1>3 DEF ResultsOf
  <2>3. QED  BY <2>1, <2>2
<1>4. QED  BY <1>2, <1>3

LEMMA RunningBefore ==
  ASSUME [Next]_vars, Running'
  PROVE  Running
  BY DEF Running, Next, User, ClickStart, ClickStop, ClickRequest, BlogicTakes, OnStart, OnStartRefused,
       OnStop, OnStopLogout, OnRequest, OnStatusIgnored, OnConnected, OnDisconnected, OnLogined,
       OnLoginFail, OnLoginedRestart, OnLogouted, OnGotContracts, Take, Timer, RunCmd, RunCmdCrash,
       Environment, FrontsAnswer, FrontConnected, RspUserLogin, RspUserLoginError, RspUserLogout,
       RspUserLogoutError, Answered, RspInstrument, RspInstrumentLast, RspInstrumentError, RspError,
       FrontDisconnected, Tick, vars

LEMMA StopOnWayStep ==
  ASSUME Refusals \subseteq {"tooFast"}, IInv, StopOnWay, [Next]_vars
  PROVE  StopOnWay'
<1> SUFFICES ASSUME Running', sm'["td"] # 0, ~ autoLogin'["td"]
             PROVE  \/ HasCmd(cmds', "logout") \/ "logout" \in front'["td"].asked
                    \/ HasEvent(events', Ends) \/ ~ front'["td"].link
  BY DEF StopOnWay
<1>1. /\ TypeOK /\ Running /\ cmds \in Seq(Commands) /\ events \in Seq(Events)
      /\ front \in [Sides -> Fronts] /\ front["td"] \in Fronts
  <2>1. Running
    BY RunningBefore
  <2>2. QED  BY <2>1, SidesAre DEF IInv, TypeOK
<1>2. CASE TdKept
  <2>1. \/ HasCmd(cmds, "logout") \/ "logout" \in front["td"].asked
        \/ HasEvent(events, Ends) \/ ~ front["td"].link
    BY <1>1, <1>2 DEF TdKept, StopOnWay
  <2>2. HasEvent(events, Ends) => HasEvent(events', Ends)
    BY <1>1, <1>2, EventsKeepSignals DEF TdKept, Signals
  <2>3. QED  BY <1>2, <2>1, <2>2 DEF TdKept, CmdsKept
<1>3. ASSUME NEW r \in Results, RunCmd(r)
      PROVE  \/ HasCmd(cmds', "logout") \/ "logout" \in front'["td"].asked
             \/ HasEvent(events', Ends) \/ ~ front'["td"].link
  <2>1. /\ cmds # <<>> /\ r \in ResultsOf(Head(cmds)) /\ cmds' = CmdsAfterRun(r)
        /\ front' = FrontAfter(Head(cmds), r) /\ UNCHANGED <<sm, autoLogin, events>>
    BY <1>3 DEF RunCmd
  <2>2. Head(cmds) \in Commands
    BY <1>1, <2>1
  <2>3. /\ front'["td"].link = front["td"].link /\ front["td"].asked \subseteq front'["td"].asked
        /\ Head(cmds).side = "td" /\ Head(cmds).fn = "logout" =>
             r = "tooFast" \/ ~ front["td"].link \/ "logout" \in front'["td"].asked
    BY <1>1, <2>1, <2>2, Called
  <2>4. HasCmd(cmds, "logout") =>
          HasCmd(cmds', "logout") \/ (r # "tooFast" /\ Head(cmds).side = "td" /\ Head(cmds).fn = "logout")
    BY <1>1, <2>1, HasCmdTail DEF CmdsAfterRun
  <2>5. QED  BY <1>1, <2>1, <2>3, <2>4 DEF StopOnWay
<1>4. ASSUME NEW r \in Results, OnStopLogout(r)
      PROVE  HasCmd(cmds', "logout") \/ "logout" \in front'["td"].asked \/ ~ front'["td"].link
  <2>1. /\ r \in ResultsOf(LogoutCmd) /\ cmds' = Queued(cmds, LogoutCmd, r)
        /\ front' = [FrontAfter(LogoutCmd, r) EXCEPT !["md"] = Hung]
    BY <1>4 DEF OnStopLogout
  <2>2. LogoutCmd \in Commands /\ LogoutCmd.side = "td" /\ LogoutCmd.fn = "logout"
    <3>1. LogoutCmd \in Commands /\ LogoutCmd.side = "td"
      BY <1>1, CmdType, SidesAre DEF LogoutCmd
    <3>2. QED  BY <3>1 DEF LogoutCmd, Cmd
  <2>3. PICK f : f = FrontAfter(LogoutCmd, r)
    OBVIOUS
  <2>4. f["td"].link = front["td"].link
        /\ (r = "tooFast" \/ ~ front["td"].link \/ "logout" \in f["td"].asked)
    BY <1>1, <2>1, <2>2, <2>3, Called
  <2>5. front'["td"] = f["td"]
    <3>1. f \in [Sides -> Fronts]
      BY <1>1, <2>2, <2>3, CallType
    <3>2. QED  BY <2>1, <2>3, <3>1
  <2>6. r = "tooFast" => HasCmd(cmds', "logout")
    BY <1>1, <2>1, <2>2, HasCmdAppend DEF Queued
  <2>7. QED  BY <2>4, <2>5, <2>6
<1>5. CASE TdFront
  <2>1. CASE FrontConnected("td") \/ RspUserLogout \/ RspUserLogoutError
    <3>1. PICK what \in {"connected", "logouted", "logoutFail"} : events' = Append(events, Ev("td", what))
      BY <2>1 DEF FrontConnected, RspUserLogout, RspUserLogoutError, Post
    <3>2. Ev("td", what).src = "td" /\ Ev("td", what).what \in Ends
      BY DEF Ev, Ends
    <3>3. QED  BY <1>1, <3>1, <3>2, HasEventAppend
  <2>2. CASE FrontDisconnected("td")
    BY <1>1, <2>2, SidesAre DEF FrontDisconnected, Hung
  <2>3. CASE RspUserLogin("td") \/ RspUserLoginError("td")
    <3>1. PICK up : Answered("td", "login", up)
      BY <2>3 DEF RspUserLogin, RspUserLoginError
    <3>2. front'["td"] = [front["td"] EXCEPT !.asked = @ \ {"login"}, !.session = up]
          /\ UNCHANGED <<sm, autoLogin, cmds>>
      BY <1>1, <3>1, SidesAre DEF Answered, gatewayVars
    <3>3. front'["td"].asked = front["td"].asked \ {"login"} /\ front'["td"].link = front["td"].link
      BY <1>1, <3>2 DEF Fronts
    <3>4. HasEvent(events, Ends) => HasEvent(events', Ends)
      <4>1. PICK what : events' = Append(events, Ev("td", what))
        BY <2>3 DEF RspUserLogin, RspUserLoginError, Post
      <4>2. HasEvent(events, Ends) => HasEvent(Append(events, Ev("td", what)), Ends)
        BY <1>1, HasEventAppend
      <4>3. QED  BY <4>1, <4>2
    <3>5. QED  BY <1>1, <3>2, <3>3, <3>4 DEF StopOnWay
  <2>4. QED  BY <1>5, <2>1, <2>2, <2>3 DEF TdFront
<1>6. ~ (TdMade \/ TdGone \/ TdIgnores \/ TdRelogins)
  BY DEF TdMade, TdGone, TdIgnores, TdRelogins
<1>7. QED  BY <1>2, <1>3, <1>4, <1>5, <1>6, TdSteps

LEMMA StopOnWayEnough ==
  ASSUME StopOnWay
  PROVE  StopNotForgotten
  BY DEF StopOnWay, StopNotForgotten, HasCmd, HasEvent, CmdQueued, Pending

\* With refusals of -3 only, a stop that waits for its logout is never forgotten: the logout is
\* queued or asked, a signal is on its way, or the link is down: StopNotForgotten.
THEOREM StopsNeverForgotten ==
  ASSUME Refusals \subseteq {"tooFast"}
  PROVE  Spec => []StopNotForgotten
<1>1. Init => StopOnWay
  BY DEF Init, StopOnWay, Sides
<1>2. IInv /\ StopOnWay /\ [Next]_vars => StopOnWay'
  BY StopOnWayStep
<1>3. QED  BY <1>1, <1>2, StopOnWayEnough, Inductive, PTL DEF Spec

-----------------------------------------------------------------------------
(* Logins of the trading side.  A login is lost when TDSM_DISCONNECTED empties the queue: the
   front that is linked now has posted its CONNECTED after that. *)

Answers(q) ==
  \A i \in DOMAIN q : IsSignal(q[i], {"disconnected"}) =>
    \E j \in DOMAIN q : j > i /\ IsSignal(q[j], {"connected"})
DropsAnswered == front["td"].link => Answers(events)
FrontOfObject == sm["td"] = 0 => front["td"] = Hung
NoLogoutYet ==
  sm["td"] # 0 /\ autoLogin["td"] => ~ HasCmd(cmds, "logout") /\ "logout" \notin front["td"].asked
LoginOnWay ==
  sm["td"] # 0 /\ autoLogin["td"] /\ front["td"].link /\ ~front["td"].session =>
    \/ HasCmd(cmds, "login") \/ "login" \in front["td"].asked
    \/ HasEvent(events, {"connected", "loginFail"})
LInv == Running => DropsAnswered /\ FrontOfObject /\ NoLogoutYet /\ LoginOnWay

LEMMA AnswersAppend ==
  ASSUME NEW q \in Seq(Events), NEW e
  PROVE  /\ Answers(q) /\ ~ IsSignal(e, {"disconnected"}) => Answers(Append(q, e))
         /\ IsSignal(e, {"connected"}) => Answers(Append(q, e))
<1>1. \A i \in DOMAIN Append(q, e) :
        \/ i = Len(q) + 1 /\ Append(q, e)[i] = e
        \/ i \in DOMAIN q /\ Append(q, e)[i] = q[i] /\ Len(q) + 1 > i
  OBVIOUS
<1>2. ASSUME IsSignal(e, {"connected"})
      PROVE  Answers(Append(q, e))
  <2>1. ~ IsSignal(e, {"disconnected"})
    BY <1>2 DEF IsSignal
  <2>2. QED  BY <1>1, <1>2, <2>1, AppendKeeps DEF Answers
<1>3. ASSUME Answers(q), ~ IsSignal(e, {"disconnected"})
      PROVE  Answers(Append(q, e))
  BY <1>1, <1>3, AppendKeeps DEF Answers
<1>4. QED  BY <1>2, <1>3

LEMMA AnswersTail ==
  ASSUME NEW q \in Seq(Events), q # <<>>, Answers(q)
  PROVE  /\ Answers(Tail(q))
         /\ IsSignal(Head(q), {"disconnected"}) => HasEvent(Tail(q), {"connected"})
<1>1. \A j \in DOMAIN q : j > 1 => j - 1 \in DOMAIN Tail(q) /\ Tail(q)[j - 1] = q[j]
  OBVIOUS
<1>2. 1 \in DOMAIN q /\ Head(q) = q[1] /\ DOMAIN q \subseteq Nat
  OBVIOUS
<1>3. \A i \in DOMAIN Tail(q) : i \in Nat /\ i + 1 \in DOMAIN q /\ Tail(q)[i] = q[i + 1]
  OBVIOUS
<1>4. Answers(Tail(q))
  <2> SUFFICES ASSUME NEW i \in DOMAIN Tail(q), IsSignal(Tail(q)[i], {"disconnected"})
               PROVE  \E j \in DOMAIN Tail(q) : j > i /\ IsSignal(Tail(q)[j], {"connected"})
    BY DEF Answers
  <2>1. PICK j \in DOMAIN q : j > i + 1 /\ IsSignal(q[j], {"connected"})
    BY <1>3 DEF Answers
  <2>2. i \in Nat /\ j \in Nat /\ j > 1 /\ j - 1 > i
    BY <1>2, <1>3, <2>1
  <2>3. QED  BY <1>1, <2>1, <2>2
<1>5. IsSignal(Head(q), {"disconnected"}) => HasEvent(Tail(q), {"connected"})
  <2> SUFFICES ASSUME IsSignal(q[1], {"disconnected"})
               PROVE  HasEvent(Tail(q), {"connected"})
    BY <1>2
  <2>1. PICK j \in DOMAIN q : j > 1 /\ IsSignal(q[j], {"connected"})
    BY <1>2 DEF Answers
  <2>2. QED  BY <1>1, <2>1 DEF HasEvent, IsSignal
<1>6. QED  BY <1>4, <1>5

LEMMA EventsKeepAnswers ==
  ASSUME TypeOK, EventsKept \/ TakesEvent, Answers(events)
  PROVE  Answers(events')
<1>1. events \in Seq(Events)
  BY DEF TypeOK
<1>2. CASE UNCHANGED events
  BY <1>2
<1>3. ASSUME NEW e, events' = Append(events, e), ~ IsSignal(e, Signals)
      PROVE  Answers(events')
  <2>1. ~ IsSignal(e, {"disconnected"})
    BY <1>3 DEF IsSignal, Signals, Ends
  <2>2. QED  BY <1>1, <1>3, <2>1, AnswersAppend
<1>4. CASE TakesEvent
  BY <1>1, <1>4, AnswersTail DEF TakesEvent
<1>5. QED  BY <1>2, <1>3, <1>4 DEF EventsKept

\* A step of BLOGIC or the user, the timer, the logout of a stop, and the front.
LEMMA LInvOfBlogic ==
  ASSUME IInv, Running, LInv, TdKept \/ TdMade \/ TdGone \/ TdIgnores \/ TdRelogins
  PROVE  DropsAnswered' /\ FrontOfObject' /\ NoLogoutYet' /\ LoginOnWay'
<1> USE DEF DropsAnswered, FrontOfObject, NoLogoutYet, LoginOnWay
<1>1. /\ TypeOK /\ cmds \in Seq(Commands) /\ events \in Seq(Events)
      /\ DropsAnswered /\ FrontOfObject /\ NoLogoutYet /\ LoginOnWay
  BY DEF IInv, TypeOK, LInv
<1>2. CASE TdKept
  <2>1. DropsAnswered' /\ FrontOfObject' /\ NoLogoutYet'
    BY <1>1, <1>2, EventsKeepAnswers DEF TdKept, CmdsKept
  <2>2. HasEvent(events, {"connected", "loginFail"}) => HasEvent(events', {"connected", "loginFail"})
    BY <1>1, <1>2, EventsKeepSignals DEF TdKept, Signals, Ends
  <2>3. QED  BY <1>1, <1>2, <2>1, <2>2 DEF TdKept, CmdsKept
<1>3. CASE TdMade
  <2>1. front'["td"] = Hung
    BY <1>1, <1>3 DEF TdMade
  <2>2. ~ HasCmd(cmds', "logout")
    BY <1>3 DEF TdMade, IInv, TdCommandsLive, HasCmd
  <2>3. QED  BY <2>1, <2>2 DEF Hung
<1>4. CASE TdGone
  BY <1>4 DEF TdGone, Hung
<1>5. CASE TdIgnores
  BY <1>1, <1>5 DEF TdIgnores, Hung
<1>6. CASE TdRelogins
  <2>1. DropsAnswered' /\ FrontOfObject'
    BY <1>1, <1>6, EventsKeepAnswers DEF TdRelogins
  <2>2. CASE IsSignal(Head(events), {"connected", "loginFail"}) /\ cmds' = Append(cmds, LoginCmd("td"))
    <3>1. LoginCmd("td").side = "td" /\ LoginCmd("td").fn = "login"
      BY DEF LoginCmd, Cmd
    <3>2. HasCmd(cmds', "login") /\ (HasCmd(cmds', "logout") => HasCmd(cmds, "logout"))
      BY <1>1, <2>2, <3>1, HasCmdAppend, HasCmdAdded
    <3>3. QED  BY <1>1, <1>6, <2>1, <3>2 DEF TdRelogins
  <2>3. CASE IsSignal(Head(events), {"disconnected"}) /\ cmds' = <<>>
    <3>1. NoLogoutYet'
      BY <1>1, <1>6, <2>3 DEF TdRelogins, HasCmd
    <3>2. front["td"].link => HasEvent(events', {"connected"})
      BY <1>1, <1>6, <2>3, AnswersTail DEF TdRelogins, TakesEvent
    <3>3. QED  BY <1>6, <2>1, <3>1, <3>2 DEF TdRelogins, HasEvent
  <2>4. QED  BY <1>6, <2>2, <2>3 DEF TdRelogins
<1>7. QED  BY <1>2, <1>3, <1>4, <1>5, <1>6

LEMMA LInvOfTimer ==
  ASSUME Refusals \subseteq {"tooFast"}, IInv, Running, LInv, NEW r \in Results, RunCmd(r)
  PROVE  DropsAnswered' /\ FrontOfObject' /\ NoLogoutYet' /\ LoginOnWay'
<1> USE DEF DropsAnswered, FrontOfObject, NoLogoutYet, LoginOnWay
<1>1. /\ TypeOK /\ cmds \in Seq(Commands) /\ events \in Seq(Events)
      /\ DropsAnswered /\ FrontOfObject /\ NoLogoutYet /\ LoginOnWay
  BY DEF IInv, TypeOK, LInv
<1>2. /\ cmds # <<>> /\ r \in ResultsOf(Head(cmds)) /\ cmds' = CmdsAfterRun(r)
      /\ front' = FrontAfter(Head(cmds), r) /\ UNCHANGED <<sm, autoLogin, events>>
  BY DEF RunCmd
<1>3. Head(cmds) \in Commands /\ Head(cmds) = cmds[1] /\ 1 \in DOMAIN cmds
  BY <1>1, <1>2
<1>4. /\ front'["td"].link = front["td"].link /\ front'["td"].session = front["td"].session
      /\ front["td"].asked \subseteq front'["td"].asked
      /\ \A fn \in front'["td"].asked \ front["td"].asked : Head(cmds).side = "td" /\ Head(cmds).fn = fn
      /\ Head(cmds).side = "td" /\ Head(cmds).fn = "login" =>
           r = "tooFast" \/ ~ front["td"].link \/ "login" \in front'["td"].asked
  BY <1>1, <1>2, <1>3, Called
<1>5. HasCmd(cmds, "login") =>
        HasCmd(cmds', "login") \/ (r # "tooFast" /\ Head(cmds).side = "td" /\ Head(cmds).fn = "login")
  BY <1>1, <1>2, HasCmdTail DEF CmdsAfterRun
<1>6. HasCmd(cmds', "logout") => HasCmd(cmds, "logout")
  <2>1. \A i \in DOMAIN Tail(cmds) : i + 1 \in DOMAIN cmds /\ Tail(cmds)[i] = cmds[i + 1]
    BY <1>1, <1>2
  <2>2. QED  BY <1>2, <2>1 DEF HasCmd, CmdsAfterRun
<1>7. NoLogoutYet'
  BY <1>1, <1>2, <1>3, <1>4, <1>6 DEF HasCmd
<1>8. FrontOfObject'
  <2>1. sm["td"] = 0 => Head(cmds).side # "td"
    BY <1>3 DEF IInv, TdCommandsLive
  <2>2. sm["td"] = 0 => front'["td"] = front["td"]
    BY <1>1, <1>2, <2>1, SidesAre DEF FrontAfter, TypeOK
  <2>3. QED  BY <1>1, <1>2, <2>2
<1>9. QED  BY <1>1, <1>2, <1>4, <1>5, <1>7, <1>8

LEMMA LInvOfStop ==
  ASSUME IInv, Running, LInv, NEW r \in Results, OnStopLogout(r), Refusals \subseteq {"tooFast"}
  PROVE  DropsAnswered' /\ FrontOfObject' /\ NoLogoutYet' /\ LoginOnWay'
<1> USE DEF DropsAnswered, FrontOfObject, NoLogoutYet, LoginOnWay
<1>1. TypeOK /\ TakesEvent /\ events \in Seq(Events)
  BY DEF IInv, TypeOK, OnStopLogout, Take, TakesEvent
<1>2. sm["td"] # 0 /\ sm'["td"] = sm["td"] /\ ~ autoLogin'["td"]
  BY <1>1, SidesAre DEF IInv, LoginedAlive, OnStopLogout, AutoLoginAfterStop, TypeOK
<1>3. front'["td"].link = front["td"].link
  <2>1. PICK f : f = FrontAfter(LogoutCmd, r)
    OBVIOUS
  <2>2. LogoutCmd \in Commands /\ r \in ResultsOf(LogoutCmd)
    BY <1>1, CmdType, SidesAre DEF LogoutCmd, OnStopLogout
  <2>3. f \in [Sides -> Fronts] /\ f["td"].link = front["td"].link
    BY <1>1, <2>1, <2>2, CallType, Called
  <2>4. front' = [f EXCEPT !["md"] = Hung]
    BY <2>1 DEF OnStopLogout
  <2>5. QED  BY <2>3, <2>4, SidesAre
<1>4. DropsAnswered'
  BY <1>1, <1>3, EventsKeepAnswers DEF LInv
<1>5. QED  BY <1>2, <1>4

LEMMA LInvOfFront ==
  ASSUME IInv, Running, LInv, TdFront
  PROVE  DropsAnswered' /\ FrontOfObject' /\ NoLogoutYet' /\ LoginOnWay'
<1> USE DEF DropsAnswered, FrontOfObject, NoLogoutYet, LoginOnWay
<1>1. /\ TypeOK /\ events \in Seq(Events) /\ front \in [Sides -> Fronts] /\ front["td"] \in Fronts
      /\ DropsAnswered /\ FrontOfObject /\ NoLogoutYet /\ LoginOnWay
  BY SidesAre DEF IInv, TypeOK, LInv
<1>2. UNCHANGED <<sm, autoLogin, cmds>>
  BY DEF TdFront, FrontConnected, FrontDisconnected, RspUserLogin, RspUserLoginError, RspUserLogout,
       RspUserLogoutError, Answered, gatewayVars
<1>3. CASE FrontConnected("td")
  <2>1. front'["td"] = [front["td"] EXCEPT !.link = TRUE] /\ sm["td"] # 0
    BY <1>1, <1>3, SidesAre DEF FrontConnected
  <2>2. front'["td"].asked = front["td"].asked
    BY <1>1, <2>1 DEF Fronts
  <2>3. events' = Append(events, Ev("td", "connected")) /\ IsSignal(Ev("td", "connected"), {"connected"})
    BY <1>3 DEF FrontConnected, Post, Ev, IsSignal
  <2>4. Answers(events') /\ HasEvent(events', {"connected", "loginFail"})
    BY <1>1, <2>3, AnswersAppend, HasEventAppend DEF IsSignal
  <2>5. QED  BY <1>1, <1>2, <2>1, <2>2, <2>4
<1>4. CASE FrontDisconnected("td")
  <2>1. front'["td"] = Hung
    BY <1>1, <1>4, SidesAre DEF FrontDisconnected
  <2>2. QED  BY <1>1, <1>2, <2>1 DEF Hung
<1>5. ASSUME NEW fn, NEW up, NEW what, Answered("td", fn, up), Post("td", what),
             what \in {"logined", "loginFail", "logouted", "logoutFail"},
             fn = "logout" \/ (fn = "login" /\ (up \/ what = "loginFail"))
      PROVE  DropsAnswered' /\ FrontOfObject' /\ NoLogoutYet' /\ LoginOnWay'
  <2>1. fn \in front["td"].asked
        /\ front'["td"] = [front["td"] EXCEPT !.asked = @ \ {fn}, !.session = up]
    BY <1>1, <1>5, SidesAre DEF Answered
  <2>2. /\ front'["td"].asked = front["td"].asked \ {fn} /\ front'["td"].link = front["td"].link
        /\ front'["td"].session = up
    BY <1>1, <2>1 DEF Fronts
  <2>3. sm["td"] # 0
    BY <1>1, <2>1 DEF Hung
  <2>4. events' = Append(events, Ev("td", what)) /\ ~ IsSignal(Ev("td", what), {"disconnected"})
    BY <1>5 DEF Post, Ev, IsSignal
  <2>5. DropsAnswered'
    BY <1>1, <2>2, <2>4, AnswersAppend
  <2>6. what = "loginFail" => HasEvent(events', {"connected", "loginFail"})
    BY <1>1, <2>4, HasEventAppend DEF Ev
  <2>7. QED  BY <1>1, <1>2, <1>5, <2>1, <2>2, <2>3, <2>5, <2>6
<1>6. QED
  BY <1>3, <1>4, <1>5 DEF TdFront, RspUserLogin, RspUserLoginError, RspUserLogout, RspUserLogoutError

LEMMA LInvStep ==
  ASSUME Refusals \subseteq {"tooFast"}, IInv, LInv, [Next]_vars
  PROVE  LInv'
<1> SUFFICES ASSUME Running'
             PROVE  DropsAnswered' /\ FrontOfObject' /\ NoLogoutYet' /\ LoginOnWay'
  BY DEF LInv
<1>1. Running
  BY RunningBefore
<1>2. QED  BY <1>1, TdSteps, LInvOfBlogic, LInvOfTimer, LInvOfStop, LInvOfFront

LEMMA LInvEnough ==
  ASSUME LInv
  PROVE  TdLoginNotForgotten
  BY DEF LInv, LoginOnWay, TdLoginNotForgotten, HasCmd, HasEvent, CmdQueued, Pending

\* With refusals of -3 only, a connected trading side that logs in by itself and has no login is
\* on the way to one: TdLoginNotForgotten.
THEOREM LoginsNeverForgotten ==
  ASSUME Refusals \subseteq {"tooFast"}
  PROVE  Spec => []TdLoginNotForgotten
<1>1. Init => LInv
  BY SidesAre DEF Init, LInv, DropsAnswered, FrontOfObject, NoLogoutYet, LoginOnWay, Hung
<1>2. IInv /\ LInv /\ [Next]_vars => LInv'
  BY LInvStep
<1>3. QED  BY <1>1, <1>2, LInvEnough, Inductive, PTL DEF Spec
===============================================================================
