------------------------------- MODULE BtReplay -------------------------------
(***************************************************************************)
(* The replay of btgateway: BtStart and BtStop go from the window to       *)
(* GatewayMgr on BLOGIC, which announces them to DB and PUSH; DbService    *)
(* tells PUSH that the contracts are there and starts a thread that reads  *)
(* the ticks of the session from datafeed; every tick is posted to BLOGIC, *)
(* which matches orders with it (BtMatch), and to PUSH.                    *)
(*                                                                         *)
(* Sessions are numbered as BLOGIC starts them.  A signal is posted to all *)
(* its receivers at once.  Sleep takes no time, except that what another   *)
(* thread posts meanwhile is posted.                                       *)
(***************************************************************************)
EXTENDS Integers, Sequences

CONSTANTS
  Length,      \* the number of ticks datafeed has for a session
  MaxSessions, \* bound: clicks on BtStart
  MaxConnects, \* bound: clicks on DfConnect
  MaxErrors    \* bound: calls to datafeed that fail

ASSUME BoundsAssumption ==
  Length \in Nat /\ MaxSessions \in Nat /\ MaxConnects \in Nat /\ MaxErrors \in Nat

VARIABLES
  canStart,   \* BtStart is enabled, and BtStop is not
  configured, \* BtConfig has been given a symbol
  canConnect, \* DfConnect is enabled, and DfDisconnect is not
  blogic,     \* the event queue of BLOGIC
  session,    \* the last session that BLOGIC has started
  db,         \* the event queue of DB
  step,       \* the handler DB is in, and the session it is for
  client,     \* DbService has a DatafeedClient
  stopping,   \* stopPushTick_ of the client
  reader,     \* the session of its reader thread, 0 without one
  reading,    \* that thread is in its loop
  left,       \* the ticks of its stream that it has not read
  push,       \* the event queue of PUSH
  announced,  \* history: the session whose GOTCONTRACTS clients heard last
  heard,      \* history: per session the ticks that clients heard
  cut,        \* history: sessions that were stopped, disconnected or failed
  used        \* how much of each bound is used

windowVars == <<canStart, configured, canConnect>>
readerVars == <<client, stopping, reader, reading, left>>
history == <<announced, heard, cut>>
vars == <<windowVars, blogic, session, db, step, readerVars, push, history, used>>

-----------------------------------------------------------------------------
Sessions == 1..MaxSessions
BlogicEvents == {<<"start">>, <<"stop">>} \cup ({"tick"} \X Nat)
DbEvents == {<<"connect">>, <<"disconnect">>, <<"stopped">>} \cup ({"begin"} \X Nat)
PushEvents == {"begin", "contracts", "tick"} \X Nat

Idle == <<"idle">>
Steps == {Idle, <<"stop">>, <<"delete">>} \cup ({"wake", "push"} \X Nat)

TypeOK ==
  /\ canStart \in BOOLEAN /\ configured \in BOOLEAN /\ canConnect \in BOOLEAN
  /\ blogic \in Seq(BlogicEvents)
  /\ session \in Nat
  /\ db \in Seq(DbEvents)
  /\ step \in Steps
  /\ client \in BOOLEAN /\ stopping \in BOOLEAN
  /\ reader \in Nat /\ reading \in BOOLEAN /\ left \in 0..Length
  /\ push \in Seq(PushEvents)
  /\ announced \in Nat
  /\ heard \in [Sessions -> Nat]
  /\ cut \subseteq Nat
  /\ used \in [{"sessions", "connects", "errors"} -> Nat]

Init ==
  /\ canStart = TRUE /\ configured \in BOOLEAN /\ canConnect = TRUE
  /\ blogic = <<>> /\ db = <<>> /\ push = <<>>
  /\ session = 0
  /\ step = Idle
  /\ client = FALSE /\ stopping = FALSE
  /\ reader = 0 /\ reading = FALSE /\ left = 0
  /\ announced = 0
  /\ heard = [n \in Sessions |-> 0]
  /\ cut = {}
  /\ used = [b \in {"sessions", "connects", "errors"} |-> 0]

Spend(what, limit) == used[what] < limit /\ used' = [used EXCEPT ![what] = @ + 1]

-----------------------------------------------------------------------------
(* MAIN *)

\* Without a symbol only the buttons change.
BtStart ==
  /\ canStart /\ Spend("sessions", MaxSessions)
  /\ canStart' = FALSE
  /\ blogic' = IF configured THEN Append(blogic, <<"start">>) ELSE blogic
  /\ UNCHANGED <<configured, canConnect, session, db, step, readerVars, push, history>>

BtStop ==
  /\ ~canStart
  /\ canStart' = TRUE
  /\ blogic' = Append(blogic, <<"stop">>)
  /\ UNCHANGED <<configured, canConnect, session, db, step, readerVars, push, history, used>>

BtConfig ==
  /\ canStart /\ ~configured
  /\ configured' = TRUE
  /\ UNCHANGED <<canStart, canConnect, blogic, session, db, step, readerVars, push, history, used>>

DfConnect ==
  /\ canConnect /\ Spend("connects", MaxConnects)
  /\ canConnect' = FALSE
  /\ db' = Append(db, <<"connect">>)
  /\ UNCHANGED <<canStart, configured, blogic, session, step, readerVars, push, history>>

DfDisconnect ==
  /\ ~canConnect
  /\ canConnect' = TRUE
  /\ db' = Append(db, <<"disconnect">>)
  /\ UNCHANGED <<canStart, configured, blogic, session, step, readerVars, push, history, used>>

-----------------------------------------------------------------------------
(* BLOGIC *)

TakeBlogic(what) ==
  /\ blogic # <<>> /\ Head(blogic)[1] = what
  /\ blogic' = Tail(blogic)
  /\ UNCHANGED <<windowVars, step, readerVars, history, used>>

\* resetData, then tradeWillBegin; the positions and orders are BtMatch's.
Start ==
  /\ TakeBlogic("start")
  /\ session' = session + 1
  /\ db' = Append(db, <<"begin", session + 1>>)
  /\ push' = Append(push, <<"begin", session + 1>>)

Stop ==
  /\ TakeBlogic("stop")
  /\ db' = Append(db, <<"stopped">>)
  /\ UNCHANGED <<session, push>>

OnGotTick ==
  /\ TakeBlogic("tick")
  /\ UNCHANGED <<session, db, push>>

-----------------------------------------------------------------------------
(* DB *)

TakeDb(what) ==
  /\ step = Idle /\ db # <<>> /\ Head(db)[1] = what
  /\ db' = Tail(db)
  /\ UNCHANGED <<windowVars, blogic, session, push, announced, heard, used>>

ConnectDatafeed ==
  /\ TakeDb("connect")
  /\ client' = TRUE /\ stopping' = FALSE
  /\ UNCHANGED <<step, reader, reading, left, cut>>

\* stopPushTick raises the flag and waits for the thread...
StopPushTick(then) ==
  /\ stopping' = TRUE
  /\ step' = then
  /\ cut' = cut \cup ({reader} \ {0})
  /\ UNCHANGED <<client, reader, reading, left>>

\* ...as does the destructor of the client.
DisconnectDatafeed == TakeDb("disconnect") /\ StopPushTick(<<"delete">>)

OnTradeStoppedIgnored ==  \* mutant
  TakeDb("stopped") /\ UNCHANGED <<step, readerVars, cut>>

OnTradeStopped ==
  /\ TakeDb("stopped")
  /\ \/ client /\ StopPushTick(<<"stop">>)
     \/ ~client /\ UNCHANGED <<step, readerVars, cut>>

\* wait returns: the thread is deleted, and the client with it in disconnectDatafeed.
Join ==
  /\ step \in {<<"stop">>, <<"delete">>} /\ ~reading
  /\ reader' = 0
  /\ client' = (step = <<"stop">>)
  /\ step' = Idle
  /\ UNCHANGED <<windowVars, blogic, session, db, stopping, reading, left, push, history, used>>

OnTradeWillBegin ==
  /\ TakeDb("begin")
  /\ step' = <<"wake", Head(db)[2]>>
  /\ UNCHANGED <<readerVars, cut>>

\* After the first Sleep: contracts from datafeed, or the session has no ticks.
GetContract ==
  /\ step[1] = "wake" /\ client
  /\ step' = <<"push", step[2]>>
  /\ push' = Append(push, <<"contracts", step[2]>>)
  /\ UNCHANGED <<windowVars, blogic, session, db, readerVars, history, used>>

NoContract ==
  /\ step[1] = "wake"
  /\ IF client THEN Spend("errors", MaxErrors) ELSE UNCHANGED used
  /\ step' = Idle
  /\ UNCHANGED <<windowVars, blogic, session, db, readerVars, push, history>>

PushTickFlagKept ==  \* mutant
  /\ step[1] = "push"
  /\ reader' = step[2] /\ reading' = TRUE /\ left' = Length
  /\ step' = Idle
  /\ UNCHANGED <<windowVars, blogic, session, db, client, stopping, push, history, used>>

\* After the second Sleep.
PushTick ==
  /\ step[1] = "push"
  /\ stopping' = FALSE
  /\ reader' = step[2] /\ reading' = TRUE /\ left' = Length
  /\ step' = Idle
  /\ UNCHANGED <<windowVars, blogic, session, db, client, push, history, used>>

-----------------------------------------------------------------------------
(* The reader thread *)

ReadTick ==
  /\ reading /\ left > 0 /\ ~stopping
  /\ left' = left - 1
  /\ blogic' = Append(blogic, <<"tick", reader>>)
  /\ push' = Append(push, <<"tick", reader>>)
  /\ UNCHANGED <<windowVars, session, db, step, client, stopping, reader, reading, history, used>>

\* Read fails at the end of the stream, or a tick finds the flag raised.
ReadEnds ==
  /\ reading /\ (left = 0 \/ stopping)
  /\ reading' = FALSE
  /\ UNCHANGED <<windowVars, blogic, session, db, step, client, stopping, reader, left, push, history, used>>

ReadFails ==
  /\ reading /\ Spend("errors", MaxErrors)
  /\ reading' = FALSE
  /\ cut' = cut \cup {reader}
  /\ UNCHANGED <<windowVars, blogic, session, db, step, client, stopping, reader, left, push, announced, heard>>

-----------------------------------------------------------------------------
(* PUSH *)

TakePush(what) ==
  /\ push # <<>> /\ Head(push)[1] = what
  /\ push' = Tail(push)
  /\ UNCHANGED <<windowVars, blogic, session, db, step, readerVars, cut, used>>

OnTradeBegins == TakePush("begin") /\ UNCHANGED <<announced, heard>>

OnGotContracts ==
  /\ TakePush("contracts")
  /\ announced' = Head(push)[2]
  /\ UNCHANGED heard

OnPushTick ==
  /\ TakePush("tick")
  /\ heard' = [heard EXCEPT ![Head(push)[2]] = @ + 1]
  /\ UNCHANGED announced

-----------------------------------------------------------------------------
Window == BtStart \/ BtStop \/ BtConfig \/ DfConnect \/ DfDisconnect
Blogic == Start \/ Stop \/ OnGotTick
Db == \/ ConnectDatafeed \/ DisconnectDatafeed \/ OnTradeStopped \/ Join
      \/ OnTradeWillBegin \/ GetContract \/ NoContract \/ PushTick
Reader == ReadTick \/ ReadEnds
Push == OnTradeBegins \/ OnGotContracts \/ OnPushTick

Next == Window \/ Blogic \/ Db \/ Reader \/ ReadFails \/ Push

Spec == Init /\ [][Next]_vars

\* The threads run and datafeed answers; clicks and errors need not come.
FairSpec ==
  Spec /\ WF_vars(Blogic) /\ WF_vars(Db) /\ WF_vars(Reader) /\ WF_vars(Push)

-----------------------------------------------------------------------------
(* Properties *)

\* A client that is handed a tick has been told of the contracts of its
\* session, and of none since: ticks of the last session that its reader
\* thread still posts after BtStart reach clients before the GOTCONTRACTS of
\* the new one, for DB has joined that thread by then.
TicksFollowContracts ==
  push # <<>> /\ Head(push)[1] = "tick" => announced = Head(push)[2]

\* A session whose contracts came plays to its end: its clients hear every
\* tick, once, unless it is stopped, datafeed is disconnected or the stream
\* fails.
ReplayPlays ==
  \A n \in Sessions : step = <<"push", n>> ~> heard[n] = Length \/ n \in cut
=============================================================================
