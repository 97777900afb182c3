------------------------------ MODULE ServiceMgr ------------------------------
(***************************************************************************)
(* The life of a program: ServiceMgr starts its five threads, RpcService   *)
(* starts and stops the gRPC server on NetStart and NetStop, and Quit      *)
(* joins the threads one after the other.  The programs differ in what     *)
(* their server does at a stop: a gateway (ctpgateway, btgateway) has PUSH *)
(* close the streams and then waits for them, datafeed only waits for its  *)
(* calls, and cta waits before it has PUSH close anything, and not at all  *)
(* when it quits.  datarecorder, nezipdump and qtdemo have no server.      *)
(* Where a program is the client of a gateway (cta, datarecorder), BLOGIC  *)
(* waits for its reader thread before it ends; where it uses the thread    *)
(* pool (qtdemo), MAIN waits for the pool, but has freed the log by then.  *)
(*                                                                         *)
(* A thread takes one posted event at a time and, asked to quit, may still *)
(* take some of those that wait.  What a stream carries is left to         *)
(* PushStream; here a handler only has to end for the server to stop, and  *)
(* the queue of BLOGIC is left to PushStream as well: an event for it is   *)
(* taken at any time after the click.                                      *)
(***************************************************************************)
EXTENDS Naturals, Sequences, FiniteSets

CONSTANTS
  Clients,   \* the clients that call the server, one handler each
  MaxClicks, \* bound: clicks on NetStart and NetStop
  MaxCalls   \* bound: calls that the server accepts

ASSUME BoundsAssumption == MaxClicks \in Nat /\ MaxCalls \in Nat

VARIABLES
  program,  \* which program this is
  main,     \* MAIN: 0 in its event loop, i in the join of JoinOrder[i], then Freed, then Exited
  thread,   \* per thread: starting, running, in its finished slot, finished
  asked,    \* the threads that were told to quit
  rpc,      \* RPC inside RpcService::stop: "no", "posted" (onGatewayClosed), "waiting"
  server,   \* the gRPC server, "built" until grpcServer_ points to it
  rpcQueue, \* events posted to RPC
  push,     \* events posted to PUSH
  handler,  \* per client its call: none, accepted, reading its queue
  shut,     \* the clients whose queue is shut
  clients,  \* clients_ of PushService
  late,     \* history: handlers that posted connectClient behind onGatewayClosed
  reader,   \* the gateway client: none, idle, its thread reading, its stream over
  blogic,   \* BLOGIC: free, or freeing the reader thread in disconnectGateway
  tasks,    \* tasks of the thread pool that have not ended
  canStart, \* NetStart is enabled, and NetStop is not
  aborted,  \* the process died in qFatal or on a null pointer
  used      \* how much of each bound is used

serverVars == <<rpc, server, rpcQueue>>
streamVars == <<push, handler, shut, clients, late>>
ownVars == <<reader, blogic, tasks>>
vars == <<program, main, thread, asked, serverVars, streamVars, ownVars, canStart, aborted, used>>

-----------------------------------------------------------------------------
Programs == {"gateway", "datafeed", "cta", "datarecorder", "nezipdump", "qtdemo"}
JoinOrder == <<"flogic", "blogic", "rpc", "push", "db">>
Threads == {"db", "push", "rpc", "blogic", "flogic"}
Freed == Len(JoinOrder) + 1
Exited == Freed + 1

PushEvents == ({"connect", "disconnect"} \X Clients) \cup {<<"closed">>}

TypeOK ==
  /\ program \in Programs
  /\ main \in 0..Exited
  /\ thread \in [Threads -> {"starting", "running", "leaving", "finished"}]
  /\ asked \subseteq Threads
  /\ rpc \in {"no", "posted", "waiting"}
  /\ server \in {"off", "starting", "built", "serving", "down"}
  /\ rpcQueue \in Seq({"start", "stop"})
  /\ push \in Seq(PushEvents)
  /\ handler \in [Clients -> {"none", "accepted", "reading"}]
  /\ shut \subseteq Clients /\ clients \subseteq Clients /\ late \subseteq Clients
  /\ reader \in {"none", "idle", "reading", "over"}
  /\ blogic \in {"free", "freeing"}
  /\ tasks \in Nat
  /\ canStart \in BOOLEAN
  /\ aborted \in BOOLEAN
  /\ used \in [{"clicks", "calls"} -> Nat]

\* GatewayMgr starts without a client, the pool without a task.
NoGateway == reader = "none" /\ blogic = "free"
InitPool == tasks = 0

Init ==
  /\ program \in Programs
  /\ main = 0
  /\ thread = [t \in Threads |-> "starting"]
  /\ asked = {}
  /\ rpc = "no"
  /\ server = "off"
  /\ rpcQueue = <<>>
  /\ push = <<>>
  /\ handler = [c \in Clients |-> "none"]
  /\ shut = {} /\ clients = {} /\ late = {}
  /\ NoGateway /\ InitPool
  /\ canStart = TRUE
  /\ aborted = FALSE
  /\ used = [b \in {"clicks", "calls"} |-> 0]

Spend(what, limit) == used[what] < limit /\ used' = [used EXCEPT ![what] = @ + 1]
Alive == main < Exited /\ ~aborted
Serving == program \in {"gateway", "datafeed", "cta"}
Streaming == program \in {"gateway", "cta"}
HasGateway == program \in {"cta", "datarecorder"}
Calls == {c \in Clients : handler[c] # "none"}
\* The clients registered for the call they are in, and not for one before.
Registered == {c \in clients : \A i \in DOMAIN push : push[i] # <<"connect", c>>}

-----------------------------------------------------------------------------
(* MAIN: the window and the shutdown *)

NetStart ==
  /\ Serving /\ main = 0 /\ canStart /\ Spend("clicks", MaxClicks)
  /\ canStart' = FALSE
  /\ rpcQueue' = Append(rpcQueue, "start")
  /\ UNCHANGED <<program, ownVars, main, thread, asked, rpc, server, streamVars, aborted>>

NetStop ==
  /\ main = 0 /\ ~canStart /\ Spend("clicks", MaxClicks)
  /\ canStart' = TRUE
  /\ rpcQueue' = Append(rpcQueue, "stop")
  /\ UNCHANGED <<program, ownVars, main, thread, asked, rpc, server, streamVars, aborted>>

\* The event loop of MAIN ends and shutdown asks the first thread to quit.
Quit ==
  /\ main = 0
  /\ main' = 1
  /\ asked' = {JoinOrder[1]}
  /\ UNCHANGED <<program, ownVars, thread, serverVars, streamVars, canStart, aborted, used>>

\* wait returns: the next thread is asked; after the last one everything is freed.
Join ==
  /\ main \in DOMAIN JoinOrder /\ thread[JoinOrder[main]] = "finished"
  /\ main' = main + 1
  /\ asked' = asked \cup {JoinOrder[i] : i \in {main + 1} \cap DOMAIN JoinOrder}
  /\ UNCHANGED <<program, ownVars, thread, serverVars, streamVars, canStart, aborted, used>>

WaitForNothing ==  \* mutant
  /\ main = Freed
  /\ main' = Exited
  /\ UNCHANGED <<program, ownVars, thread, asked, serverVars, streamVars, canStart, aborted, used>>

\* Only then is the pool waited for; only qtdemo has given it tasks.
WaitForDone ==
  /\ main = Freed /\ tasks = 0
  /\ main' = Exited
  /\ UNCHANGED <<program, ownVars, thread, asked, serverVars, streamVars, canStart, aborted, used>>

-----------------------------------------------------------------------------
(* The threads *)

Started(t) ==
  /\ thread[t] = "starting"
  /\ thread' = [thread EXCEPT ![t] = "running"]
  /\ UNCHANGED <<program, ownVars, main, asked, serverVars, streamVars, canStart, aborted, used>>

\* The event loop of t returns; events that still wait are never taken.
Leaves(t) ==
  /\ thread[t] = "running" /\ t \in asked

Finished(t) ==
  /\ t \notin {"rpc", "push", "blogic"} /\ Leaves(t)
  /\ thread' = [thread EXCEPT ![t] = "finished"]
  /\ UNCHANGED <<program, ownVars, main, asked, serverVars, streamVars, canStart, aborted, used>>

\* PushService::shutdown deletes its clients, which shuts their queues.
PushFinished ==
  /\ Leaves("push")
  /\ thread' = [thread EXCEPT !["push"] = "finished"]
  /\ shut' = shut \cup Registered /\ clients' = {}
  /\ UNCHANGED <<program, ownVars, main, asked, serverVars, push, handler, late, canStart, aborted, used>>

ShutdownNeverStops == FALSE  \* mutant
\* What RpcService::shutdown does: call stop, or in cta nothing.
ShutdownStops == program # "cta"

\* RpcService::shutdown runs in the finished slot.
RpcFinished ==
  /\ Leaves("rpc") /\ rpc = "no"
  /\ thread' = [thread EXCEPT !["rpc"] = IF ShutdownStops THEN "leaving" ELSE "finished"]
  /\ UNCHANGED <<program, ownVars, main, asked, serverVars, streamVars, canStart, aborted, used>>

IsCurrentOn(here, there) == here = there

\* DbService of cta pings on the DB thread and checks for PUSH...
OnPing ==
  /\ program = "cta" /\ thread["db"] = "running"
  /\ aborted' = ~IsCurrentOn("db", "push")
  /\ UNCHANGED <<program, ownVars, main, thread, asked, serverVars, streamVars, canStart, used>>

\* ...as it does when it is told to connect to datafeed, or to disconnect.
ConnectDatafeed ==
  /\ program = "cta" /\ thread["db"] = "running" /\ Spend("clicks", MaxClicks)
  /\ aborted' = ~IsCurrentOn("db", "push")
  /\ UNCHANGED <<program, ownVars, main, thread, asked, serverVars, streamVars, canStart>>

-----------------------------------------------------------------------------
(* BLOGIC: the client of a gateway, in cta and datarecorder *)

BlogicFree == thread["blogic"] = "running" /\ blogic = "free"
Reading == reader \in {"reading", "over"}

\* The buttons alternate: there is no client when connectGateway is taken, and one
\* when disconnectGateway is.
ConnectGateway ==
  /\ HasGateway /\ BlogicFree /\ reader = "none" /\ Spend("clicks", MaxClicks)
  /\ reader' = "idle"
  /\ UNCHANGED <<program, main, thread, asked, serverVars, streamVars, blogic, tasks, canStart, aborted>>

DisconnectGateway ==
  /\ BlogicFree /\ reader # "none" /\ Spend("clicks", MaxClicks)
  /\ IF Reading THEN blogic' = "freeing" /\ UNCHANGED reader
                ELSE reader' = "none" /\ UNCHANGED blogic
  /\ UNCHANGED <<program, main, thread, asked, serverVars, streamVars, tasks, canStart, aborted>>

\* The timer finds the channel ready.
Connect ==
  /\ BlogicFree /\ reader = "idle" /\ reader' = "reading"
  /\ UNCHANGED <<program, main, thread, asked, serverVars, streamVars, blogic, tasks, canStart, aborted, used>>

\* The gateway closes the stream, or the connection breaks.
StreamOver ==
  /\ reader = "reading" /\ reader' = "over"
  /\ UNCHANGED <<program, main, thread, asked, serverVars, streamVars, blogic, tasks, canStart, aborted, used>>

OnGatewayDisconnected ==
  /\ BlogicFree /\ reader = "over" /\ reader' = "idle"
  /\ UNCHANGED <<program, main, thread, asked, serverVars, streamVars, blogic, tasks, canStart, aborted, used>>

BlogicFinishedAtOnce ==  \* mutant
  /\ Leaves("blogic") /\ blogic = "free"
  /\ thread' = [thread EXCEPT !["blogic"] = "finished"]
  /\ UNCHANGED <<program, ownVars, main, asked, serverVars, streamVars, canStart, aborted, used>>

\* GatewayMgr::shutdown deletes the client, which has to wait for its reader thread.
BlogicFinished ==
  /\ Leaves("blogic") /\ blogic = "free"
  /\ thread' = [thread EXCEPT !["blogic"] = IF Reading THEN "leaving" ELSE "finished"]
  /\ reader' = IF Reading THEN reader ELSE "none"
  /\ UNCHANGED <<program, main, asked, serverVars, streamVars, blogic, tasks, canStart, aborted, used>>

\* The wait for the reader thread returns once its stream is over.
ReaderFreed ==
  /\ reader = "over" /\ reader' = "none" /\ blogic' = "free"
  /\ \/ blogic = "freeing" /\ UNCHANGED thread
     \/ thread["blogic"] = "leaving" /\ thread' = [thread EXCEPT !["blogic"] = "finished"]
  /\ UNCHANGED <<program, main, asked, serverVars, streamVars, tasks, canStart, aborted, used>>

-----------------------------------------------------------------------------
(* The thread pool, in qtdemo *)

\* run starts a task each time it is called.
Run(n) == tasks' = tasks + n

ThreadExternal ==
  /\ program = "qtdemo" /\ main = 0 /\ Spend("clicks", MaxClicks)
  /\ Run(4)
  /\ UNCHANGED <<program, main, thread, asked, serverVars, streamVars, reader, blogic, canStart, aborted>>

\* The log that a task writes to is gone.
LogFreed == main = Freed

\* A task calls its function, which checks its thread and writes to the log, and
\* reports that it has finished.
RunOnExternal ==
  /\ tasks > 0 /\ tasks' = tasks - 1
  /\ aborted' = (LogFreed \/ ~IsCurrentOn("external", "external"))
  /\ UNCHANGED <<program, main, thread, asked, serverVars, streamVars, reader, blogic, canStart, used>>

-----------------------------------------------------------------------------
(* RPC: the server *)

TakeRpc(event) ==
  /\ thread["rpc"] = "running" /\ rpc = "no"
  /\ rpcQueue # <<>> /\ Head(rpcQueue) = event
  /\ rpcQueue' = Tail(rpcQueue)

Start ==
  /\ TakeRpc("start")
  /\ server' = IF server = "off" THEN "starting" ELSE server
  /\ UNCHANGED <<program, ownVars, main, thread, asked, rpc, streamVars, canStart, aborted, used>>

\* The server's own thread: BuildAndStart, then the pointer that stop uses.
Build ==
  /\ server = "starting" /\ server' = "built"
  /\ UNCHANGED <<program, ownVars, main, thread, asked, rpc, rpcQueue, streamVars, canStart, aborted, used>>

Publish ==
  /\ server = "built" /\ server' = "serving"
  /\ UNCHANGED <<program, ownVars, main, thread, asked, rpc, rpcQueue, streamVars, canStart, aborted, used>>

\* A stop begins with an event, or in the finished slot of RPC.
StopCalled ==
  \/ TakeRpc("stop") /\ UNCHANGED thread
  \/ /\ thread["rpc"] = "leaving" /\ rpc = "no" /\ server # "off"
     /\ UNCHANGED <<rpcQueue, thread>>

\* Only the finished slot can find no server: the clicks alternate.
StopNothing ==
  /\ thread["rpc"] = "leaving" /\ rpc = "no" /\ server = "off"
  /\ thread' = [thread EXCEPT !["rpc"] = "finished"]
  /\ UNCHANGED <<program, ownVars, main, asked, serverVars, streamVars, canStart, aborted, used>>

\* grpcServer_ is null until the server's thread has set it.
StopTooEarly ==
  /\ StopCalled /\ server \in {"starting", "built"}
  /\ aborted' = TRUE
  /\ UNCHANGED <<program, ownVars, main, asked, rpc, server, streamVars, canStart, used>>

GatewayStopUnposted ==  \* mutant
  /\ program = "gateway" /\ server = "serving" /\ StopCalled
  /\ rpc' = "posted"
  /\ UNCHANGED <<program, ownVars, main, asked, server, streamVars, canStart, aborted, used>>

\* A gateway has PUSH close every stream first...
GatewayStop ==
  /\ program = "gateway" /\ server = "serving" /\ StopCalled
  /\ push' = Append(push, <<"closed">>)
  /\ rpc' = "posted"
  /\ UNCHANGED <<program, ownVars, main, asked, server, handler, shut, clients, late, canStart, aborted, used>>

\* ...and then, as the others do at once, refuses new calls and waits.
Shutdown ==
  /\ server = "serving"
  /\ \/ program = "gateway" /\ rpc = "posted" /\ UNCHANGED <<rpcQueue, thread>>
     \/ program # "gateway" /\ StopCalled
  /\ server' = "down" /\ rpc' = "waiting"
  /\ UNCHANGED <<program, ownVars, main, asked, streamVars, canStart, aborted, used>>

\* Every handler has ended: the server and its thread are freed.
Stopped ==
  /\ rpc = "waiting" /\ Calls = {}
  /\ rpc' = "no" /\ server' = "off" /\ late' = {}
  /\ push' = IF program = "cta" THEN Append(push, <<"closed">>) ELSE push
  /\ UNCHANGED <<program, ownVars, main, thread, asked, rpcQueue, handler, shut, clients, canStart, aborted, used>>

-----------------------------------------------------------------------------
(* gRPC threads: a handler per call *)

Accept(c) ==
  /\ server \in {"built", "serving"} /\ handler[c] = "none"
  /\ Spend("calls", MaxCalls)
  /\ handler' = [handler EXCEPT ![c] = "accepted"]
  /\ UNCHANGED <<program, ownVars, main, thread, asked, serverVars, push, shut, clients, late, canStart, aborted>>

\* A call of datafeed, or of another kind than ConnectPush, ends by itself.
Return(c) ==
  /\ handler[c] = "accepted"
  /\ handler' = [handler EXCEPT ![c] = "none"]
  /\ UNCHANGED <<program, ownVars, main, thread, asked, serverVars, push, shut, clients, late, canStart, aborted, used>>

\* ConnectPush makes its queue and posts it to PUSH.
ConnectPush(c) ==
  /\ Streaming /\ handler[c] = "accepted"
  /\ handler' = [handler EXCEPT ![c] = "reading"]
  /\ push' = Append(push, <<"connect", c>>)
  /\ shut' = shut \ {c}
  /\ late' = IF rpc = "no" THEN late ELSE late \cup {c}
  /\ UNCHANGED <<program, ownVars, main, thread, asked, serverVars, clients, canStart, aborted, used>>

\* DisconnectPush, called by the client while its stream is open.
DisconnectPush(c) ==
  /\ Streaming /\ handler[c] = "reading" /\ server \in {"built", "serving"}
  /\ Spend("calls", MaxCalls)
  /\ push' = Append(push, <<"disconnect", c>>)
  /\ UNCHANGED <<program, ownVars, main, thread, asked, serverVars, handler, shut, clients, late, canStart, aborted>>

\* dequeue returns null.
StreamEnds(c) ==
  /\ handler[c] = "reading" /\ c \in shut
  /\ handler' = [handler EXCEPT ![c] = "none"]
  /\ UNCHANGED <<program, ownVars, main, thread, asked, serverVars, push, shut, clients, late, canStart, aborted, used>>

\* A message meets a connection that is gone.
StreamBreaks(c) ==
  /\ handler[c] = "reading" /\ c \in Registered /\ c \notin shut
  /\ handler' = [handler EXCEPT ![c] = "none"]
  /\ push' = Append(push, <<"disconnect", c>>)
  /\ UNCHANGED <<program, ownVars, main, thread, asked, serverVars, shut, clients, late, canStart, aborted, used>>

-----------------------------------------------------------------------------
(* PUSH *)

TakePush(what) ==
  /\ thread["push"] = "running"
  /\ push # <<>> /\ Head(push)[1] = what
  /\ push' = Tail(push)
  /\ UNCHANGED <<program, ownVars, main, thread, asked, serverVars, handler, late, canStart, aborted, used>>

\* A queue the client had before is shut; the handler of this one lives on.
ConnectClient ==
  /\ TakePush("connect")
  /\ clients' = clients \cup {Head(push)[2]}
  /\ UNCHANGED shut

DisconnectClient ==
  /\ TakePush("disconnect")
  /\ shut' = shut \cup ({Head(push)[2]} \cap Registered)
  /\ clients' = clients \ {Head(push)[2]}

OnGatewayClosedKeepsQueues ==  \* mutant
  /\ TakePush("closed")
  /\ clients' = {}
  /\ UNCHANGED shut

OnGatewayClosed ==
  /\ TakePush("closed")
  /\ shut' = shut \cup Registered
  /\ clients' = {}

-----------------------------------------------------------------------------
MainSteps == NetStart \/ NetStop \/ ThreadExternal \/ Quit
ThreadSteps ==
  \/ Join \/ WaitForDone \/ PushFinished \/ RpcFinished \/ BlogicFinished
  \/ \E t \in Threads : Started(t) \/ Finished(t)
DbSteps == OnPing \/ ConnectDatafeed
GatewaySteps ==
  ConnectGateway \/ DisconnectGateway \/ Connect \/ StreamOver \/ OnGatewayDisconnected \/ ReaderFreed
ServerSteps == Build \/ Publish
RpcSteps ==
  Start \/ StopNothing \/ StopTooEarly \/ GatewayStop \/ Shutdown \/ Stopped
PushSteps == ConnectClient \/ DisconnectClient \/ OnGatewayClosed
HandlerSteps(c) == Return(c) \/ StreamEnds(c)
ClientSteps(c) == Accept(c) \/ ConnectPush(c) \/ DisconnectPush(c) \/ StreamBreaks(c)

Next ==
  /\ Alive
  /\ \/ MainSteps \/ ThreadSteps \/ RpcSteps \/ ServerSteps \/ PushSteps \/ DbSteps
     \/ GatewaySteps \/ RunOnExternal
     \/ \E c \in Clients : HandlerSteps(c) \/ ClientSteps(c)

Spec == Init /\ [][Next]_vars

\* The threads of the program, of the pool and of gRPC run; clicks, clients and the gateway
\* need not come.
Fairness ==
  /\ WF_vars(Alive /\ (Join \/ WaitForDone))
  /\ \A t \in Threads : WF_vars(Alive /\ (Started(t) \/ Finished(t)))
  /\ WF_vars(Alive /\ PushFinished) /\ WF_vars(Alive /\ RpcFinished)
  /\ WF_vars(Alive /\ BlogicFinished) /\ WF_vars(Alive /\ ReaderFreed)
  /\ WF_vars(Alive /\ RunOnExternal)
  /\ WF_vars(Alive /\ RpcSteps) /\ WF_vars(Alive /\ ServerSteps)
  /\ WF_vars(Alive /\ PushSteps)
  /\ \A c \in Clients : WF_vars(Alive /\ HandlerSteps(c))

FairSpec == Spec /\ Fairness

-----------------------------------------------------------------------------
(* Properties *)

\* What a thread outside the five uses is still there.  In a gateway and in
\* datafeed no call is being served when the threads it posts to have ended:
\* neither PUSH, which feeds and closes the streams, nor DB, which holds the
\* database open, may go before the server has stopped (the comment in
\* RpcService::stop asks for it).  cta quits without stopping its server.  A
\* reader thread hands what it reads to GatewayMgr, which ends with BLOGIC, and a
\* task of the pool works for the window, which goes when the shutdown returns.  (The
\* log goes before: a task that is late by then takes the process down.)
ServicesOutliveHandlers ==
  /\ \A c \in Clients :
       handler[c] # "none" /\ program # "cta"
         => thread["push"] # "finished" /\ thread["db"] # "finished" /\ main # Exited
  /\ Reading => thread["blogic"] # "finished"
  /\ tasks > 0 => main # Exited

\* While a stop of a gateway waits, each stream that was posted before
\* onGatewayClosed has its queue shut, or that event, behind the stream's own
\* connectClient, is still to come: Shutdown waits for nothing else.
StopClosesStreams ==
  program = "gateway" /\ rpc = "waiting" =>
    \A c \in Clients :
      handler[c] = "reading" /\ c \notin late /\ c \notin shut =>
        \E i \in DOMAIN push :
          push[i] = <<"closed">> /\ \A j \in i..Len(push) : push[j] # <<"connect", c>>

\* Quitting ends: shutdown joins every thread, unless one of three waits lasts for
\* ever: RPC waits for a stream that began behind onGatewayClosed, which nothing
\* closes any more; cta waits for its streams, which it has closed only after the
\* wait; or BLOGIC waits for its reader while the gateway leaves the stream open.
WaitsForOthers ==
  late # {} \/ (program = "cta" /\ rpc = "waiting") \/ (HasGateway /\ reader = "reading")

QuitEnds == main # 0 ~> (main = Exited \/ aborted \/ []WaitsForOthers)
=============================================================================
