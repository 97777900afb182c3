------------------------------ MODULE PushStream ------------------------------
(***************************************************************************)
(* The push streams between a gateway and its clients.  Server side, in    *)
(* ctpgateway and btgateway: the ConnectPush and DisconnectPush handlers   *)
(* on gRPC threads, the SafeQueue that feeds a stream, the registry        *)
(* clients_ on the PUSH thread, and RpcService, which starts and stops the *)
(* gRPC server.  Client side, in cta and datarecorder: GatewayMgr on       *)
(* BLOGIC with the reader thread of its stream and the ping timer.         *)
(*                                                                         *)
(* PUSH and each BLOGIC take one posted event at a time.  A message is any *)
(* of ticks, orders, pings...: only their number matters here.  A drop     *)
(* takes no time: the channel is ready again whenever the server listens.  *)
(***************************************************************************)
EXTENDS Naturals, Sequences

CONSTANTS
  Clients,   \* client ids, one per connected program
  Streams,   \* bound: ConnectPush calls at a time
  None,      \* no stream, no client
  MaxClicks, \* bound: clicks on GatewayConnect and GatewayDisconnect, per client
  MaxDrops,  \* bound: dropped connections
  MaxLate,   \* bound: DisconnectPush calls that miss their deadline
  MaxStops,  \* bound: clicks on NetStop
  MaxQueue   \* bound: messages in a SafeQueue

ASSUME NoneAssumption == None \notin Clients \cup Streams
ASSUME BoundsAssumption ==
  /\ MaxClicks \in Nat /\ MaxDrops \in Nat /\ MaxLate \in Nat /\ MaxStops \in Nat
  /\ MaxQueue \in Nat

VARIABLES
  server,     \* the gRPC server: "stopping" has posted onGatewayClosed, "shutdown" waits
  push,       \* the Qt event queue of PUSH
  registered, \* clients_ of PushService: the stream whose queue a client is fed by
  handler,    \* per stream its ConnectPush call: on its way, reading the queue, in Write
  owner,      \* per stream the client that opened it
  pending,    \* per stream the number of messages in its queue
  shut,       \* per stream shutdown_ of its queue
  broken,     \* per stream: its connection dropped
  wants,      \* per client: clients_ of its GatewayMgr holds the gateway
  reader,     \* per client the stream its reader thread reads, None without a thread
  over,       \* per client: that thread saw the end of the stream
  freeing,    \* per client freeReaderThread: calling DisconnectPush, then waiting
  late,       \* per client the DisconnectPush calls it has given up
  blogic,     \* per client the Qt event queue of BLOGIC
  canConnect, \* per client: GatewayConnect is enabled (and GatewayDisconnect is not)
  used        \* how much of each bound is used

streamVars == <<handler, owner, pending, shut, broken>>
clientVars == <<wants, reader, over, freeing, late, blogic, canConnect>>
vars == <<server, push, registered, streamVars, clientVars, used>>

-----------------------------------------------------------------------------
Event(what, c, s) == [what |-> what, client |-> c, stream |-> s]
PushEvents ==
  [what : {"connect"}, client : Clients, stream : Streams]
    \cup [what : {"disconnect"}, client : Clients, stream : {None}]
    \cup {Event("closed", None, None)}
Bounds == {"drops", "late", "stops"}

TypeOK ==
  /\ server \in {"serving", "stopping", "shutdown", "stopped"}
  /\ push \in Seq(PushEvents)
  /\ registered \in [Clients -> Streams \cup {None}]
  /\ handler \in [Streams -> {"none", "sent", "reading", "writing"}]
  /\ owner \in [Streams -> Clients \cup {None}]
  /\ pending \in [Streams -> Nat]
  /\ shut \in [Streams -> BOOLEAN]
  /\ broken \in [Streams -> BOOLEAN]
  /\ wants \in [Clients -> BOOLEAN]
  /\ reader \in [Clients -> Streams \cup {None}]
  /\ over \in [Clients -> BOOLEAN]
  /\ freeing \in [Clients -> {"no", "calling", "waiting"}]
  /\ late \in [Clients -> Nat]
  /\ blogic \in [Clients -> Seq({"connect", "disconnect", "gone"})]
  /\ canConnect \in [Clients -> BOOLEAN]
  /\ used \in [Bounds \cup Clients -> Nat]

Init ==
  /\ server = "serving"
  /\ push = <<>>
  /\ registered = [c \in Clients |-> None]
  /\ handler = [s \in Streams |-> "none"]
  /\ owner = [s \in Streams |-> None]
  /\ pending = [s \in Streams |-> 0]
  /\ shut = [s \in Streams |-> FALSE]
  /\ broken = [s \in Streams |-> FALSE]
  /\ wants = [c \in Clients |-> FALSE]
  /\ reader = [c \in Clients |-> None]
  /\ over = [c \in Clients |-> FALSE]
  /\ freeing = [c \in Clients |-> "no"]
  /\ late = [c \in Clients |-> 0]
  /\ blogic = [c \in Clients |-> <<>>]
  /\ canConnect = [c \in Clients |-> TRUE]
  /\ used = [b \in Bounds \cup Clients |-> 0]

Spend(what, limit) == used[what] < limit /\ used' = [used EXCEPT ![what] = @ + 1]

Listening == server \in {"serving", "stopping"}
Alive(s) == handler[s] \in {"reading", "writing"}
Announced(s) == \E i \in DOMAIN push : push[i].what = "connect" /\ push[i].stream = s

-----------------------------------------------------------------------------
(* A ConnectPush call on its gRPC thread *)

\* The handler makes its queue and posts connectClient.
Enter(s) ==
  /\ handler[s] = "sent" /\ Listening
  /\ handler' = [handler EXCEPT ![s] = "reading"]
  /\ pending' = [pending EXCEPT ![s] = 0]
  /\ shut' = [shut EXCEPT ![s] = FALSE]
  /\ push' = Append(push, Event("connect", owner[s], s))
  /\ UNCHANGED <<server, registered, owner, broken, clientVars, used>>

\* The server no longer listens, or the connection drops under the call.
Refuse(s) ==
  /\ handler[s] = "sent" /\ (~Listening \/ broken[s])
  /\ handler' = [handler EXCEPT ![s] = "none"]
  /\ UNCHANGED <<server, push, registered, owner, pending, shut, broken, clientVars, used>>

\* dequeue returns a message ...
Dequeue(s) ==
  /\ handler[s] = "reading" /\ ~shut[s] /\ pending[s] > 0
  /\ handler' = [handler EXCEPT ![s] = "writing"]
  /\ pending' = [pending EXCEPT ![s] = @ - 1]
  /\ UNCHANGED <<server, push, registered, owner, shut, broken, clientVars, used>>

\* ... or nullptr after shutdown, and what is left in the queue is dropped.
Leave(s) ==
  /\ handler[s] = "reading" /\ shut[s]
  /\ handler' = [handler EXCEPT ![s] = "none"]
  /\ pending' = [pending EXCEPT ![s] = 0]
  /\ UNCHANGED <<server, push, registered, owner, shut, broken, clientVars, used>>

Written(s) ==
  /\ handler[s] = "writing" /\ ~broken[s]
  /\ handler' = [handler EXCEPT ![s] = "reading"]
  /\ UNCHANGED <<server, push, registered, owner, pending, shut, broken, clientVars, used>>

WriteFailsSilently(s) ==   \* mutant
  /\ handler[s] = "writing" /\ broken[s]
  /\ handler' = [handler EXCEPT ![s] = "none"]
  /\ UNCHANGED <<server, push, registered, owner, pending, shut, broken, clientVars, used>>

\* The handler posts disconnectClient, by the name of the client, and ends.
WriteFails(s) ==
  /\ handler[s] = "writing" /\ broken[s]
  /\ handler' = [handler EXCEPT ![s] = "none"]
  /\ push' = Append(push, Event("disconnect", owner[s], None))
  /\ UNCHANGED <<server, registered, owner, pending, shut, broken, clientVars, used>>

-----------------------------------------------------------------------------
(* PushService on the PUSH thread *)

\* Deleting a GatewayClient shuts its queue down and sleeps for a second, which is
\* taken to be enough for the handler to leave: PUSH does nothing before.
Settled == \A s \in Streams : Alive(s) => ~shut[s]

TakePush(what) ==
  /\ Settled /\ push # <<>>
  /\ Head(push).what = what
  /\ push' = Tail(push)
  /\ UNCHANGED <<server, handler, owner, pending, broken, clientVars, used>>

ConnectClientKeepsOld ==   \* mutant
  /\ TakePush("connect")
  /\ LET c == Head(push).client
         s == Head(push).stream
     IN registered' = [registered EXCEPT ![c] = s]
  /\ UNCHANGED shut

\* A client that connects again replaces its old stream.
ConnectClient ==
  /\ TakePush("connect")
  /\ LET c == Head(push).client
         s == Head(push).stream
     IN /\ registered' = [registered EXCEPT ![c] = s]
        /\ shut' = IF registered[c] = None THEN shut ELSE [shut EXCEPT ![registered[c]] = TRUE]

DisconnectClient ==
  /\ TakePush("disconnect")
  /\ LET c == Head(push).client
     IN /\ registered' = [registered EXCEPT ![c] = None]
        /\ shut' = IF registered[c] = None THEN shut ELSE [shut EXCEPT ![registered[c]] = TRUE]

OnGatewayClosed ==
  /\ TakePush("closed")
  /\ registered' = [c \in Clients |-> None]
  /\ shut' = [s \in Streams |-> shut[s] \/ \E c \in Clients : registered[c] = s]

\* One message for the queue of every client.
Enqueued ==
  [s \in Streams |->
     IF \E c \in Clients : registered[c] = s THEN pending[s] + 1 ELSE pending[s]]

\* A tick, an order, the ping of the timer...
OnPing ==
  /\ Settled
  /\ \E c \in Clients : registered[c] # None
  /\ \A c \in Clients : registered[c] # None => pending[registered[c]] < MaxQueue
  /\ pending' = Enqueued
  /\ UNCHANGED <<server, push, registered, handler, owner, shut, broken, clientVars, used>>

-----------------------------------------------------------------------------
(* RpcService on the RPC thread *)

Stop ==
  /\ server = "serving"
  /\ Spend("stops", MaxStops)
  /\ server' = "stopping"
  /\ push' = Append(push, Event("closed", None, None))
  /\ UNCHANGED <<registered, streamVars, clientVars>>

\* grpcServer_->Shutdown(): no new calls, and it returns when no handler runs.
Shutdown ==
  /\ server = "stopping"
  /\ server' = "shutdown"
  /\ UNCHANGED <<push, registered, streamVars, clientVars, used>>

Stopped ==
  /\ server = "shutdown"
  /\ \A s \in Streams : ~Alive(s)
  /\ server' = "stopped"
  /\ UNCHANGED <<push, registered, streamVars, clientVars, used>>

Start ==
  /\ server = "stopped"
  /\ server' = "serving"
  /\ UNCHANGED <<push, registered, streamVars, clientVars, used>>

-----------------------------------------------------------------------------
(* GatewayMgr of a client, on its BLOGIC thread *)

Click(c, what) ==
  /\ Spend(c, MaxClicks)
  /\ canConnect[c] = (what = "connect")
  /\ canConnect' = [canConnect EXCEPT ![c] = ~@]
  /\ blogic' = [blogic EXCEPT ![c] = Append(@, what)]
  /\ UNCHANGED <<server, push, registered, streamVars, wants, reader, over, freeing, late>>

Take(c, what) ==
  /\ freeing[c] = "no" /\ blogic[c] # <<>>
  /\ Head(blogic[c]) = what
  /\ blogic' = [blogic EXCEPT ![c] = Tail(@)]
  /\ UNCHANGED <<server, push, registered, streamVars, reader, over, late, canConnect, used>>

\* freeReaderThread starts, if there is a thread: DisconnectPush is called.
FreeReaderThread(c) ==
  freeing' = [freeing EXCEPT ![c] = IF reader[c] = None THEN "no" ELSE "calling"]

ConnectGateway(c) ==
  /\ Take(c, "connect")
  /\ wants' = [wants EXCEPT ![c] = TRUE]
  /\ FreeReaderThread(c)

DisconnectGateway(c) ==
  /\ Take(c, "disconnect")
  /\ wants' = [wants EXCEPT ![c] = FALSE]
  /\ FreeReaderThread(c)

OnGatewayDisconnectedIgnored(c) ==   \* mutant
  /\ Take(c, "gone")
  /\ UNCHANGED <<wants, freeing>>

\* Posted by a reader thread that saw the end of its stream, maybe an earlier one.
OnGatewayDisconnected(c) ==
  /\ Take(c, "gone")
  /\ FreeReaderThread(c)
  /\ UNCHANGED wants

\* The handler posts disconnectClient and answers.
DisconnectPush(c) ==
  /\ freeing[c] = "calling" /\ Listening
  /\ freeing' = [freeing EXCEPT ![c] = "waiting"]
  /\ push' = Append(push, Event("disconnect", c, None))
  /\ UNCHANGED <<server, registered, streamVars, wants, reader, over, late, blogic,
                 canConnect, used>>

DisconnectFails(c) ==
  /\ freeing[c] = "calling" /\ ~Listening
  /\ freeing' = [freeing EXCEPT ![c] = "waiting"]
  /\ UNCHANGED <<server, push, registered, streamVars, wants, reader, over, late, blogic,
                 canConnect, used>>

\* The deadline passes; the call may still be on its way.
Deadline(c) ==
  /\ freeing[c] = "calling" /\ Spend("late", MaxLate)
  /\ freeing' = [freeing EXCEPT ![c] = "waiting"]
  /\ late' = [late EXCEPT ![c] = @ + 1]
  /\ UNCHANGED <<server, push, registered, streamVars, wants, reader, over, blogic, canConnect>>

LateDisconnectPush(c) ==
  /\ late[c] > 0 /\ Listening
  /\ late' = [late EXCEPT ![c] = @ - 1]
  /\ push' = Append(push, Event("disconnect", c, None))
  /\ UNCHANGED <<server, registered, streamVars, wants, reader, over, freeing, blogic,
                 canConnect, used>>

LoseDisconnectPush(c) ==
  /\ late[c] > 0
  /\ late' = [late EXCEPT ![c] = @ - 1]
  /\ UNCHANGED <<server, push, registered, streamVars, wants, reader, over, freeing, blogic,
                 canConnect, used>>

\* reader_thread_->wait() returns and the thread is deleted.
ReaderFreed(c) ==
  /\ freeing[c] = "waiting" /\ over[c]
  /\ freeing' = [freeing EXCEPT ![c] = "no"]
  /\ reader' = [reader EXCEPT ![c] = None]
  /\ over' = [over EXCEPT ![c] = FALSE]
  /\ UNCHANGED <<server, push, registered, streamVars, wants, late, blogic, canConnect, used>>

\* A stream that nothing refers to any more, to be used for the next call.
Free(s) ==
  /\ handler[s] = "none" /\ ~Announced(s)
  /\ \A c \in Clients : registered[c] # s /\ reader[c] # s

\* The ping timer opens a stream where there is none.
Connect(c, s) ==
  /\ freeing[c] = "no" /\ wants[c] /\ reader[c] = None
  /\ Listening /\ Free(s)
  /\ reader' = [reader EXCEPT ![c] = s]
  /\ handler' = [handler EXCEPT ![s] = "sent"]
  /\ owner' = [owner EXCEPT ![s] = c]
  /\ broken' = [broken EXCEPT ![s] = FALSE]
  /\ UNCHANGED <<server, push, registered, pending, shut, wants, over, freeing, late, blogic,
                 canConnect, used>>

\* The reader thread: Read fails, onGatewayDisconnected is posted.
ReaderEnds(c) ==
  /\ reader[c] # None /\ ~over[c]
  /\ handler[reader[c]] = "none" \/ broken[reader[c]]
  /\ over' = [over EXCEPT ![c] = TRUE]
  /\ blogic' = [blogic EXCEPT ![c] = Append(@, "gone")]
  /\ UNCHANGED <<server, push, registered, streamVars, wants, reader, freeing, late,
                 canConnect, used>>

\* The connection of a client drops, with its streams and the call it is making.
Drop(c) ==
  /\ reader[c] # None /\ ~broken[reader[c]]
  /\ Spend("drops", MaxDrops)
  /\ broken' = [s \in Streams |-> broken[s] \/ owner[s] = c]
  /\ freeing' = [freeing EXCEPT ![c] = IF @ = "calling" THEN "waiting" ELSE @]
  /\ UNCHANGED <<server, push, registered, handler, owner, pending, shut, wants, reader, over,
                 late, blogic, canConnect>>

-----------------------------------------------------------------------------
Handlers ==
  \E s \in Streams :
    Enter(s) \/ Refuse(s) \/ Dequeue(s) \/ Leave(s) \/ Written(s) \/ WriteFails(s)
Push == ConnectClient \/ DisconnectClient \/ OnGatewayClosed \/ OnPing
Rpc == Stop \/ Shutdown \/ Stopped \/ Start
BlogicTakes(c) == ConnectGateway(c) \/ DisconnectGateway(c) \/ OnGatewayDisconnected(c)
Calls(c) == DisconnectPush(c) \/ DisconnectFails(c)
Client(c) ==
  \/ Click(c, "connect") \/ Click(c, "disconnect")
  \/ BlogicTakes(c) \/ Calls(c)
  \/ Deadline(c) \/ LateDisconnectPush(c) \/ LoseDisconnectPush(c)
  \/ ReaderFreed(c) \/ ReaderEnds(c) \/ Drop(c)
  \/ \E s \in Streams : Connect(c, s)

Next == Handlers \/ Push \/ Rpc \/ \E c \in Clients : Client(c)

Spec == Init /\ [][Next]_vars

(***************************************************************************)
(* Threads run, event loops take their events, timers fire and calls that  *)
(* meet no failure are answered.  Nothing is assumed of clicks, drops,     *)
(* missed deadlines and the buttons of the server.                         *)
(***************************************************************************)
Fairness ==
  /\ \A s \in Streams :
       /\ WF_vars(Enter(s)) /\ WF_vars(Refuse(s))
       /\ WF_vars(Dequeue(s) \/ Leave(s) \/ Written(s) \/ WriteFails(s))
  /\ WF_vars(ConnectClient \/ DisconnectClient \/ OnGatewayClosed) /\ WF_vars(OnPing)
  /\ WF_vars(Shutdown) /\ WF_vars(Stopped)
  /\ \A c \in Clients :
       /\ WF_vars(BlogicTakes(c)) /\ WF_vars(Calls(c))
       /\ WF_vars(ReaderFreed(c)) /\ WF_vars(ReaderEnds(c))
       /\ WF_vars(\E s \in Streams : Connect(c, s))

FairSpec == Spec /\ Fairness

-----------------------------------------------------------------------------
(* Properties *)

\* A handler that reads an open queue can always be reached: its stream is
\* registered, or about to be.  Otherwise nothing could feed or end it, and its
\* thread would be lost, however connects, late disconnects and stops interleave.
NoOrphanStream ==
  \A s \in Streams :
    Alive(s) /\ ~shut[s] => Announced(s) \/ \E c \in Clients : registered[c] = s

\* The registry forgets the streams that have ended: for each an event that removes
\* it is on its way, so no queue without a reader grows for ever.
DeadUnregistered ==
  \A c \in Clients :
    registered[c] # None /\ ~Alive(registered[c]) =>
      \E i \in DOMAIN push : push[i].what = "closed" \/ push[i] = Event("disconnect", c, None)

\* A reader thread that has seen the end of its stream is freed, or an event that
\* frees it is on its way; only then does the ping timer connect again.
ReaderNotForgotten ==
  \A c \in Clients :
    over[c] => freeing[c] # "no" \/ \E i \in DOMAIN blogic[c] : blogic[c][i] = "gone"

Streaming(c) ==
  /\ reader[c] # None /\ ~over[c]
  /\ Alive(reader[c]) /\ ~broken[reader[c]]
  /\ registered[c] = reader[c]

\* Whatever drops, and after every restart of the server, a client that wants a
\* stream gets one ("1.2" of the conventions on streams).  Checked for a user who
\* connects and disconnects once: a DisconnectPush that overtakes its ConnectPush
\* ends nothing, and a client that waits in freeReaderThread takes no later click.
StreamReturns ==
  \A c \in Clients : wants[c] /\ server = "serving" ~>
    Streaming(c) \/ ~wants[c] \/ server # "serving"

\* A handler whose connection dropped ends: a ping finds out ("1.1").
BrokenStreamEnds == \A s \in Streams : Alive(s) /\ broken[s] ~> ~Alive(s)

=============================================================================
