--------------------------- MODULE ServiceMgrProofs ---------------------------
(***************************************************************************)
(* Theorems about ServiceMgr for every set of clients and every bound.     *)
(*   - Joined follows the joins: RPC is told to quit before PUSH and DB,   *)
(*     and in its finished slot takes the server down, which it leaves     *)
(*     only without calls; BLOGIC ends without a reader thread and MAIN    *)
(*     without a task of the pool.  It gives ServicesOutliveHandlers.      *)
(*   - Closing follows the queue of PUSH: a stream that is read is         *)
(*     registered, announced or shut, and what a waiting stop has posted   *)
(*     lies behind the announcements.  It gives StopClosesStreams.         *)
(***************************************************************************)
EXTENDS ServiceMgr, TLAPS

USE DEF ownVars

AskedInOrder ==
  /\ "push" \in asked => main >= 4
  /\ "db" \in asked => main >= 5
  /\ \A t \in Threads : thread[t] \in {"leaving", "finished"} => t \in asked
  /\ main >= 4 => thread["rpc"] = "finished"
  /\ main = 0 => asked = {}

\* BLOGIC ends without a reader thread, and MAIN without a task of the pool.
OwnThreads ==
  /\ blogic = "freeing" => thread["blogic"] = "running"
  /\ Reading => thread["blogic"] # "finished"
  /\ tasks > 0 => main # Exited

ServerDown ==
  /\ thread["rpc"] = "finished" /\ program # "cta" => server = "off"
  /\ server \in {"off", "starting"} => \A c \in Clients : handler[c] = "none"

Joined == TypeOK /\ AskedInOrder /\ ServerDown /\ OwnThreads

Announced(c) == \E i \in DOMAIN push : push[i] = <<"connect", c>>

ReadingKnown ==
  \A c \in Clients :
    handler[c] = "reading" /\ c \notin shut => c \in clients \/ Announced(c)

CloseBehind(c) ==
  \E i \in DOMAIN push :
    push[i] = <<"closed">> /\ \A j \in i..Len(push) : push[j] # <<"connect", c>>

StopPosted ==
  program = "gateway" /\ rpc \in {"posted", "waiting"} =>
    \A c \in Clients :
      handler[c] = "reading" /\ c \notin late /\ c \notin shut => CloseBehind(c)

Closing == ReadingKnown /\ StopPosted

-----------------------------------------------------------------------------
(* Sequences and constants *)

\* Append adds one element at the end.
LEMMA AppendIs ==
  ASSUME NEW S, NEW q \in Seq(S), NEW e \in S
  PROVE  /\ Append(q, e) \in Seq(S)
         /\ Len(Append(q, e)) = Len(q) + 1
         /\ DOMAIN Append(q, e) = DOMAIN q \cup {Len(q) + 1}
         /\ Append(q, e)[Len(q) + 1] = e
         /\ \A i \in DOMAIN q : Append(q, e)[i] = q[i] /\ i # Len(q) + 1
  OBVIOUS

\* Tail shifts all but the first.
LEMMA TailIs ==
  ASSUME NEW S, NEW q \in Seq(S), q # <<>>
  PROVE  /\ Tail(q) \in Seq(S) /\ Head(q) \in S
         /\ 1 \in DOMAIN q /\ Head(q) = q[1]
         /\ Len(q) \in Nat /\ Len(Tail(q)) = Len(q) - 1
         /\ \A i \in DOMAIN Tail(q) : i \in Nat /\ i + 1 \in DOMAIN q /\ Tail(q)[i] = q[i + 1]
         /\ \A i \in DOMAIN q : i # 1 => i - 1 \in DOMAIN Tail(q) /\ Tail(q)[i - 1] = q[i]
  OBVIOUS

\* Five threads are joined.
LEMMA JoinOrderIs ==
  /\ DOMAIN JoinOrder = 1..5 /\ Freed = 6 /\ Exited = 7
  /\ JoinOrder[1] = "flogic" /\ JoinOrder[2] = "blogic" /\ JoinOrder[3] = "rpc"
  /\ JoinOrder[4] = "push" /\ JoinOrder[5] = "db"
  /\ \A i \in 1..5 : JoinOrder[i] \in Threads
  BY DEF JoinOrder, Freed, Exited, Threads

LEMMA EventType ==
  ASSUME NEW c \in Clients
  PROVE  /\ <<"connect", c>> \in PushEvents /\ <<"disconnect", c>> \in PushEvents
         /\ <<"closed">> \in PushEvents
  BY DEF PushEvents

\* What the head of the queue of PUSH is.
LEMMA HeadIs ==
  ASSUME TypeOK, push # <<>>
  PROVE  /\ Head(push) \in PushEvents /\ Tail(push) \in Seq(PushEvents)
         /\ Head(push)[1] = "connect" =>
              Head(push)[2] \in Clients /\ Head(push) = <<"connect", Head(push)[2]>>
         /\ Head(push)[1] = "disconnect" =>
              Head(push)[2] \in Clients /\ Head(push) = <<"disconnect", Head(push)[2]>>
         /\ Head(push)[1] = "closed" => Head(push) = <<"closed">>
<1>1. Head(push) \in PushEvents /\ Tail(push) \in Seq(PushEvents)
  BY TailIs DEF TypeOK
<1>2. QED  BY <1>1 DEF PushEvents

-----------------------------------------------------------------------------
(* Types *)

LEMMA SpendType ==
  ASSUME TypeOK, NEW what \in {"clicks", "calls"}, NEW limit, Spend(what, limit)
  PROVE  used' \in [{"clicks", "calls"} -> Nat]
  BY DEF TypeOK, Spend

LEMMA TypeMain ==
  ASSUME TypeOK, MainSteps \/ Join \/ WaitForDone
  PROVE  TypeOK'
<1>1. CASE NetStart
  BY <1>1, SpendType, AppendIs DEF NetStart, TypeOK, streamVars
<1>2. CASE NetStop
  BY <1>2, SpendType, AppendIs DEF NetStop, TypeOK, streamVars
<1>3. CASE Quit
  BY <1>3, JoinOrderIs DEF Quit, TypeOK, streamVars, serverVars
<1>4. CASE Join
  BY <1>4, JoinOrderIs DEF Join, TypeOK, streamVars, serverVars
<1>5. CASE ThreadExternal
  BY <1>5, SpendType DEF ThreadExternal, Run, TypeOK, streamVars, serverVars
<1>6. CASE WaitForDone
  BY <1>6, JoinOrderIs DEF WaitForDone, TypeOK, streamVars, serverVars
<1>7. QED  BY <1>1, <1>2, <1>3, <1>4, <1>5, <1>6 DEF MainSteps

LEMMA TypeThreads ==
  ASSUME TypeOK, ThreadSteps \/ DbSteps
  PROVE  TypeOK'
<1>1. CASE Join \/ WaitForDone
  BY <1>1, TypeMain
<1>2. CASE PushFinished
  BY <1>2 DEF PushFinished, Leaves, TypeOK, serverVars, Registered, Threads
<1>3. CASE RpcFinished
  BY <1>3 DEF RpcFinished, Leaves, TypeOK, serverVars, streamVars, Threads
<1>4. ASSUME NEW t \in Threads, Started(t) \/ Finished(t)
      PROVE  TypeOK'
  BY <1>4 DEF Started, Finished, Leaves, TypeOK, serverVars, streamVars
<1>5. CASE DbSteps
  BY <1>5, SpendType DEF DbSteps, OnPing, ConnectDatafeed, IsCurrentOn, TypeOK, serverVars, streamVars
<1>6. CASE BlogicFinished
  BY <1>6 DEF BlogicFinished, Leaves, TypeOK, serverVars, streamVars, Threads
<1>7. QED  BY <1>1, <1>2, <1>3, <1>4, <1>5, <1>6 DEF ThreadSteps

LEMMA TypeGateway ==
  ASSUME TypeOK, GatewaySteps \/ RunOnExternal
  PROVE  TypeOK'
<1>1. CASE ConnectGateway \/ DisconnectGateway
  BY <1>1, SpendType DEF ConnectGateway, DisconnectGateway, TypeOK, serverVars, streamVars
<1>2. CASE Connect \/ StreamOver \/ OnGatewayDisconnected
  BY <1>2 DEF Connect, StreamOver, OnGatewayDisconnected, TypeOK, serverVars, streamVars
<1>3. CASE ReaderFreed
  BY <1>3 DEF ReaderFreed, TypeOK, serverVars, streamVars, Threads
<1>4. CASE RunOnExternal
  BY <1>4 DEF RunOnExternal, LogFreed, IsCurrentOn, TypeOK, serverVars, streamVars
<1>5. QED  BY <1>1, <1>2, <1>3, <1>4 DEF GatewaySteps

LEMMA TakeRpcType ==
  ASSUME TypeOK, NEW event, TakeRpc(event)
  PROVE  rpcQueue' \in Seq({"start", "stop"})
  BY TailIs DEF TypeOK, TakeRpc

LEMMA StopCalledType ==
  ASSUME TypeOK, StopCalled
  PROVE  /\ rpcQueue' \in Seq({"start", "stop"})
         /\ UNCHANGED thread /\ rpc = "no" /\ thread["rpc"] # "finished"
  BY TakeRpcType DEF StopCalled, TakeRpc, TypeOK

LEMMA TypeServer ==
  ASSUME TypeOK, RpcSteps \/ ServerSteps
  PROVE  TypeOK'
<1>1. CASE Start
  BY <1>1, TakeRpcType DEF Start, TypeOK, streamVars
<1>2. CASE StopNothing
  BY <1>2 DEF StopNothing, TypeOK, streamVars, serverVars, Threads
<1>3. CASE StopTooEarly
  BY <1>3, StopCalledType DEF StopTooEarly, TypeOK, streamVars
<1>4. CASE GatewayStop
  <2>1. push' \in Seq(PushEvents)
    BY <1>4, AppendIs DEF GatewayStop, TypeOK, PushEvents
  <2>2. QED  BY <1>4, <2>1, StopCalledType DEF GatewayStop, TypeOK
<1>5. CASE Shutdown
  BY <1>5, StopCalledType DEF Shutdown, TypeOK, streamVars
<1>6. CASE Stopped
  <2>1. push' \in Seq(PushEvents)
    BY <1>6, AppendIs DEF Stopped, TypeOK, PushEvents
  <2>2. QED  BY <1>6, <2>1 DEF Stopped, TypeOK
<1>7. CASE ServerSteps
  BY <1>7 DEF ServerSteps, Build, Publish, TypeOK, streamVars
<1>8. QED  BY <1>1, <1>2, <1>3, <1>4, <1>5, <1>6, <1>7 DEF RpcSteps

LEMMA TypeHandlers ==
  ASSUME TypeOK, NEW c \in Clients, HandlerSteps(c) \/ ClientSteps(c)
  PROVE  TypeOK'
<1>1. CASE Return(c) \/ StreamEnds(c)
  BY <1>1 DEF Return, StreamEnds, TypeOK, serverVars
<1>2. CASE Accept(c)
  BY <1>2, SpendType DEF Accept, TypeOK, serverVars
<1>3. CASE ConnectPush(c)
  <2>1. push' \in Seq(PushEvents)
    BY <1>3, EventType, AppendIs DEF ConnectPush, TypeOK
  <2>2. QED  BY <1>3, <2>1 DEF ConnectPush, TypeOK, serverVars
<1>4. CASE DisconnectPush(c)
  <2>1. push' \in Seq(PushEvents)
    BY <1>4, EventType, AppendIs DEF DisconnectPush, TypeOK
  <2>2. QED  BY <1>4, <2>1, SpendType DEF DisconnectPush, TypeOK, serverVars
<1>5. CASE StreamBreaks(c)
  <2>1. push' \in Seq(PushEvents)
    BY <1>5, EventType, AppendIs DEF StreamBreaks, TypeOK
  <2>2. QED  BY <1>5, <2>1 DEF StreamBreaks, TypeOK, serverVars
<1>6. QED  BY <1>1, <1>2, <1>3, <1>4, <1>5 DEF HandlerSteps, ClientSteps

LEMMA TypePush ==
  ASSUME TypeOK, PushSteps
  PROVE  TypeOK'
<1>1. push # <<>> /\ push' = Tail(push) /\ push' \in Seq(PushEvents)
  BY HeadIs DEF PushSteps, ConnectClient, DisconnectClient, OnGatewayClosed, TakePush
<1>2. CASE ConnectClient
  BY <1>1, <1>2, HeadIs DEF ConnectClient, TakePush, TypeOK, serverVars
<1>3. CASE DisconnectClient
  BY <1>1, <1>3 DEF DisconnectClient, TakePush, TypeOK, serverVars, Registered
<1>4. CASE OnGatewayClosed
  BY <1>1, <1>4 DEF OnGatewayClosed, TakePush, TypeOK, serverVars, Registered
<1>5. QED  BY <1>2, <1>3, <1>4 DEF PushSteps

\* Every step keeps the types.
LEMMA TypeStep ==
  ASSUME TypeOK, [Next]_vars
  PROVE  TypeOK'
<1>1. CASE UNCHANGED vars
  BY <1>1 DEF vars, serverVars, streamVars, TypeOK
<1>2. QED
  BY <1>1, TypeMain, TypeThreads, TypeServer, TypePush, TypeHandlers, TypeGateway DEF Next

LEMMA TypeInit == ASSUME Init PROVE TypeOK
<1>1. push \in Seq(PushEvents) /\ rpcQueue \in Seq({"start", "stop"})
  BY DEF Init
<1>2. main \in 0..Exited
  BY JoinOrderIs DEF Init
<1>3. QED  BY <1>1, <1>2 DEF Init, TypeOK, NoGateway, InitPool

\* The state of the program stays well-typed: TypeOK is an invariant.
THEOREM TypeCorrect == Spec => []TypeOK
<1>1. QED  BY TypeInit, TypeStep, PTL DEF Spec

-----------------------------------------------------------------------------
(* Streams are closed by a stop *)

LEMMA AnnouncedAppend ==
  ASSUME TypeOK, NEW e \in PushEvents, push' = Append(push, e), NEW c \in Clients
  PROVE  /\ Announced(c) => Announced(c)'
         /\ e # <<"connect", c>> /\ CloseBehind(c) => CloseBehind(c)'
<1>1. push \in Seq(PushEvents)
  BY DEF TypeOK
<1>2. /\ Len(push') = Len(push) + 1 /\ DOMAIN push' = DOMAIN push \cup {Len(push) + 1}
      /\ push'[Len(push) + 1] = e /\ \A i \in DOMAIN push : push'[i] = push[i]
      /\ DOMAIN push = 1..Len(push) /\ Len(push) \in Nat
  BY <1>1, AppendIs
<1>3. Announced(c) => Announced(c)'
  BY <1>2 DEF Announced
<1>4. ASSUME e # <<"connect", c>>, CloseBehind(c)
      PROVE  CloseBehind(c)'
  <2>1. PICK i \in DOMAIN push :
          push[i] = <<"closed">> /\ \A j \in i..Len(push) : push[j] # <<"connect", c>>
    BY <1>4 DEF CloseBehind
  <2>2. i \in DOMAIN push' /\ push'[i] = <<"closed">>
    BY <1>2, <2>1
  <2>3. \A j \in i..Len(push') : j \in i..Len(push) \/ j = Len(push) + 1
    BY <1>2
  <2>4. \A j \in i..Len(push) : j \in DOMAIN push
    BY <1>2, <2>1
  <2>5. \A j \in i..Len(push') : push'[j] # <<"connect", c>>
    BY <1>2, <1>4, <2>1, <2>3, <2>4
  <2>6. QED  BY <2>2, <2>5 DEF CloseBehind
<1>5. QED  BY <1>3, <1>4

LEMMA AnnouncedTail ==
  ASSUME TypeOK, push # <<>>, push' = Tail(push), NEW c \in Clients
  PROVE  /\ Announced(c) /\ Head(push) # <<"connect", c>> => Announced(c)'
         /\ CloseBehind(c) /\ Head(push) # <<"closed">> => CloseBehind(c)'
         /\ CloseBehind(c) => ~Announced(c) \/ CloseBehind(c)' \/ Head(push) # <<"closed">>
<1>1. push \in Seq(PushEvents)
  BY DEF TypeOK
<1>2. /\ Head(push) = push[1] /\ Len(push) \in Nat /\ Len(push') = Len(push) - 1
      /\ DOMAIN push = 1..Len(push) /\ DOMAIN push' = 1..Len(push')
      /\ \A i \in DOMAIN push' : i \in Nat /\ i + 1 \in DOMAIN push /\ push'[i] = push[i + 1]
      /\ \A i \in DOMAIN push : i # 1 => i - 1 \in DOMAIN push' /\ push'[i - 1] = push[i]
  BY <1>1, TailIs
<1>3. ASSUME Announced(c), Head(push) # <<"connect", c>>
      PROVE  Announced(c)'
  <2>1. PICK i \in DOMAIN push : push[i] = <<"connect", c>>
    BY <1>3 DEF Announced
  <2>2. i - 1 \in DOMAIN push' /\ push'[i - 1] = <<"connect", c>>
    BY <1>2, <1>3, <2>1
  <2>3. QED  BY <2>2 DEF Announced
<1>4. ASSUME NEW i \in DOMAIN push, i # 1, push[i] = <<"closed">>,
             \A j \in i..Len(push) : push[j] # <<"connect", c>>
      PROVE  CloseBehind(c)'
  <2>1. i - 1 \in DOMAIN push' /\ push'[i - 1] = <<"closed">>
    BY <1>2, <1>4
  <2>2. ASSUME NEW j \in (i - 1)..Len(push')
        PROVE  push'[j] # <<"connect", c>>
    <3>1. j \in DOMAIN push' /\ j + 1 \in i..Len(push)
      BY <1>2, <2>1, <2>2
    <3>2. QED  BY <1>2, <1>4, <3>1
  <2>3. QED  BY <2>1, <2>2 DEF CloseBehind
<1>5. ASSUME CloseBehind(c)
      PROVE  /\ Head(push) # <<"closed">> => CloseBehind(c)'
             /\ ~Announced(c) \/ CloseBehind(c)'
  <2>1. PICK i \in DOMAIN push :
          push[i] = <<"closed">> /\ \A j \in i..Len(push) : push[j] # <<"connect", c>>
    BY <1>5 DEF CloseBehind
  <2>2. CASE i = 1
    BY <1>2, <2>1, <2>2 DEF Announced
  <2>3. CASE i # 1
    BY <1>4, <2>1, <2>3
  <2>4. QED  BY <2>2, <2>3
<1>6. QED  BY <1>3, <1>5

\* Steps that leave the streams alone, and may end a stop.
LEMMA ClosingKept ==
  ASSUME Closing, UNCHANGED <<program, push, handler, shut, clients, late>>,
         rpc' \in {"posted", "waiting"} => rpc \in {"posted", "waiting"} \/ program # "gateway"
  PROVE  Closing'
  BY DEF Closing, ReadingKnown, StopPosted, Announced, CloseBehind

LEMMA ClosingServer ==
  ASSUME TypeOK, Closing, RpcSteps \/ ServerSteps
  PROVE  Closing'
<1>1. CASE Start \/ StopNothing \/ StopTooEarly \/ ServerSteps
  BY <1>1, ClosingKept DEF Start, StopNothing, StopTooEarly, ServerSteps, Build, Publish,
                           streamVars, serverVars
<1>2. CASE Shutdown
  BY <1>2, ClosingKept DEF Shutdown, streamVars
<1>3. CASE GatewayStop
  <2>1. push' = Append(push, <<"closed">>) /\ <<"closed">> \in PushEvents
    BY <1>3 DEF GatewayStop, PushEvents
  <2>2. \A c \in Clients : Announced(c) => Announced(c)'
    BY <2>1, AnnouncedAppend
  <2>3. UNCHANGED <<handler, shut, clients>>
    BY <1>3 DEF GatewayStop
  <2>4. \A c \in Clients : CloseBehind(c)'
    <3>1. /\ Len(push) + 1 \in DOMAIN push' /\ push'[Len(push) + 1] = <<"closed">>
          /\ Len(push') = Len(push) + 1 /\ Len(push) \in Nat
      BY <2>1, AppendIs DEF TypeOK
    <3>2. \A c \in Clients : <<"closed">> # <<"connect", c>>
      OBVIOUS
    <3>3. \A j \in (Len(push) + 1)..Len(push') : push'[j] = <<"closed">>
      BY <3>1
    <3>4. QED  BY <3>1, <3>2, <3>3 DEF CloseBehind
  <2>5. QED  BY <2>2, <2>3, <2>4 DEF Closing, ReadingKnown, StopPosted
<1>4. CASE Stopped
  BY <1>4 DEF Stopped, Calls, Closing, ReadingKnown, StopPosted
<1>5. QED  BY <1>1, <1>2, <1>3, <1>4 DEF RpcSteps

LEMMA ClosingHandlers ==
  ASSUME TypeOK, Closing, NEW c \in Clients, HandlerSteps(c) \/ ClientSteps(c)
  PROVE  Closing'
<1>1. CASE Return(c) \/ StreamEnds(c) \/ Accept(c)
  <2>1. /\ UNCHANGED <<program, rpc, push, shut, clients, late>>
        /\ \A d \in Clients : handler'[d] = "reading" => handler[d] = "reading"
    BY <1>1 DEF Return, StreamEnds, Accept, TypeOK, serverVars
  <2>2. QED  BY <2>1 DEF Closing, ReadingKnown, StopPosted, Announced, CloseBehind
<1>2. CASE ConnectPush(c)
  <2>1. /\ push' = Append(push, <<"connect", c>>) /\ <<"connect", c>> \in PushEvents
        /\ shut' = shut \ {c} /\ UNCHANGED <<program, rpc, clients>>
        /\ \A d \in Clients : d # c => handler'[d] = handler[d]
        /\ late \subseteq late' /\ (rpc # "no" => c \in late')
    BY <1>2, EventType DEF ConnectPush, TypeOK, serverVars
  <2>2. \A d \in Clients : d # c => <<"connect", c>> # <<"connect", d>>
    OBVIOUS
  <2>3. \A d \in Clients : /\ Announced(d) => Announced(d)'
                           /\ d # c /\ CloseBehind(d) => CloseBehind(d)'
    BY <2>1, <2>2, AnnouncedAppend
  <2>4. Announced(c)'
    <3>1. Len(push) + 1 \in DOMAIN push' /\ push'[Len(push) + 1] = <<"connect", c>>
      BY <2>1, AppendIs DEF TypeOK
    <3>2. QED  BY <3>1 DEF Announced
  <2>5. ReadingKnown'
    BY <2>1, <2>3, <2>4 DEF Closing, ReadingKnown
  <2>6. StopPosted'
    BY <2>1, <2>3 DEF Closing, StopPosted
  <2>7. QED  BY <2>5, <2>6 DEF Closing
<1>3. CASE DisconnectPush(c) \/ StreamBreaks(c)
  <2>1. /\ push' = Append(push, <<"disconnect", c>>) /\ <<"disconnect", c>> \in PushEvents
        /\ UNCHANGED <<program, rpc, shut, clients, late>>
        /\ \A d \in Clients : handler'[d] = "reading" => handler[d] = "reading"
    BY <1>3, EventType DEF DisconnectPush, StreamBreaks, TypeOK, serverVars
  <2>2. \A d \in Clients : <<"disconnect", c>> # <<"connect", d>>
    OBVIOUS
  <2>3. \A d \in Clients : /\ Announced(d) => Announced(d)'
                           /\ CloseBehind(d) => CloseBehind(d)'
    BY <2>1, <2>2, AnnouncedAppend
  <2>4. QED  BY <2>1, <2>3 DEF Closing, ReadingKnown, StopPosted
<1>4. QED  BY <1>1, <1>2, <1>3 DEF HandlerSteps, ClientSteps

LEMMA ClosingPush ==
  ASSUME TypeOK, Closing, PushSteps
  PROVE  Closing'
<1>1. /\ push # <<>> /\ push' = Tail(push)
      /\ UNCHANGED <<program, rpc, handler, late>>
  BY DEF PushSteps, ConnectClient, DisconnectClient, OnGatewayClosed, TakePush, serverVars
<1>2. \A c \in Clients : c \in Registered <=> c \in clients /\ ~Announced(c)
  BY DEF Registered, Announced, TypeOK
<1>3. CASE ConnectClient
  <2>1. /\ Head(push)[2] \in Clients /\ Head(push) = <<"connect", Head(push)[2]>>
        /\ clients' = clients \cup {Head(push)[2]} /\ UNCHANGED shut
    BY <1>1, <1>3, HeadIs DEF ConnectClient, TakePush
  <2>2. \A c \in Clients : Announced(c) => c \in clients' \/ Announced(c)'
    BY <1>1, <2>1, AnnouncedTail
  <2>3. \A c \in Clients : CloseBehind(c) => CloseBehind(c)'
    BY <1>1, <2>1, AnnouncedTail
  <2>4. QED  BY <1>1, <2>1, <2>2, <2>3 DEF Closing, ReadingKnown, StopPosted
<1>4. CASE DisconnectClient
  <2>1. /\ Head(push)[2] \in Clients /\ Head(push) = <<"disconnect", Head(push)[2]>>
        /\ clients' = clients \ {Head(push)[2]}
        /\ shut' = shut \cup ({Head(push)[2]} \cap Registered)
    BY <1>1, <1>4, HeadIs DEF DisconnectClient, TakePush
  <2>2. \A c \in Clients : Announced(c) => Announced(c)'
    BY <1>1, <2>1, AnnouncedTail
  <2>3. \A c \in Clients : CloseBehind(c) => CloseBehind(c)'
    BY <1>1, <2>1, AnnouncedTail
  <2>4. ReadingKnown'
    BY <1>1, <1>2, <2>1, <2>2 DEF Closing, ReadingKnown
  <2>5. StopPosted'
    BY <1>1, <2>1, <2>3 DEF Closing, StopPosted
  <2>6. QED  BY <2>4, <2>5 DEF Closing
<1>5. CASE OnGatewayClosed
  <2>1. /\ Head(push) = <<"closed">>
        /\ clients' = {} /\ shut' = shut \cup Registered
    BY <1>1, <1>5, HeadIs DEF OnGatewayClosed, TakePush
  <2>2. \A c \in Clients : Announced(c) => Announced(c)'
    BY <1>1, <2>1, AnnouncedTail
  <2>3. \A c \in Clients : CloseBehind(c) => ~Announced(c) \/ CloseBehind(c)'
    BY <1>1, <2>1, AnnouncedTail
  <2>4. \A c \in Clients : handler'[c] = "reading" /\ c \notin shut' => Announced(c)
    BY <1>1, <1>2, <2>1 DEF Closing, ReadingKnown
  <2>5. ReadingKnown'
    BY <2>2, <2>4 DEF ReadingKnown
  <2>6. StopPosted'
    BY <1>1, <2>1, <2>3, <2>4 DEF Closing, StopPosted
  <2>7. QED  BY <2>5, <2>6 DEF Closing
<1>6. QED  BY <1>3, <1>4, <1>5 DEF PushSteps

LEMMA ClosingPushFinished ==
  ASSUME TypeOK, Closing, PushFinished
  PROVE  Closing'
<1>1. /\ clients' = {} /\ shut' = shut \cup Registered
      /\ UNCHANGED <<program, rpc, push, handler, late>>
  BY DEF PushFinished, serverVars
<1>2. \A c \in Clients : c \in Registered <=> c \in clients /\ ~Announced(c)
  BY DEF Registered, Announced, TypeOK
<1>3. \A c \in Clients : /\ Announced(c) => Announced(c)'
                         /\ CloseBehind(c) => CloseBehind(c)'
  BY <1>1 DEF Announced, CloseBehind
<1>4. QED  BY <1>1, <1>2, <1>3 DEF Closing, ReadingKnown, StopPosted

LEMMA ClosingStep ==
  ASSUME TypeOK, Closing, [Next]_vars
  PROVE  Closing'
<1>1. CASE \/ UNCHANGED vars \/ MainSteps \/ Join \/ WaitForDone \/ RpcFinished \/ BlogicFinished \/ DbSteps
           \/ GatewaySteps \/ RunOnExternal
           \/ \E t \in Threads : Started(t) \/ Finished(t)
  <2>1. UNCHANGED <<program, rpc, push, handler, shut, clients, late>>
    BY <1>1 DEF vars, MainSteps, NetStart, NetStop, Quit, Join, WaitForDone, RpcFinished,
                BlogicFinished, DbSteps, OnPing, ConnectDatafeed, ThreadExternal, GatewaySteps,
                ConnectGateway, DisconnectGateway, Connect, StreamOver, OnGatewayDisconnected,
                ReaderFreed, RunOnExternal, Started, Finished, serverVars, streamVars
  <2>2. QED  BY <2>1, ClosingKept
<1>2. QED
  BY <1>1, ClosingServer, ClosingPush, ClosingPushFinished, ClosingHandlers DEF Next, ThreadSteps

LEMMA ClosingInit == ASSUME Init PROVE Closing
  BY DEF Init, Closing, ReadingKnown, StopPosted

LEMMA ClosingEnough == ASSUME Closing PROVE StopClosesStreams
  BY DEF Closing, StopPosted, CloseBehind, StopClosesStreams

\* A stop that waits has had every stream shut, or onGatewayClosed is still to come behind
\* its announcement: StopClosesStreams is an invariant.
THEOREM StopAlwaysClosesStreams == Spec => []StopClosesStreams
<1>1. Init => TypeOK /\ Closing
  BY TypeInit, ClosingInit
<1>2. TypeOK /\ Closing /\ [Next]_vars => (TypeOK /\ Closing)'
  BY TypeStep, ClosingStep
<1>3. TypeOK /\ Closing => StopClosesStreams
  BY ClosingEnough
<1>4. QED  BY <1>1, <1>2, <1>3, PTL DEF Spec

-----------------------------------------------------------------------------
(* Services outlive the calls that use them *)

LEMMA JoinedMain ==
  ASSUME Joined, MainSteps \/ Join \/ WaitForDone, Alive
  PROVE  (AskedInOrder /\ ServerDown)'
<1> USE DEF Joined
<1>1. CASE NetStart \/ NetStop \/ ThreadExternal
  <2>1. UNCHANGED <<program, main, asked, thread, server, handler>>
    BY <1>1 DEF NetStart, NetStop, ThreadExternal, streamVars, serverVars
  <2>2. QED  BY <2>1 DEF AskedInOrder, ServerDown
<1>2. CASE Quit
  <2>1. /\ main = 0 /\ main' = 1 /\ asked' = {"flogic"}
        /\ UNCHANGED <<program, thread, server, handler>>
    BY <1>2, JoinOrderIs DEF Quit, serverVars, streamVars
  <2>2. \A t \in Threads : thread[t] \notin {"leaving", "finished"}
    BY <2>1 DEF AskedInOrder
  <2>3. AskedInOrder'
    BY <2>1, <2>2 DEF AskedInOrder
  <2>4. QED  BY <2>1, <2>3 DEF ServerDown
<1>3. CASE Join
  <2>1. main \in 1..5 /\ main' = main + 1 /\ thread[JoinOrder[main]] = "finished"
    BY <1>3, JoinOrderIs DEF Join
  <2>2. asked' = asked \cup {JoinOrder[i] : i \in {main + 1} \cap 1..5}
    BY <1>3, JoinOrderIs DEF Join
  <2>3. "push" \in asked' => main' >= 4
    BY <2>1, <2>2, JoinOrderIs DEF AskedInOrder
  <2>4. "db" \in asked' => main' >= 5
    BY <2>1, <2>2, JoinOrderIs DEF AskedInOrder
  <2>5. main' >= 4 => thread["rpc"] = "finished"
    BY <2>1, JoinOrderIs DEF AskedInOrder
  <2>6. \A t \in Threads : thread[t] \in {"leaving", "finished"} => t \in asked'
    BY <2>2 DEF AskedInOrder
  <2>7. UNCHANGED <<program, thread, server, handler>>
    BY <1>3 DEF Join, serverVars, streamVars
  <2>8. QED  BY <2>1, <2>3, <2>4, <2>5, <2>6, <2>7 DEF AskedInOrder, ServerDown
<1>4. CASE WaitForDone
  <2>1. main = 6 /\ main' = 7 /\ UNCHANGED <<program, asked, thread, server, handler>>
    BY <1>4, JoinOrderIs DEF WaitForDone, streamVars, serverVars
  <2>2. QED  BY <2>1 DEF AskedInOrder, ServerDown
<1>5. QED  BY <1>1, <1>2, <1>3, <1>4 DEF MainSteps

LEMMA JoinedThreads ==
  ASSUME Joined, ThreadSteps \/ DbSteps, Alive
  PROVE  (AskedInOrder /\ ServerDown)'
<1> USE DEF Joined
<1>1. CASE Join \/ WaitForDone
  BY <1>1, JoinedMain
<1>2. CASE PushFinished
  BY <1>2 DEF PushFinished, Leaves, TypeOK, AskedInOrder, ServerDown, serverVars, Threads
<1>3. CASE RpcFinished
  BY <1>3 DEF RpcFinished, Leaves, ShutdownStops, TypeOK, AskedInOrder, ServerDown, serverVars,
              streamVars, Threads
<1>4. ASSUME NEW t \in Threads, Started(t) \/ Finished(t)
      PROVE  (AskedInOrder /\ ServerDown)'
  BY <1>4 DEF Started, Finished, Leaves, TypeOK, AskedInOrder, ServerDown, serverVars,
              streamVars, Threads
<1>5. CASE DbSteps
  BY <1>5 DEF DbSteps, OnPing, ConnectDatafeed, AskedInOrder, ServerDown, serverVars, streamVars
<1>6. CASE BlogicFinished
  BY <1>6 DEF BlogicFinished, Leaves, TypeOK, AskedInOrder, ServerDown, serverVars, streamVars, Threads
<1>7. QED  BY <1>1, <1>2, <1>3, <1>4, <1>5, <1>6 DEF ThreadSteps

LEMMA JoinedGateway ==
  ASSUME Joined, GatewaySteps \/ RunOnExternal
  PROVE  (AskedInOrder /\ ServerDown)'
<1> USE DEF Joined
<1>1. CASE ReaderFreed
  BY <1>1 DEF ReaderFreed, TypeOK, AskedInOrder, ServerDown, serverVars, streamVars, Threads
<1>2. CASE \/ ConnectGateway \/ DisconnectGateway \/ Connect \/ StreamOver \/ OnGatewayDisconnected
           \/ RunOnExternal
  BY <1>2 DEF ConnectGateway, DisconnectGateway, Connect, StreamOver, OnGatewayDisconnected,
              RunOnExternal, AskedInOrder, ServerDown, serverVars, streamVars
<1>3. QED  BY <1>1, <1>2 DEF GatewaySteps

LEMMA JoinedServer ==
  ASSUME Joined, RpcSteps \/ ServerSteps
  PROVE  (AskedInOrder /\ ServerDown)'
<1> USE DEF Joined
<1>1. CASE Start
  BY <1>1 DEF Start, TakeRpc, AskedInOrder, ServerDown, streamVars
<1>2. CASE StopNothing
  BY <1>2 DEF StopNothing, TypeOK, AskedInOrder, ServerDown, serverVars, streamVars, Threads
<1>3. CASE StopTooEarly
  BY <1>3, StopCalledType DEF StopTooEarly, AskedInOrder, ServerDown, streamVars
<1>4. CASE GatewayStop
  BY <1>4, StopCalledType DEF GatewayStop, AskedInOrder, ServerDown
<1>5. CASE Shutdown
  BY <1>5, StopCalledType DEF Shutdown, AskedInOrder, ServerDown, streamVars
<1>6. CASE Stopped
  BY <1>6 DEF Stopped, Calls, TypeOK, AskedInOrder, ServerDown
<1>7. CASE ServerSteps
  BY <1>7 DEF ServerSteps, Build, Publish, AskedInOrder, ServerDown, streamVars
<1>8. QED  BY <1>1, <1>2, <1>3, <1>4, <1>5, <1>6, <1>7 DEF RpcSteps

LEMMA JoinedHandlers ==
  ASSUME Joined, NEW c \in Clients, HandlerSteps(c) \/ ClientSteps(c)
  PROVE  (AskedInOrder /\ ServerDown)'
<1>1. UNCHANGED <<program, main, thread, asked, server>>
  BY DEF HandlerSteps, ClientSteps, Return, StreamEnds, Accept, ConnectPush, DisconnectPush,
         StreamBreaks, serverVars
<1>2. server \in {"off", "starting"} => UNCHANGED handler
  BY DEF Joined, ServerDown, HandlerSteps, ClientSteps, Return, StreamEnds, Accept, ConnectPush,
         DisconnectPush, StreamBreaks
<1>3. QED  BY <1>1, <1>2 DEF Joined, AskedInOrder, ServerDown

LEMMA JoinedPush ==
  ASSUME Joined, PushSteps
  PROVE  (AskedInOrder /\ ServerDown)'
  BY DEF PushSteps, ConnectClient, DisconnectClient, OnGatewayClosed, TakePush, Joined,
         AskedInOrder, ServerDown, serverVars

\* Threads, clients and queues leave the reader thread and the pool alone.
LEMMA OwnThreadsStep ==
  ASSUME Joined, [Next]_vars
  PROVE  OwnThreads'
<1> USE DEF Joined
<1>1. CASE BlogicFinished
  BY <1>1 DEF BlogicFinished, Leaves, Reading, OwnThreads, TypeOK, Threads
<1>2. CASE GatewaySteps
  BY <1>2 DEF GatewaySteps, ConnectGateway, DisconnectGateway, Connect, StreamOver, OnGatewayDisconnected,
              ReaderFreed, BlogicFree, Reading, OwnThreads, TypeOK, Threads
<1>3. CASE ThreadExternal \/ RunOnExternal
  BY <1>3, JoinOrderIs DEF ThreadExternal, RunOnExternal, Run, Reading, OwnThreads, TypeOK
<1>4. CASE Join
  <2>1. main' # 7 /\ UNCHANGED <<thread, reader, blogic, tasks>>
    BY <1>4, JoinOrderIs DEF Join
  <2>2. QED  BY <2>1, JoinOrderIs DEF Reading, OwnThreads
<1>5. CASE Quit \/ WaitForDone
  BY <1>5, JoinOrderIs DEF Quit, WaitForDone, TypeOK, Reading, OwnThreads
<1>6. ASSUME UNCHANGED <<main, reader, blogic, tasks>>,
             thread'["blogic"] = thread["blogic"] \/ (thread["blogic"] = "starting" /\ thread'["blogic"] = "running")
      PROVE  OwnThreads'
  BY <1>6 DEF Reading, OwnThreads
<1>7. ASSUME UNCHANGED <<main, reader, blogic, tasks, thread>>
      PROVE  OwnThreads'
  BY <1>7 DEF Reading, OwnThreads
<1>8. CASE UNCHANGED vars \/ NetStart \/ NetStop \/ DbSteps \/ ServerSteps \/ PushSteps
  BY <1>7, <1>8 DEF vars, NetStart, NetStop, DbSteps, OnPing, ConnectDatafeed, ServerSteps, Build, Publish,
     PushSteps, ConnectClient, DisconnectClient, OnGatewayClosed, TakePush
<1>9. ASSUME NEW c \in Clients, HandlerSteps(c) \/ ClientSteps(c)
      PROVE  OwnThreads'
  BY <1>7, <1>9 DEF HandlerSteps, ClientSteps, Return, StreamEnds, Accept, ConnectPush, DisconnectPush,
     StreamBreaks
<1>10. CASE RpcSteps
  <2>1. UNCHANGED <<main, reader, blogic, tasks>>
    BY <1>10 DEF RpcSteps, Start, StopNothing, StopTooEarly, GatewayStop, Shutdown, Stopped
  <2>2. thread'["blogic"] = thread["blogic"]
    BY <1>10, StopCalledType DEF RpcSteps, Start, StopNothing, StopTooEarly, GatewayStop, Shutdown, Stopped,
       TypeOK, Threads
  <2>3. QED  BY <1>6, <2>1, <2>2
<1>11. CASE PushFinished \/ RpcFinished
  BY <1>6, <1>11 DEF PushFinished, RpcFinished, TypeOK, Threads
<1>12. ASSUME NEW t \in Threads, Started(t) \/ Finished(t)
       PROVE  OwnThreads'
  BY <1>6, <1>12 DEF Started, Finished, TypeOK, Threads
<1>13. QED
  BY <1>1, <1>2, <1>3, <1>4, <1>5, <1>8, <1>9, <1>10, <1>11, <1>12
     DEF Next, MainSteps, ThreadSteps

LEMMA JoinedStep ==
  ASSUME Joined, [Next]_vars
  PROVE  Joined'
<1>1. CASE UNCHANGED vars
  BY <1>1, TypeStep, OwnThreadsStep DEF vars, serverVars, streamVars, Joined, AskedInOrder, ServerDown
<1>2. QED
  BY <1>1, TypeStep, JoinedMain, JoinedThreads, JoinedServer, JoinedPush, JoinedHandlers,
     JoinedGateway, OwnThreadsStep
     DEF Next, Joined

LEMMA JoinedInit == ASSUME Init PROVE Joined
<1>1. main = 0 /\ asked = {} /\ \A t \in Threads : thread[t] = "starting"
  BY DEF Init
<1>2. \A c \in Clients : handler[c] = "none"
  BY DEF Init
<1>3. AskedInOrder
  BY <1>1 DEF AskedInOrder
<1>4. ServerDown
  BY <1>1, <1>2 DEF ServerDown, Threads
<1>5. OwnThreads
  BY JoinOrderIs DEF Init, NoGateway, InitPool, Reading, OwnThreads
<1>6. QED  BY <1>3, <1>4, <1>5, TypeInit DEF Joined

LEMMA JoinedEnough == ASSUME Joined PROVE ServicesOutliveHandlers
<1>1. thread["rpc"] = "finished" /\ program # "cta" => \A c \in Clients : handler[c] = "none"
  BY DEF Joined, ServerDown
<1>2. thread["push"] = "finished" \/ thread["db"] = "finished" \/ main = Exited
        => thread["rpc"] = "finished"
  BY JoinOrderIs DEF Joined, TypeOK, AskedInOrder, Threads
<1>3. QED  BY <1>1, <1>2 DEF Joined, OwnThreads, ServicesOutliveHandlers

\* In a gateway and in datafeed no call is being served when PUSH or DB has ended, no reader
\* thread runs when BLOGIC has, and no task of the pool at the end: ServicesOutliveHandlers is an invariant.
THEOREM ServicesAlwaysOutlive == Spec => []ServicesOutliveHandlers
<1>1. QED  BY JoinedInit, JoinedStep, JoinedEnough, PTL DEF Spec

=============================================================================
