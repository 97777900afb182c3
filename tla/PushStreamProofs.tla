--------------------------- MODULE PushStreamProofs ---------------------------
(***************************************************************************)
(* Theorems about PushStream for every set of clients and streams and for  *)
(* every bound.  Three invariants, each inductive with the types:          *)
(*   - a call on its way or running has an owner (needed for the types);   *)
(*   - StreamInv, of the server: what is registered is open and its owner's,*)
(*     what is announced is announced once, idle and open; NoOrphanStream  *)
(*     and DeadUnregistered follow the streams through the PUSH queue;     *)
(*   - ReaderInv, of a client: a reader thread that has ended is freed.    *)
(***************************************************************************)
EXTENDS PushStream, TLAPS

Owned == \A s \in Streams : handler[s] # "none" => owner[s] \in Clients

RegisteredOpen ==
  \A c \in Clients : registered[c] # None =>
    /\ owner[registered[c]] = c
    /\ ~shut[registered[c]]
    /\ handler[registered[c]] # "sent"
    /\ ~Announced(registered[c])

AnnouncedIdle ==
  \A i \in DOMAIN push : push[i].what = "connect" =>
    /\ handler[push[i].stream] = "reading"
    /\ pending[push[i].stream] = 0
    /\ ~shut[push[i].stream]
    /\ owner[push[i].stream] = push[i].client

AnnouncedOnce ==
  \A i, j \in DOMAIN push :
    push[i].what = "connect" /\ push[j].what = "connect" /\ push[i].stream = push[j].stream
      => i = j

TypeInv == TypeOK /\ Owned

StreamInv ==
  /\ RegisteredOpen /\ AnnouncedIdle /\ AnnouncedOnce
  /\ NoOrphanStream /\ DeadUnregistered

FreeingHasReader ==
  \A c \in Clients : freeing[c] # "no" \/ over[c] => reader[c] # None

ReaderInv == FreeingHasReader /\ ReaderNotForgotten

pushState == <<push, registered, handler, owner, pending, shut>>

-----------------------------------------------------------------------------
(* Sequences *)

\* Append adds one element at the end.
LEMMA AppendIs ==
  ASSUME NEW S, NEW q \in Seq(S), NEW e \in S
  PROVE  /\ Append(q, e) \in Seq(S)
         /\ DOMAIN Append(q, e) = DOMAIN q \cup {Len(q) + 1}
         /\ Append(q, e)[Len(q) + 1] = e
         /\ \A i \in DOMAIN q : Append(q, e)[i] = q[i] /\ i # Len(q) + 1
  OBVIOUS

\* Tail shifts all but the first.
LEMMA TailIs ==
  ASSUME NEW S, NEW q \in Seq(S), q # <<>>
  PROVE  /\ Tail(q) \in Seq(S) /\ Head(q) \in S
         /\ 1 \in DOMAIN q /\ Head(q) = q[1]
         /\ \A i \in DOMAIN Tail(q) :
              i \in Nat /\ i + 1 \in DOMAIN q /\ i + 1 # 1 /\ Tail(q)[i] = q[i + 1]
         /\ \A i \in DOMAIN q : i # 1 => i - 1 \in DOMAIN Tail(q) /\ Tail(q)[i - 1] = q[i]
  OBVIOUS

-----------------------------------------------------------------------------
(* Types *)

LEMMA EventType ==
  ASSUME NEW c \in Clients, NEW s \in Streams
  PROVE  /\ Event("connect", c, s) \in PushEvents
         /\ Event("disconnect", c, None) \in PushEvents
         /\ Event("closed", None, None) \in PushEvents
  BY DEF Event, PushEvents

LEMMA SpendType ==
  ASSUME TypeOK, NEW what \in Bounds \cup Clients, NEW limit, Spend(what, limit)
  PROVE  used' \in [Bounds \cup Clients -> Nat]
  BY DEF TypeOK, Spend

LEMMA HeadType ==
  ASSUME TypeOK, push # <<>>
  PROVE  /\ Head(push) \in PushEvents /\ Tail(push) \in Seq(PushEvents)
         /\ Head(push).what = "connect" =>
              Head(push).client \in Clients /\ Head(push).stream \in Streams
         /\ Head(push).what = "disconnect" => Head(push).client \in Clients
<1>1. Head(push) \in PushEvents /\ Tail(push) \in Seq(PushEvents)
  BY TailIs DEF TypeOK
<1>2. QED  BY <1>1 DEF PushEvents, Event

\* Every step keeps the types, and the owners of the calls.
LEMMA TypeStep ==
  ASSUME TypeInv, [Next]_vars
  PROVE  TypeInv'
<1> USE DEF TypeInv
<1>1. ASSUME NEW s \in Streams, Enter(s)
      PROVE  TypeInv'
  <2>1. push' \in Seq(PushEvents)
    BY <1>1, EventType, AppendIs DEF Enter, TypeOK, Owned
  <2>2. QED  BY <1>1, <2>1 DEF Enter, TypeOK, Owned, clientVars
<1>2. ASSUME NEW s \in Streams, Refuse(s) \/ Dequeue(s) \/ Leave(s) \/ Written(s)
      PROVE  TypeInv'
  <2>1. CASE Refuse(s)
    BY <2>1 DEF Refuse, TypeOK, Owned, clientVars
  <2>2. CASE Dequeue(s)
    <3>1. pending' \in [Streams -> Nat]
      BY <2>2 DEF Dequeue, TypeOK
    <3>2. QED  BY <2>2, <3>1 DEF Dequeue, TypeOK, Owned, clientVars
  <2>3. CASE Leave(s)
    BY <2>3 DEF Leave, TypeOK, Owned, clientVars
  <2>4. CASE Written(s)
    BY <2>4 DEF Written, TypeOK, Owned, clientVars
  <2>5. QED  BY <1>2, <2>1, <2>2, <2>3, <2>4
<1>3. ASSUME NEW s \in Streams, WriteFails(s)
      PROVE  TypeInv'
  <2>1. push' \in Seq(PushEvents)
    BY <1>3, EventType, AppendIs DEF WriteFails, TypeOK, Owned
  <2>2. QED  BY <1>3, <2>1 DEF WriteFails, TypeOK, Owned, clientVars
<1>4. CASE ConnectClient \/ DisconnectClient \/ OnGatewayClosed
  <2>1. push # <<>>
    BY <1>4 DEF ConnectClient, DisconnectClient, OnGatewayClosed, TakePush
  <2>2. QED
    BY <1>4, <2>1, HeadType
    DEF ConnectClient, DisconnectClient, OnGatewayClosed, TakePush, TypeOK, Owned, clientVars
<1>5. CASE OnPing
  <2>1. pending' \in [Streams -> Nat]
    BY <1>5 DEF OnPing, Enqueued, TypeOK
  <2>2. QED  BY <1>5, <2>1 DEF OnPing, Enqueued, TypeOK, Owned, clientVars
<1>6. CASE Stop
  <2>1. Event("closed", None, None) \in PushEvents
    BY DEF Event, PushEvents
  <2>2. push' \in Seq(PushEvents) /\ used' \in [Bounds \cup Clients -> Nat]
    BY <1>6, <2>1, AppendIs, SpendType DEF Stop, TypeOK, Bounds
  <2>3. QED  BY <1>6, <2>2 DEF Stop, TypeOK, Owned, streamVars, clientVars
<1>7. CASE Shutdown \/ Stopped \/ Start
  BY <1>7 DEF Shutdown, Stopped, Start, TypeOK, Owned, streamVars, clientVars
<1>8. ASSUME NEW c \in Clients, NEW what \in {"connect", "disconnect"}, Click(c, what)
      PROVE  TypeInv'
  <2>1. blogic' \in [Clients -> Seq({"connect", "disconnect", "gone"})]
    BY <1>8 DEF Click, TypeOK
  <2>2. used' \in [Bounds \cup Clients -> Nat]
    BY <1>8, SpendType DEF Click
  <2>3. QED  BY <1>8, <2>1, <2>2 DEF Click, TypeOK, Owned, streamVars
<1>9. ASSUME NEW c \in Clients, BlogicTakes(c)
      PROVE  TypeInv'
  <2> DEFINE Q == Seq({"connect", "disconnect", "gone"})
  <2>1. /\ blogic' \in [Clients -> Q]
        /\ freeing' \in [Clients -> {"no", "calling", "waiting"}]
        /\ wants' \in [Clients -> BOOLEAN]
    <3>1. blogic[c] \in Q /\ blogic[c] # <<>> /\ blogic' = [blogic EXCEPT ![c] = Tail(@)]
      BY <1>9 DEF BlogicTakes, ConnectGateway, DisconnectGateway, OnGatewayDisconnected, Take,
                  TypeOK
    <3>2. Tail(blogic[c]) \in Q
      BY <3>1
    <3>3. blogic' \in [Clients -> Q]
      BY <3>1, <3>2 DEF TypeOK
    <3>4. freeing' = [freeing EXCEPT ![c] = IF reader[c] = None THEN "no" ELSE "calling"]
      BY <1>9 DEF BlogicTakes, ConnectGateway, DisconnectGateway, OnGatewayDisconnected,
                  FreeReaderThread
    <3>5. wants' \in [Clients -> BOOLEAN]
      BY <1>9 DEF BlogicTakes, ConnectGateway, DisconnectGateway, OnGatewayDisconnected, TypeOK
    <3>6. QED  BY <3>3, <3>4, <3>5 DEF TypeOK
  <2>2. UNCHANGED <<server, push, registered, streamVars, reader, over, late, canConnect, used>>
    BY <1>9 DEF BlogicTakes, ConnectGateway, DisconnectGateway, OnGatewayDisconnected, Take
  <2>3. QED  BY <2>1, <2>2 DEF TypeOK, Owned, streamVars
<1>10. ASSUME NEW c \in Clients, DisconnectPush(c) \/ LateDisconnectPush(c)
       PROVE  TypeInv'
  <2>1. Event("disconnect", c, None) \in PushEvents
    BY DEF Event, PushEvents
  <2>2. CASE DisconnectPush(c)
    <3>1. push' \in Seq(PushEvents)
      BY <2>1, <2>2, AppendIs DEF DisconnectPush, TypeOK
    <3>2. QED  BY <2>2, <3>1 DEF DisconnectPush, TypeOK, Owned, streamVars
  <2>3. CASE LateDisconnectPush(c)
    <3>1. push' \in Seq(PushEvents)
      BY <2>1, <2>3, AppendIs DEF LateDisconnectPush, TypeOK
    <3>2. late' \in [Clients -> Nat]
      BY <2>3 DEF LateDisconnectPush, TypeOK
    <3>3. QED  BY <2>3, <3>1, <3>2 DEF LateDisconnectPush, TypeOK, Owned, streamVars
  <2>4. QED  BY <1>10, <2>2, <2>3
<1>11. ASSUME NEW c \in Clients, DisconnectFails(c) \/ LoseDisconnectPush(c) \/ ReaderFreed(c)
       PROVE  TypeInv'
  <2>1. CASE DisconnectFails(c)
    BY <2>1 DEF DisconnectFails, TypeOK, Owned, streamVars
  <2>2. CASE LoseDisconnectPush(c)
    <3>1. late' \in [Clients -> Nat]
      BY <2>2 DEF LoseDisconnectPush, TypeOK
    <3>2. QED  BY <2>2, <3>1 DEF LoseDisconnectPush, TypeOK, Owned, streamVars
  <2>3. CASE ReaderFreed(c)
    BY <2>3 DEF ReaderFreed, TypeOK, Owned, streamVars
  <2>4. QED  BY <1>11, <2>1, <2>2, <2>3
<1>12. ASSUME NEW c \in Clients, Deadline(c)
       PROVE  TypeInv'
  <2>1. used' \in [Bounds \cup Clients -> Nat] /\ late' \in [Clients -> Nat]
    BY <1>12, SpendType DEF Deadline, Bounds, TypeOK
  <2>2. QED  BY <1>12, <2>1 DEF Deadline, TypeOK, Owned, streamVars
<1>13. ASSUME NEW c \in Clients, ReaderEnds(c)
       PROVE  TypeInv'
  <2>1. blogic' \in [Clients -> Seq({"connect", "disconnect", "gone"})]
    BY <1>13 DEF ReaderEnds, TypeOK
  <2>2. QED  BY <1>13, <2>1 DEF ReaderEnds, TypeOK, Owned, streamVars
<1>14. ASSUME NEW c \in Clients, Drop(c)
       PROVE  TypeInv'
  <2>1. used' \in [Bounds \cup Clients -> Nat]
    BY <1>14, SpendType DEF Drop, Bounds
  <2>2. QED  BY <1>14, <2>1 DEF Drop, TypeOK, Owned
<1>15. ASSUME NEW c \in Clients, NEW s \in Streams, Connect(c, s)
       PROVE  TypeInv'
  BY <1>15 DEF Connect, TypeOK, Owned
<1>16. CASE UNCHANGED vars
  BY <1>16 DEF vars, TypeOK, Owned, streamVars, clientVars
<1>17. QED
  BY <1>1, <1>2, <1>3, <1>4, <1>5, <1>6, <1>7, <1>8, <1>9, <1>10, <1>11, <1>12, <1>13, <1>14,
     <1>15, <1>16
  DEF Next, Handlers, Push, Rpc, Client, Calls

LEMMA TypeInit ==
  ASSUME Init
  PROVE  TypeInv
  BY DEF Init, TypeInv, TypeOK, Owned

\* Every value that the handlers compute has its type.
THEOREM TypeCorrect == Spec => []TypeOK
<1>1. TypeInv => TypeOK
  BY DEF TypeInv
<1>2. QED  BY <1>1, TypeInit, TypeStep, PTL DEF Spec

-----------------------------------------------------------------------------
(* The PUSH queue *)

\* An event that will remove client c from the registry.
Removes(c) ==
  \E i \in DOMAIN push : push[i].what = "closed" \/ push[i] = Event("disconnect", c, None)

LEMMA AppendEvent ==
  ASSUME TypeOK, NEW e \in PushEvents, push' = Append(push, e)
  PROVE  /\ \A s : Announced(s)' <=> Announced(s) \/ (e.what = "connect" /\ e.stream = s)
         /\ \A c : Removes(c)' <=>
              Removes(c) \/ e.what = "closed" \/ e = Event("disconnect", c, None)
<1>1. /\ DOMAIN push' = DOMAIN push \cup {Len(push) + 1}
      /\ push'[Len(push) + 1] = e
      /\ \A i \in DOMAIN push : push'[i] = push[i]
  BY AppendIs DEF TypeOK
<1>2. QED  BY <1>1 DEF Announced, Removes, Event

LEMMA TailEvent ==
  ASSUME TypeOK, AnnouncedOnce, push # <<>>, push' = Tail(push)
  PROVE  /\ \A s : Announced(s)' <=>
              Announced(s) /\ ~(Head(push).what = "connect" /\ Head(push).stream = s)
         /\ \A c : Removes(c) /\ Head(push).what # "closed"
                     /\ Head(push) # Event("disconnect", c, None) => Removes(c)'
<1>1. /\ 1 \in DOMAIN push /\ Head(push) = push[1]
      /\ \A i \in DOMAIN push' : i + 1 \in DOMAIN push /\ i + 1 # 1 /\ push'[i] = push[i + 1]
      /\ \A i \in DOMAIN push : i # 1 => i - 1 \in DOMAIN push' /\ push'[i - 1] = push[i]
  BY TailIs DEF TypeOK
<1>2. ASSUME NEW s
      PROVE  Announced(s)' <=>
               Announced(s) /\ ~(Head(push).what = "connect" /\ Head(push).stream = s)
  <2>1. ASSUME Announced(s)'
        PROVE  Announced(s) /\ ~(Head(push).what = "connect" /\ Head(push).stream = s)
    <3>1. PICK i \in DOMAIN push' : push'[i].what = "connect" /\ push'[i].stream = s
      BY <2>1 DEF Announced
    <3>2. QED  BY <1>1, <3>1 DEF Announced, AnnouncedOnce
  <2>2. ASSUME Announced(s), ~(Head(push).what = "connect" /\ Head(push).stream = s)
        PROVE  Announced(s)'
    <3>1. PICK i \in DOMAIN push : push[i].what = "connect" /\ push[i].stream = s
      BY <2>2 DEF Announced
    <3>2. i # 1
      BY <1>1, <2>2, <3>1
    <3>3. i - 1 \in DOMAIN push' /\ push'[i - 1] = push[i]
      BY <1>1, <3>2
    <3>4. QED  BY <3>1, <3>3 DEF Announced
  <2>3. QED  BY <2>1, <2>2
<1>3. ASSUME NEW c, Removes(c), Head(push).what # "closed",
             Head(push) # Event("disconnect", c, None)
      PROVE  Removes(c)'
  <2>1. PICK i \in DOMAIN push :
          push[i].what = "closed" \/ push[i] = Event("disconnect", c, None)
    BY <1>3 DEF Removes
  <2>2. i # 1
    BY <1>1, <1>3, <2>1
  <2>3. i - 1 \in DOMAIN push' /\ push'[i - 1] = push[i]
    BY <1>1, <2>2
  <2>4. QED  BY <2>1, <2>3 DEF Removes, Event
<1>4. QED  BY <1>2, <1>3

\* What is announced stays so under the rest of the queue.
LEMMA TailAnnounced ==
  ASSUME TypeOK, AnnouncedIdle, AnnouncedOnce, push # <<>>, push' = Tail(push),
         UNCHANGED <<handler, pending, owner>>,
         \A s \in Streams : shut'[s] = shut[s] \/ ~Announced(s)'
  PROVE  AnnouncedIdle' /\ AnnouncedOnce'
<1>1. \A i \in DOMAIN push' :
        i \in Nat /\ i + 1 \in DOMAIN push /\ push'[i] = push[i + 1]
  BY TailIs DEF TypeOK
<1>2. AnnouncedOnce'
  <2>1. SUFFICES ASSUME NEW i \in DOMAIN push', NEW j \in DOMAIN push',
                        push'[i].what = "connect", push'[j].what = "connect",
                        push'[i].stream = push'[j].stream
                 PROVE  i = j
    BY DEF AnnouncedOnce
  <2>2. i + 1 = j + 1
    BY <1>1, <2>1 DEF AnnouncedOnce
  <2>3. QED  BY <1>1, <2>2
<1>3. AnnouncedIdle'
  <2>1. SUFFICES ASSUME NEW i \in DOMAIN push', push'[i].what = "connect"
                 PROVE  /\ handler[push'[i].stream] = "reading"
                        /\ pending[push'[i].stream] = 0
                        /\ ~shut'[push'[i].stream]
                        /\ owner[push'[i].stream] = push'[i].client
    BY DEF AnnouncedIdle
  <2>2. i + 1 \in DOMAIN push /\ push'[i] = push[i + 1]
    BY <1>1
  <2>3. push[i + 1] \in PushEvents
    BY <2>2 DEF TypeOK
  <2>4. PICK s \in Streams : push'[i].stream = s
    BY <2>1, <2>2, <2>3 DEF PushEvents, Event
  <2>5. Announced(s)'
    BY <2>1, <2>4 DEF Announced
  <2>6. QED  BY <2>1, <2>2, <2>4, <2>5 DEF AnnouncedIdle
<1>4. QED  BY <1>2, <1>3

-----------------------------------------------------------------------------
(* The streams: what each step keeps of StreamInv *)

LEMMA StreamKept ==
  ASSUME StreamInv, UNCHANGED pushState
  PROVE  StreamInv'
  BY DEF StreamInv, pushState, RegisteredOpen, AnnouncedIdle, AnnouncedOnce, NoOrphanStream,
         DeadUnregistered, Announced, Alive

\* A step that changes no queue of events and no registration, and no stream that is
\* registered or announced, except that a call may go on reading or writing.
LEMMA StreamHandlers ==
  ASSUME TypeInv, StreamInv, UNCHANGED <<push, registered, owner, shut>>,
         \A s \in Streams : Announced(s) => UNCHANGED <<handler[s], pending[s]>>,
         \A c \in Clients : registered[c] # None =>
           /\ handler'[registered[c]] # "sent"
           /\ Alive(registered[c]) => Alive(registered[c])',
         \A s \in Streams : Alive(s)' /\ ~shut[s] => Alive(s)
  PROVE  StreamInv'
<1>1. \A s : Announced(s)' <=> Announced(s)
  BY DEF Announced
<1>2. RegisteredOpen'
  BY <1>1 DEF StreamInv, RegisteredOpen
<1>3. AnnouncedIdle'
  <2>1. SUFFICES ASSUME NEW i \in DOMAIN push, push[i].what = "connect"
                 PROVE  /\ handler'[push[i].stream] = "reading"
                        /\ pending'[push[i].stream] = 0
                        /\ ~shut[push[i].stream]
                        /\ owner[push[i].stream] = push[i].client
    BY DEF AnnouncedIdle
  <2>2. push[i] \in PushEvents
    BY DEF TypeInv, TypeOK
  <2>3. push[i].stream \in Streams /\ Announced(push[i].stream)
    BY <2>1, <2>2 DEF PushEvents, Event, Announced
  <2>4. QED  BY <2>1, <2>3 DEF StreamInv, AnnouncedIdle
<1>4. AnnouncedOnce'
  BY DEF StreamInv, AnnouncedOnce
<1>5. NoOrphanStream'
  BY <1>1 DEF StreamInv, NoOrphanStream
<1>6. DeadUnregistered'
  <2>1. SUFFICES ASSUME NEW c \in Clients, registered[c] # None, ~Alive(registered[c])'
                 PROVE  \E i \in DOMAIN push :
                          push[i].what = "closed" \/ push[i] = Event("disconnect", c, None)
    BY DEF DeadUnregistered, Event, Alive
  <2>2. QED  BY <2>1 DEF StreamInv, DeadUnregistered
<1>7. QED  BY <1>2, <1>3, <1>4, <1>5, <1>6 DEF StreamInv

\* Posting a disconnect or the closing of the server.
LEMMA StreamPosted ==
  ASSUME TypeInv, StreamInv, NEW e \in PushEvents, e.what # "connect",
         push' = Append(push, e), UNCHANGED <<registered, handler, owner, pending, shut>>
  PROVE  StreamInv'
<1>1. \A s : Announced(s)' <=> Announced(s)
  BY AppendEvent DEF TypeInv
<1>2. \A c : Removes(c) => Removes(c)'
  BY AppendEvent DEF TypeInv
<1>3. /\ DOMAIN push' = DOMAIN push \cup {Len(push) + 1}
      /\ push'[Len(push) + 1] = e
      /\ \A i \in DOMAIN push : push'[i] = push[i]
  BY AppendIs DEF TypeInv, TypeOK
<1>4. RegisteredOpen'
  BY <1>1 DEF StreamInv, RegisteredOpen
<1>5. AnnouncedIdle' /\ AnnouncedOnce'
  BY <1>3 DEF StreamInv, AnnouncedIdle, AnnouncedOnce
<1>6. NoOrphanStream'
  BY <1>1 DEF StreamInv, NoOrphanStream, Alive
<1>7. DeadUnregistered'
  BY <1>2 DEF StreamInv, DeadUnregistered, Removes, Alive, Event
<1>8. QED  BY <1>4, <1>5, <1>6, <1>7 DEF StreamInv

LEMMA StreamEnter ==
  ASSUME TypeInv, StreamInv, NEW s \in Streams, Enter(s)
  PROVE  StreamInv'
<1> DEFINE e == Event("connect", owner[s], s)
<1>1. e \in PushEvents /\ e.what = "connect" /\ e.stream = s /\ e.client = owner[s]
  BY EventType DEF TypeInv, Owned, Enter, Event
<1>2. push' = Append(push, e)
  BY DEF Enter
<1>3. /\ \A t : Announced(t)' <=> Announced(t) \/ t = s
      /\ \A c : Removes(c) => Removes(c)'
  BY <1>1, <1>2, AppendEvent DEF TypeInv
<1>4. /\ DOMAIN push' = DOMAIN push \cup {Len(push) + 1}
      /\ push'[Len(push) + 1] = e
      /\ \A i \in DOMAIN push : push'[i] = push[i]
  BY <1>1, <1>2, AppendIs DEF TypeInv, TypeOK
<1>5. \A i \in DOMAIN push : push[i].what = "connect" => push[i].stream # s
  BY DEF StreamInv, AnnouncedIdle, Enter
<1>6. \A c \in Clients : registered[c] # s
  BY NoneAssumption DEF StreamInv, RegisteredOpen, Enter
<1>7. /\ handler' = [handler EXCEPT ![s] = "reading"] /\ pending' = [pending EXCEPT ![s] = 0]
      /\ shut' = [shut EXCEPT ![s] = FALSE] /\ UNCHANGED <<registered, owner>>
  BY DEF Enter
<1>8. RegisteredOpen'
  BY <1>3, <1>6, <1>7 DEF StreamInv, RegisteredOpen, TypeInv, TypeOK
<1>9. AnnouncedIdle'
  <2>1. ASSUME NEW i \in DOMAIN push, push[i].what = "connect"
        PROVE  push[i].stream \in Streams \ {s}
    <3>1. push[i] \in PushEvents
      BY DEF TypeInv, TypeOK
    <3>2. push[i].stream \in Streams
      BY <2>1, <3>1 DEF PushEvents, Event
    <3>3. QED  BY <1>5, <2>1, <3>2
  <2>2. \A i \in DOMAIN push : push[i].what = "connect" =>
          /\ handler'[push[i].stream] = "reading" /\ pending'[push[i].stream] = 0
          /\ ~shut'[push[i].stream] /\ owner'[push[i].stream] = push[i].client
    BY <1>7, <2>1 DEF StreamInv, AnnouncedIdle, TypeInv, TypeOK
  <2>3. /\ handler'[s] = "reading" /\ pending'[s] = 0
        /\ ~shut'[s] /\ owner'[s] = e.client
    BY <1>1, <1>7 DEF TypeInv, TypeOK
  <2>4. QED  BY <1>1, <1>4, <2>2, <2>3 DEF AnnouncedIdle
<1>10. AnnouncedOnce'
  BY <1>1, <1>4, <1>5 DEF StreamInv, AnnouncedOnce
<1>11. NoOrphanStream'
  BY <1>3, <1>7 DEF StreamInv, NoOrphanStream, Alive, TypeInv, TypeOK
<1>12. DeadUnregistered'
  <2>1. \A c \in Clients : registered[c] # None => (Alive(registered[c])' <=> Alive(registered[c]))
    BY <1>6, <1>7 DEF Alive, TypeInv, TypeOK
  <2>2. \A c \in Clients : registered[c] # None /\ ~Alive(registered[c]) => Removes(c)
    BY DEF StreamInv, DeadUnregistered, Removes
  <2>3. \A c \in Clients : registered'[c] # None /\ ~Alive(registered[c])' => Removes(c)'
    BY <1>3, <1>7, <2>1, <2>2
  <2>4. QED  BY <1>7, <2>3 DEF DeadUnregistered, Removes, Event, Alive
<1>13. QED  BY <1>8, <1>9, <1>10, <1>11, <1>12 DEF StreamInv

\* The calls on gRPC threads that leave the PUSH queue alone.
LEMMA StreamCall ==
  ASSUME TypeInv, StreamInv, NEW s \in Streams,
         Refuse(s) \/ Dequeue(s) \/ Leave(s) \/ Written(s)
  PROVE  StreamInv'
<1>1. \A t \in Streams : Announced(t) => handler[t] = "reading" /\ pending[t] = 0 /\ ~shut[t]
  BY DEF StreamInv, AnnouncedIdle, Announced
<1>2. \A c \in Clients : registered[c] # None =>
        registered[c] \in Streams /\ handler[registered[c]] # "sent" /\ ~shut[registered[c]]
  BY DEF StreamInv, RegisteredOpen, TypeInv, TypeOK
<1>3. UNCHANGED <<push, registered, owner, shut>>
  BY DEF Refuse, Dequeue, Leave, Written
<1>4. CASE Refuse(s)
  <2>1. handler[s] = "sent" /\ handler' = [handler EXCEPT ![s] = "none"] /\ pending' = pending
    BY <1>4 DEF Refuse
  <2>2. QED  BY <1>1, <1>2, <1>3, <2>1, StreamHandlers DEF Alive, TypeInv, TypeOK
<1>5. CASE Dequeue(s)
  <2>1. /\ handler[s] = "reading" /\ pending[s] > 0
        /\ handler' = [handler EXCEPT ![s] = "writing"]
        /\ \A t \in Streams : t # s => pending'[t] = pending[t]
    BY <1>5 DEF Dequeue, TypeInv, TypeOK
  <2>2. ~Announced(s)
    BY <1>1, <2>1
  <2>3. QED  BY <1>1, <1>2, <1>3, <2>1, <2>2, StreamHandlers DEF Alive, TypeInv, TypeOK
<1>6. CASE Leave(s)
  <2>1. /\ handler[s] = "reading" /\ shut[s]
        /\ handler' = [handler EXCEPT ![s] = "none"]
        /\ \A t \in Streams : t # s => pending'[t] = pending[t]
    BY <1>6 DEF Leave, TypeInv, TypeOK
  <2>2. ~Announced(s) /\ \A c \in Clients : registered[c] # s
    BY <1>1, <1>2, <2>1, NoneAssumption
  <2>3. QED  BY <1>1, <1>2, <1>3, <2>1, <2>2, StreamHandlers DEF Alive, TypeInv, TypeOK
<1>7. CASE Written(s)
  <2>1. /\ handler[s] = "writing" /\ handler' = [handler EXCEPT ![s] = "reading"]
        /\ pending' = pending
    BY <1>7 DEF Written
  <2>2. ~Announced(s)
    BY <1>1, <2>1
  <2>3. QED  BY <1>1, <1>2, <1>3, <2>1, <2>2, StreamHandlers DEF Alive, TypeInv, TypeOK
<1>8. QED  BY <1>4, <1>5, <1>6, <1>7

\* A failed write ends the call and posts the event that forgets its stream.
LEMMA StreamWriteFails ==
  ASSUME TypeInv, StreamInv, NEW s \in Streams, WriteFails(s)
  PROVE  StreamInv'
<1> DEFINE e == Event("disconnect", owner[s], None)
<1>1. e \in PushEvents /\ e.what = "disconnect"
  BY EventType DEF TypeInv, Owned, WriteFails, Event
<1>2. push' = Append(push, e)
  BY DEF WriteFails
<1>3. /\ \A t : Announced(t)' <=> Announced(t)
      /\ \A c : Removes(c)' <=> Removes(c) \/ e = Event("disconnect", c, None)
  BY <1>1, <1>2, AppendEvent DEF TypeInv
<1>4. /\ DOMAIN push' = DOMAIN push \cup {Len(push) + 1}
      /\ push'[Len(push) + 1] = e
      /\ \A i \in DOMAIN push : push'[i] = push[i]
  BY <1>1, <1>2, AppendIs DEF TypeInv, TypeOK
<1>5. /\ handler[s] = "writing" /\ handler' = [handler EXCEPT ![s] = "none"]
      /\ UNCHANGED <<registered, owner, pending, shut>>
  BY DEF WriteFails
<1>6. \A i \in DOMAIN push : push[i].what = "connect" => push[i].stream # s
  BY <1>5 DEF StreamInv, AnnouncedIdle
<1>7. RegisteredOpen'
  BY <1>3, <1>5 DEF StreamInv, RegisteredOpen, TypeInv, TypeOK
<1>8. AnnouncedIdle'
  <2>1. ASSUME NEW i \in DOMAIN push, push[i].what = "connect"
        PROVE  handler'[push[i].stream] = "reading"
    <3>1. push[i] \in PushEvents
      BY DEF TypeInv, TypeOK
    <3>2. push[i].stream \in Streams
      BY <2>1, <3>1 DEF PushEvents, Event
    <3>3. QED  BY <1>5, <1>6, <2>1, <3>2 DEF StreamInv, AnnouncedIdle, TypeInv, TypeOK
  <2>2. QED  BY <1>1, <1>4, <1>5, <2>1 DEF StreamInv, AnnouncedIdle
<1>9. AnnouncedOnce'
  BY <1>1, <1>4 DEF StreamInv, AnnouncedOnce
<1>10. NoOrphanStream'
  BY <1>3, <1>5 DEF StreamInv, NoOrphanStream, Alive, TypeInv, TypeOK
<1>11. DeadUnregistered'
  <2>1. SUFFICES ASSUME NEW c \in Clients, registered[c] # None, ~Alive(registered[c])'
                 PROVE  Removes(c)'
    BY <1>5 DEF DeadUnregistered, Removes, Event, Alive
  <2>2. CASE registered[c] = s
    <3>1. owner[s] = c
      BY <2>1, <2>2 DEF StreamInv, RegisteredOpen
    <3>2. QED  BY <1>3, <3>1
  <2>3. CASE registered[c] # s
    <3>1. ~Alive(registered[c])
      BY <1>5, <2>1, <2>3 DEF Alive, TypeInv, TypeOK
    <3>2. QED  BY <1>3, <2>1, <3>1 DEF StreamInv, DeadUnregistered, Removes
  <2>4. QED  BY <2>2, <2>3
<1>12. QED  BY <1>7, <1>8, <1>9, <1>10, <1>11 DEF StreamInv

\* PUSH takes a connectClient: the new stream is registered, the old one shut.
LEMMA StreamConnect ==
  ASSUME TypeInv, StreamInv, ConnectClient
  PROVE  StreamInv'
<1>1. /\ push # <<>> /\ push' = Tail(push) /\ Head(push).what = "connect"
      /\ UNCHANGED <<handler, owner, pending>>
  BY DEF ConnectClient, TakePush
<1>2. PICK c \in Clients, s \in Streams : Head(push).client = c /\ Head(push).stream = s
  BY <1>1, HeadType DEF TypeInv
<1>3. /\ registered' = [registered EXCEPT ![c] = s]
      /\ shut' = IF registered[c] = None THEN shut ELSE [shut EXCEPT ![registered[c]] = TRUE]
  BY <1>2 DEF ConnectClient
<1>4. /\ handler[s] = "reading" /\ ~shut[s] /\ owner[s] = c /\ Announced(s)
  <2>1. 1 \in DOMAIN push /\ Head(push) = push[1]
    BY <1>1, TailIs DEF TypeInv, TypeOK
  <2>2. QED  BY <1>1, <1>2, <2>1 DEF StreamInv, AnnouncedIdle, Announced
<1>5. /\ \A t : Announced(t)' <=> Announced(t) /\ t # s
      /\ \A d \in Clients : Removes(d) => Removes(d)'
  <2>1. \A d : Head(push) # Event("disconnect", d, None)
    BY <1>1 DEF Event
  <2>2. QED  BY <1>1, <1>2, <2>1, TailEvent DEF StreamInv, TypeInv
<1>6. \A t \in Streams : t # registered[c] => shut'[t] = shut[t]
  BY <1>3 DEF TypeInv, TypeOK
<1>7. registered[c] # None => registered[c] \in Streams /\ ~Announced(registered[c])
  BY DEF StreamInv, RegisteredOpen, TypeInv, TypeOK
<1>8. \A t \in Streams : Announced(t) => shut'[t] = shut[t]
  BY <1>6, <1>7, NoneAssumption
<1>9. AnnouncedIdle' /\ AnnouncedOnce'
  BY <1>1, <1>5, <1>8, TailAnnounced DEF StreamInv, TypeInv
<1>10. RegisteredOpen'
  <2>1. SUFFICES ASSUME NEW d \in Clients, registered'[d] # None
                 PROVE  /\ owner[registered'[d]] = d
                        /\ ~shut'[registered'[d]]
                        /\ handler[registered'[d]] # "sent"
                        /\ ~Announced(registered[d])'
    BY <1>1 DEF RegisteredOpen, Announced
  <2>2. CASE d = c
    <3>1. registered'[d] = s
      BY <1>3, <2>2 DEF TypeInv, TypeOK
    <3>2. ~shut'[s]
      BY <1>4, <1>8
    <3>3. ~Announced(s)'
      BY <1>5
    <3>4. QED  BY <1>4, <2>2, <3>1, <3>2, <3>3 DEF Announced
  <2>3. CASE d # c
    <3>1. PICK t \in Streams : registered'[d] = t /\ registered[d] = t
      BY <1>3, <2>1, <2>3 DEF TypeInv, TypeOK
    <3>2. owner[t] = d /\ ~shut[t] /\ handler[t] # "sent" /\ ~Announced(t)
      BY <2>1, <3>1 DEF StreamInv, RegisteredOpen
    <3>3. t # registered[c]
      BY <2>1, <2>3, <3>1, <3>2 DEF StreamInv, RegisteredOpen
    <3>4. ~shut'[t] /\ ~Announced(t)'
      BY <1>5, <1>6, <3>2, <3>3
    <3>5. QED  BY <3>1, <3>2, <3>4 DEF Announced
  <2>4. QED  BY <2>2, <2>3
<1>11. NoOrphanStream'
  <2>1. SUFFICES ASSUME NEW t \in Streams, Alive(t), ~shut'[t]
                 PROVE  Announced(t)' \/ \E d \in Clients : registered'[d] = t
    BY <1>1 DEF NoOrphanStream, Alive, Announced
  <2>2. CASE t = s
    BY <1>3, <2>2 DEF TypeInv, TypeOK
  <2>3. CASE t # s
    <3>1. t # registered[c]
      BY <1>3, <2>1, NoneAssumption DEF TypeInv, TypeOK
    <3>2. ~shut[t]
      BY <1>6, <2>1, <3>1
    <3>3. Announced(t) \/ \E d \in Clients : registered[d] = t
      BY <2>1, <3>2 DEF StreamInv, NoOrphanStream
    <3>4. QED  BY <1>3, <1>5, <2>3, <3>1, <3>3 DEF TypeInv, TypeOK
  <2>4. QED  BY <2>2, <2>3
<1>12. DeadUnregistered'
  <2>1. SUFFICES ASSUME NEW d \in Clients, registered'[d] # None, ~Alive(registered'[d])
                 PROVE  Removes(d)'
    BY <1>1 DEF DeadUnregistered, Removes, Event, Alive
  <2>2. d # c
    BY <1>3, <1>4, <2>1 DEF Alive, TypeInv, TypeOK
  <2>3. registered'[d] = registered[d]
    BY <1>3, <2>2 DEF TypeInv, TypeOK
  <2>4. QED  BY <1>5, <2>1, <2>3 DEF StreamInv, DeadUnregistered, Removes
<1>13. QED  BY <1>9, <1>10, <1>11, <1>12 DEF StreamInv

\* PUSH takes a disconnectClient or the closing: what was registered is shut.
LEMMA StreamForget ==
  ASSUME TypeInv, StreamInv, DisconnectClient \/ OnGatewayClosed
  PROVE  StreamInv'
<1>1. /\ push # <<>> /\ push' = Tail(push) /\ Head(push).what # "connect"
      /\ UNCHANGED <<handler, owner, pending>>
  BY DEF DisconnectClient, OnGatewayClosed, TakePush
<1>2. \A t : Announced(t)' <=> Announced(t)
  BY <1>1, TailEvent DEF StreamInv, TypeInv
<1>3. /\ \A d \in Clients : registered'[d] # None => registered'[d] = registered[d]
      /\ \A d \in Clients : registered'[d] # None => (Removes(d) => Removes(d)')
      /\ \A t \in Streams :
           \/ shut'[t] = shut[t] /\ \A d \in Clients : registered[d] = t => registered'[d] = t
           \/ shut'[t] /\ \E d \in Clients : registered[d] = t /\ registered'[d] = None
  <2>1. CASE DisconnectClient
    <3>1. PICK c \in Clients : Head(push).client = c
      BY <1>1, <2>1, HeadType DEF DisconnectClient, TakePush, TypeInv
    <3>2. /\ registered' = [registered EXCEPT ![c] = None]
          /\ shut' = IF registered[c] = None THEN shut ELSE [shut EXCEPT ![registered[c]] = TRUE]
      BY <2>1, <3>1 DEF DisconnectClient
    <3>3. \A d \in Clients : d # c => (Removes(d) => Removes(d)')
      <4>1. \A d \in Clients : d # c => Head(push) # Event("disconnect", d, None)
        BY <3>1 DEF Event
      <4>2. Head(push).what = "disconnect"
        BY <2>1 DEF DisconnectClient, TakePush
      <4>3. QED  BY <1>1, <4>1, <4>2, TailEvent DEF StreamInv, TypeInv
    <3>4. registered'[c] = None /\ \A d \in Clients : d # c => registered'[d] = registered[d]
      BY <3>2 DEF TypeInv, TypeOK
    <3>5. ASSUME NEW t \in Streams
          PROVE  \/ shut'[t] = shut[t] /\ \A d \in Clients : registered[d] = t => registered'[d] = t
                 \/ shut'[t] /\ \E d \in Clients : registered[d] = t /\ registered'[d] = None
      <4>1. CASE registered[c] = t
        BY <3>2, <3>4, <4>1, NoneAssumption DEF TypeInv, TypeOK
      <4>2. CASE registered[c] # t
        BY <3>2, <3>4, <4>2 DEF TypeInv, TypeOK
      <4>3. QED  BY <4>1, <4>2
    <3>6. QED  BY <3>3, <3>4, <3>5
  <2>2. CASE OnGatewayClosed
    BY <2>2, NoneAssumption DEF OnGatewayClosed, TypeInv, TypeOK
  <2>3. QED  BY <2>1, <2>2
<1>4. \A t \in Streams : Announced(t) => shut'[t] = shut[t]
  BY <1>3, NoneAssumption DEF StreamInv, RegisteredOpen
<1>5. AnnouncedIdle' /\ AnnouncedOnce'
  BY <1>1, <1>2, <1>4, TailAnnounced DEF StreamInv, TypeInv
<1>6. RegisteredOpen'
  <2>1. SUFFICES ASSUME NEW d \in Clients, registered'[d] # None
                 PROVE  /\ owner[registered'[d]] = d
                        /\ ~shut'[registered'[d]]
                        /\ handler[registered'[d]] # "sent"
                        /\ ~Announced(registered[d])'
    BY <1>1 DEF RegisteredOpen, Announced
  <2>2. PICK t \in Streams : registered'[d] = t /\ registered[d] = t
    BY <1>3, <2>1 DEF TypeInv, TypeOK
  <2>3. owner[t] = d /\ ~shut[t] /\ handler[t] # "sent" /\ ~Announced(t)
    BY <2>1, <2>2 DEF StreamInv, RegisteredOpen
  <2>4. \A f \in Clients : registered[f] = t => f = d
    BY <2>1, <2>2, <2>3 DEF StreamInv, RegisteredOpen
  <2>5. ~shut'[t] /\ ~Announced(t)'
    BY <1>2, <1>3, <2>1, <2>2, <2>3, <2>4
  <2>6. QED  BY <2>2, <2>3, <2>5 DEF Announced
<1>7. NoOrphanStream'
  <2>1. SUFFICES ASSUME NEW t \in Streams, Alive(t), ~shut'[t]
                 PROVE  Announced(t) \/ \E d \in Clients : registered'[d] = t
    BY <1>1, <1>2 DEF NoOrphanStream, Alive
  <2>2. QED  BY <1>3, <2>1 DEF StreamInv, NoOrphanStream
<1>8. DeadUnregistered'
  <2>1. SUFFICES ASSUME NEW d \in Clients, registered'[d] # None, ~Alive(registered'[d])
                 PROVE  Removes(d)'
    BY <1>1 DEF DeadUnregistered, Removes, Event, Alive
  <2>2. QED  BY <1>3, <2>1 DEF StreamInv, DeadUnregistered, Removes
<1>9. QED  BY <1>5, <1>6, <1>7, <1>8 DEF StreamInv

\* Every step keeps the invariant of the streams.
LEMMA StreamStep ==
  ASSUME TypeInv, StreamInv, [Next]_vars
  PROVE  StreamInv'
<1>1. ASSUME NEW s \in Streams,
             Enter(s) \/ Refuse(s) \/ Dequeue(s) \/ Leave(s) \/ Written(s) \/ WriteFails(s)
      PROVE  StreamInv'
  BY <1>1, StreamEnter, StreamCall, StreamWriteFails
<1>2. CASE ConnectClient \/ DisconnectClient \/ OnGatewayClosed
  BY <1>2, StreamConnect, StreamForget
<1>3. CASE OnPing
  <2>1. UNCHANGED <<push, registered, handler, owner, shut>>
    BY <1>3 DEF OnPing, Enqueued
  <2>2. \A s \in Streams : Announced(s) => \A c \in Clients : registered[c] # s
    BY NoneAssumption DEF StreamInv, RegisteredOpen
  <2>3. \A s \in Streams : Announced(s) => pending'[s] = pending[s]
    BY <1>3, <2>2 DEF OnPing, Enqueued, TypeInv, TypeOK
  <2>4. \A c \in Clients : registered[c] # None => handler[registered[c]] # "sent"
    BY DEF StreamInv, RegisteredOpen
  <2>5. QED  BY <2>1, <2>3, <2>4, StreamHandlers DEF Alive
<1>4. CASE Stop
  <2>1. /\ Event("closed", None, None) \in PushEvents
        /\ Event("closed", None, None).what # "connect"
    BY DEF PushEvents, Event
  <2>2. QED  BY <1>4, <2>1, StreamPosted DEF Stop, streamVars
<1>5. ASSUME NEW c \in Clients, DisconnectPush(c) \/ LateDisconnectPush(c)
      PROVE  StreamInv'
  <2>1. /\ Event("disconnect", c, None) \in PushEvents
        /\ Event("disconnect", c, None).what # "connect"
    BY DEF PushEvents, Event
  <2>2. QED  BY <1>5, <2>1, StreamPosted DEF DisconnectPush, LateDisconnectPush, streamVars
<1>6. ASSUME NEW c \in Clients, NEW s \in Streams, Connect(c, s)
      PROVE  StreamInv'
  <2>1. /\ handler[s] = "none" /\ ~Announced(s) /\ \A d \in Clients : registered[d] # s
        /\ handler' = [handler EXCEPT ![s] = "sent"] /\ owner' = [owner EXCEPT ![s] = c]
        /\ UNCHANGED <<push, registered, pending, shut>>
    BY <1>6 DEF Connect, Free
  <2>2. \A t : Announced(t)' <=> Announced(t)
    BY <2>1 DEF Announced
  <2>3. \A t \in Streams : t # s => handler'[t] = handler[t] /\ owner'[t] = owner[t]
    BY <2>1 DEF TypeInv, TypeOK
  <2>4. RegisteredOpen'
    <3>1. SUFFICES ASSUME NEW d \in Clients, registered[d] # None
                   PROVE  /\ owner'[registered[d]] = d
                          /\ ~shut[registered[d]]
                          /\ handler'[registered[d]] # "sent"
                          /\ ~Announced(registered[d])
      BY <2>1, <2>2 DEF RegisteredOpen, Announced
    <3>2. registered[d] \in Streams \ {s}
      BY <2>1, <3>1 DEF TypeInv, TypeOK
    <3>3. QED  BY <2>3, <3>1, <3>2 DEF StreamInv, RegisteredOpen
  <2>5. AnnouncedIdle'
    <3>1. SUFFICES ASSUME NEW i \in DOMAIN push, push[i].what = "connect"
                   PROVE  /\ handler'[push[i].stream] = "reading"
                          /\ owner'[push[i].stream] = push[i].client
                          /\ pending[push[i].stream] = 0 /\ ~shut[push[i].stream]
      BY <2>1 DEF AnnouncedIdle
    <3>2. push[i] \in PushEvents
      BY DEF TypeInv, TypeOK
    <3>3. push[i].stream \in Streams \ {s}
      BY <2>1, <3>1, <3>2 DEF PushEvents, Event, Announced
    <3>4. QED  BY <2>3, <3>1, <3>3 DEF StreamInv, AnnouncedIdle
  <2>6. AnnouncedOnce'
    BY <2>1 DEF StreamInv, AnnouncedOnce
  <2>7. NoOrphanStream'
    <3>1. \A t \in Streams : Alive(t)' => Alive(t)
      BY <2>1, <2>3 DEF Alive, TypeInv, TypeOK
    <3>2. QED  BY <2>1, <2>2, <3>1 DEF StreamInv, NoOrphanStream
  <2>8. DeadUnregistered'
    <3>1. \A d \in Clients : registered[d] # None => (Alive(registered[d])' <=> Alive(registered[d]))
      BY <2>1, <2>3 DEF Alive, TypeInv, TypeOK
    <3>2. QED  BY <2>1, <3>1 DEF StreamInv, DeadUnregistered, Event, Alive
  <2>9. QED  BY <2>4, <2>5, <2>6, <2>7, <2>8 DEF StreamInv
<1>7. CASE Shutdown \/ Stopped \/ Start
  BY <1>7, StreamKept DEF Shutdown, Stopped, Start, pushState, streamVars
<1>8. ASSUME NEW c \in Clients,
             \/ Click(c, "connect") \/ Click(c, "disconnect") \/ BlogicTakes(c)
             \/ DisconnectFails(c) \/ Deadline(c) \/ LoseDisconnectPush(c)
             \/ ReaderFreed(c) \/ ReaderEnds(c) \/ Drop(c)
      PROVE  StreamInv'
  <2>1. UNCHANGED pushState
    BY <1>8 DEF pushState, streamVars, Click, BlogicTakes, ConnectGateway, DisconnectGateway,
                OnGatewayDisconnected, Take, DisconnectFails, Deadline, LoseDisconnectPush,
                ReaderFreed, ReaderEnds, Drop
  <2>2. QED  BY <2>1, StreamKept
<1>9. CASE UNCHANGED vars
  BY <1>9, StreamKept DEF vars, pushState, streamVars
<1>10. QED
  BY <1>1, <1>2, <1>3, <1>4, <1>5, <1>6, <1>7, <1>8, <1>9
  DEF Next, Handlers, Push, Rpc, Client, Calls

LEMMA StreamInit ==
  ASSUME Init
  PROVE  StreamInv
  BY DEF Init, StreamInv, RegisteredOpen, AnnouncedIdle, AnnouncedOnce, NoOrphanStream,
         DeadUnregistered, Alive

LEMMA StreamsInductive == Spec => [](TypeInv /\ StreamInv)
<1>1. Init => TypeInv /\ StreamInv
  BY TypeInit, StreamInit
<1>2. TypeInv /\ StreamInv /\ [Next]_vars => (TypeInv /\ StreamInv)'
  BY TypeStep, StreamStep
<1>3. QED  BY <1>1, <1>2, PTL DEF Spec

\* No ConnectPush thread of the server is ever out of reach: an open queue that a
\* handler reads is registered or about to be.
THEOREM OrphansNever == Spec => []NoOrphanStream
<1>1. StreamInv => NoOrphanStream
  BY DEF StreamInv
<1>2. QED  BY <1>1, StreamsInductive, PTL

\* clients_ never keeps a stream that has ended without an event that removes it.
THEOREM DeadAlwaysUnregistered == Spec => []DeadUnregistered
<1>1. StreamInv => DeadUnregistered
  BY DEF StreamInv
<1>2. QED  BY <1>1, StreamsInductive, PTL

-----------------------------------------------------------------------------
(* The reader thread of a client *)

\* Every step keeps the invariant of the readers.
LEMMA ReaderStep ==
  ASSUME TypeInv, ReaderInv, [Next]_vars
  PROVE  ReaderInv'
<1>1. CASE UNCHANGED <<reader, over, freeing, blogic>>
  BY <1>1 DEF ReaderInv, FreeingHasReader, ReaderNotForgotten
<1>2. ASSUME NEW c \in Clients, NEW what \in {"connect", "disconnect"}, Click(c, what)
      PROVE  ReaderInv'
  <2>1. /\ UNCHANGED <<reader, over, freeing>>
        /\ \A d \in Clients : d # c => blogic'[d] = blogic[d]
        /\ blogic'[c] = Append(blogic[c], what)
    BY <1>2 DEF Click, TypeInv, TypeOK
  <2>2. \A i \in DOMAIN blogic[c] : i \in DOMAIN blogic'[c] /\ blogic'[c][i] = blogic[c][i]
    BY <2>1, AppendIs DEF TypeInv, TypeOK
  <2>3. QED  BY <2>1, <2>2 DEF ReaderInv, FreeingHasReader, ReaderNotForgotten
<1>3. ASSUME NEW c \in Clients, BlogicTakes(c)
      PROVE  ReaderInv'
  <2>1. /\ freeing[c] = "no" /\ UNCHANGED <<reader, over>>
        /\ freeing' = [freeing EXCEPT ![c] = IF reader[c] = None THEN "no" ELSE "calling"]
        /\ \E t : blogic' = [blogic EXCEPT ![c] = t]
    BY <1>3 DEF BlogicTakes, ConnectGateway, DisconnectGateway, OnGatewayDisconnected, Take,
                FreeReaderThread
  <2>2. /\ freeing'[c] = IF reader[c] = None THEN "no" ELSE "calling"
        /\ \A d \in Clients : d # c => blogic'[d] = blogic[d] /\ freeing'[d] = freeing[d]
    BY <2>1 DEF TypeInv, TypeOK
  <2>3. QED  BY <2>1, <2>2 DEF ReaderInv, FreeingHasReader, ReaderNotForgotten
<1>4. ASSUME NEW c \in Clients, DisconnectPush(c) \/ DisconnectFails(c) \/ Deadline(c)
      PROVE  ReaderInv'
  <2>1. /\ freeing[c] = "calling" /\ freeing' = [freeing EXCEPT ![c] = "waiting"]
        /\ UNCHANGED <<reader, over, blogic>>
    BY <1>4 DEF DisconnectPush, DisconnectFails, Deadline
  <2>2. \A d \in Clients : freeing'[d] = "no" <=> freeing[d] = "no"
    BY <2>1 DEF TypeInv, TypeOK
  <2>3. QED  BY <2>1, <2>2 DEF ReaderInv, FreeingHasReader, ReaderNotForgotten
<1>5. ASSUME NEW c \in Clients, ReaderFreed(c)
      PROVE  ReaderInv'
  <2>1. /\ UNCHANGED blogic
        /\ freeing'[c] = "no" /\ ~over'[c]
        /\ \A d \in Clients : d # c =>
             freeing'[d] = freeing[d] /\ over'[d] = over[d] /\ reader'[d] = reader[d]
    BY <1>5 DEF ReaderFreed, TypeInv, TypeOK
  <2>2. QED  BY <2>1 DEF ReaderInv, FreeingHasReader, ReaderNotForgotten
<1>6. ASSUME NEW c \in Clients, NEW s \in Streams, Connect(c, s)
      PROVE  ReaderInv'
  <2>1. /\ UNCHANGED <<freeing, over, blogic>>
        /\ \A d \in Clients : reader[d] # None => reader'[d] # None
    BY <1>6, NoneAssumption DEF Connect, TypeInv, TypeOK
  <2>2. QED  BY <2>1 DEF ReaderInv, FreeingHasReader, ReaderNotForgotten
<1>7. ASSUME NEW c \in Clients, ReaderEnds(c)
      PROVE  ReaderInv'
  <2>1. /\ reader[c] # None /\ UNCHANGED <<reader, freeing>>
        /\ blogic'[c] = Append(blogic[c], "gone")
        /\ \A d \in Clients : d # c => blogic'[d] = blogic[d] /\ over'[d] = over[d]
    BY <1>7 DEF ReaderEnds, TypeInv, TypeOK
  <2>2. \E i \in DOMAIN blogic'[c] : blogic'[c][i] = "gone"
    <3> DEFINE q == blogic[c]
    <3>1. q \in Seq({"connect", "disconnect", "gone"})
      BY DEF TypeInv, TypeOK
    <3>2. /\ Len(q) + 1 \in DOMAIN Append(q, "gone")
          /\ Append(q, "gone")[Len(q) + 1] = "gone"
      BY <3>1, AppendIs
    <3>3. QED  BY <2>1, <3>2
  <2>3. QED  BY <2>1, <2>2 DEF ReaderInv, FreeingHasReader, ReaderNotForgotten
<1>8. ASSUME NEW c \in Clients, Drop(c)
      PROVE  ReaderInv'
  <2>1. /\ UNCHANGED <<reader, over, blogic>>
        /\ freeing' = [freeing EXCEPT ![c] = IF @ = "calling" THEN "waiting" ELSE @]
    BY <1>8 DEF Drop
  <2>2. \A d \in Clients : freeing'[d] = "no" <=> freeing[d] = "no"
    BY <2>1 DEF TypeInv, TypeOK
  <2>3. QED  BY <2>1, <2>2 DEF ReaderInv, FreeingHasReader, ReaderNotForgotten
<1>9. CASE (\E s \in Streams : Enter(s) \/ Refuse(s) \/ Dequeue(s) \/ Leave(s) \/ Written(s)
                                \/ WriteFails(s)) \/ Push \/ Rpc
  <2>1. UNCHANGED clientVars
    BY <1>9 DEF Enter, Refuse, Dequeue, Leave, Written, WriteFails, Push, ConnectClient,
                DisconnectClient, OnGatewayClosed, TakePush, OnPing, Enqueued, Rpc, Stop, Shutdown, Stopped,
                Start
  <2>2. QED  BY <1>1, <2>1 DEF clientVars
<1>10. ASSUME NEW c \in Clients, LateDisconnectPush(c) \/ LoseDisconnectPush(c)
       PROVE  ReaderInv'
  BY <1>1, <1>10 DEF LateDisconnectPush, LoseDisconnectPush
<1>11. CASE UNCHANGED vars
  BY <1>1, <1>11 DEF vars, clientVars
<1>12. QED
  BY <1>2, <1>3, <1>4, <1>5, <1>6, <1>7, <1>8, <1>9, <1>10, <1>11
  DEF Next, Handlers, Client, Calls

\* Every reader thread that has seen the end of its stream is freed, or will be.
THEOREM ReadersNeverForgotten == Spec => []ReaderNotForgotten
<1>1. Init => TypeInv /\ ReaderInv
  BY TypeInit DEF Init, ReaderInv, FreeingHasReader, ReaderNotForgotten
<1>2. TypeInv /\ ReaderInv /\ [Next]_vars => (TypeInv /\ ReaderInv)'
  BY TypeStep, ReaderStep
<1>3. ReaderInv => ReaderNotForgotten
  BY DEF ReaderInv
<1>4. QED  BY <1>1, <1>2, <1>3, PTL DEF Spec

=============================================================================
