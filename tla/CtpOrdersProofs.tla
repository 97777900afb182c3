---------------------------- MODULE CtpOrdersProofs ----------------------------
(***************************************************************************)
(* Theorems about CtpOrders for every set of threads, number of positions  *)
(* and budget.  A callback about an order must find that order, and a      *)
(* command to send must find its request: Typed says so of every queue,    *)
(* beside the types.  Trades rest on what the map has learned              *)
(* (KnownRight).  Order ids rest on the order of the sessions, which count *)
(* down (Linked), and on what a handler that nobody disturbs has read      *)
(* (Ordered).  The positions shown are those of one answer because an      *)
(* answer reaches the CTP thread whole unless the connection breaks in it  *)
(* (Summed).  The order lists are right because the last return of an      *)
(* order tells its present status, and so does an answer that no change    *)
(* has met (Lists).                                                        *)
(***************************************************************************)
EXTENDS CtpOrders, FiniteSetTheorems, TLAPS

OrderT == [session : Nat, ref : Nat, req : DOMAIN answered, status : Statuses]
\* A command to send names a request that was answered.
AskedT == {c \in CommandT : c.kind = "send" => c.req \in DOMAIN answered}
KeptT == {c \in AskedT : c.kind \in CommandKinds}
\* A return names an order, an answer an order, a position or nothing, a login a session.
ReturnT == {c \in CallbackT : c.kind \in {"order", "trade"} /\ c.n \in DOMAIN orders}
AnswerKinds == {"qryOrder", "qryPosition", "login", "down"}
Names(c) ==
  CASE c.kind = "qryOrder" -> c.n = 0 \/ c.n \in DOMAIN orders
    [] c.kind = "qryPosition" -> c.n = 0 \/ c.n \in 1 .. Positions
    [] c.kind = "login" -> c.n # 0
    [] OTHER -> TRUE
AnswerT == {c \in CallbackT : c.kind \in AnswerKinds /\ Names(c)}

HandlersT == [Threads -> [at : {"idle", "counted", "read"}, ref : Nat]]
GatewayTyped ==
  /\ session \in Nat \ {0} /\ ref \in Nat
  /\ handlers \in HandlersT /\ answered \in Seq(Ids)
QueuesTyped == events \in Seq(AskedT) /\ cmds \in Seq(KeptT)
MarketTyped ==
  /\ link \in Nat /\ orders \in Seq(OrderT)
  /\ rsp \in Seq(AnswerT) /\ rtn \in Seq(ReturnT)
KeysT == {"exchange.sysid", "sysid"} \X Nat
KnownTyped == DOMAIN known \subseteq KeysT /\ \A k \in DOMAIN known : known[k] \in Ids
SpiTyped ==
  /\ KnownTyped
  /\ reqIds \in [orders : BOOLEAN, positions : BOOLEAN]
  /\ heard \subseteq Nat \X Ids
FormsTyped ==
  /\ working \subseteq Ids /\ finished \subseteq Ids
  /\ rows \in [1 .. Positions -> Nat]
HistT == [disturbed : BOOLEAN, cut : BOOLEAN, fresh : BOOLEAN, alone : BOOLEAN,
          listed : SUBSET Nat, ignored : SUBSET Nat]
CountsTyped == hist \in HistT /\ left \in [Kinds -> Nat]
Typed ==
  /\ GatewayTyped /\ QueuesTyped /\ MarketTyped
  /\ SpiTyped /\ FormsTyped /\ CountsTyped

-----------------------------------------------------------------------------
(* Sequences *)

LEMMA AppendIs ==
  ASSUME NEW S, NEW q \in Seq(S), NEW e \in S
  PROVE  /\ Append(q, e) \in Seq(S)
         /\ Len(q) \in Nat /\ Len(Append(q, e)) = Len(q) + 1
         /\ Append(q, e)[Len(q) + 1] = e
         /\ \A i \in 1 .. Len(q) : Append(q, e)[i] = q[i]
  OBVIOUS

LEMMA TailIs ==
  ASSUME NEW S, NEW q \in Seq(S), q # <<>>
  PROVE  /\ Tail(q) \in Seq(S) /\ Head(q) \in S /\ Head(q) = q[1]
         /\ Len(q) \in Nat \ {0} /\ Len(Tail(q)) = Len(q) - 1
         /\ \A i \in 1 .. (Len(q) - 1) : Tail(q)[i] = q[i + 1]
  OBVIOUS

LEMMA SingleIs ==
  ASSUME NEW S, NEW e \in S
  PROVE  <<e>> \in Seq(S)
  OBVIOUS

LEMMA PairIs ==
  ASSUME NEW S, NEW e \in S, NEW f \in S
  PROVE  <<e, f>> \in Seq(S)
  OBVIOUS

LEMMA ConcatIs ==
  ASSUME NEW S, NEW q \in Seq(S), NEW r \in Seq(S)
  PROVE  q \o r \in Seq(S)
  OBVIOUS

LEMMA CutIs ==
  ASSUME NEW S, NEW q \in Seq(S), NEW n \in 0 .. Len(q)
  PROVE  SubSeq(q, 1, n) \in Seq(S)
  OBVIOUS

LEMMA Grows ==
  ASSUME NEW S, NEW T, S \subseteq T, NEW q \in Seq(S)
  PROVE  q \in Seq(T)
  OBVIOUS

LEMMA ElementIs ==
  ASSUME NEW S, NEW q \in Seq(S), NEW i \in DOMAIN q
  PROVE  q[i] \in S
  OBVIOUS

-----------------------------------------------------------------------------
(* Types *)

LEMMA TypedEnough ==
  ASSUME Typed
  PROVE  TypeOK
<1>1. events \in Seq(CommandT) /\ cmds \in Seq(CommandT)
  <2>1. AskedT \subseteq CommandT /\ KeptT \subseteq CommandT
    BY DEF AskedT, KeptT
  <2>2. events \in Seq(AskedT) /\ cmds \in Seq(KeptT)
    BY DEF Typed, QueuesTyped
  <2>3. QED  BY <2>1, <2>2, Grows
<1>2. rsp \in Seq(CallbackT) /\ rtn \in Seq(CallbackT)
  <2>1. AnswerT \subseteq CallbackT /\ ReturnT \subseteq CallbackT
    BY DEF AnswerT, ReturnT
  <2>2. rsp \in Seq(AnswerT) /\ rtn \in Seq(ReturnT)
    BY DEF Typed, MarketTyped
  <2>3. QED  BY <2>1, <2>2, Grows
<1>3. Range(known) \subseteq Ids
  BY DEF Range, Typed, SpiTyped, KnownTyped
<1>4. orders \in Seq([session : Nat, ref : Nat, req : DOMAIN answered, status : Statuses])
  BY DEF Typed, MarketTyped, OrderT
<1>5. /\ session \in Nat \ {0} /\ link \in Nat /\ ref \in Nat
      /\ handlers \in [Threads -> [at : {"idle", "counted", "read"}, ref : Nat]]
      /\ answered \in Seq(Ids)
  BY DEF Typed, GatewayTyped, MarketTyped, HandlersT
<1>6. /\ DOMAIN known \subseteq {"exchange.sysid", "sysid"} \X Nat
      /\ reqIds \in [orders : BOOLEAN, positions : BOOLEAN]
      /\ heard \subseteq Nat \X Ids /\ working \subseteq Ids /\ finished \subseteq Ids
      /\ rows \in [1 .. Positions -> Nat]
  BY DEF Typed, SpiTyped, KnownTyped, KeysT, FormsTyped
<1>7. /\ hist \in [disturbed : BOOLEAN, cut : BOOLEAN, fresh : BOOLEAN, alone : BOOLEAN,
                   listed : SUBSET Nat, ignored : SUBSET Nat]
      /\ left \in [Kinds -> Nat]
  BY DEF Typed, CountsTyped, HistT
<1>8. QED  BY <1>1, <1>2, <1>3, <1>4, <1>5, <1>6, <1>7 DEF TypeOK

\* As answers and orders are only added, what was well-typed stays so.
LEMMA QueuesGrow ==
  ASSUME Typed, DOMAIN answered \subseteq DOMAIN answered', DOMAIN orders \subseteq DOMAIN orders'
  PROVE  /\ AskedT \subseteq AskedT' /\ events \in Seq(AskedT') /\ cmds \in Seq(KeptT')
         /\ OrderT \subseteq OrderT' /\ orders \in Seq(OrderT')
         /\ AnswerT \subseteq AnswerT' /\ rsp \in Seq(AnswerT')
         /\ ReturnT \subseteq ReturnT' /\ rtn \in Seq(ReturnT')
<1>1. AskedT \subseteq AskedT' /\ KeptT \subseteq KeptT'
  BY DEF AskedT, KeptT, CommandT
<1>2. OrderT \subseteq OrderT'
  BY DEF OrderT
<1>3. AnswerT \subseteq AnswerT'
  BY DEF AnswerT, Names, CallbackT
<1>4. ReturnT \subseteq ReturnT'
  BY DEF ReturnT, CallbackT
<1>5. /\ events \in Seq(AskedT) /\ cmds \in Seq(KeptT) /\ orders \in Seq(OrderT)
      /\ rsp \in Seq(AnswerT) /\ rtn \in Seq(ReturnT)
  BY DEF Typed, QueuesTyped, MarketTyped
<1>6. QED  BY <1>1, <1>2, <1>3, <1>4, <1>5, Grows

LEMMA KeptGrow ==
  ASSUME Typed, DOMAIN answered \subseteq DOMAIN answered'
  PROVE  cmds \in Seq(KeptT')
<1>1. KeptT \subseteq KeptT' /\ cmds \in Seq(KeptT)
  BY DEF Typed, QueuesTyped, KeptT, AskedT, CommandT
<1>2. QED  BY <1>1, Grows

LEMMA SpendType ==
  ASSUME Typed, NEW k \in Kinds, Use(k)
  PROVE  left' \in [Kinds -> Nat]
<1>1. left \in [Kinds -> Nat] /\ left[k] > 0 /\ left' = [left EXCEPT ![k] = @ - 1]
  BY DEF Typed, CountsTyped, Use
<1>2. left[k] \in Nat /\ left[k] - 1 \in Nat
  BY <1>1
<1>3. QED  BY <1>1, <1>2

LEMMA KindsAre == {"orders", "cancels", "queries", "logins", "refusals"} \subseteq Kinds
  BY DEF Kinds

LEMMA CommandIs ==
  ASSUME NEW k \in CommandKinds \cup {"order", "down"}, NEW q \in Nat, NEW id \in Ids,
         k = "send" => q \in DOMAIN answered
  PROVE  Command(k, q, id) \in AskedT
  BY DEF Command, AskedT, CommandT

LEMMA AnsweredIs ==
  ASSUME Typed
  PROVE  /\ Len(answered) \in Nat /\ DOMAIN answered = 1 .. Len(answered)
         /\ Len(orders) \in Nat /\ DOMAIN orders = 1 .. Len(orders)
         /\ \A q \in DOMAIN answered : answered[q] \in Ids
         /\ \A n \in DOMAIN orders : orders[n] \in OrderT
<1>1. answered \in Seq(Ids) /\ orders \in Seq(OrderT)
  BY DEF Typed, GatewayTyped, MarketTyped
<1>2. QED  BY <1>1, ElementIs

LEMMA IdIs ==
  ASSUME Typed, NEW n \in DOMAIN orders
  PROVE  Id(n) \in Ids /\ n \in Nat
<1>1. orders[n] \in OrderT /\ n \in Nat
  BY AnsweredIs
<1>2. QED  BY <1>1 DEF Id, Ids, OrderT

LEMMA QueuesKept ==
  ASSUME Typed, UNCHANGED <<answered, events, cmds>>
  PROVE  QueuesTyped'
  BY DEF Typed, QueuesTyped, AskedT, KeptT

LEMMA MarketKept ==
  ASSUME Typed, UNCHANGED ctp, DOMAIN answered \subseteq DOMAIN answered'
  PROVE  MarketTyped'
<1>1. /\ orders \in Seq(OrderT') /\ rsp \in Seq(AnswerT') /\ rtn \in Seq(ReturnT')
      /\ link \in Nat
  BY QueuesGrow DEF ctp, Typed, MarketTyped
<1>2. QED  BY <1>1 DEF ctp, MarketTyped

LEMMA GatewayKept == ASSUME Typed, UNCHANGED gateway PROVE GatewayTyped'
  BY DEF Typed, GatewayTyped, gateway
LEMMA SpiKept == ASSUME Typed, UNCHANGED spi PROVE SpiTyped'
  BY DEF Typed, SpiTyped, KnownTyped, spi
LEMMA FormsKept == ASSUME Typed, UNCHANGED forms PROVE FormsTyped'
  BY DEF Typed, FormsTyped, forms

LEMMA HandlersAre ==
  ASSUME Typed, NEW t \in Threads
  PROVE  handlers \in HandlersT /\ handlers[t] \in [at : {"idle", "counted", "read"}, ref : Nat]
  BY DEF Typed, GatewayTyped, HandlersT

LEMMA TypeHandler ==
  ASSUME Typed, Handler
  PROVE  Typed'
<1>1. ASSUME NEW t \in Threads, CountRef(t)
      PROVE  Typed'
  <2>1. handlers' \in HandlersT /\ ref' \in Nat
    <3>1. handlers' = [handlers EXCEPT ![t].at = "counted"] /\ ref' = ref + 1
      BY <1>1 DEF CountRef
    <3>2. ref \in Nat
      BY DEF Typed, GatewayTyped
    <3>3. QED  BY <3>1, <3>2, HandlersAre DEF HandlersT
  <2>2. GatewayTyped'
    BY <1>1, <2>1 DEF CountRef, Typed, GatewayTyped
  <2>3. QueuesTyped' /\ MarketTyped' /\ SpiTyped' /\ FormsTyped'
    BY <1>1, QueuesKept, MarketKept, SpiKept, FormsKept DEF CountRef
  <2>4. left' \in [Kinds -> Nat]
    BY <1>1, SpendType, KindsAre DEF CountRef
  <2>5. hist' \in HistT
    <3>1. (hist.disturbed \/ \E u \in Threads : Running(u)) \in BOOLEAN
      OBVIOUS
    <3>2. hist' = [hist EXCEPT !.disturbed = @ \/ \E u \in Threads : Running(u)] /\ hist \in HistT
      BY <1>1 DEF CountRef, Typed, CountsTyped
    <3>3. QED  BY <3>1, <3>2 DEF HistT
  <2>6. QED  BY <2>2, <2>3, <2>4, <2>5 DEF Typed, CountsTyped
<1>2. ASSUME NEW t \in Threads, ReadRef(t)
      PROVE  Typed'
  <2>1. handlers' \in HandlersT
    <3>1. handlers' = [handlers EXCEPT ![t] = [at |-> "read", ref |-> ref]] /\ ref \in Nat
      BY <1>2 DEF ReadRef, Typed, GatewayTyped
    <3>2. QED  BY <3>1, HandlersAre DEF HandlersT
  <2>2. GatewayTyped'
    BY <1>2, <2>1 DEF ReadRef, Typed, GatewayTyped
  <2>3. QueuesTyped' /\ MarketTyped' /\ SpiTyped' /\ FormsTyped'
    BY <1>2, QueuesKept, MarketKept, SpiKept, FormsKept DEF ReadRef
  <2>4. QED  BY <1>2, <2>2, <2>3 DEF ReadRef, Typed, CountsTyped
<1>3. ASSUME NEW t \in Threads, Answer(t)
      PROVE  Typed'
  <2> DEFINE id == BfOrderId(handlers[t].ref)
             q == Len(answered) + 1
  <2>1. /\ answered' = Append(answered, id) /\ events' = Append(events, Send(q, id))
        /\ handlers' = [handlers EXCEPT ![t] = Idle]
        /\ UNCHANGED <<session, ref, cmds, ctp, spi, forms, hist, left>>
    BY <1>3 DEF Answer
  <2>2. id \in Ids
    BY HandlersAre DEF BfOrderId, Ids, Typed, GatewayTyped
  <2>3. /\ answered' \in Seq(Ids) /\ DOMAIN answered' = 1 .. q /\ q \in Nat
        /\ DOMAIN answered \subseteq DOMAIN answered'
    <3>1. answered \in Seq(Ids)
      BY DEF Typed, GatewayTyped
    <3>2. /\ answered' \in Seq(Ids) /\ Len(answered') = q /\ Len(answered) \in Nat
      BY <2>1, <2>2, <3>1, AppendIs
    <3>3. DOMAIN answered' = 1 .. q /\ DOMAIN answered = 1 .. Len(answered)
      BY <3>1, <3>2
    <3>4. QED  BY <3>2, <3>3
  <2>4. Send(q, id) \in AskedT'
    BY <2>2, <2>3 DEF Send, Command, AskedT, CommandT, CommandKinds
  <2>5. DOMAIN orders \subseteq DOMAIN orders'
    BY <2>1 DEF ctp
  <2>6. QueuesTyped'
    <3>1. events \in Seq(AskedT') /\ cmds \in Seq(KeptT')
      BY <2>3, <2>5, QueuesGrow
    <3>2. events' \in Seq(AskedT')
      BY <2>1, <2>4, <3>1, AppendIs
    <3>3. QED  BY <2>1, <3>1, <3>2 DEF QueuesTyped
  <2>7. MarketTyped'
    BY <2>1, <2>3, MarketKept
  <2>8. GatewayTyped'
    <3>1. handlers' \in HandlersT
      BY <2>1, HandlersAre DEF HandlersT, Idle
    <3>2. QED  BY <2>1, <2>3, <3>1 DEF Typed, GatewayTyped
  <2>9. SpiTyped' /\ FormsTyped' /\ CountsTyped'
    BY <2>1, SpiKept, FormsKept DEF Typed, CountsTyped
  <2>10. QED  BY <2>6, <2>7, <2>8, <2>9 DEF Typed
<1>4. QED  BY <1>1, <1>2, <1>3 DEF Handler

\* What a request appends for BLOGIC.
LEMMA AppendAsked ==
  ASSUME Typed, NEW e \in AskedT, events' = Append(events, e), UNCHANGED <<answered, cmds>>
  PROVE  QueuesTyped'
<1>1. events \in Seq(AskedT) /\ cmds \in Seq(KeptT)
  BY DEF Typed, QueuesTyped
<1>2. Append(events, e) \in Seq(AskedT)
  BY <1>1, AppendIs
<1>3. QED  BY <1>1, <1>2 DEF QueuesTyped, AskedT, KeptT

LEMMA PlainCommands ==
  /\ Query("orders") \in AskedT /\ Query("positions") \in AskedT
  /\ WindowOrder \in AskedT /\ Disconnected \in AskedT
<1>1. <<0, 0>> \in Ids
  BY DEF Ids
<1>2. QED  BY <1>1, CommandIs DEF Query, WindowOrder, Disconnected, CommandKinds

LEMMA TypeRequest ==
  ASSUME Typed, Request
  PROVE  Typed'
<1>1. UNCHANGED <<gateway, cmds, ctp, spi, working, finished, hist>>
  BY DEF Request, Cancel, QueryOrders, QueryPosition, QueryPositionButton, SendOrderButton,
         CloseAllButton, forms
<1>2. GatewayTyped' /\ MarketTyped' /\ SpiTyped'
  BY <1>1, GatewayKept, MarketKept, SpiKept DEF gateway
<1>3. UNCHANGED <<answered, cmds>>
  BY <1>1 DEF gateway
<1>4. FormsTyped'
  <2>1. rows \in [1 .. Positions -> Nat] /\ working \subseteq Ids /\ finished \subseteq Ids
    BY DEF Typed, FormsTyped
  <2>2. rows' = rows \/ rows' = [p \in 1 .. Positions |-> 0]
    BY DEF Request, Cancel, QueryOrders, QueryPosition, QueryPositionButton, SendOrderButton,
           CloseAllButton, forms
  <2>3. rows' \in [1 .. Positions -> Nat]
    BY <2>1, <2>2
  <2>4. QED  BY <1>1, <2>1, <2>3 DEF FormsTyped
<1>5. QueuesTyped' /\ left' \in [Kinds -> Nat]
  <2>1. CASE Cancel
    <3>1. PICK id \in Range(answered) \cup working : events' = Append(events, CancelOf(id))
      BY <2>1 DEF Cancel
    <3>2. Range(answered) \subseteq Ids
      BY AnsweredIs DEF Range
    <3>3. id \in Ids
      BY <3>2 DEF Typed, FormsTyped
    <3>4. CancelOf(id) \in AskedT
      BY <3>3, CommandIs DEF CancelOf, CommandKinds
    <3>5. QED  BY <1>3, <2>1, <3>1, <3>4, AppendAsked, SpendType, KindsAre DEF Cancel
  <2>2. CASE QueryOrders
    BY <1>3, <2>2, PlainCommands, AppendAsked, SpendType, KindsAre DEF QueryOrders
  <2>3. CASE QueryPosition
    BY <1>3, <2>3, PlainCommands, AppendAsked, SpendType, KindsAre DEF QueryPosition
  <2>4. CASE QueryPositionButton
    BY <1>3, <2>4, PlainCommands, AppendAsked, SpendType, KindsAre DEF QueryPositionButton
  <2>5. CASE SendOrderButton
    BY <1>3, <2>5, PlainCommands, AppendAsked, SpendType, KindsAre DEF SendOrderButton
  <2>6. CASE CloseAllButton
    <3> DEFINE shown == {p \in DOMAIN rows : rows[p] > 0}
    <3>1. Cardinality(shown) \in Nat
      <4>1. IsFiniteSet(1 .. Positions)
        BY PositionsAssumption, FS_Interval
      <4>2. shown \subseteq 1 .. Positions
        BY DEF Typed, FormsTyped
      <4>3. QED  BY <4>1, <4>2, FS_Subset, FS_CardinalityType
    <3>2. PICK n \in 1 .. Cardinality(shown) :
            /\ n <= left.orders /\ left' = [left EXCEPT !.orders = @ - n]
            /\ events' = events \o [i \in 1 .. n |-> WindowOrder]
      BY <2>6 DEF CloseAllButton
    <3>3. n \in Nat
      BY <3>1
    <3>4. left' \in [Kinds -> Nat]
      <4>1. left \in [Kinds -> Nat] /\ "orders" \in Kinds
        BY KindsAre DEF Typed, CountsTyped
      <4>2. left["orders"] \in Nat /\ left["orders"] - n \in Nat
        BY <3>2, <3>3, <4>1
      <4>3. QED  BY <3>2, <4>1, <4>2
    <3>5. [i \in 1 .. n |-> WindowOrder] \in Seq(AskedT)
      BY <3>3, PlainCommands
    <3>6. events' \in Seq(AskedT) /\ cmds \in Seq(KeptT)
      BY <3>2, <3>5, ConcatIs DEF Typed, QueuesTyped
    <3>7. QED  BY <1>3, <3>4, <3>6 DEF QueuesTyped, AskedT, KeptT
  <2>7. QED  BY <2>1, <2>2, <2>3, <2>4, <2>5, <2>6 DEF Request
<1>6. QED  BY <1>1, <1>2, <1>4, <1>5 DEF Typed, CountsTyped

-----------------------------------------------------------------------------
(* BLOGIC *)

\* Orders are never forgotten, and keep their session, reference and request.
Stay ==
  /\ DOMAIN orders \subseteq DOMAIN orders'
  /\ \A n \in DOMAIN orders :
       /\ orders'[n].session = orders[n].session /\ orders'[n].ref = orders[n].ref
       /\ orders'[n].req = orders[n].req

LEMMA StayUnchanged == ASSUME Typed, UNCHANGED orders PROVE Stay
  BY DEF Stay

\* An order changes its status, and a return of it may be on its way.
LEMMA StatusType ==
  ASSUME Typed, NEW n \in DOMAIN orders, NEW status \in Statuses,
         orders' = [orders EXCEPT ![n].status = status], UNCHANGED <<link, rsp>>,
         DOMAIN answered \subseteq DOMAIN answered'
  PROVE  /\ Stay /\ DOMAIN orders' = DOMAIN orders /\ ReturnT' = ReturnT
         /\ orders' \in Seq(OrderT') /\ rsp' \in Seq(AnswerT') /\ link' \in Nat
         /\ OrderReturn(n, status) \in ReturnT
         /\ Callback("trade", n, "done", FALSE) \in ReturnT
<1>1. /\ orders \in Seq(OrderT) /\ orders[n] \in OrderT /\ DOMAIN orders = 1 .. Len(orders)
      /\ Len(orders) \in Nat /\ \A i \in DOMAIN orders : orders[i] \in OrderT
  BY AnsweredIs DEF Typed, MarketTyped
<1>2. [orders[n] EXCEPT !.status = status] \in OrderT
  BY <1>1 DEF OrderT
<1>3. /\ DOMAIN orders' = 1 .. Len(orders) /\ orders'[n] = [orders[n] EXCEPT !.status = status]
      /\ \A i \in 1 .. Len(orders) : i # n => orders'[i] = orders[i]
  BY <1>1
<1>4. orders' \in [1 .. Len(orders) -> OrderT]
  BY <1>1, <1>2
<1>5. orders' \in Seq(OrderT')
  <2>1. orders' \in Seq(OrderT)
    BY <1>1, <1>4
  <2>2. OrderT \subseteq OrderT'
    BY DEF OrderT
  <2>3. QED  BY <2>1, <2>2, Grows
<1>6. Stay
  BY <1>1, <1>3 DEF Stay, OrderT
<1>7. AnswerT' = AnswerT /\ ReturnT' = ReturnT
  BY <1>1, <1>3 DEF AnswerT, Names, ReturnT
<1>8. OrderReturn(n, status) \in ReturnT /\ Callback("trade", n, "done", FALSE) \in ReturnT
  BY <1>1 DEF OrderReturn, Callback, ReturnT, CallbackT, Statuses
<1>9. QED  BY <1>1, <1>3, <1>5, <1>6, <1>7, <1>8 DEF Typed, MarketTyped

\* A new order.
LEMMA InsertType ==
  ASSUME Typed, DOMAIN answered \subseteq DOMAIN answered', NEW q \in DOMAIN answered', NEW r \in Nat,
         Insert(q, r), UNCHANGED <<link, rsp>>
  PROVE  MarketTyped' /\ Stay
<1>1. CASE Taken(link, r)
  <2>1. UNCHANGED ctp
    BY <1>1 DEF Insert, Rejected, ctp
  <2>2. QED  BY <2>1, MarketKept, StayUnchanged DEF ctp
<1>2. CASE ~ Taken(link, r)
  <2> DEFINE e == [session |-> link, ref |-> r, req |-> q, status |-> "accepted"]
  <2> PICK n : n = Len(orders) + 1
    OBVIOUS
  <2>1. orders' = Append(orders, e) /\ rtn' = Append(rtn, OrderReturn(n, "accepted"))
    BY <1>2 DEF Insert
  <2>2. orders \in Seq(OrderT) /\ link \in Nat
    BY DEF Typed, MarketTyped
  <2>3. e \in OrderT'
    BY <2>2 DEF OrderT, Statuses
  <2>4. /\ Len(orders) \in Nat /\ Len(orders') = n /\ DOMAIN orders = 1 .. Len(orders)
        /\ \A i \in 1 .. Len(orders) : orders'[i] = orders[i]
    BY <2>1, <2>2
  <2>5. DOMAIN orders' = 1 .. n
    BY <2>1, <2>2
  <2>6. DOMAIN orders \subseteq DOMAIN orders' /\ n \in DOMAIN orders' /\ n \in Nat
    BY <2>4, <2>5
  <2>7. orders \in Seq(OrderT') /\ rsp \in Seq(AnswerT') /\ rtn \in Seq(ReturnT')
    BY <2>6, QueuesGrow
  <2>8. orders' \in Seq(OrderT')
    BY <2>1, <2>3, <2>7, AppendIs
  <2>9. OrderReturn(n, "accepted") \in ReturnT'
    BY <2>6 DEF OrderReturn, Callback, ReturnT, CallbackT, Statuses
  <2>10. rtn' \in Seq(ReturnT')
    BY <2>1, <2>7, <2>9, AppendIs
  <2>11. Stay
    BY <2>4, <2>6 DEF Stay
  <2>12. QED  BY <2>2, <2>7, <2>8, <2>10, <2>11 DEF MarketTyped
<1>3. QED  BY <1>1, <1>2

LEMMA ActionType ==
  ASSUME Typed, DOMAIN answered \subseteq DOMAIN answered', NEW id, Action(id), UNCHANGED <<link, rsp>>
  PROVE  MarketTyped' /\ Stay
<1>1. CASE Named(id) = {}
  <2>1. UNCHANGED ctp
    BY <1>1 DEF Action, Rejected, ctp
  <2>2. QED  BY <2>1, MarketKept, StayUnchanged DEF ctp
<1>2. CASE Named(id) # {}
  <2>1. PICK n \in Named(id) : /\ orders' = [orders EXCEPT ![n].status = "done"]
                               /\ rtn' = Append(rtn, OrderReturn(n, "done"))
    BY <1>2 DEF Action
  <2>2. n \in DOMAIN orders /\ "done" \in Statuses
    BY DEF Named, Statuses
  <2>3. /\ Stay /\ ReturnT' = ReturnT /\ OrderReturn(n, "done") \in ReturnT
        /\ orders' \in Seq(OrderT') /\ rsp' \in Seq(AnswerT') /\ link' \in Nat
    BY <2>1, <2>2, StatusType
  <2>4. rtn' \in Seq(ReturnT')
    BY <2>1, <2>3, AppendIs DEF Typed, MarketTyped
  <2>5. QED  BY <2>3, <2>4 DEF MarketTyped
<1>3. QED  BY <1>1, <1>2

LEMMA AnswersType ==
  ASSUME Typed
  PROVE  /\ \A a \in OrderAnswers : a \in Seq(AnswerT)
         /\ \A a \in PositionAnswers : a \in Seq(AnswerT)
<1>1. ASSUME NEW kind \in {"qryOrder", "qryPosition"}
      PROVE  NoRecord(kind) \in Seq(AnswerT)
  <2>1. Callback(kind, 0, "accepted", TRUE) \in AnswerT
    BY DEF Callback, AnswerT, CallbackT, AnswerKinds, Names, Statuses
  <2>2. QED  BY <2>1, SingleIs DEF NoRecord
<1>2. [n \in DOMAIN orders |-> Callback("qryOrder", n, orders[n].status, n = Len(orders))]
        \in Seq(AnswerT)
  <2>1. ASSUME NEW n \in DOMAIN orders
        PROVE  Callback("qryOrder", n, orders[n].status, n = Len(orders)) \in AnswerT
    <3>1. n \in Nat /\ orders[n].status \in Statuses
      BY AnsweredIs DEF OrderT
    <3>2. (n = Len(orders)) \in BOOLEAN
      OBVIOUS
    <3>3. QED  BY <3>1, <3>2 DEF Callback, AnswerT, CallbackT, AnswerKinds, Names
  <2>2. DOMAIN orders = 1 .. Len(orders) /\ Len(orders) \in Nat
    BY AnsweredIs
  <2>3. QED  BY <2>1, <2>2
<1>3. [p \in 1 .. Positions |-> Callback("qryPosition", p, "accepted", p = Positions)]
        \in Seq(AnswerT)
  <2>1. ASSUME NEW p \in 1 .. Positions
        PROVE  Callback("qryPosition", p, "accepted", p = Positions) \in AnswerT
    <3>1. p \in Nat /\ (p = Positions) \in BOOLEAN
      BY PositionsAssumption
    <3>2. QED  BY <3>1 DEF Callback, AnswerT, CallbackT, AnswerKinds, Names, Statuses
  <2>2. QED  BY <2>1, PositionsAssumption
<1>4. QED  BY <1>1, <1>2, <1>3 DEF OrderAnswers, PositionAnswers

LEMMA SentType ==
  ASSUME Typed, DOMAIN answered \subseteq DOMAIN answered', NEW c \in KeptT', Sent(c), UNCHANGED link
  PROVE  MarketTyped' /\ Stay
<1>1. c \in CommandT /\ c.kind \in CommandKinds /\ (c.kind = "send" => c.req \in DOMAIN answered')
  BY DEF KeptT, AskedT
<1>2. CASE c.kind = "send"
  <2>1. Insert(c.req, c.id[2]) /\ UNCHANGED rsp
    BY <1>2 DEF Sent
  <2>2. c.id[2] \in Nat
    BY <1>1 DEF CommandT, Ids
  <2>3. QED  BY <1>1, <1>2, <2>1, <2>2, InsertType
<1>3. CASE c.kind = "cancel"
  <2>1. Action(c.id) /\ UNCHANGED rsp
    BY <1>3 DEF Sent
  <2>2. QED  BY <2>1, ActionType
<1>4. CASE c.kind \in {"orders", "positions"}
  <2>1. UNCHANGED <<orders, rtn>>
    BY <1>4 DEF Sent
  <2>2. PICK a \in OrderAnswers \cup PositionAnswers : rsp' = rsp \o a
    BY <1>4 DEF Sent
  <2>3. a \in Seq(AnswerT) /\ rsp \in Seq(AnswerT)
    BY AnswersType DEF Typed, MarketTyped
  <2>4. rsp' \in Seq(AnswerT)
    BY <2>2, <2>3, ConcatIs
  <2>5. DOMAIN orders \subseteq DOMAIN orders'
    BY <2>1
  <2>6. AnswerT \subseteq AnswerT' /\ orders \in Seq(OrderT') /\ rtn \in Seq(ReturnT')
    BY <2>5, QueuesGrow
  <2>7. rsp' \in Seq(AnswerT')
    BY <2>4, <2>6, Grows
  <2>8. QED  BY <2>1, <2>6, <2>7, StayUnchanged DEF MarketTyped, Typed
<1>5. QED  BY <1>1, <1>2, <1>3, <1>4 DEF CommandKinds

LEMMA HistIs ==
  ASSUME Typed
  PROVE  hist \in HistT /\ hist.disturbed \in BOOLEAN /\ hist.cut \in BOOLEAN /\ hist.alone \in BOOLEAN
         /\ hist.listed \subseteq Nat /\ hist.ignored \subseteq Nat
  BY DEF Typed, CountsTyped, HistT

LEMMA RunType ==
  ASSUME Typed, DOMAIN answered \subseteq DOMAIN answered', NEW c \in KeptT', NEW disturbs,
         Run(c, disturbs), UNCHANGED link
  PROVE  MarketTyped' /\ Stay /\ cmds' \in Seq(KeptT') /\ CountsTyped'
<1>1. cmds \in Seq(KeptT') /\ left \in [Kinds -> Nat]
  BY KeptGrow DEF Typed, CountsTyped
<1>2. hist' \in HistT
  <2> DEFINE alone == IF cmds' = cmds /\ link # 0 THEN Alone(c) ELSE hist.alone
  <2>1. hist' = [hist EXCEPT !.disturbed = @ \/ disturbs, !.alone = alone]
    BY DEF Run
  <2>2. alone \in BOOLEAN
    BY HistIs DEF Alone
  <2>3. (hist.disturbed \/ disturbs) \in BOOLEAN
    OBVIOUS
  <2> HIDE DEF alone
  <2>4. QED  BY <2>1, <2>2, <2>3, HistIs DEF HistT
<1>3. CASE link = 0 /\ UNCHANGED <<cmds, orders, rsp, rtn, left>>
  <2>1. UNCHANGED ctp
    BY <1>3 DEF ctp
  <2>2. QED  BY <1>1, <1>2, <1>3, <2>1, MarketKept, StayUnchanged DEF CountsTyped
<1>4. CASE link # 0 /\ Sent(c) /\ UNCHANGED <<cmds, left>>
  BY <1>1, <1>2, <1>4, SentType DEF CountsTyped
<1>5. CASE /\ link # 0 /\ Use("refusals")
           /\ cmds' = Append(cmds, c) /\ UNCHANGED <<orders, rsp, rtn>>
  <2>1. UNCHANGED ctp
    BY <1>5 DEF ctp
  <2>2. cmds' \in Seq(KeptT')
    BY <1>1, <1>5, AppendIs
  <2>3. left' \in [Kinds -> Nat]
    BY <1>5, SpendType, KindsAre
  <2>4. QED  BY <1>2, <1>5, <2>1, <2>2, <2>3, MarketKept, StayUnchanged DEF CountsTyped
<1>6. QED  BY <1>3, <1>4, <1>5 DEF Run

LEMMA HeadOfEvents ==
  ASSUME Typed, events # <<>>
  PROVE  Head(events) \in AskedT /\ Tail(events) \in Seq(AskedT)
  BY TailIs DEF Typed, QueuesTyped

LEMMA WindowCommand ==
  ASSUME Typed, SendOrder
  PROVE  /\ answered' \in Seq(Ids) /\ Len(answered) \in Nat /\ DOMAIN answered = 1 .. Len(answered)
         /\ DOMAIN answered' = 1 .. (Len(answered) + 1)
         /\ DOMAIN answered \subseteq DOMAIN answered'
         /\ answered'[Len(answered) + 1] = BfOrderId(ref + 1)
         /\ \A q \in DOMAIN answered : answered'[q] = answered[q]
         /\ Send(Len(answered) + 1, BfOrderId(ref + 1)) \in KeptT'
<1> DEFINE id == BfOrderId(ref + 1)
           q == Len(answered) + 1
<1>1. answered' = Append(answered, id)
  BY DEF SendOrder
<1>2. answered \in Seq(Ids) /\ session \in Nat \ {0} /\ ref \in Nat
  BY DEF Typed, GatewayTyped
<1>3. id \in Ids
  BY <1>2 DEF BfOrderId, Ids
<1> HIDE DEF id
<1>4. /\ answered' \in Seq(Ids) /\ Len(answered') = q /\ Len(answered) \in Nat /\ answered'[q] = id
      /\ \A i \in 1 .. Len(answered) : answered'[i] = answered[i]
  BY <1>1, <1>2, <1>3, AppendIs
<1>5. DOMAIN answered' = 1 .. q /\ DOMAIN answered = 1 .. Len(answered)
  BY <1>2, <1>4
<1>6. DOMAIN answered \subseteq DOMAIN answered' /\ q \in DOMAIN answered' /\ q \in Nat
  BY <1>4, <1>5
<1>7. Send(q, id) \in KeptT'
  BY <1>3, <1>6 DEF Send, Command, KeptT, AskedT, CommandT, CommandKinds
<1>8. QED  BY <1>4, <1>5, <1>6, <1>7 DEF id

LEMMA TypeBlogic ==
  ASSUME Typed, Blogic
  PROVE  Typed' /\ Stay
<1>1. CASE RunCmd
  <2>1. /\ Head(events) \in AskedT /\ Head(events).kind \in CommandKinds /\ Tail(events) \in Seq(AskedT)
        /\ events' = Tail(events) /\ UNCHANGED <<gateway, link, spi, forms>>
        /\ Run(Head(events), Late(Head(events)))
    BY <1>1, HeadOfEvents DEF RunCmd, IsEvent
  <2>2. UNCHANGED answered /\ KeptT' = KeptT /\ AskedT' = AskedT
    BY <2>1 DEF gateway, KeptT, AskedT
  <2>3. MarketTyped' /\ Stay /\ cmds' \in Seq(KeptT') /\ CountsTyped'
    BY <2>1, <2>2, RunType DEF KeptT
  <2>4. GatewayTyped' /\ SpiTyped' /\ FormsTyped'
    BY <2>1, GatewayKept, SpiKept, FormsKept
  <2>5. QED  BY <2>1, <2>2, <2>3, <2>4 DEF Typed, QueuesTyped
<1>2. CASE SendOrder
  <2> DEFINE id == BfOrderId(ref + 1)
             q == Len(answered) + 1
             c == Send(q, id)
  <2>1. /\ answered' = Append(answered, id) /\ ref' = ref + 1 /\ events' = Tail(events)
        /\ Run(c, Late(c) \/ \E t \in Threads : Running(t))
        /\ UNCHANGED <<session, handlers, link, spi, forms>> /\ Tail(events) \in Seq(AskedT)
    BY <1>2, HeadOfEvents DEF SendOrder, IsEvent
  <2>2. session \in Nat \ {0} /\ ref \in Nat /\ handlers \in HandlersT
    BY DEF Typed, GatewayTyped
  <2>3. answered' \in Seq(Ids) /\ DOMAIN answered \subseteq DOMAIN answered' /\ c \in KeptT'
    BY <1>2, WindowCommand
  <2>4. MarketTyped' /\ Stay /\ cmds' \in Seq(KeptT') /\ CountsTyped'
    <3> HIDE DEF c
    <3>1. QED  BY <2>1, <2>3, RunType
  <2>5. AskedT \subseteq AskedT'
    BY <2>3 DEF AskedT, CommandT
  <2>6. events' \in Seq(AskedT')
    BY <2>1, <2>5, Grows
  <2>7. GatewayTyped'
    BY <2>1, <2>2, <2>3 DEF GatewayTyped
  <2>8. SpiTyped' /\ FormsTyped'
    BY <2>1, SpiKept, FormsKept
  <2>9. QED  BY <2>4, <2>6, <2>7, <2>8 DEF Typed, QueuesTyped
<1>3. CASE RunKeptCmd
  <2>1. /\ cmds # <<>> /\ cmds' = Tail(cmds) /\ UNCHANGED <<gateway, events, link, spi, forms, left>>
    BY <1>3 DEF RunKeptCmd
  <2>2. UNCHANGED answered /\ KeptT' = KeptT /\ AskedT' = AskedT
    BY <2>1 DEF gateway, KeptT, AskedT
  <2>3. Head(cmds) \in KeptT /\ cmds' \in Seq(KeptT)
    BY <2>1, TailIs DEF Typed, QueuesTyped
  <2>4. MarketTyped' /\ Stay
    <3>1. CASE link = 0 /\ UNCHANGED <<orders, rsp, rtn, hist>>
      <4>1. UNCHANGED ctp
        BY <2>1, <3>1 DEF ctp
      <4>2. QED  BY <2>2, <3>1, <4>1, MarketKept, StayUnchanged
    <3>2. CASE link # 0 /\ Sent(Head(cmds))
      BY <2>1, <2>2, <2>3, <3>2, SentType
    <3>3. QED  BY <1>3, <3>1, <3>2 DEF RunKeptCmd
  <2>5. CountsTyped'
    <3>1. Alone(Head(cmds)) \in BOOLEAN
      BY HistIs DEF Alone
    <3>2. hist' = hist \/ hist' = [hist EXCEPT !.alone = Alone(Head(cmds))]
      BY <1>3 DEF RunKeptCmd
    <3>3. hist' \in HistT
      BY <3>1, <3>2, HistIs DEF HistT
    <3>4. QED  BY <2>1, <3>3 DEF Typed, CountsTyped
  <2>6. GatewayTyped' /\ SpiTyped' /\ FormsTyped'
    BY <2>1, GatewayKept, SpiKept, FormsKept
  <2>7. QED  BY <2>1, <2>2, <2>3, <2>4, <2>5, <2>6 DEF Typed, QueuesTyped
<1>4. CASE ResetCmds
  <2>1. /\ Tail(events) \in Seq(AskedT) /\ events' = Tail(events) /\ cmds' = <<>>
        /\ UNCHANGED <<gateway, ctp, spi, forms, hist, left>>
    BY <1>4, HeadOfEvents DEF ResetCmds, IsEvent
  <2>2. UNCHANGED answered /\ UNCHANGED orders /\ KeptT' = KeptT /\ AskedT' = AskedT
    BY <2>1 DEF gateway, KeptT, AskedT, ctp
  <2>3. GatewayTyped' /\ MarketTyped' /\ SpiTyped' /\ FormsTyped' /\ Stay
    BY <2>1, <2>2, GatewayKept, MarketKept, SpiKept, FormsKept, StayUnchanged
  <2>4. QED  BY <2>1, <2>2, <2>3 DEF Typed, QueuesTyped, CountsTyped
<1>5. QED  BY <1>1, <1>2, <1>3, <1>4 DEF Blogic

-----------------------------------------------------------------------------
(* CTP *)

LEMMA TypeCtp ==
  ASSUME Typed, Ctp
  PROVE  Typed' /\ Stay
<1>1. /\ UNCHANGED <<gateway, events, cmds, spi, forms>> /\ UNCHANGED answered
      /\ rtn \in Seq(ReturnT) /\ rsp \in Seq(AnswerT)
  BY DEF Ctp, Assign, Fill, Drop, Login, gateway, Typed, MarketTyped
<1>2. GatewayTyped' /\ QueuesTyped' /\ SpiTyped' /\ FormsTyped'
  BY <1>1, GatewayKept, QueuesKept, SpiKept, FormsKept
<1>3. CASE Assign
  <2>1. PICK n \in DOMAIN orders :
          /\ orders' = [orders EXCEPT ![n].status = "working"]
          /\ rtn' = IF link = 0 THEN rtn ELSE Append(rtn, OrderReturn(n, "working"))
    BY <1>3 DEF Assign
  <2>2. "working" \in Statuses /\ UNCHANGED <<link, rsp>>
    BY <1>3 DEF Statuses, Assign
  <2>3. /\ Stay /\ ReturnT' = ReturnT /\ OrderReturn(n, "working") \in ReturnT
        /\ orders' \in Seq(OrderT') /\ rsp' \in Seq(AnswerT') /\ link' \in Nat
    BY <1>1, <2>1, <2>2, StatusType
  <2>4. rtn' \in Seq(ReturnT)
    BY <1>1, <2>1, <2>3, AppendIs
  <2>5. CountsTyped'
    BY <1>3, HistIs DEF Assign, Typed, CountsTyped, HistT
  <2>6. QED  BY <1>2, <2>3, <2>4, <2>5 DEF Typed, MarketTyped
<1>4. CASE Fill
  <2>1. PICK n \in DOMAIN orders :
          /\ orders' = [orders EXCEPT ![n].status = "done"]
          /\ rtn' \in IF link = 0 THEN {rtn}
                        ELSE {rtn \o <<OrderReturn(n, "done"), Callback("trade", n, "done", FALSE)>>,
                              rtn \o <<Callback("trade", n, "done", FALSE), OrderReturn(n, "done")>>}
    BY <1>4 DEF Fill
  <2>2. "done" \in Statuses /\ UNCHANGED <<link, rsp>>
    BY <1>4 DEF Statuses, Fill
  <2> DEFINE return == OrderReturn(n, "done")
             trade == Callback("trade", n, "done", FALSE)
  <2>3. /\ Stay /\ ReturnT' = ReturnT /\ return \in ReturnT /\ trade \in ReturnT
        /\ orders' \in Seq(OrderT') /\ rsp' \in Seq(AnswerT') /\ link' \in Nat
    BY <1>1, <2>1, <2>2, StatusType
  <2>4. rtn' \in {rtn, rtn \o <<return, trade>>, rtn \o <<trade, return>>}
    BY <2>1
  <2> HIDE DEF return, trade
  <2>5. <<return, trade>> \in Seq(ReturnT) /\ <<trade, return>> \in Seq(ReturnT)
    BY <2>3, PairIs
  <2>6. rtn' \in Seq(ReturnT)
    BY <1>1, <2>4, <2>5, ConcatIs
  <2>7. CountsTyped'
    BY <1>4, HistIs DEF Fill, Typed, CountsTyped, HistT
  <2>8. QED  BY <1>2, <2>3, <2>6, <2>7 DEF Typed, MarketTyped
<1>5. CASE Drop
  <2>1. PICK i \in 0 .. Len(rsp), j \in 0 .. Len(rtn) :
          /\ rsp' = SubSeq(rsp, 1, i) \o <<Callback("down", 0, "accepted", TRUE)>>
          /\ rtn' = SubSeq(rtn, 1, j)
    BY <1>5 DEF Drop
  <2>2. UNCHANGED orders /\ link' = 0
    BY <1>5 DEF Drop
  <2>3. AnswerT' = AnswerT /\ ReturnT' = ReturnT /\ OrderT' = OrderT
    BY <1>1, <2>2 DEF AnswerT, Names, ReturnT, OrderT
  <2>4. Callback("down", 0, "accepted", TRUE) \in AnswerT
    BY DEF Callback, AnswerT, CallbackT, AnswerKinds, Names, Statuses
  <2>5. SubSeq(rsp, 1, i) \in Seq(AnswerT) /\ SubSeq(rtn, 1, j) \in Seq(ReturnT)
    BY <1>1, CutIs
  <2>6. rsp' \in Seq(AnswerT)
    BY <2>1, <2>4, <2>5, SingleIs, ConcatIs
  <2>7. CountsTyped'
    BY <1>5, HistIs DEF Drop, Typed, CountsTyped, HistT
  <2>8. QED  BY <1>2, <2>1, <2>2, <2>3, <2>5, <2>6, <2>7, StayUnchanged DEF Typed, MarketTyped
<1>6. CASE Login
  <2>1. UNCHANGED <<orders, rtn, hist>>
    BY <1>6 DEF Login
  <2>2. left' \in [Kinds -> Nat]
    BY <1>6, SpendType, KindsAre DEF Login
  <2>3. link' \in Nat \ {0}
    <3>1. link' = left["logins"] /\ left["logins"] > 0
      BY <1>6 DEF Login, Use
    <3>2. left["logins"] \in Nat
      BY KindsAre DEF Typed, CountsTyped
    <3>3. QED  BY <3>1, <3>2
  <2>4. AnswerT' = AnswerT /\ ReturnT' = ReturnT /\ OrderT' = OrderT
    BY <1>1, <2>1 DEF AnswerT, Names, ReturnT, OrderT
  <2>5. Callback("login", link', "accepted", TRUE) \in AnswerT
    BY <2>3 DEF Callback, AnswerT, CallbackT, AnswerKinds, Names, Statuses
  <2>6. rsp' \in Seq(AnswerT)
    BY <1>6, <2>5, SingleIs DEF Login
  <2>7. QED  BY <1>1, <1>2, <2>1, <2>2, <2>3, <2>4, <2>6, StayUnchanged DEF Typed, MarketTyped, CountsTyped
<1>7. QED  BY <1>3, <1>4, <1>5, <1>6 DEF Ctp

-----------------------------------------------------------------------------
(* The CTP thread *)

\* What a callback leaves alone, and that it takes the head of a flow.
LEMMA TypeSpiMarket ==
  ASSUME Typed, UNCHANGED <<answered, link, orders>>,
         \/ rsp # <<>> /\ rsp' = Tail(rsp) /\ rtn' = rtn
         \/ rtn # <<>> /\ rtn' = Tail(rtn) /\ rsp' = rsp
  PROVE  MarketTyped'
<1>1. AnswerT' = AnswerT /\ ReturnT' = ReturnT /\ OrderT' = OrderT
  BY DEF AnswerT, Names, ReturnT, OrderT
<1>2. rtn \in Seq(ReturnT) /\ rsp \in Seq(AnswerT) /\ orders \in Seq(OrderT) /\ link \in Nat
  BY DEF Typed, MarketTyped
<1>3. rsp' \in Seq(AnswerT) /\ rtn' \in Seq(ReturnT)
  BY <1>2, TailIs
<1>4. QED  BY <1>1, <1>2, <1>3 DEF MarketTyped

LEMMA RememberIs ==
  ASSUME KnownTyped, NEW k \in KeysT, NEW id \in Ids
  PROVE  LET m == Remember(k, id) IN
           /\ DOMAIN m = DOMAIN known \cup {k} /\ m[k] = id
           /\ \A j \in DOMAIN known : j # k => m[j] = known[j]
           /\ DOMAIN m \subseteq KeysT /\ \A j \in DOMAIN m : m[j] \in Ids
  BY DEF Remember, KnownTyped

LEMMA KeysAre ==
  ASSUME NEW n \in Nat
  PROVE  FullKey(n) \in KeysT /\ BareKey(n) \in KeysT
  BY DEF FullKey, BareKey, KeysT

LEMMA ListsType ==
  ASSUME NEW list \in SUBSET Ids, NEW id \in Ids, NEW status
  PROVE  Listed(status, list, id) \subseteq Ids /\ Ended(status, list, id) \subseteq Ids
         /\ BegunList(list) \subseteq Ids
  BY DEF Listed, Ended, BegunList

LEMMA TypeSpiReturn ==
  ASSUME Typed, OnRtnOrder \/ OnRtnTrade
  PROVE  Typed'
<1> DEFINE n == Head(rtn).n
           status == Head(rtn).status
<1>1. /\ rtn # <<>> /\ rtn' = Tail(rtn)
      /\ UNCHANGED <<gateway, events, cmds, link, orders, rsp, reqIds, rows, left>>
  BY DEF OnRtnOrder, OnRtnTrade, IsReturn, forms
<1>2. GatewayTyped' /\ QueuesTyped' /\ MarketTyped'
  BY <1>1, GatewayKept, QueuesKept, TypeSpiMarket DEF gateway
<1>3. Head(rtn) \in ReturnT
  BY <1>1, TailIs DEF Typed, MarketTyped
<1>4. n \in DOMAIN orders /\ n \in Nat /\ Id(n) \in Ids
  BY <1>3, IdIs DEF ReturnT
<1>5. CASE OnRtnOrder
  <2>1. /\ known' = IF HasSysId(status) THEN Remember(FullKey(n), Id(n)) ELSE known
        /\ working' = Listed(status, working, Id(n))
        /\ finished' = Ended(status, finished, Id(n))
        /\ UNCHANGED <<heard, hist>>
    BY <1>5 DEF OnRtnOrder
  <2>2. KnownTyped /\ working \in SUBSET Ids /\ finished \in SUBSET Ids
    BY DEF Typed, SpiTyped, FormsTyped
  <2>3. KnownTyped'
    BY <1>4, <2>1, <2>2, RememberIs, KeysAre DEF KnownTyped
  <2>4. working' \subseteq Ids /\ finished' \subseteq Ids
    BY <1>4, <2>1, <2>2, ListsType
  <2>5. QED  BY <1>1, <1>2, <2>1, <2>3, <2>4 DEF Typed, SpiTyped, FormsTyped, CountsTyped
<1>6. CASE OnRtnTrade
  <2>1. /\ \/ FullKey(n) \in DOMAIN known /\ heard' = heard \cup {<<n, known[FullKey(n)]>>} /\ UNCHANGED hist
           \/ hist' = [hist EXCEPT !.ignored = @ \cup ({n} \cap hist.listed)] /\ UNCHANGED heard
        /\ UNCHANGED <<known, forms>>
    BY <1>6 DEF OnRtnTrade
  <2>2. heard' \subseteq Nat \X Ids
    BY <1>4, <2>1 DEF Typed, SpiTyped, KnownTyped
  <2>3. hist' \in HistT
    BY <1>4, <2>1, HistIs DEF HistT
  <2>4. QED  BY <1>1, <1>2, <2>1, <2>2, <2>3, FormsKept DEF Typed, SpiTyped, KnownTyped, CountsTyped
<1>7. QED  BY <1>5, <1>6

LEMMA TypeSpiAnswer ==
  ASSUME Typed, OnRspQryOrder \/ OnRspQryInvestorPosition
  PROVE  Typed'
<1> DEFINE n == Head(rsp).n
           status == Head(rsp).status
           last == Head(rsp).last
<1>1. /\ rsp # <<>> /\ rsp' = Tail(rsp)
      /\ UNCHANGED <<gateway, events, cmds, link, orders, rtn, heard, left>>
  BY DEF OnRspQryOrder, OnRspQryInvestorPosition, IsAnswer
<1>2. GatewayTyped' /\ QueuesTyped' /\ MarketTyped'
  BY <1>1, GatewayKept, QueuesKept, TypeSpiMarket DEF gateway
<1>3. Head(rsp) \in AnswerT
  BY <1>1, TailIs DEF Typed, MarketTyped
<1>4. n \in Nat /\ last \in BOOLEAN
  BY <1>3 DEF AnswerT, CallbackT
<1>5. reqIds' \in [orders : BOOLEAN, positions : BOOLEAN]
  <2>1. reqIds \in [orders : BOOLEAN, positions : BOOLEAN]
    BY DEF Typed, SpiTyped
  <2>2. \/ reqIds' = [reqIds EXCEPT !.orders = (@ \/ Head(rsp).n # 0) /\ ~ Head(rsp).last]
        \/ reqIds' = [reqIds EXCEPT !.positions = (@ \/ Head(rsp).n # 0) /\ ~ Head(rsp).last]
    BY DEF OnRspQryOrder, OnRspQryInvestorPosition
  <2>3. /\ ((reqIds.orders \/ Head(rsp).n # 0) /\ ~ Head(rsp).last) \in BOOLEAN
        /\ ((reqIds.positions \/ Head(rsp).n # 0) /\ ~ Head(rsp).last) \in BOOLEAN
    OBVIOUS
  <2>4. QED  BY <2>1, <2>2, <2>3
<1>6. CASE OnRspQryOrder
  <2>1. UNCHANGED rows
    BY <1>6 DEF OnRspQryOrder
  <2>2. CASE n = 0
    <3>1. UNCHANGED <<known, working, finished, hist>>
      BY <1>6, <2>2 DEF OnRspQryOrder
    <3>2. QED  BY <1>1, <1>2, <1>5, <2>1, <3>1 DEF Typed, SpiTyped, KnownTyped, FormsTyped, CountsTyped
  <2>3. CASE n # 0
    <3>1. n \in DOMAIN orders /\ Id(n) \in Ids
      BY <1>3, <1>6, <2>3, IdIs DEF AnswerT, Names, OnRspQryOrder, IsAnswer
    <3>2. /\ known' = IF HasSysId(status) THEN Remember(BareKey(n), Id(n)) ELSE known
          /\ working' = Listed(status, BegunList(working), Id(n))
          /\ finished' = Ended(status, BegunList(finished), Id(n))
      BY <1>6, <2>3 DEF OnRspQryOrder
    <3>3. KnownTyped /\ working \in SUBSET Ids /\ finished \in SUBSET Ids
      BY DEF Typed, SpiTyped, FormsTyped
    <3>4. KnownTyped'
      BY <1>4, <3>1, <3>2, <3>3, RememberIs, KeysAre DEF KnownTyped
    <3>5. BegunList(working) \in SUBSET Ids /\ BegunList(finished) \in SUBSET Ids
      BY <3>3 DEF BegunList
    <3>6. working' \subseteq Ids /\ finished' \subseteq Ids
      BY <3>1, <3>2, <3>5, ListsType
    <3>7. hist' \in HistT
      <4> DEFINE fresh == last /\ hist.alone /\ ~ \E i \in 2 .. Len(rsp) : rsp[i].kind = "qryOrder"
                 listed == IF HasSysId(status) /\ session # orders[n].session
                             THEN hist.listed \cup {n} ELSE hist.listed
      <4>1. hist' = [hist EXCEPT !.fresh = fresh, !.listed = listed]
        BY <1>6, <2>3 DEF OnRspQryOrder
      <4>2. fresh \in BOOLEAN
        OBVIOUS
      <4>3. listed \subseteq Nat
        BY <1>4, HistIs
      <4> HIDE DEF fresh, listed
      <4>4. QED  BY <4>1, <4>2, <4>3, HistIs DEF HistT
    <3>8. QED  BY <1>1, <1>2, <1>5, <2>1, <3>4, <3>6, <3>7 DEF Typed, SpiTyped, FormsTyped, CountsTyped
  <2>4. QED  BY <2>2, <2>3
<1>7. CASE OnRspQryInvestorPosition
  <2>1. UNCHANGED <<known, working, finished>>
    BY <1>7 DEF OnRspQryInvestorPosition
  <2>2. rows' \in [1 .. Positions -> Nat] /\ hist' \in HistT
    <3>1. rows \in [1 .. Positions -> Nat] /\ hist \in HistT
      BY HistIs DEF Typed, FormsTyped
    <3>2. CASE n = 0
      BY <1>7, <3>1, <3>2 DEF OnRspQryInvestorPosition
    <3>3. CASE n # 0
      <4>1. n \in 1 .. Positions
        BY <1>3, <1>7, <3>3 DEF AnswerT, Names, OnRspQryInvestorPosition, IsAnswer
      <4>2. rows' = Added(Begun, n) /\ hist' = [hist EXCEPT !.cut = @ /\ reqIds.positions]
        BY <1>7, <3>3 DEF OnRspQryInvestorPosition
      <4>3. Begun \in [1 .. Positions -> Nat]
        BY <3>1 DEF Begun
      <4>4. Added(Begun, n) \in [1 .. Positions -> Nat]
        BY <4>1, <4>3 DEF Added
      <4>5. (hist.cut /\ reqIds.positions) \in BOOLEAN
        OBVIOUS
      <4>6. QED  BY <3>1, <4>2, <4>4, <4>5 DEF HistT
    <3>4. QED  BY <3>2, <3>3
  <2>3. QED  BY <1>1, <1>2, <1>5, <2>1, <2>2 DEF Typed, SpiTyped, KnownTyped, FormsTyped, CountsTyped
<1>8. QED  BY <1>6, <1>7

LEMMA TypeSpiSession ==
  ASSUME Typed, OnRspUserLogin \/ OnFrontDisconnected
  PROVE  Typed'
<1>1. /\ rsp # <<>> /\ rsp' = Tail(rsp) /\ Head(rsp) \in AnswerT
      /\ UNCHANGED <<handlers, answered, cmds, link, orders, rtn, reqIds, heard, forms, left>>
  BY TailIs DEF OnRspUserLogin, OnFrontDisconnected, IsAnswer, gateway, spi, Typed, MarketTyped
<1>2. MarketTyped' /\ FormsTyped'
  BY <1>1, TypeSpiMarket, FormsKept
<1>3. CASE OnRspUserLogin
  <2>1. /\ ref' = 0 /\ session' = Head(rsp).n /\ known' = <<>> /\ Head(rsp).kind = "login"
        /\ UNCHANGED events
    BY <1>3 DEF OnRspUserLogin, IsAnswer
  <2>2. session' \in Nat \ {0}
    BY <1>1, <2>1 DEF AnswerT, Names, CallbackT
  <2>3. GatewayTyped' /\ QueuesTyped'
    BY <1>1, <2>1, <2>2, QueuesKept DEF Typed, GatewayTyped
  <2>4. SpiTyped'
    BY <1>1, <2>1 DEF Typed, SpiTyped, KnownTyped
  <2>5. hist' \in HistT
    <3>1. (hist.disturbed \/ \E t \in Threads : Running(t)) \in BOOLEAN
      OBVIOUS
    <3>2. hist' = [hist EXCEPT !.listed = {}, !.disturbed = @ \/ \E t \in Threads : Running(t)]
      BY <1>3 DEF OnRspUserLogin
    <3>3. QED  BY <3>1, <3>2, HistIs DEF HistT
  <2>6. QED  BY <1>1, <1>2, <2>3, <2>4, <2>5 DEF Typed, CountsTyped
<1>4. CASE OnFrontDisconnected
  <2>1. events' = Append(events, Disconnected) /\ UNCHANGED <<gateway, spi>>
    BY <1>4 DEF OnFrontDisconnected
  <2>2. GatewayTyped' /\ SpiTyped' /\ QueuesTyped'
    BY <1>1, <2>1, GatewayKept, SpiKept, PlainCommands, AppendAsked
  <2>3. hist' \in HistT
    <3>1. (hist.cut \/ reqIds.positions) \in BOOLEAN
      OBVIOUS
    <3>2. hist' = [hist EXCEPT !.cut = @ \/ reqIds.positions]
      BY <1>4 DEF OnFrontDisconnected
    <3>3. QED  BY <3>1, <3>2, HistIs DEF HistT
  <2>4. QED  BY <1>1, <1>2, <2>2, <2>3 DEF Typed, CountsTyped
<1>5. QED  BY <1>3, <1>4

LEMMA TypeInit == ASSUME Init PROVE Typed
<1>1. left \in [Kinds -> Nat]
  BY BudgetsAssumption DEF Init
<1>2. left["logins"] \in Nat
  BY <1>1, KindsAre
<1>3. link \in Nat \ {0} /\ session \in Nat \ {0}
  BY <1>2 DEF Init
<1>4. GatewayTyped /\ QueuesTyped /\ MarketTyped
  BY <1>3 DEF Init, GatewayTyped, HandlersT, Idle, QueuesTyped, MarketTyped
<1>5. SpiTyped /\ FormsTyped
  BY DEF Init, SpiTyped, KnownTyped, FormsTyped
<1>6. CountsTyped
  BY <1>1 DEF Init, CountsTyped, HistT, NoHistory
<1>7. QED  BY <1>4, <1>5, <1>6 DEF Typed

\* Every step keeps the types, and every order.
LEMMA TypeNext ==
  ASSUME Typed, [Next]_vars
  PROVE  Typed' /\ Stay
<1>1. CASE Handler
  <2>1. UNCHANGED orders
    BY <1>1 DEF Handler, CountRef, ReadRef, Answer, ctp
  <2>2. QED  BY <1>1, <2>1, TypeHandler, StayUnchanged
<1>2. CASE Request
  <2>1. UNCHANGED orders
    BY <1>2 DEF Request, Cancel, QueryOrders, QueryPosition, QueryPositionButton, SendOrderButton,
                CloseAllButton, ctp
  <2>2. QED  BY <1>2, <2>1, TypeRequest, StayUnchanged
<1>3. CASE Spi
  <2>1. UNCHANGED orders
    BY <1>3 DEF Spi, OnRtnOrder, OnRtnTrade, OnRspQryOrder, OnRspQryInvestorPosition, OnRspUserLogin,
                OnFrontDisconnected
  <2>2. QED  BY <1>3, <2>1, TypeSpiReturn, TypeSpiAnswer, TypeSpiSession, StayUnchanged DEF Spi
<1>4. CASE UNCHANGED vars
  <2>1. UNCHANGED <<gateway, events, cmds, ctp, spi, forms, hist, left>> /\ UNCHANGED <<answered, orders>>
    BY <1>4 DEF vars, gateway, ctp
  <2>2. GatewayTyped' /\ QueuesTyped' /\ MarketTyped' /\ SpiTyped' /\ FormsTyped'
    BY <2>1, GatewayKept, QueuesKept, MarketKept, SpiKept, FormsKept
  <2>3. QED  BY <2>1, <2>2, StayUnchanged DEF Typed, CountsTyped
<1>5. QED  BY <1>1, <1>2, <1>3, <1>4, TypeBlogic, TypeCtp DEF Next

\* What is on its way, queued or kept names orders, records and requests that exist.
THEOREM TypedInvariant == Spec => []Typed
<1>1. Init => Typed
  BY TypeInit
<1>2. Typed /\ [Next]_vars => Typed'
  BY TypeNext
<1>3. QED  BY <1>1, <1>2, PTL DEF Spec

\* The state of orders, trades and queries stays well-typed: TypeOK is an invariant.
THEOREM TypeCorrect == Spec => []TypeOK
<1>1. Typed => TypeOK
  BY TypedEnough
<1>2. QED  BY <1>1, TypedInvariant, PTL

-----------------------------------------------------------------------------
(* Trades.  The map only learns an order's own id under its full key. *)

KnownRight ==
  \A n \in Nat : FullKey(n) \in DOMAIN known => n \in DOMAIN orders /\ known[FullKey(n)] = Id(n)
Attributed == KnownRight /\ TradesAttributed

LEMMA StayIds ==
  ASSUME Stay, NEW n \in DOMAIN orders
  PROVE  n \in DOMAIN orders' /\ Id(n)' = Id(n)
  BY DEF Stay, Id

LEMMA KeysDiffer ==
  ASSUME NEW n, NEW m
  PROVE  /\ FullKey(n) # BareKey(m)
         /\ FullKey(n) = FullKey(m) => n = m
  BY DEF FullKey, BareKey

\* A callback learns a key of an order: the right one, or one that no trade looks up.
LEMMA LearnedRight ==
  ASSUME Typed, KnownRight, UNCHANGED orders, NEW n \in DOMAIN orders,
         NEW k \in {FullKey(n), BareKey(n)}, known' \in {known, Remember(k, Id(n))}
  PROVE  KnownRight'
<1>1. ASSUME NEW m \in Nat, FullKey(m) \in DOMAIN known'
      PROVE  m \in DOMAIN orders' /\ known'[FullKey(m)] = Id(m)'
  <2>1. Id(m)' = Id(m) /\ DOMAIN orders' = DOMAIN orders
    BY DEF Id
  <2>2. CASE known' = known
    BY <1>1, <2>1, <2>2 DEF KnownRight
  <2>3. CASE known' = Remember(k, Id(n))
    <3>1. KnownTyped /\ k \in KeysT /\ Id(n) \in Ids
      BY IdIs, KeysAre DEF Typed, SpiTyped
    <3>2. /\ DOMAIN known' = DOMAIN known \cup {k} /\ known'[k] = Id(n)
          /\ \A j \in DOMAIN known : j # k => known'[j] = known[j]
      BY <2>3, <3>1, RememberIs
    <3>3. CASE FullKey(m) = k
      <4>1. k = FullKey(n) /\ m = n
        BY <3>3, KeysDiffer
      <4>2. QED  BY <2>1, <3>2, <3>3, <4>1
    <3>4. CASE FullKey(m) # k
      BY <1>1, <2>1, <3>2, <3>4 DEF KnownRight
    <3>5. QED  BY <3>3, <3>4
  <2>4. QED  BY <2>2, <2>3
<1>2. QED  BY <1>1 DEF KnownRight

LEMMA AttributedNext ==
  ASSUME Typed, Attributed, [Next]_vars
  PROVE  Attributed'
<1>1. Stay
  BY TypeNext
<1>2. ASSUME UNCHANGED known
      PROVE  KnownRight'
  BY <1>1, <1>2, StayIds DEF Attributed, KnownRight
<1>3. ASSUME UNCHANGED heard
      PROVE  TradesAttributed'
  BY <1>1, <1>3, StayIds DEF Attributed, TradesAttributed
<1>4. CASE OnRtnOrder
  <2> DEFINE n == Head(rtn).n
  <2>1. Head(rtn) \in ReturnT
    BY <1>4, TailIs DEF Typed, MarketTyped, OnRtnOrder, IsReturn
  <2>2. n \in DOMAIN orders /\ UNCHANGED orders /\ known' \in {known, Remember(FullKey(n), Id(n))}
    BY <1>4, <2>1 DEF OnRtnOrder, ReturnT
  <2>3. KnownRight'
    BY <2>2, LearnedRight DEF Attributed
  <2>4. QED  BY <1>3, <1>4, <2>3 DEF OnRtnOrder, Attributed
<1>5. CASE OnRspQryOrder
  <2> DEFINE n == Head(rsp).n
  <2>1. Head(rsp) \in AnswerT /\ UNCHANGED orders
    BY <1>5, TailIs DEF Typed, MarketTyped, OnRspQryOrder, IsAnswer
  <2>2. KnownRight'
    <3>1. CASE n = 0
      BY <1>2, <1>5, <3>1 DEF OnRspQryOrder
    <3>2. CASE n # 0
      <4>1. n \in DOMAIN orders
        BY <1>5, <2>1, <3>2 DEF AnswerT, Names, OnRspQryOrder, IsAnswer
      <4>2. known' \in {known, Remember(BareKey(n), Id(n))}
        BY <1>5, <3>2 DEF OnRspQryOrder
      <4>3. QED  BY <2>1, <4>1, <4>2, LearnedRight DEF Attributed
    <3>3. QED  BY <3>1, <3>2
  <2>3. QED  BY <1>3, <1>5, <2>2 DEF OnRspQryOrder, Attributed
<1>6. CASE OnRspUserLogin
  <2>1. known' = <<>> /\ UNCHANGED heard
    BY <1>6 DEF OnRspUserLogin
  <2>2. DOMAIN known' = {}
    BY <2>1
  <2>3. QED  BY <1>3, <2>1, <2>2 DEF KnownRight, Attributed
<1>7. CASE OnRtnTrade
  <2> DEFINE n == Head(rtn).n
  <2>1. Head(rtn) \in ReturnT
    BY <1>7, TailIs DEF Typed, MarketTyped, OnRtnTrade, IsReturn
  <2>2. n \in DOMAIN orders /\ n \in Nat /\ UNCHANGED <<orders, known>>
    BY <1>7, <2>1, IdIs DEF OnRtnTrade, ReturnT
  <2>3. heard' = heard \/ (FullKey(n) \in DOMAIN known /\ heard' = heard \cup {<<n, known[FullKey(n)]>>})
    BY <1>7 DEF OnRtnTrade
  <2>4. heard' \subseteq heard \cup {<<n, Id(n)>>}
    BY <2>2, <2>3 DEF Attributed, KnownRight
  <2>5. \A h \in heard \cup {<<n, Id(n)>>} : h[1] \in DOMAIN orders /\ h[2] = Id(h[1])
    BY <2>2 DEF Attributed, TradesAttributed
  <2>6. \A h \in heard' : h[1] \in DOMAIN orders' /\ h[2] = Id(h[1])'
    BY <2>2, <2>4, <2>5 DEF Id
  <2>7. QED  BY <1>2, <2>2, <2>6 DEF TradesAttributed, Attributed
<1>8. CASE UNCHANGED <<known, heard>>
  BY <1>2, <1>3, <1>8 DEF Attributed
<1>9. UNCHANGED <<known, heard>> \/ OnRtnOrder \/ OnRspQryOrder \/ OnRspUserLogin \/ OnRtnTrade
  <2>1. UNCHANGED spi \/ Spi
    BY DEF Next, Handler, CountRef, ReadRef, Answer, Request, Cancel, QueryOrders, QueryPosition,
           QueryPositionButton, SendOrderButton, CloseAllButton, Blogic, RunCmd, SendOrder, RunKeptCmd,
           ResetCmds, Ctp, Assign, Fill, Drop, Login, vars
  <2>2. QED  BY <2>1 DEF Spi, OnRspQryInvestorPosition, OnFrontDisconnected, spi
<1>10. QED  BY <1>4, <1>5, <1>6, <1>7, <1>8, <1>9

\* A trade is passed on with its own order's id, whatever the sessions between the order, the
\* lesson and the trade: TradesAttributed is an invariant.
THEOREM TradesAlwaysAttributed == Spec => []TradesAttributed
<1>1. Init => Attributed
  BY DEF Init, Attributed, KnownRight, TradesAttributed
<1>2. Typed /\ Attributed /\ [Next]_vars => Attributed'
  BY AttributedNext
<1>3. Attributed => TradesAttributed
  BY DEF Attributed
<1>4. QED  BY <1>1, <1>2, <1>3, TypedInvariant, PTL DEF Spec
-----------------------------------------------------------------------------
(* Order ids.  Sessions count down, and a session's references count up: an id is new when
   its session is not above, or its reference not among, those that were answered. *)

\* A login that CTP has sent is the first answer, of a session below the last.
LoginsFall ==
  /\ left["logins"] < session
  /\ \A i \in DOMAIN rsp : rsp[i].kind = "login" =>
       i = 1 /\ left["logins"] < rsp[i].n /\ rsp[i].n < session
\* Commands are kept over a disconnection only until BLOGIC hears of it.
DownHeard ==
  link = 0 => \/ cmds = <<>>
              \/ \E i \in DOMAIN rsp : rsp[i].kind = "down"
              \/ \E i \in DOMAIN events : events[i] = Disconnected
Linked == LoginsFall /\ DownHeard

OneHandler == \A t, u \in Threads : Running(t) /\ Running(u) => t = u
AnswersBelow ==
  \A q \in DOMAIN answered :
    answered[q][1] >= session /\ (answered[q][1] = session => answered[q][2] <= ref)
HandlersFresh ==
  \A t \in Threads : Running(t) =>
    /\ handlers[t].at = "read" => handlers[t].ref = ref
    /\ \A q \in DOMAIN answered : answered[q][1] = session => answered[q][2] < ref
AnswersDiffer == \A q, r \in DOMAIN answered : answered[q] = answered[r] => q = r
Fresh == OneHandler /\ AnswersBelow /\ HandlersFresh /\ AnswersDiffer

NamedRight(c) == c.kind = "send" => c.id = answered[c.req]
EventsNamed == \A i \in DOMAIN events : NamedRight(events[i])
CmdsNamed ==
  \A i \in DOMAIN cmds :
    NamedRight(cmds[i]) /\ (cmds[i].kind = "send" /\ link # 0 => cmds[i].id[1] = link)
OrdersNamed == \A n \in DOMAIN orders : Id(n) = answered[orders[n].req]
AllNamed == EventsNamed /\ CmdsNamed /\ OrdersNamed

Ordered == ~ hist.disturbed => Fresh /\ AllNamed

\* What is left of the logins only shrinks.
LEMMA LoginsLeft ==
  ASSUME Typed, [Next]_vars
  PROVE  /\ left["logins"] \in Nat /\ left'["logins"] \in Nat
         /\ left'["logins"] = left["logins"] \/ (Login /\ left'["logins"] = left["logins"] - 1)
<1>1. left \in [Kinds -> Nat] /\ left' \in [Kinds -> Nat] /\ "logins" \in Kinds
  BY TypeNext, KindsAre DEF Typed, CountsTyped
<1>2. CASE Login
  BY <1>1, <1>2 DEF Login, Use
<1>3. CASE ~ Login
  <2>1. \/ UNCHANGED left
        \/ \E k \in {"orders", "cancels", "queries", "refusals"} : Use(k)
        \/ CloseAllButton
    BY <1>3 DEF Next, Handler, CountRef, ReadRef, Answer, Request, Cancel, QueryOrders, QueryPosition,
           QueryPositionButton, SendOrderButton, Blogic, RunCmd, SendOrder, RunKeptCmd, Run,
           ResetCmds, Ctp, Assign, Fill, Drop, Spi, OnRtnOrder, OnRtnTrade, OnRspQryOrder,
           OnRspQryInvestorPosition, OnRspUserLogin, OnFrontDisconnected, vars
  <2>2. CASE \E k \in {"orders", "cancels", "queries", "refusals"} : Use(k)
    BY <1>1, <2>2 DEF Use
  <2>3. CASE CloseAllButton
    <3>1. PICK n : left' = [left EXCEPT !.orders = @ - n]
      BY <2>3 DEF CloseAllButton
    <3>2. QED  BY <1>1, <3>1
  <2>4. QED  BY <1>1, <2>1, <2>2, <2>3
<1>4. QED  BY <1>1, <1>2, <1>3

LEMMA TailHas ==
  ASSUME NEW S, NEW q \in Seq(S), NEW i \in DOMAIN q, q # <<>>, q[i] # Head(q)
  PROVE  \E j \in DOMAIN Tail(q) : Tail(q)[j] = q[i]
<1>1. /\ Len(q) \in Nat \ {0} /\ DOMAIN q = 1 .. Len(q) /\ Head(q) = q[1]
      /\ DOMAIN Tail(q) = 1 .. (Len(q) - 1) /\ \A j \in 1 .. (Len(q) - 1) : Tail(q)[j] = q[j + 1]
  <2>1. Tail(q) \in Seq(S) /\ Len(Tail(q)) = Len(q) - 1
    BY TailIs
  <2>2. QED  BY <2>1, TailIs
<1>2. i # 1 /\ i - 1 \in 1 .. (Len(q) - 1) /\ (i - 1) + 1 = i
  BY <1>1
<1>3. QED  BY <1>1, <1>2

LEMMA AppendHas ==
  ASSUME NEW S, NEW q \in Seq(S), NEW e \in S
  PROVE  /\ Len(q) + 1 \in DOMAIN Append(q, e) /\ Append(q, e)[Len(q) + 1] = e
         /\ \A i \in DOMAIN q : i \in DOMAIN Append(q, e) /\ Append(q, e)[i] = q[i]
         /\ \A i \in DOMAIN Append(q, e) :
              i = Len(q) + 1 \/ (i \in DOMAIN q /\ Append(q, e)[i] = q[i])
<1>1. /\ Append(q, e) \in Seq(S) /\ Len(q) \in Nat /\ Len(Append(q, e)) = Len(q) + 1
      /\ Append(q, e)[Len(q) + 1] = e /\ \A i \in 1 .. Len(q) : Append(q, e)[i] = q[i]
  BY AppendIs
<1>2. DOMAIN q = 1 .. Len(q) /\ DOMAIN Append(q, e) = 1 .. (Len(q) + 1)
  BY <1>1
<1>3. QED  BY <1>1, <1>2

LEMMA ConcatHas ==
  ASSUME NEW S, NEW q \in Seq(S), NEW r \in Seq(S)
  PROVE  /\ \A i \in DOMAIN q : i \in DOMAIN (q \o r) /\ (q \o r)[i] = q[i]
         /\ \A i \in DOMAIN (q \o r) :
              \/ i \in DOMAIN q /\ (q \o r)[i] = q[i]
              \/ \E j \in DOMAIN r : (q \o r)[i] = r[j]
<1>1. /\ Len(q) \in Nat /\ Len(r) \in Nat /\ DOMAIN q = 1 .. Len(q) /\ DOMAIN r = 1 .. Len(r)
      /\ DOMAIN (q \o r) = 1 .. (Len(q) + Len(r))
      /\ \A i \in 1 .. (Len(q) + Len(r)) :
           (q \o r)[i] = IF i <= Len(q) THEN q[i] ELSE r[i - Len(q)]
  OBVIOUS
<1>2. ASSUME NEW i \in DOMAIN q
      PROVE  i \in DOMAIN (q \o r) /\ (q \o r)[i] = q[i]
  BY <1>1
<1>3. ASSUME NEW i \in DOMAIN (q \o r), ~ (i <= Len(q))
      PROVE  \E j \in DOMAIN r : (q \o r)[i] = r[j]
  <2>1. i - Len(q) \in DOMAIN r /\ (q \o r)[i] = r[i - Len(q)]
    BY <1>1, <1>3
  <2>2. QED  BY <2>1
<1>4. ASSUME NEW i \in DOMAIN (q \o r), i <= Len(q)
      PROVE  i \in DOMAIN q /\ (q \o r)[i] = q[i]
  BY <1>1, <1>4
<1>5. QED  BY <1>2, <1>3, <1>4

LEMMA TailFrom ==
  ASSUME NEW S, NEW q \in Seq(S), q # <<>>, NEW i \in DOMAIN Tail(q)
  PROVE  i \in Nat \ {0} /\ i + 1 \in DOMAIN q /\ Tail(q)[i] = q[i + 1]
<1>1. Tail(q) \in Seq(S) /\ Len(Tail(q)) = Len(q) - 1 /\ Len(q) \in Nat \ {0}
  BY TailIs
<1>2. DOMAIN Tail(q) = 1 .. (Len(q) - 1) /\ DOMAIN q = 1 .. Len(q)
  BY <1>1
<1>3. QED  BY <1>2, <1>1, TailIs

LEMMA CutHas ==
  ASSUME NEW S, NEW q \in Seq(S), NEW n \in 0 .. Len(q), NEW i \in DOMAIN SubSeq(q, 1, n)
  PROVE  i \in DOMAIN q /\ SubSeq(q, 1, n)[i] = q[i]
  OBVIOUS

\* What a step can do to the answers on their way.
Answers == OrderAnswers \cup PositionAnswers
LEMMA RspSteps ==
  ASSUME Typed, [Next]_vars
  PROVE  \/ UNCHANGED rsp
         \/ link # 0 /\ \E a \in Answers : rsp' = rsp \o a
         \/ Drop \/ Login
         \/ rsp # <<>> /\ rsp' = Tail(rsp) /\ (Head(rsp).kind = "down" => OnFrontDisconnected)
<1>1. ASSUME NEW c \in KeptT', Sent(c)
      PROVE  UNCHANGED rsp \/ \E a \in Answers : rsp' = rsp \o a
  BY <1>1 DEF Sent, CommandKinds, Answers, KeptT
<1>2. ASSUME NEW c \in KeptT', NEW d, Run(c, d)
      PROVE  UNCHANGED rsp \/ (link # 0 /\ \E a \in Answers : rsp' = rsp \o a)
  BY <1>1, <1>2 DEF Run
<1>3. CASE RunCmd
  <2>1. Head(events) \in KeptT' /\ Run(Head(events), Late(Head(events)))
    <3>1. Head(events) \in AskedT /\ Head(events).kind \in CommandKinds /\ UNCHANGED answered
      BY <1>3, HeadOfEvents DEF RunCmd, IsEvent, gateway
    <3>2. QED  BY <1>3, <3>1 DEF KeptT, AskedT, RunCmd
  <2>2. QED  BY <1>2, <2>1
<1>4. CASE SendOrder
  <2> DEFINE c == Send(Len(answered) + 1, BfOrderId(ref + 1))
  <2>1. c \in KeptT' /\ Run(c, Late(c) \/ \E t \in Threads : Running(t))
    BY <1>4, WindowCommand DEF SendOrder
  <2> HIDE DEF c
  <2>2. QED  BY <1>2, <2>1
<1>5. CASE RunKeptCmd
  <2>1. Head(cmds) \in KeptT'
    <3>1. Head(cmds) \in KeptT /\ UNCHANGED answered
      BY <1>5, TailIs DEF Typed, QueuesTyped, RunKeptCmd, gateway
    <3>2. QED  BY <3>1 DEF KeptT, AskedT
  <2>2. UNCHANGED rsp \/ (link # 0 /\ Sent(Head(cmds)))
    BY <1>5 DEF RunKeptCmd
  <2>3. QED  BY <1>1, <2>1, <2>2
<1>6. CASE ResetCmds \/ Handler \/ Request \/ Assign \/ Fill \/ UNCHANGED vars
  BY <1>6 DEF ResetCmds, Handler, CountRef, ReadRef, Answer, Request, Cancel, QueryOrders, QueryPosition,
              QueryPositionButton, SendOrderButton, CloseAllButton, Assign, Fill, vars, ctp
<1>7. CASE Spi
  <2>1. CASE OnFrontDisconnected
    BY <2>1 DEF OnFrontDisconnected, IsAnswer
  <2>2. CASE OnRtnOrder \/ OnRtnTrade \/ OnRspQryOrder \/ OnRspQryInvestorPosition \/ OnRspUserLogin
    BY <2>2 DEF OnRtnOrder, OnRtnTrade, OnRspQryOrder, OnRspQryInvestorPosition, OnRspUserLogin, IsAnswer
  <2>3. QED  BY <1>7, <2>1, <2>2 DEF Spi
<1>8. QED  BY <1>3, <1>4, <1>5, <1>6, <1>7 DEF Next, Blogic, Ctp

LEMMA AnswersKinds ==
  ASSUME Typed, NEW a \in Answers
  PROVE  a \in Seq(AnswerT) /\ \A i \in DOMAIN a : a[i].kind \in {"qryOrder", "qryPosition"}
<1>1. a \in Seq(AnswerT)
  BY AnswersType DEF Answers
<1>2. ASSUME NEW kind, a = NoRecord(kind), kind \in {"qryOrder", "qryPosition"}, NEW i \in DOMAIN a
      PROVE  a[i].kind = kind
  <2>1. DOMAIN a = {1} /\ a[1] = Callback(kind, 0, "accepted", TRUE)
    BY <1>2 DEF NoRecord
  <2>2. QED  BY <1>2, <2>1 DEF Callback
<1>3. ASSUME NEW i \in DOMAIN a,
             a = [n \in DOMAIN orders |-> Callback("qryOrder", n, orders[n].status, n = Len(orders))]
      PROVE  a[i].kind = "qryOrder"
  BY <1>3 DEF Callback
<1>4. ASSUME NEW i \in DOMAIN a,
             a = [p \in 1 .. Positions |-> Callback("qryPosition", p, "accepted", p = Positions)]
      PROVE  a[i].kind = "qryPosition"
  BY <1>4 DEF Callback
<1>5. QED  BY <1>1, <1>2, <1>3, <1>4 DEF Answers, OrderAnswers, PositionAnswers

LEMMA SessionSteps ==
  ASSUME [Next]_vars
  PROVE  OnRspUserLogin \/ UNCHANGED session
  BY DEF Next, Handler, CountRef, ReadRef, Answer, Request, Cancel, QueryOrders, QueryPosition,
         QueryPositionButton, SendOrderButton, CloseAllButton, Blogic, RunCmd, SendOrder, RunKeptCmd,
         ResetCmds, Ctp, Assign, Fill, Drop, Login, Spi, OnRtnOrder, OnRtnTrade, OnRspQryOrder,
         OnRspQryInvestorPosition, OnFrontDisconnected, vars, gateway

LEMMA LoginsFallNext ==
  ASSUME Typed, LoginsFall, [Next]_vars
  PROVE  LoginsFall'
<1> DEFINE Below(q, s, l) ==
      \A i \in DOMAIN q : q[i].kind = "login" => i = 1 /\ l < q[i].n /\ q[i].n < s
<1>1. /\ rsp \in Seq(AnswerT) /\ session \in Nat /\ left["logins"] \in Nat /\ left'["logins"] \in Nat
      /\ left["logins"] < session /\ Below(rsp, session, left["logins"])
  BY LoginsLeft DEF LoginsFall, Typed, MarketTyped, GatewayTyped
<1>2. CASE OnRspUserLogin
  <2>1. /\ rsp # <<>> /\ Head(rsp).kind = "login" /\ rsp' = Tail(rsp) /\ session' = Head(rsp).n
        /\ UNCHANGED left
    BY <1>2 DEF OnRspUserLogin, IsAnswer
  <2>2. 1 \in DOMAIN rsp /\ Head(rsp) = rsp[1]
    BY <1>1, <2>1, TailIs
  <2>3. left["logins"] < session'
    BY <1>1, <2>1, <2>2
  <2>4. ASSUME NEW i \in DOMAIN rsp', rsp'[i].kind = "login"
        PROVE  FALSE
    <3>1. i \in Nat \ {0} /\ i + 1 \in DOMAIN rsp /\ rsp'[i] = rsp[i + 1]
      BY <1>1, <2>1, TailFrom
    <3>2. i + 1 = 1
      BY <1>1, <2>4, <3>1
    <3>3. QED  BY <3>1, <3>2
  <2>5. QED  BY <2>1, <2>3, <2>4 DEF LoginsFall
<1>3. CASE ~ OnRspUserLogin
  <2>1. session' = session
    BY <1>3, SessionSteps
  <2>2. CASE Login
    <3>1. /\ rsp' = <<Callback("login", link', "accepted", TRUE)>> /\ link' = left["logins"]
          /\ left["logins"] > 0 /\ left' = [left EXCEPT !["logins"] = @ - 1]
      BY <2>2 DEF Login, Use
    <3>2. left'["logins"] = left["logins"] - 1
      BY <3>1, KindsAre DEF Typed, CountsTyped
    <3>3. DOMAIN rsp' = {1} /\ rsp'[1].n = left["logins"]
      BY <3>1 DEF Callback
    <3>4. QED  BY <1>1, <2>1, <3>2, <3>3 DEF LoginsFall
  <2>3. CASE ~ Login
    <3>1. left'["logins"] = left["logins"]
      BY <2>3, LoginsLeft
    <3>2. Below(rsp', session, left["logins"])
      <4>1. CASE \E a \in Answers : rsp' = rsp \o a
        <5>1. PICK a \in Answers : rsp' = rsp \o a
          BY <4>1
        <5>2. a \in Seq(AnswerT) /\ \A i \in DOMAIN a : a[i].kind # "login"
          BY AnswersKinds
        <5>3. QED  BY <1>1, <5>1, <5>2, ConcatHas
      <4>2. CASE Drop
        <5> DEFINE down == Callback("down", 0, "accepted", TRUE)
        <5>1. PICK n \in 0 .. Len(rsp) : rsp' = SubSeq(rsp, 1, n) \o <<down>>
          BY <4>2 DEF Drop
        <5>2. SubSeq(rsp, 1, n) \in Seq(AnswerT) /\ down \in AnswerT /\ down.kind # "login"
          BY <1>1, CutIs DEF Callback, AnswerT, CallbackT, AnswerKinds, Names, Statuses
        <5> HIDE DEF down
        <5>3. <<down>> \in Seq(AnswerT) /\ \A i \in DOMAIN <<down>> : <<down>>[i] = down
          BY <5>2
        <5>4. ASSUME NEW i \in DOMAIN rsp', rsp'[i].kind = "login"
              PROVE  i \in DOMAIN rsp /\ rsp'[i] = rsp[i]
          <6>1. i \in DOMAIN SubSeq(rsp, 1, n) /\ rsp'[i] = SubSeq(rsp, 1, n)[i]
            BY <5>1, <5>2, <5>3, <5>4, ConcatHas
          <6>2. QED  BY <1>1, <6>1, CutHas
        <5>5. QED  BY <1>1, <5>4
      <4>3. CASE rsp # <<>> /\ rsp' = Tail(rsp)
        <5>1. ASSUME NEW i \in DOMAIN rsp', rsp'[i].kind = "login"
              PROVE  FALSE
          <6>1. i \in Nat \ {0} /\ i + 1 \in DOMAIN rsp /\ rsp'[i] = rsp[i + 1]
            BY <1>1, <4>3, TailFrom
          <6>2. i + 1 = 1
            BY <1>1, <5>1, <6>1
          <6>3. QED  BY <6>1, <6>2
        <5>2. QED  BY <5>1
      <4>4. QED  BY <1>1, <2>3, <4>1, <4>2, <4>3, RspSteps
    <3>3. QED  BY <1>1, <2>1, <3>1, <3>2 DEF LoginsFall
  <2>4. QED  BY <2>2, <2>3
<1>4. QED  BY <1>2, <1>3

\* What a step can do to BLOGIC's queue.
LEMMA EventsSteps ==
  ASSUME Typed, [Next]_vars
  PROVE  \/ UNCHANGED events
         \/ \E t \in Threads : Answer(t)
         \/ \E e \in AskedT : e.kind # "send" /\ events' = Append(events, e)
         \/ \E n \in Nat : events' = events \o [i \in 1 .. n |-> WindowOrder]
         \/ events # <<>> /\ events' = Tail(events) /\ (Head(events).kind # "down" \/ ResetCmds)
<1>1. CASE UNCHANGED vars \/ RunKeptCmd \/ Ctp
  BY <1>1 DEF vars, RunKeptCmd, Ctp, Assign, Fill, Drop, Login
<1>2. CASE Handler
  BY <1>2 DEF Handler, CountRef, ReadRef
<1>3. CASE Request
  <2>1. CASE Cancel
    <3>1. PICK id \in Range(answered) \cup working : events' = Append(events, CancelOf(id))
      BY <2>1 DEF Cancel
    <3>2. Range(answered) \subseteq Ids
      BY AnsweredIs DEF Range
    <3>3. CancelOf(id) \in AskedT /\ CancelOf(id).kind # "send"
      BY <3>2, CommandIs DEF CancelOf, Command, CommandKinds, Typed, FormsTyped
    <3>4. QED  BY <3>1, <3>3
  <2>2. CASE QueryOrders \/ QueryPosition \/ QueryPositionButton \/ SendOrderButton
    <3>1. PICK e \in {Query("orders"), Query("positions"), WindowOrder} : events' = Append(events, e)
      BY <2>2 DEF QueryOrders, QueryPosition, QueryPositionButton, SendOrderButton
    <3>2. e \in AskedT /\ e.kind # "send"
      BY PlainCommands DEF Query, WindowOrder, Command
    <3>3. QED  BY <3>1, <3>2
  <2>3. CASE CloseAllButton
    <3>1. IsFiniteSet({p \in DOMAIN rows : rows[p] > 0})
      <4>1. IsFiniteSet(1 .. Positions)
        BY PositionsAssumption, FS_Interval
      <4>2. {p \in DOMAIN rows : rows[p] > 0} \subseteq 1 .. Positions
        BY DEF Typed, FormsTyped
      <4>3. QED  BY <4>1, <4>2, FS_Subset
    <3>2. PICK n \in 1 .. Cardinality({p \in DOMAIN rows : rows[p] > 0}) :
            events' = events \o [i \in 1 .. n |-> WindowOrder]
      BY <2>3 DEF CloseAllButton
    <3>3. n \in Nat
      BY <3>1, FS_CardinalityType
    <3>4. QED  BY <3>2, <3>3
  <2>4. QED  BY <1>3, <2>1, <2>2, <2>3 DEF Request
<1>4. CASE RunCmd \/ SendOrder \/ ResetCmds
  BY <1>4 DEF RunCmd, SendOrder, ResetCmds, IsEvent, CommandKinds
<1>5. CASE Spi
  <2>1. CASE OnFrontDisconnected
    <3>1. Disconnected \in AskedT /\ Disconnected.kind # "send"
      BY PlainCommands DEF Disconnected, Command
    <3>2. QED  BY <2>1, <3>1 DEF OnFrontDisconnected
  <2>2. CASE OnRtnOrder \/ OnRtnTrade \/ OnRspQryOrder \/ OnRspQryInvestorPosition \/ OnRspUserLogin
    BY <2>2 DEF OnRtnOrder, OnRtnTrade, OnRspQryOrder, OnRspQryInvestorPosition, OnRspUserLogin
  <2>3. QED  BY <1>5, <2>1, <2>2 DEF Spi
<1>6. QED  BY <1>1, <1>2, <1>3, <1>4, <1>5 DEF Next, Blogic

\* While the connection is down, kept commands only leave.
LEMMA CmdsSteps ==
  ASSUME Typed, [Next]_vars, link = 0, cmds = <<>>
  PROVE  cmds' = <<>>
<1>1. CASE Handler \/ Request \/ Ctp \/ Spi \/ UNCHANGED vars
  BY <1>1 DEF Handler, CountRef, ReadRef, Answer, Request, Cancel, QueryOrders, QueryPosition,
       QueryPositionButton, SendOrderButton, CloseAllButton, Ctp, Assign, Fill, Drop, Login,
       Spi, OnRtnOrder, OnRtnTrade, OnRspQryOrder, OnRspQryInvestorPosition, OnRspUserLogin,
       OnFrontDisconnected, vars
<1>2. CASE Blogic
  BY <1>2 DEF Blogic, RunCmd, SendOrder, Run, RunKeptCmd, ResetCmds
<1>3. QED  BY <1>1, <1>2 DEF Next

LEMMA DownHeardNext ==
  ASSUME Typed, DownHeard, [Next]_vars
  PROVE  DownHeard'
<1> SUFFICES ASSUME link' = 0
             PROVE  \/ cmds' = <<>>
                    \/ \E i \in DOMAIN rsp' : rsp'[i].kind = "down"
                    \/ \E i \in DOMAIN events' : events'[i] = Disconnected
  BY DEF DownHeard
<1>1. rsp \in Seq(AnswerT) /\ events \in Seq(AskedT)
  BY DEF Typed, MarketTyped, QueuesTyped
<1>2. CASE Drop
  <2> DEFINE down == Callback("down", 0, "accepted", TRUE)
  <2>1. PICK n \in 0 .. Len(rsp) : rsp' = SubSeq(rsp, 1, n) \o <<down>>
    BY <1>2 DEF Drop
  <2>2. down.kind = "down"
    BY DEF Callback
  <2> HIDE DEF down
  <2>3. rsp'[n + 1] = down /\ n + 1 \in DOMAIN rsp'
    BY <1>1, <2>1
  <2>4. QED  BY <2>2, <2>3
<1>3. CASE ~ Drop
  <2>1. link = 0 /\ ~ Login
    <3>1. ~ Login
      <4>1. left["logins"] \in Nat
        BY LoginsLeft
      <4>2. Login => link' = left["logins"] /\ left["logins"] > 0
        BY DEF Login, Use
      <4>3. QED  BY <4>1, <4>2
    <3>2. UNCHANGED link
      BY <1>3, <3>1 DEF Next, Handler, CountRef, ReadRef, Answer, Request, Cancel, QueryOrders,
           QueryPosition, QueryPositionButton, SendOrderButton, CloseAllButton, Blogic, RunCmd,
           SendOrder, RunKeptCmd, ResetCmds, Ctp, Assign, Fill, Spi, OnRtnOrder, OnRtnTrade,
           OnRspQryOrder, OnRspQryInvestorPosition, OnRspUserLogin, OnFrontDisconnected, vars, ctp
    <3>3. QED  BY <3>1, <3>2
  <2>2. CASE cmds = <<>>
    BY <2>1, <2>2, CmdsSteps
  <2>3. CASE \E i \in DOMAIN rsp : rsp[i].kind = "down"
    <3>1. PICK i \in DOMAIN rsp : rsp[i].kind = "down"
      BY <2>3
    <3>2. CASE UNCHANGED rsp
      BY <3>1, <3>2
    <3>3. CASE rsp # <<>> /\ rsp' = Tail(rsp) /\ Head(rsp).kind # "down"
      BY <1>1, <3>1, <3>3, TailHas
    <3>4. CASE OnFrontDisconnected
      <4>1. events' = Append(events, Disconnected) /\ Disconnected \in AskedT
        BY <3>4, PlainCommands DEF OnFrontDisconnected
      <4>2. QED  BY <1>1, <4>1, AppendHas
    <3>5. QED  BY <1>3, <2>1, <3>2, <3>3, <3>4, RspSteps
  <2>4. CASE \E i \in DOMAIN events : events[i] = Disconnected
    <3>1. PICK i \in DOMAIN events : events[i] = Disconnected
      BY <2>4
    <3>2. CASE UNCHANGED events
      BY <3>1, <3>2
    <3>3. CASE \E e \in AskedT : events' = Append(events, e)
      BY <1>1, <3>1, <3>3, AppendHas
    <3>4. CASE \E t \in Threads : Answer(t)
      <4>1. PICK e : events' = Append(events, e)
        BY <3>4 DEF Answer
      <4>2. i \in DOMAIN events' /\ events'[i] = events[i]
        BY <1>1, <4>1
      <4>3. QED  BY <3>1, <4>2
    <3>5. CASE \E n \in Nat : events' = events \o [j \in 1 .. n |-> WindowOrder]
      <4>1. PICK n \in Nat : events' = events \o [j \in 1 .. n |-> WindowOrder]
        BY <3>5
      <4>2. [j \in 1 .. n |-> WindowOrder] \in Seq(AskedT)
        BY PlainCommands
      <4>3. QED  BY <1>1, <3>1, <4>1, <4>2, ConcatHas
    <3>6. CASE events # <<>> /\ events' = Tail(events) /\ Head(events).kind # "down"
      <4>1. events[i] # Head(events)
        BY <3>1, <3>6 DEF Disconnected, Command
      <4>2. QED  BY <1>1, <3>1, <3>6, <4>1, TailHas
    <3>7. CASE ResetCmds
      BY <3>7 DEF ResetCmds
    <3>8. QED  BY <3>2, <3>3, <3>4, <3>5, <3>6, <3>7, EventsSteps
  <2>5. QED  BY <2>1, <2>2, <2>3, <2>4 DEF DownHeard
<1>4. QED  BY <1>2, <1>3

LEMMA LinkedNext == Typed /\ Linked /\ [Next]_vars => Linked'
  BY LoginsFallNext, DownHeardNext DEF Linked

-----------------------------------------------------------------------------
(* A handler that nobody disturbs makes a new id, and the id stays with its order. *)

LEMMA RunDisturbs ==
  ASSUME Typed, NEW c, NEW d, Run(c, d), ~ hist'.disturbed
  PROVE  ~ hist.disturbed /\ ~ d
<1> DEFINE alone == IF cmds' = cmds /\ link # 0 THEN Alone(c) ELSE hist.alone
<1>1. hist' = [hist EXCEPT !.disturbed = @ \/ d, !.alone = alone]
  BY DEF Run
<1> HIDE DEF alone
<1>2. hist'.disturbed = (hist.disturbed \/ d)
  BY <1>1, HistIs DEF HistT
<1>3. QED  BY <1>2

LEMMA DisturbedStays ==
  ASSUME Typed, [Next]_vars, ~ hist'.disturbed
  PROVE  ~ hist.disturbed
<1>1. CASE RunCmd \/ SendOrder
  BY <1>1, RunDisturbs DEF RunCmd, SendOrder
<1>2. CASE RunKeptCmd
  <2>1. hist' = hist \/ \E a : hist' = [hist EXCEPT !.alone = a]
    BY <1>2 DEF RunKeptCmd
  <2>2. QED  BY <2>1, HistIs DEF HistT
<1>3. CASE Handler
  <2>1. hist' = hist \/ hist' = [hist EXCEPT !.disturbed = @ \/ \E u \in Threads : Running(u)]
    BY <1>3 DEF Handler, CountRef, ReadRef, Answer
  <2>2. QED  BY <2>1, HistIs DEF HistT
<1>4. CASE Ctp
  <2>1. hist' \in {hist, [hist EXCEPT !.alone = FALSE], [hist EXCEPT !.alone = FALSE, !.fresh = FALSE]}
    BY <1>4 DEF Ctp, Assign, Fill, Drop, Login
  <2>2. QED  BY <2>1, HistIs DEF HistT
<1>5. CASE OnRtnOrder \/ OnRtnTrade \/ OnRspQryInvestorPosition \/ OnFrontDisconnected
  <2>1. \/ hist' = hist \/ \E a : hist' = [hist EXCEPT !.ignored = a]
        \/ \E a : hist' = [hist EXCEPT !.cut = a]
    BY <1>5 DEF OnRtnOrder, OnRtnTrade, OnRspQryInvestorPosition, OnFrontDisconnected
  <2>2. QED  BY <2>1, HistIs DEF HistT
<1>6. CASE OnRspQryOrder
  <2>1. hist' = hist \/ \E f, l : hist' = [hist EXCEPT !.fresh = f, !.listed = l]
    BY <1>6 DEF OnRspQryOrder
  <2>2. QED  BY <2>1, HistIs DEF HistT
<1>7. CASE OnRspUserLogin
  <2>1. hist' = [hist EXCEPT !.listed = {}, !.disturbed = @ \/ \E t \in Threads : Running(t)]
    BY <1>7 DEF OnRspUserLogin
  <2>2. QED  BY <2>1, HistIs DEF HistT
<1>8. CASE Request \/ ResetCmds \/ UNCHANGED vars
  <2>1. UNCHANGED hist
    BY <1>8 DEF Request, Cancel, QueryOrders, QueryPosition, QueryPositionButton, SendOrderButton,
                CloseAllButton, ResetCmds, vars
  <2>2. QED  BY <2>1
<1>9. QED  BY <1>1, <1>2, <1>3, <1>4, <1>5, <1>6, <1>7, <1>8 DEF Next, Blogic, Spi

LEMMA AnswerCommand ==
  ASSUME Typed, NEW t \in Threads, Answer(t)
  PROVE  LET n == Len(answered) + 1 IN
         /\ Len(answered) \in Nat /\ DOMAIN answered = 1 .. Len(answered)
         /\ DOMAIN answered' = 1 .. n
         /\ answered'[n] = BfOrderId(handlers[t].ref)
         /\ \A q \in DOMAIN answered : answered'[q] = answered[q]
         /\ events' = Append(events, Send(n, BfOrderId(handlers[t].ref)))
         /\ Send(n, BfOrderId(handlers[t].ref)) \in AskedT'
<1> DEFINE id == BfOrderId(handlers[t].ref)
           n == Len(answered) + 1
<1>1. answered' = Append(answered, id) /\ events' = Append(events, Send(n, id))
  BY DEF Answer
<1>2. answered \in Seq(Ids) /\ session \in Nat \ {0}
  BY DEF Typed, GatewayTyped
<1>3. id \in Ids
  BY <1>2, HandlersAre DEF BfOrderId, Ids
<1> HIDE DEF id
<1>4. /\ answered' \in Seq(Ids) /\ Len(answered') = n /\ Len(answered) \in Nat /\ answered'[n] = id
      /\ \A i \in 1 .. Len(answered) : answered'[i] = answered[i]
  BY <1>1, <1>2, <1>3, AppendIs
<1>5. DOMAIN answered' = 1 .. n /\ DOMAIN answered = 1 .. Len(answered)
  BY <1>2, <1>4
<1>6. n \in DOMAIN answered' /\ n \in Nat
  BY <1>4, <1>5
<1>7. Send(n, id) \in AskedT'
  BY <1>3, <1>6 DEF Send, Command, AskedT, CommandT, CommandKinds
<1>8. QED  BY <1>1, <1>4, <1>5, <1>7 DEF id

LEMMA AnsweredSteps ==
  ASSUME [Next]_vars
  PROVE  UNCHANGED answered \/ SendOrder \/ \E t \in Threads : Answer(t)
  BY DEF Next, Handler, CountRef, ReadRef, Request, Cancel, QueryOrders, QueryPosition,
         QueryPositionButton, SendOrderButton, CloseAllButton, Blogic, RunCmd, RunKeptCmd,
         ResetCmds, Ctp, Assign, Fill, Drop, Login, Spi, OnRtnOrder, OnRtnTrade, OnRspQryOrder,
         OnRspQryInvestorPosition, OnRspUserLogin, OnFrontDisconnected, vars, gateway

LEMMA AnsweredStay ==
  ASSUME Typed, [Next]_vars
  PROVE  /\ DOMAIN answered \subseteq DOMAIN answered'
         /\ \A q \in DOMAIN answered : answered'[q] = answered[q]
<1>1. CASE UNCHANGED answered
  BY <1>1
<1>2. CASE SendOrder
  BY <1>2, WindowCommand
<1>3. ASSUME NEW t \in Threads, Answer(t)
      PROVE  /\ DOMAIN answered \subseteq DOMAIN answered'
             /\ \A q \in DOMAIN answered : answered'[q] = answered[q]
  BY <1>3, AnswerCommand
<1>4. QED  BY <1>1, <1>2, <1>3, AnsweredSteps

\* A command that was named right stays so.
LEMMA NamedStays ==
  ASSUME Typed, [Next]_vars, NEW c \in AskedT, NamedRight(c)
  PROVE  NamedRight(c)'
  BY AnsweredStay DEF NamedRight, AskedT

LEMMA GatewaySteps ==
  ASSUME [Next]_vars
  PROVE  \/ \E t \in Threads : CountRef(t) \/ ReadRef(t) \/ Answer(t)
         \/ SendOrder \/ OnRspUserLogin \/ UNCHANGED gateway
  BY DEF Next, Handler, Request, Cancel, QueryOrders, QueryPosition, QueryPositionButton,
         SendOrderButton, CloseAllButton, Blogic, RunCmd, RunKeptCmd, ResetCmds, Ctp, Assign, Fill,
         Drop, Login, Spi, OnRtnOrder, OnRtnTrade, OnRspQryOrder, OnRspQryInvestorPosition,
         OnFrontDisconnected, vars

\* Nobody runs when BLOGIC makes an id or a login is heard of, else a handler was disturbed.
LEMMA NobodyRuns ==
  ASSUME Typed, [Next]_vars, ~ hist'.disturbed, SendOrder \/ OnRspUserLogin
  PROVE  \A t \in Threads : ~ Running(t)
<1>1. CASE SendOrder
  <2>1. PICK c : Run(c, Late(c) \/ \E t \in Threads : Running(t))
    BY <1>1 DEF SendOrder
  <2>2. ~ \E t \in Threads : Running(t)
    BY <2>1, RunDisturbs
  <2>3. QED  BY <2>2
<1>2. CASE OnRspUserLogin
  <2>1. hist' = [hist EXCEPT !.listed = {}, !.disturbed = @ \/ \E t \in Threads : Running(t)]
    BY <1>2 DEF OnRspUserLogin
  <2>2. hist'.disturbed = (hist.disturbed \/ \E t \in Threads : Running(t))
    BY <2>1, HistIs DEF HistT
  <2>3. QED  BY <2>2
<1>3. QED  BY <1>1, <1>2

\* A new id that no answer has keeps the answers different.
LEMMA NewDiffers ==
  ASSUME AnswersDiffer, NEW n \in Nat, DOMAIN answered' = DOMAIN answered \cup {n},
         \A q \in DOMAIN answered : answered'[q] = answered[q] /\ answered[q] # answered'[n]
  PROVE  AnswersDiffer'
  BY DEF AnswersDiffer

LEMMA FreshCount ==
  ASSUME Typed, Fresh, NEW t \in Threads, CountRef(t), ~ hist'.disturbed
  PROVE  Fresh'
<1>1. \A u \in Threads : ~ Running(u)
  <2>1. hist' = [hist EXCEPT !.disturbed = @ \/ \E u \in Threads : Running(u)]
    BY DEF CountRef
  <2>2. hist'.disturbed = (hist.disturbed \/ \E u \in Threads : Running(u))
    BY <2>1, HistIs DEF HistT
  <2>3. QED  BY <2>2
<1>2. /\ ref \in Nat /\ ref' = ref + 1 /\ UNCHANGED <<session, answered>>
      /\ handlers' = [handlers EXCEPT ![t].at = "counted"] /\ handlers \in HandlersT
  BY DEF CountRef, Typed, GatewayTyped
<1>3. \A u \in Threads : Running(u)' => u = t
  BY <1>1, <1>2 DEF Running, HandlersT
<1>4. handlers'[t].at = "counted"
  BY <1>2 DEF HandlersT
<1>5. ASSUME NEW q \in DOMAIN answered, answered[q][1] = session
      PROVE  answered[q][2] < ref + 1
  <2>1. answered[q] \in Ids /\ answered[q][2] <= ref
    BY <1>5, AnsweredIs DEF Fresh, AnswersBelow
  <2>2. answered[q][2] \in Nat
    BY <2>1 DEF Ids
  <2>3. QED  BY <1>2, <2>1, <2>2
<1>6. OneHandler'
  BY <1>3 DEF OneHandler
<1>7. HandlersFresh'
  BY <1>2, <1>3, <1>4, <1>5 DEF HandlersFresh
<1>8. AnswersBelow'
  <2>1. ASSUME NEW q \in DOMAIN answered, answered[q][1] = session
        PROVE  answered[q][2] <= ref + 1
    <3>1. answered[q][2] < ref + 1 /\ answered[q][2] \in Nat
      BY <1>5, <2>1, AnsweredIs DEF Ids
    <3>2. QED  BY <1>2, <3>1
  <2>2. QED  BY <1>2, <2>1 DEF Fresh, AnswersBelow
<1>9. QED  BY <1>2, <1>6, <1>7, <1>8 DEF Fresh, AnswersDiffer

LEMMA FreshRead ==
  ASSUME Typed, Fresh, NEW t \in Threads, ReadRef(t)
  PROVE  Fresh'
<1>1. /\ handlers' = [handlers EXCEPT ![t] = [at |-> "read", ref |-> ref]] /\ handlers \in HandlersT
      /\ UNCHANGED <<session, ref, answered>> /\ Running(t)
  BY DEF ReadRef, Typed, GatewayTyped, Running
<1>2. \A u \in Threads : Running(u)' <=> Running(u)
  BY <1>1 DEF Running, HandlersT
<1>3. \A u \in Threads : Running(u) => u = t
  BY <1>1 DEF Fresh, OneHandler
<1>4. handlers'[t].ref = ref
  BY <1>1 DEF HandlersT
<1>5. QED  BY <1>1, <1>2, <1>3, <1>4 DEF Fresh, OneHandler, AnswersBelow, HandlersFresh, AnswersDiffer

LEMMA FreshAnswer ==
  ASSUME Typed, Fresh, NEW t \in Threads, Answer(t)
  PROVE  Fresh'
<1> DEFINE n == Len(answered) + 1
<1>1. /\ handlers' = [handlers EXCEPT ![t] = Idle] /\ handlers \in HandlersT
      /\ UNCHANGED <<session, ref>> /\ Running(t) /\ handlers[t].at = "read"
      /\ session \in Nat /\ ref \in Nat
  BY DEF Answer, Typed, GatewayTyped, Running
<1>2. \A u \in Threads : Running(u) => u = t
  BY <1>1 DEF Fresh, OneHandler
<1>3. \A u \in Threads : ~ Running(u)'
  BY <1>1, <1>2 DEF Running, HandlersT, Idle
<1>4. /\ n \in Nat /\ DOMAIN answered' = DOMAIN answered \cup {n} /\ answered'[n] = <<session, ref>>
      /\ \A q \in DOMAIN answered : answered'[q] = answered[q]
  <2>1. handlers[t].ref = ref
    BY <1>1 DEF Fresh, HandlersFresh
  <2>2. /\ Len(answered) \in Nat /\ DOMAIN answered = 1 .. Len(answered)
        /\ DOMAIN answered' = 1 .. n /\ answered'[n] = BfOrderId(handlers[t].ref)
        /\ \A q \in DOMAIN answered : answered'[q] = answered[q]
    BY AnswerCommand
  <2>3. QED  BY <2>1, <2>2 DEF BfOrderId
<1> HIDE DEF n
<1>5. AnswersBelow'
  BY <1>1, <1>4 DEF Fresh, AnswersBelow
<1>6. AnswersDiffer'
  <2>1. ASSUME NEW q \in DOMAIN answered
        PROVE  answered[q] # <<session, ref>>
    <3>1. answered[q][1] = session => answered[q][2] < ref
      BY <1>1 DEF Fresh, HandlersFresh
    <3>2. QED  BY <1>1, <3>1
  <2>2. QED  BY <1>4, <2>1, NewDiffers DEF Fresh
<1>7. QED  BY <1>3, <1>5, <1>6 DEF Fresh, OneHandler, HandlersFresh

LEMMA FreshWindow ==
  ASSUME Typed, Fresh, SendOrder, \A t \in Threads : ~ Running(t)
  PROVE  Fresh'
<1> DEFINE n == Len(answered) + 1
<1>1. /\ UNCHANGED <<session, handlers>> /\ ref' = ref + 1 /\ session \in Nat /\ ref \in Nat
  BY DEF SendOrder, Typed, GatewayTyped
<1>2. \A u \in Threads : ~ Running(u)'
  BY <1>1 DEF Running
<1>3. /\ n \in Nat /\ DOMAIN answered' = DOMAIN answered \cup {n} /\ answered'[n] = <<session, ref + 1>>
      /\ \A q \in DOMAIN answered : answered'[q] = answered[q]
  <2>1. /\ Len(answered) \in Nat /\ DOMAIN answered = 1 .. Len(answered)
        /\ DOMAIN answered' = 1 .. n /\ answered'[n] = BfOrderId(ref + 1)
        /\ \A q \in DOMAIN answered : answered'[q] = answered[q]
    BY WindowCommand
  <2>2. QED  BY <2>1 DEF BfOrderId
<1> HIDE DEF n
<1>4. ASSUME NEW q \in DOMAIN answered, answered[q][1] = session
      PROVE  answered[q][2] < ref + 1 /\ answered[q][2] <= ref + 1
  <2>1. answered[q] \in Ids /\ answered[q][2] <= ref
    BY <1>4, AnsweredIs DEF Fresh, AnswersBelow
  <2>2. answered[q][2] \in Nat
    BY <2>1 DEF Ids
  <2>3. QED  BY <1>1, <2>1, <2>2
<1>5. AnswersBelow'
  BY <1>1, <1>3, <1>4 DEF Fresh, AnswersBelow
<1>6. AnswersDiffer'
  <2>1. ASSUME NEW q \in DOMAIN answered
        PROVE  answered[q] # <<session, ref + 1>>
    BY <1>1, <1>4
  <2>2. QED  BY <1>3, <2>1, NewDiffers DEF Fresh
<1>7. QED  BY <1>2, <1>5, <1>6 DEF Fresh, OneHandler, HandlersFresh

LEMMA FreshLogin ==
  ASSUME Typed, LoginsFall, Fresh, OnRspUserLogin, \A t \in Threads : ~ Running(t)
  PROVE  Fresh'
<1>1. /\ UNCHANGED <<handlers, answered>> /\ rsp # <<>> /\ Head(rsp).kind = "login" /\ session' = Head(rsp).n
  BY DEF OnRspUserLogin, IsAnswer
<1>2. session' < session /\ session' \in Nat /\ session \in Nat
  <2>1. rsp \in Seq(AnswerT) /\ session \in Nat
    BY DEF Typed, MarketTyped, GatewayTyped
  <2>2. 1 \in DOMAIN rsp /\ Head(rsp) = rsp[1] /\ Head(rsp) \in AnswerT
    BY <1>1, <2>1, TailIs
  <2>3. Head(rsp).n \in Nat
    BY <2>2 DEF AnswerT, CallbackT
  <2>4. QED  BY <1>1, <2>1, <2>2, <2>3 DEF LoginsFall
<1>3. \A u \in Threads : ~ Running(u)'
  BY <1>1 DEF Running
<1>4. ASSUME NEW q \in DOMAIN answered
      PROVE  answered[q][1] >= session' /\ answered[q][1] # session'
  <2>1. answered[q][1] >= session /\ answered[q] \in Ids
    BY AnsweredIs DEF Fresh, AnswersBelow
  <2>2. answered[q][1] \in Nat
    BY <2>1 DEF Ids
  <2>3. QED  BY <1>2, <2>1, <2>2
<1>5. AnswersBelow'
  BY <1>1, <1>4 DEF AnswersBelow
<1>6. QED  BY <1>1, <1>3, <1>5 DEF Fresh, OneHandler, HandlersFresh, AnswersDiffer

LEMMA FreshNext ==
  ASSUME Typed, LoginsFall, Fresh, [Next]_vars, ~ hist'.disturbed
  PROVE  Fresh'
<1>1. CASE UNCHANGED gateway
  BY <1>1 DEF gateway, Fresh, OneHandler, AnswersBelow, HandlersFresh, AnswersDiffer, Running
<1>2. CASE SendOrder \/ OnRspUserLogin
  BY <1>2, NobodyRuns, FreshWindow, FreshLogin
<1>3. ASSUME NEW t \in Threads, CountRef(t) \/ ReadRef(t) \/ Answer(t)
      PROVE  Fresh'
  BY <1>3, FreshCount, FreshRead, FreshAnswer
<1>4. QED  BY <1>1, <1>2, <1>3, GatewaySteps

\* A command that BLOGIC runs is named right, and an order among them is of the connection's
\* session, or it is late and disturbs.
Ready(c) == NamedRight(c)' /\ (c.kind = "send" => c.id[1] = link)

LEMMA RunReady ==
  ASSUME Typed, AllNamed, [Next]_vars, ~ hist'.disturbed, link # 0, RunCmd \/ SendOrder
  PROVE  \E c \in KeptT' : \E d : Run(c, d) /\ Ready(c)
<1>1. CASE RunCmd
  <2>1. Head(events) \in KeptT /\ Run(Head(events), Late(Head(events))) /\ UNCHANGED answered
    BY <1>1, HeadOfEvents DEF RunCmd, IsEvent, gateway, KeptT
  <2>2. PICK c : c = Head(events)
    OBVIOUS
  <2>3. c \in KeptT /\ c \in AskedT /\ Run(c, Late(c))
    BY <2>1, <2>2 DEF KeptT
  <2>4. c \in KeptT'
    BY <2>1, <2>3 DEF KeptT, AskedT
  <2>5. NamedRight(c)
    <3>1. events \in Seq(AskedT) /\ events # <<>>
      BY <1>1 DEF Typed, QueuesTyped, RunCmd, IsEvent
    <3>2. c = events[1] /\ 1 \in DOMAIN events
      BY <2>2, <3>1, TailIs
    <3>3. QED  BY <3>2 DEF AllNamed, EventsNamed
  <2>6. NamedRight(c)'
    BY <2>3, <2>5, NamedStays
  <2>7. c.kind = "send" => c.id[1] = link
    BY <2>3, RunDisturbs DEF Late
  <2>8. QED  BY <2>3, <2>4, <2>6, <2>7 DEF Ready
<1>2. CASE SendOrder
  <2> DEFINE n == Len(answered) + 1
             id == BfOrderId(ref + 1)
  <2>1. PICK c : c = Send(n, id)
    OBVIOUS
  <2>2. Run(c, Late(c) \/ \E t \in Threads : Running(t))
    BY <1>2, <2>1 DEF SendOrder
  <2>3. c \in KeptT' /\ answered'[n] = id
    BY <1>2, <2>1, WindowCommand
  <2> HIDE DEF id
  <2>4. NamedRight(c)'
    BY <2>1, <2>3 DEF NamedRight, Send, Command
  <2>5. c.kind = "send" => c.id[1] = link
    BY <2>2, RunDisturbs DEF Late
  <2>6. QED  BY <2>2, <2>3, <2>4, <2>5 DEF Ready
<1>3. QED  BY <1>1, <1>2

LEMMA KeptReady ==
  ASSUME Typed, AllNamed, [Next]_vars, link # 0, cmds # <<>>, UNCHANGED answered
  PROVE  \E c \in KeptT' : c = Head(cmds) /\ Ready(c)
<1>1. PICK c : c = Head(cmds)
  OBVIOUS
<1>2. cmds \in Seq(KeptT)
  BY DEF Typed, QueuesTyped
<1>3. c \in KeptT /\ c = cmds[1] /\ 1 \in DOMAIN cmds
  BY <1>1, <1>2, TailIs
<1>4. c \in AskedT /\ c \in KeptT' /\ NamedRight(c) /\ (c.kind = "send" => c.id[1] = link)
  BY <1>3 DEF KeptT, AskedT, AllNamed, CmdsNamed
<1>5. QED  BY <1>1, <1>4, NamedStays DEF Ready

\* The orders that CTP makes of a command.
LEMMA SentOrders ==
  ASSUME Typed, NEW c \in KeptT', Sent(c)
  PROVE  \/ DOMAIN orders' = DOMAIN orders
         \/ \E n :
              /\ c.kind = "send" /\ DOMAIN orders' = DOMAIN orders \cup {n}
              /\ Id(n)' = <<link, c.id[2]>> /\ orders'[n].req = c.req
<1>1. orders \in Seq(OrderT) /\ Len(orders) \in Nat /\ DOMAIN orders = 1 .. Len(orders)
  BY AnsweredIs DEF Typed, MarketTyped
<1>2. CASE c.kind = "send" /\ ~ Taken(link, c.id[2])
  <2> DEFINE e == [session |-> link, ref |-> c.id[2], req |-> c.req, status |-> "accepted"]
  <2> PICK n : n = Len(orders) + 1
    OBVIOUS
  <2>1. orders' = Append(orders, e)
    BY <1>2 DEF Sent, Insert
  <2>2. e.session = link /\ e.ref = c.id[2] /\ e.req = c.req
    OBVIOUS
  <2> HIDE DEF e
  <2>3. DOMAIN orders' = 1 .. n /\ orders'[n] = e
    BY <1>1, <2>1
  <2>4. DOMAIN orders' = DOMAIN orders \cup {n}
    BY <1>1, <2>3
  <2>5. Id(n)' = <<link, c.id[2]>>
    BY <2>2, <2>3 DEF Id
  <2>6. QED  BY <1>2, <2>2, <2>3, <2>4, <2>5
<1>3. CASE c.kind = "send" /\ Taken(link, c.id[2])
  BY <1>3 DEF Sent, Insert, Rejected
<1>4. CASE c.kind # "send"
  <2>1. \/ orders' = orders
        \/ \E n \in DOMAIN orders : orders' = [orders EXCEPT ![n].status = "done"]
    BY <1>4 DEF Sent, Action, Rejected, Named, CommandKinds, KeptT
  <2>2. QED  BY <2>1
<1>5. QED  BY <1>2, <1>3, <1>4

LEMMA NewOrderNamed ==
  ASSUME Typed, NEW c \in KeptT', Ready(c), Sent(c), OrdersNamed, [Next]_vars
  PROVE  OrdersNamed'
<1>1. Stay
  BY TypeNext
<1>2. ASSUME NEW n \in DOMAIN orders
      PROVE  Id(n)' = answered'[orders'[n].req]
  <2>1. Id(n)' = Id(n) /\ orders'[n].req = orders[n].req /\ orders[n].req \in DOMAIN answered
    BY <1>1, StayIds, AnsweredIs DEF Stay, OrderT
  <2>2. QED  BY <2>1, AnsweredStay DEF OrdersNamed
<1>3. CASE DOMAIN orders' = DOMAIN orders
  BY <1>2, <1>3 DEF OrdersNamed
<1>4. ASSUME NEW n, c.kind = "send", DOMAIN orders' = DOMAIN orders \cup {n},
             Id(n)' = <<link, c.id[2]>>, orders'[n].req = c.req
      PROVE  OrdersNamed'
  <2>1. c.kind = "send" /\ c.id \in Ids
    BY <1>4 DEF KeptT, AskedT, CommandT
  <2>2. c.id[1] = link /\ c.id = answered'[c.req]
    BY <2>1 DEF Ready, NamedRight
  <2>3. c.id = <<link, c.id[2]>>
    BY <2>1, <2>2 DEF Ids
  <2>4. Id(n)' = answered'[orders'[n].req]
    BY <1>4, <2>2, <2>3
  <2>5. QED  BY <1>2, <1>4, <2>4 DEF OrdersNamed
<1>5. QED  BY <1>3, <1>4, SentOrders

LEMMA OrdersNamedNext ==
  ASSUME Typed, AllNamed, [Next]_vars, ~ hist'.disturbed
  PROVE  OrdersNamed'
<1>1. Stay
  BY TypeNext
<1>2. ASSUME DOMAIN orders' = DOMAIN orders
      PROVE  OrdersNamed'
  <2>1. ASSUME NEW n \in DOMAIN orders
        PROVE  Id(n)' = answered'[orders'[n].req]
    <3>1. Id(n)' = Id(n) /\ orders'[n].req = orders[n].req /\ orders[n].req \in DOMAIN answered
      BY <1>1, StayIds, AnsweredIs DEF Stay, OrderT
    <3>2. QED  BY <3>1, AnsweredStay DEF AllNamed, OrdersNamed
  <2>2. QED  BY <1>2, <2>1 DEF OrdersNamed
<1>3. CASE RunCmd \/ SendOrder
  <2>1. CASE link # 0
    <3>1. PICK c \in KeptT' : \E d : Run(c, d) /\ Ready(c)
      BY <1>3, <2>1, RunReady
    <3>2. UNCHANGED orders \/ Sent(c)
      BY <3>1 DEF Run
    <3>3. QED  BY <1>2, <3>1, <3>2, NewOrderNamed DEF AllNamed
  <2>2. CASE link = 0
    <3>1. UNCHANGED orders
      BY <1>3, <2>2 DEF RunCmd, SendOrder, Run
    <3>2. QED  BY <1>2, <3>1
  <2>3. QED  BY <2>1, <2>2
<1>4. CASE RunKeptCmd
  <2>1. UNCHANGED orders \/ (link # 0 /\ cmds # <<>> /\ Sent(Head(cmds)))
    BY <1>4 DEF RunKeptCmd
  <2>2. CASE link # 0 /\ cmds # <<>> /\ Sent(Head(cmds))
    <3>1. UNCHANGED answered
      BY <1>4 DEF RunKeptCmd, gateway
    <3>2. PICK c \in KeptT' : c = Head(cmds) /\ Ready(c)
      BY <2>2, <3>1, KeptReady
    <3>3. Sent(c)
      BY <2>2, <3>2
    <3>4. QED  BY <3>2, <3>3, NewOrderNamed DEF AllNamed
  <2>3. QED  BY <1>2, <2>1, <2>2
<1>5. CASE Ctp
  <2>1. UNCHANGED orders \/ \E n \in DOMAIN orders : \E s : orders' = [orders EXCEPT ![n].status = s]
    BY <1>5 DEF Ctp, Assign, Fill, Drop, Login
  <2>2. DOMAIN orders' = DOMAIN orders
    BY <2>1
  <2>3. QED  BY <1>2, <2>2
<1>6. CASE Handler \/ Request \/ ResetCmds \/ Spi \/ UNCHANGED vars
  <2>1. UNCHANGED orders
    BY <1>6 DEF Handler, CountRef, ReadRef, Answer, Request, Cancel, QueryOrders, QueryPosition,
         QueryPositionButton, SendOrderButton, CloseAllButton, ResetCmds, Spi, OnRtnOrder, OnRtnTrade,
         OnRspQryOrder, OnRspQryInvestorPosition, OnRspUserLogin, OnFrontDisconnected, vars, ctp
  <2>2. QED  BY <1>2, <2>1
<1>7. QED  BY <1>3, <1>4, <1>5, <1>6 DEF Next, Blogic

LEMMA EventsNamedNext ==
  ASSUME Typed, EventsNamed, [Next]_vars
  PROVE  EventsNamed'
<1>1. /\ events \in Seq(AskedT) /\ AskedT \subseteq AskedT'
      /\ \A i \in DOMAIN events : events[i] \in AskedT /\ NamedRight(events[i])
  <2>1. events \in Seq(AskedT)
    BY DEF Typed, QueuesTyped
  <2>2. AskedT \subseteq AskedT'
    BY AnsweredStay DEF AskedT, CommandT
  <2>3. QED  BY <2>1, <2>2, ElementIs DEF EventsNamed
<1> DEFINE NamedNow(c) == c.kind = "send" => c.id = answered'[c.req]
<1>2. \A i \in DOMAIN events : NamedNow(events[i])
  BY <1>1, AnsweredStay DEF NamedRight, AskedT
<1>3. SUFFICES \A i \in DOMAIN events' : NamedNow(events'[i])
  BY DEF EventsNamed, NamedRight
<1>4. CASE UNCHANGED events
  BY <1>2, <1>4
<1>5. ASSUME NEW e \in AskedT', NamedNow(e), events' = Append(events, e)
      PROVE  \A i \in DOMAIN events' : NamedNow(events'[i])
  <2>1. events \in Seq(AskedT')
    BY <1>1, Grows
  <2> HIDE DEF NamedNow
  <2>2. QED  BY <1>2, <1>5, <2>1, AppendHas
<1>6. ASSUME NEW t \in Threads, Answer(t)
      PROVE  \A i \in DOMAIN events' : NamedNow(events'[i])
  <2> DEFINE n == Len(answered) + 1
             id == BfOrderId(handlers[t].ref)
  <2>1. answered'[n] = id /\ events' = Append(events, Send(n, id)) /\ Send(n, id) \in AskedT'
    BY <1>6, AnswerCommand
  <2> HIDE DEF id, n
  <2>2. NamedNow(Send(n, id))
    BY <2>1 DEF Send, Command
  <2>3. QED  BY <1>5, <2>1, <2>2
<1>7. ASSUME NEW n \in Nat, events' = events \o [i \in 1 .. n |-> WindowOrder]
      PROVE  \A i \in DOMAIN events' : NamedNow(events'[i])
  <2>1. [i \in 1 .. n |-> WindowOrder] \in Seq(AskedT) /\ NamedNow(WindowOrder)
    BY PlainCommands DEF WindowOrder, Command
  <2> HIDE DEF NamedNow
  <2>2. QED  BY <1>1, <1>2, <1>7, <2>1, ConcatHas
<1>8. CASE events # <<>> /\ events' = Tail(events)
  <2> HIDE DEF NamedNow
  <2>1. QED  BY <1>1, <1>2, <1>8, TailFrom
<1>9. CASE \E e \in AskedT : e.kind # "send" /\ events' = Append(events, e)
  BY <1>1, <1>5, <1>9
<1>10. QED  BY <1>4, <1>6, <1>7, <1>8, <1>9, EventsSteps

\* What a step can do to the kept commands and to the connection.
LEMMA KeptSteps ==
  ASSUME [Next]_vars
  PROVE  \/ UNCHANGED <<cmds, link>>
         \/ (RunCmd \/ SendOrder) /\ UNCHANGED link
         \/ RunKeptCmd /\ UNCHANGED <<link, answered>> /\ cmds # <<>> /\ cmds' = Tail(cmds)
         \/ cmds' = <<>>
         \/ link' = 0 /\ UNCHANGED cmds
         \/ Login
  BY DEF Next, Handler, CountRef, ReadRef, Answer, Request, Cancel, QueryOrders, QueryPosition,
         QueryPositionButton, SendOrderButton, CloseAllButton, Blogic, RunCmd, SendOrder, RunKeptCmd,
         ResetCmds, Ctp, Assign, Fill, Drop, Spi, OnRtnOrder, OnRtnTrade, OnRspQryOrder,
         OnRspQryInvestorPosition, OnRspUserLogin, OnFrontDisconnected, vars, ctp, gateway

LEMMA CmdsNamedNext ==
  ASSUME Typed, DownHeard, AllNamed, [Next]_vars, ~ hist'.disturbed
  PROVE  CmdsNamed'
<1> DEFINE Fits(c, l) == (c.kind = "send" => c.id = answered'[c.req])
                         /\ (c.kind = "send" /\ l # 0 => c.id[1] = l)
<1>1. /\ cmds \in Seq(KeptT) /\ cmds \in Seq(KeptT')
      /\ \A i \in DOMAIN cmds : cmds[i] \in AskedT /\ NamedRight(cmds[i])
  <2>1. cmds \in Seq(KeptT) /\ cmds \in Seq(KeptT')
    BY AnsweredStay, KeptGrow DEF Typed, QueuesTyped
  <2>2. \A i \in DOMAIN cmds : cmds[i] \in KeptT
    BY <2>1, ElementIs
  <2>3. QED  BY <2>1, <2>2 DEF AllNamed, CmdsNamed, KeptT
<1>2. \A i \in DOMAIN cmds : Fits(cmds[i], link) /\ Fits(cmds[i], 0)
  BY <1>1, AnsweredStay DEF NamedRight, AskedT, AllNamed, CmdsNamed
<1>3. SUFFICES \A i \in DOMAIN cmds' : Fits(cmds'[i], link')
  BY DEF CmdsNamed, NamedRight
<1>4. CASE UNCHANGED <<cmds, link>> \/ (link' = 0 /\ UNCHANGED cmds)
  BY <1>2, <1>4
<1>5. CASE cmds' = <<>>
  BY <1>5
<1>6. CASE Login
  <2>1. link = 0 /\ rsp = <<>> /\ Disconnected \notin Range(events) /\ UNCHANGED cmds
    BY <1>6 DEF Login
  <2>2. DOMAIN rsp = {} /\ \A i \in DOMAIN events : events[i] # Disconnected
    BY <2>1 DEF Range
  <2>3. cmds = <<>>
    BY <2>1, <2>2 DEF DownHeard
  <2>4. QED  BY <2>1, <2>3
<1>7. CASE RunKeptCmd /\ UNCHANGED <<link, answered>> /\ cmds # <<>> /\ cmds' = Tail(cmds)
  <2> HIDE DEF Fits
  <2>1. QED  BY <1>1, <1>2, <1>7, TailFrom
<1>8. CASE (RunCmd \/ SendOrder) /\ UNCHANGED link
  <2>1. CASE link = 0
    <3>1. UNCHANGED cmds
      BY <1>8, <2>1 DEF RunCmd, SendOrder, Run
    <3>2. QED  BY <1>2, <1>8, <3>1
  <2>2. CASE link # 0
    <3>1. PICK c \in KeptT' : \E d : Run(c, d) /\ Ready(c)
      BY <1>8, <2>2, RunReady
    <3>2. cmds' = cmds \/ cmds' = Append(cmds, c)
      BY <3>1 DEF Run
    <3>3. Fits(c, link)
      BY <3>1 DEF Ready, NamedRight
    <3> HIDE DEF Fits
    <3>4. QED  BY <1>1, <1>2, <1>8, <3>1, <3>2, <3>3, AppendHas
  <2>3. QED  BY <2>1, <2>2
<1>9. QED  BY <1>4, <1>5, <1>6, <1>7, <1>8, KeptSteps

LEMMA OrderedNext ==
  ASSUME Typed, Linked, Ordered, [Next]_vars
  PROVE  Ordered'
<1> SUFFICES ASSUME ~ hist'.disturbed
             PROVE  Fresh' /\ AllNamed'
  BY DEF Ordered
<1>1. Fresh /\ AllNamed
  BY DisturbedStays DEF Ordered
<1>2. Fresh'
  BY <1>1, FreshNext DEF Linked
<1>3. AllNamed'
  BY <1>1, EventsNamedNext, CmdsNamedNext, OrdersNamedNext DEF AllNamed, Linked
<1>4. QED  BY <1>2, <1>3

LEMMA OrderedInit ==
  ASSUME Init
  PROVE  Linked /\ Ordered
<1>1. left["logins"] \in Nat /\ session = left["logins"] + 1 /\ link = session
  <2>1. left \in [Kinds -> Nat] /\ "logins" \in Kinds
    BY BudgetsAssumption, KindsAre DEF Init
  <2>2. QED  BY <2>1 DEF Init
<1>2. /\ answered = <<>> /\ events = <<>> /\ cmds = <<>> /\ rsp = <<>> /\ orders = <<>>
      /\ \A t \in Threads : ~ Running(t)
  BY DEF Init, Running, Idle
<1>3. Linked
  BY <1>1, <1>2 DEF Linked, LoginsFall, DownHeard
<1>4. Fresh
  BY <1>2 DEF Fresh, OneHandler, AnswersBelow, HandlersFresh, AnswersDiffer
<1>5. AllNamed
  BY <1>2 DEF AllNamed, EventsNamed, CmdsNamed, OrdersNamed
<1>6. QED  BY <1>3, <1>4, <1>5 DEF Ordered

\* Each order at CTP has the id that its SendOrder returned, and no id is returned twice, as long
\* as no handler was disturbed and no order outlived its session in BLOGIC's queue:
\* IdsNameOrders is an invariant.
THEOREM IdsAlwaysNameOrders == Spec => []IdsNameOrders
<1>1. Init => Typed /\ Linked /\ Ordered
  BY TypeInit, OrderedInit
<1>2. Typed /\ Linked /\ Ordered /\ [Next]_vars => (Typed /\ Linked /\ Ordered)'
  BY TypeNext, LinkedNext, OrderedNext
<1>3. Ordered => IdsNameOrders
  BY DEF Ordered, IdsNameOrders, Fresh, AnswersDiffer, AllNamed, OrdersNamed
<1>4. QED  BY <1>1, <1>2, <1>3, PTL DEF Spec

-----------------------------------------------------------------------------
(* Positions.  An answer reaches the CTP thread whole, unless the connection breaks in it; and
   while one is being shown, the rows that are still to come are empty. *)

PositionAt(c, n) == c.kind = "qryPosition" /\ c.n = n
\* What follows c in a flow: the next record of its answer, or the break.
Follows(c, d) == d.kind = "down" \/ PositionAt(d, c.n + 1)
\* Only the record of the last position ends an answer.
RecordWhole(q, i) ==
  q[i].kind = "qryPosition" /\ q[i].n # 0 =>
    /\ q[i].last = (q[i].n = Positions)
    /\ q[i].last \/ (i + 1 \in DOMAIN q /\ Follows(q[i], q[i + 1]))
AnswersWhole == \A i \in DOMAIN rsp : RecordWhole(rsp, i)
RestEmpty ==
  reqIds.positions /\ ~ hist.cut =>
    /\ rsp # <<>>
    /\ \/ Head(rsp).kind = "down"
       \/ /\ Head(rsp).kind = "qryPosition" /\ Head(rsp).n # 0
          /\ \A p \in 1 .. Positions : p >= Head(rsp).n => rows[p] = 0
Summed == AnswersWhole /\ RestEmpty /\ PositionsOneAnswer

LEMMA SeqIs ==
  ASSUME NEW S, NEW q \in Seq(S)
  PROVE  Len(q) \in Nat /\ DOMAIN q = 1 .. Len(q)
  OBVIOUS

LEMMA ConcatAt ==
  ASSUME NEW S, NEW q \in Seq(S), NEW r \in Seq(S)
  PROVE  /\ Len(q) \in Nat /\ Len(r) \in Nat
         /\ DOMAIN q = 1 .. Len(q) /\ DOMAIN r = 1 .. Len(r)
         /\ DOMAIN (q \o r) = 1 .. (Len(q) + Len(r))
         /\ \A i \in 1 .. Len(q) : (q \o r)[i] = q[i]
         /\ \A j \in 1 .. Len(r) : (q \o r)[Len(q) + j] = r[j]
<1>1. /\ Len(q) \in Nat /\ Len(r) \in Nat /\ DOMAIN q = 1 .. Len(q) /\ DOMAIN r = 1 .. Len(r)
      /\ DOMAIN (q \o r) = 1 .. (Len(q) + Len(r))
      /\ \A i \in 1 .. (Len(q) + Len(r)) :
           (q \o r)[i] = IF i <= Len(q) THEN q[i] ELSE r[i - Len(q)]
  OBVIOUS
<1>2. ASSUME NEW j \in 1 .. Len(r)
      PROVE  (q \o r)[Len(q) + j] = r[j]
  <2>1. /\ Len(q) + j \in 1 .. (Len(q) + Len(r)) /\ ~ (Len(q) + j <= Len(q))
        /\ (Len(q) + j) - Len(q) = j
    BY <1>1
  <2>2. QED  BY <1>1, <2>1
<1>3. ASSUME NEW i \in 1 .. Len(q)
      PROVE  (q \o r)[i] = q[i]
  <2>1. i \in 1 .. (Len(q) + Len(r)) /\ i <= Len(q)
    BY <1>1
  <2>2. QED  BY <1>1, <2>1
<1>4. QED  BY <1>1, <1>2, <1>3

LEMMA CutAt ==
  ASSUME NEW S, NEW q \in Seq(S), NEW n \in 0 .. Len(q)
  PROVE  /\ SubSeq(q, 1, n) \in Seq(S) /\ Len(SubSeq(q, 1, n)) = n
         /\ \A i \in 1 .. n : SubSeq(q, 1, n)[i] = q[i]
  OBVIOUS

\* An answer that is whole stays so with another one behind it.
LEMMA WholeConcat ==
  ASSUME NEW S, NEW q \in Seq(S), NEW r \in Seq(S),
         \A i \in DOMAIN q : RecordWhole(q, i), \A i \in DOMAIN r : RecordWhole(r, i)
  PROVE  \A i \in DOMAIN (q \o r) : RecordWhole(q \o r, i)
<1> PICK s : s = q \o r
  OBVIOUS
<1>1. /\ Len(q) \in Nat /\ Len(r) \in Nat
      /\ DOMAIN q = 1 .. Len(q) /\ DOMAIN r = 1 .. Len(r)
      /\ DOMAIN s = 1 .. (Len(q) + Len(r))
      /\ \A i \in 1 .. Len(q) : s[i] = q[i]
      /\ \A j \in 1 .. Len(r) : s[Len(q) + j] = r[j]
  BY ConcatAt
<1>2. ASSUME NEW i \in DOMAIN s
      PROVE  RecordWhole(s, i)
  <2>1. CASE i <= Len(q)
    <3>1. i \in 1 .. Len(q) /\ s[i] = q[i] /\ RecordWhole(q, i)
      BY <1>1, <1>2, <2>1
    <3>2. i + 1 \in DOMAIN q => i + 1 \in DOMAIN s /\ s[i + 1] = q[i + 1]
      BY <1>1
    <3>3. QED  BY <3>1, <3>2 DEF RecordWhole
  <2>2. CASE ~ (i <= Len(q))
    <3>1. PICK j \in 1 .. Len(r) : i = Len(q) + j
      <4>1. i - Len(q) \in 1 .. Len(r) /\ i = Len(q) + (i - Len(q))
        BY <1>1, <1>2, <2>2
      <4>2. QED  BY <4>1
    <3>2. s[i] = r[j] /\ RecordWhole(r, j)
      BY <1>1, <3>1
    <3>3. j + 1 \in DOMAIN r => i + 1 \in DOMAIN s /\ s[i + 1] = r[j + 1]
      <4>1. i + 1 = Len(q) + (j + 1)
        BY <1>1, <3>1
      <4>2. j + 1 \in 1 .. Len(r) => Len(q) + (j + 1) \in 1 .. (Len(q) + Len(r))
        BY <1>1, <3>1
      <4>3. QED  BY <1>1, <4>1, <4>2
    <3>4. QED  BY <3>2, <3>3 DEF RecordWhole
  <2>3. QED  BY <2>1, <2>2
<1>3. QED  BY <1>2

LEMMA AnswerWhole ==
  ASSUME Typed, NEW a \in Answers
  PROVE  \A i \in DOMAIN a : RecordWhole(a, i)
<1>1. ASSUME NEW kind, a = NoRecord(kind), NEW i \in DOMAIN a
      PROVE  a[i].n = 0
  BY <1>1 DEF NoRecord, Callback
<1>2. ASSUME NEW i \in DOMAIN a,
             a = [n \in DOMAIN orders |-> Callback("qryOrder", n, orders[n].status, n = Len(orders))]
      PROVE  a[i].kind = "qryOrder"
  BY <1>2 DEF Callback
<1>3. ASSUME NEW i \in DOMAIN a,
             a = [p \in 1 .. Positions |-> Callback("qryPosition", p, "accepted", p = Positions)]
      PROVE  RecordWhole(a, i)
  <2>1. i \in 1 .. Positions /\ DOMAIN a = 1 .. Positions /\ Positions \in Nat
        /\ a[i].last = (i = Positions) /\ a[i].n = i
    BY <1>3, PositionsAssumption DEF Callback
  <2>2. i # Positions => i + 1 \in DOMAIN a
    BY <2>1
  <2>3. i + 1 \in DOMAIN a => a[i + 1].kind = "qryPosition" /\ a[i + 1].n = i + 1
    BY <1>3, <2>1 DEF Callback
  <2>4. QED  BY <2>1, <2>2, <2>3 DEF RecordWhole, Follows, PositionAt
<1>4. ASSUME NEW i \in DOMAIN a
      PROVE  RecordWhole(a, i)
  BY <1>1, <1>2, <1>3, <1>4 DEF RecordWhole, Answers, OrderAnswers, PositionAnswers
<1>5. QED  BY <1>4

\* The connection breaks in the answers: the first of them arrive, and then the break.
LEMMA BreakIs ==
  ASSUME Typed, Drop
  PROVE  \E m \in 0 .. Len(rsp) :
           /\ DOMAIN rsp' = 1 .. (m + 1) /\ rsp'[m + 1].kind = "down"
           /\ \A i \in 1 .. m : rsp'[i] = rsp[i] /\ i \in DOMAIN rsp
<1>0. rsp \in Seq(AnswerT)
  BY DEF Typed, MarketTyped
<1> PICK down : down = Callback("down", 0, "accepted", TRUE)
  OBVIOUS
<1>1. PICK m \in 0 .. Len(rsp) : rsp' = SubSeq(rsp, 1, m) \o <<down>>
  BY DEF Drop
<1>2. down.kind = "down" /\ down \in AnswerT
  BY DEF Callback, AnswerT, CallbackT, AnswerKinds, Names, Statuses
<1>3. /\ Len(rsp) \in Nat /\ m \in Nat /\ DOMAIN rsp = 1 .. Len(rsp)
      /\ DOMAIN rsp' = 1 .. (m + 1) /\ rsp'[m + 1] = down
      /\ \A i \in 1 .. m : rsp'[i] = rsp[i] /\ i \in DOMAIN rsp
  <2>1. /\ SubSeq(rsp, 1, m) \in Seq(AnswerT) /\ Len(SubSeq(rsp, 1, m)) = m
        /\ \A i \in 1 .. m : SubSeq(rsp, 1, m)[i] = rsp[i]
    BY <1>0, CutAt
  <2>2. <<down>> \in Seq(AnswerT) /\ Len(<<down>>) = 1 /\ <<down>>[1] = down
    BY <1>2, SingleIs
  <2>3. /\ DOMAIN rsp' = 1 .. (m + 1) /\ rsp'[m + 1] = down
        /\ \A i \in 1 .. m : rsp'[i] = rsp[i]
    <3> PICK q : q = SubSeq(rsp, 1, m)
      OBVIOUS
    <3> PICK r : r = <<down>>
      OBVIOUS
    <3>1. /\ Len(q) = m /\ Len(r) = 1 /\ r[1] = down /\ rsp' = q \o r
          /\ \A i \in 1 .. m : q[i] = rsp[i]
          /\ q \in Seq(AnswerT) /\ r \in Seq(AnswerT)
      BY <1>1, <2>1, <2>2
    <3>2. /\ DOMAIN (q \o r) = 1 .. (Len(q) + Len(r)) /\ \A i \in 1 .. Len(q) : (q \o r)[i] = q[i]
          /\ \A j \in 1 .. Len(r) : (q \o r)[Len(q) + j] = r[j]
      BY <3>1, ConcatAt
    <3>3. (q \o r)[m + 1] = down
      <4>1. 1 \in 1 .. Len(r)
        BY <3>1
      <4>2. (q \o r)[Len(q) + 1] = r[1]
        BY <3>2, <4>1
      <4>3. QED  BY <3>1, <4>2
    <3>4. QED  BY <3>1, <3>2, <3>3
  <2>4. Len(rsp) \in Nat /\ m \in Nat /\ DOMAIN rsp = 1 .. Len(rsp)
    BY <1>0
  <2>5. QED  BY <2>3, <2>4
<1>4. QED  BY <1>2, <1>3

LEMMA WholeNext ==
  ASSUME Typed, AnswersWhole, [Next]_vars
  PROVE  AnswersWhole'
<1>1. rsp \in Seq(AnswerT)
  BY DEF Typed, MarketTyped
<1>2. SUFFICES \A i \in DOMAIN rsp' : RecordWhole(rsp', i)
  BY DEF AnswersWhole, RecordWhole, Follows, PositionAt
<1>3. CASE UNCHANGED rsp
  BY <1>3 DEF AnswersWhole
<1>4. CASE \E a \in Answers : rsp' = rsp \o a
  <2>1. PICK a \in Answers : rsp' = rsp \o a
    BY <1>4
  <2>2. a \in Seq(AnswerT) /\ \A i \in DOMAIN a : RecordWhole(a, i)
    BY AnswersKinds, AnswerWhole
  <2>3. QED  BY <1>1, <2>1, <2>2, WholeConcat DEF AnswersWhole
<1>5. CASE Drop
  <2>1. PICK m \in 0 .. Len(rsp) :
          /\ DOMAIN rsp' = 1 .. (m + 1) /\ rsp'[m + 1].kind = "down"
          /\ \A i \in 1 .. m : rsp'[i] = rsp[i] /\ i \in DOMAIN rsp
    BY <1>5, BreakIs
  <2>2. Len(rsp) \in Nat /\ m \in Nat
    BY <1>1
  <2>4. ASSUME NEW i \in DOMAIN rsp'
        PROVE  RecordWhole(rsp', i)
    <3>1. CASE i = m + 1
      BY <2>1, <2>2, <3>1 DEF RecordWhole
    <3>2. CASE i = m
      <4>1. rsp'[i] = rsp[i] /\ i + 1 \in DOMAIN rsp' /\ rsp'[i + 1].kind = "down" /\ i \in DOMAIN rsp
        <5>1. m + 1 \in DOMAIN rsp' /\ (m \in DOMAIN rsp' => m \in 1 .. m)
          BY <2>1, <2>2
        <5>2. QED  BY <2>1, <2>2, <2>4, <3>2, <5>1
      <4>2. RecordWhole(rsp, i)
        BY <4>1 DEF AnswersWhole
      <4>3. QED  BY <4>1, <4>2 DEF RecordWhole, Follows
    <3>3. CASE i # m /\ i # m + 1
      <4>1. i \in 1 .. m /\ i + 1 \in 1 .. m
        BY <2>1, <2>2, <2>4, <3>3
      <4>2. rsp'[i] = rsp[i] /\ rsp'[i + 1] = rsp[i + 1] /\ i \in DOMAIN rsp /\ i + 1 \in DOMAIN rsp'
        BY <2>1, <2>2, <4>1
      <4>3. RecordWhole(rsp, i)
        BY <4>2 DEF AnswersWhole
      <4>4. QED  BY <4>2, <4>3 DEF RecordWhole
    <3>4. QED  BY <3>1, <3>2, <3>3
  <2>5. QED  BY <2>4
<1>6. CASE Login
  <2>1. rsp' = <<Callback("login", link', "accepted", TRUE)>>
    BY <1>6 DEF Login
  <2>2. \A i \in DOMAIN rsp' : rsp'[i].kind = "login"
    BY <2>1 DEF Callback
  <2>3. QED  BY <2>2 DEF RecordWhole
<1>7. CASE rsp # <<>> /\ rsp' = Tail(rsp)
  <2>1. /\ Len(rsp) \in Nat \ {0} /\ DOMAIN rsp = 1 .. Len(rsp) /\ DOMAIN rsp' = 1 .. (Len(rsp) - 1)
        /\ \A i \in 1 .. (Len(rsp) - 1) : rsp'[i] = rsp[i + 1]
    <3>1. Tail(rsp) \in Seq(AnswerT)
      BY <1>1, <1>7, TailIs
    <3>2. QED  BY <1>1, <1>7, <3>1, TailIs, SeqIs
  <2>2. ASSUME NEW i \in DOMAIN rsp'
        PROVE  RecordWhole(rsp', i)
    <3>1. i + 1 \in DOMAIN rsp /\ rsp'[i] = rsp[i + 1] /\ i \in Nat
      BY <2>1, <2>2
    <3>2. RecordWhole(rsp, i + 1)
      BY <3>1 DEF AnswersWhole
    <3>3. (i + 1) + 1 \in DOMAIN rsp => i + 1 \in DOMAIN rsp' /\ rsp'[i + 1] = rsp[(i + 1) + 1]
      BY <2>1, <3>1
    <3>4. QED  BY <3>1, <3>2, <3>3 DEF RecordWhole
  <2>3. QED  BY <2>2
<1>8. QED  BY <1>3, <1>4, <1>5, <1>6, <1>7, RspSteps

\* What BLOGIC does to CTP, and to the marks of the answers.
LEMMA BlogicSends ==
  ASSUME Typed, Blogic
  PROVE  /\ UNCHANGED <<link, reqIds, working, finished, rows>>
         /\ hist'.cut = hist.cut /\ hist'.fresh = hist.fresh
         /\ \/ UNCHANGED ctp /\ hist'.alone = hist.alone
            \/ link # 0 /\ \E c \in KeptT' : Sent(c) /\ hist'.alone = Alone(c)
<1>1. UNCHANGED <<link, reqIds, working, finished, rows>>
  BY DEF Blogic, RunCmd, SendOrder, RunKeptCmd, ResetCmds, spi, forms, ctp
<1>2. ASSUME NEW c \in KeptT', NEW d, Run(c, d)
      PROVE  /\ hist'.cut = hist.cut /\ hist'.fresh = hist.fresh
             /\ \/ UNCHANGED ctp /\ hist'.alone = hist.alone
                \/ link # 0 /\ Sent(c) /\ hist'.alone = Alone(c)
  <2> DEFINE alone == IF cmds' = cmds /\ link # 0 THEN Alone(c) ELSE hist.alone
             disturbed == hist.disturbed \/ d
  <2>1. hist' = [hist EXCEPT !.disturbed = disturbed, !.alone = alone]
    BY <1>2 DEF Run
  <2>2. alone = IF cmds' = cmds /\ link # 0 THEN Alone(c) ELSE hist.alone
    OBVIOUS
  <2> HIDE DEF alone, disturbed
  <2>3. hist'.cut = hist.cut /\ hist'.fresh = hist.fresh /\ hist'.alone = alone
    BY <2>1, HistIs DEF HistT
  <2>4. CASE link = 0 /\ UNCHANGED <<orders, rsp, rtn>>
    BY <1>1, <2>2, <2>3, <2>4 DEF ctp
  <2>5. CASE link # 0 /\ Sent(c) /\ UNCHANGED cmds
    BY <2>2, <2>3, <2>5
  <2>6. CASE cmds' = Append(cmds, c) /\ UNCHANGED <<orders, rsp, rtn>>
    <3>1. cmds \in Seq(KeptT)
      BY DEF Typed, QueuesTyped
    <3>2. cmds' # cmds
      BY <2>6, <3>1
    <3>3. QED  BY <1>1, <2>2, <2>3, <2>6, <3>2 DEF ctp
  <2>7. QED  BY <1>2, <2>4, <2>5, <2>6 DEF Run
<1>3. CASE RunCmd
  <2>1. Head(events) \in KeptT' /\ Run(Head(events), Late(Head(events)))
    <3>1. Head(events) \in AskedT /\ Head(events).kind \in CommandKinds /\ UNCHANGED answered
      BY <1>3, HeadOfEvents DEF RunCmd, IsEvent, gateway
    <3>2. QED  BY <1>3, <3>1 DEF KeptT, AskedT, RunCmd
  <2>2. QED  BY <1>1, <1>2, <2>1
<1>4. CASE SendOrder
  <2> PICK c : c = Send(Len(answered) + 1, BfOrderId(ref + 1))
    OBVIOUS
  <2>1. c \in KeptT' /\ Run(c, Late(c) \/ \E t \in Threads : Running(t))
    BY <1>4, WindowCommand DEF SendOrder
  <2>2. QED  BY <1>1, <1>2, <2>1
<1>5. CASE RunKeptCmd
  <2> PICK c : c = Head(cmds)
    OBVIOUS
  <2>1. c \in KeptT'
    <3>1. c \in KeptT /\ UNCHANGED answered
      BY <1>5, TailIs DEF Typed, QueuesTyped, RunKeptCmd, gateway
    <3>2. QED  BY <3>1 DEF KeptT, AskedT
  <2>2. CASE link = 0 /\ UNCHANGED <<orders, rsp, rtn, hist>>
    BY <1>1, <2>2 DEF ctp
  <2>3. CASE link # 0 /\ Sent(c) /\ hist' = [hist EXCEPT !.alone = Alone(c)]
    <3>1. hist'.cut = hist.cut /\ hist'.fresh = hist.fresh /\ hist'.alone = Alone(c)
      BY <2>3, HistIs DEF HistT
    <3>2. QED  BY <1>1, <2>1, <2>3, <3>1
  <2>4. QED  BY <1>5, <2>2, <2>3 DEF RunKeptCmd
<1>6. CASE ResetCmds
  BY <1>1, <1>6 DEF ResetCmds
<1>7. QED  BY <1>3, <1>4, <1>5, <1>6 DEF Blogic

LEMMA SentAnswers ==
  ASSUME NEW c \in KeptT', Sent(c)
  PROVE  UNCHANGED rsp \/ \E a \in Answers : rsp' = rsp \o a
  BY DEF Sent, CommandKinds, Answers, KeptT

\* What a step can do to the rows and to the mark of an answer that was cut.
Kept == UNCHANGED <<rows, reqIds>> /\ hist'.cut = hist.cut
Emptied == rows' = [p \in 1 .. Positions |-> 0] /\ UNCHANGED reqIds /\ hist'.cut = hist.cut
LEMMA RowsSteps ==
  ASSUME Typed, [Next]_vars
  PROVE  \/ Kept /\ UNCHANGED rsp
         \/ Emptied /\ UNCHANGED rsp
         \/ Kept /\ \E a \in Answers : rsp' = rsp \o a
         \/ Kept /\ (Drop \/ Login)
         \/ /\ IsAnswer("qryOrder") /\ rsp' = Tail(rsp) /\ UNCHANGED rows
            /\ reqIds'.positions = reqIds.positions /\ hist'.cut = hist.cut
         \/ Kept /\ IsAnswer("login") /\ rsp' = Tail(rsp)
         \/ OnRspQryInvestorPosition
         \/ OnFrontDisconnected
<1>1. CASE Blogic
  <2>1. Kept /\ (UNCHANGED rsp \/ \E a \in Answers : rsp' = rsp \o a)
    BY <1>1, BlogicSends, SentAnswers DEF Kept, ctp
  <2>2. QED  BY <2>1
<1>2. CASE Handler
  <2>1. hist' = hist \/ hist' = [hist EXCEPT !.disturbed = @ \/ \E u \in Threads : Running(u)]
    BY <1>2 DEF Handler, CountRef, ReadRef, Answer
  <2>2. hist'.cut = hist.cut
    BY <2>1, HistIs DEF HistT
  <2>3. UNCHANGED <<rows, reqIds, rsp>>
    BY <1>2 DEF Handler, CountRef, ReadRef, Answer, ctp, spi, forms
  <2>4. QED  BY <2>2, <2>3 DEF Kept
<1>3. CASE Request \/ UNCHANGED vars
  BY <1>3 DEF Request, Cancel, QueryOrders, QueryPosition, QueryPositionButton, SendOrderButton,
         CloseAllButton, vars, ctp, spi, forms, Kept, Emptied
<1>4. CASE Ctp
  <2>1. hist' \in {hist, [hist EXCEPT !.alone = FALSE], [hist EXCEPT !.alone = FALSE, !.fresh = FALSE]}
    BY <1>4 DEF Ctp, Assign, Fill, Drop, Login
  <2>2. hist'.cut = hist.cut
    BY <2>1, HistIs DEF HistT
  <2>3. UNCHANGED <<rows, reqIds>> /\ (UNCHANGED rsp \/ Drop \/ Login)
    BY <1>4 DEF Ctp, Assign, Fill, Drop, Login, spi, forms
  <2>4. QED  BY <2>2, <2>3 DEF Kept
<1>5. CASE OnRtnOrder \/ OnRtnTrade
  <2>1. hist' = hist \/ \E x : hist' = [hist EXCEPT !.ignored = x]
    BY <1>5 DEF OnRtnOrder, OnRtnTrade
  <2>2. hist'.cut = hist.cut
    BY <2>1, HistIs DEF HistT
  <2>3. UNCHANGED <<rows, reqIds, rsp>>
    BY <1>5 DEF OnRtnOrder, OnRtnTrade, forms
  <2>4. QED  BY <2>2, <2>3 DEF Kept
<1>6. CASE OnRspQryOrder
  <2>1. hist' = hist \/ \E x, y : hist' = [hist EXCEPT !.fresh = x, !.listed = y]
    BY <1>6 DEF OnRspQryOrder
  <2>2. hist'.cut = hist.cut
    BY <2>1, HistIs DEF HistT
  <2>3. \E x : reqIds' = [reqIds EXCEPT !.orders = x]
    BY <1>6 DEF OnRspQryOrder
  <2>4. reqIds'.positions = reqIds.positions
    BY <2>3 DEF Typed, SpiTyped
  <2>5. QED  BY <1>6, <2>2, <2>4 DEF OnRspQryOrder
<1>7. CASE OnRspUserLogin
  <2>1. hist' = [hist EXCEPT !.listed = {}, !.disturbed = @ \/ \E t \in Threads : Running(t)]
    BY <1>7 DEF OnRspUserLogin
  <2>2. hist'.cut = hist.cut
    BY <2>1, HistIs DEF HistT
  <2>3. QED  BY <1>7, <2>2 DEF OnRspUserLogin, Kept, forms
<1>8. QED  BY <1>1, <1>2, <1>3, <1>4, <1>5, <1>6, <1>7 DEF Next, Spi

LEMMA SummedNext ==
  ASSUME Typed, Summed, [Next]_vars
  PROVE  Summed'
<1>1. /\ rsp \in Seq(AnswerT) /\ rows \in [1 .. Positions -> Nat] /\ Positions \in Nat
      /\ reqIds \in [orders : BOOLEAN, positions : BOOLEAN]
  BY PositionsAssumption DEF Typed, MarketTyped, FormsTyped, SpiTyped
<1>2. AnswersWhole' /\ DOMAIN rows' = 1 .. Positions
  <2>1. Typed'
    BY TypeNext
  <2>2. QED  BY <2>1, WholeNext DEF Summed, Typed, FormsTyped
<1>3. ASSUME UNCHANGED <<rows, reqIds>>, hist'.cut = hist.cut
      PROVE  PositionsOneAnswer'
  BY <1>3 DEF Summed, PositionsOneAnswer
<1>4. ASSUME UNCHANGED rows, hist'.cut = hist.cut, reqIds'.positions = reqIds.positions,
             rsp # <<>> => rsp' # <<>> /\ (Head(rsp)' = Head(rsp) \/ Head(rsp)'.kind = "down")
      PROVE  RestEmpty'
  BY <1>4 DEF Summed, RestEmpty
<1>5. CASE Kept /\ UNCHANGED rsp
  BY <1>2, <1>3, <1>4, <1>5 DEF Kept, Summed
<1>6. CASE Emptied /\ UNCHANGED rsp
  <2>1. \A p \in 1 .. Positions : rows'[p] = 0
    BY <1>6 DEF Emptied
  <2>2. PositionsOneAnswer'
    BY <1>2, <2>1 DEF PositionsOneAnswer
  <2>3. RestEmpty'
    BY <1>6, <2>1 DEF Summed, RestEmpty, Emptied
  <2>4. QED  BY <1>2, <2>2, <2>3 DEF Summed
<1>7. CASE Kept /\ \E a \in Answers : rsp' = rsp \o a
  <2>1. PICK a \in Answers : rsp' = rsp \o a
    BY <1>7
  <2>2. a \in Seq(AnswerT)
    BY AnswersKinds
  <2>3. rsp # <<>> => rsp' # <<>> /\ Head(rsp)' = Head(rsp)
    BY <1>1, <2>1, <2>2
  <2>4. QED  BY <1>2, <1>3, <1>4, <1>7, <2>3 DEF Kept, Summed
<1>8. CASE Kept /\ Drop
  <2>1. PICK m \in 0 .. Len(rsp) :
          /\ DOMAIN rsp' = 1 .. (m + 1) /\ rsp'[m + 1].kind = "down"
          /\ \A i \in 1 .. m : rsp'[i] = rsp[i]
    BY <1>8, BreakIs
  <2>2. m \in Nat /\ rsp' \in Seq(AnswerT')
    BY <1>1, TypeNext DEF Typed, MarketTyped
  <2>3. rsp' # <<>> /\ Head(rsp') = rsp'[1]
    <3>1. 1 \in DOMAIN rsp'
      BY <2>1, <2>2
    <3>2. QED  BY <2>2, <3>1
  <2>4. rsp # <<>> => Head(rsp) = rsp[1]
    BY <1>1
  <2>5. Head(rsp').kind = "down" \/ (1 \in 1 .. m /\ rsp'[1] = rsp[1])
    BY <2>1, <2>2, <2>3
  <2>6. rsp # <<>> => rsp' # <<>> /\ (Head(rsp)' = Head(rsp) \/ Head(rsp)'.kind = "down")
    BY <2>3, <2>4, <2>5
  <2>7. QED  BY <1>2, <1>3, <1>4, <1>8, <2>6 DEF Kept, Summed
<1>9. CASE Kept /\ Login
  <2>1. rsp = <<>>
    BY <1>9 DEF Login
  <2>2. QED  BY <1>2, <1>3, <1>4, <1>9, <2>1 DEF Kept, Summed
<1>10. ASSUME UNCHANGED rows, hist'.cut = hist.cut, reqIds'.positions = reqIds.positions,
              IsAnswer("qryOrder") \/ IsAnswer("login")
       PROVE  Summed'
  <2>1. ~ (reqIds.positions /\ ~ hist.cut)
    BY <1>10 DEF Summed, RestEmpty, IsAnswer
  <2>2. RestEmpty' /\ PositionsOneAnswer'
    BY <1>10, <2>1 DEF RestEmpty, Summed, PositionsOneAnswer
  <2>3. QED  BY <1>2, <2>2 DEF Summed
<1>11. CASE OnFrontDisconnected
  <2>1. hist' = [hist EXCEPT !.cut = @ \/ reqIds.positions] /\ UNCHANGED <<rows, reqIds>>
    BY <1>11 DEF OnFrontDisconnected, forms, spi
  <2>2. hist'.cut = (hist.cut \/ reqIds.positions)
    BY <2>1, HistIs DEF HistT
  <2>3. RestEmpty' /\ PositionsOneAnswer'
    BY <2>1, <2>2 DEF RestEmpty, Summed, PositionsOneAnswer
  <2>4. QED  BY <1>2, <2>3 DEF Summed
<1>12. CASE OnRspQryInvestorPosition
  <2> PICK c : c = Head(rsp)
    OBVIOUS
  <2>1. /\ rsp # <<>> /\ c.kind = "qryPosition" /\ rsp' = Tail(rsp)
        /\ reqIds' = [reqIds EXCEPT !.positions = (@ \/ c.n # 0) /\ ~ c.last]
    BY <1>12 DEF OnRspQryInvestorPosition, IsAnswer
  <2>2. reqIds'.positions = ((reqIds.positions \/ c.n # 0) /\ ~ c.last)
    BY <1>1, <2>1
  <2>3. CASE c.n = 0
    <3>1. UNCHANGED <<rows, hist>>
      BY <1>12, <2>3 DEF OnRspQryInvestorPosition
    <3>2. ~ (reqIds.positions /\ ~ hist.cut)
      BY <2>1, <2>3 DEF Summed, RestEmpty
    <3>3. RestEmpty' /\ PositionsOneAnswer'
      BY <2>2, <2>3, <3>1, <3>2 DEF RestEmpty, Summed, PositionsOneAnswer
    <3>4. QED  BY <1>2, <3>3 DEF Summed
  <2>4. CASE c.n # 0
    <3>1. rows' = Added(Begun, c.n) /\ hist'.cut = (hist.cut /\ reqIds.positions)
      <4>1. rows' = Added(Begun, c.n) /\ hist' = [hist EXCEPT !.cut = @ /\ reqIds.positions]
        BY <1>12, <2>4 DEF OnRspQryInvestorPosition
      <4>2. QED  BY <4>1, HistIs DEF HistT
    <3>2. c.n \in 1 .. Positions /\ c = rsp[1] /\ 1 \in DOMAIN rsp
      <4>1. c \in AnswerT /\ c = rsp[1] /\ 1 \in DOMAIN rsp
        BY <1>1, <2>1, TailIs
      <4>2. QED  BY <2>1, <2>4, <4>1 DEF AnswerT, Names
    <3>3. Begun \in [1 .. Positions -> Nat]
      BY <1>1 DEF Begun
    <3>4. /\ rows'[c.n] = Begun[c.n] + 1
          /\ \A p \in 1 .. Positions : p # c.n => rows'[p] = Begun[p]
      BY <3>1, <3>2, <3>3 DEF Added
    <3>5. ASSUME ~ hist'.cut
          PROVE  /\ \A p \in 1 .. Positions : Begun[p] <= 1
                 /\ \A p \in 1 .. Positions : p >= c.n => Begun[p] = 0
      <4>1. CASE ~ reqIds.positions
        BY <1>1, <4>1 DEF Begun
      <4>2. CASE reqIds.positions
        <5>1. ~ hist.cut /\ Begun = rows
          BY <3>1, <3>5, <4>2 DEF Begun
        <5>2. QED  BY <1>1, <2>1, <4>2, <5>1 DEF Summed, RestEmpty, PositionsOneAnswer
      <4>3. QED  BY <4>1, <4>2
    <3>6. PositionsOneAnswer'
      BY <1>2, <3>2, <3>3, <3>4, <3>5 DEF PositionsOneAnswer
    <3>7. RestEmpty'
      <4> SUFFICES ASSUME reqIds'.positions, ~ hist'.cut
                   PROVE  /\ rsp' # <<>>
                          /\ \/ Head(rsp').kind = "down"
                             \/ /\ Head(rsp').kind = "qryPosition" /\ Head(rsp').n # 0
                                /\ \A p \in 1 .. Positions : p >= Head(rsp').n => rows'[p] = 0
        BY DEF RestEmpty
      <4>1. RecordWhole(rsp, 1) /\ ~ c.last
        BY <2>2, <3>2 DEF Summed, AnswersWhole
      <4>2. 1 + 1 \in DOMAIN rsp /\ Follows(c, rsp[1 + 1])
        BY <2>1, <2>4, <3>2, <4>1 DEF RecordWhole
      <4>3. rsp' # <<>> /\ Head(rsp') = rsp[1 + 1]
        <5>1. /\ Tail(rsp) \in Seq(AnswerT) /\ Len(rsp) \in Nat /\ Len(Tail(rsp)) = Len(rsp) - 1
              /\ \A i \in 1 .. (Len(rsp) - 1) : Tail(rsp)[i] = rsp[i + 1]
          BY <1>1, <2>1, TailIs
        <5>2. 1 \in 1 .. (Len(rsp) - 1)
          BY <1>1, <4>2, <5>1, SeqIs
        <5>3. Tail(rsp)[1] = rsp[1 + 1]
          BY <5>1, <5>2
        <5>4. Tail(rsp) # <<>>
          <6>1. Len(Tail(rsp)) # 0 /\ Len(<<>>) = 0
            BY <5>1, <5>2
          <6>2. QED  BY <6>1, Zenon
        <5>5. Head(Tail(rsp)) = Tail(rsp)[1]
          BY <5>1, <5>4, TailIs
        <5>6. QED  BY <2>1, <5>3, <5>4, <5>5
      <4>4. CASE PositionAt(rsp[1 + 1], c.n + 1)
        <5>1. Head(rsp').kind = "qryPosition" /\ Head(rsp').n = c.n + 1
          BY <4>3, <4>4 DEF PositionAt
        <5>2. \A p \in 1 .. Positions : p >= c.n + 1 => rows'[p] = 0
          BY <1>1, <3>2, <3>4, <3>5
        <5>3. QED  BY <3>2, <4>3, <5>1, <5>2
      <4>5. QED  BY <4>2, <4>3, <4>4 DEF Follows
    <3>8. QED  BY <1>2, <3>6, <3>7 DEF Summed
  <2>5. QED  BY <2>3, <2>4
<1>13. QED  BY <1>5, <1>6, <1>7, <1>8, <1>9, <1>10, <1>11, <1>12, RowsSteps DEF Kept

\* Rows of PositionForm are sums over one answer, unless the connection broke in one:
\* PositionsOneAnswer is an invariant.
THEOREM PositionsAlwaysOneAnswer == Spec => []PositionsOneAnswer
<1>1. Init => Typed /\ Summed
  <2> SUFFICES ASSUME Init
               PROVE  Typed /\ Summed
    OBVIOUS
  <2>1. rsp = <<>> /\ ~ reqIds.positions /\ \A p \in DOMAIN rows : rows[p] = 0
    BY DEF Init
  <2>2. QED  BY <2>1, TypeInit DEF Summed, AnswersWhole, RestEmpty, PositionsOneAnswer
<1>2. Typed /\ Summed /\ [Next]_vars => (Typed /\ Summed)'
  BY TypeNext, SummedNext
<1>3. Summed => PositionsOneAnswer
  BY DEF Summed
<1>4. QED  BY <1>1, <1>2, <1>3, PTL DEF Spec

-----------------------------------------------------------------------------
(* Order lists.  While the connection lasts, the last return on its way of an order tells its
   present status (ReturnsLatest); an answer that no change has met tells the present status of
   all orders, and what of it has been shown is right (AnswerCurrent); so when its last record
   is shown the lists are right but for the orders whose return is on its way (FreshRight). *)

OwnIds == \A m, n \in DOMAIN orders : Id(m) = Id(n) => m = n
\* A callback that tells of an order's end comes after the end.
SaysDone(c) == c.kind \in {"order", "qryOrder"} /\ c.n # 0 /\ c.status = "done"
DoneStays ==
  /\ \A i \in DOMAIN rtn : SaysDone(rtn[i]) => ~ Open(rtn[i].n)
  /\ \A i \in DOMAIN rsp : SaysDone(rsp[i]) => ~ Open(rsp[i].n)
ListsNamed ==
  /\ \A id \in working : \E n \in DOMAIN orders : id = Id(n)
  /\ \A id \in finished : \E n \in DOMAIN orders : id = Id(n) /\ ~ Open(n)
ReturnOf(c, n) == c.kind = "order" /\ c.n = n
Pending(n) == \E i \in DOMAIN rtn : ReturnOf(rtn[i], n)
ReturnsLatest ==
  link # 0 => \A i \in DOMAIN rtn : \A n \in DOMAIN orders : ReturnOf(rtn[i], n) =>
     \/ rtn[i].status = orders[n].status
     \/ \E j \in DOMAIN rtn : j > i /\ ReturnOf(rtn[j], n)
Quiet ==
  /\ link = 0 => ~ hist.fresh /\ ~ hist.alone
  /\ hist.alone => rtn = <<>>
  /\ link = 0 => rtn = <<>> \/ \E i \in DOMAIN rsp : rsp[i].kind = "down"
RightAt(n) == (Id(n) \in working <=> Open(n)) /\ (Id(n) \in finished <=> ~ Open(n))
Record(n) == Callback("qryOrder", n, orders[n].status, n = Len(orders))
\* The last record of an order query on its way.
FinalAt(q, e) ==
  e \in DOMAIN q /\ q[e].kind = "qryOrder" /\ \A i \in DOMAIN q : i > e => q[i].kind # "qryOrder"
\* The answer that ends at e lists the present orders, and those listed before are right.
CurrentAt(q, e) ==
  /\ q[e].n = Len(orders)
  /\ \A n \in DOMAIN orders : n > Len(orders) - e => q[e - (Len(orders) - n)] = Record(n)
  /\ e < Len(orders) =>
       reqIds.orders /\ \A n \in DOMAIN orders : n <= Len(orders) - e => RightAt(n)
AnswerCurrent ==
  hist.alone => \A e \in DOMAIN rsp : FinalAt(rsp, e) /\ rsp[e].n # 0 => CurrentAt(rsp, e)
FreshRight == hist.fresh => \A n \in DOMAIN orders : Pending(n) \/ RightAt(n)
ListsFounded == OwnIds /\ DoneStays /\ ListsNamed
Lists == ListsFounded /\ ReturnsLatest /\ Quiet /\ AnswerCurrent /\ FreshRight

-----------------------------------------------------------------------------
(* What a step can do to the orders, the flows and the lists. *)

Shown == <<working, finished, reqIds.orders>>
\* Order n, new or not yet done, gets status s, and says so unless the connection is down.
Changed(n, s) ==
  /\ DOMAIN orders' = DOMAIN orders \cup {n} /\ n \in Nat /\ orders'[n].status = s
  /\ n \in DOMAIN orders => Open(n)
  /\ \A m \in DOMAIN orders : m # n => orders'[m] = orders[m] /\ Id(m) # Id(n)'
Announced(n, s) ==
  \E r \in {<<OrderReturn(n, s)>>, <<OrderReturn(n, s), Callback("trade", n, "done", FALSE)>>,
            <<Callback("trade", n, "done", FALSE), OrderReturn(n, s)>>} : rtn' = rtn \o r
OrderStep ==
  /\ \E n : \E s : Changed(n, s) /\ IF link = 0 THEN UNCHANGED rtn ELSE Announced(n, s)
  /\ UNCHANGED <<rsp, link, Shown>> /\ ~ hist'.alone /\ hist'.fresh = hist.fresh
Asked(answers) ==
  /\ link # 0 /\ (\E a \in answers : rsp' = rsp \o a)
  /\ UNCHANGED <<orders, rtn, link, Shown>> /\ hist'.fresh = hist.fresh
OtherAnswer ==
  /\ rsp # <<>> /\ rsp' = Tail(rsp) /\ Head(rsp).kind # "qryOrder"
  /\ Head(rsp).kind = "down" => rtn = <<>>
  /\ UNCHANGED <<orders, rtn, link, Shown>>
  /\ hist'.fresh = hist.fresh /\ hist'.alone = hist.alone
Still ==
  /\ UNCHANGED <<orders, rsp, rtn, link, Shown>>
  /\ hist'.fresh = hist.fresh /\ hist'.alone = hist.alone

LEMMA TakenIs ==
  ASSUME NEW r
  PROVE  Taken(link, r) <=> \E n \in DOMAIN orders : Id(n) = <<link, r>>
  BY DEF Taken, Id

\* A status that an order gets is a change.
LEMMA StatusChanged ==
  ASSUME Typed, OwnIds, NEW n \in DOMAIN orders, Open(n), NEW s,
         orders' = [orders EXCEPT ![n].status = s]
  PROVE  Changed(n, s)
<1>1. orders \in Seq(OrderT) /\ n \in Nat /\ orders[n] \in OrderT
  BY AnsweredIs DEF Typed, MarketTyped
<1>2. /\ DOMAIN orders' = DOMAIN orders /\ orders'[n] = [orders[n] EXCEPT !.status = s]
      /\ \A m \in DOMAIN orders : m # n => orders'[m] = orders[m]
  BY <1>1
<1>3. orders'[n].status = s /\ Id(n)' = Id(n)
  BY <1>1, <1>2 DEF OrderT, Id
<1>4. \A m \in DOMAIN orders : m # n => Id(m) # Id(n)'
  BY <1>3 DEF OwnIds
<1>5. QED  BY <1>1, <1>2, <1>3, <1>4 DEF Changed

LEMMA InsertChanged ==
  ASSUME Typed, NEW q, NEW r, Insert(q, r)
  PROVE  \/ UNCHANGED <<orders, rtn>>
         \/ \E n : /\ Changed(n, "accepted") /\ n \notin DOMAIN orders
                   /\ rtn' = Append(rtn, OrderReturn(n, "accepted"))
<1>1. CASE Taken(link, r)
  BY <1>1 DEF Insert, Rejected
<1>2. CASE ~ Taken(link, r)
  <2> PICK n : n = Len(orders) + 1
    OBVIOUS
  <2> PICK e : e = [session |-> link, ref |-> r, req |-> q, status |-> "accepted"]
    OBVIOUS
  <2>1. orders' = Append(orders, e) /\ rtn' = Append(rtn, OrderReturn(n, "accepted"))
    BY <1>2 DEF Insert
  <2>2. orders \in Seq(OrderT) /\ Len(orders) \in Nat /\ DOMAIN orders = 1 .. Len(orders)
    BY AnsweredIs DEF Typed, MarketTyped
  <2>3. /\ DOMAIN orders' = 1 .. n /\ orders'[n] = e
        /\ \A m \in 1 .. Len(orders) : orders'[m] = orders[m]
    BY <2>1, <2>2
  <2>4. DOMAIN orders' = DOMAIN orders \cup {n} /\ n \in Nat /\ n \notin DOMAIN orders
    BY <2>2, <2>3
  <2>5. orders'[n].status = "accepted" /\ Id(n)' = <<link, r>>
    BY <2>3 DEF Id
  <2>6. \A m \in DOMAIN orders : Id(m) # Id(n)'
    BY <1>2, <2>5, TakenIs
  <2>7. Changed(n, "accepted")
    BY <2>2, <2>3, <2>4, <2>5, <2>6 DEF Changed
  <2>8. QED  BY <2>1, <2>4, <2>7
<1>3. QED  BY <1>1, <1>2

\* A command that reaches CTP.
LEMMA SentSteps ==
  ASSUME Typed, OwnIds, NEW c \in KeptT', Sent(c), link # 0,
         UNCHANGED <<link, Shown>>, hist'.fresh = hist.fresh, hist'.alone = Alone(c)
  PROVE  \/ OrderStep \/ Still
         \/ Asked(OrderAnswers) /\ (hist'.alone => rtn = <<>>)
         \/ Asked(PositionAnswers) /\ hist'.alone = hist.alone
<1> rtn \in Seq(ReturnT)
  BY DEF Typed, MarketTyped
<1>1. ASSUME NEW n, NEW s, Changed(n, s), rtn' = Append(rtn, OrderReturn(n, s)), UNCHANGED rsp,
             c.kind # "orders"
      PROVE  OrderStep
  <2> PICK e : e = OrderReturn(n, s)
    OBVIOUS
  <2>1. rtn' = rtn \o <<e>> /\ rtn' # rtn
    BY <1>1
  <2>2. Announced(n, s)
    BY <2>1 DEF Announced
  <2>3. ~ hist'.alone
    BY <1>1, <2>1 DEF Alone
  <2>4. QED  BY <1>1, <2>2, <2>3 DEF OrderStep
<1>2. ASSUME UNCHANGED <<orders, rtn, rsp>>, c.kind # "orders"
      PROVE  Still
  <2>1. hist'.alone = hist.alone
    BY <1>2, HistIs DEF Alone
  <2>2. QED  BY <1>2, <2>1 DEF Still
<1>3. CASE c.kind = "send"
  <2>1. Insert(c.req, c.id[2]) /\ UNCHANGED rsp
    BY <1>3 DEF Sent
  <2>2. QED  BY <1>1, <1>2, <1>3, <2>1, InsertChanged
<1>4. CASE c.kind = "cancel"
  <2>1. Action(c.id) /\ UNCHANGED rsp
    BY <1>4 DEF Sent
  <2>2. CASE Named(c.id) = {}
    BY <1>2, <1>4, <2>1, <2>2 DEF Action, Rejected
  <2>3. CASE Named(c.id) # {}
    <3>1. PICK n \in Named(c.id) : /\ orders' = [orders EXCEPT ![n].status = "done"]
                                   /\ rtn' = Append(rtn, OrderReturn(n, "done"))
      BY <2>1, <2>3 DEF Action
    <3>2. n \in DOMAIN orders /\ Open(n)
      BY DEF Named
    <3>3. Changed(n, "done")
      BY <3>1, <3>2, StatusChanged
    <3>4. QED  BY <1>1, <1>4, <2>1, <3>1, <3>3
  <2>4. QED  BY <2>2, <2>3
<1>5. CASE c.kind = "orders"
  <2>1. (\E a \in OrderAnswers : rsp' = rsp \o a) /\ UNCHANGED <<orders, rtn>>
    BY <1>5 DEF Sent
  <2>2. QED  BY <1>5, <2>1 DEF Asked, Alone
<1>6. CASE c.kind = "positions"
  <2>1. (\E a \in PositionAnswers : rsp' = rsp \o a) /\ UNCHANGED <<orders, rtn>>
    BY <1>6 DEF Sent
  <2>2. hist'.alone = hist.alone
    BY <1>6, <2>1, HistIs DEF Alone
  <2>3. QED  BY <2>1, <2>2 DEF Asked
<1>7. QED  BY <1>3, <1>4, <1>5, <1>6 DEF KeptT, CommandKinds

LEMMA ListSteps ==
  ASSUME Typed, OwnIds, [Next]_vars
  PROVE  \/ Still \/ OrderStep \/ OtherAnswer
         \/ Asked(OrderAnswers) /\ (hist'.alone => rtn = <<>>)
         \/ Asked(PositionAnswers) /\ hist'.alone = hist.alone
         \/ Drop \/ Login \/ OnRtnOrder \/ OnRtnTrade \/ OnRspQryOrder
<1>1. CASE Blogic
  <2>1. UNCHANGED <<link, Shown>> /\ hist'.fresh = hist.fresh
    BY <1>1, BlogicSends DEF Shown
  <2>2. CASE UNCHANGED ctp /\ hist'.alone = hist.alone
    BY <2>1, <2>2 DEF Still, ctp
  <2>3. CASE link # 0 /\ \E c \in KeptT' : Sent(c) /\ hist'.alone = Alone(c)
    BY <2>1, <2>3, SentSteps
  <2>4. QED  BY <1>1, <2>2, <2>3, BlogicSends
<1>2. CASE Handler
  <2>1. hist' = hist \/ hist' = [hist EXCEPT !.disturbed = @ \/ \E u \in Threads : Running(u)]
    BY <1>2 DEF Handler, CountRef, ReadRef, Answer
  <2>2. hist'.alone = hist.alone /\ hist'.fresh = hist.fresh
    BY <2>1, HistIs DEF HistT
  <2>3. UNCHANGED <<ctp, working, finished, reqIds>>
    BY <1>2 DEF Handler, CountRef, ReadRef, Answer, spi, forms
  <2>4. QED  BY <2>2, <2>3 DEF Still, Shown, ctp
<1>3. CASE Request \/ UNCHANGED vars
  BY <1>3 DEF Request, Cancel, QueryOrders, QueryPosition, QueryPositionButton, SendOrderButton,
         CloseAllButton, vars, ctp, spi, forms, Still, Shown
<1>4. CASE Assign \/ Fill
  <2>1. hist' = [hist EXCEPT !.alone = FALSE] /\ UNCHANGED <<rsp, link, spi, forms>>
    BY <1>4 DEF Assign, Fill
  <2>2. UNCHANGED <<rsp, link, Shown>> /\ ~ hist'.alone /\ hist'.fresh = hist.fresh
    BY <2>1, HistIs DEF HistT, Shown, spi, forms
  <2>3. PICK n \in DOMAIN orders, s \in {"working", "done"} :
          /\ Open(n) /\ orders' = [orders EXCEPT ![n].status = s]
          /\ IF link = 0 THEN rtn' = rtn ELSE Announced(n, s)
    <3>1. CASE Assign
      <4>1. PICK n \in DOMAIN orders :
              /\ orders[n].status = "accepted" /\ orders' = [orders EXCEPT ![n].status = "working"]
              /\ rtn' = IF link = 0 THEN rtn ELSE Append(rtn, OrderReturn(n, "working"))
        BY <3>1 DEF Assign
      <4> PICK e : e = OrderReturn(n, "working")
        OBVIOUS
      <4>2. rtn \in Seq(ReturnT)
        BY DEF Typed, MarketTyped
      <4>3. link # 0 => rtn' = rtn \o <<e>>
        BY <4>1, <4>2
      <4>4. link # 0 => Announced(n, "working")
        BY <4>3 DEF Announced
      <4>5. QED  BY <4>1, <4>4 DEF Open
    <3>2. CASE Fill
      <4> DEFINE trade(n) == Callback("trade", n, "done", FALSE)
      <4>1. PICK n \in DOMAIN orders :
              /\ orders[n].status = "working" /\ orders' = [orders EXCEPT ![n].status = "done"]
              /\ rtn' \in IF link = 0 THEN {rtn}
                            ELSE {rtn \o <<OrderReturn(n, "done"), trade(n)>>,
                                  rtn \o <<trade(n), OrderReturn(n, "done")>>}
        BY <3>2 DEF Fill
      <4>2. link # 0 => Announced(n, "done")
        BY <4>1 DEF Announced
      <4>3. QED  BY <4>1, <4>2 DEF Open
    <3>3. QED  BY <1>4, <3>1, <3>2
  <2>4. Changed(n, s)
    BY <2>3, StatusChanged
  <2>5. QED  BY <2>2, <2>3, <2>4 DEF OrderStep
<1>5. CASE OnRspQryInvestorPosition \/ OnRspUserLogin \/ OnFrontDisconnected
  <2>1. /\ rsp # <<>> /\ rsp' = Tail(rsp) /\ Head(rsp).kind # "qryOrder"
        /\ Head(rsp).kind = "down" => rtn = <<>>
        /\ UNCHANGED <<orders, rtn, link, working, finished>>
    BY <1>5 DEF OnRspQryInvestorPosition, OnRspUserLogin, OnFrontDisconnected, IsAnswer, forms
  <2>2. reqIds'.orders = reqIds.orders
    <3>1. reqIds' = reqIds \/ \E x : reqIds' = [reqIds EXCEPT !.positions = x]
      BY <1>5 DEF OnRspQryInvestorPosition, OnRspUserLogin, OnFrontDisconnected, spi
    <3>2. QED  BY <3>1 DEF Typed, SpiTyped
  <2>3. hist'.alone = hist.alone /\ hist'.fresh = hist.fresh
    <3>1. hist' = hist \/ (\E x : hist' = [hist EXCEPT !.cut = x])
          \/ \E x : hist' = [hist EXCEPT !.listed = {}, !.disturbed = x]
      BY <1>5 DEF OnRspQryInvestorPosition, OnRspUserLogin, OnFrontDisconnected
    <3>2. QED  BY <3>1, HistIs DEF HistT
  <2>4. QED  BY <2>1, <2>2, <2>3 DEF OtherAnswer, Shown
<1>6. QED  BY <1>1, <1>2, <1>3, <1>4, <1>5 DEF Next, Ctp, Spi

\* A step leaves the orders alone, or changes one.
Changes == UNCHANGED orders \/ \E n : \E s : Changed(n, s)

LEMMA OrdersStep ==
  ASSUME Typed, OwnIds, [Next]_vars
  PROVE  Changes
  BY ListSteps DEF Changes, Still, OrderStep, OtherAnswer, Asked, Drop, Login, OnRtnOrder, OnRtnTrade,
     OnRspQryOrder

LEMMA DoneKept ==
  ASSUME Typed, Stay, Changes, NEW m \in DOMAIN orders
  PROVE  /\ m \in DOMAIN orders' /\ Id(m)' = Id(m)
         /\ ~ Open(m) => ~ Open(m)'
<1>1. m \in DOMAIN orders' /\ Id(m)' = Id(m)
  BY StayIds
<1>2. CASE UNCHANGED orders
  BY <1>1, <1>2 DEF Open
<1>3. ASSUME NEW n, NEW s, Changed(n, s)
      PROVE  ~ Open(m) => ~ Open(m)'
  BY <1>3 DEF Changed, Open
<1>4. QED  BY <1>1, <1>2, <1>3 DEF Changes

LEMMA OwnIdsNext ==
  ASSUME Typed, OwnIds, Stay, Changes
  PROVE  OwnIds'
<1>1. CASE UNCHANGED orders
  BY <1>1 DEF OwnIds, Id
<1>2. ASSUME NEW n, NEW s, Changed(n, s), NEW a \in DOMAIN orders', NEW b \in DOMAIN orders',
             Id(a)' = Id(b)'
      PROVE  a = b
  <2>1. \A m \in DOMAIN orders : Id(m)' = Id(m) /\ (m # n => Id(m) # Id(n)')
    BY <1>2, StayIds DEF Changed
  <2>2. a = n \/ a \in DOMAIN orders
    BY <1>2 DEF Changed
  <2>3. b = n \/ b \in DOMAIN orders
    BY <1>2 DEF Changed
  <2>4. QED  BY <1>2, <2>1, <2>2, <2>3 DEF OwnIds
<1>3. QED  BY <1>1, <1>2 DEF Changes, OwnIds

\* A flow q with e behind it, and a trade about it before or after.
Behind(q, s, e) ==
  /\ \A i \in DOMAIN q : i \in DOMAIN s /\ s[i] = q[i]
  /\ \E k \in DOMAIN s :
       /\ k \in Nat /\ k > Len(q) /\ s[k] = e
       /\ \A i \in DOMAIN s : i = k \/ i \in DOMAIN q \/ s[i].kind = "trade"

LEMMA BehindIs ==
  ASSUME NEW S, NEW q \in Seq(S), NEW e \in S, NEW t \in S, t.kind = "trade",
         NEW r \in {<<e>>, <<e, t>>, <<t, e>>}
  PROVE  Behind(q, q \o r, e)
<1>1. r \in Seq(S)
  BY SingleIs, PairIs
<1>2. PICK s : s = q \o r
  OBVIOUS
<1>3. /\ Len(q) \in Nat /\ Len(r) \in Nat
      /\ DOMAIN q = 1 .. Len(q) /\ DOMAIN s = 1 .. (Len(q) + Len(r))
      /\ \A i \in 1 .. Len(q) : s[i] = q[i]
      /\ \A j \in 1 .. Len(r) : s[Len(q) + j] = r[j]
  BY <1>1, <1>2, ConcatAt
<1>4. PICK k \in 1 .. Len(r) : r[k] = e /\ \A j \in 1 .. Len(r) : j = k \/ r[j].kind = "trade"
  <2>1. CASE r = <<e>>
    <3>1. Len(r) = 1 /\ r[1] = e
      BY <2>1
    <3>2. QED  BY <3>1
  <2>2. CASE r = <<e, t>>
    <3>1. Len(r) = 2 /\ r[1] = e /\ r[2] = t
      BY <2>2
    <3>2. QED  BY <3>1
  <2>3. CASE r = <<t, e>>
    <3>1. Len(r) = 2 /\ r[1] = t /\ r[2] = e
      BY <2>3
    <3>2. QED  BY <3>1
  <2>4. QED  BY <2>1, <2>2, <2>3
<1>5. \A i \in DOMAIN q : i \in DOMAIN s /\ s[i] = q[i]
  BY <1>3
<1>6. Len(q) + k \in DOMAIN s /\ Len(q) + k \in Nat /\ Len(q) + k > Len(q) /\ s[Len(q) + k] = e
  BY <1>3, <1>4
<1>7. ASSUME NEW i \in DOMAIN s, i \notin DOMAIN q, i # Len(q) + k
      PROVE  s[i].kind = "trade"
  <2>1. i - Len(q) \in 1 .. Len(r) /\ i - Len(q) # k /\ Len(q) + (i - Len(q)) = i
    BY <1>3, <1>4, <1>7
  <2>2. s[i] = r[i - Len(q)]
    BY <1>3, <2>1
  <2>3. QED  BY <1>4, <2>1, <2>2
<1>8. QED  BY <1>2, <1>5, <1>6, <1>7 DEF Behind

\* What is announced comes behind the returns on their way.
LEMMA AnnouncedHas ==
  ASSUME Typed, NEW n, NEW s, Announced(n, s)
  PROVE  /\ Len(rtn) \in Nat /\ DOMAIN rtn = 1 .. Len(rtn)
         /\ Behind(rtn, rtn', OrderReturn(n, s))
<1> DEFINE e == OrderReturn(n, s)
           t == Callback("trade", n, "done", FALSE)
           S == ReturnT \cup {e, t}
<1>1. rtn \in Seq(ReturnT) /\ t.kind = "trade"
  BY DEF Typed, MarketTyped, Callback
<1>2. PICK r \in {<<e>>, <<e, t>>, <<t, e>>} : rtn' = rtn \o r
  BY DEF Announced
<1>3. ReturnT \subseteq S /\ e \in S /\ t \in S
  OBVIOUS
<1> HIDE DEF e, t, S
<1>4. rtn \in Seq(S)
  BY <1>1, <1>3, Grows
<1>5. Behind(rtn, rtn \o r, e)
  BY <1>1, <1>2, <1>3, <1>4, BehindIs
<1>6. Behind(rtn, rtn', e)
  BY <1>2, <1>5
<1>7. QED  BY <1>1, <1>6, SeqIs DEF e

\* A callback about an order names it.
LEMMA SaysNamed ==
  ASSUME Typed
  PROVE  /\ \A i \in DOMAIN rtn : rtn[i].n \in DOMAIN orders
         /\ \A i \in DOMAIN rsp : rsp[i].kind = "qryOrder" /\ rsp[i].n # 0 => rsp[i].n \in DOMAIN orders
         /\ \A i \in DOMAIN rsp : rsp[i].kind # "order"
<1>1. rtn \in Seq(ReturnT) /\ rsp \in Seq(AnswerT)
  BY DEF Typed, MarketTyped
<1>2. ASSUME NEW i \in DOMAIN rtn
      PROVE  rtn[i].n \in DOMAIN orders
  <2>1. rtn[i] \in ReturnT
    BY <1>1, ElementIs
  <2>2. QED  BY <2>1 DEF ReturnT
<1>3. ASSUME NEW i \in DOMAIN rsp
      PROVE  /\ rsp[i].kind = "qryOrder" /\ rsp[i].n # 0 => rsp[i].n \in DOMAIN orders
             /\ rsp[i].kind # "order"
  <2>1. rsp[i] \in AnswerT
    BY <1>1, ElementIs
  <2>2. QED  BY <2>1 DEF AnswerT, Names, AnswerKinds
<1>4. QED  BY <1>2, <1>3

\* The records of an answer.
LEMMA OrderAnswerIs ==
  ASSUME Typed, NEW a \in OrderAnswers
  PROVE  \/ Len(a) = 1 /\ DOMAIN a = {1} /\ a[1].kind = "qryOrder" /\ a[1].n = 0
         \/ /\ Len(a) = Len(orders) /\ DOMAIN a = DOMAIN orders /\ Len(orders) # 0
            /\ \A n \in DOMAIN orders : a[n] = Record(n)
<1>1. Len(orders) \in Nat /\ DOMAIN orders = 1 .. Len(orders)
  BY AnsweredIs
<1>2. CASE a = NoRecord("qryOrder")
  BY <1>2 DEF NoRecord, Callback
<1>3. CASE a = [n \in DOMAIN orders |-> Callback("qryOrder", n, orders[n].status, n = Len(orders))]
           /\ a # <<>>
  <2>1. DOMAIN a = 1 .. Len(orders) /\ \A n \in DOMAIN orders : a[n] = Record(n)
    BY <1>1, <1>3 DEF Record
  <2>2. a \in Seq(AnswerT)
    BY AnswersType
  <2>3. Len(a) = Len(orders)
    BY <1>1, <2>1, <2>2
  <2>4. Len(orders) # 0
    BY <1>3, <2>2, <2>3
  <2>5. QED  BY <1>1, <2>1, <2>3, <2>4
<1>4. QED  BY <1>2, <1>3 DEF OrderAnswers

LEMMA PositionAnswerIs ==
  ASSUME NEW a \in PositionAnswers, NEW j \in DOMAIN a
  PROVE  a[j].kind = "qryPosition"
<1>1. CASE a = NoRecord("qryPosition")
  <2>1. DOMAIN a = {1} /\ a[1].kind = "qryPosition"
    BY <1>1 DEF NoRecord, Callback
  <2>2. QED  BY <2>1
<1>2. CASE a = [p \in 1 .. Positions |-> Callback("qryPosition", p, "accepted", p = Positions)]
  BY <1>2 DEF Callback
<1>3. QED  BY <1>1, <1>2 DEF PositionAnswers

LEMMA RspHas ==
  ASSUME Typed, OwnIds, [Next]_vars, NEW i \in DOMAIN rsp', rsp'[i].kind = "qryOrder", rsp'[i].n # 0
  PROVE  (\E j \in DOMAIN rsp : rsp'[i] = rsp[j])
         \/ (UNCHANGED orders /\ \E n \in DOMAIN orders : rsp'[i] = Record(n))
<1>1. rsp \in Seq(AnswerT)
  BY DEF Typed, MarketTyped
<1>2. CASE UNCHANGED rsp
  BY <1>2
<1>3. CASE Asked(OrderAnswers)
  <2>1. PICK a \in OrderAnswers : rsp' = rsp \o a
    BY <1>3 DEF Asked
  <2>2. a \in Seq(AnswerT)
    BY AnswersType
  <2>3. (i \in DOMAIN rsp /\ rsp'[i] = rsp[i]) \/ \E j \in DOMAIN a : rsp'[i] = a[j]
    BY <1>1, <2>1, <2>2, ConcatHas
  <2>4. \A j \in DOMAIN a : a[j].n = 0 \/ (j \in DOMAIN orders /\ a[j] = Record(j))
    BY OrderAnswerIs
  <2>5. QED  BY <1>3, <2>3, <2>4 DEF Asked
<1>4. CASE Asked(PositionAnswers)
  <2>1. PICK a \in PositionAnswers : rsp' = rsp \o a
    BY <1>4 DEF Asked
  <2>2. a \in Seq(AnswerT)
    BY AnswersType
  <2>3. (i \in DOMAIN rsp /\ rsp'[i] = rsp[i]) \/ \E j \in DOMAIN a : rsp'[i] = a[j]
    BY <1>1, <2>1, <2>2, ConcatHas
  <2>4. \A j \in DOMAIN a : a[j].kind = "qryPosition"
    BY PositionAnswerIs
  <2>5. QED  BY <2>3, <2>4
<1>5. CASE Drop
  <2>1. PICK m \in 0 .. Len(rsp) :
          /\ DOMAIN rsp' = 1 .. (m + 1) /\ rsp'[m + 1].kind = "down"
          /\ \A j \in 1 .. m : rsp'[j] = rsp[j] /\ j \in DOMAIN rsp
    BY <1>5, BreakIs
  <2>2. m \in Nat
    BY <1>1
  <2>3. i \in 1 .. m
    BY <2>1, <2>2
  <2>4. QED  BY <2>1, <2>3
<1>6. CASE Login
  <2>1. rsp' = <<Callback("login", link', "accepted", TRUE)>>
    BY <1>6 DEF Login
  <2>2. QED  BY <2>1 DEF Callback
<1>7. CASE rsp # <<>> /\ rsp' = Tail(rsp)
  BY <1>1, <1>7, TailFrom
<1>8. QED  BY <1>2, <1>3, <1>4, <1>5, <1>6, <1>7, ListSteps
       DEF Still, OrderStep, OtherAnswer, OnRtnOrder, OnRtnTrade, OnRspQryOrder, IsAnswer

\* What of the returns on their way is older than a step.
LEMMA RtnHas ==
  ASSUME Typed, OwnIds, [Next]_vars, NEW i \in DOMAIN rtn', rtn'[i].kind = "order"
  PROVE  (\E j \in DOMAIN rtn : rtn'[i] = rtn[j])
         \/ \E n : \E s : Changed(n, s) /\ rtn'[i] = OrderReturn(n, s)
<1>1. rtn \in Seq(ReturnT)
  BY DEF Typed, MarketTyped
<1>2. CASE UNCHANGED rtn
  BY <1>2
<1>3. ASSUME NEW n, NEW s, Changed(n, s), Announced(n, s)
      PROVE  (\E j \in DOMAIN rtn : rtn'[i] = rtn[j]) \/ rtn'[i] = OrderReturn(n, s)
  BY <1>3, AnnouncedHas DEF Behind
<1>4. CASE OrderStep
  BY <1>2, <1>3, <1>4 DEF OrderStep
<1>5. CASE Drop
  <2>1. PICK j \in 0 .. Len(rtn) : rtn' = SubSeq(rtn, 1, j)
    BY <1>5 DEF Drop
  <2>2. i \in DOMAIN rtn /\ rtn'[i] = rtn[i]
    BY <1>1, <2>1, CutHas
  <2>3. QED  BY <2>2
<1>6. CASE rtn # <<>> /\ rtn' = Tail(rtn)
  BY <1>1, <1>6, TailFrom
<1>7. QED  BY <1>2, <1>4, <1>5, <1>6, ListSteps
       DEF Still, Asked, OtherAnswer, Login, OnRtnOrder, OnRtnTrade, OnRspQryOrder, IsReturn

LEMMA DoneStaysNext ==
  ASSUME Typed, OwnIds, DoneStays, [Next]_vars
  PROVE  DoneStays'
<1>1. Stay /\ Changes
  BY TypeNext, OrdersStep
<1>2. ASSUME NEW i \in DOMAIN rtn', SaysDone(rtn'[i])
      PROVE  orders'[rtn'[i].n].status = "done"
  <2>1. Typed'
    BY TypeNext
  <2>2. rtn'[i].kind = "order"
    <3>1. rtn' \in Seq(ReturnT')
      BY <2>1 DEF Typed, MarketTyped
    <3>2. rtn'[i] \in ReturnT'
      BY <3>1, ElementIs
    <3>3. QED  BY <1>2, <3>2 DEF ReturnT, SaysDone
  <2>3. ASSUME NEW j \in DOMAIN rtn, rtn'[i] = rtn[j]
        PROVE  orders'[rtn'[i].n].status = "done"
    <3>1. rtn[j].n \in DOMAIN orders /\ ~ Open(rtn[j].n)
      BY <1>2, <2>3, SaysNamed DEF DoneStays
    <3>2. QED  BY <1>1, <2>3, <3>1, DoneKept DEF Open
  <2>4. ASSUME NEW n, NEW s, Changed(n, s), rtn'[i] = OrderReturn(n, s)
        PROVE  orders'[rtn'[i].n].status = "done"
    BY <1>2, <2>4 DEF OrderReturn, Callback, SaysDone, Changed, Open
  <2>5. QED  BY <2>2, <2>3, <2>4, RtnHas
<1>3. ASSUME NEW i \in DOMAIN rsp', SaysDone(rsp'[i])
      PROVE  orders'[rsp'[i].n].status = "done"
  <2>1. Typed'
    BY TypeNext
  <2>2. rsp'[i].kind = "qryOrder" /\ rsp'[i].n # 0
    <3>1. rsp' \in Seq(AnswerT')
      BY <2>1 DEF Typed, MarketTyped
    <3>2. rsp'[i] \in AnswerT'
      BY <3>1, ElementIs
    <3>3. QED  BY <1>3, <3>2 DEF AnswerT, AnswerKinds, SaysDone
  <2>3. ASSUME NEW j \in DOMAIN rsp, rsp'[i] = rsp[j]
        PROVE  orders'[rsp'[i].n].status = "done"
    <3>1. rsp[j].n \in DOMAIN orders /\ ~ Open(rsp[j].n)
      BY <1>3, <2>2, <2>3, SaysNamed DEF DoneStays
    <3>2. QED  BY <1>1, <2>3, <3>1, DoneKept DEF Open
  <2>4. ASSUME UNCHANGED orders, NEW n \in DOMAIN orders, rsp'[i] = Record(n)
        PROVE  orders'[rsp'[i].n].status = "done"
    BY <1>3, <2>4 DEF Record, Callback, SaysDone, Open
  <2>5. QED  BY <2>2, <2>3, <2>4, RspHas
<1>4. QED  BY <1>2, <1>3 DEF DoneStays, SaysDone, Open

\* The forms are told that order n has a status, when their lists are w and f.
Told(n, status, w, f) ==
  /\ UNCHANGED orders /\ n \in DOMAIN orders /\ (status = "done" => ~ Open(n))
  /\ w \subseteq working /\ f \subseteq finished
  /\ working' = Listed(status, w, Id(n)) /\ finished' = Ended(status, f, Id(n))

LEMMA ToldNamed ==
  ASSUME ListsNamed, NEW n, NEW status, NEW w, NEW f, Told(n, status, w, f)
  PROVE  ListsNamed'
<1>1. working' \subseteq working \cup {Id(n)}
  BY DEF Told, Listed
<1>2. finished' \subseteq IF status = "done" THEN finished \cup {Id(n)} ELSE finished
  BY DEF Told, Ended
<1>3. \A m : Id(m)' = Id(m) /\ (Open(m)' <=> Open(m))
  BY DEF Told, Id, Open
<1>4. DOMAIN orders' = DOMAIN orders /\ n \in DOMAIN orders /\ (status = "done" => ~ Open(n))
  BY DEF Told
<1>5. QED  BY <1>1, <1>2, <1>3, <1>4 DEF ListsNamed

LEMMA ToldRight ==
  ASSUME OwnIds, ListsNamed, NEW n, NEW status, NEW w, NEW f, Told(n, status, w, f),
         status = orders[n].status
  PROVE  RightAt(n)'
<1>1. Id(n)' = Id(n) /\ (Open(n)' <=> Open(n)) /\ (Open(n) <=> status # "done")
  BY DEF Told, Id, Open
<1>2. CASE status = "done"
  BY <1>1, <1>2 DEF RightAt, Told, Listed, Ended
<1>3. CASE status # "done"
  <2>1. Id(n) \notin f
    BY <1>1, <1>3 DEF Told, ListsNamed, OwnIds
  <2>2. QED  BY <1>1, <1>3, <2>1 DEF RightAt, Told, Listed, Ended
<1>4. QED  BY <1>2, <1>3

LEMMA ToldOther ==
  ASSUME OwnIds, NEW n, NEW status, Told(n, status, working, finished),
         NEW m \in DOMAIN orders, m # n, RightAt(m)
  PROVE  RightAt(m)'
<1>1. Id(m)' = Id(m) /\ (Open(m)' <=> Open(m)) /\ Id(m) # Id(n)
  BY DEF Told, Id, Open, OwnIds
<1>2. /\ Id(m) \in working' <=> Id(m) \in working
      /\ Id(m) \in finished' <=> Id(m) \in finished
  BY <1>1 DEF Told, Listed, Ended
<1>3. QED  BY <1>1, <1>2 DEF RightAt

LEMMA ReturnTells ==
  ASSUME Typed, DoneStays, OnRtnOrder
  PROVE  /\ rtn \in Seq(ReturnT) /\ rtn # <<>> /\ rtn' = Tail(rtn) /\ 1 \in DOMAIN rtn
         /\ rtn[1].kind = "order"
         /\ Told(rtn[1].n, rtn[1].status, working, finished)
         /\ UNCHANGED <<orders, rsp, link, reqIds, hist>>
<1>1. /\ rtn \in Seq(ReturnT) /\ rtn # <<>> /\ rtn' = Tail(rtn) /\ Head(rtn).kind = "order"
      /\ UNCHANGED <<orders, rsp, link, reqIds, hist>>
  BY DEF Typed, MarketTyped, OnRtnOrder, IsReturn
<1>2. 1 \in DOMAIN rtn /\ Head(rtn) = rtn[1] /\ Head(rtn) \in ReturnT
  BY <1>1, TailIs
<1>3. working' = Listed(rtn[1].status, working, Id(rtn[1].n))
      /\ finished' = Ended(rtn[1].status, finished, Id(rtn[1].n))
  BY <1>2 DEF OnRtnOrder
<1>4. rtn[1].n \in DOMAIN orders /\ rtn[1].n # 0
  <2>1. rtn[1].n \in DOMAIN orders
    BY <1>2 DEF ReturnT
  <2>2. QED  BY <2>1, AnsweredIs
<1>5. rtn[1].status = "done" => ~ Open(rtn[1].n)
  BY <1>1, <1>2, <1>4 DEF DoneStays, SaysDone
<1>6. QED  BY <1>1, <1>2, <1>3, <1>4, <1>5 DEF Told

LEMMA AnswerTells ==
  ASSUME Typed, DoneStays, OnRspQryOrder
  PROVE  /\ rsp \in Seq(AnswerT) /\ rsp # <<>> /\ rsp' = Tail(rsp) /\ 1 \in DOMAIN rsp
         /\ rsp[1].kind = "qryOrder" /\ UNCHANGED <<orders, rtn, link>>
         /\ reqIds'.orders = ((reqIds.orders \/ rsp[1].n # 0) /\ ~ rsp[1].last)
         /\ rsp[1].n = 0 => UNCHANGED <<working, finished, hist>>
         /\ rsp[1].n # 0 =>
              /\ Told(rsp[1].n, rsp[1].status, BegunList(working), BegunList(finished))
              /\ hist'.alone = hist.alone
              /\ hist'.fresh = (rsp[1].last /\ hist.alone /\ FinalAt(rsp, 1))
<1>1. /\ rsp \in Seq(AnswerT) /\ rsp # <<>> /\ rsp' = Tail(rsp) /\ Head(rsp).kind = "qryOrder"
      /\ UNCHANGED <<orders, rtn, link>>
  BY DEF Typed, MarketTyped, OnRspQryOrder, IsAnswer
<1>2. 1 \in DOMAIN rsp /\ Head(rsp) = rsp[1] /\ Head(rsp) \in AnswerT
  BY <1>1, TailIs
<1>3. reqIds'.orders = ((reqIds.orders \/ rsp[1].n # 0) /\ ~ rsp[1].last)
  <2>1. reqIds' = [reqIds EXCEPT !.orders = (@ \/ rsp[1].n # 0) /\ ~ rsp[1].last]
    BY <1>2 DEF OnRspQryOrder
  <2>2. QED  BY <2>1 DEF Typed, SpiTyped
<1>4. rsp[1].n = 0 => UNCHANGED <<working, finished, hist>>
  BY <1>2 DEF OnRspQryOrder
<1>5. ASSUME rsp[1].n # 0
      PROVE  /\ Told(rsp[1].n, rsp[1].status, BegunList(working), BegunList(finished))
             /\ hist'.alone = hist.alone
             /\ hist'.fresh = (rsp[1].last /\ hist.alone /\ FinalAt(rsp, 1))
  <2>1. rsp[1].n \in DOMAIN orders
    BY <1>1, <1>2, <1>5 DEF AnswerT, Names
  <2>2. rsp[1].status = "done" => ~ Open(rsp[1].n)
    BY <1>1, <1>2, <1>5 DEF DoneStays, SaysDone
  <2>3. BegunList(working) \subseteq working /\ BegunList(finished) \subseteq finished
    BY DEF BegunList
  <2>4. /\ working' = Listed(rsp[1].status, BegunList(working), Id(rsp[1].n))
        /\ finished' = Ended(rsp[1].status, BegunList(finished), Id(rsp[1].n))
    BY <1>2, <1>5 DEF OnRspQryOrder
  <2>5. Told(rsp[1].n, rsp[1].status, BegunList(working), BegunList(finished))
    BY <1>1, <2>1, <2>2, <2>3, <2>4 DEF Told
  <2> DEFINE fresh == rsp[1].last /\ hist.alone /\ ~ \E i \in 2 .. Len(rsp) : rsp[i].kind = "qryOrder"
             listed == IF HasSysId(rsp[1].status) /\ session # orders[rsp[1].n].session
                         THEN hist.listed \cup {rsp[1].n} ELSE hist.listed
  <2>6. hist' = [hist EXCEPT !.fresh = fresh, !.listed = listed]
    BY <1>2, <1>5 DEF OnRspQryOrder
  <2> HIDE DEF fresh, listed
  <2>7. hist'.alone = hist.alone /\ hist'.fresh = fresh
    BY <2>6, HistIs DEF HistT
  <2>8. FinalAt(rsp, 1) <=> ~ \E i \in 2 .. Len(rsp) : rsp[i].kind = "qryOrder"
    <3>1. DOMAIN rsp = 1 .. Len(rsp) /\ Len(rsp) \in Nat
      BY <1>1
    <3>2. \A i : i \in 2 .. Len(rsp) <=> i \in DOMAIN rsp /\ i > 1
      BY <3>1
    <3>3. QED  BY <1>1, <1>2, <3>1, <3>2 DEF FinalAt
  <2>9. fresh = (rsp[1].last /\ hist.alone /\ FinalAt(rsp, 1))
    <3>1. FinalAt(rsp, 1) \in BOOLEAN
      BY DEF FinalAt
    <3>2. QED  BY <2>8, <3>1 DEF fresh
  <2>10. QED  BY <2>5, <2>7, <2>9
<1>6. QED  BY <1>1, <1>2, <1>3, <1>4, <1>5

\* Only callbacks of the CTP thread about orders change the lists.
LEMMA ListsSteps ==
  ASSUME Typed, OwnIds, [Next]_vars
  PROVE  UNCHANGED Shown \/ OnRtnOrder \/ OnRspQryOrder
  BY ListSteps DEF Still, OrderStep, OtherAnswer, Asked, Drop, Login, OnRtnTrade, Shown, spi, forms

LEMMA ListsNamedNext ==
  ASSUME Typed, ListsFounded, [Next]_vars
  PROVE  ListsNamed'
<1>1. Stay /\ Changes
  BY TypeNext, OrdersStep DEF ListsFounded
<1>2. CASE UNCHANGED Shown
  <2>1. UNCHANGED <<working, finished>>
    BY <1>2 DEF Shown
  <2>2. \A m \in DOMAIN orders : m \in DOMAIN orders' /\ Id(m)' = Id(m) /\ (~ Open(m) => ~ Open(m)')
    BY <1>1, DoneKept
  <2>3. QED  BY <2>1, <2>2 DEF ListsNamed, ListsFounded
<1>3. CASE OnRtnOrder
  BY <1>3, ReturnTells, ToldNamed DEF ListsFounded
<1>4. CASE OnRspQryOrder
  <2>1. CASE rsp[1].n = 0
    <3>1. UNCHANGED <<orders, working, finished>>
      BY <1>4, <2>1, AnswerTells DEF ListsFounded
    <3>2. QED  BY <3>1 DEF ListsNamed, ListsFounded, Id, Open
  <2>2. CASE rsp[1].n # 0
    BY <1>4, <2>2, AnswerTells, ToldNamed DEF ListsFounded
  <2>3. QED  BY <2>1, <2>2
<1>5. QED  BY <1>2, <1>3, <1>4, ListsSteps DEF ListsFounded

LEMMA ListsFoundedNext ==
  ASSUME Typed, ListsFounded, [Next]_vars
  PROVE  ListsFounded'
<1>1. Stay /\ Changes
  BY TypeNext, OrdersStep DEF ListsFounded
<1>2. QED  BY <1>1, OwnIdsNext, DoneStaysNext, ListsNamedNext DEF ListsFounded

LEMMA TailAt ==
  ASSUME NEW S, NEW q \in Seq(S), q # <<>>
  PROVE  /\ Len(q) \in Nat \ {0} /\ DOMAIN q = 1 .. Len(q) /\ DOMAIN Tail(q) = 1 .. (Len(q) - 1)
         /\ \A i \in 1 .. (Len(q) - 1) : Tail(q)[i] = q[i + 1]
<1>1. Tail(q) \in Seq(S) /\ Len(Tail(q)) = Len(q) - 1 /\ Len(q) \in Nat \ {0}
  BY TailIs
<1>2. QED  BY <1>1, SeqIs, TailIs

LEMMA ReturnsLatestNext ==
  ASSUME Typed, ListsFounded, Quiet, ReturnsLatest, [Next]_vars
  PROVE  ReturnsLatest'
<1> DEFINE Latest(q, o, i) == \A n \in DOMAIN o : ReturnOf(q[i], n) =>
              q[i].status = o[n].status \/ \E j \in DOMAIN q : j > i /\ ReturnOf(q[j], n)
<1> SUFFICES ASSUME link' # 0
             PROVE  \A i \in DOMAIN rtn' : Latest(rtn', orders', i)
  BY DEF ReturnsLatest, ReturnOf
<1>1. ASSUME link # 0
      PROVE  \A i \in DOMAIN rtn : Latest(rtn, orders, i)
  BY <1>1 DEF ReturnsLatest
<1>2. CASE UNCHANGED <<orders, rtn, link>>
  BY <1>1, <1>2
<1>3. CASE Login
  <2>1. rtn = <<>>
    <3>1. link = 0 /\ rsp = <<>>
      BY <1>3 DEF Login
    <3>2. DOMAIN rsp = {}
      BY <3>1
    <3>3. QED  BY <3>1, <3>2 DEF Quiet
  <2>2. DOMAIN rtn' = {}
    BY <1>3, <2>1 DEF Login
  <2>3. QED  BY <2>2
<1>4. CASE OrderStep
  <2>1. link # 0
    BY <1>4 DEF OrderStep
  <2>2. PICK n, s : Changed(n, s) /\ Announced(n, s)
    BY <1>4, <2>1 DEF OrderStep
  <2>3. Len(rtn) \in Nat /\ DOMAIN rtn = 1 .. Len(rtn) /\ Behind(rtn, rtn', OrderReturn(n, s))
    BY <2>2, AnnouncedHas
  <2>4. PICK k \in DOMAIN rtn' :
          /\ k \in Nat /\ k > Len(rtn) /\ rtn'[k] = OrderReturn(n, s)
          /\ \A i \in DOMAIN rtn' : i = k \/ i \in DOMAIN rtn \/ rtn'[i].kind = "trade"
    BY <2>3 DEF Behind
  <2>5. \A i \in DOMAIN rtn : i \in DOMAIN rtn' /\ rtn'[i] = rtn[i]
    BY <2>3 DEF Behind
  <2>6. ReturnOf(rtn'[k], n) /\ rtn'[k].status = s /\ orders'[n].status = s
    BY <2>2, <2>4 DEF ReturnOf, OrderReturn, Callback, Changed
  <2>7. ASSUME NEW i \in DOMAIN rtn', NEW m \in DOMAIN orders', ReturnOf(rtn'[i], m)
        PROVE  rtn'[i].status = orders'[m].status
               \/ \E j \in DOMAIN rtn' : j > i /\ ReturnOf(rtn'[j], m)
    <3>1. CASE i = k
      <4>1. m = n
        BY <2>6, <2>7, <3>1 DEF ReturnOf
      <4>2. QED  BY <2>6, <3>1, <4>1
    <3>2. CASE i \in DOMAIN rtn /\ m = n
      <4>1. k > i
        BY <2>3, <2>4, <3>2
      <4>2. QED  BY <2>6, <3>2, <4>1
    <3>3. CASE i \in DOMAIN rtn /\ m # n
      <4>1. rtn'[i] = rtn[i] /\ m \in DOMAIN orders /\ orders'[m] = orders[m]
        BY <2>2, <2>5, <3>3 DEF Changed
      <4>2. rtn[i].status = orders[m].status \/ \E j \in DOMAIN rtn : j > i /\ ReturnOf(rtn[j], m)
        BY <1>1, <2>1, <2>7, <3>3, <4>1
      <4>3. QED  BY <2>5, <4>1, <4>2
    <3>4. QED  BY <2>4, <2>7, <3>1, <3>2, <3>3 DEF ReturnOf
  <2>8. QED  BY <2>7
<1>5. CASE OnRtnOrder \/ OnRtnTrade
  <2>1. rtn \in Seq(ReturnT) /\ rtn # <<>> /\ rtn' = Tail(rtn) /\ UNCHANGED <<orders, link>>
    BY <1>5 DEF OnRtnOrder, OnRtnTrade, IsReturn, Typed, MarketTyped
  <2>2. /\ Len(rtn) \in Nat \ {0} /\ DOMAIN rtn = 1 .. Len(rtn) /\ DOMAIN rtn' = 1 .. (Len(rtn) - 1)
        /\ \A i \in 1 .. (Len(rtn) - 1) : rtn'[i] = rtn[i + 1]
    BY <2>1, TailAt
  <2>3. ASSUME NEW i \in DOMAIN rtn', NEW m \in DOMAIN orders', ReturnOf(rtn'[i], m)
        PROVE  rtn'[i].status = orders'[m].status
               \/ \E j \in DOMAIN rtn' : j > i /\ ReturnOf(rtn'[j], m)
    <3>1. i + 1 \in DOMAIN rtn /\ rtn'[i] = rtn[i + 1] /\ i \in Nat
      BY <2>2, <2>3
    <3>2. rtn[i + 1].status = orders[m].status
          \/ \E j \in DOMAIN rtn : j > i + 1 /\ ReturnOf(rtn[j], m)
      BY <1>1, <2>1, <2>3, <3>1
    <3>3. ASSUME NEW j \in DOMAIN rtn, j > i + 1, ReturnOf(rtn[j], m)
          PROVE  \E l \in DOMAIN rtn' : l > i /\ ReturnOf(rtn'[l], m)
      <4>1. j - 1 \in DOMAIN rtn' /\ j - 1 > i /\ (j - 1) + 1 = j
        BY <2>2, <3>1, <3>3
      <4>2. rtn'[j - 1] = rtn[j]
        BY <2>2, <4>1
      <4>3. QED  BY <3>3, <4>1, <4>2
    <3>4. QED  BY <2>1, <3>1, <3>2, <3>3
  <2>4. QED  BY <2>3
<1>6. QED  BY <1>2, <1>3, <1>4, <1>5, ListSteps
       DEF ListsFounded, Still, OtherAnswer, Asked, Drop, OnRspQryOrder

\* A break on its way stays there until it is heard.
LEMMA DownStays ==
  ASSUME Typed, rsp # <<>>, rsp' = Tail(rsp), Head(rsp).kind # "down",
         \E i \in DOMAIN rsp : rsp[i].kind = "down"
  PROVE  \E i \in DOMAIN rsp' : rsp'[i].kind = "down"
<1>1. rsp \in Seq(AnswerT)
  BY DEF Typed, MarketTyped
<1>2. QED  BY <1>1, TailHas

LEMMA QuietNext ==
  ASSUME Typed, ListsFounded, Quiet, [Next]_vars
  PROVE  Quiet'
<1>0. rsp \in Seq(AnswerT) /\ rtn \in Seq(ReturnT)
  BY DEF Typed, MarketTyped
<1>1. CASE Still
  BY <1>1 DEF Still, Quiet
<1>2. CASE OrderStep
  BY <1>2 DEF OrderStep, Quiet
<1>3. CASE OtherAnswer
  BY <1>3, DownStays DEF OtherAnswer, Quiet
<1>4. CASE Asked(OrderAnswers) /\ (hist'.alone => rtn = <<>>)
  BY <1>4 DEF Asked, Quiet
<1>5. CASE Asked(PositionAnswers) /\ hist'.alone = hist.alone
  BY <1>5 DEF Asked, Quiet
<1>6. CASE Drop
  <2>1. hist' = [hist EXCEPT !.alone = FALSE, !.fresh = FALSE]
    BY <1>6 DEF Drop
  <2>2. ~ hist'.alone /\ ~ hist'.fresh
    BY <2>1, HistIs DEF HistT
  <2>3. PICK m \in 0 .. Len(rsp) : DOMAIN rsp' = 1 .. (m + 1) /\ rsp'[m + 1].kind = "down"
    BY <1>6, BreakIs
  <2>4. m + 1 \in DOMAIN rsp'
    BY <1>0, <2>3
  <2>5. QED  BY <2>2, <2>3, <2>4 DEF Quiet
<1>7. CASE Login
  <2>1. link = 0 /\ UNCHANGED <<rtn, hist>>
    BY <1>7 DEF Login
  <2>2. link' # 0
    <3>1. link' = left["logins"] /\ left["logins"] > 0 /\ left["logins"] \in Nat
      BY <1>7, LoginsLeft DEF Login, Use
    <3>2. QED  BY <3>1
  <2>3. QED  BY <2>1, <2>2 DEF Quiet
<1>8. CASE OnRtnOrder \/ OnRtnTrade
  <2>1. rtn # <<>> /\ UNCHANGED <<link, rsp>>
    BY <1>8 DEF OnRtnOrder, OnRtnTrade, IsReturn
  <2>2. hist'.alone = hist.alone /\ hist'.fresh = hist.fresh
    <3>1. hist' = hist \/ \E x : hist' = [hist EXCEPT !.ignored = x]
      BY <1>8 DEF OnRtnOrder, OnRtnTrade
    <3>2. QED  BY <3>1, HistIs DEF HistT
  <2>3. QED  BY <2>1, <2>2 DEF Quiet
<1>9. CASE OnRspQryOrder
  <2>1. /\ rsp # <<>> /\ rsp' = Tail(rsp) /\ rsp[1].kind = "qryOrder" /\ UNCHANGED <<rtn, link>>
        /\ hist'.alone = hist.alone /\ (hist'.fresh => hist.fresh \/ hist.alone)
    BY <1>9, AnswerTells DEF ListsFounded
  <2>2. Head(rsp).kind # "down"
    BY <1>9 DEF OnRspQryOrder, IsAnswer
  <2>3. QED  BY <2>1, <2>2, DownStays DEF Quiet
<1>10. QED  BY <1>1, <1>2, <1>3, <1>4, <1>5, <1>6, <1>7, <1>8, <1>9, ListSteps DEF ListsFounded

LEMMA RecordIs ==
  ASSUME NEW n
  PROVE  /\ Record(n).kind = "qryOrder" /\ Record(n).n = n
         /\ Record(n).status = orders[n].status /\ Record(n).last = (n = Len(orders))
  BY DEF Record, Callback

LEMMA RightStays ==
  ASSUME NEW n, UNCHANGED <<working, finished>>, orders'[n] = orders[n]
  PROVE  RightAt(n) <=> RightAt(n)'
  BY DEF RightAt, Id, Open

\* A record that is still to come stands one place nearer.
LEMMA FinalMoves ==
  ASSUME NEW S, NEW q \in Seq(S), q # <<>>, NEW e \in DOMAIN Tail(q), FinalAt(Tail(q), e)
  PROVE  /\ e \in Nat \ {0} /\ e + 1 \in DOMAIN q /\ FinalAt(q, e + 1) /\ Tail(q)[e] = q[e + 1]
         /\ \A i \in 1 .. e : i + 1 \in DOMAIN q /\ Tail(q)[i] = q[i + 1]
<1>1. /\ Len(q) \in Nat \ {0} /\ DOMAIN q = 1 .. Len(q) /\ DOMAIN Tail(q) = 1 .. (Len(q) - 1)
      /\ \A i \in 1 .. (Len(q) - 1) : Tail(q)[i] = q[i + 1]
  BY TailAt
<1>2. /\ e \in Nat \ {0} /\ e + 1 \in DOMAIN q /\ Tail(q)[e] = q[e + 1]
      /\ \A i \in 1 .. e : i + 1 \in DOMAIN q /\ Tail(q)[i] = q[i + 1]
  BY <1>1
<1>3. ASSUME NEW i \in DOMAIN q, i > e + 1
      PROVE  q[i].kind # "qryOrder"
  <2>1. i - 1 \in DOMAIN Tail(q) /\ i - 1 > e /\ (i - 1) + 1 = i /\ i - 1 \in 1 .. (Len(q) - 1)
    BY <1>1, <1>2, <1>3
  <2>2. Tail(q)[i - 1] = q[i]
    BY <1>1, <2>1
  <2>3. QED  BY <2>1, <2>2 DEF FinalAt
<1>4. q[e + 1].kind = "qryOrder"
  BY <1>2 DEF FinalAt
<1>5. QED  BY <1>2, <1>3, <1>4 DEF FinalAt

\* The record that comes first in a current answer.
LEMMA CurrentFirst ==
  ASSUME Typed, NEW e \in Nat \ {0}, CurrentAt(rsp, e), e <= Len(orders)
  PROVE  LET n == Len(orders) - (e - 1)
         IN  n \in DOMAIN orders /\ rsp[1] = Record(n)
<1>1. Len(orders) \in Nat /\ DOMAIN orders = 1 .. Len(orders)
  BY AnsweredIs
<1> DEFINE n == Len(orders) - (e - 1)
<1>2. n \in DOMAIN orders /\ n > Len(orders) - e /\ e - (Len(orders) - n) = 1
  BY <1>1
<1>3. rsp[e - (Len(orders) - n)] = Record(n)
  BY <1>2 DEF CurrentAt
<1>4. QED  BY <1>2, <1>3

LEMMA AnswerCurrentNext ==
  ASSUME Typed, ListsFounded, Quiet, AnswerCurrent, [Next]_vars
  PROVE  AnswerCurrent'
<1> SUFFICES ASSUME hist'.alone, NEW e \in DOMAIN rsp', FinalAt(rsp, e)', rsp'[e].n # 0
             PROVE  CurrentAt(rsp, e)'
  BY DEF AnswerCurrent
<1>0. /\ rsp \in Seq(AnswerT) /\ Len(orders) \in Nat /\ DOMAIN orders = 1 .. Len(orders)
  BY AnsweredIs DEF Typed, MarketTyped
<1>1. ASSUME UNCHANGED <<orders, Shown>>
      PROVE  /\ \A n \in DOMAIN orders : Record(n)' = Record(n) /\ (RightAt(n)' <=> RightAt(n))
             /\ Len(orders)' = Len(orders) /\ reqIds'.orders = reqIds.orders
  <2>1. UNCHANGED <<working, finished>> /\ reqIds'.orders = reqIds.orders
    BY <1>1 DEF Shown
  <2>2. \A n \in DOMAIN orders : RightAt(n)' <=> RightAt(n)
    BY <1>1, <2>1, RightStays
  <2>3. QED  BY <1>1, <2>1, <2>2 DEF Record
<1>2. CASE Still
  <2>1. CurrentAt(rsp, e)
    BY <1>2 DEF Still, AnswerCurrent, FinalAt
  <2>2. UNCHANGED <<orders, Shown>> /\ UNCHANGED rsp
    BY <1>2 DEF Still
  <2>3. QED  BY <1>1, <2>1, <2>2 DEF CurrentAt
<1>3. CASE OrderStep
  BY <1>3 DEF OrderStep
<1>4. CASE Asked(OrderAnswers) /\ (hist'.alone => rtn = <<>>)
  <2>1. PICK a \in OrderAnswers : rsp' = rsp \o a
    BY <1>4 DEF Asked
  <2>2. UNCHANGED <<orders, Shown>>
    BY <1>4 DEF Asked
  <2>3. a \in Seq(AnswerT)
    BY AnswersType
  <2> PICK q : q = rsp \o a
    OBVIOUS
  <2>4. /\ Len(rsp) \in Nat /\ Len(a) \in Nat /\ DOMAIN rsp = 1 .. Len(rsp) /\ DOMAIN a = 1 .. Len(a)
        /\ DOMAIN q = 1 .. (Len(rsp) + Len(a))
        /\ \A i \in 1 .. Len(rsp) : q[i] = rsp[i]
        /\ \A j \in 1 .. Len(a) : q[Len(rsp) + j] = a[j]
    BY <1>0, <2>3, ConcatAt
  <2>5. rsp' = q /\ e \in DOMAIN q /\ FinalAt(q, e) /\ q[e].n # 0
    BY <2>1 DEF FinalAt
  <2>6. Len(a) \in DOMAIN a /\ a[Len(a)].kind = "qryOrder"
    <3>1. Len(a) # 0
      BY <2>4, OrderAnswerIs
    <3>2. Len(a) \in DOMAIN a
      BY <2>4, <3>1
    <3>3. CASE Len(a) = 1 /\ a[1].kind = "qryOrder"
      BY <3>2, <3>3
    <3>4. CASE DOMAIN a = DOMAIN orders /\ \A n \in DOMAIN orders : a[n] = Record(n)
      <4>1. a[Len(a)] = Record(Len(a))
        BY <3>2, <3>4
      <4>2. QED  BY <3>2, <4>1, RecordIs
    <3>5. QED  BY <3>3, <3>4, OrderAnswerIs
  <2>7. e = Len(rsp) + Len(a)
    <3>1. Len(rsp) + Len(a) \in DOMAIN q /\ q[Len(rsp) + Len(a)].kind = "qryOrder"
      BY <2>4, <2>6
    <3>2. ~ (Len(rsp) + Len(a) > e)
      BY <2>5, <3>1 DEF FinalAt
    <3>3. QED  BY <2>4, <2>5, <3>2
  <2>8. q[e] = a[Len(a)]
    BY <2>4, <2>6, <2>7
  <2>9. /\ Len(a) = Len(orders) /\ DOMAIN a = DOMAIN orders
        /\ \A n \in DOMAIN orders : a[n] = Record(n)
    <3>1. ~ (Len(a) = 1 /\ a[1].n = 0)
      BY <2>5, <2>8
    <3>2. QED  BY <3>1, OrderAnswerIs
  <2>10. \A n \in DOMAIN orders : q[e - (Len(orders) - n)] = Record(n)
    <3>1. \A n \in DOMAIN orders : e - (Len(orders) - n) = Len(rsp) + n
      BY <1>0, <2>4, <2>7, <2>9
    <3>2. \A n \in DOMAIN orders : q[Len(rsp) + n] = Record(n)
      BY <1>0, <2>4, <2>9
    <3>3. QED  BY <3>1, <3>2
  <2>11. q[e].n = Len(orders) /\ ~ (e < Len(orders))
    <3>1. q[e] = Record(Len(orders))
      BY <1>0, <2>6, <2>8, <2>9
    <3>2. q[e].n = Len(orders)
      BY <3>1, RecordIs
    <3>3. ~ (e < Len(orders))
      BY <1>0, <2>4, <2>7, <2>9
    <3>4. QED  BY <3>2, <3>3
  <2>12. QED  BY <1>1, <2>2, <2>5, <2>10, <2>11 DEF CurrentAt
<1>5. CASE Asked(PositionAnswers) /\ hist'.alone = hist.alone
  <2>1. PICK a \in PositionAnswers : rsp' = rsp \o a
    BY <1>5 DEF Asked
  <2>2. UNCHANGED <<orders, Shown>>
    BY <1>5 DEF Asked
  <2>3. a \in Seq(AnswerT)
    BY AnswersType
  <2> PICK q : q = rsp \o a
    OBVIOUS
  <2>4. /\ Len(rsp) \in Nat /\ Len(a) \in Nat /\ DOMAIN rsp = 1 .. Len(rsp) /\ DOMAIN a = 1 .. Len(a)
        /\ DOMAIN q = 1 .. (Len(rsp) + Len(a))
        /\ \A i \in 1 .. Len(rsp) : q[i] = rsp[i]
        /\ \A j \in 1 .. Len(a) : q[Len(rsp) + j] = a[j]
    BY <1>0, <2>3, ConcatAt
  <2>5. rsp' = q /\ e \in DOMAIN q /\ FinalAt(q, e) /\ q[e].n # 0
    BY <2>1 DEF FinalAt
  <2>6. e \in DOMAIN rsp
    <3>1. CASE e > Len(rsp)
      <4>1. e - Len(rsp) \in DOMAIN a /\ Len(rsp) + (e - Len(rsp)) = e
        BY <2>4, <2>5, <3>1
      <4>2. q[e].kind = "qryPosition"
        BY <2>4, <4>1, PositionAnswerIs
      <4>3. QED  BY <2>5, <4>2 DEF FinalAt
    <3>2. QED  BY <2>4, <2>5, <3>1
  <2>7. FinalAt(rsp, e) /\ rsp[e].n # 0
    <3>1. q[e] = rsp[e] /\ \A i \in DOMAIN rsp : i \in DOMAIN q /\ q[i] = rsp[i]
      BY <2>4, <2>6
    <3>2. QED  BY <2>5, <2>6, <3>1 DEF FinalAt
  <2>8. CurrentAt(rsp, e)
    BY <1>5, <2>6, <2>7 DEF AnswerCurrent
  <2>9. \A n \in DOMAIN orders : n > Len(orders) - e =>
          q[e - (Len(orders) - n)] = rsp[e - (Len(orders) - n)]
    <3>1. \A n \in DOMAIN orders : n > Len(orders) - e => e - (Len(orders) - n) \in 1 .. Len(rsp)
      BY <1>0, <2>4, <2>6
    <3>2. QED  BY <2>4, <3>1
  <2>10. q[e] = rsp[e]
    BY <2>4, <2>6
  <2>11. QED  BY <1>1, <2>2, <2>5, <2>8, <2>9, <2>10 DEF CurrentAt
<1>6. CASE Drop \/ Login
  <2>1. hist' = [hist EXCEPT !.alone = FALSE, !.fresh = FALSE] \/ (link = 0 /\ hist' = hist)
    BY <1>6 DEF Drop, Login
  <2>2. ~ hist'.alone
    BY <2>1, HistIs DEF HistT, Quiet
  <2>3. QED  BY <2>2
<1>7. CASE OnRtnOrder \/ OnRtnTrade
  <2>1. rtn # <<>>
    BY <1>7 DEF OnRtnOrder, OnRtnTrade, IsReturn
  <2>2. hist' = hist \/ \E x : hist' = [hist EXCEPT !.ignored = x]
    BY <1>7 DEF OnRtnOrder, OnRtnTrade
  <2>3. hist'.alone = hist.alone
    BY <2>2, HistIs DEF HistT
  <2>4. QED  BY <2>1, <2>3 DEF Quiet
<1>8. CASE OtherAnswer
  <2>1. /\ rsp # <<>> /\ rsp' = Tail(rsp) /\ Head(rsp).kind # "qryOrder" /\ UNCHANGED <<orders, Shown>>
        /\ hist.alone
    BY <1>8 DEF OtherAnswer
  <2>2. e \in DOMAIN Tail(rsp) /\ FinalAt(Tail(rsp), e) /\ Tail(rsp)[e].n # 0
    BY <2>1 DEF FinalAt
  <2>3. /\ e \in Nat \ {0} /\ e + 1 \in DOMAIN rsp /\ FinalAt(rsp, e + 1) /\ Tail(rsp)[e] = rsp[e + 1]
        /\ \A i \in 1 .. e : Tail(rsp)[i] = rsp[i + 1]
    BY <1>0, <2>1, <2>2, FinalMoves
  <2>4. CurrentAt(rsp, e + 1)
    BY <2>1, <2>2, <2>3 DEF AnswerCurrent
  <2>5. Head(rsp) = rsp[1]
    BY <1>0, <2>1, TailIs
  <2>6. e >= Len(orders)
    <3>1. CASE e + 1 <= Len(orders)
      <4>1. rsp[1].kind = "qryOrder"
        BY <2>3, <2>4, <3>1, CurrentFirst, RecordIs
      <4>2. QED  BY <2>1, <2>5, <4>1
    <3>2. QED  BY <1>0, <2>3, <3>1
  <2>7. ASSUME NEW n \in DOMAIN orders
        PROVE  Tail(rsp)[e - (Len(orders) - n)] = Record(n)
    <3>1. /\ e - (Len(orders) - n) \in 1 .. e
          /\ (e - (Len(orders) - n)) + 1 = (e + 1) - (Len(orders) - n)
          /\ n > Len(orders) - (e + 1)
      BY <1>0, <2>3, <2>6
    <3>2. Tail(rsp)[e - (Len(orders) - n)] = rsp[(e + 1) - (Len(orders) - n)]
      BY <2>3, <3>1
    <3>3. QED  BY <2>4, <3>1, <3>2 DEF CurrentAt
  <2>8. Tail(rsp)[e].n = Len(orders) /\ ~ (e < Len(orders))
    BY <1>0, <2>3, <2>4, <2>6 DEF CurrentAt
  <2>9. QED  BY <1>1, <2>1, <2>7, <2>8 DEF CurrentAt
<1>9. CASE OnRspQryOrder
  <2>1. /\ rsp # <<>> /\ rsp' = Tail(rsp) /\ UNCHANGED orders
        /\ reqIds'.orders = ((reqIds.orders \/ rsp[1].n # 0) /\ ~ rsp[1].last)
        /\ rsp[1].n # 0 => Told(rsp[1].n, rsp[1].status, BegunList(working), BegunList(finished))
    BY <1>9, AnswerTells DEF ListsFounded
  <2>2. hist.alone
    BY <1>9, AnswerTells DEF ListsFounded
  <2>3. e \in DOMAIN Tail(rsp) /\ FinalAt(Tail(rsp), e) /\ Tail(rsp)[e].n # 0
    BY <2>1 DEF FinalAt
  <2>4. /\ e \in Nat \ {0} /\ e + 1 \in DOMAIN rsp /\ FinalAt(rsp, e + 1) /\ Tail(rsp)[e] = rsp[e + 1]
        /\ \A i \in 1 .. e : Tail(rsp)[i] = rsp[i + 1]
    BY <1>0, <2>1, <2>3, FinalMoves
  <2>5. CurrentAt(rsp, e + 1)
    BY <2>2, <2>3, <2>4 DEF AnswerCurrent
  <2>6. ASSUME NEW n \in DOMAIN orders, n > Len(orders) - e
        PROVE  Tail(rsp)[e - (Len(orders) - n)] = Record(n)
    <3>1. /\ e - (Len(orders) - n) \in 1 .. e
          /\ (e - (Len(orders) - n)) + 1 = (e + 1) - (Len(orders) - n)
          /\ n > Len(orders) - (e + 1)
      BY <1>0, <2>4, <2>6
    <3>2. Tail(rsp)[e - (Len(orders) - n)] = rsp[(e + 1) - (Len(orders) - n)]
      BY <2>4, <3>1
    <3>3. QED  BY <2>5, <3>1, <3>2 DEF CurrentAt
  <2>7. Tail(rsp)[e].n = Len(orders)
    BY <2>4, <2>5 DEF CurrentAt
  <2>8. ASSUME e < Len(orders)
        PROVE  reqIds'.orders /\ \A n \in DOMAIN orders : n <= Len(orders) - e => RightAt(n)'
    <3> PICK m : m = Len(orders) - e
      OBVIOUS
    <3>1. m \in DOMAIN orders /\ m # Len(orders) /\ m # 0 /\ rsp[1] = Record(m)
      <4>1. e + 1 \in Nat \ {0} /\ e + 1 <= Len(orders) /\ Len(orders) - ((e + 1) - 1) = m
        BY <1>0, <2>4, <2>8
      <4>2. m \in DOMAIN orders /\ rsp[1] = Record(m)
        BY <2>5, <4>1, CurrentFirst
      <4>3. QED  BY <1>0, <2>4, <2>8, <4>2
    <3>2. rsp[1].n = m /\ rsp[1].status = orders[m].status /\ ~ rsp[1].last
      BY <3>1, RecordIs
    <3>3. Told(m, orders[m].status, BegunList(working), BegunList(finished))
      BY <2>1, <3>1, <3>2
    <3>4. RightAt(m)'
      BY <3>3, ToldRight DEF ListsFounded
    <3>5. ASSUME NEW n \in DOMAIN orders, n <= Len(orders) - e, n # m
          PROVE  RightAt(n)'
      <4>1. e + 1 < Len(orders) /\ n <= Len(orders) - (e + 1)
        BY <1>0, <2>4, <2>8, <3>5
      <4>2. reqIds.orders /\ RightAt(n)
        BY <2>5, <4>1 DEF CurrentAt
      <4>3. Told(m, orders[m].status, working, finished)
        BY <3>3, <4>2 DEF BegunList
      <4>4. QED  BY <3>5, <4>2, <4>3, ToldOther DEF ListsFounded
    <3>6. QED  BY <2>1, <3>1, <3>2, <3>4, <3>5
  <2>9. \A n \in DOMAIN orders : Record(n)' = Record(n)
    BY <2>1 DEF Record
  <2>10. QED  BY <2>1, <2>6, <2>7, <2>8, <2>9 DEF CurrentAt
<1>10. QED  BY <1>2, <1>3, <1>4, <1>5, <1>6, <1>7, <1>8, <1>9, ListSteps DEF ListsFounded

LEMMA FreshRightNext ==
  ASSUME Typed, ListsFounded, ReturnsLatest, Quiet, AnswerCurrent, FreshRight, [Next]_vars
  PROVE  FreshRight'
<1> SUFFICES ASSUME hist'.fresh, NEW m \in DOMAIN orders'
             PROVE  Pending(m)' \/ RightAt(m)'
  BY DEF FreshRight
<1>0. rtn \in Seq(ReturnT) /\ Len(orders) \in Nat /\ DOMAIN orders = 1 .. Len(orders)
  BY AnsweredIs DEF Typed, MarketTyped
<1>1. ASSUME UNCHANGED <<orders, rtn, Shown>>, hist.fresh
      PROVE  Pending(m)' \/ RightAt(m)'
  <2>1. UNCHANGED <<working, finished>> /\ m \in DOMAIN orders
    BY <1>1 DEF Shown
  <2>2. Pending(m) \/ RightAt(m)
    BY <1>1, <2>1 DEF FreshRight
  <2>3. QED  BY <1>1, <2>1, <2>2, RightStays DEF Pending
<1>2. CASE Still \/ OtherAnswer \/ Asked(OrderAnswers) \/ Asked(PositionAnswers)
  BY <1>1, <1>2 DEF Still, OtherAnswer, Asked
<1>3. CASE OrderStep
  <2>1. hist.fresh /\ link # 0 /\ UNCHANGED <<working, finished>>
    BY <1>3 DEF OrderStep, Quiet, Shown
  <2>2. PICK n, s : Changed(n, s) /\ Announced(n, s)
    BY <1>3, <2>1 DEF OrderStep
  <2>3. Behind(rtn, rtn', OrderReturn(n, s))
    BY <2>2, AnnouncedHas
  <2>4. CASE m = n
    <3>1. ReturnOf(OrderReturn(n, s), n)
      BY DEF ReturnOf, OrderReturn, Callback
    <3>2. QED  BY <2>3, <2>4, <3>1 DEF Pending, Behind
  <2>5. CASE m # n
    <3>1. m \in DOMAIN orders /\ orders'[m] = orders[m]
      BY <2>2, <2>5 DEF Changed
    <3>2. CASE Pending(m)
      BY <2>3, <3>2 DEF Pending, Behind
    <3>3. CASE RightAt(m)
      BY <2>1, <3>1, <3>3, RightStays
    <3>4. QED  BY <2>1, <3>1, <3>2, <3>3 DEF FreshRight
  <2>6. QED  BY <2>4, <2>5
<1>4. CASE Drop \/ Login
  <2>1. hist' = [hist EXCEPT !.alone = FALSE, !.fresh = FALSE] \/ (link = 0 /\ hist' = hist)
    BY <1>4 DEF Drop, Login
  <2>2. ~ hist'.fresh
    BY <2>1, HistIs DEF HistT, Quiet
  <2>3. QED  BY <2>2
<1>5. ASSUME rtn # <<>>, rtn' = Tail(rtn), NEW i \in DOMAIN rtn, i # 1, ReturnOf(rtn[i], m)
      PROVE  Pending(m)'
  <2>1. /\ Len(rtn) \in Nat \ {0} /\ DOMAIN rtn = 1 .. Len(rtn) /\ DOMAIN rtn' = 1 .. (Len(rtn) - 1)
        /\ \A j \in 1 .. (Len(rtn) - 1) : rtn'[j] = rtn[j + 1]
    BY <1>0, <1>5, TailAt
  <2>2. i - 1 \in DOMAIN rtn' /\ (i - 1) + 1 = i
    BY <1>5, <2>1
  <2>3. rtn'[i - 1] = rtn[i]
    BY <2>1, <2>2
  <2>4. QED  BY <1>5, <2>2, <2>3 DEF Pending
<1>6. CASE OnRtnOrder
  <2> DEFINE n == rtn[1].n
  <2>1. /\ rtn # <<>> /\ rtn' = Tail(rtn) /\ 1 \in DOMAIN rtn /\ ReturnOf(rtn[1], n)
        /\ Told(n, rtn[1].status, working, finished) /\ UNCHANGED hist /\ UNCHANGED orders
    BY <1>6, ReturnTells DEF ListsFounded, ReturnOf
  <2>2. m \in DOMAIN orders /\ link # 0 /\ hist.fresh
    BY <2>1 DEF Quiet
  <2>3. CASE m = n
    <3>1. \/ rtn[1].status = orders[n].status
          \/ \E j \in DOMAIN rtn : j > 1 /\ ReturnOf(rtn[j], n)
      BY <2>1, <2>2, <2>3 DEF ReturnsLatest
    <3>2. CASE rtn[1].status = orders[n].status
      BY <2>1, <2>3, <3>2, ToldRight DEF ListsFounded
    <3>3. ASSUME NEW j \in DOMAIN rtn, j > 1, ReturnOf(rtn[j], n)
          PROVE  Pending(m)'
      <4>1. j # 1
        BY <1>0, <3>3
      <4>2. QED  BY <1>5, <2>1, <2>3, <3>3, <4>1
    <3>4. QED  BY <3>1, <3>2, <3>3
  <2>4. CASE m # n
    <3>1. CASE Pending(m)
      <4>1. PICK i \in DOMAIN rtn : ReturnOf(rtn[i], m)
        BY <3>1 DEF Pending
      <4>2. i # 1
        BY <2>4, <4>1 DEF ReturnOf
      <4>3. QED  BY <1>5, <2>1, <4>1, <4>2
    <3>2. CASE RightAt(m)
      BY <2>1, <2>2, <2>4, <3>2, ToldOther DEF ListsFounded
    <3>3. QED  BY <2>2, <3>1, <3>2 DEF FreshRight
  <2>5. QED  BY <2>3, <2>4
<1>7. CASE OnRtnTrade
  <2>1. rtn # <<>> /\ rtn' = Tail(rtn) /\ Head(rtn).kind = "trade" /\ UNCHANGED <<orders, working, finished>>
    BY <1>7 DEF OnRtnTrade, IsReturn, forms
  <2>2. hist.fresh /\ m \in DOMAIN orders
    <3>1. hist' = hist \/ \E x : hist' = [hist EXCEPT !.ignored = x]
      BY <1>7 DEF OnRtnTrade
    <3>2. QED  BY <2>1, <3>1, HistIs DEF HistT
  <2>3. CASE Pending(m)
    <3>1. PICK i \in DOMAIN rtn : ReturnOf(rtn[i], m)
      BY <2>3 DEF Pending
    <3>2. Head(rtn) = rtn[1]
      BY <1>0, <2>1, TailIs
    <3>3. i # 1
      BY <2>1, <3>1, <3>2 DEF ReturnOf
    <3>4. QED  BY <1>5, <2>1, <3>1, <3>3
  <2>4. CASE RightAt(m)
    BY <2>1, <2>4, RightStays
  <2>5. QED  BY <2>2, <2>3, <2>4 DEF FreshRight
<1>8. CASE OnRspQryOrder
  <2>1. 1 \in DOMAIN rsp /\ UNCHANGED <<orders, rtn>>
    BY <1>8, AnswerTells DEF ListsFounded
  <2>2. CASE rsp[1].n = 0
    <3>1. UNCHANGED <<working, finished, hist>>
      BY <1>8, <2>2, AnswerTells DEF ListsFounded
    <3>2. m \in DOMAIN orders /\ hist.fresh
      BY <2>1, <3>1
    <3>3. Pending(m) \/ RightAt(m)
      BY <3>2 DEF FreshRight
    <3>4. QED  BY <2>1, <3>1, <3>3, RightStays DEF Pending
  <2>3. CASE rsp[1].n # 0
    <3>1. /\ Told(rsp[1].n, rsp[1].status, BegunList(working), BegunList(finished))
          /\ rsp[1].last /\ hist.alone /\ FinalAt(rsp, 1)
      BY <1>8, <2>3, AnswerTells DEF ListsFounded
    <3>2. CurrentAt(rsp, 1)
      BY <2>1, <2>3, <3>1 DEF AnswerCurrent
    <3>3. rsp[1].n = Len(orders) /\ Len(orders) \in DOMAIN orders
      BY <1>0, <2>3, <3>2 DEF CurrentAt
    <3>4. rsp[1] = Record(Len(orders))
      <4>1. Len(orders) > Len(orders) - 1 /\ 1 - (Len(orders) - Len(orders)) = 1
        BY <1>0
      <4>2. rsp[1 - (Len(orders) - Len(orders))] = Record(Len(orders))
        BY <3>2, <3>3, <4>1 DEF CurrentAt
      <4>3. QED  BY <4>1, <4>2
    <3>5. CASE m = Len(orders)
      <4>1. rsp[1].status = orders[m].status
        BY <3>4, <3>5, RecordIs
      <4>2. QED  BY <3>1, <3>3, <3>5, <4>1, ToldRight DEF ListsFounded
    <3>6. CASE m # Len(orders)
      <4>1. m \in DOMAIN orders /\ 1 < Len(orders) /\ m <= Len(orders) - 1
        BY <1>0, <2>1, <3>6
      <4>2. reqIds.orders /\ RightAt(m)
        BY <3>2, <4>1 DEF CurrentAt
      <4>3. Told(rsp[1].n, rsp[1].status, working, finished)
        BY <3>1, <4>2 DEF BegunList
      <4>4. QED  BY <3>3, <3>6, <4>1, <4>2, <4>3, ToldOther DEF ListsFounded
    <3>7. QED  BY <3>5, <3>6
  <2>4. QED  BY <2>2, <2>3
<1>9. QED  BY <1>2, <1>3, <1>4, <1>6, <1>7, <1>8, ListSteps DEF ListsFounded

LEMMA ListsInit ==
  ASSUME Init
  PROVE  Lists
<1>1. /\ orders = <<>> /\ rsp = <<>> /\ rtn = <<>> /\ working = {} /\ finished = {}
      /\ ~ hist.fresh /\ ~ hist.alone
  BY DEF Init, NoHistory
<1>2. DOMAIN orders = {} /\ DOMAIN rsp = {} /\ DOMAIN rtn = {}
  BY <1>1
<1>3. ListsFounded
  BY <1>1, <1>2 DEF ListsFounded, OwnIds, DoneStays, ListsNamed
<1>4. QED  BY <1>1, <1>2, <1>3 DEF Lists, ReturnsLatest, Quiet, AnswerCurrent, FreshRight

\* Lists that are right but for the returns on their way are right when none is.
LEMMA ListsEnough ==
  ASSUME Lists
  PROVE  OrderListsRight
<1> SUFFICES ASSUME hist.fresh, rtn = <<>>
             PROVE  /\ working = {Id(n) : n \in {n \in DOMAIN orders : Open(n)}}
                    /\ finished = {Id(n) : n \in {n \in DOMAIN orders : ~ Open(n)}}
  BY DEF OrderListsRight
<1>1. DOMAIN rtn = {}
  OBVIOUS
<1>2. \A n \in DOMAIN orders : RightAt(n)
  BY <1>1 DEF Lists, FreshRight, Pending
<1>3. /\ \A id \in working : \E n \in DOMAIN orders : id = Id(n)
      /\ \A id \in finished : \E n \in DOMAIN orders : id = Id(n)
  BY DEF Lists, ListsFounded, ListsNamed
<1>4. QED  BY <1>2, <1>3 DEF RightAt

\* After an order query that no change overtook, and until the connection breaks, each order is in
\* the right list once the returns on their way are in: OrderListsRight is an invariant.
THEOREM OrderListsAlwaysRight == Spec => []OrderListsRight
<1>1. Init => Typed /\ Lists
  BY TypeInit, ListsInit
<1>2. Typed /\ Lists /\ [Next]_vars => (Typed /\ Lists)'
  BY TypeNext, ListsFoundedNext, ReturnsLatestNext, QuietNext, AnswerCurrentNext, FreshRightNext DEF Lists
<1>3. Lists => OrderListsRight
  BY ListsEnough
<1>4. QED  BY <1>1, <1>2, <1>3, PTL DEF Spec
===============================================================================
