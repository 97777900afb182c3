---------------------------- MODULE BtMatchProofs ----------------------------
(***************************************************************************)
(* Theorems about BtMatch for every set of symbols, prices, requests and   *)
(* threads and every bound.  The books of the engine (Books) are inductive *)
(* together: a fill may thaw frozen lots because open orders are valid,    *)
(* and keeps a position from going short because volumes are positive.     *)
(* Volumes are summed by counting lots, with the library's facts about     *)
(* finite sets.                                                            *)
(***************************************************************************)
EXTENDS BtMatch, FiniteSetTheorems, TLAPS

\* What an accepted order has, as long as it is open.
OpenOrdersValid ==
  \A i \in DOMAIN orders :
    ~Complete(orders[i]) => /\ orders[i].req.symbol = symbol
                            /\ orders[i].req.volume \in 1 .. 500
                            /\ orders[i].req.offset \in {"open", "close"}

TradesValid == \A n \in DOMAIN trades : trades[n].req.volume \in 1 .. 500

LotsFinite ==
  \A s \in Sides : /\ IsFiniteSet(Lots(orders, OpenIds(s)))
                   /\ IsFiniteSet(Lots(trades, OpenedBy(s)))
                   /\ IsFiniteSet(Lots(trades, ClosedBy(s)))

Books ==
  /\ OpenOrdersValid /\ TradesValid /\ LotsFinite
  /\ NeverOversold /\ PositionMatchesTrades /\ FrozenMatchesOrders

-----------------------------------------------------------------------------
(* Lots *)

\* A row of lots is as long as the volume says.
LEMMA RowSize ==
  ASSUME NEW i, NEW v \in Nat
  PROVE  IsFiniteSet({i} \X (1 .. v)) /\ Cardinality({i} \X (1 .. v)) = v
<1>1. IsFiniteSet({i}) /\ Cardinality({i}) = 1
  BY FS_Singleton
<1>2. IsFiniteSet(1 .. v) /\ Cardinality(1 .. v) = v
  BY FS_Interval
<1>3. /\ IsFiniteSet({i} \X (1 .. v))
      /\ Cardinality({i} \X (1 .. v)) = Cardinality({i}) * Cardinality(1 .. v)
  BY <1>1, <1>2, FS_Product
<1>4. QED  BY <1>1, <1>2, <1>3

\* Lots depend on the volumes only.
LEMMA LotsSame ==
  ASSUME NEW f, NEW g, NEW S, \A i \in S : f[i].req = g[i].req
  PROVE  Lots(f, S) = Lots(g, S)
  BY DEF Lots

\* One more order or trade adds its volume.
LEMMA LotsAdded ==
  ASSUME NEW f, NEW S, NEW i, i \notin S, f[i].req.volume \in Nat,
         IsFiniteSet(Lots(f, S))
  PROVE  /\ IsFiniteSet(Lots(f, S \cup {i}))
         /\ Cardinality(Lots(f, S \cup {i})) = Cardinality(Lots(f, S)) + f[i].req.volume
<1> DEFINE row == {i} \X (1 .. f[i].req.volume)
<1>1. Lots(f, S \cup {i}) = Lots(f, S) \cup row
  BY DEF Lots
<1>2. Lots(f, S) \cap row = {}
  BY DEF Lots
<1>3. IsFiniteSet(row) /\ Cardinality(row) = f[i].req.volume
  BY RowSize
<1>4. /\ IsFiniteSet(Lots(f, S) \cup row)
      /\ Cardinality(Lots(f, S) \cup row)
           = Cardinality(Lots(f, S)) + Cardinality(row) - Cardinality({})
  BY <1>2, <1>3, FS_Union
<1>5. Cardinality({}) = 0 /\ Cardinality(Lots(f, S)) \in Nat
  BY FS_EmptySet, FS_CardinalityType
<1>6. Cardinality(Lots(f, S \cup {i})) = Cardinality(Lots(f, S)) + Cardinality(row) - 0
  BY <1>1, <1>4, <1>5, Zenon
<1>7. IsFiniteSet(Lots(f, S \cup {i}))
  BY <1>1, <1>4, Zenon
<1>8. QED  BY <1>3, <1>5, <1>6, <1>7

\* One less takes its volume away.
LEMMA LotsRemoved ==
  ASSUME NEW f, NEW S, NEW i \in S, f[i].req.volume \in Nat, IsFiniteSet(Lots(f, S))
  PROVE  /\ IsFiniteSet(Lots(f, S \ {i}))
         /\ Cardinality(Lots(f, S \ {i})) = Cardinality(Lots(f, S)) - f[i].req.volume
<1>1. Lots(f, S \ {i}) \in SUBSET Lots(f, S)
  BY DEF Lots
<1>2. IsFiniteSet(Lots(f, S \ {i}))
  BY <1>1, FS_Subset
<1>3. (S \ {i}) \cup {i} = S
  OBVIOUS
<1>4. Cardinality(Lots(f, S)) = Cardinality(Lots(f, S \ {i})) + f[i].req.volume
  BY <1>2, <1>3, LotsAdded
<1>5. Cardinality(Lots(f, S \ {i})) \in Nat
  BY <1>2, FS_CardinalityType
<1>6. QED  BY <1>2, <1>4, <1>5

\* Fewer ids never have more lots.
LEMMA LotsFewer ==
  ASSUME NEW f, NEW S, NEW T \in SUBSET S, IsFiniteSet(Lots(f, S))
  PROVE  /\ IsFiniteSet(Lots(f, T))
         /\ Cardinality(Lots(f, T)) <= Cardinality(Lots(f, S))
<1>1. Lots(f, T) \in SUBSET Lots(f, S)
  BY DEF Lots
<1>2. QED  BY <1>1, FS_Subset

LEMMA NoLots ==
  ASSUME NEW f
  PROVE  IsFiniteSet(Lots(f, {})) /\ Cardinality(Lots(f, {})) = 0
<1>1. Lots(f, {}) = {}
  BY DEF Lots
<1>2. QED  BY <1>1, FS_EmptySet

-----------------------------------------------------------------------------
(* Types *)

LEMMA TakeType ==
  ASSUME TypeOK, events # <<>>
  PROVE  Tail(events) \in Seq(Events) /\ Head(events) \in Events
  BY DEF TypeOK

LEMMA SendEvent ==
  ASSUME NEW e \in Events, e.kind = "send"
  PROVE  e.id \in Nat /\ e.req \in Requests
  BY DEF Events

LEMMA StartEvent ==
  ASSUME NEW e \in Events, e.kind = "start"
  PROVE  e.symbol \in Symbols
  BY DEF Events

LEMMA TickEvent ==
  ASSUME NEW e \in Events, e.kind = "tick"
  PROVE  e.tick \in Ticks
  BY DEF Events

LEMMA SpendType ==
  ASSUME TypeOK, NEW what \in Bounds, NEW limit, Spend(what, limit)
  PROVE  used' \in [Bounds -> Nat]
  BY DEF TypeOK, Spend

LEMMA NoOrdersType == DOMAIN <<>> = {} /\ <<>> \in [{} -> Orders] /\ <<>> \in Seq(Trades)
  OBVIOUS

Records == [position : Int, frozen : Int]

LEMMA FlatType == Flat \in [Sides -> Records]
<1>1. [position |-> 0, frozen |-> 0] \in Records
  BY DEF Records
<1>2. QED  BY <1>1 DEF Flat

LEMMA RecordMoved ==
  ASSUME NEW p \in Records, NEW v \in Int
  PROVE  /\ [p EXCEPT !.frozen = @ + v] \in Records
         /\ [p EXCEPT !.frozen = @ + v].position = p.position
         /\ [p EXCEPT !.frozen = @ + v].frozen = p.frozen + v
  BY DEF Records

LEMMA FrozenMovedType ==
  ASSUME TypeOK, NEW r, NEW v \in Int
  PROVE  FrozenMoved(r, v) \in [Sides -> Records]
<1>1. pos \in [Sides -> Records]
  BY DEF TypeOK, Records
<1>2. \A s \in Sides : [pos[s] EXCEPT !.frozen = @ + v] \in Records
  BY <1>1, RecordMoved
<1>3. QED  BY <1>1, <1>2 DEF FrozenMoved

LEMMA MovedType ==
  ASSUME TypeOK, NEW s \in Sides, NEW v \in Int, NEW w \in Int
  PROVE  /\ Moved(s, v, w) \in [Sides -> Records]
         /\ Moved(s, v, w)[s].position = pos[s].position + v
         /\ Moved(s, v, w)[s].frozen = pos[s].frozen + w
         /\ \A t \in Sides : t # s => Moved(s, v, w)[t] = pos[t]
<1>1. pos \in [Sides -> Records] /\ pos[s].position \in Int /\ pos[s].frozen \in Int
  BY DEF TypeOK, Records
<1>2. [position |-> pos[s].position + v, frozen |-> pos[s].frozen + w] \in Records
  BY <1>1 DEF Records
<1>3. QED  BY <1>1, <1>2 DEF Moved

\* Marking an order keeps the orders well typed.
LEMMA MarkType ==
  ASSUME TypeOK, NEW i \in DOMAIN orders, NEW st \in {"alltraded", "cancelled"},
         orders' = [orders EXCEPT ![i].status = st]
  PROVE  /\ DOMAIN orders' = DOMAIN orders
         /\ orders' \in [DOMAIN orders -> Orders]
         /\ \A j \in DOMAIN orders : j # i => orders'[j] = orders[j]
         /\ orders'[i].req = orders[i].req /\ orders'[i].status = st
  BY DEF TypeOK, Orders

LEMMA CallersType ==
  ASSUME TypeOK, Callers
  PROVE  TypeOK'
<1> USE DEF TypeOK, book
<1>1. ASSUME NEW e \in Events, Post(e)
      PROVE  events' \in Seq(Events)
  BY <1>1 DEF Post
<1>2. ASSUME NEW t \in Threads, CountOrder(t)
      PROVE  TypeOK'
  BY <1>2, SpendType DEF CountOrder, Bounds
<1>3. ASSUME NEW t \in Threads, NEW r \in Offered, PostOrder(t, r)
      PROVE  TypeOK'
  <2>1. [kind |-> "send", id |-> orderId, req |-> r] \in Events
    BY OfferedAssumption DEF Events
  <2>2. QED  BY <1>1, <1>3, <2>1 DEF PostOrder
<1>4. ASSUME NEW i \in 1 .. MaxOrders, PostCancel(i)
      PROVE  TypeOK'
  <2>1. [kind |-> "cancel", id |-> i] \in Events
    BY BoundsAssumption DEF Events
  <2>2. QED  BY <1>1, <1>4, <2>1, SpendType DEF PostCancel, Bounds
<1>5. ASSUME NEW x \in Ticks, PostTick(x)
      PROVE  TypeOK'
  <2>1. [kind |-> "tick", tick |-> x] \in Events
    BY DEF Events
  <2>2. QED  BY <1>1, <1>5, <2>1, SpendType DEF PostTick, Bounds
<1>6. ASSUME NEW x \in Symbols, ClickStart(x)
      PROVE  TypeOK'
  <2>1. [kind |-> "start", symbol |-> x] \in Events
    BY DEF Events
  <2>2. QED  BY <1>1, <1>6, <2>1, SpendType DEF ClickStart, Bounds
<1>7. CASE ClickStop
  <2>1. [kind |-> "stop"] \in Events
    BY DEF Events
  <2>2. QED  BY <1>1, <1>7, <2>1 DEF ClickStop
<1>8. CASE ClickStartUnset
  BY <1>8, SpendType DEF ClickStartUnset, Bounds
<1>9. QED  BY <1>2, <1>3, <1>4, <1>5, <1>6, <1>7, <1>8 DEF Callers

LEMMA BlogicType ==
  ASSUME TypeOK, BlogicTakes
  PROVE  TypeOK'
<1>1. ASSUME NEW kind, Take(kind)
      PROVE  /\ events' \in Seq(Events) /\ Head(events) \in Events
             /\ Head(events).kind = kind
             /\ UNCHANGED <<counted, canStart, used>>
             /\ tick = NoTick /\ left = {}
  BY <1>1, TakeType DEF Take, TypeOK
<1>2. ASSUME ResetData
      PROVE  /\ orderId' \in Nat /\ pos' \in [Sides -> [position : Int, frozen : Int]]
             /\ DOMAIN orders' = {} /\ orders' \in [{} -> Orders]
             /\ trades' \in Seq(Trades) /\ reused' \in BOOLEAN
             /\ UNCHANGED <<tick, left>>
  BY <1>2, NoOrdersType, FlatType DEF ResetData, Records
<1>3. CASE OnStart
  <2>1. symbol' \in Symbols /\ Take("start") /\ ResetData
    BY <1>1, <1>3, StartEvent DEF OnStart
  <2>2. QED
    BY <1>1, <1>2, <2>1 DEF TypeOK
<1>4. CASE OnStop
  BY <1>1, <1>2, <1>4 DEF OnStop, TypeOK
<1>6. CASE OnSendOrder
  <2> DEFINE i == Head(events).id
             r == Head(events).req
  <2>1. i \in Nat /\ r \in Requests /\ r.volume \in Int
    BY <1>1, <1>6, SendEvent DEF OnSendOrder, Requests
  <2>2. \A st \in {"nottraded", "cancelled"} :
          /\ DOMAIN Filed(i, r, st) = DOMAIN orders \cup {i}
          /\ Filed(i, r, st) \in [DOMAIN orders \cup {i} -> Orders]
    BY <2>1 DEF Filed, Orders, TypeOK
  <2>3. /\ DOMAIN orders' = DOMAIN orders \cup {i}
        /\ orders' \in [DOMAIN orders \cup {i} -> Orders]
        /\ pos' \in [Sides -> [position : Int, frozen : Int]]
    <3>1. CASE Accepted(r)
      BY <1>6, <2>1, <2>2, <3>1, FrozenMovedType DEF OnSendOrder, Records
    <3>2. CASE ~Accepted(r)
      BY <1>6, <2>2, <3>2 DEF OnSendOrder, TypeOK
    <3>3. QED  BY <3>1, <3>2
  <2>4. QED
    BY <1>1, <1>6, <2>1, <2>3 DEF OnSendOrder, TypeOK
<1>7. CASE OnCancelOrder
  <2> DEFINE i == Head(events).id
  <2>1. CASE CancelAllowed(i)
    <3>1. orders[i].req \in Requests /\ -orders[i].req.volume \in Int
      BY <2>1 DEF CancelAllowed, TypeOK, Orders, Requests
    <3>2. pos' \in [Sides -> [position : Int, frozen : Int]]
      BY <1>7, <2>1, <3>1, FrozenMovedType DEF OnCancelOrder, Records
    <3>3. DOMAIN orders' = DOMAIN orders /\ orders' \in [DOMAIN orders -> Orders]
      BY <1>7, <2>1, MarkType DEF OnCancelOrder, CancelAllowed
    <3>4. QED
      BY <1>1, <1>7, <3>2, <3>3 DEF OnCancelOrder, TypeOK
  <2>2. CASE ~CancelAllowed(i)
    BY <1>1, <1>7, <2>2 DEF OnCancelOrder, TypeOK
  <2>3. QED  BY <2>1, <2>2
<1>8. CASE OnGotTick
  <2>1. tick' \in Ticks /\ tick' # NoTick
    BY <1>1, <1>8, TickEvent, NoSymbolAssumption DEF OnGotTick, Ticks, NoTick
  <2>2. QED  BY <1>1, <1>8, <2>1 DEF OnGotTick, TypeOK, book
<1>9. QED  BY <1>3, <1>4, <1>6, <1>7, <1>8 DEF BlogicTakes

\* What every step of the loop over the orders has in common.
LEMMA MatchType ==
  ASSUME TypeOK, Matches
  PROVE  TypeOK'
<1>1. ASSUME NEW i \in left, NEW s \in Sides,
             FillOpen(i, s) \/ FillClose(i, s), Due(orders[i])
      PROVE  TypeOK'
  <2>1. /\ i \in DOMAIN orders /\ orders[i] \in Orders /\ orders[i].req.volume \in Int
        /\ orders[i].req \in Requests /\ i \in Nat
    BY DEF TypeOK, Orders, Requests
  <2>2. tick \in Ticks
    BY <1>1, NoSymbolAssumption, <2>1 DEF Due, Crosses, TypeOK, NoTick, Requests
  <2>3. Traded(i) /\ Visit(i)
    BY <1>1 DEF FillOpen, FillClose
  <2>4. [id |-> i, req |-> orders[i].req, price |-> tick.price] \in Trades
    BY <2>1, <2>2 DEF Trades, Ticks
  <2>5. trades' \in Seq(Trades)
    BY <2>3, <2>4 DEF Traded, TypeOK
  <2>6. DOMAIN orders' = DOMAIN orders /\ orders' \in [DOMAIN orders -> Orders]
    BY <2>1, <2>3, MarkType DEF Traded
  <2>7. pos' \in [Sides -> [position : Int, frozen : Int]]
    <3>0. -orders[i].req.volume \in Int
      BY <2>1
    <3>1. CASE FillOpen(i, s)
      <4>1. pos' = Moved(s, orders[i].req.volume, -orders[i].req.volume)
        BY <3>1 DEF FillOpen
      <4>2. QED  BY <2>1, <3>0, <4>1, MovedType DEF Records
    <3>2. CASE FillClose(i, s)
      BY <2>1, <3>2, MovedType DEF FillClose, Records
    <3>3. QED  BY <1>1, <3>1, <3>2
  <2>8. QED
    BY <2>3, <2>5, <2>6, <2>7 DEF Visit, TypeOK
<1>2. ASSUME NEW i \in left, NEW s \in Sides, RefuseClose(i, s)
      PROVE  TypeOK'
  <2>1. i \in DOMAIN orders
    BY DEF TypeOK
  <2>2. DOMAIN orders' = DOMAIN orders /\ orders' \in [DOMAIN orders -> Orders]
    BY <1>2, <2>1, MarkType DEF RefuseClose
  <2>3. QED
    BY <1>2, <2>2 DEF RefuseClose, Visit, TypeOK
<1>3. ASSUME NEW i \in left, Pass(i)
      PROVE  TypeOK'
  BY <1>3 DEF Pass, Visit, TypeOK
<1>4. CASE EndLoop
  BY <1>4 DEF EndLoop, TypeOK, book
<1>5. QED
  BY <1>1, <1>2, <1>3, <1>4 DEF Matches, FillOpen, FillClose

LEMMA Types == TypeOK /\ [Next]_vars => TypeOK'
<1>1. TypeOK /\ UNCHANGED vars => TypeOK'
  BY DEF TypeOK, vars, book
<1>2. QED  BY <1>1, CallersType, BlogicType, MatchType DEF Next

LEMMA InitType == Init => TypeOK
<1> SUFFICES ASSUME Init PROVE TypeOK
  OBVIOUS
<1>1. DOMAIN orders = {} /\ orders \in [{} -> Orders] /\ trades \in Seq(Trades)
  BY NoOrdersType DEF Init
<1>2. pos \in [Sides -> [position : Int, frozen : Int]]
  BY FlatType DEF Init, Records
<1>3. /\ orderId \in Nat /\ counted \in SUBSET Threads /\ used \in [Bounds -> Nat]
      /\ canStart \in BOOLEAN /\ reused \in BOOLEAN
  BY DEF Init
<1>7. events \in Seq(Events)
  BY DEF Init
<1>4. /\ symbol \in Symbols \cup {NoSymbol} /\ tick \in Ticks \cup {NoTick}
      /\ left \in SUBSET DOMAIN orders /\ (tick = NoTick => left = {})
  BY DEF Init
<1>5. DOMAIN orders \in SUBSET Nat /\ orders \in [DOMAIN orders -> Orders]
  BY <1>1
<1>6. QED  BY <1>1, <1>2, <1>3, <1>4, <1>5, <1>7 DEF TypeOK

\* Every variable keeps its type.
THEOREM TypeCorrect == Spec => []TypeOK
<1>1. QED  BY InitType, Types, PTL DEF Spec

-----------------------------------------------------------------------------
(* The books *)

OpenLots(s) == Cardinality(Lots(orders, OpenIds(s)))
OpenedLots(s) == Cardinality(Lots(trades, OpenedBy(s)))
ClosedLots(s) == Cardinality(Lots(trades, ClosedBy(s)))

LEMMA CountsType ==
  ASSUME TypeOK, LotsFinite, NEW s \in Sides
  PROVE  /\ pos[s].position \in Int /\ pos[s].frozen \in Int
         /\ OpenLots(s) \in Nat /\ OpenedLots(s) \in Nat /\ ClosedLots(s) \in Nat
  BY FS_CardinalityType DEF TypeOK, LotsFinite, OpenLots, OpenedLots, ClosedLots

\* Before the first session, and after every reset, the books are empty.
LEMMA EmptyBooks ==
  pos = Flat /\ DOMAIN orders = {} /\ DOMAIN trades = {} => Books
<1> SUFFICES ASSUME pos = Flat, DOMAIN orders = {}, DOMAIN trades = {}
             PROVE  Books
  OBVIOUS
<1>1. \A s \in Sides : OpenIds(s) = {} /\ OpenedBy(s) = {} /\ ClosedBy(s) = {}
  BY DEF OpenIds, OpenedBy, ClosedBy
<1>2. \A s \in Sides : pos[s].position = 0 /\ pos[s].frozen = 0
  BY DEF Flat
<1>3. LotsFinite
  BY <1>1, NoLots DEF LotsFinite
<1>4. NeverOversold /\ PositionMatchesTrades /\ FrozenMatchesOrders
  <2>1. \A s \in Sides : /\ Cardinality(Lots(orders, OpenIds(s))) = 0
                         /\ Cardinality(Lots(trades, OpenedBy(s))) = 0
                         /\ Cardinality(Lots(trades, ClosedBy(s))) = 0
    BY <1>1, NoLots
  <2>2. QED
    BY <1>2, <2>1 DEF NeverOversold, PositionMatchesTrades, FrozenMatchesOrders
<1>5. OpenOrdersValid /\ TradesValid
  BY DEF OpenOrdersValid, TradesValid
<1>6. QED  BY <1>3, <1>4, <1>5 DEF Books

\* An open order that is marked complete leaves the open lots.
LEMMA MarkedLots ==
  ASSUME TypeOK, OpenOrdersValid, LotsFinite, NEW i \in DOMAIN orders, ~Complete(orders[i]),
         NEW st \in {"alltraded", "cancelled"},
         orders' = [orders EXCEPT ![i].status = st],
         NEW s \in Sides
  PROVE  /\ IsFiniteSet(Lots(orders', OpenIds(s)'))
         /\ OpenLots(s)' = IF Opens(orders[i].req, s)
                           THEN OpenLots(s) - orders[i].req.volume ELSE OpenLots(s)
<1>1. /\ DOMAIN orders' = DOMAIN orders
      /\ \A j \in DOMAIN orders : j # i => orders'[j] = orders[j]
      /\ \A j \in DOMAIN orders : orders'[j].req = orders[j].req
      /\ orders'[i].status = st
  BY MarkType
<1>2. OpenIds(s)' = OpenIds(s) \ {i}
  BY <1>1 DEF OpenIds, Complete
<1>3. Lots(orders', OpenIds(s) \ {i}) = Lots(orders, OpenIds(s) \ {i})
  <2> DEFINE rest == OpenIds(s) \ {i}
  <2>1. \A j \in rest : orders'[j].req = orders[j].req
    BY <1>1 DEF OpenIds
  <2> HIDE DEF rest
  <2>2. Lots(orders', rest) = Lots(orders, rest)
    BY <2>1 DEF Lots
  <2>3. QED  BY <2>2 DEF rest
<1>4. orders[i].req.volume \in Nat /\ IsFiniteSet(Lots(orders, OpenIds(s)))
  <2>1. orders[i].req.volume \in 1 .. 500
    BY DEF OpenOrdersValid
  <2>2. QED  BY <2>1 DEF LotsFinite
<1>5. CASE Opens(orders[i].req, s)
  <2>1. i \in OpenIds(s)
    BY <1>5 DEF OpenIds
  <2>2. QED  BY <1>2, <1>3, <1>4, <1>5, <2>1, LotsRemoved DEF OpenLots
<1>6. CASE ~Opens(orders[i].req, s)
  <2>1. OpenIds(s) \ {i} = OpenIds(s)
    BY <1>6 DEF OpenIds
  <2>2. QED  BY <1>2, <1>3, <1>4, <1>6, <2>1 DEF OpenLots
<1>7. QED  BY <1>5, <1>6

\* A new trade adds its volume to what its side opened or closed.
LEMMA TradedLots ==
  ASSUME TypeOK, LotsFinite, NEW x, x.req.volume \in Nat, trades' = Append(trades, x),
         NEW s \in Sides
  PROVE  /\ IsFiniteSet(Lots(trades', OpenedBy(s)'))
         /\ IsFiniteSet(Lots(trades', ClosedBy(s)'))
         /\ OpenedLots(s)' = IF Opens(x.req, s) THEN OpenedLots(s) + x.req.volume
                             ELSE OpenedLots(s)
         /\ ClosedLots(s)' = IF Closes(x.req, s) THEN ClosedLots(s) + x.req.volume
                             ELSE ClosedLots(s)
<1> DEFINE n == Len(trades) + 1
<1>1. /\ DOMAIN trades' = DOMAIN trades \cup {n} /\ n \notin DOMAIN trades
      /\ trades'[n] = x
      /\ \A m \in DOMAIN trades : trades'[m] = trades[m]
  BY DEF TypeOK
<1>2. /\ Lots(trades', OpenedBy(s)) = Lots(trades, OpenedBy(s))
      /\ Lots(trades', ClosedBy(s)) = Lots(trades, ClosedBy(s))
  <2>1. /\ \A m \in OpenedBy(s) : trades'[m].req = trades[m].req
        /\ \A m \in ClosedBy(s) : trades'[m].req = trades[m].req
    BY <1>1 DEF OpenedBy, ClosedBy
  <2>2. QED  BY <2>1, LotsSame
<1>3. /\ OpenedBy(s)' = IF Opens(x.req, s) THEN OpenedBy(s) \cup {n} ELSE OpenedBy(s)
      /\ ClosedBy(s)' = IF Closes(x.req, s) THEN ClosedBy(s) \cup {n} ELSE ClosedBy(s)
      /\ n \notin OpenedBy(s) /\ n \notin ClosedBy(s)
  BY <1>1 DEF OpenedBy, ClosedBy
<1>4. /\ IsFiniteSet(Lots(trades', OpenedBy(s))) /\ IsFiniteSet(Lots(trades', ClosedBy(s)))
  BY <1>2 DEF LotsFinite
<1>5. trades'[n].req.volume \in Nat /\ trades'[n].req.volume = x.req.volume
  BY <1>1
<1> HIDE DEF n
<1>6. /\ IsFiniteSet(Lots(trades', OpenedBy(s)'))
      /\ OpenedLots(s)' = IF Opens(x.req, s) THEN OpenedLots(s) + x.req.volume
                          ELSE OpenedLots(s)
  <2>1. CASE Opens(x.req, s)
    <3>1. OpenedBy(s)' = OpenedBy(s) \cup {n} /\ n \notin OpenedBy(s)
      BY <1>3, <2>1
    <3>2. /\ IsFiniteSet(Lots(trades', OpenedBy(s) \cup {n}))
          /\ Cardinality(Lots(trades', OpenedBy(s) \cup {n}))
               = Cardinality(Lots(trades', OpenedBy(s))) + trades'[n].req.volume
      BY <1>4, <1>5, <3>1, LotsAdded
    <3>3. QED  BY <1>2, <1>5, <2>1, <3>1, <3>2 DEF OpenedLots
  <2>2. CASE ~Opens(x.req, s)
    BY <1>2, <1>3, <1>4, <2>2 DEF OpenedLots
  <2>3. QED  BY <2>1, <2>2
<1>7. /\ IsFiniteSet(Lots(trades', ClosedBy(s)'))
      /\ ClosedLots(s)' = IF Closes(x.req, s) THEN ClosedLots(s) + x.req.volume
                          ELSE ClosedLots(s)
  <2>1. CASE Closes(x.req, s)
    <3>1. ClosedBy(s)' = ClosedBy(s) \cup {n} /\ n \notin ClosedBy(s)
      BY <1>3, <2>1
    <3>2. /\ IsFiniteSet(Lots(trades', ClosedBy(s) \cup {n}))
          /\ Cardinality(Lots(trades', ClosedBy(s) \cup {n}))
               = Cardinality(Lots(trades', ClosedBy(s))) + trades'[n].req.volume
      BY <1>4, <1>5, <3>1, LotsAdded
    <3>3. QED  BY <1>2, <1>5, <2>1, <3>1, <3>2 DEF ClosedLots
  <2>2. CASE ~Closes(x.req, s)
    BY <1>2, <1>3, <1>4, <2>2 DEF ClosedLots
  <2>3. QED  BY <2>1, <2>2
<1>8. QED  BY <1>6, <1>7

\* The books after a step, from what the step does to the two sides.
LEMMA BooksFromCounts ==
  ASSUME OpenOrdersValid', TradesValid', LotsFinite',
         \A s \in Sides :
           /\ pos'[s].position >= 0
           /\ pos'[s].position = OpenedLots(s)' - ClosedLots(s)'
           /\ pos'[s].frozen >= OpenLots(s)'
           /\ ~reused' => pos'[s].frozen = OpenLots(s)'
  PROVE  Books'
  BY DEF Books, NeverOversold, PositionMatchesTrades, FrozenMatchesOrders,
         OpenLots, OpenedLots, ClosedLots

LEMMA BooksCounts ==
  ASSUME Books, NEW s \in Sides
  PROVE  /\ pos[s].position >= 0
         /\ pos[s].position = OpenedLots(s) - ClosedLots(s)
         /\ pos[s].frozen >= OpenLots(s)
         /\ ~reused => pos[s].frozen = OpenLots(s)
  BY DEF Books, NeverOversold, PositionMatchesTrades, FrozenMatchesOrders,
         OpenLots, OpenedLots, ClosedLots

LEMMA OtherBooks ==
  ASSUME Books, UNCHANGED book
  PROVE  Books'
<1>1. UNCHANGED <<symbol, pos, orders, trades, reused>>
  BY DEF book
<1>2. OpenOrdersValid' /\ TradesValid'
  BY <1>1 DEF Books, OpenOrdersValid, TradesValid
<1>3. \A s \in Sides : /\ OpenIds(s)' = OpenIds(s)
                       /\ OpenedBy(s)' = OpenedBy(s) /\ ClosedBy(s)' = ClosedBy(s)
  BY <1>1 DEF OpenIds, OpenedBy, ClosedBy
<1>4. LotsFinite'
  BY <1>1, <1>3 DEF Books, LotsFinite
<1>5. \A s \in Sides : /\ OpenLots(s)' = OpenLots(s)
                       /\ OpenedLots(s)' = OpenedLots(s) /\ ClosedLots(s)' = ClosedLots(s)
  BY <1>1, <1>3 DEF OpenLots, OpenedLots, ClosedLots
<1>6. QED  BY <1>1, <1>2, <1>4, <1>5, BooksCounts, BooksFromCounts

LEMMA ResetBooks ==
  ASSUME ResetData
  PROVE  Books'
<1>1. (pos = Flat /\ DOMAIN orders = {} /\ DOMAIN trades = {})'
  BY DEF ResetData
<1>2. (pos = Flat /\ DOMAIN orders = {} /\ DOMAIN trades = {} => Books)'
  BY EmptyBooks, PTL
<1>3. QED  BY <1>1, <1>2

\* What a request opens or closes is one side, and not both.
LEMMA OneSide ==
  ASSUME NEW r, NEW s \in Sides
  PROVE  /\ ~(Opens(r, s) /\ \E t \in Sides : Closes(r, t))
         /\ Opens(r, s) \/ Closes(r, s) =>
              \A t \in Sides : t # s => ~Opens(r, t) /\ ~Closes(r, t)
  BY DEF Opens, Closes

LEMMA FillBooks ==
  ASSUME TypeOK, Books, NEW i \in left, NEW s \in Sides,
         FillOpen(i, s) \/ FillClose(i, s)
  PROVE  Books'
<1> DEFINE r == orders[i].req
           v == r.volume
           x == [id |-> i, req |-> r, price |-> tick.price]
<1>1. /\ i \in DOMAIN orders /\ ~Complete(orders[i])
      /\ orders' = [orders EXCEPT ![i].status = "alltraded"]
      /\ trades' = Append(trades, x)
      /\ UNCHANGED <<symbol, reused>>
  BY DEF FillOpen, FillClose, Due, Traded, Visit, TypeOK
<1>2. v \in 1 .. 500 /\ x.req = r
  BY <1>1 DEF Books, OpenOrdersValid
<1>3. v \in Nat /\ v \in Int /\ -v \in Int
  <2> HIDE DEF r, v, x
  <2>1. QED  BY <1>2
<1>4. \A t \in Sides :
        /\ IsFiniteSet(Lots(orders', OpenIds(t)'))
        /\ OpenLots(t)' = IF Opens(r, t) THEN OpenLots(t) - v ELSE OpenLots(t)
  BY <1>1, MarkedLots DEF Books
<1>5. \A t \in Sides :
        /\ IsFiniteSet(Lots(trades', OpenedBy(t)'))
        /\ IsFiniteSet(Lots(trades', ClosedBy(t)'))
        /\ OpenedLots(t)' = IF Opens(r, t) THEN OpenedLots(t) + v ELSE OpenedLots(t)
        /\ ClosedLots(t)' = IF Closes(r, t) THEN ClosedLots(t) + v ELSE ClosedLots(t)
  BY <1>1, <1>2, <1>3, TradedLots DEF Books
<1>6. LotsFinite'
  BY <1>4, <1>5 DEF LotsFinite
<1>7. OpenOrdersValid'
  <2>1. /\ DOMAIN orders' = DOMAIN orders
        /\ \A j \in DOMAIN orders : j # i => orders'[j] = orders[j]
        /\ orders'[i].status = "alltraded"
    BY <1>1, MarkType
  <2>2. QED  BY <1>1, <2>1 DEF Books, OpenOrdersValid, Complete
<1>8. TradesValid'
  <2>1. /\ DOMAIN trades' = DOMAIN trades \cup {Len(trades) + 1}
        /\ trades'[Len(trades) + 1] = x
        /\ \A m \in DOMAIN trades : trades'[m] = trades[m]
    BY <1>1 DEF TypeOK
  <2>2. x.req.volume \in 1 .. 500
    BY <1>2
  <2> HIDE DEF r, v, x
  <2>3. QED  BY <2>1, <2>2 DEF Books, TradesValid
<1> HIDE DEF r, v, x
<1>9. ASSUME NEW t \in Sides
      PROVE  /\ pos'[t].position >= 0
             /\ pos'[t].position = OpenedLots(t)' - ClosedLots(t)'
             /\ pos'[t].frozen >= OpenLots(t)'
             /\ ~reused' => pos'[t].frozen = OpenLots(t)'
  <2>1. /\ pos[t].position \in Int /\ pos[t].frozen \in Int
        /\ OpenLots(t) \in Nat /\ OpenedLots(t) \in Nat /\ ClosedLots(t) \in Nat
    BY CountsType DEF Books
  <2>2. /\ pos[t].position >= 0
        /\ pos[t].position = OpenedLots(t) - ClosedLots(t)
        /\ pos[t].frozen >= OpenLots(t)
        /\ ~reused => pos[t].frozen = OpenLots(t)
    BY BooksCounts
  <2>3. CASE FillOpen(i, s)
    <3>1. Opens(r, s) /\ pos' = Moved(s, v, -v)
      BY <2>3 DEF FillOpen, r, v
    <3>2. ~Closes(r, t) /\ (t # s => ~Opens(r, t))
      BY <3>1, OneSide
    <3>3. CASE t = s
      <4>1. pos'[t].position = pos[t].position + v /\ pos'[t].frozen = pos[t].frozen + (-v)
        BY <1>3, <3>1, <3>3, MovedType
      <4>2. /\ OpenLots(t)' = OpenLots(t) - v /\ OpenedLots(t)' = OpenedLots(t) + v
            /\ ClosedLots(t)' = ClosedLots(t)
        BY <1>4, <1>5, <3>1, <3>2, <3>3
      <4>3. reused' = reused
        BY <1>1
      <4>4. QED
        BY <1>3, <2>1, <2>2, <4>1, <4>2, <4>3
    <3>4. CASE t # s
      <4>1. pos'[t] = pos[t]
        BY <1>3, <3>1, <3>4, MovedType
      <4>2. QED
        BY <1>1, <1>4, <1>5, <2>1, <2>2, <3>2, <3>4, <4>1
    <3>5. QED  BY <3>3, <3>4
  <2>4. CASE FillClose(i, s)
    <3>1. Closes(r, s) /\ pos' = Moved(s, -v, 0) /\ pos[s].position >= v
      BY <2>4 DEF FillClose, Enough, r, v
    <3>2. ~Opens(r, t) /\ (t # s => ~Closes(r, t))
      BY <3>1, OneSide
    <3>3. CASE t = s
      <4>1. pos'[t].position = pos[t].position + (-v) /\ pos'[t].frozen = pos[t].frozen + 0
        BY <1>3, <3>1, <3>3, MovedType
      <4>2. /\ OpenLots(t)' = OpenLots(t) /\ OpenedLots(t)' = OpenedLots(t)
            /\ ClosedLots(t)' = ClosedLots(t) + v
        BY <1>4, <1>5, <3>1, <3>2, <3>3
      <4>3. reused' = reused
        BY <1>1
      <4>4. QED
        BY <1>3, <2>1, <2>2, <3>1, <3>3, <4>1, <4>2, <4>3
    <3>4. CASE t # s
      <4>1. pos'[t] = pos[t]
        <5>1. -v \in Int /\ 0 \in Int
          BY <1>3
        <5>2. Moved(s, -v, 0)[t] = pos[t]
          BY <3>4, <5>1, MovedType
        <5>3. QED  BY <3>1, <5>2
      <4>2. QED
        BY <1>1, <1>4, <1>5, <2>1, <2>2, <3>2, <3>4, <4>1
    <3>5. QED  BY <3>3, <3>4
  <2>5. QED  BY <2>3, <2>4
<1>10. QED  BY <1>6, <1>7, <1>8, <1>9, BooksFromCounts

\* A cancelled or refused order: the trades stay, and a side's frozen lots go
\* down with its open ones.
LEMMA CancelBooks ==
  ASSUME TypeOK, Books, NEW i \in DOMAIN orders, ~Complete(orders[i]),
         orders' = [orders EXCEPT ![i].status = "cancelled"],
         UNCHANGED <<symbol, trades, reused>>,
         \A s \in Sides :
           /\ pos'[s].position = pos[s].position
           /\ pos'[s].frozen = IF Opens(orders[i].req, s)
                               THEN pos[s].frozen - orders[i].req.volume ELSE pos[s].frozen
  PROVE  Books'
<1> DEFINE r == orders[i].req
           v == r.volume
<1>1. v \in 1 .. 500
  BY DEF Books, OpenOrdersValid
<1>2. \A s \in Sides :
        /\ IsFiniteSet(Lots(orders', OpenIds(s)'))
        /\ OpenLots(s)' = IF Opens(r, s) THEN OpenLots(s) - v ELSE OpenLots(s)
  BY MarkedLots DEF Books
<1>3. \A s \in Sides : OpenedBy(s)' = OpenedBy(s) /\ ClosedBy(s)' = ClosedBy(s)
  BY DEF OpenedBy, ClosedBy
<1>4. \A s \in Sides : OpenedLots(s)' = OpenedLots(s) /\ ClosedLots(s)' = ClosedLots(s)
  BY <1>3 DEF OpenedLots, ClosedLots
<1>5. LotsFinite'
  BY <1>2, <1>3 DEF Books, LotsFinite
<1>6. OpenOrdersValid'
  <2>1. /\ DOMAIN orders' = DOMAIN orders
        /\ \A j \in DOMAIN orders : j # i => orders'[j] = orders[j]
        /\ orders'[i].status = "cancelled"
    BY MarkType
  <2>2. QED  BY <2>1 DEF Books, OpenOrdersValid, Complete
<1>7. TradesValid'
  BY DEF Books, TradesValid
<1>8. ASSUME NEW s \in Sides
      PROVE  /\ pos'[s].position >= 0
             /\ pos'[s].position = OpenedLots(s)' - ClosedLots(s)'
             /\ pos'[s].frozen >= OpenLots(s)'
             /\ ~reused' => pos'[s].frozen = OpenLots(s)'
  <2>1. /\ pos[s].position \in Int /\ pos[s].frozen \in Int
        /\ OpenLots(s) \in Nat /\ OpenedLots(s) \in Nat /\ ClosedLots(s) \in Nat
    BY CountsType DEF Books
  <2>2. /\ pos[s].position >= 0
        /\ pos[s].position = OpenedLots(s) - ClosedLots(s)
        /\ pos[s].frozen >= OpenLots(s)
        /\ ~reused => pos[s].frozen = OpenLots(s)
    BY BooksCounts
  <2>3. /\ pos'[s].position = pos[s].position
        /\ pos'[s].frozen = IF Opens(r, s) THEN pos[s].frozen - v ELSE pos[s].frozen
    OBVIOUS
  <2> HIDE DEF r, v
  <2>4. QED
    BY <1>1, <1>2, <1>4, <2>1, <2>2, <2>3
<1>9. QED  BY <1>5, <1>6, <1>7, <1>8, BooksFromCounts

\* An order under a new id adds its lots; one under a taken id hides the old ones.
LEMMA FiledLots ==
  ASSUME TypeOK, LotsFinite, NEW i, NEW r, NEW st \in {"nottraded", "cancelled"},
         r.volume \in Nat \/ st = "cancelled",
         orders' = Filed(i, r, st), NEW s \in Sides
  PROVE  /\ IsFiniteSet(Lots(orders', OpenIds(s)'))
         /\ LET v == IF st = "nottraded" /\ Opens(r, s) THEN r.volume ELSE 0
            IN /\ OpenLots(s)' <= OpenLots(s) + v
               /\ i \notin DOMAIN orders => OpenLots(s)' = OpenLots(s) + v
<1> DEFINE kept == OpenIds(s) \ {i}
<1>1. /\ DOMAIN orders' = DOMAIN orders \cup {i}
      /\ orders'[i] = [req |-> r, status |-> st]
      /\ \A j \in DOMAIN orders : j # i => orders'[j] = orders[j]
  BY DEF Filed
<1>2. Complete(orders'[i]) <=> st = "cancelled"
  BY <1>1 DEF Complete
<1>3. OpenIds(s)' = IF st = "nottraded" /\ Opens(r, s) THEN kept \cup {i} ELSE kept
  <2>1. \A j : j \in OpenIds(s)' <=> /\ j \in DOMAIN orders \cup {i}
                                     /\ ~Complete(orders'[j]) /\ Opens(orders'[j].req, s)
    BY <1>1 DEF OpenIds
  <2>2. \A j : j \in kept <=> /\ j \in DOMAIN orders /\ j # i
                              /\ ~Complete(orders[j]) /\ Opens(orders[j].req, s)
    BY DEF OpenIds
  <2>3. i \in OpenIds(s)' <=> st = "nottraded" /\ Opens(r, s)
    BY <1>1, <1>2, <2>1
  <2> HIDE DEF kept
  <2>4. \A j : j # i => (j \in OpenIds(s)' <=> j \in kept)
    BY <1>1, <2>1, <2>2
  <2>5. i \notin kept
    BY <2>2
  <2>6. QED  BY <2>3, <2>4, <2>5
<1>4. IsFiniteSet(Lots(orders, kept)) /\ Cardinality(Lots(orders, kept)) <= OpenLots(s)
  BY LotsFewer DEF LotsFinite, OpenLots
<1>5. i \notin DOMAIN orders => kept = OpenIds(s)
  BY DEF OpenIds
<1>6. Lots(orders', kept) = Lots(orders, kept)
  <2>1. \A j \in kept : orders'[j].req = orders[j].req
    BY <1>1 DEF OpenIds
  <2> HIDE DEF kept
  <2>2. QED  BY <2>1 DEF Lots
<1>7. i \notin kept
  OBVIOUS
<1> HIDE DEF kept
<1>8. Cardinality(Lots(orders, kept)) \in Nat /\ OpenLots(s) \in Nat
  BY <1>4, CountsType, FS_CardinalityType
<1>9. CASE st = "nottraded" /\ Opens(r, s)
  <2>1. orders'[i].req.volume = r.volume /\ r.volume \in Nat
    BY <1>1, <1>9
  <2>2. /\ IsFiniteSet(Lots(orders', kept \cup {i}))
        /\ Cardinality(Lots(orders', kept \cup {i}))
             = Cardinality(Lots(orders', kept)) + orders'[i].req.volume
    BY <1>4, <1>6, <1>7, <2>1, LotsAdded
  <2>3. OpenLots(s)' = Cardinality(Lots(orders, kept)) + r.volume
    BY <1>3, <1>6, <1>9, <2>1, <2>2 DEF OpenLots
  <2>4. i \notin DOMAIN orders => OpenLots(s) = Cardinality(Lots(orders, kept))
    BY <1>5 DEF OpenLots
  <2>5. IsFiniteSet(Lots(orders', OpenIds(s)'))
    BY <1>3, <1>9, <2>2
  <2>6. QED  BY <1>4, <1>8, <1>9, <2>1, <2>3, <2>4, <2>5
<1>10. CASE ~(st = "nottraded" /\ Opens(r, s))
  <2>1. OpenIds(s)' = kept
    BY <1>3, <1>10
  <2>2. OpenLots(s)' = Cardinality(Lots(orders, kept))
    BY <1>6, <2>1 DEF OpenLots
  <2>3. i \notin DOMAIN orders => OpenLots(s) = Cardinality(Lots(orders, kept))
    BY <1>5 DEF OpenLots
  <2>4. IsFiniteSet(Lots(orders', OpenIds(s)'))
    BY <1>4, <1>6, <2>1
  <2>5. QED  BY <1>4, <1>8, <1>10, <2>2, <2>3, <2>4
<1>11. QED  BY <1>9, <1>10

LEMMA SendBooks ==
  ASSUME TypeOK, Books, OnSendOrder
  PROVE  Books'
<1> DEFINE i == Head(events).id
           r == Head(events).req
<1>1. i \in Nat /\ r \in Requests /\ r.volume \in Int
  BY TakeType, SendEvent DEF OnSendOrder, Take, Requests
<1>2. /\ UNCHANGED <<symbol, trades>>
      /\ reused' = (reused \/ i \in DOMAIN orders)
  BY DEF OnSendOrder
<1>3. PICK st \in {"nottraded", "cancelled"} :
        /\ orders' = Filed(i, r, st)
        /\ st = "nottraded" => Accepted(r) /\ pos' = FrozenMoved(r, r.volume)
        /\ st = "cancelled" => pos' = pos
  BY DEF OnSendOrder
<1>4. st = "nottraded" => /\ r.symbol = symbol /\ r.volume \in 1 .. 500
                          /\ r.offset \in {"open", "close"}
  BY <1>3 DEF Accepted
<1> HIDE DEF i, r
<1>5. r.volume \in Nat \/ st = "cancelled"
  BY <1>3, <1>4
<1> DEFINE added(s) == IF st = "nottraded" /\ Opens(r, s) THEN r.volume ELSE 0
<1>6. \A s \in Sides :
        /\ IsFiniteSet(Lots(orders', OpenIds(s)'))
        /\ OpenLots(s)' <= OpenLots(s) + added(s)
        /\ i \notin DOMAIN orders => OpenLots(s)' = OpenLots(s) + added(s)
  BY <1>3, <1>5, FiledLots DEF Books
<1>7. \A s \in Sides : OpenedBy(s)' = OpenedBy(s) /\ ClosedBy(s)' = ClosedBy(s)
  BY <1>2 DEF OpenedBy, ClosedBy
<1>8. \A s \in Sides : OpenedLots(s)' = OpenedLots(s) /\ ClosedLots(s)' = ClosedLots(s)
  BY <1>2, <1>7 DEF OpenedLots, ClosedLots
<1>9. LotsFinite'
  BY <1>2, <1>6, <1>7 DEF Books, LotsFinite
<1>10. TradesValid'
  BY <1>2 DEF Books, TradesValid
<1>11. OpenOrdersValid'
  <2>1. /\ DOMAIN orders' = DOMAIN orders \cup {i}
        /\ orders'[i] = [req |-> r, status |-> st]
        /\ \A j \in DOMAIN orders : j # i => orders'[j] = orders[j]
    BY <1>3 DEF Filed
  <2>2. ~Complete(orders'[i]) => st = "nottraded"
    BY <1>3, <2>1 DEF Complete
  <2>3. QED
    BY <1>2, <1>4, <2>1, <2>2 DEF Books, OpenOrdersValid, Complete
<1>12. ASSUME NEW s \in Sides
       PROVE  /\ pos'[s].position = pos[s].position
              /\ pos'[s].frozen = pos[s].frozen + added(s)
  <2>1. pos[s] \in Records /\ pos[s].frozen \in Int
    BY DEF TypeOK, Records
  <2>2. CASE st = "nottraded"
    <3>1. pos'[s] = IF Opens(r, s) THEN [pos[s] EXCEPT !.frozen = @ + r.volume] ELSE pos[s]
      BY <1>3, <2>2 DEF FrozenMoved
    <3>2. QED  BY <1>1, <2>1, <2>2, <3>1, RecordMoved
  <2>3. CASE st = "cancelled"
    BY <1>3, <2>1, <2>3
  <2>4. QED  BY <2>2, <2>3
<1>13. ASSUME NEW s \in Sides
       PROVE  /\ pos'[s].position >= 0
              /\ pos'[s].position = OpenedLots(s)' - ClosedLots(s)'
              /\ pos'[s].frozen >= OpenLots(s)'
              /\ ~reused' => pos'[s].frozen = OpenLots(s)'
  <2>1. /\ pos[s].position \in Int /\ pos[s].frozen \in Int
        /\ OpenLots(s) \in Nat /\ OpenedLots(s) \in Nat /\ ClosedLots(s) \in Nat
    BY CountsType DEF Books
  <2>2. /\ pos[s].position >= 0
        /\ pos[s].position = OpenedLots(s) - ClosedLots(s)
        /\ pos[s].frozen >= OpenLots(s)
        /\ ~reused => pos[s].frozen = OpenLots(s)
    BY BooksCounts
  <2>3. added(s) \in Nat
    BY <1>5
  <2>4. OpenLots(s)' \in Nat
    BY <1>9, FS_CardinalityType DEF LotsFinite, OpenLots
  <2>5. ~reused' => ~reused /\ i \notin DOMAIN orders
    BY <1>2
  <2> HIDE DEF added
  <2>6. QED  BY <1>6, <1>8, <1>12, <2>1, <2>2, <2>3, <2>4, <2>5
<1>14. QED  BY <1>9, <1>10, <1>11, <1>13, BooksFromCounts

LEMMA CancelOrderBooks ==
  ASSUME TypeOK, Books, OnCancelOrder
  PROVE  Books'
<1> DEFINE i == Head(events).id
<1>1. CASE CancelAllowed(i)
  <2>1. i \in DOMAIN orders /\ ~Complete(orders[i])
    BY <1>1 DEF CancelAllowed
  <2>2. /\ orders' = [orders EXCEPT ![i].status = "cancelled"]
        /\ pos' = FrozenMoved(orders[i].req, -orders[i].req.volume)
        /\ UNCHANGED <<symbol, trades, reused>>
    BY <1>1 DEF OnCancelOrder
  <2> HIDE DEF i
  <2>3. orders[i].req.volume \in Int /\ -orders[i].req.volume \in Int
    BY <2>1 DEF TypeOK, Orders, Requests
  <2>4. ASSUME NEW s \in Sides
        PROVE  /\ pos'[s].position = pos[s].position
               /\ pos'[s].frozen = IF Opens(orders[i].req, s)
                                   THEN pos[s].frozen - orders[i].req.volume
                                   ELSE pos[s].frozen
    <3>1. pos[s] \in Records /\ pos[s].frozen \in Int
      BY DEF TypeOK, Records
    <3>2. pos'[s] = IF Opens(orders[i].req, s)
                    THEN [pos[s] EXCEPT !.frozen = @ + (-orders[i].req.volume)] ELSE pos[s]
      BY <2>2 DEF FrozenMoved
    <3>3. QED  BY <2>3, <3>1, <3>2, RecordMoved
  <2>5. QED  BY <2>1, <2>2, <2>4, CancelBooks
<1>2. CASE ~CancelAllowed(i)
  BY <1>2, OtherBooks DEF OnCancelOrder, book
<1>3. QED  BY <1>1, <1>2

LEMMA RefuseBooks ==
  ASSUME TypeOK, Books, NEW i \in left, NEW s \in Sides, RefuseClose(i, s)
  PROVE  Books'
<1>1. /\ i \in DOMAIN orders /\ ~Complete(orders[i]) /\ Closes(orders[i].req, s)
      /\ orders' = [orders EXCEPT ![i].status = "cancelled"]
      /\ UNCHANGED <<symbol, pos, trades, reused>>
  BY DEF RefuseClose, Due, Visit, TypeOK
<1>2. \A t \in Sides : ~Opens(orders[i].req, t)
  BY <1>1, OneSide
<1>3. QED  BY <1>1, <1>2, CancelBooks

LEMMA BooksStep == TypeOK /\ Books /\ [Next]_vars => Books'
<1> SUFFICES ASSUME TypeOK, Books, [Next]_vars
             PROVE  Books'
  OBVIOUS
<1>1. CASE Callers
  BY <1>1, OtherBooks DEF Callers, CountOrder, PostOrder, PostCancel, PostTick, ClickStart,
     ClickStartUnset, ClickStop
<1>2. CASE BlogicTakes
  BY <1>2, ResetBooks, SendBooks, CancelOrderBooks, OtherBooks
     DEF BlogicTakes, OnStart, OnStop, OnGotTick
<1>3. CASE Matches
  <2>1. ASSUME NEW i \in left, Pass(i)
        PROVE  Books'
    BY <2>1, OtherBooks DEF Pass, Visit, book
  <2>2. CASE EndLoop
    BY <2>2, OtherBooks DEF EndLoop
  <2>3. QED  BY <1>3, <2>1, <2>2, FillBooks, RefuseBooks DEF Matches
<1>4. CASE UNCHANGED vars
  BY <1>4, OtherBooks DEF vars
<1>5. QED  BY <1>1, <1>2, <1>3, <1>4 DEF Next

LEMMA InitBooks == Init => Books
  BY EmptyBooks, NoOrdersType DEF Init

THEOREM BooksInductive == Spec => [](TypeOK /\ Books)
<1>1. Init => TypeOK /\ Books
  BY InitType, InitBooks
<1>2. TypeOK /\ Books /\ [Next]_vars => (TypeOK /\ Books)'
  BY Types, BooksStep
<1>3. QED  BY <1>1, <1>2, PTL DEF Spec

\* No position goes short, whatever closes, ticks, cancels and restarts do.
THEOREM PositionNeverOversold == Spec => []NeverOversold
<1>1. TypeOK /\ Books => NeverOversold
  BY DEF Books
<1>2. QED  BY <1>1, BooksInductive, PTL

\* The position is always what the trades of the session add up to.
THEOREM PositionAlwaysMatchesTrades == Spec => []PositionMatchesTrades
<1>1. TypeOK /\ Books => PositionMatchesTrades
  BY DEF Books
<1>2. QED  BY <1>1, BooksInductive, PTL

\* The frozen lots always cover the open orders, and match them while ids differ.
THEOREM FrozenAlwaysMatchesOrders == Spec => []FrozenMatchesOrders
<1>1. TypeOK /\ Books => FrozenMatchesOrders
  BY DEF Books
<1>2. QED  BY <1>1, BooksInductive, PTL

\* cancelOrder and the fills never look up a position that is not there.
THEOREM OpenOrdersAlwaysHavePosition == Spec => []OpenOrdersHavePosition
<1>1. TypeOK /\ Books => OpenOrdersHavePosition
  BY DEF Books, OpenOrdersValid, OpenOrdersHavePosition
<1>2. QED  BY <1>1, BooksInductive, PTL

-----------------------------------------------------------------------------
(* Orders and trades, and the loop over the orders *)

\* What the fills have in common, and what the other steps of the loop do.
LEMMA FillStep ==
  ASSUME TypeOK, NEW i \in left, NEW s \in Sides, FillOpen(i, s) \/ FillClose(i, s)
  PROVE  /\ i \in DOMAIN orders /\ ~Complete(orders[i]) /\ Crosses(orders[i].req)
         /\ DOMAIN orders' = DOMAIN orders
         /\ \A j \in DOMAIN orders : orders'[j].req = orders[j].req
         /\ \A j \in DOMAIN orders : j # i => orders'[j] = orders[j]
         /\ orders'[i].status = "alltraded"
         /\ Traded(i) /\ Visit(i)
<1>1. /\ i \in DOMAIN orders /\ Traded(i) /\ Visit(i) /\ Due(orders[i])
      /\ orders' = [orders EXCEPT ![i].status = "alltraded"]
  BY DEF FillOpen, FillClose, Traded, TypeOK
<1>2. QED  BY <1>1, MarkType DEF Due

LEMMA RefuseStep ==
  ASSUME TypeOK, NEW i \in left, NEW s \in Sides, RefuseClose(i, s)
  PROVE  /\ i \in DOMAIN orders /\ ~Complete(orders[i])
         /\ DOMAIN orders' = DOMAIN orders
         /\ \A j \in DOMAIN orders : orders'[j].req = orders[j].req
         /\ \A j \in DOMAIN orders : j # i => orders'[j] = orders[j]
         /\ orders'[i].status = "cancelled"
         /\ Visit(i) /\ UNCHANGED trades
<1>1. /\ i \in DOMAIN orders /\ Visit(i) /\ Due(orders[i]) /\ UNCHANGED trades
      /\ orders' = [orders EXCEPT ![i].status = "cancelled"]
  BY DEF RefuseClose, TypeOK
<1>2. QED  BY <1>1, MarkType DEF Due

LEMMA CancelStep ==
  ASSUME TypeOK, OnCancelOrder
  PROVE  /\ DOMAIN orders' = DOMAIN orders
         /\ \A j \in DOMAIN orders : orders'[j].req = orders[j].req
         /\ \A j \in DOMAIN orders :
              orders'[j] = orders[j] \/ (~Complete(orders[j]) /\ orders'[j].status = "cancelled")
         /\ UNCHANGED <<trades, reused>>
<1> DEFINE i == Head(events).id
<1>1. CASE CancelAllowed(i)
  <2>1. /\ i \in DOMAIN orders /\ ~Complete(orders[i]) /\ UNCHANGED <<trades, reused>>
        /\ orders' = [orders EXCEPT ![i].status = "cancelled"]
    BY <1>1 DEF OnCancelOrder, CancelAllowed
  <2> HIDE DEF i
  <2>2. QED  BY <2>1, MarkType
<1>2. CASE ~CancelAllowed(i)
  BY <1>2 DEF OnCancelOrder
<1>3. QED  BY <1>1, <1>2

LEMMA SendStep ==
  ASSUME TypeOK, OnSendOrder
  PROVE  \E i \in Nat :
           /\ DOMAIN orders' = DOMAIN orders \cup {i}
           /\ orders'[i].status \in {"nottraded", "cancelled"}
           /\ \A j \in DOMAIN orders : j # i => orders'[j] = orders[j]
           /\ reused' = (reused \/ i \in DOMAIN orders)
           /\ UNCHANGED trades
<1> DEFINE i == Head(events).id
           r == Head(events).req
<1>1. i \in Nat
  BY TakeType, SendEvent DEF OnSendOrder, Take
<1>2. \E st \in {"nottraded", "cancelled"} : orders' = Filed(i, r, st)
  BY DEF OnSendOrder
<1>3. reused' = (reused \/ i \in DOMAIN orders) /\ UNCHANGED trades
  BY DEF OnSendOrder
<1> HIDE DEF i, r
<1>4. QED  BY <1>1, <1>2, <1>3 DEF Filed

\* A complete order changes only when the session is reset or its id is reused.
THEOREM CompleteOrdersStay == Spec => CompleteStays
<1>1. ASSUME TypeOK, [Next]_vars, NEW i \in DOMAIN orders, Complete(orders[i]), ~reused'
      PROVE  orders' = <<>> \/ orders'[i] = orders[i]
  <2>1. CASE UNCHANGED orders
    BY <2>1
  <2>2. CASE Callers
    BY <2>2 DEF Callers, CountOrder, PostOrder, PostCancel, PostTick, ClickStart, ClickStartUnset,
       ClickStop, book
  <2>3. CASE OnStart \/ OnStop
    BY <2>3 DEF OnStart, OnStop, ResetData
  <2>4. CASE OnSendOrder
    BY <1>1, <2>4, SendStep
  <2>5. CASE OnCancelOrder
    BY <1>1, <2>5, CancelStep
  <2>6. CASE OnGotTick
    BY <2>6 DEF OnGotTick, book
  <2>7. CASE Matches
    <3>1. ASSUME NEW j \in left, Pass(j)
          PROVE  UNCHANGED orders
      BY <3>1 DEF Pass
    <3>2. CASE EndLoop
      BY <3>2 DEF EndLoop, book
    <3>3. ASSUME NEW j \in left, NEW s \in Sides, FillOpen(j, s) \/ FillClose(j, s)
          PROVE  orders'[i] = orders[i]
      BY <1>1, <3>3, FillStep
    <3>4. ASSUME NEW j \in left, NEW s \in Sides, RefuseClose(j, s)
          PROVE  orders'[i] = orders[i]
      BY <1>1, <3>4, RefuseStep
    <3>5. QED  BY <2>7, <3>1, <3>2, <3>3, <3>4 DEF Matches
  <2>8. CASE UNCHANGED vars
    BY <2>8 DEF vars, book
  <2>9. QED  BY <1>1, <2>2, <2>3, <2>4, <2>5, <2>6, <2>7, <2>8 DEF Next, BlogicTakes
<1>2. TypeOK /\ [Next]_vars =>
        [\A i \in DOMAIN orders :
           Complete(orders[i]) /\ ~reused' => orders' = <<>> \/ orders'[i] = orders[i]]_vars
  BY <1>1
<1>3. QED  BY <1>2, TypeCorrect, PTL DEF Spec, CompleteStays

\* The loop leaves no order behind that the tick fills.
THEOREM TicksAlwaysMatchedInFull == Spec => []MatchedInFull
<1>1. Init => MatchedInFull
  BY DEF Init, MatchedInFull
<1>2. ASSUME TypeOK, MatchedInFull, [Next]_vars
      PROVE  MatchedInFull'
  <2>1. CASE UNCHANGED <<orders, tick, left>>
    BY <1>2, <2>1 DEF MatchedInFull, Due, Crosses
  <2>2. CASE Callers
    BY <2>1, <2>2 DEF Callers, CountOrder, PostOrder, PostCancel, PostTick, ClickStart,
       ClickStartUnset, ClickStop, book
  <2>3. CASE OnStart \/ OnStop \/ OnSendOrder \/ OnCancelOrder
    BY <2>3 DEF OnStart, OnStop, OnSendOrder, OnCancelOrder, Take, ResetData, MatchedInFull
  <2>4. CASE OnGotTick
    BY <2>4 DEF OnGotTick, book, MatchedInFull
  <2>5. CASE EndLoop
    BY <2>5 DEF EndLoop, MatchedInFull
  <2>6. ASSUME NEW i \in left, Pass(i)
        PROVE  MatchedInFull'
    BY <1>2, <2>6 DEF Pass, Visit, MatchedInFull, Due, Crosses
  <2>7. ASSUME NEW i \in left, Visit(i), DOMAIN orders' = DOMAIN orders,
               \A j \in DOMAIN orders : j # i => orders'[j] = orders[j],
               orders'[i].status \in {"alltraded", "cancelled"}
        PROVE  MatchedInFull'
    BY <1>2, <2>7 DEF Visit, MatchedInFull, Due, Crosses, Complete
  <2>8. ASSUME NEW i \in left, NEW s \in Sides, FillOpen(i, s) \/ FillClose(i, s)
        PROVE  MatchedInFull'
    BY <1>2, <2>7, <2>8, FillStep
  <2>9. ASSUME NEW i \in left, NEW s \in Sides, RefuseClose(i, s)
        PROVE  MatchedInFull'
    BY <1>2, <2>7, <2>9, RefuseStep
  <2>10. QED
    BY <1>2, <2>1, <2>2, <2>3, <2>4, <2>5, <2>6, <2>8, <2>9
       DEF Next, BlogicTakes, Matches, vars, book
<1>3. QED  BY <1>1, <1>2, TypeCorrect, PTL DEF Spec

\* The parts of TradesMatchOrders: what is traded, and what a trade says.
TradedIffTrade ==
  \A i \in DOMAIN orders :
    orders[i].status = "alltraded" <=> \E n \in DOMAIN trades : trades[n].id = i
TradeRight(n) ==
  /\ trades[n].id \in DOMAIN orders
  /\ trades[n].req = orders[trades[n].id].req
  /\ Buys(trades[n].req) => trades[n].price <= trades[n].req.price
  /\ Sells(trades[n].req) => trades[n].price >= trades[n].req.price
  /\ \A m \in DOMAIN trades : trades[m].id = trades[n].id => m = n
TradesBooked == TradedIffTrade /\ \A n \in DOMAIN trades : TradeRight(n)

LEMMA BookedFill ==
  ASSUME TypeOK, TradesBooked, NEW i \in left, NEW s \in Sides,
         FillOpen(i, s) \/ FillClose(i, s)
  PROVE  TradesBooked'
<1>0. PICK n, x : /\ n = Len(trades) + 1
                  /\ x = [id |-> i, req |-> orders[i].req, price |-> tick.price]
  OBVIOUS
<1>1. /\ i \in DOMAIN orders /\ ~Complete(orders[i]) /\ Crosses(orders[i].req)
      /\ DOMAIN orders' = DOMAIN orders
      /\ \A j \in DOMAIN orders : orders'[j].req = orders[j].req
      /\ \A j \in DOMAIN orders : j # i => orders'[j] = orders[j]
      /\ orders'[i].status = "alltraded"
      /\ trades' = Append(trades, x)
  BY <1>0, FillStep DEF Traded
<1>2. /\ DOMAIN trades' = DOMAIN trades \cup {n} /\ n \notin DOMAIN trades
      /\ trades'[n] = x
      /\ \A m \in DOMAIN trades : trades'[m] = trades[m]
  BY <1>0, <1>1 DEF TypeOK
<1>3. \A m \in DOMAIN trades : trades[m].id # i
  BY <1>1 DEF TradesBooked, TradedIffTrade, Complete
<1>4. /\ x.id = i /\ x.req = orders[i].req
      /\ Buys(x.req) => x.price <= x.req.price
      /\ Sells(x.req) => x.price >= x.req.price
  <2>1. /\ Buys(orders[i].req) => tick.price <= orders[i].req.price
        /\ Sells(orders[i].req) => tick.price >= orders[i].req.price
    <3>1. ~(Buys(orders[i].req) /\ Sells(orders[i].req))
      BY DEF Buys, Sells
    <3>2. orders[i].req.price \in Int /\ tick.price \in Int
      <4>1. orders[i].req \in Requests /\ tick \in Ticks \cup {NoTick}
        BY <1>1 DEF TypeOK, Orders
      <4>2. orders[i].req.price \in Int
        BY <4>1, PricesAssumption DEF Requests
      <4>3. tick \in Ticks => tick.price \in Int
        BY PricesAssumption DEF Ticks
      <4>4. NoTick.price \in Int
        BY DEF NoTick
      <4>5. QED  BY <4>1, <4>2, <4>3, <4>4
    <3>3. QED  BY <1>1, <3>1, <3>2 DEF Crosses
  <2>2. QED  BY <1>0, <2>1
<1>5. TradedIffTrade'
  BY <1>1, <1>2, <1>3, <1>4 DEF TradesBooked, TradedIffTrade
<1>6. ASSUME NEW m \in DOMAIN trades
      PROVE  TradeRight(m)'
  BY <1>1, <1>2, <1>3, <1>4 DEF TradesBooked, TradeRight
<1>7. TradeRight(n)'
  BY <1>1, <1>2, <1>3, <1>4 DEF TradesBooked, TradeRight
<1>8. QED  BY <1>2, <1>5, <1>6, <1>7 DEF TradesBooked

LEMMA BookedMark ==
  ASSUME TradesBooked, UNCHANGED trades, DOMAIN orders' = DOMAIN orders,
         \A j \in DOMAIN orders : orders'[j].req = orders[j].req,
         \A j \in DOMAIN orders :
           orders'[j] = orders[j] \/ (~Complete(orders[j]) /\ orders'[j].status = "cancelled")
  PROVE  TradesBooked'
<1>1. \A j \in DOMAIN orders :
        orders'[j].status = "alltraded" <=> orders[j].status = "alltraded"
  BY DEF Complete
<1>2. QED  BY <1>1 DEF TradesBooked, TradedIffTrade, TradeRight

LEMMA BookedSend ==
  ASSUME TypeOK, TradesBooked, OnSendOrder, ~reused'
  PROVE  TradesBooked'
<1>1. PICK i \in Nat :
        /\ DOMAIN orders' = DOMAIN orders \cup {i}
        /\ orders'[i].status \in {"nottraded", "cancelled"}
        /\ \A j \in DOMAIN orders : j # i => orders'[j] = orders[j]
        /\ reused' = (reused \/ i \in DOMAIN orders)
        /\ UNCHANGED trades
  BY SendStep
<1>2. i \notin DOMAIN orders
  BY <1>1
<1>3. \A n \in DOMAIN trades : trades[n].id # i
  BY <1>2 DEF TradesBooked, TradeRight
<1>4. QED  BY <1>1, <1>2, <1>3 DEF TradesBooked, TradedIffTrade, TradeRight

LEMMA BookedStep ==
  TypeOK /\ (~reused => TradesBooked) /\ [Next]_vars => (~reused => TradesBooked)'
<1> SUFFICES ASSUME TypeOK, ~reused => TradesBooked, [Next]_vars, ~reused'
             PROVE  TradesBooked'
  OBVIOUS
<1>1. CASE UNCHANGED <<orders, trades, reused>>
  BY <1>1 DEF TradesBooked, TradedIffTrade, TradeRight
<1>2. CASE Callers \/ OnGotTick \/ EndLoop \/ UNCHANGED vars
  BY <1>1, <1>2 DEF Callers, CountOrder, PostOrder, PostCancel, PostTick, ClickStart,
     ClickStartUnset, ClickStop, OnGotTick, EndLoop, vars, book
<1>3. CASE OnStart \/ OnStop
  <2>1. orders' = <<>> /\ trades' = <<>>
    BY <1>3 DEF OnStart, OnStop, ResetData
  <2>2. QED  BY <2>1, NoOrdersType DEF TradesBooked, TradedIffTrade, TradeRight
<1>4. CASE OnSendOrder
  <2>1. ~reused
    BY <1>4, SendStep
  <2>2. QED  BY <1>4, <2>1, BookedSend
<1>5. CASE OnCancelOrder
  BY <1>5, CancelStep, BookedMark
<1>6. ASSUME NEW i \in left, Pass(i)
      PROVE  TradesBooked'
  BY <1>1, <1>6 DEF Pass, Visit
<1>7. ASSUME NEW i \in left, NEW s \in Sides, FillOpen(i, s) \/ FillClose(i, s)
      PROVE  TradesBooked'
  BY <1>7, BookedFill DEF FillOpen, FillClose, Visit
<1>8. ASSUME NEW i \in left, NEW s \in Sides, RefuseClose(i, s)
      PROVE  TradesBooked'
  BY <1>8, RefuseStep, BookedMark DEF Visit
<1>9. QED
  BY <1>2, <1>3, <1>4, <1>5, <1>6, <1>7, <1>8 DEF Next, BlogicTakes, Matches

\* Every traded order has its one trade, and every trade its order, while ids differ.
THEOREM TradesAlwaysMatchOrders == Spec => []TradesMatchOrders
<1>1. Init => (~reused => TradesBooked)
  BY NoOrdersType DEF Init, TradesBooked, TradedIffTrade, TradeRight
<1>2. (~reused => TradesBooked) => TradesMatchOrders
  BY DEF TradesBooked, TradedIffTrade, TradeRight, TradesMatchOrders
<1>3. QED  BY <1>1, <1>2, BookedStep, TypeCorrect, PTL DEF Spec

=============================================================================
