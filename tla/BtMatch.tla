-------------------------------- MODULE BtMatch --------------------------------
(***************************************************************************)
(* The matching engine of btgateway: GatewayMgr, which trades one symbol   *)
(* per session on the BLOGIC thread, and the SendOrder and CancelOrder     *)
(* handlers that feed it.  gRPC runs several SendOrder handlers at a time; *)
(* each takes an order id from a shared counter on its own thread and      *)
(* queues the order for BLOGIC.  Ticks come from the replay (DbService).   *)
(*                                                                         *)
(* onGotTick is a loop over the orders; one step here is one order.  BLOGIC*)
(* takes no other event inside the loop, but the RPC threads run on.       *)
(***************************************************************************)
EXTENDS Integers, Sequences, FiniteSets

CONSTANTS
  Symbols,      \* the symbols that sessions, orders and ticks are about
  NoSymbol,     \* no session: positions_ is empty
  Prices,
  Offered,      \* the order requests that the clients send
  Threads,      \* the gRPC threads that run SendOrder
  MaxOrders,    \* bound: SendOrder calls
  MaxCancels,   \* bound: CancelOrder calls
  MaxTicks,     \* bound: ticks
  MaxSessions,  \* bound: clicks on BtStart
  MaxQueue      \* bound: events waiting for BLOGIC

Directions == {"long", "short", "net", "unknown"}
Offsets == {"unknown", "open", "close", "closeToday", "closeYesterday"}
Requests == [symbol : Symbols, dir : Directions, offset : Offsets,
             price : Prices, volume : Int, limit : BOOLEAN]

ASSUME NoSymbolAssumption == NoSymbol \notin Symbols
ASSUME PricesAssumption == Prices \subseteq Int
ASSUME OfferedAssumption == Offered \subseteq Requests
ASSUME BoundsAssumption ==
  /\ MaxOrders \in Nat /\ MaxCancels \in Nat /\ MaxTicks \in Nat /\ MaxSessions \in Nat
  /\ MaxQueue \in Nat

VARIABLES
  orderId,   \* orderId_, the atomic counter
  counted,   \* the SendOrder handlers between the increment and the read of it
  events,    \* the Qt event queue of BLOGIC
  canStart,  \* BtStart is enabled in the window (and BtStop is not)
  symbol,    \* the symbol of the session, the key of its two positions
  pos,       \* positions_: position and frozen of the long and the short side
  orders,    \* orders_: id -> request and status
  trades,    \* trades_: its keys are 1, 2, ...
  tick,      \* the tick that onGotTick works on, NoTick outside its loop
  left,      \* the ids the loop has still to visit
  reused,    \* history: an order of this session was filed under a taken id
  used       \* how much of each bound is used

book == <<symbol, pos, orders, trades, reused>>
vars == <<orderId, counted, events, canStart, book, tick, left, used>>

-----------------------------------------------------------------------------
Sides == {"long", "short"}
Bounds == {"orders", "cancels", "ticks", "sessions"}

Buys(r) == r.dir \in {"long", "net"}
Sells(r) == r.dir = "short"

\* The position that a request opens or closes.
Side(r) == IF Buys(r) = (r.offset = "open") THEN "long" ELSE "short"
Opens(r, s) == r.offset = "open" /\ (Buys(r) \/ Sells(r)) /\ Side(r) = s
Closes(r, s) == r.offset = "close" /\ (Buys(r) \/ Sells(r)) /\ Side(r) = s

Ticks == [symbol : Symbols, price : Prices]
NoTick == [symbol |-> NoSymbol, price |-> 0]
Orders == [req : Requests, status : {"nottraded", "alltraded", "cancelled"}]
Trades == [id : Nat, req : Requests, price : Prices]
Events ==
  [kind : {"send"}, id : Nat, req : Requests]
    \cup [kind : {"cancel"}, id : Nat]
    \cup [kind : {"start"}, symbol : Symbols]
    \cup [kind : {"stop"}]
    \cup [kind : {"tick"}, tick : Ticks]

TypeOK ==
  /\ orderId \in Nat
  /\ counted \in SUBSET Threads
  /\ events \in Seq(Events)
  /\ canStart \in BOOLEAN
  /\ symbol \in Symbols \cup {NoSymbol}
  /\ pos \in [Sides -> [position : Int, frozen : Int]]
  /\ DOMAIN orders \in SUBSET Nat /\ orders \in [DOMAIN orders -> Orders]
  /\ trades \in Seq(Trades)
  /\ tick \in Ticks \cup {NoTick}
  /\ left \in SUBSET DOMAIN orders /\ (tick = NoTick => left = {})
  /\ reused \in BOOLEAN
  /\ used \in [Bounds -> Nat]

Flat == [s \in Sides |-> [position |-> 0, frozen |-> 0]]

Init ==
  /\ orderId = 0 /\ counted = {}
  /\ events = <<>>
  /\ canStart = TRUE
  /\ symbol = NoSymbol
  /\ pos = Flat
  /\ orders = <<>> /\ trades = <<>>
  /\ tick = NoTick /\ left = {}
  /\ reused = FALSE
  /\ used = [b \in Bounds |-> 0]

-----------------------------------------------------------------------------
(* The callers of BLOGIC *)

Spend(what, limit) == used[what] < limit /\ used' = [used EXCEPT ![what] = @ + 1]
Post(e) == Len(events) < MaxQueue /\ events' = Append(events, e)

\* getOrderId increments the counter ...
CountOrder(t) ==
  /\ t \notin counted
  /\ Spend("orders", MaxOrders)
  /\ orderId' = orderId + 1
  /\ counted' = counted \cup {t}
  /\ UNCHANGED <<events, canStart, book, tick, left>>

\* ... and reads it in a second access; the order is queued under what it read.
PostOrder(t, r) ==
  /\ t \in counted
  /\ counted' = counted \ {t}
  /\ Post([kind |-> "send", id |-> orderId, req |-> r])
  /\ UNCHANGED <<orderId, canStart, book, tick, left, used>>

PostCancel(i) ==
  /\ Spend("cancels", MaxCancels)
  /\ Post([kind |-> "cancel", id |-> i])
  /\ UNCHANGED <<orderId, counted, canStart, book, tick, left>>

\* DbService::gotTick.
PostTick(x) ==
  /\ Spend("ticks", MaxTicks)
  /\ Post([kind |-> "tick", tick |-> x])
  /\ UNCHANGED <<orderId, counted, canStart, book, tick, left>>

ClickStart(x) ==
  /\ canStart
  /\ Spend("sessions", MaxSessions)
  /\ canStart' = FALSE
  /\ Post([kind |-> "start", symbol |-> x])
  /\ UNCHANGED <<orderId, counted, book, tick, left>>

\* No symbol is configured: the buttons change, and nothing else.
ClickStartUnset ==
  /\ canStart
  /\ Spend("sessions", MaxSessions)
  /\ canStart' = FALSE
  /\ UNCHANGED <<orderId, counted, events, book, tick, left>>

ClickStop ==
  /\ ~canStart
  /\ canStart' = TRUE
  /\ Post([kind |-> "stop"])
  /\ UNCHANGED <<orderId, counted, book, tick, left, used>>

-----------------------------------------------------------------------------
(* start, stop, sendOrderWithId, cancelOrder *)

\* BLOGIC takes its next event.
Take(kind) ==
  /\ tick = NoTick /\ events # <<>>
  /\ Head(events).kind = kind
  /\ events' = Tail(events)
  /\ UNCHANGED <<counted, canStart, used>>

ResetDataKeepsTrades ==   \* mutant
  /\ orderId' = 0
  /\ pos' = Flat
  /\ orders' = <<>>
  /\ reused' = FALSE
  /\ UNCHANGED <<trades, tick, left>>

ResetData ==
  /\ orderId' = 0
  /\ pos' = Flat
  /\ orders' = <<>> /\ trades' = <<>>
  /\ reused' = FALSE
  /\ UNCHANGED <<tick, left>>

OnStart == Take("start") /\ symbol' = Head(events).symbol /\ ResetData
OnStop == Take("stop") /\ symbol' = NoSymbol /\ ResetData

\* One symbol, limit orders of 1 to 500 lots, open or close, and a close only of
\* what the position holds now.
Accepted(r) ==
  /\ r.symbol = symbol
  /\ r.limit
  /\ r.volume \in 1 .. 500
  /\ r.offset \in {"open", "close"}
  /\ \A s \in Sides : Closes(r, s) => pos[s].position >= r.volume

Filed(i, r, status) ==
  [j \in DOMAIN orders \cup {i} |->
     IF j = i THEN [req |-> r, status |-> status] ELSE orders[j]]

FrozenMoved(r, by) ==
  [s \in Sides |-> IF Opens(r, s) THEN [pos[s] EXCEPT !.frozen = @ + by] ELSE pos[s]]

OnSendOrder ==
  /\ Take("send")
  /\ LET i == Head(events).id
         r == Head(events).req
     IN /\ reused' = (reused \/ i \in DOMAIN orders)
        /\ IF Accepted(r)
           THEN orders' = Filed(i, r, "nottraded") /\ pos' = FrozenMoved(r, r.volume)
           ELSE orders' = Filed(i, r, "cancelled") /\ pos' = pos
  /\ UNCHANGED <<orderId, symbol, trades, tick, left>>

Complete(o) == o.status \in {"alltraded", "cancelled"}

\* An unknown or complete order is left as it is.
CancelAllowedAlways(i) == i \in DOMAIN orders   \* mutant
CancelAllowed(i) == i \in DOMAIN orders /\ ~Complete(orders[i])

OnCancelOrder ==
  /\ Take("cancel")
  /\ LET i == Head(events).id
     IN IF CancelAllowed(i)
        THEN /\ orders' = [orders EXCEPT ![i].status = "cancelled"]
             /\ pos' = FrozenMoved(orders[i].req, -orders[i].req.volume)
        ELSE UNCHANGED <<orders, pos>>
  /\ UNCHANGED <<orderId, symbol, trades, tick, left, reused>>

-----------------------------------------------------------------------------
(* onGotTick, onLongOpen, onShortOpen, onLongClose, onShortClose *)

OnGotTickEveryId ==   \* mutant
  /\ Take("tick")
  /\ tick' = Head(events).tick
  /\ left' = 1 .. orderId
  /\ UNCHANGED <<orderId, book>>
OnGotTick ==
  /\ Take("tick")
  /\ tick' = Head(events).tick
  /\ left' = DOMAIN orders
  /\ UNCHANGED <<orderId, book>>

\* orders_ is a QMap: its loop visits the ids in the order of their decimal
\* strings, "10" before "2".
Digits(n) == CHOOSE d \in 1 .. 10 : n < 10 ^ d /\ (d = 1 \/ n >= 10 ^ (d - 1))
Before(i, j) ==
  LET di == Digits(i)
      dj == Digits(j)
  IN IF di <= dj THEN i <= j \div 10 ^ (dj - di) ELSE i \div 10 ^ (di - dj) < j

Visit(i) ==
  /\ i \in left
  /\ \A j \in left \ {i} : Before(i, j)
  /\ left' = left \ {i}
  /\ UNCHANGED <<orderId, counted, events, canStart, symbol, tick, reused, used>>

CrossesBackwards(r) ==   \* mutant
  /\ r.symbol = tick.symbol
  /\ \/ Buys(r) /\ r.price <= tick.price
     \/ Sells(r) /\ r.price >= tick.price
Crosses(r) ==
  /\ r.symbol = tick.symbol
  /\ \/ Buys(r) /\ r.price >= tick.price
     \/ Sells(r) /\ r.price <= tick.price

Due(o) == ~Complete(o) /\ Crosses(o.req)

Pass(i) ==
  /\ Visit(i)
  /\ ~Due(orders[i])
  /\ UNCHANGED <<pos, orders, trades>>

Traded(i) ==
  /\ orders' = [orders EXCEPT ![i].status = "alltraded"]
  /\ trades' = Append(trades, [id |-> i, req |-> orders[i].req, price |-> tick.price])

Moved(s, lots, frozen) ==
  [pos EXCEPT ![s] = [position |-> @.position + lots, frozen |-> @.frozen + frozen]]

FillOpenKeepsFrozen(i, s) ==   \* mutant
  /\ Visit(i)
  /\ Due(orders[i]) /\ Opens(orders[i].req, s)
  /\ Traded(i)
  /\ pos' = Moved(s, orders[i].req.volume, 0)

FillOpen(i, s) ==
  /\ Visit(i)
  /\ Due(orders[i]) /\ Opens(orders[i].req, s)
  /\ Traded(i)
  /\ pos' = Moved(s, orders[i].req.volume, -orders[i].req.volume)

EnoughUnchecked(i, s) == TRUE   \* mutant
Enough(i, s) == pos[s].position >= orders[i].req.volume

FillClose(i, s) ==
  /\ Visit(i)
  /\ Due(orders[i]) /\ Closes(orders[i].req, s)
  /\ Enough(i, s)
  /\ Traded(i)
  /\ pos' = Moved(s, -orders[i].req.volume, 0)

RefuseCloseKeepsStatus(i, s) ==   \* mutant
  /\ Visit(i)
  /\ Due(orders[i]) /\ Closes(orders[i].req, s)
  /\ ~Enough(i, s)
  /\ UNCHANGED <<pos, orders, trades>>

\* Another close was filled since this one was accepted.
RefuseClose(i, s) ==
  /\ Visit(i)
  /\ Due(orders[i]) /\ Closes(orders[i].req, s)
  /\ ~Enough(i, s)
  /\ orders' = [orders EXCEPT ![i].status = "cancelled"]
  /\ UNCHANGED <<pos, trades>>

EndLoop ==
  /\ tick # NoTick /\ left = {}
  /\ tick' = NoTick
  /\ UNCHANGED <<orderId, counted, events, canStart, book, left, used>>

-----------------------------------------------------------------------------
Callers ==
  \/ \E t \in Threads : CountOrder(t) \/ \E r \in Offered : PostOrder(t, r)
  \/ \E i \in 1 .. MaxOrders : PostCancel(i)
  \/ \E x \in Ticks : PostTick(x)
  \/ \E x \in Symbols : ClickStart(x)
  \/ ClickStartUnset \/ ClickStop

BlogicTakes == OnStart \/ OnStop \/ OnSendOrder \/ OnCancelOrder \/ OnGotTick

Matches ==
  \/ \E i \in left :
       \/ Pass(i)
       \/ \E s \in Sides : FillOpen(i, s) \/ FillClose(i, s) \/ RefuseClose(i, s)
  \/ EndLoop

Next == Callers \/ BlogicTakes \/ Matches

Spec == Init /\ [][Next]_vars

-----------------------------------------------------------------------------
(* Properties *)

\* A lot is one unit of the volume of an order or a trade; volumes are summed by
\* counting lots.
Lots(f, S) == UNION {{i} \X (1 .. f[i].req.volume) : i \in S}

OpenIds(s) == {i \in DOMAIN orders : ~Complete(orders[i]) /\ Opens(orders[i].req, s)}
OpenedBy(s) == {n \in DOMAIN trades : Opens(trades[n].req, s)}
ClosedBy(s) == {n \in DOMAIN trades : Closes(trades[n].req, s)}

\* However many closes were accepted against the same position, and whatever
\* order ticks, cancels and restarts come in, no position goes short.
NeverOversold == \A s \in Sides : pos[s].position >= 0

\* The position is what the trades of this session opened less what they closed:
\* no trade is booked twice, lost, or carried over from the last session.
PositionMatchesTrades ==
  \A s \in Sides :
    pos[s].position = Cardinality(Lots(trades, OpenedBy(s)))
                        - Cardinality(Lots(trades, ClosedBy(s)))

\* What is frozen covers the open orders, and is exactly theirs as long as no
\* two orders got the same id.
FrozenMatchesOrders ==
  \A s \in Sides :
    /\ pos[s].frozen >= Cardinality(Lots(orders, OpenIds(s)))
    /\ ~reused => pos[s].frozen = Cardinality(Lots(orders, OpenIds(s)))

\* An open order is one of the session's symbol, so the unchecked lookups of
\* positions_ in cancelOrder and the four fills never return null.
OpenOrdersHavePosition ==
  \A i \in DOMAIN orders : ~Complete(orders[i]) => orders[i].req.symbol = symbol

\* An order is traded iff one trade says so, for its own side and volume and at
\* a price no worse than its limit.
TradesMatchOrders ==
  ~reused =>
    /\ \A i \in DOMAIN orders :
         orders[i].status = "alltraded" <=> \E n \in DOMAIN trades : trades[n].id = i
    /\ \A n \in DOMAIN trades :
         /\ trades[n].id \in DOMAIN orders
         /\ trades[n].req = orders[trades[n].id].req
         /\ Buys(trades[n].req) => trades[n].price <= trades[n].req.price
         /\ Sells(trades[n].req) => trades[n].price >= trades[n].req.price
         /\ \A m \in DOMAIN trades : trades[m].id = trades[n].id => m = n

\* The loop leaves no order behind that the tick fills.
MatchedInFull ==
  tick # NoTick => \A i \in DOMAIN orders \ left : ~Due(orders[i])

\* A complete order stays as it is until the session is reset.
CompleteStays ==
  [][\A i \in DOMAIN orders :
       Complete(orders[i]) /\ ~reused' => orders' = <<>> \/ orders'[i] = orders[i]]_vars

=============================================================================
