------------------------------- MODULE CtpOrders -------------------------------
(***************************************************************************)
(* Orders, trades and queries of ctpgateway: the order ids that SendOrder  *)
(* hands out on the gRPC threads, the commands that BLOGIC sends or keeps  *)
(* when CTP controls the flow, the callbacks on the CTP thread, and the    *)
(* lists of orders and positions in the window.                            *)
(*                                                                         *)
(* CTP is external.  It answers queries in one flow and sends the returns  *)
(* of orders and trades in another; the two reach the CTP thread in any    *)
(* order.  Returns are subscribed with QUICK: what happens between two     *)
(* logins is not sent again.  The session's start and stop are CtpSession. *)
(***************************************************************************)
EXTENDS Integers, Sequences, FiniteSets, Functions

CONSTANTS
  Threads,      \* the gRPC threads that run SendOrder
  Positions,    \* the number of position records of the account
  Budgets       \* bound: how many SendOrder calls, CancelOrder calls, queries, further logins
                \* and refusals by flow control a behaviour has

Kinds == {"orders", "cancels", "queries", "logins", "refusals"}

ASSUME PositionsAssumption == Positions \in Nat
ASSUME BudgetsAssumption == Budgets \subseteq [Kinds -> Nat]

VARIABLES
  session,    \* frontId_ and sessionId_: the last login heard of
  ref,        \* orderRef_
  handlers,   \* how far each SendOrder handler is, with the reference it has read
  answered,   \* the order ids returned to clients, by request
  events,     \* the queue of BLOGIC
  cmds,       \* the commands kept for a later try
  link,       \* the session the connection is logged in with, 0 when it is down
  orders,     \* CTP's orders of the day: session, reference, request, status
  rsp, rtn,   \* the two flows: answers, and returns of orders and trades
  known,      \* sysid2bfid_: system order id -> order id
  reqIds,     \* queryOrdersReqId_ # 0, queryPositionReqId_ # 0
  heard,      \* trades passed on: <<order, order id>>
  working, finished,   \* the ids that WorkingOrderForm and FinishedOrderForm keep
  rows,       \* positions_ of PositionForm: how often each record was added
  hist,       \* history, see NoHistory
  left        \* how much of the budget is left

gateway == <<session, ref, handlers, answered>>
ctp == <<link, orders, rsp, rtn>>
spi == <<known, reqIds, heard>>
forms == <<working, finished, rows>>
vars == <<gateway, events, cmds, ctp, spi, forms, hist, left>>

-----------------------------------------------------------------------------
Statuses == {"accepted", "working", "done"}
Ids == Nat \X Nat   \* front and session as one number, and the order reference

Id(n) == <<orders[n].session, orders[n].ref>>
\* The keys of sysid2bfid_: "exchange.system id", and the bare system id.
FullKey(n) == <<"exchange.sysid", n>>
BareKey(n) == <<"sysid", n>>
HasSysId(status) == status # "accepted"

\* What BLOGIC is asked: to run a command (an order has its request and its id), to make an
\* order of the window into one, or to hear that the connection is down.
Command(kind, q, id) == [kind |-> kind, req |-> q, id |-> id]
Send(q, id) == Command("send", q, id)
CancelOf(id) == Command("cancel", 0, id)
Query(kind) == Command(kind, 0, <<0, 0>>)
WindowOrder == Command("order", 0, <<0, 0>>)
Disconnected == Command("down", 0, <<0, 0>>)
CommandKinds == {"send", "cancel", "orders", "positions"}

\* A callback: its kind, the order or position it is about (0: none), the order's status
\* when CTP sent it, and bIsLast.
Callback(kind, n, status, last) == [kind |-> kind, n |-> n, status |-> status, last |-> last]

Use(kind) == left[kind] > 0 /\ left' = [left EXCEPT ![kind] = @ - 1]

Idle == [at |-> "idle", ref |-> 0]

\* History: a handler was disturbed, or an order was sent later than its session; a position
\* answer was cut; the order lists are as fresh as a query made them; a query is on its way
\* that no change has met; the orders of earlier sessions that a query listed since the login;
\* trades ignored although their order had been listed so.
NoHistory == [disturbed |-> FALSE, cut |-> FALSE, fresh |-> FALSE, alone |-> FALSE,
              listed |-> {}, ignored |-> {}]

Init ==
  /\ left \in Budgets
  /\ link = left.logins + 1 /\ session = link /\ ref = 0
  /\ handlers = [t \in Threads |-> Idle]
  /\ answered = <<>> /\ events = <<>> /\ cmds = <<>>
  /\ orders = <<>> /\ rsp = <<>> /\ rtn = <<>>
  /\ known = <<>> /\ reqIds = [orders |-> FALSE, positions |-> FALSE] /\ heard = {}
  /\ working = {} /\ finished = {} /\ rows = [p \in 1 .. Positions |-> 0]
  /\ hist = NoHistory

-----------------------------------------------------------------------------
(* RpcService: SendOrder computes the id on its own thread and queues the order. *)

Running(t) == handlers[t].at # "idle"

\* getOrderRef: orderRef_++, and then the value is read again.
CountRef(t) ==
  /\ ~ Running(t) /\ Use("orders")
  /\ ref' = ref + 1
  /\ handlers' = [handlers EXCEPT ![t].at = "counted"]
  /\ hist' = [hist EXCEPT !.disturbed = @ \/ \E u \in Threads : Running(u)]
  /\ UNCHANGED <<session, answered, events, cmds, ctp, spi, forms>>
ReadRef(t) ==
  /\ handlers[t].at = "counted"
  /\ handlers' = [handlers EXCEPT ![t] = [at |-> "read", ref |-> ref]]
  /\ UNCHANGED <<session, ref, answered, events, cmds, ctp, spi, forms, hist, left>>
\* genBfOrderId reads frontId_ and sessionId_ last.
BfOrderId(reference) == <<session, reference>>
Answer(t) ==
  /\ handlers[t].at = "read"
  /\ LET id == BfOrderId(handlers[t].ref)
     IN answered' = Append(answered, id) /\ events' = Append(events, Send(Len(answered) + 1, id))
  /\ handlers' = [handlers EXCEPT ![t] = Idle]
  /\ UNCHANGED <<session, ref, cmds, ctp, spi, forms, hist, left>>

\* CancelOrder for an id that a client got, and "cancel all" of WorkingOrderForm.
Cancel ==
  /\ Use("cancels")
  /\ \E id \in Range(answered) \cup working : events' = Append(events, CancelOf(id))
  /\ UNCHANGED <<gateway, cmds, ctp, spi, forms, hist>>
QueryOrders ==
  /\ Use("queries") /\ events' = Append(events, Query("orders"))
  /\ UNCHANGED <<gateway, cmds, ctp, spi, forms, hist>>
QueryPosition ==
  /\ Use("queries") /\ events' = Append(events, Query("positions"))
  /\ UNCHANGED <<gateway, cmds, ctp, spi, forms, hist>>
\* PositionForm's own button empties its rows first.
QueryPositionButton ==
  /\ Use("queries") /\ events' = Append(events, Query("positions"))
  /\ rows' = [p \in 1 .. Positions |-> 0]
  /\ UNCHANGED <<gateway, cmds, ctp, spi, working, finished, hist>>

\* An order from the window: TickForm's button, and PositionForm's, which closes the
\* subscribed positions it shows, one order for each.
SendOrderButton ==
  /\ Use("orders") /\ events' = Append(events, WindowOrder)
  /\ UNCHANGED <<gateway, cmds, ctp, spi, forms, hist>>
CloseAllButton ==
  /\ \E n \in 1 .. Cardinality({p \in DOMAIN rows : rows[p] > 0}) :
       /\ n <= left.orders /\ left' = [left EXCEPT !.orders = @ - n]
       /\ events' = events \o [i \in 1 .. n |-> WindowOrder]
  /\ UNCHANGED <<gateway, cmds, ctp, spi, forms, hist>>

-----------------------------------------------------------------------------
(* CTP, for a command that reaches it. *)

OrderReturn(n, status) == Callback("order", n, status, FALSE)
Taken(s, r) == \E n \in DOMAIN orders : orders[n].session = s /\ orders[n].ref = r

\* An error of CTP, to a request or from the exchange, is only logged.
Rejected == UNCHANGED <<orders, rtn>>

\* An order with a reference that its session has used before is rejected.
Insert(q, r) ==
  IF Taken(link, r) THEN Rejected
    ELSE /\ orders' = Append(orders,
              [session |-> link, ref |-> r, req |-> q, status |-> "accepted"])
         /\ rtn' = Append(rtn, OrderReturn(Len(orders) + 1, "accepted"))

\* Cancels go by front, session and reference.
Open(n) == orders[n].status # "done"
Named(id) == {n \in DOMAIN orders : Id(n) = id /\ Open(n)}
Action(id) ==
  IF Named(id) = {} THEN Rejected
    ELSE \E n \in Named(id) : /\ orders' = [orders EXCEPT ![n].status = "done"]
                              /\ rtn' = Append(rtn, OrderReturn(n, "done"))

\* An answer is a callback for each record, or one with none: nothing to list, or an error.
NoRecord(kind) == <<Callback(kind, 0, "accepted", TRUE)>>
OrderAnswers ==
  {NoRecord("qryOrder"),
   [n \in DOMAIN orders |-> Callback("qryOrder", n, orders[n].status, n = Len(orders))]}
    \ {<<>>}
PositionAnswers ==
  {NoRecord("qryPosition"),
   [p \in 1 .. Positions |-> Callback("qryPosition", p, "accepted", p = Positions)]}
    \ {<<>>}

Sent(c) ==
  CASE c.kind = "send" -> Insert(c.req, c.id[2]) /\ UNCHANGED rsp
    [] c.kind = "cancel" -> Action(c.id) /\ UNCHANGED rsp
    [] c.kind = "orders" -> (\E a \in OrderAnswers : rsp' = rsp \o a)
                            /\ UNCHANGED <<orders, rtn>>
    [] c.kind = "positions" -> (\E a \in PositionAnswers : rsp' = rsp \o a)
                               /\ UNCHANGED <<orders, rtn>>

-----------------------------------------------------------------------------
(* BLOGIC: a command is sent, or kept for a second when CTP says it is too fast; it is
   dropped on any other error, as when the connection is down. *)

\* An order that leaves after a login goes out with its old reference in the new session.
Late(c) == link # 0 /\ c.kind = "send" /\ c.id[1] # link
\* What a command that CTP takes changes in the history.
Alone(c) == IF c.kind = "orders" THEN rtn = <<>> ELSE hist.alone /\ rtn' = rtn

\* runCmd; disturbs: for the history.
Run(c, disturbs) ==
  /\ \/ /\ link = 0 /\ UNCHANGED <<cmds, orders, rsp, rtn, left>>
     \/ /\ link # 0 /\ Sent(c) /\ UNCHANGED <<cmds, left>>
     \/ /\ link # 0 /\ Use("refusals")
        /\ cmds' = Append(cmds, c) /\ UNCHANGED <<orders, rsp, rtn>>
  /\ hist' = [hist EXCEPT !.disturbed = @ \/ disturbs,
                          !.alone = IF cmds' = cmds /\ link # 0 THEN Alone(c) ELSE @]

IsEvent(kinds) == events # <<>> /\ Head(events).kind \in kinds

\* sendOrderWithId, cancelOrder, queryOrders and queryPosition.
RunCmd ==
  /\ IsEvent(CommandKinds) /\ Run(Head(events), Late(Head(events)))
  /\ events' = Tail(events)
  /\ UNCHANGED <<gateway, link, spi, forms>>
\* sendOrder of the window: BLOGIC makes the id itself, in one step; a handler may overlap.
SendOrder ==
  /\ IsEvent({"order"})
  /\ LET id == BfOrderId(ref + 1)
         c == Send(Len(answered) + 1, id)
     IN /\ answered' = Append(answered, id)
        /\ Run(c, Late(c) \/ \E t \in Threads : Running(t))
  /\ ref' = ref + 1
  /\ events' = Tail(events)
  /\ UNCHANGED <<session, handlers, link, spi, forms>>

\* onRunCmdInterval: the oldest kept command; refused again with -3, it stays.
RunKeptCmd ==
  /\ cmds # <<>>
  /\ \/ link = 0 /\ UNCHANGED <<orders, rsp, rtn, hist>>
     \/ link # 0 /\ Sent(Head(cmds)) /\ hist' = [hist EXCEPT !.alone = Alone(Head(cmds))]
  /\ cmds' = Tail(cmds)
  /\ UNCHANGED <<gateway, events, link, spi, forms, left>>

\* mutant
ResetCmdsKept ==
  /\ IsEvent({"down"})
  /\ events' = Tail(events) /\ UNCHANGED cmds
  /\ UNCHANGED <<gateway, ctp, spi, forms, hist, left>>
\* resetCmds, when TDSM_DISCONNECTED arrives.
ResetCmds ==
  /\ IsEvent({"down"})
  /\ events' = Tail(events) /\ cmds' = <<>>
  /\ UNCHANGED <<gateway, ctp, spi, forms, hist, left>>

-----------------------------------------------------------------------------
(* CTP, by itself. *)

\* The exchange gives an accepted order its system id.
Assign ==
  /\ \E n \in DOMAIN orders :
       /\ orders[n].status = "accepted"
       /\ orders' = [orders EXCEPT ![n].status = "working"]
       /\ rtn' = IF link = 0 THEN rtn ELSE Append(rtn, OrderReturn(n, "working"))
  /\ hist' = [hist EXCEPT !.alone = FALSE]
  /\ UNCHANGED <<gateway, events, cmds, link, rsp, spi, forms, left>>
\* An order is traded; the trade comes before or after the order's return.
Fill ==
  /\ \E n \in DOMAIN orders :
       LET trade == Callback("trade", n, "done", FALSE)
       IN /\ orders[n].status = "working"
          /\ orders' = [orders EXCEPT ![n].status = "done"]
          /\ rtn' \in IF link = 0 THEN {rtn}
                        ELSE {rtn \o <<OrderReturn(n, "done"), trade>>,
                              rtn \o <<trade, OrderReturn(n, "done")>>}
  /\ hist' = [hist EXCEPT !.alone = FALSE]
  /\ UNCHANGED <<gateway, events, cmds, link, rsp, spi, forms, left>>
\* The connection breaks: what was on its way may be lost.
Drop ==
  /\ link # 0 /\ link' = 0
  /\ \E i \in 0 .. Len(rsp), j \in 0 .. Len(rtn) :
       /\ rsp' = SubSeq(rsp, 1, i) \o <<Callback("down", 0, "accepted", TRUE)>>
       /\ rtn' = SubSeq(rtn, 1, j)
  /\ hist' = [hist EXCEPT !.alone = FALSE, !.fresh = FALSE]
  /\ UNCHANGED <<gateway, events, cmds, orders, spi, forms, left>>
\* BLOGIC asks for a login after it has heard of the disconnection (CtpSession).  Each session
\* has a number of its own: they count down.
Login ==
  /\ link = 0 /\ Use("logins")
  /\ rsp = <<>> /\ Disconnected \notin Range(events)
  /\ link' = left.logins
  /\ rsp' = <<Callback("login", link', "accepted", TRUE)>>
  /\ UNCHANGED <<gateway, events, cmds, orders, rtn, spi, forms, hist>>

-----------------------------------------------------------------------------
(* TdSmSpi on the CTP thread, and the forms its signals reach. *)

IsAnswer(kind) == rsp # <<>> /\ Head(rsp).kind = kind
IsReturn(kind) == rtn # <<>> /\ Head(rtn).kind = kind
Remember(key, id) == [k \in DOMAIN known \cup {key} |-> IF k = key THEN id ELSE known[k]]

\* mutant
ListedAll(status, w, id) == w \cup {id}
\* onGotOrder of both forms, on the lists w and f.
Listed(status, w, id) == IF status = "done" THEN w \ {id} ELSE w \cup {id}
Ended(status, f, id) == IF status = "done" THEN f \cup {id} ELSE f

\* mutant
OnRtnOrderOwnSession ==
  /\ IsReturn("order")
  /\ LET n == Head(rtn).n
         status == Head(rtn).status
     IN /\ known' = IF HasSysId(status) THEN Remember(FullKey(n), <<session, orders[n].ref>>) ELSE known
        /\ working' = Listed(status, working, Id(n))
        /\ finished' = Ended(status, finished, Id(n))
  /\ rtn' = Tail(rtn)
  /\ UNCHANGED <<gateway, events, cmds, link, orders, rsp, reqIds, heard, rows, hist, left>>
\* Returns and trades come with the session of the order, not of the connection.
OnRtnOrder ==
  /\ IsReturn("order")
  /\ LET n == Head(rtn).n
         status == Head(rtn).status
     IN /\ known' = IF HasSysId(status) THEN Remember(FullKey(n), Id(n)) ELSE known
        /\ working' = Listed(status, working, Id(n))
        /\ finished' = Ended(status, finished, Id(n))
  /\ rtn' = Tail(rtn)
  /\ UNCHANGED <<gateway, events, cmds, link, orders, rsp, reqIds, heard, rows, hist, left>>
OnRtnTrade ==
  /\ IsReturn("trade")
  /\ LET n == Head(rtn).n
     IN IF FullKey(n) \in DOMAIN known
          THEN heard' = heard \cup {<<n, known[FullKey(n)]>>} /\ UNCHANGED hist
          ELSE /\ hist' = [hist EXCEPT !.ignored = @ \cup ({n} \cap hist.listed)]
               /\ UNCHANGED heard
  /\ rtn' = Tail(rtn)
  /\ UNCHANGED <<gateway, events, cmds, link, orders, rsp, known, reqIds, forms, left>>

\* onGotNotification of both forms: BEGIN, with the first record, empties the list.
BegunList(list) == IF reqIds.orders THEN list ELSE {}

\* END comes with the last callback.
OnRspQryOrder ==
  /\ IsAnswer("qryOrder")
  /\ LET n == Head(rsp).n
         status == Head(rsp).status
         last == Head(rsp).last
         more == \E i \in 2 .. Len(rsp) : rsp[i].kind = "qryOrder"
     IN IF n = 0
          THEN UNCHANGED <<known, working, finished, hist>>
          ELSE /\ known' = IF HasSysId(status) THEN Remember(BareKey(n), Id(n)) ELSE known
               /\ working' = Listed(status, BegunList(working), Id(n))
               /\ finished' = Ended(status, BegunList(finished), Id(n))
               /\ hist' = [hist EXCEPT
                    !.fresh = last /\ hist.alone /\ ~ more,
                    !.listed = IF HasSysId(status) /\ session # orders[n].session
                                 THEN @ \cup {n} ELSE @]
  /\ reqIds' = [reqIds EXCEPT !.orders = (@ \/ Head(rsp).n # 0) /\ ~ Head(rsp).last]
  /\ rsp' = Tail(rsp)
  /\ UNCHANGED <<gateway, events, cmds, link, orders, rtn, heard, rows, left>>
\* PositionForm: onGotNotification at BEGIN, and onGotPosition.
Begun == IF reqIds.positions THEN rows ELSE [p \in DOMAIN rows |-> 0]
Added(r, p) == [r EXCEPT ![p] = @ + 1]

\* mutant
OnRspQryInvestorPositionNoEnd ==
  /\ IsAnswer("qryPosition")
  /\ IF Head(rsp).n = 0 THEN UNCHANGED <<rows, hist>>
       ELSE /\ rows' = Added(Begun, Head(rsp).n)
            /\ hist' = [hist EXCEPT !.cut = @ /\ reqIds.positions]
  /\ reqIds' = [reqIds EXCEPT !.positions = (@ \/ Head(rsp).n # 0)]
  /\ rsp' = Tail(rsp)
  /\ UNCHANGED <<gateway, events, cmds, link, orders, rtn, known, heard, working, finished, left>>
OnRspQryInvestorPosition ==
  /\ IsAnswer("qryPosition")
  /\ IF Head(rsp).n = 0 THEN UNCHANGED <<rows, hist>>
       ELSE /\ rows' = Added(Begun, Head(rsp).n)
            /\ hist' = [hist EXCEPT !.cut = @ /\ reqIds.positions]
  /\ reqIds' = [reqIds EXCEPT !.positions = (@ \/ Head(rsp).n # 0) /\ ~ Head(rsp).last]
  /\ rsp' = Tail(rsp)
  /\ UNCHANGED <<gateway, events, cmds, link, orders, rtn, known, heard, working, finished, left>>

\* mutant
OnRspUserLoginLink ==
  /\ IsAnswer("login")
  /\ ref' = 0 /\ session' = link /\ known' = <<>>
  /\ hist' = [hist EXCEPT !.listed = {}, !.disturbed = @ \/ \E t \in Threads : Running(t)]
  /\ rsp' = Tail(rsp)
  /\ UNCHANGED <<handlers, answered, events, cmds, link, orders, rtn, reqIds, heard, forms, left>>
OnRspUserLogin ==
  /\ IsAnswer("login")
  /\ ref' = 0 /\ session' = Head(rsp).n /\ known' = <<>>
  /\ hist' = [hist EXCEPT !.listed = {}, !.disturbed = @ \/ \E t \in Threads : Running(t)]
  /\ rsp' = Tail(rsp)
  /\ UNCHANGED <<handlers, answered, events, cmds, link, orders, rtn, reqIds, heard, forms, left>>
OnFrontDisconnected ==
  /\ IsAnswer("down") /\ rtn = <<>>
  /\ events' = Append(events, Disconnected)
  /\ hist' = [hist EXCEPT !.cut = @ \/ reqIds.positions]
  /\ rsp' = Tail(rsp)
  /\ UNCHANGED <<gateway, cmds, link, orders, rtn, spi, forms, left>>

-----------------------------------------------------------------------------
Handler == \E t \in Threads : CountRef(t) \/ ReadRef(t) \/ Answer(t)
Request == \/ Cancel \/ QueryOrders \/ QueryPosition
           \/ QueryPositionButton \/ SendOrderButton \/ CloseAllButton
Blogic == RunCmd \/ SendOrder \/ RunKeptCmd \/ ResetCmds
Ctp == Assign \/ Fill \/ Drop \/ Login
Spi == \/ OnRtnOrder \/ OnRtnTrade \/ OnRspQryOrder \/ OnRspQryInvestorPosition
       \/ OnRspUserLogin \/ OnFrontDisconnected
Next == Handler \/ Request \/ Blogic \/ Ctp \/ Spi
Spec == Init /\ [][Next]_vars

-----------------------------------------------------------------------------
(* Properties. *)

CommandT == [kind : CommandKinds \cup {"order", "down"}, req : Nat, id : Ids]
CallbackT == [kind : {"order", "trade", "qryOrder", "qryPosition", "login", "down"},
              n : Nat, status : Statuses, last : BOOLEAN]

\* Every variable keeps its type, and requests and orders of CTP stay within the calls made.
TypeOK ==
  /\ session \in Nat \ {0} /\ link \in Nat /\ ref \in Nat
  /\ handlers \in [Threads -> [at : {"idle", "counted", "read"}, ref : Nat]]
  /\ answered \in Seq(Ids) /\ events \in Seq(CommandT) /\ cmds \in Seq(CommandT)
  /\ orders \in Seq([session : Nat, ref : Nat, req : DOMAIN answered, status : Statuses])
  /\ rsp \in Seq(CallbackT) /\ rtn \in Seq(CallbackT)
  /\ DOMAIN known \subseteq {"exchange.sysid", "sysid"} \X Nat /\ Range(known) \subseteq Ids
  /\ reqIds \in [orders : BOOLEAN, positions : BOOLEAN]
  /\ heard \subseteq Nat \X Ids /\ working \subseteq Ids /\ finished \subseteq Ids
  /\ rows \in [1 .. Positions -> Nat]
  /\ hist \in [disturbed : BOOLEAN, cut : BOOLEAN, fresh : BOOLEAN, alone : BOOLEAN,
               listed : SUBSET Nat, ignored : SUBSET Nat]
  /\ left \in [Kinds -> Nat]

\* A trade is passed on with the id of its own order, also when the order was placed in an
\* earlier session and its system id was learned in another one.
TradesAttributed == \A h \in heard : h[1] \in DOMAIN orders /\ h[2] = Id(h[1])

\* As long as no SendOrder overlapped another one or a login, and no order stayed in BLOGIC's
\* queue over a login, each order at CTP has the id that its SendOrder returned, and no two
\* SendOrder calls returned the same: commands that flow control kept do not outlive their
\* session.
IdsNameOrders ==
  ~ hist.disturbed =>
    /\ \A n \in DOMAIN orders : Id(n) = answered[orders[n].req]
    /\ \A q, r \in DOMAIN answered : answered[q] = answered[r] => q = r

\* Once an order query that no change overtook has been listed, and until the connection
\* breaks, the window shows each order of the account in the right list as soon as the
\* returns on their way are in.
OrderListsRight ==
  hist.fresh /\ rtn = <<>> =>
    /\ working = {Id(n) : n \in {n \in DOMAIN orders : Open(n)}}
    /\ finished = {Id(n) : n \in {n \in DOMAIN orders : ~ Open(n)}}

\* Rows of PositionForm are sums over one answer, never over two, unless the connection broke
\* in the middle of an answer since the list was last emptied.
PositionsOneAnswer == ~ hist.cut => \A p \in DOMAIN rows : rows[p] <= 1

\* The comment on OnRtnTrade: after a reconnection a query of the orders rebuilds the map, so
\* the trade of an order that the query listed is passed on.
TradeHeardAfterQuery == hist.ignored = {}
=============================================================================
