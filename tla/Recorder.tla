------------------------------- MODULE Recorder -------------------------------
(***************************************************************************)
(* datarecorder between ctpgateway and datafeed.  When the gateway has got *)
(* its instruments it notifies its clients; the recorder then asks it for  *)
(* the contracts and inserts them into datafeed, and after them the ticks  *)
(* that follow in the stream.  The gateway's BLOGIC, which lists the       *)
(* contracts for GetContract and subscribes to their ticks, and its PUSH,  *)
(* which notifies, each get the news in an event of its own.               *)
(*                                                                         *)
(* In the recorder BLOGIC holds clients_mutex_ while it waits for the      *)
(* reader thread of a stream it closes, and PUSH while it asks for         *)
(* contracts.  The calls that open and close a stream run on gRPC threads  *)
(* of the gateway and may overtake each other or time out.  How a stream   *)
(* is opened and closed in detail is left to PushStream, how the gateway   *)
(* gets its instruments to CtpSession.                                     *)
(***************************************************************************)
EXTENDS Naturals, Sequences

CONSTANTS
  Symbols,    \* symbols that match the configured prefixes
  MaxQueries, \* bound: instrument queries of the gateway, one per login
  MaxTicks,   \* bound: ticks
  MaxDrops,   \* bound: dropped connections to the gateway
  MaxErrors,  \* bound: calls that fail or time out
  MaxClicks,  \* bound: clicks in the recorder's window
  MaxEvents   \* bound: queries, ticks, drops, failing calls and clicks together

ASSUME BoundsAssumption ==
  /\ MaxQueries \in Nat /\ MaxTicks \in Nat /\ MaxDrops \in Nat
  /\ MaxErrors \in Nat /\ MaxClicks \in Nat /\ MaxEvents \in Nat

VARIABLES
  querying,   \* gateway: an instrument query is being answered
  contracts,  \* gateway: contracts_
  listed,     \* gateway: symbols_my_, what GetContract lists
  subscribed, \* gateway: symbols whose ticks arrive
  blogic,     \* gateway: onGotContracts posted to BLOGIC
  gpush,      \* gateway: events posted to PUSH
  registered, \* gateway: clients_ holds the queue that the recorder's stream reads
  stale,      \* gateway: a handler is left that writes to a dropped connection
  stream,     \* messages that the recorder's reader thread has still to read
  opening,    \* gateway: a ConnectPush handler that has not yet posted connectClient
  late,       \* gateway: DisconnectPush calls that timed out and are still to be run
  link,       \* recorder: no client, a client, its stream open; BLOGIC calls
              \* DisconnectPush, BLOGIC waits for the reader thread
  wants,      \* recorder: GatewayConnect was clicked, and not GatewayDisconnect
  unheard,    \* history: the stream that BLOGIC waits for did not hear the disconnect,
              \* because the call failed or overtook the one that opened the stream
  rpush,      \* recorder: events posted to PUSH
  wantsDf,    \* recorder: DatafeedConnect was clicked, and not DatafeedDisconnect
  client,     \* recorder: client_ of PushService is set
  step,       \* recorder: where PUSH is in onGotNotification
  want,       \* history: the contracts that notification stands for
  ids,        \* the list the gateway read, or the contracts still to be inserted
  stored,     \* external: the contracts in datafeed
  ticks,      \* external: the symbols with a tick in datafeed
  missed,     \* history: contracts whose notification or insertion was lost
  unlisted,   \* history: contracts that were notified, but that the gateway did not list
              \* when it was asked: BLOGIC had not yet filled the list, or the next query
              \* had taken them out of it
  aborted,    \* the gateway died in qFatal
  used        \* how much of each bound is used

gatewayVars == <<querying, contracts, listed, subscribed, blogic>>
callVars == <<opening, late>>
streamVars == <<gpush, registered, stale, stream, callVars>>
linkVars == <<link, wants, unheard>>
recorderVars == <<rpush, wantsDf, client, step, want, ids, unlisted>>
datafeedVars == <<stored, ticks>>
vars == <<gatewayVars, streamVars, linkVars, recorderVars, datafeedVars, missed, aborted, used>>

-----------------------------------------------------------------------------
Messages == ({"contracts"} \X SUBSET Symbols) \cup ({"tick"} \X Symbols)
Bounds == {"queries", "ticks", "drops", "errors", "clicks"}

TypeOK ==
  /\ querying \in BOOLEAN /\ registered \in BOOLEAN /\ stale \in BOOLEAN
  /\ opening \in BOOLEAN /\ late \in Nat /\ unheard \in BOOLEAN
  /\ wants \in BOOLEAN /\ wantsDf \in BOOLEAN /\ client \in BOOLEAN /\ aborted \in BOOLEAN
  /\ contracts \subseteq Symbols /\ listed \subseteq Symbols /\ subscribed \subseteq Symbols
  /\ blogic \in Seq(SUBSET Symbols)
  /\ gpush \in Seq(Messages \cup ({"freedTick"} \X Symbols) \cup {<<"connect">>, <<"disconnect">>})
  /\ stream \in Seq(Messages)
  /\ link \in {"none", "idle", "open", "calling", "closing"}
  /\ rpush \in Seq(Messages \cup {<<"connectDatafeed">>, <<"disconnectDatafeed">>})
  /\ step \in {"idle", "lock", "get", "read", "insert"}
  /\ want \subseteq Symbols /\ ids \subseteq Symbols
  /\ stored \subseteq Symbols /\ ticks \subseteq Symbols /\ missed \subseteq Symbols
  /\ unlisted \subseteq Symbols
  /\ used \in [Bounds -> Nat]

Init ==
  /\ querying = FALSE /\ registered = FALSE /\ stale = FALSE
  /\ opening = FALSE /\ late = 0 /\ unheard = FALSE
  /\ wants = FALSE /\ wantsDf = FALSE /\ client = FALSE /\ aborted = FALSE
  /\ contracts = {} /\ listed = {} /\ subscribed = {}
  /\ blogic = <<>> /\ gpush = <<>> /\ stream = <<>> /\ rpush = <<>>
  /\ link = "none" /\ step = "idle" /\ want = {} /\ ids = {}
  /\ stored = {} /\ ticks = {} /\ missed = {} /\ unlisted = {}
  /\ used = [b \in Bounds |-> 0]

Spend(what, limit) ==
  /\ used[what] < limit
  /\ used["queries"] + used["ticks"] + used["drops"] + used["errors"] + used["clicks"] < MaxEvents
  /\ used' = [used EXCEPT ![what] = @ + 1]

-----------------------------------------------------------------------------
(* The gateway: instruments and ticks *)

\* The query command of a login frees what the login before has got: the contracts, and
\* the ring buffers that the ticks which still wait for PUSH point into.
ResetData ==
  /\ ~querying /\ Spend("queries", MaxQueries)
  /\ querying' = TRUE
  /\ contracts' = {} /\ listed' = {}
  /\ gpush' = [i \in DOMAIN gpush |->
       IF gpush[i][1] = "tick" THEN <<"freedTick", gpush[i][2]>> ELSE gpush[i]]
  /\ UNCHANGED <<subscribed, blogic, registered, stale, stream, callVars, linkVars, recorderVars,
                 datafeedVars, missed, aborted>>

\* The last answer of the query is one signal, and an event for each of two threads.
GotContracts(S) ==
  /\ querying
  /\ querying' = FALSE
  /\ contracts' = S
  /\ blogic' = Append(blogic, S)
  /\ gpush' = Append(gpush, <<"contracts", S>>)
  /\ UNCHANGED <<listed, subscribed, registered, stale, stream, callVars, linkVars, recorderVars,
                 datafeedVars, missed, aborted, used>>

OnGotContractsUnlisted ==  \* mutant
  /\ blogic # <<>>
  /\ blogic' = Tail(blogic)
  /\ subscribed' = subscribed \cup Head(blogic)
  /\ UNCHANGED <<querying, contracts, listed, streamVars, linkVars, recorderVars, datafeedVars,
                 missed, aborted, used>>

OnGotContracts ==
  /\ blogic # <<>>
  /\ blogic' = Tail(blogic)
  /\ listed' = Head(blogic)
  /\ subscribed' = subscribed \cup Head(blogic)
  /\ UNCHANGED <<querying, contracts, streamVars, linkVars, recorderVars, datafeedVars,
                 missed, aborted, used>>

\* A tick without a ring buffer, which a symbol gets with its contract, is fatal.
OnRtnDepthMarketData(s) ==
  /\ s \in subscribed /\ Spend("ticks", MaxTicks)
  /\ gpush' = IF s \in contracts THEN Append(gpush, <<"tick", s>>) ELSE gpush
  /\ aborted' = (s \notin contracts)
  /\ UNCHANGED <<gatewayVars, registered, stale, stream, callVars, linkVars, recorderVars,
                 datafeedVars, missed>>

-----------------------------------------------------------------------------
(* The gateway: PUSH *)

\* What the clients that are not there lose.
Lost(messages) ==
  UNION {messages[i][2] : i \in {j \in DOMAIN messages : messages[j][1] = "contracts"}}

TakePush(what) ==
  /\ gpush # <<>> /\ Head(gpush)[1] = what
  /\ gpush' = Tail(gpush)
  /\ UNCHANGED <<gatewayVars, stale, callVars, link, wants, recorderVars, datafeedVars, used>>

OnNotificationUnsent ==  \* mutant
  /\ TakePush("contracts")
  /\ UNCHANGED <<stream, missed, registered, unheard, aborted>>

\* PushService of the gateway sends the notification to its clients...
OnNotification ==
  /\ TakePush("contracts")
  /\ stream' = IF registered THEN Append(stream, Head(gpush)) ELSE stream
  /\ missed' = IF registered THEN missed ELSE missed \cup Lost(<<Head(gpush)>>)
  /\ UNCHANGED <<registered, unheard, aborted>>

\* ...and so each tick, which it reads where the CTP thread has put it.
SendTick ==
  stream' = IF registered THEN Append(stream, <<"tick", Head(gpush)[2]>>) ELSE stream

OnGatewayTick ==
  /\ TakePush("tick") /\ SendTick
  /\ UNCHANGED <<missed, registered, unheard, aborted>>

\* Undefined behaviour: the tick's buffer is gone, and its contract may be looked up.
OnFreedTick ==
  /\ TakePush("freedTick") /\ SendTick
  /\ aborted' \in BOOLEAN
  /\ UNCHANGED <<missed, registered, unheard>>

ConnectClient ==
  /\ TakePush("connect")
  /\ registered' = TRUE
  /\ UNCHANGED <<stream, missed, unheard, aborted>>

\* The queue is shut: what its handler has not written is dropped.
Cut ==
  \E n \in 0..Len(stream) :
    /\ stream' = SubSeq(stream, 1, n)
    /\ missed' = missed \cup Lost(SubSeq(stream, n + 1, Len(stream)))

\* The stream is still to be registered.
Coming == opening \/ \E i \in DOMAIN gpush : gpush[i] = <<"connect">>

\* A disconnect that finds no client does nothing.
DisconnectClient ==
  /\ TakePush("disconnect")
  /\ registered' = FALSE
  /\ IF registered THEN Cut ELSE UNCHANGED <<stream, missed>>
  /\ unheard' = (unheard \/ (link = "closing" /\ ~registered /\ Coming))
  /\ UNCHANGED aborted

\* The connection drops; nobody reads what PUSH sends from now on.
Drop ==
  /\ registered /\ link \in {"open", "calling", "closing"} /\ Spend("drops", MaxDrops)
  /\ registered' = FALSE /\ stale' = TRUE
  /\ Cut
  /\ UNCHANGED <<gatewayVars, gpush, callVars, linkVars, recorderVars, datafeedVars, aborted>>

\* The handler of that stream notices, and takes its client out by name.
WriteFails ==
  /\ stale /\ stale' = FALSE
  /\ gpush' = Append(gpush, <<"disconnect">>)
  /\ UNCHANGED <<gatewayVars, registered, stream, callVars, linkVars, recorderVars, datafeedVars,
                 missed, aborted, used>>

(* The gateway: the handlers of ConnectPush and DisconnectPush on gRPC threads *)

Posts(event) ==
  /\ gpush' = Append(gpush, event)
  /\ UNCHANGED <<gatewayVars, registered, stale, stream, wants, recorderVars, datafeedVars,
                 missed, aborted, used>>

ConnectPush ==
  /\ opening /\ opening' = FALSE
  /\ Posts(<<"connect">>)
  /\ UNCHANGED <<late, link, unheard>>

\* The call that BLOGIC of the recorder makes: its answer lets the wait begin.
DisconnectPush ==
  /\ link = "calling" /\ link' = "closing"
  /\ Posts(<<"disconnect">>)
  /\ UNCHANGED <<callVars, unheard>>

\* A call that the recorder has given up: the stream it ends may be a later one.
LateDisconnectPush ==
  /\ late > 0 /\ late' = late - 1
  /\ Posts(<<"disconnect">>)
  /\ UNCHANGED <<opening, link, unheard>>

-----------------------------------------------------------------------------
(* The recorder: GatewayMgr on BLOGIC and its reader thread *)

\* PUSH has clients_mutex_ while it asks for contracts.
MutexFree == step \notin {"get", "read"}
\* BLOGIC has it while it frees the reader thread.
Freeing == link \in {"calling", "closing"}
StreamOver == stream = <<>> /\ ~registered /\ ~Coming

ConnectGateway ==
  /\ ~Freeing /\ MutexFree /\ ~wants /\ Spend("clicks", MaxClicks)
  /\ wants' = TRUE /\ link' = "idle"
  /\ UNCHANGED <<gatewayVars, streamVars, unheard, recorderVars, datafeedVars, missed, aborted>>

\* The ping timer starts the reader thread, which opens the stream.
Connect ==
  /\ link = "idle" /\ MutexFree
  /\ link' = "open" /\ opening' = TRUE
  /\ UNCHANGED <<gatewayVars, gpush, registered, stale, stream, late, wants, unheard,
                 recorderVars, datafeedVars, missed, aborted, used>>

\* The reader thread emits gotTick and gotNotification, which PUSH takes.
DispatchPush ==
  /\ stream # <<>>
  /\ stream' = Tail(stream)
  /\ rpush' = Append(rpush, Head(stream))
  /\ UNCHANGED <<gatewayVars, gpush, registered, stale, callVars, linkVars, wantsDf, client, step,
                 want, ids, unlisted, datafeedVars, missed, aborted, used>>

FreeReaderThreadSilent ==  \* mutant
  link' = "closing"

\* DisconnectPush is called, and then the reader thread is waited for.
FreeReaderThread == link' = "calling"

DisconnectGateway ==
  /\ link \in {"idle", "open"} /\ MutexFree /\ wants /\ Spend("clicks", MaxClicks)
  /\ wants' = FALSE
  /\ IF link = "open" THEN FreeReaderThread ELSE link' = "none"
  /\ UNCHANGED <<gatewayVars, streamVars, unheard, recorderVars, datafeedVars, missed, aborted>>

OnGatewayDisconnected ==
  /\ link = "open" /\ StreamOver /\ MutexFree
  /\ FreeReaderThread
  /\ UNCHANGED <<gatewayVars, streamVars, wants, unheard, recorderVars, datafeedVars, missed,
                 aborted, used>>

\* The call fails or takes too long, which is only logged; the gateway may run it later.
DisconnectPushFails ==
  /\ link = "calling" /\ Spend("errors", MaxErrors)
  /\ link' = "closing" /\ unheard' = TRUE
  /\ late' \in {late, late + 1}
  /\ UNCHANGED <<gatewayVars, gpush, registered, stale, stream, opening, wants, recorderVars,
                 datafeedVars, missed, aborted>>

\* wait returns, and with it the mutex is released.
ReaderFreed ==
  /\ link = "closing" /\ StreamOver
  /\ link' = IF wants THEN "idle" ELSE "none"
  /\ unheard' = FALSE
  /\ UNCHANGED <<gatewayVars, streamVars, wants, recorderVars, datafeedVars, missed, aborted,
                 used>>

-----------------------------------------------------------------------------
(* The recorder: PushService on PUSH *)

DatafeedConnectButton ==
  /\ ~wantsDf /\ Spend("clicks", MaxClicks)
  /\ wantsDf' = TRUE
  /\ rpush' = Append(rpush, <<"connectDatafeed">>)
  /\ UNCHANGED <<gatewayVars, streamVars, linkVars, client, step, want, ids, unlisted,
                 datafeedVars, missed, aborted>>

DatafeedDisconnectButton ==
  /\ wantsDf /\ Spend("clicks", MaxClicks)
  /\ wantsDf' = FALSE
  /\ rpush' = Append(rpush, <<"disconnectDatafeed">>)
  /\ UNCHANGED <<gatewayVars, streamVars, linkVars, client, step, want, ids, unlisted,
                 datafeedVars, missed, aborted>>

Take(what) ==
  /\ step = "idle" /\ rpush # <<>> /\ Head(rpush)[1] = what
  /\ rpush' = Tail(rpush)
  /\ UNCHANGED <<gatewayVars, streamVars, linkVars, wantsDf, ids, unlisted, stored, aborted>>

ConnectDatafeed ==
  /\ Take("connectDatafeed")
  /\ client' = TRUE
  /\ UNCHANGED <<step, want, ticks, missed, used>>

DisconnectDatafeed ==
  /\ Take("disconnectDatafeed")
  /\ client' = FALSE
  /\ UNCHANGED <<step, want, ticks, missed, used>>

OnGotTick ==
  /\ Take("tick")
  /\ ticks' = IF client THEN ticks \cup {Head(rpush)[2]} ELSE ticks
  /\ UNCHANGED <<client, step, want, missed, used>>

\* The failure of InsertTick is only logged; datafeed may have carried it out.
OnGotTickFails ==
  /\ Take("tick") /\ client /\ Spend("errors", MaxErrors)
  /\ ticks' \in {ticks, ticks \cup {Head(rpush)[2]}}
  /\ UNCHANGED <<client, step, want, missed>>

\* Without a datafeed to insert into, the contracts are not asked for.
OnGotNotification ==
  /\ Take("contracts")
  /\ want' = IF client THEN Head(rpush)[2] ELSE {}
  /\ step' = IF client THEN "lock" ELSE "idle"
  /\ missed' = IF client THEN missed ELSE missed \cup Head(rpush)[2]
  /\ UNCHANGED <<client, ticks, used>>

Asking == UNCHANGED <<gatewayVars, streamVars, linkVars, rpush, wantsDf, client, ticks>>

\* getContract locks the mutex and needs a client of the gateway.
Lock ==
  /\ step = "lock" /\ ~Freeing
  /\ step' = IF link = "none" THEN "idle" ELSE "get"
  /\ missed' = IF link = "none" THEN missed \cup want ELSE missed
  /\ UNCHANGED <<want, ids, unlisted, stored, aborted, used>> /\ Asking

\* The lists that BLOGIC of the gateway is still to take over.
Unprocessed == UNION {blogic[i] : i \in DOMAIN blogic}

\* The gateway lists its symbols, which BLOGIC may not know yet, or no more...
ListContracts ==
  /\ step = "get"
  /\ ids' = listed /\ step' = "read"
  /\ unlisted' = unlisted \cup {s \in want \ listed : s \in Unprocessed \/ s \notin contracts}
  /\ UNCHANGED <<want, stored, missed, aborted, used>> /\ Asking

Inserted(rest) == ids' = rest /\ step' = IF rest = {} THEN "idle" ELSE "insert"

InsertsOneLess(answer) ==  \* mutant
  want' = {} /\ \E rest \in {answer} \cup {answer \ {s} : s \in answer} : Inserted(rest)

\* Each contract of the answer is inserted, whether the call ended well or not.
Inserts(answer) == want' = {} /\ Inserted(answer)

\* ...and then looks each one up, which is fatal when a query has freed it.
GetContract ==
  /\ step = "read" /\ ids \subseteq contracts
  /\ Inserts(ids)
  /\ UNCHANGED <<missed, unlisted, stored, aborted, used>> /\ Asking

GetContractDies ==
  /\ step = "read" /\ ~(ids \subseteq contracts)
  /\ aborted' = TRUE
  /\ UNCHANGED <<want, ids, unlisted, step, missed, stored, used>> /\ Asking

\* The call fails or takes too long: a part of the answer has arrived, or none.
GetContractFails ==
  /\ step = "read" /\ Spend("errors", MaxErrors)
  /\ \E answer \in SUBSET (ids \cap contracts) :
       Inserts(answer) /\ missed' = missed \cup (want \ answer)
  /\ UNCHANGED <<unlisted, stored, aborted>> /\ Asking

InsertContract(s) ==
  /\ step = "insert" /\ s \in ids
  /\ stored' = stored \cup {s}
  /\ Inserted(ids \ {s})
  /\ UNCHANGED <<want, unlisted, missed, aborted, used>> /\ Asking

\* The failure of the call is only logged; datafeed may have carried it out.
InsertContractFails(s) ==
  /\ step = "insert" /\ s \in ids /\ Spend("errors", MaxErrors)
  /\ stored' \in {stored, stored \cup {s}}
  /\ missed' = missed \cup {s}
  /\ Inserted(ids \ {s})
  /\ UNCHANGED <<want, unlisted, aborted>> /\ Asking

-----------------------------------------------------------------------------
GatewayPush == OnNotification \/ OnGatewayTick \/ OnFreedTick \/ ConnectClient \/ DisconnectClient
GatewayCalls == ConnectPush \/ DisconnectPush
Handling ==
  \/ ConnectDatafeed \/ DisconnectDatafeed \/ OnGotTick \/ OnGotNotification
  \/ Lock \/ ListContracts \/ GetContract \/ GetContractDies
  \/ \E s \in Symbols : InsertContract(s)
Environment ==
  \/ ResetData \/ Drop \/ WriteFails
  \/ \E S \in SUBSET Symbols : GotContracts(S)
  \/ \E s \in Symbols : OnRtnDepthMarketData(s)
Window ==
  ConnectGateway \/ DisconnectGateway \/ DatafeedConnectButton \/ DatafeedDisconnectButton
Failures ==
  \/ OnGotTickFails \/ GetContractFails \/ DisconnectPushFails \/ LateDisconnectPush
  \/ \E s \in Symbols : InsertContractFails(s)

Next ==
  /\ ~aborted
  /\ \/ GatewayPush \/ GatewayCalls \/ Handling \/ Environment \/ Window \/ Failures
     \/ OnGotContracts \/ Connect \/ DispatchPush \/ OnGatewayDisconnected \/ ReaderFreed

Spec == Init /\ [][Next]_vars

\* The threads run and calls are answered or time out; clicks, answers, ticks, failures and
\* calls that timed out need not come.
FairSpec ==
  /\ Spec
  /\ WF_vars(~aborted /\ GatewayPush) /\ WF_vars(~aborted /\ Handling)
  /\ WF_vars(~aborted /\ GatewayCalls)
  /\ WF_vars(~aborted /\ DispatchPush) /\ WF_vars(~aborted /\ ReaderFreed)

-----------------------------------------------------------------------------
(* Properties *)

\* A tick is in datafeed only when its contract is there too, because a tick
\* passes the same queues behind the notification, although the gateway starts
\* it from another thread, and the recorder inserts what it hears of before it
\* takes the next event.  Two kinds of contracts are exempt.  One is lost: its
\* notification dropped with a stream or found no client to insert with, or a
\* call failed.  The other is not listed: PUSH of the gateway may notify before
\* BLOGIC has filled the list, or the next query may have cleared it, and the
\* recorder then gets a list without the contract and goes on to the ticks.
\* That race is in the code; the property says that nothing else costs a
\* contract: ListContracts counts it only where BLOGIC is behind or the
\* instruments of the gateway have changed.
TicksFramed == ticks \subseteq stored \cup missed \cup unlisted

\* A notification that waits for PUSH is dealt with in the end, or its contract
\* was lost or not listed as above.  BLOGIC may hold the mutex until the gateway
\* has closed a stream, and PUSH waits for it then.  One wait is exempt: when the
\* stream does not hear of the disconnect, because the call failed or overtook
\* the one that opened the stream, BLOGIC of the recorder may wait with the mutex
\* for ever and PUSH with it.  The property says that no other wait is endless.
ContractsStored ==
  \A s \in Symbols :
    (\E i \in DOMAIN rpush : rpush[i][1] = "contracts" /\ s \in rpush[i][2])
      ~> (\/ s \in stored \cup missed \cup unlisted
          \/ aborted
          \/ [](link = "closing" /\ unheard))
=============================================================================
