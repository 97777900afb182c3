---------------------------- MODULE RecorderProofs -----------------------------
(***************************************************************************)
(* Theorems about Recorder for every set of symbols and every bound.       *)
(* A tick may only be taken where the contract of its symbol is settled:   *)
(* in datafeed, lost, left out of a list that the gateway had not filled   *)
(* (Listing: it was not left out otherwise), or in the hands of PUSH.      *)
(* Framed carries that back over the three queues a tick passes: in the    *)
(* recorder's queue, in the stream and in the gateway's, each tick has its *)
(* contract settled or in a notification ahead of it, and what BLOGIC of   *)
(* the gateway subscribes to has been notified by then.                    *)
(***************************************************************************)
EXTENDS Recorder, TLAPS

\* The symbols in the notifications among the first p messages of q.
Heard(q, p) == UNION {q[i][2] : i \in {j \in 1..p : q[j][1] = "contracts"}}
Whole(q) == Heard(q, Len(q))

TickKinds == {"tick", "freedTick"}
\* Each tick of q is of B or has been notified in q before it.
Fine(q, B) == \A i \in 1..Len(q) : q[i][1] \in TickKinds => q[i][2] \in B \cup Heard(q, i - 1)

Pending ==
  CASE step \in {"lock", "get", "read"} -> want
    [] step = "insert" -> ids
    [] OTHER -> {}
Settled == stored \cup missed \cup unlisted \cup Pending
Received == Settled \cup Whole(rpush)
Sent == Received \cup Whole(stream)
Notified == Sent \cup Whole(gpush)

QueuesFine == Fine(rpush, Settled) /\ Fine(stream, Received) /\ Fine(gpush, Sent)
SymbolsNotified == subscribed \subseteq Notified /\ \A i \in 1..Len(blogic) : blogic[i] \subseteq Notified

Framed == QueuesFine /\ SymbolsNotified /\ TicksFramed

\* What the gateway lists is as new as its instruments once BLOGIC has caught up, so that
\* the list PUSH of the recorder reads leaves out only what counts as unlisted.
ListCurrent == contracts \subseteq (IF blogic = <<>> THEN listed ELSE blogic[Len(blogic)])
AnswerExplained == step = "read" => want \ ids \subseteq unlisted
Listing == ListCurrent /\ AnswerExplained

GatewayEvents == Messages \cup ({"freedTick"} \X Symbols) \cup {<<"connect">>, <<"disconnect">>}
RecorderEvents == Messages \cup {<<"connectDatafeed">>, <<"disconnectDatafeed">>}

-----------------------------------------------------------------------------
(* Queues *)

LEMMA AppendIs ==
  ASSUME NEW S, NEW q \in Seq(S), NEW e \in S
  PROVE  /\ Append(q, e) \in Seq(S)
         /\ Len(q) \in Nat /\ Len(Append(q, e)) = Len(q) + 1
         /\ Append(q, e)[Len(q) + 1] = e
         /\ \A i \in 1..Len(q) : Append(q, e)[i] = q[i]
  OBVIOUS

LEMMA TailIs ==
  ASSUME NEW S, NEW q \in Seq(S), q # <<>>
  PROVE  /\ Tail(q) \in Seq(S) /\ Head(q) \in S /\ Head(q) = q[1]
         /\ Len(q) \in Nat \ {0} /\ Len(Tail(q)) = Len(q) - 1
         /\ \A i \in 1..(Len(q) - 1) : Tail(q)[i] = q[i + 1]
  OBVIOUS

LEMMA CutIs ==
  ASSUME NEW S, NEW q \in Seq(S), NEW n \in 0..Len(q)
  PROVE  /\ SubSeq(q, 1, n) \in Seq(S) /\ SubSeq(q, n + 1, Len(q)) \in Seq(S)
         /\ Len(q) \in Nat /\ Len(SubSeq(q, 1, n)) = n
         /\ Len(SubSeq(q, n + 1, Len(q))) = Len(q) - n
         /\ \A i \in 1..n : SubSeq(q, 1, n)[i] = q[i]
         /\ \A i \in 1..(Len(q) - n) : SubSeq(q, n + 1, Len(q))[i] = q[n + i]
<1>1. Len(q) \in Nat /\ n \in Nat /\ n <= Len(q)
  OBVIOUS
<1>2. /\ SubSeq(q, 1, n) \in Seq(S) /\ Len(SubSeq(q, 1, n)) = n
      /\ \A i \in 1..n : SubSeq(q, 1, n)[i] = q[i]
  BY <1>1
<1>3. /\ SubSeq(q, n + 1, Len(q)) \in Seq(S) /\ Len(SubSeq(q, n + 1, Len(q))) = Len(q) - n
      /\ \A i \in 1..(Len(q) - n) : SubSeq(q, n + 1, Len(q))[i] = q[n + i]
  BY <1>1
<1>4. QED  BY <1>1, <1>2, <1>3

LEMMA HeardIs ==
  ASSUME NEW q, NEW p, NEW s
  PROVE  s \in Heard(q, p) <=> \E j \in 1..p : q[j][1] = "contracts" /\ s \in q[j][2]
  BY DEF Heard

LEMMA FineGrows ==
  ASSUME NEW q, NEW B, NEW B1, Fine(q, B), B \subseteq B1
  PROVE  Fine(q, B1)
  BY DEF Fine

LEMMA AppendKeeps ==
  ASSUME NEW S, NEW q \in Seq(S), NEW e \in S, NEW B
  PROVE  /\ Whole(q) \subseteq Whole(Append(q, e))
         /\ e[1] = "contracts" => e[2] \subseteq Whole(Append(q, e))
         /\ Fine(q, B) /\ (e[1] \in TickKinds => e[2] \in B \cup Whole(q)) => Fine(Append(q, e), B)
<1> DEFINE r == Append(q, e)
<1>1. /\ Len(q) \in Nat /\ Len(r) = Len(q) + 1 /\ r[Len(q) + 1] = e
      /\ \A i \in 1..Len(q) : r[i] = q[i]
  BY AppendIs
<1> HIDE DEF r
<1>2. ASSUME NEW p \in 0..Len(q), NEW s
      PROVE  s \in Heard(q, p) <=> s \in Heard(r, p)
  <2>1. \A j \in 1..p : r[j] = q[j]
    BY <1>1
  <2>2. QED  BY <2>1, HeardIs
<1>3. ASSUME NEW s, s \in Whole(q) \/ (e[1] = "contracts" /\ s \in e[2])
      PROVE  s \in Whole(r)
  <2>1. CASE s \in Whole(q)
    <3>1. PICK j \in 1..Len(q) : q[j][1] = "contracts" /\ s \in q[j][2]
      BY <2>1, HeardIs DEF Whole
    <3>2. j \in 1..Len(r) /\ r[j] = q[j]
      BY <1>1, <3>1
    <3>3. QED  BY <3>1, <3>2, HeardIs DEF Whole
  <2>2. CASE e[1] = "contracts" /\ s \in e[2]
    <3>1. Len(q) + 1 \in 1..Len(r)
      BY <1>1
    <3>2. QED  BY <1>1, <2>2, <3>1, HeardIs DEF Whole
  <2>3. QED  BY <1>3, <2>1, <2>2
<1>4. ASSUME Fine(q, B), e[1] \in TickKinds => e[2] \in B \cup Whole(q)
      PROVE  Fine(r, B)
  <2>1. ASSUME NEW i \in 1..Len(r), r[i][1] \in TickKinds
        PROVE  r[i][2] \in B \cup Heard(r, i - 1)
    <3>1. CASE i = Len(q) + 1
      <4>1. i - 1 = Len(q) /\ i - 1 \in 0..Len(q) /\ r[i] = e
        BY <1>1, <3>1
      <4>2. r[i][2] \in B \cup Heard(q, i - 1)
        BY <1>4, <2>1, <4>1 DEF Whole
      <4>3. QED  BY <1>2, <4>1, <4>2
    <3>2. CASE i # Len(q) + 1
      <4>1. i \in 1..Len(q) /\ i - 1 \in 0..Len(q) /\ r[i] = q[i]
        BY <1>1, <3>2
      <4>2. r[i][2] \in B \cup Heard(q, i - 1)
        BY <1>4, <2>1, <4>1 DEF Fine
      <4>3. QED  BY <1>2, <4>1, <4>2
    <3>3. QED  BY <3>1, <3>2
  <2>2. QED  BY <2>1 DEF Fine
<1>5. Whole(q) \subseteq Whole(r) /\ (e[1] = "contracts" => e[2] \subseteq Whole(r))
  BY <1>3
<1>6. QED  BY <1>4, <1>5 DEF r

LEMMA TailKeeps ==
  ASSUME NEW S, NEW q \in Seq(S), q # <<>>, NEW B, NEW B1
  PROVE  /\ Whole(q) \subseteq Whole(Tail(q)) \cup (IF Head(q)[1] = "contracts" THEN Head(q)[2] ELSE {})
         /\ Fine(q, B) /\ Head(q)[1] \in TickKinds => Head(q)[2] \in B
         /\ /\ Fine(q, B) /\ B \subseteq B1
            /\ Head(q)[1] = "contracts" => Head(q)[2] \subseteq B1
            => Fine(Tail(q), B1)
<1> DEFINE r == Tail(q)
<1>1. /\ Len(q) \in Nat \ {0} /\ Len(r) = Len(q) - 1 /\ Head(q) = q[1]
      /\ \A i \in 1..(Len(q) - 1) : r[i] = q[i + 1]
  BY TailIs
<1> HIDE DEF r
<1>2. ASSUME NEW p \in 1..Len(q), NEW s \in Heard(q, p)
      PROVE  s \in Heard(r, p - 1) \/ (Head(q)[1] = "contracts" /\ s \in Head(q)[2])
  <2>1. PICK j \in 1..p : q[j][1] = "contracts" /\ s \in q[j][2]
    BY <1>2, HeardIs
  <2>2. CASE j = 1
    BY <1>1, <2>1, <2>2
  <2>3. CASE j # 1
    <3>1. j - 1 \in 1..(p - 1) /\ r[j - 1] = q[j]
      BY <1>1, <2>3
    <3>2. QED  BY <2>1, <3>1, HeardIs
  <2>4. QED  BY <2>2, <2>3
<1>3. ASSUME NEW s \in Whole(q)
      PROVE  s \in Whole(r) \/ (Head(q)[1] = "contracts" /\ s \in Head(q)[2])
  <2>1. Len(q) \in 1..Len(q) /\ Len(q) - 1 = Len(r)
    BY <1>1
  <2>2. QED  BY <1>2, <1>3, <2>1 DEF Whole
<1>4. ASSUME Fine(q, B), Head(q)[1] \in TickKinds
      PROVE  Head(q)[2] \in B
  <2>1. 1 \in 1..Len(q) /\ \A s : s \notin Heard(q, 1 - 1)
    BY <1>1, HeardIs
  <2>2. QED  BY <1>1, <1>4, <2>1 DEF Fine
<1>5. ASSUME Fine(q, B), B \subseteq B1, Head(q)[1] = "contracts" => Head(q)[2] \subseteq B1
      PROVE  Fine(r, B1)
  <2>1. ASSUME NEW i \in 1..Len(r), r[i][1] \in TickKinds
        PROVE  r[i][2] \in B1 \cup Heard(r, i - 1)
    <3>1. i + 1 \in 1..Len(q) /\ i \in 1..Len(q) /\ r[i] = q[i + 1] /\ (i + 1) - 1 = i
      BY <1>1
    <3>2. r[i][2] \in B \cup Heard(q, i)
      BY <1>5, <2>1, <3>1 DEF Fine
    <3>3. QED  BY <1>2, <1>5, <3>1, <3>2
  <2>2. QED  BY <2>1 DEF Fine
<1>6. QED  BY <1>3, <1>4, <1>5 DEF r

LEMMA CutKeeps ==
  ASSUME NEW S, NEW q \in Seq(S), NEW n \in 0..Len(q), NEW B
  PROVE  /\ Whole(q) \subseteq Whole(SubSeq(q, 1, n)) \cup Lost(SubSeq(q, n + 1, Len(q)))
         /\ Fine(q, B) => Fine(SubSeq(q, 1, n), B)
<1> DEFINE r == SubSeq(q, 1, n)
           t == SubSeq(q, n + 1, Len(q))
<1>1. /\ Len(q) \in Nat /\ n \in Nat /\ Len(r) = n /\ Len(t) = Len(q) - n
      /\ DOMAIN t = 1..(Len(q) - n)
      /\ \A i \in 1..n : r[i] = q[i]
      /\ \A i \in 1..(Len(q) - n) : t[i] = q[n + i]
  BY CutIs
<1> HIDE DEF r, t
<1>2. ASSUME NEW s \in Whole(q)
      PROVE  s \in Whole(r) \/ s \in Lost(t)
  <2>1. PICK j \in 1..Len(q) : q[j][1] = "contracts" /\ s \in q[j][2]
    BY <1>2, HeardIs DEF Whole
  <2>2. CASE j <= n
    <3>1. j \in 1..n /\ r[j] = q[j]
      BY <1>1, <2>2
    <3>2. QED  BY <1>1, <2>1, <3>1, HeardIs DEF Whole
  <2>3. CASE ~(j <= n)
    <3>1. j - n \in DOMAIN t /\ t[j - n] = q[j]
      BY <1>1, <2>3
    <3>2. QED  BY <2>1, <3>1 DEF Lost
  <2>4. QED  BY <2>2, <2>3
<1>3. ASSUME Fine(q, B)
      PROVE  Fine(r, B)
  <2>1. ASSUME NEW i \in 1..Len(r), r[i][1] \in TickKinds
        PROVE  r[i][2] \in B \cup Heard(r, i - 1)
    <3>1. i \in 1..n /\ i \in 1..Len(q) /\ r[i] = q[i]
      BY <1>1
    <3>2. r[i][2] \in B \cup Heard(q, i - 1)
      BY <1>3, <2>1, <3>1 DEF Fine
    <3>3. \A j \in 1..(i - 1) : r[j] = q[j]
      BY <1>1, <3>1
    <3>4. QED  BY <3>2, <3>3, HeardIs, SMTT(60)
  <2>2. QED  BY <2>1 DEF Fine
<1>4. QED  BY <1>2, <1>3 DEF r, t

\* Other ticks of the same symbols, at the same places.
LEMMA FreedKeeps ==
  ASSUME NEW S, NEW q \in Seq(S), NEW r \in Seq(S), Len(r) = Len(q), NEW B, Fine(q, B),
         \A i \in 1..Len(q) : IF q[i][1] = "tick" THEN r[i] = <<"freedTick", q[i][2]>>
                                                  ELSE r[i] = q[i]
  PROVE  Whole(q) \subseteq Whole(r) /\ Fine(r, B)
<1>1. ASSUME NEW p \in 0..Len(q), NEW s \in Heard(q, p)
      PROVE  s \in Heard(r, p)
  <2>1. PICK j \in 1..p : q[j][1] = "contracts" /\ s \in q[j][2]
    BY <1>1, HeardIs
  <2>2. r[j] = q[j]
    BY <2>1
  <2>3. QED  BY <2>1, <2>2, HeardIs
<1>2. Len(q) \in 0..Len(q)
  OBVIOUS
<1>3. ASSUME NEW i \in 1..Len(r), r[i][1] \in TickKinds
      PROVE  r[i][2] \in B \cup Heard(r, i - 1)
  <2>1. q[i][1] \in TickKinds /\ r[i][2] = q[i][2] /\ i - 1 \in 0..Len(q)
    BY <1>3 DEF TickKinds
  <2>2. q[i][2] \in B \cup Heard(q, i - 1)
    BY <2>1 DEF Fine
  <2>3. QED  BY <1>1, <2>1, <2>2
<1>4. QED  BY <1>1, <1>2, <1>3 DEF Whole, Fine

-----------------------------------------------------------------------------
(* Types *)

LEMMA SpendType ==
  ASSUME TypeOK, NEW what \in Bounds, NEW limit, Spend(what, limit)
  PROVE  used' \in [Bounds -> Nat]
  BY SMTT(60) DEF TypeOK, Spend

LEMMA BoundsAre ==
  /\ "queries" \in Bounds /\ "ticks" \in Bounds /\ "drops" \in Bounds
  /\ "errors" \in Bounds /\ "clicks" \in Bounds
  BY DEF Bounds

LEMMA EventTypes ==
  /\ <<"connect">> \in GatewayEvents /\ <<"disconnect">> \in GatewayEvents
  /\ <<"connectDatafeed">> \in RecorderEvents /\ <<"disconnectDatafeed">> \in RecorderEvents
  /\ \A S \in SUBSET Symbols : <<"contracts", S>> \in Messages
  /\ \A s \in Symbols : <<"tick", s>> \in Messages /\ <<"freedTick", s>> \in GatewayEvents
  /\ Messages \subseteq GatewayEvents /\ Messages \subseteq RecorderEvents
  BY DEF GatewayEvents, RecorderEvents, Messages

LEMMA EventsAre ==
  /\ \A e \in GatewayEvents \cup RecorderEvents :
       /\ e[1] = "contracts" => e \in Messages /\ e[2] \subseteq Symbols
       /\ e[1] \in TickKinds => e[2] \in Symbols
  /\ \A e \in Messages : e[1] \in {"contracts", "tick"}
  BY DEF GatewayEvents, RecorderEvents, Messages, TickKinds

LEMMA QueueTypes ==
  ASSUME TypeOK
  PROVE  /\ gpush \in Seq(GatewayEvents) /\ stream \in Seq(Messages)
         /\ rpush \in Seq(RecorderEvents) /\ blogic \in Seq(SUBSET Symbols)
  BY DEF TypeOK, GatewayEvents, RecorderEvents

LEMMA LostType ==
  ASSUME NEW q \in Seq(Messages)
  PROVE  Lost(q) \subseteq Symbols
<1>1. \A i \in DOMAIN q : q[i] \in Messages
  OBVIOUS
<1>2. QED  BY <1>1, EventsAre, EventTypes DEF Lost

LEMMA CutType ==
  ASSUME TypeOK, Cut
  PROVE  stream' \in Seq(Messages) /\ missed' \subseteq Symbols
<1>1. PICK n \in 0..Len(stream) :
        /\ stream' = SubSeq(stream, 1, n)
        /\ missed' = missed \cup Lost(SubSeq(stream, n + 1, Len(stream)))
  BY DEF Cut
<1>2. SubSeq(stream, 1, n) \in Seq(Messages) /\ SubSeq(stream, n + 1, Len(stream)) \in Seq(Messages)
  BY <1>1, QueueTypes, CutIs
<1>3. QED  BY <1>1, <1>2, LostType DEF TypeOK

\* The queue of PUSH while the ring buffers go.
LEMMA FreedIs ==
  ASSUME TypeOK, ResetData
  PROVE  /\ gpush' \in Seq(GatewayEvents) /\ Len(gpush') = Len(gpush)
         /\ \A i \in 1..Len(gpush) :
              IF gpush[i][1] = "tick" THEN gpush'[i] = <<"freedTick", gpush[i][2]>>
                                      ELSE gpush'[i] = gpush[i]
<1>1. gpush \in Seq(GatewayEvents) /\ Len(gpush) \in Nat /\ DOMAIN gpush = 1..Len(gpush)
  BY QueueTypes
<1>2. gpush' = [i \in 1..Len(gpush) |->
                 IF gpush[i][1] = "tick" THEN <<"freedTick", gpush[i][2]>> ELSE gpush[i]]
  BY <1>1 DEF ResetData
<1>3. \A i \in 1..Len(gpush) :
        (IF gpush[i][1] = "tick" THEN <<"freedTick", gpush[i][2]>> ELSE gpush[i]) \in GatewayEvents
  <2>1. \A i \in 1..Len(gpush) : gpush[i] \in GatewayEvents
    BY <1>1
  <2>2. QED  BY <2>1, EventsAre, EventTypes DEF TickKinds
<1>4. gpush' \in [1..Len(gpush) -> GatewayEvents]
  BY <1>2, <1>3
<1>5. gpush' \in Seq(GatewayEvents) /\ Len(gpush') = Len(gpush)
  BY <1>1, <1>4
<1>6. QED  BY <1>2, <1>5

LEMMA TypeEnvironment ==
  ASSUME TypeOK, Environment
  PROVE  TypeOK'
<1>1. CASE ResetData
  <2>1. used' \in [Bounds -> Nat] /\ gpush' \in Seq(GatewayEvents)
    BY <1>1, SpendType, BoundsAre, FreedIs DEF ResetData
  <2>2. QED  BY <1>1, <2>1 DEF ResetData, TypeOK, GatewayEvents, callVars, linkVars, recorderVars, datafeedVars
<1>2. CASE Drop
  <2>1. used' \in [Bounds -> Nat] /\ stream' \in Seq(Messages) /\ missed' \subseteq Symbols
    BY <1>2, SpendType, BoundsAre, CutType DEF Drop
  <2>2. /\ registered' \in BOOLEAN /\ stale' \in BOOLEAN
        /\ UNCHANGED <<gatewayVars, gpush, callVars, linkVars, recorderVars, datafeedVars, aborted>>
    BY <1>2 DEF Drop
  <2>3. QED
    BY <2>1, <2>2
    DEF TypeOK, gatewayVars, callVars, linkVars, recorderVars, datafeedVars
<1>3. CASE WriteFails
  <2>1. gpush' \in Seq(GatewayEvents)
    BY <1>3, QueueTypes, EventTypes, AppendIs DEF WriteFails
  <2>2. /\ stale' \in BOOLEAN
        /\ UNCHANGED <<gatewayVars, registered, stream, callVars, linkVars, recorderVars, datafeedVars,
                       missed, aborted, used>>
    BY <1>3 DEF WriteFails
  <2>3. QED  BY <2>1, <2>2 DEF TypeOK, GatewayEvents, gatewayVars, callVars, linkVars, recorderVars, datafeedVars
<1>4. ASSUME NEW S \in SUBSET Symbols, GotContracts(S)
      PROVE  TypeOK'
  <2>1. gpush' \in Seq(GatewayEvents)
    BY <1>4, QueueTypes, EventTypes, AppendIs DEF GotContracts
  <2>2. blogic' \in Seq(SUBSET Symbols)
    BY <1>4, QueueTypes, AppendIs DEF GotContracts
  <2>3. /\ querying' \in BOOLEAN /\ contracts' \subseteq Symbols
        /\ UNCHANGED <<listed, subscribed, registered, stale, stream, callVars, linkVars, recorderVars,
                       datafeedVars, missed, aborted, used>>
    BY <1>4 DEF GotContracts
  <2>4. QED  BY <2>1, <2>2, <2>3 DEF TypeOK, GatewayEvents, callVars, linkVars, recorderVars, datafeedVars
<1>5. ASSUME NEW s \in Symbols, OnRtnDepthMarketData(s)
      PROVE  TypeOK'
  <2>1. used' \in [Bounds -> Nat]
    BY <1>5, SpendType, BoundsAre DEF OnRtnDepthMarketData
  <2>2. gpush' \in Seq(GatewayEvents)
    <3>1. gpush \in Seq(GatewayEvents) /\ <<"tick", s>> \in GatewayEvents
      BY QueueTypes, EventTypes
    <3>2. QED  BY <1>5, <3>1, AppendIs DEF OnRtnDepthMarketData
  <2>3. QED  BY <1>5, <2>1, <2>2 DEF OnRtnDepthMarketData, TypeOK, GatewayEvents, gatewayVars, callVars, linkVars, recorderVars, datafeedVars
<1>6. QED  BY <1>1, <1>2, <1>3, <1>4, <1>5 DEF Environment

LEMMA TypeGatewayPush ==
  ASSUME TypeOK, GatewayPush
  PROVE  TypeOK'
<1>1. /\ gpush # <<>> /\ gpush' = Tail(gpush) /\ gpush' \in Seq(GatewayEvents)
      /\ Head(gpush) \in GatewayEvents
      /\ UNCHANGED <<gatewayVars, stale, callVars, link, wants, recorderVars, datafeedVars, used>>
  BY QueueTypes, TailIs DEF GatewayPush, OnNotification, OnGatewayTick, OnFreedTick, ConnectClient,
                            DisconnectClient, TakePush
<1>2. CASE OnNotification
  <2>1. Head(gpush)[1] = "contracts" /\ Head(gpush) \in Messages
    BY <1>1, <1>2, EventsAre DEF OnNotification, TakePush
  <2>2. stream' \in Seq(Messages)
    BY <1>2, <2>1, QueueTypes, AppendIs DEF OnNotification
  <2>3. Lost(<<Head(gpush)>>) \subseteq Symbols
    <3>1. <<Head(gpush)>> \in Seq(Messages)
      BY <2>1
    <3>2. QED  BY <3>1, LostType
  <2>4. missed' \subseteq Symbols
    BY <1>2, <2>3 DEF OnNotification, TypeOK
  <2>5. QED  BY <1>1, <1>2, <2>2, <2>4 DEF OnNotification, TypeOK, GatewayEvents, gatewayVars, callVars, linkVars, recorderVars, datafeedVars
<1>3. CASE OnGatewayTick \/ OnFreedTick
  <2>1. Head(gpush)[2] \in Symbols
    BY <1>1, <1>3, EventsAre DEF OnGatewayTick, OnFreedTick, TakePush, TickKinds
  <2>2. stream' \in Seq(Messages)
    BY <1>3, <2>1, QueueTypes, EventTypes, AppendIs, ZenonT(60) DEF OnGatewayTick, OnFreedTick, SendTick
  <2>3. aborted' \in BOOLEAN
    BY <1>3 DEF OnGatewayTick, OnFreedTick, TypeOK
  <2>4. QED  BY <1>1, <1>3, <2>2, <2>3 DEF OnGatewayTick, OnFreedTick, TypeOK, GatewayEvents, gatewayVars, callVars, linkVars, recorderVars, datafeedVars
<1>4. CASE ConnectClient
  <2>1. registered' \in BOOLEAN /\ UNCHANGED <<stream, missed, unheard, aborted>>
    BY <1>4 DEF ConnectClient
  <2>2. QED
    BY <1>1, <2>1
    DEF TypeOK, GatewayEvents, gatewayVars, callVars, linkVars, recorderVars, datafeedVars
<1>5. CASE DisconnectClient
  <2>1. stream' \in Seq(Messages) /\ missed' \subseteq Symbols
    BY <1>5, CutType DEF DisconnectClient, TypeOK
  <2>2. registered' \in BOOLEAN /\ unheard' \in BOOLEAN /\ UNCHANGED aborted
    BY <1>5 DEF DisconnectClient
  <2>3. QED
    BY <1>1, <2>1, <2>2
    DEF TypeOK, GatewayEvents, gatewayVars, callVars, linkVars, recorderVars, datafeedVars
<1>6. QED  BY <1>2, <1>3, <1>4, <1>5 DEF GatewayPush

\* The calls of the recorder run on gRPC threads of the gateway, or fail.
Calls == ConnectPush \/ DisconnectPush \/ LateDisconnectPush \/ DisconnectPushFails
Others ==
  \/ OnGotContracts \/ Connect \/ DispatchPush \/ OnGatewayDisconnected \/ ReaderFreed \/ Calls

LEMMA TypeOthers ==
  ASSUME TypeOK, Others \/ Window
  PROVE  TypeOK'
<1>1. CASE OnGotContracts
  <2>1. Head(blogic) \in SUBSET Symbols /\ Tail(blogic) \in Seq(SUBSET Symbols)
    BY <1>1, QueueTypes, TailIs DEF OnGotContracts
  <2>2. QED  BY <1>1, <2>1 DEF OnGotContracts, TypeOK, streamVars, callVars, linkVars, recorderVars, datafeedVars
<1>2. CASE Calls
  <2>1. /\ gpush \in Seq(GatewayEvents)
        /\ <<"connect">> \in GatewayEvents /\ <<"disconnect">> \in GatewayEvents
    BY QueueTypes, EventTypes
  <2>2. /\ Append(gpush, <<"connect">>) \in Seq(GatewayEvents)
        /\ Append(gpush, <<"disconnect">>) \in Seq(GatewayEvents)
    BY <2>1, AppendIs
  <2>3. gpush' \in Seq(GatewayEvents)
    BY <1>2, <2>1, <2>2 DEF Calls, ConnectPush, DisconnectPush, LateDisconnectPush, Posts,
                            DisconnectPushFails
  <2>4. used' \in [Bounds -> Nat]
    BY <1>2, SpendType, BoundsAre DEF Calls, ConnectPush, DisconnectPush, LateDisconnectPush, Posts,
                                      DisconnectPushFails, TypeOK
  <2>5. /\ opening' \in BOOLEAN /\ late' \in Nat /\ unheard' \in BOOLEAN
        /\ link' \in {"none", "idle", "open", "calling", "closing"}
    <3>1. opening \in BOOLEAN /\ late \in Nat /\ unheard \in BOOLEAN
      BY DEF TypeOK
    <3>2. link \in {"none", "idle", "open", "calling", "closing"}
      BY DEF TypeOK
    <3>3. CASE ConnectPush \/ DisconnectPush
      BY <3>1, <3>2, <3>3 DEF ConnectPush, DisconnectPush, callVars
    <3>4. CASE LateDisconnectPush
      BY <3>1, <3>2, <3>4 DEF LateDisconnectPush
    <3>5. CASE DisconnectPushFails
      BY <3>1, <3>5 DEF DisconnectPushFails
    <3>6. QED  BY <1>2, <3>3, <3>4, <3>5 DEF Calls
  <2>6. UNCHANGED <<gatewayVars, registered, stale, stream, wants, recorderVars, datafeedVars, missed,
                    aborted>>
    BY <1>2 DEF Calls, ConnectPush, DisconnectPush, LateDisconnectPush, Posts, DisconnectPushFails
  <2>7. QED  BY <2>3, <2>4, <2>5, <2>6 DEF TypeOK, GatewayEvents, gatewayVars, recorderVars, datafeedVars
<1>3. CASE Connect \/ OnGatewayDisconnected \/ ReaderFreed
  <2>1. /\ link' \in {"open", "calling", "idle", "none"} /\ opening' \in BOOLEAN /\ unheard' \in BOOLEAN
        /\ UNCHANGED <<gatewayVars, gpush, registered, stale, stream, late, wants, recorderVars,
                       datafeedVars, missed, aborted, used>>
    BY <1>3 DEF Connect, OnGatewayDisconnected, FreeReaderThread, ReaderFreed, TypeOK, streamVars, callVars
  <2>2. QED  BY <2>1 DEF TypeOK, gatewayVars, recorderVars, datafeedVars
<1>4. CASE DispatchPush
  <2>1. Head(stream) \in RecorderEvents /\ Tail(stream) \in Seq(Messages)
    BY <1>4, QueueTypes, EventTypes, TailIs DEF DispatchPush
  <2>2. rpush' \in Seq(RecorderEvents)
    BY <1>4, <2>1, QueueTypes, AppendIs DEF DispatchPush
  <2>3. QED  BY <1>4, <2>1, <2>2 DEF DispatchPush, TypeOK, RecorderEvents, gatewayVars, callVars, linkVars, datafeedVars
<1>5. CASE Window
  <2>1. used' \in [Bounds -> Nat]
    BY <1>5, SpendType, BoundsAre DEF Window, ConnectGateway, DisconnectGateway, DatafeedConnectButton,
                                      DatafeedDisconnectButton
  <2>2. CASE ConnectGateway \/ DisconnectGateway
    <3>1. link' \in {"idle", "none", "calling"}
      BY <2>2 DEF ConnectGateway, DisconnectGateway, FreeReaderThread
    <3>2. /\ wants' \in BOOLEAN
          /\ UNCHANGED <<gatewayVars, streamVars, unheard, recorderVars, datafeedVars, missed, aborted>>
      BY <2>2 DEF ConnectGateway, DisconnectGateway
    <3>3. QED  BY <2>1, <3>1, <3>2 DEF TypeOK, gatewayVars, streamVars, callVars, recorderVars, datafeedVars
  <2>3. CASE DatafeedConnectButton \/ DatafeedDisconnectButton
    <3>1. rpush' \in Seq(RecorderEvents)
      BY <2>3, QueueTypes, EventTypes, AppendIs, ZenonT(60)
      DEF DatafeedConnectButton, DatafeedDisconnectButton
    <3>2. /\ wantsDf' \in BOOLEAN
          /\ UNCHANGED <<gatewayVars, streamVars, linkVars, client, step, want, ids, unlisted,
                         datafeedVars, missed, aborted>>
      BY <2>3 DEF DatafeedConnectButton, DatafeedDisconnectButton
    <3>3. QED  BY <2>1, <3>1, <3>2 DEF TypeOK, RecorderEvents, gatewayVars, streamVars, callVars, linkVars, datafeedVars
  <2>4. QED  BY <1>5, <2>2, <2>3 DEF Window
<1>6. QED  BY <1>1, <1>2, <1>3, <1>4, <1>5 DEF Others

\* What PUSH of the recorder takes from its queue.
Takes ==
  ConnectDatafeed \/ DisconnectDatafeed \/ OnGotTick \/ OnGotTickFails \/ OnGotNotification
\* What it does in onGotNotification.
Asks ==
  \/ Lock \/ ListContracts \/ GetContract \/ GetContractDies \/ GetContractFails
  \/ \E s \in Symbols : InsertContract(s) \/ InsertContractFails(s)

LEMMA TakeIs ==
  ASSUME TypeOK, Takes
  PROVE  /\ step = "idle" /\ rpush # <<>> /\ rpush' = Tail(rpush)
         /\ Head(rpush) \in RecorderEvents /\ rpush' \in Seq(RecorderEvents)
         /\ UNCHANGED <<gatewayVars, streamVars, linkVars, wantsDf, ids, unlisted, stored, aborted>>
<1>1. \E what \in {"connectDatafeed", "disconnectDatafeed", "tick", "contracts"} : Take(what)
  BY DEF Takes, ConnectDatafeed, DisconnectDatafeed, OnGotTick, OnGotTickFails, OnGotNotification
<1>2. /\ step = "idle" /\ rpush # <<>> /\ rpush' = Tail(rpush)
      /\ UNCHANGED <<gatewayVars, streamVars, linkVars, wantsDf, ids, unlisted, stored, aborted>>
  BY <1>1 DEF Take
<1>3. QED  BY <1>2, QueueTypes, TailIs

LEMMA TypeTakes ==
  ASSUME TypeOK, Takes
  PROVE  TypeOK'
<1>1. /\ rpush # <<>> /\ rpush' \in Seq(RecorderEvents) /\ Head(rpush) \in RecorderEvents
      /\ UNCHANGED <<gatewayVars, streamVars, linkVars, wantsDf, ids, unlisted, stored, aborted>>
  BY TakeIs
<1>2. used' \in [Bounds -> Nat]
  BY SpendType, BoundsAre DEF Takes, ConnectDatafeed, DisconnectDatafeed, OnGotTick, OnGotTickFails,
                              OnGotNotification, TypeOK
<1>3. CASE OnGotTick
  <2>1. Head(rpush)[2] \in Symbols
    BY <1>1, <1>3, EventsAre DEF OnGotTick, Take, TickKinds
  <2>2. QED  BY <1>1, <1>2, <1>3, <2>1 DEF OnGotTick, TypeOK, RecorderEvents, gatewayVars, streamVars, callVars, linkVars
<1>4. CASE OnGotNotification
  <2>1. Head(rpush)[2] \subseteq Symbols
    BY <1>1, <1>4, EventsAre DEF OnGotNotification, Take
  <2>2. QED  BY <1>1, <1>2, <1>4, <2>1 DEF OnGotNotification, TypeOK, RecorderEvents, gatewayVars, streamVars, callVars, linkVars
<1>5. CASE ConnectDatafeed \/ DisconnectDatafeed \/ OnGotTickFails
  <2>1. client' \in BOOLEAN /\ UNCHANGED <<step, want, missed>>
    BY <1>5 DEF ConnectDatafeed, DisconnectDatafeed, OnGotTickFails, TypeOK
  <2>2. ticks' \subseteq Symbols
    <3>1. CASE OnGotTickFails
      <4>1. Head(rpush)[2] \in Symbols
        BY <1>1, <3>1, EventsAre DEF OnGotTickFails, Take, TickKinds
      <4>2. QED  BY <3>1, <4>1 DEF OnGotTickFails, TypeOK
    <3>2. CASE ConnectDatafeed \/ DisconnectDatafeed
      BY <3>2 DEF ConnectDatafeed, DisconnectDatafeed, TypeOK
    <3>3. QED  BY <1>5, <3>1, <3>2
  <2>3. QED  BY <1>1, <1>2, <2>1, <2>2 DEF TypeOK, RecorderEvents, gatewayVars, streamVars, callVars, linkVars
<1>6. QED  BY <1>3, <1>4, <1>5 DEF Takes

LEMMA TypeAsks ==
  ASSUME TypeOK, Asks
  PROVE  TypeOK'
<1>1. UNCHANGED <<gatewayVars, streamVars, linkVars, rpush, wantsDf, client, ticks>>
  BY DEF Asks, Lock, ListContracts, GetContract, GetContractDies, GetContractFails, InsertContract,
         InsertContractFails, Asking
<1>2. used' \in [Bounds -> Nat] /\ aborted' \in BOOLEAN
  BY SpendType, BoundsAre DEF Asks, Lock, ListContracts, GetContract, GetContractDies,
                              GetContractFails, InsertContract, InsertContractFails, TypeOK
<1>3. /\ step' \in {"idle", "lock", "get", "read", "insert"}
      /\ want' \subseteq Symbols /\ ids' \subseteq Symbols
      /\ stored' \subseteq Symbols /\ missed' \subseteq Symbols /\ unlisted' \subseteq Symbols
  BY DEF Asks, Lock, ListContracts, GetContract, GetContractDies, GetContractFails, InsertContract,
         InsertContractFails, Inserts, Inserted, TypeOK
<1>4. QED  BY <1>1, <1>2, <1>3 DEF TypeOK, gatewayVars, streamVars, callVars, linkVars

LEMMA NextIs ==
  ASSUME Next
  PROVE  GatewayPush \/ Takes \/ Asks \/ Environment \/ Window \/ Others
  BY DEF Next, Handling, GatewayCalls, Failures, Takes, Asks, Calls, Others

\* Every step keeps the types.
LEMMA TypeStep ==
  ASSUME TypeOK, [Next]_vars
  PROVE  TypeOK'
<1>1. CASE UNCHANGED vars
  BY <1>1 DEF vars, gatewayVars, streamVars, callVars, linkVars, recorderVars, datafeedVars, TypeOK
<1>2. QED
  BY <1>1, NextIs, TypeGatewayPush, TypeTakes, TypeAsks, TypeEnvironment, TypeOthers

LEMMA TypeInit == ASSUME Init PROVE TypeOK
<1>1. /\ blogic \in Seq(SUBSET Symbols) /\ gpush \in Seq(GatewayEvents) /\ stream \in Seq(Messages)
      /\ rpush \in Seq(RecorderEvents) /\ used \in [Bounds -> Nat]
  BY DEF Init
<1>2. QED  BY <1>1 DEF Init, TypeOK, GatewayEvents, RecorderEvents

\* The state of the two programs stays well-typed: TypeOK is an invariant.
THEOREM TypeCorrect == Spec => []TypeOK
<1>1. QED  BY TypeInit, TypeStep, PTL DEF Spec

-----------------------------------------------------------------------------
(* Contracts before ticks *)

\* What is known to be notified grows along the queues.
LEMMA Grows ==
  ASSUME Settled \subseteq Settled', Whole(rpush) \subseteq Received',
         Whole(stream) \subseteq Sent', Whole(gpush) \subseteq Notified'
  PROVE  Received \subseteq Received' /\ Sent \subseteq Sent' /\ Notified \subseteq Notified'
  BY DEF Received, Sent, Notified

LEMMA NotifiedKept ==
  ASSUME SymbolsNotified, Notified \subseteq Notified', UNCHANGED <<blogic, subscribed>>
  PROVE  SymbolsNotified'
  BY DEF SymbolsNotified

LEMMA SettledSame ==
  ASSUME missed \subseteq missed', UNCHANGED <<stored, step, want, ids, unlisted>>
  PROVE  Settled \subseteq Settled'
  BY DEF Settled, Pending

\* Steps on no queue.
LEMMA FramedKept ==
  ASSUME Framed, UNCHANGED <<rpush, stream, gpush, blogic, subscribed>>,
         Settled \subseteq Settled', TicksFramed'
  PROVE  Framed'
<1>1. Whole(rpush) = Whole(rpush') /\ Whole(stream) = Whole(stream') /\ Whole(gpush) = Whole(gpush')
  OBVIOUS
<1>2. Received \subseteq Received' /\ Sent \subseteq Sent' /\ Notified \subseteq Notified'
  BY <1>1 DEF Received, Sent, Notified
<1>3. Fine(rpush', Settled') /\ Fine(stream', Received') /\ Fine(gpush', Sent')
  BY <1>2, FineGrows DEF Framed, QueuesFine
<1>4. QED  BY <1>2, <1>3, NotifiedKept DEF Framed, QueuesFine

\* The recorder's PUSH takes a message.
LEMMA FramedTaken ==
  ASSUME TypeOK, Framed, rpush # <<>>, rpush' = Tail(rpush),
         UNCHANGED <<stream, gpush, blogic, subscribed>>, Settled \subseteq Settled',
         Head(rpush)[1] = "contracts" => Head(rpush)[2] \subseteq Settled',
         TicksFramed'
  PROVE  Framed'
<1>1. Fine(rpush', Settled') /\ Whole(rpush) \subseteq Whole(rpush') \cup Settled'
  BY QueueTypes, TailKeeps DEF Framed, QueuesFine
<1>2. Whole(stream) = Whole(stream') /\ Whole(gpush) = Whole(gpush')
  OBVIOUS
<1>3. Received \subseteq Received' /\ Sent \subseteq Sent' /\ Notified \subseteq Notified'
  BY <1>1, <1>2 DEF Received, Sent, Notified
<1>4. Fine(stream', Received') /\ Fine(gpush', Sent')
  BY <1>3, FineGrows DEF Framed, QueuesFine
<1>5. QED  BY <1>1, <1>3, <1>4, NotifiedKept DEF Framed, QueuesFine

\* A click is posted to the recorder's PUSH.
LEMMA FramedClicked ==
  ASSUME TypeOK, Framed, NEW e \in RecorderEvents, e[1] \notin TickKinds, rpush' = Append(rpush, e),
         UNCHANGED <<stream, gpush, blogic, subscribed, Settled>>, TicksFramed'
  PROVE  Framed'
<1>1. Fine(rpush', Settled) /\ Whole(rpush) \subseteq Whole(rpush')
  BY QueueTypes, AppendKeeps DEF Framed, QueuesFine
<1>2. Whole(stream) = Whole(stream') /\ Whole(gpush) = Whole(gpush') /\ Settled' = Settled
  OBVIOUS
<1>3. Received \subseteq Received' /\ Sent \subseteq Sent' /\ Notified \subseteq Notified'
  BY <1>1, <1>2 DEF Received, Sent, Notified
<1>4. Fine(stream', Received') /\ Fine(gpush', Sent')
  BY <1>3, FineGrows DEF Framed, QueuesFine
<1>5. QED  BY <1>1, <1>2, <1>3, <1>4, NotifiedKept DEF Framed, QueuesFine

\* An event is posted to the gateway's PUSH, and perhaps what it notifies to BLOGIC.
LEMMA FramedPosted ==
  ASSUME TypeOK, Framed, NEW e \in GatewayEvents, gpush' = Append(gpush, e),
         e[1] \in TickKinds => e[2] \in Notified,
         UNCHANGED <<rpush, stream, subscribed, Settled>>, TicksFramed',
         \/ UNCHANGED blogic
         \/ e[1] = "contracts" /\ blogic' = Append(blogic, e[2])
  PROVE  Framed'
<1>1. /\ Fine(gpush', Sent) /\ Whole(gpush) \subseteq Whole(gpush')
      /\ e[1] = "contracts" => e[2] \subseteq Whole(gpush')
  BY QueueTypes, AppendKeeps DEF Framed, QueuesFine, Notified
<1>2. Whole(stream) = Whole(stream') /\ Whole(rpush) = Whole(rpush') /\ Settled' = Settled
  OBVIOUS
<1>3. Received' = Received /\ Sent' = Sent /\ Notified \subseteq Notified'
  BY <1>1, <1>2 DEF Received, Sent, Notified
<1>4. QueuesFine'
  BY <1>1, <1>2, <1>3 DEF Framed, QueuesFine
<1>5. CASE UNCHANGED blogic
  BY <1>3, <1>4, <1>5, NotifiedKept DEF Framed
<1>6. CASE e[1] = "contracts" /\ blogic' = Append(blogic, e[2])
  <2>1. e[2] \subseteq Notified' /\ e[2] \in SUBSET Symbols
    BY <1>1, <1>6, EventsAre DEF Notified
  <2>2. /\ Len(blogic) \in Nat /\ Len(blogic') = Len(blogic) + 1 /\ blogic'[Len(blogic) + 1] = e[2]
        /\ \A i \in 1..Len(blogic) : blogic'[i] = blogic[i]
    BY <1>6, <2>1, QueueTypes, AppendIs
  <2>3. \A i \in 1..Len(blogic') : i \in 1..Len(blogic) \/ i = Len(blogic) + 1
    BY <2>2
  <2>4. \A i \in 1..Len(blogic') : blogic'[i] \subseteq Notified'
    BY <1>3, <2>1, <2>2, <2>3 DEF Framed, SymbolsNotified
  <2>5. SymbolsNotified'
    BY <1>3, <2>4 DEF Framed, SymbolsNotified
  <2>6. QED  BY <1>4, <2>5 DEF Framed
<1>7. QED  BY <1>5, <1>6

\* The gateway's PUSH takes an event, and the stream gets what it sends or is cut.
LEMMA FramedSent ==
  ASSUME TypeOK, Framed, gpush # <<>>, gpush' = Tail(gpush),
         UNCHANGED <<rpush, blogic, subscribed>>, Settled \subseteq Settled',
         Whole(stream) \subseteq Sent',
         Fine(stream', Received),
         Head(gpush)[1] = "contracts" => Head(gpush)[2] \subseteq Sent',
         TicksFramed'
  PROVE  Framed'
<1>1. Received \subseteq Received' /\ Sent \subseteq Sent'
  BY DEF Received, Sent
<1>2. Fine(gpush', Sent') /\ Whole(gpush) \subseteq Whole(gpush') \cup Sent'
  BY <1>1, QueueTypes, TailKeeps DEF Framed, QueuesFine
<1>3. Notified \subseteq Notified'
  BY <1>1, <1>2 DEF Notified
<1>4. Fine(rpush', Settled') /\ Fine(stream', Received')
  BY <1>1, FineGrows DEF Framed, QueuesFine
<1>5. QED  BY <1>2, <1>3, <1>4, NotifiedKept DEF Framed, QueuesFine

\* The stream is cut: what its reader will not see is missed.
LEMMA CutFine ==
  ASSUME TypeOK, Framed, Cut
  PROVE  /\ missed \subseteq missed' /\ Fine(stream', Received)
         /\ Whole(stream) \subseteq Whole(stream') \cup missed'
<1>1. PICK n \in 0..Len(stream) :
        /\ stream' = SubSeq(stream, 1, n)
        /\ missed' = missed \cup Lost(SubSeq(stream, n + 1, Len(stream)))
  BY DEF Cut
<1>2. stream \in Seq(Messages) /\ Fine(stream, Received)
  BY QueueTypes DEF Framed, QueuesFine
<1>3. /\ Whole(stream) \subseteq Whole(SubSeq(stream, 1, n)) \cup Lost(SubSeq(stream, n + 1, Len(stream)))
      /\ Fine(SubSeq(stream, 1, n), Received)
  BY <1>2, CutKeeps
<1>4. QED  BY <1>1, <1>3

LEMMA FramedGatewayPush ==
  ASSUME TypeOK, Framed, GatewayPush
  PROVE  Framed'
<1>1. /\ gpush # <<>> /\ gpush' = Tail(gpush)
      /\ UNCHANGED <<rpush, blogic, subscribed, stored, step, want, ids, unlisted, ticks>>
  BY DEF GatewayPush, OnNotification, OnGatewayTick, OnFreedTick, ConnectClient, DisconnectClient,
         TakePush, gatewayVars, recorderVars, datafeedVars
<1>2. Head(gpush) \in GatewayEvents /\ stream \in Seq(Messages)
  BY <1>1, QueueTypes, TailIs
<1>3. missed \subseteq missed' /\ Settled \subseteq Settled' /\ TicksFramed'
  <2>1. missed \subseteq missed'
    BY CutFine DEF GatewayPush, OnNotification, OnGatewayTick, OnFreedTick, ConnectClient, DisconnectClient
  <2>2. QED  BY <1>1, <2>1, SettledSame DEF Framed, TicksFramed
<1>4. Fine(stream, Received) /\ Fine(gpush, Sent)
  BY DEF Framed, QueuesFine
<1>5. CASE OnNotification
  <2>1. Head(gpush)[1] = "contracts" /\ Head(gpush) \in Messages
    BY <1>2, <1>5, EventsAre DEF OnNotification, TakePush
  <2>2. CASE registered
    <3>1. stream' = Append(stream, Head(gpush))
      BY <1>5, <2>2 DEF OnNotification
    <3>2. /\ Whole(stream) \subseteq Whole(stream') /\ Head(gpush)[2] \subseteq Whole(stream')
          /\ Fine(stream', Received)
      BY <1>2, <1>4, <2>1, <3>1, AppendKeeps DEF TickKinds
    <3>3. QED  BY <1>1, <1>3, <3>2, FramedSent DEF Sent
  <2>3. CASE ~registered
    <3>1. stream' = stream /\ missed' = missed \cup Lost(<<Head(gpush)>>)
      BY <1>5, <2>3 DEF OnNotification
    <3>2. Head(gpush)[2] \subseteq Lost(<<Head(gpush)>>)
      <4>1. 1 \in DOMAIN <<Head(gpush)>> /\ <<Head(gpush)>>[1] = Head(gpush)
        OBVIOUS
      <4>2. QED  BY <2>1, <4>1 DEF Lost
    <3>3. Head(gpush)[2] \subseteq Sent' /\ Whole(stream) \subseteq Sent'
      BY <3>1, <3>2 DEF Sent, Received, Settled
    <3>4. QED  BY <1>1, <1>3, <1>4, <3>1, <3>3, FramedSent
  <2>4. QED  BY <2>2, <2>3
<1>6. CASE OnGatewayTick \/ OnFreedTick
  <2>1. Head(gpush)[1] \in TickKinds /\ Head(gpush)[1] # "contracts"
    BY <1>6 DEF OnGatewayTick, OnFreedTick, TakePush, TickKinds
  <2>2. Head(gpush)[2] \in Sent /\ Head(gpush)[2] \in Symbols
    BY <1>1, <1>2, <1>4, <2>1, QueueTypes, TailKeeps, EventsAre
  <2>3. CASE registered
    <3>1. stream' = Append(stream, <<"tick", Head(gpush)[2]>>)
      BY <1>6, <2>3 DEF OnGatewayTick, OnFreedTick, SendTick
    <3>2. /\ <<"tick", Head(gpush)[2]>> \in Messages
          /\ <<"tick", Head(gpush)[2]>>[2] \in Received \cup Whole(stream)
      BY <2>2, EventTypes DEF Sent
    <3>3. Whole(stream) \subseteq Whole(stream') /\ Fine(stream', Received)
      BY <1>2, <1>4, <3>1, <3>2, AppendKeeps
    <3>4. QED  BY <1>1, <1>3, <2>1, <3>3, FramedSent DEF Sent
  <2>4. CASE ~registered
    <3>1. stream' = stream
      BY <1>6, <2>4 DEF OnGatewayTick, OnFreedTick, SendTick
    <3>2. Whole(stream) \subseteq Sent'
      BY <3>1 DEF Sent
    <3>3. QED  BY <1>1, <1>3, <1>4, <2>1, <3>1, <3>2, FramedSent
  <2>5. QED  BY <2>3, <2>4
<1>7. CASE ConnectClient \/ (DisconnectClient /\ ~registered)
  <2>1. stream' = stream /\ Head(gpush)[1] # "contracts"
    BY <1>7 DEF ConnectClient, DisconnectClient, TakePush
  <2>2. Whole(stream) \subseteq Sent'
    BY <2>1 DEF Sent
  <2>3. QED  BY <1>1, <1>3, <1>4, <2>1, <2>2, FramedSent
<1>8. CASE DisconnectClient /\ registered
  <2>1. Head(gpush)[1] # "contracts" /\ Cut
    BY <1>8 DEF DisconnectClient, TakePush
  <2>2. Fine(stream', Received) /\ Whole(stream) \subseteq Sent'
    BY <2>1, CutFine DEF Sent, Received, Settled
  <2>3. QED  BY <1>1, <1>3, <2>1, <2>2, FramedSent
<1>9. QED  BY <1>5, <1>6, <1>7, <1>8 DEF GatewayPush

LEMMA FramedEnvironment ==
  ASSUME TypeOK, Framed, Environment
  PROVE  Framed'
<1>1. CASE ResetData
  <2>1. UNCHANGED <<rpush, stream, blogic, subscribed, stored, missed, step, want, ids, unlisted, ticks>>
    BY <1>1 DEF ResetData, recorderVars, datafeedVars
  <2>2. Settled' = Settled /\ Received' = Received /\ Sent' = Sent
    BY <2>1 DEF Settled, Pending, Received, Sent
  <2>3. Whole(gpush) \subseteq Whole(gpush') /\ Fine(gpush', Sent)
    BY <1>1, QueueTypes, FreedIs, FreedKeeps DEF Framed, QueuesFine
  <2>4. Notified \subseteq Notified'
    BY <2>2, <2>3 DEF Notified
  <2>5. QueuesFine' /\ TicksFramed'
    BY <2>1, <2>2, <2>3 DEF Framed, QueuesFine, TicksFramed
  <2>6. QED  BY <2>1, <2>4, <2>5, NotifiedKept DEF Framed
<1>2. CASE Drop
  <2>1. Cut /\ UNCHANGED <<rpush, gpush, blogic, subscribed, stored, step, want, ids, unlisted, ticks>>
    BY <1>2 DEF Drop, gatewayVars, recorderVars, datafeedVars
  <2>2. /\ missed \subseteq missed' /\ Fine(stream', Received)
        /\ Whole(stream) \subseteq Whole(stream') \cup missed'
    BY <2>1, CutFine
  <2>3. Settled \subseteq Settled' /\ TicksFramed'
    BY <2>1, <2>2, SettledSame DEF Framed, TicksFramed
  <2>4. Whole(rpush) = Whole(rpush') /\ Whole(gpush) = Whole(gpush') /\ missed' \subseteq Settled'
    BY <2>1 DEF Settled
  <2>5. Received \subseteq Received' /\ Sent \subseteq Sent' /\ Notified \subseteq Notified'
    BY <2>2, <2>3, <2>4 DEF Received, Sent, Notified
  <2>6. Fine(rpush', Settled') /\ Fine(stream', Received') /\ Fine(gpush', Sent')
    BY <2>1, <2>2, <2>3, <2>5, FineGrows DEF Framed, QueuesFine
  <2>7. QED  BY <2>1, <2>3, <2>5, <2>6, NotifiedKept DEF Framed, QueuesFine
<1>3. CASE WriteFails
  <2>1. /\ gpush' = Append(gpush, <<"disconnect">>) /\ <<"disconnect">> \in GatewayEvents
        /\ UNCHANGED <<rpush, stream, blogic, subscribed, stored, missed, step, want, ids, unlisted, ticks>>
    BY <1>3, EventTypes DEF WriteFails, gatewayVars, recorderVars, datafeedVars
  <2>2. UNCHANGED Settled /\ TicksFramed' /\ <<"disconnect">>[1] \notin TickKinds
    BY <2>1 DEF Settled, Pending, Framed, TicksFramed, TickKinds
  <2>3. QED  BY <2>1, <2>2, FramedPosted
<1>4. ASSUME NEW S \in SUBSET Symbols, GotContracts(S)
      PROVE  Framed'
  <2>1. /\ gpush' = Append(gpush, <<"contracts", S>>) /\ blogic' = Append(blogic, S)
        /\ UNCHANGED <<rpush, stream, subscribed, stored, missed, step, want, ids, unlisted, ticks>>
    BY <1>4 DEF GotContracts, recorderVars, datafeedVars
  <2>2. UNCHANGED Settled /\ TicksFramed'
    BY <2>1 DEF Settled, Pending, Framed, TicksFramed
  <2>3. /\ <<"contracts", S>> \in GatewayEvents /\ <<"contracts", S>>[1] \notin TickKinds
        /\ <<"contracts", S>>[1] = "contracts" /\ <<"contracts", S>>[2] = S
    BY EventTypes DEF TickKinds
  <2>4. QED  BY <2>1, <2>2, <2>3, FramedPosted
<1>5. ASSUME NEW s \in Symbols, OnRtnDepthMarketData(s)
      PROVE  Framed'
  <2>1. /\ s \in subscribed
        /\ UNCHANGED <<rpush, stream, blogic, subscribed, stored, missed, step, want, ids, unlisted, ticks>>
        /\ gpush' = Append(gpush, <<"tick", s>>) \/ UNCHANGED gpush
    BY <1>5 DEF OnRtnDepthMarketData, gatewayVars, recorderVars, datafeedVars
  <2>2. UNCHANGED Settled /\ TicksFramed'
    BY <2>1 DEF Settled, Pending, Framed, TicksFramed
  <2>3. /\ <<"tick", s>> \in GatewayEvents /\ <<"tick", s>>[2] = s /\ s \in Notified
    BY <2>1, EventTypes DEF Framed, SymbolsNotified
  <2>4. CASE gpush' = Append(gpush, <<"tick", s>>)
    BY <2>1, <2>2, <2>3, <2>4, FramedPosted
  <2>5. CASE UNCHANGED gpush
    BY <2>1, <2>2, <2>5, FramedKept
  <2>6. QED  BY <2>1, <2>4, <2>5
<1>6. QED  BY <1>1, <1>2, <1>3, <1>4, <1>5 DEF Environment

LEMMA FramedOthers ==
  ASSUME TypeOK, Framed, Others \/ Window
  PROVE  Framed'
<1>1. UNCHANGED <<stored, missed, step, want, ids, unlisted, ticks>>
  BY DEF Others, Calls, ConnectPush, DisconnectPush, LateDisconnectPush, Posts, DisconnectPushFails,
         OnGotContracts, Connect, DispatchPush, OnGatewayDisconnected, ReaderFreed, Window,
         ConnectGateway, DisconnectGateway, DatafeedConnectButton, DatafeedDisconnectButton,
         recorderVars, datafeedVars
<1>2. UNCHANGED Settled /\ TicksFramed'
  BY <1>1 DEF Settled, Pending, Framed, TicksFramed
<1>3. CASE OnGotContracts
  <2>1. /\ UNCHANGED <<rpush, stream, gpush>> /\ blogic # <<>> /\ blogic' = Tail(blogic)
        /\ subscribed' = subscribed \cup Head(blogic)
    BY <1>3 DEF OnGotContracts, streamVars, recorderVars
  <2>2. /\ Head(blogic) = blogic[1] /\ Len(blogic) \in Nat \ {0} /\ Len(blogic') = Len(blogic) - 1
        /\ \A i \in 1..(Len(blogic) - 1) : blogic'[i] = blogic[i + 1]
    BY <2>1, QueueTypes, TailIs
  <2>3. Settled' = Settled /\ Received' = Received /\ Sent' = Sent /\ Notified' = Notified
    BY <1>2, <2>1 DEF Received, Sent, Notified
  <2>4. 1 \in 1..Len(blogic) /\ \A i \in 1..(Len(blogic) - 1) : i + 1 \in 1..Len(blogic)
    BY <2>2
  <2>5. SymbolsNotified'
    BY <2>1, <2>2, <2>3, <2>4 DEF Framed, SymbolsNotified
  <2>6. QueuesFine'
    BY <2>1, <2>3 DEF Framed, QueuesFine
  <2>7. QED  BY <1>2, <2>5, <2>6 DEF Framed
<1>4. CASE DispatchPush
  <2>1. /\ stream # <<>> /\ stream' = Tail(stream) /\ rpush' = Append(rpush, Head(stream))
        /\ UNCHANGED <<gpush, blogic, subscribed>>
    BY <1>4 DEF DispatchPush, gatewayVars
  <2>2. /\ stream \in Seq(Messages) /\ rpush \in Seq(RecorderEvents)
        /\ Head(stream) \in Messages /\ Head(stream) \in RecorderEvents
    BY <2>1, QueueTypes, TailIs, EventTypes
  <2>3. Head(stream)[1] \in TickKinds => Head(stream)[2] \in Received
    BY <2>1, <2>2, TailKeeps DEF Framed, QueuesFine
  <2>4. /\ Whole(rpush) \subseteq Whole(rpush') /\ Fine(rpush', Settled)
        /\ Head(stream)[1] = "contracts" => Head(stream)[2] \subseteq Whole(rpush')
    BY <2>1, <2>2, <2>3, AppendKeeps DEF Framed, QueuesFine, Received
  <2>5. Settled' = Settled /\ Received \subseteq Received' /\ Whole(rpush') \subseteq Received'
    BY <1>2, <2>4 DEF Received
  <2>6. Fine(stream', Received') /\ Whole(stream) \subseteq Whole(stream') \cup Received'
    BY <2>1, <2>2, <2>4, <2>5, TailKeeps DEF Framed, QueuesFine
  <2>7. Sent \subseteq Sent' /\ Notified \subseteq Notified'
    BY <2>1, <2>5, <2>6 DEF Sent, Notified
  <2>8. Fine(gpush', Sent')
    BY <2>1, <2>7, FineGrows DEF Framed, QueuesFine
  <2>9. QED  BY <1>2, <2>1, <2>4, <2>5, <2>6, <2>7, <2>8, NotifiedKept DEF Framed, QueuesFine
<1>5. CASE \/ Connect \/ OnGatewayDisconnected \/ ReaderFreed \/ ConnectGateway \/ DisconnectGateway
           \/ Calls
  <2>1. /\ UNCHANGED <<rpush, stream, blogic, subscribed>>
        /\ \/ UNCHANGED gpush
           \/ gpush' = Append(gpush, <<"connect">>)
           \/ gpush' = Append(gpush, <<"disconnect">>)
    BY <1>5 DEF Connect, OnGatewayDisconnected, ReaderFreed, ConnectGateway, DisconnectGateway,
                Calls, ConnectPush, DisconnectPush, LateDisconnectPush, Posts, DisconnectPushFails,
                gatewayVars, streamVars, recorderVars
  <2>2. CASE UNCHANGED gpush
    BY <1>2, <2>1, <2>2, FramedKept
  <2>3. CASE gpush' = Append(gpush, <<"connect">>)
    <3>1. <<"connect">> \in GatewayEvents /\ <<"connect">>[1] \notin TickKinds
      BY EventTypes DEF TickKinds
    <3>2. QED  BY <1>2, <2>1, <2>3, <3>1, FramedPosted
  <2>4. CASE gpush' = Append(gpush, <<"disconnect">>)
    <3>1. <<"disconnect">> \in GatewayEvents /\ <<"disconnect">>[1] \notin TickKinds
      BY EventTypes DEF TickKinds
    <3>2. QED  BY <1>2, <2>1, <2>4, <3>1, FramedPosted
  <2>5. QED  BY <2>1, <2>2, <2>3, <2>4
<1>6. CASE DatafeedConnectButton \/ DatafeedDisconnectButton
  <2>1. PICK e \in {<<"connectDatafeed">>, <<"disconnectDatafeed">>} : rpush' = Append(rpush, e)
    BY <1>6 DEF DatafeedConnectButton, DatafeedDisconnectButton
  <2>2. e \in RecorderEvents /\ e[1] \notin TickKinds
    BY <2>1, EventTypes DEF TickKinds
  <2>3. UNCHANGED <<stream, gpush, blogic, subscribed>>
    BY <1>6 DEF DatafeedConnectButton, DatafeedDisconnectButton, gatewayVars, streamVars
  <2>4. QED  BY <1>2, <2>1, <2>2, <2>3, FramedClicked
<1>7. QED  BY <1>3, <1>4, <1>5, <1>6 DEF Others, Window

LEMMA FramedTakes ==
  ASSUME TypeOK, Framed, Takes
  PROVE  Framed'
<1>1. /\ step = "idle" /\ rpush # <<>> /\ rpush' = Tail(rpush)
      /\ Head(rpush) \in RecorderEvents
      /\ UNCHANGED <<stream, gpush, blogic, subscribed, stored, unlisted>>
  BY TakeIs DEF gatewayVars, streamVars
<1>2. Settled = stored \cup missed \cup unlisted
  BY <1>1 DEF Settled, Pending
<1>3. missed \subseteq missed' /\ Settled \subseteq Settled'
  <2>1. missed \subseteq missed'
    BY DEF Takes, ConnectDatafeed, DisconnectDatafeed, OnGotTick, OnGotTickFails, OnGotNotification
  <2>2. QED  BY <1>1, <1>2, <2>1 DEF Settled
<1>4. CASE OnGotNotification
  <2>1. Head(rpush)[2] \subseteq Settled'
    BY <1>4 DEF OnGotNotification, Settled, Pending
  <2>2. TicksFramed'
    BY <1>1, <1>3, <1>4 DEF OnGotNotification, Framed, TicksFramed
  <2>3. QED  BY <1>1, <1>3, <2>1, <2>2, FramedTaken
<1>5. CASE OnGotTick \/ OnGotTickFails
  <2>1. Head(rpush)[1] = "tick" /\ ticks' \subseteq ticks \cup {Head(rpush)[2]}
    BY <1>5 DEF OnGotTick, OnGotTickFails, Take
  <2>2. Head(rpush)[2] \in stored \cup missed \cup unlisted
    BY <1>1, <1>2, <2>1, QueueTypes, TailKeeps DEF Framed, QueuesFine, TickKinds
  <2>3. TicksFramed'
    BY <1>1, <1>3, <2>1, <2>2 DEF Framed, TicksFramed
  <2>4. QED  BY <1>1, <1>3, <2>1, <2>3, FramedTaken
<1>6. CASE ConnectDatafeed \/ DisconnectDatafeed
  <2>1. Head(rpush)[1] # "contracts" /\ UNCHANGED ticks
    BY <1>6 DEF ConnectDatafeed, DisconnectDatafeed, Take
  <2>2. TicksFramed'
    BY <1>1, <1>3, <2>1 DEF Framed, TicksFramed
  <2>3. QED  BY <1>1, <1>3, <2>1, <2>2, FramedTaken
<1>7. QED  BY <1>4, <1>5, <1>6 DEF Takes

LEMMA FramedAsks ==
  ASSUME TypeOK, Framed, Listing, Asks
  PROVE  Framed'
<1>1. UNCHANGED <<rpush, stream, gpush, blogic, subscribed, ticks>>
  BY DEF Asks, Lock, ListContracts, GetContract, GetContractDies, GetContractFails, InsertContract,
         InsertContractFails, Asking, gatewayVars, streamVars
<1>2. stored \cup missed \cup unlisted \subseteq stored' \cup missed' \cup unlisted'
  BY DEF Asks, Lock, ListContracts, GetContract, GetContractDies, GetContractFails, InsertContract,
         InsertContractFails
<1>3. TicksFramed'
  BY <1>1, <1>2 DEF Framed, TicksFramed
<1>4. Settled \subseteq Settled'
  <2>1. CASE Lock \/ ListContracts \/ GetContractDies
    BY <2>1 DEF Lock, ListContracts, GetContractDies, Settled, Pending
  <2>2. ASSUME NEW answer, Inserts(answer), step = "read", UNCHANGED <<stored, unlisted>>,
               missed \subseteq missed', want \ answer \subseteq missed' \cup unlisted
        PROVE  Settled \subseteq Settled'
    BY <2>2 DEF Inserts, Inserted, Settled, Pending
  <2>3. CASE GetContract
    BY <2>2, <2>3 DEF GetContract, Listing, AnswerExplained
  <2>4. CASE GetContractFails
    BY <2>2, <2>4 DEF GetContractFails
  <2>5. ASSUME NEW s \in Symbols, InsertContract(s) \/ InsertContractFails(s)
        PROVE  Settled \subseteq Settled'
    BY <2>5 DEF InsertContract, InsertContractFails, Inserted, Settled, Pending
  <2>6. QED  BY <2>1, <2>3, <2>4, <2>5 DEF Asks
<1>5. QED  BY <1>1, <1>3, <1>4, FramedKept

\* A list that the recorder reads leaves out only what the gateway has not listed or has
\* no more.
LEMMA ListingStep ==
  ASSUME TypeOK, Listing, [Next]_vars
  PROVE  Listing'
<1>1. blogic \in Seq(SUBSET Symbols) /\ contracts \subseteq Symbols
  BY QueueTypes DEF TypeOK
<1>2. ASSUME UNCHANGED <<contracts, listed, blogic>>
      PROVE  ListCurrent'
  BY <1>2 DEF Listing, ListCurrent
<1>3. ASSUME NEW S \in SUBSET Symbols, GotContracts(S)
      PROVE  ListCurrent'
  <2>1. contracts' = S /\ blogic' = Append(blogic, S)
    BY <1>3 DEF GotContracts
  <2>2. Len(blogic') = Len(blogic) + 1 /\ blogic'[Len(blogic) + 1] = S /\ blogic' # <<>>
    BY <1>1, <2>1, AppendIs
  <2>3. QED  BY <2>1, <2>2 DEF ListCurrent
<1>4. ASSUME OnGotContracts
      PROVE  ListCurrent'
  <2>1. /\ blogic # <<>> /\ blogic' = Tail(blogic) /\ listed' = Head(blogic)
        /\ UNCHANGED contracts
    BY <1>4 DEF OnGotContracts
  <2>2. contracts \subseteq blogic[Len(blogic)]
    BY <2>1 DEF Listing, ListCurrent
  <2>3. /\ Head(blogic) = blogic[1] /\ Len(blogic) \in Nat \ {0} /\ Len(blogic') = Len(blogic) - 1
        /\ \A i \in 1..(Len(blogic) - 1) : blogic'[i] = blogic[i + 1]
    BY <1>1, <2>1, TailIs
  <2>4. CASE Len(blogic) = 1
    <3>1. blogic' = <<>> /\ listed' = blogic[Len(blogic)]
      BY <1>1, <2>1, <2>3, <2>4
    <3>2. QED  BY <2>1, <2>2, <3>1 DEF ListCurrent
  <2>5. CASE Len(blogic) # 1
    <3>1. Len(blogic') \in 1..(Len(blogic) - 1) /\ blogic' # <<>>
      BY <2>3, <2>5
    <3>2. blogic'[Len(blogic')] = blogic[Len(blogic)]
      BY <2>3, <3>1
    <3>3. QED  BY <2>1, <2>2, <3>1, <3>2 DEF ListCurrent
  <2>6. QED  BY <2>4, <2>5
<1>5. ListCurrent'
  <2>1. CASE UNCHANGED vars
    BY <1>2, <2>1 DEF vars, gatewayVars
  <2>2. CASE GatewayPush \/ Takes \/ Asks
    <3>1. UNCHANGED <<contracts, listed, blogic>>
      <4>1. CASE GatewayPush
        BY <4>1 DEF GatewayPush, OnNotification, OnGatewayTick, OnFreedTick, ConnectClient,
                    DisconnectClient, TakePush, gatewayVars
      <4>2. CASE Takes
        BY <4>2, TakeIs DEF gatewayVars
      <4>3. CASE Asks
        BY <4>3 DEF Asks, Lock, ListContracts, GetContract, GetContractDies, GetContractFails,
                    InsertContract, InsertContractFails, Asking, gatewayVars
      <4>4. QED  BY <2>2, <4>1, <4>2, <4>3
    <3>2. QED  BY <1>2, <3>1
  <2>3. CASE Environment
    <3>1. CASE ResetData
      BY <3>1 DEF ResetData, ListCurrent
    <3>2. ASSUME Drop \/ WriteFails \/ \E s \in Symbols : OnRtnDepthMarketData(s)
          PROVE  UNCHANGED <<contracts, listed, blogic>>
      BY <3>2 DEF Drop, WriteFails, OnRtnDepthMarketData, gatewayVars
    <3>3. QED  BY <1>2, <1>3, <2>3, <3>1, <3>2 DEF Environment
  <2>4. CASE Others \/ Window
    <3>1. OnGotContracts \/ UNCHANGED <<contracts, listed, blogic>>
      BY <2>4 DEF Others, Calls, ConnectPush, DisconnectPush, LateDisconnectPush, Posts,
                  DisconnectPushFails, Connect, DispatchPush, OnGatewayDisconnected, ReaderFreed,
                  Window, ConnectGateway, DisconnectGateway, DatafeedConnectButton,
                  DatafeedDisconnectButton, gatewayVars
    <3>2. QED  BY <1>2, <1>4, <3>1
  <2>5. QED  BY NextIs, <2>1, <2>2, <2>3, <2>4
<1>6. ASSUME ListContracts
      PROVE  AnswerExplained'
  <2>1. /\ ids' = listed /\ UNCHANGED want
        /\ unlisted' = unlisted \cup {s \in want \ listed : s \in Unprocessed \/ s \notin contracts}
    BY <1>6 DEF ListContracts
  <2>2. contracts \subseteq listed \cup Unprocessed
    <3>1. CASE blogic = <<>>
      BY <3>1 DEF Listing, ListCurrent
    <3>2. CASE blogic # <<>>
      <4>1. Len(blogic) \in DOMAIN blogic
        BY <1>1, <3>2
      <4>2. QED  BY <3>2, <4>1 DEF Listing, ListCurrent, Unprocessed
    <3>3. QED  BY <3>1, <3>2
  <2>3. QED  BY <2>1, <2>2 DEF AnswerExplained
<1>7. ASSUME ~ListContracts
      PROVE  AnswerExplained'
  <2>1. UNCHANGED <<step, want, ids, unlisted>> \/ step' # "read"
    <3>1. CASE UNCHANGED vars
      BY <3>1 DEF vars, recorderVars
    <3>2. CASE GatewayPush
      BY <3>2 DEF GatewayPush, OnNotification, OnGatewayTick, OnFreedTick, ConnectClient,
                  DisconnectClient, TakePush, recorderVars
    <3>3. CASE Takes
      <4>1. step = "idle"
        BY <3>3, TakeIs
      <4>2. QED  BY <3>3, <4>1 DEF Takes, ConnectDatafeed, DisconnectDatafeed, OnGotTick,
                                   OnGotTickFails, OnGotNotification
    <3>4. CASE Asks
      BY <1>7, <3>4 DEF Asks, Lock, GetContract, GetContractDies, GetContractFails, InsertContract,
                        InsertContractFails, Inserts, Inserted
    <3>5. CASE Environment
      BY <3>5 DEF Environment, ResetData, Drop, WriteFails, GotContracts, OnRtnDepthMarketData,
                  recorderVars
    <3>6. CASE Others \/ Window
      BY <3>6 DEF Others, Calls, ConnectPush, DisconnectPush, LateDisconnectPush, Posts,
                  DisconnectPushFails, OnGotContracts, Connect, DispatchPush, OnGatewayDisconnected,
                  ReaderFreed, Window, ConnectGateway, DisconnectGateway, DatafeedConnectButton,
                  DatafeedDisconnectButton, recorderVars
    <3>7. QED  BY NextIs, <3>1, <3>2, <3>3, <3>4, <3>5, <3>6
  <2>2. QED  BY <2>1 DEF Listing, AnswerExplained
<1>8. QED  BY <1>5, <1>6, <1>7 DEF Listing

LEMMA FramedStep ==
  ASSUME TypeOK, Framed, Listing, [Next]_vars
  PROVE  Framed'
<1>1. CASE UNCHANGED vars
  <2>1. UNCHANGED <<rpush, stream, gpush, blogic, subscribed, stored, missed, step, want, ids, unlisted, ticks>>
    BY <1>1 DEF vars, gatewayVars, streamVars, recorderVars, datafeedVars
  <2>2. Settled' = Settled /\ TicksFramed'
    BY <2>1 DEF Settled, Pending, Framed, TicksFramed
  <2>3. QED  BY <2>1, <2>2, FramedKept
<1>2. QED
  BY <1>1, NextIs, FramedGatewayPush, FramedTakes, FramedAsks, FramedEnvironment, FramedOthers

LEMMA FramedInit == ASSUME Init PROVE Framed /\ Listing
<1>1. Len(rpush) = 0 /\ Len(stream) = 0 /\ Len(gpush) = 0 /\ Len(blogic) = 0
  BY DEF Init
<1>2. QueuesFine
  BY <1>1 DEF QueuesFine, Fine
<1>3. subscribed = {} /\ ticks = {}
  BY DEF Init
<1>4. Listing
  BY DEF Init, Listing, ListCurrent, AnswerExplained
<1>5. QED  BY <1>1, <1>2, <1>3, <1>4 DEF Framed, SymbolsNotified, TicksFramed

\* A tick is in datafeed only behind its contract, unless that was lost, or left out of a
\* list that the gateway had not filled or had cleared: TicksFramed is an invariant.
THEOREM TicksAlwaysFramed == Spec => []TicksFramed
<1>1. Init => TypeOK /\ Framed /\ Listing
  BY TypeInit, FramedInit
<1>2. TypeOK /\ Framed /\ Listing /\ [Next]_vars => (TypeOK /\ Framed /\ Listing)'
  BY TypeStep, FramedStep, ListingStep
<1>3. Framed => TicksFramed
  BY DEF Framed
<1>4. QED  BY <1>1, <1>2, <1>3, PTL DEF Spec
=============================================================================
