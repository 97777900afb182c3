---------------------------- MODULE BtReplayProofs -----------------------------
(***************************************************************************)
(* Theorems about BtReplay for every length and number of sessions.        *)
(* A queue is followed by what is last in it: the last stop behind every   *)
(* start (in the queues of BLOGIC and DB), the contracts of the session in *)
(* front of every tick (in the queue of PUSH).                             *)
(*   - Alternating: DB takes no "begin" while a reader thread works on     *)
(*     behalf of the session before.                                       *)
(*   - Framed: each tick that waits for PUSH, and each that the thread     *)
(*     will still post, has the contracts of its session behind it as the  *)
(*     last ones.  It gives TicksFollowContracts.                          *)
(***************************************************************************)
EXTENDS BtReplay, TLAPS

\* Among the first p events of q: z, and none of kind a behind it; or none of kind a.
After(q, p, a, z) == \E j \in 1..p : q[j] = z /\ \A k \in (j + 1)..p : q[k][1] # a
None(q, p, a) == \A k \in 1..p : q[k][1] # a

\* DB works for a session, or its reader thread does and is not waited for.
Busy ==
  \/ reading /\ step \notin {<<"stop">>, <<"delete">>}
  \/ step[1] \in {"wake", "push"}

DbQuiet(p) == After(db, p, "begin", <<"stopped">>) \/ (~Busy /\ None(db, p, "begin"))
BlogicQuiet(p) ==
  After(blogic, p, "start", <<"stop">>) \/ (DbQuiet(Len(db)) /\ None(blogic, p, "start"))

OneReader ==
  /\ reading => client
  /\ step[1] \in {"wake", "push"} => ~reading
  /\ step[1] = "push" => client

DbInTurn == \A i \in DOMAIN db : db[i][1] = "begin" => DbQuiet(i - 1)
BlogicInTurn == \A i \in DOMAIN blogic : blogic[i][1] = "start" => BlogicQuiet(i - 1)
WindowInTurn == canStart => BlogicQuiet(Len(blogic))

Alternating == OneReader /\ DbInTurn /\ BlogicInTurn /\ WindowInTurn

LastIs(p, n) ==
  After(push, p, "contracts", <<"contracts", n>>) \/ (announced = n /\ None(push, p, "contracts"))

Framed ==
  /\ \A i \in DOMAIN push : push[i][1] = "tick" => LastIs(i - 1, push[i][2])
  /\ reading => LastIs(Len(push), reader)
  /\ step[1] = "push" => LastIs(Len(push), step[2])

-----------------------------------------------------------------------------
(* Queues *)

\* An event behind the others.
LEMMA AppendIs ==
  ASSUME NEW S, NEW q \in Seq(S), NEW e \in S
  PROVE  /\ Append(q, e) \in Seq(S)
         /\ Len(q) \in Nat /\ Len(Append(q, e)) = Len(q) + 1
         /\ DOMAIN q = 1..Len(q) /\ DOMAIN Append(q, e) = 1..(Len(q) + 1)
         /\ Append(q, e)[Len(q) + 1] = e
         /\ \A i \in 1..Len(q) : Append(q, e)[i] = q[i]
  OBVIOUS

\* The first event is taken.
LEMMA TailIs ==
  ASSUME NEW S, NEW q \in Seq(S), q # <<>>
  PROVE  /\ Tail(q) \in Seq(S) /\ Head(q) \in S /\ Head(q) = q[1]
         /\ Len(q) \in Nat \ {0} /\ Len(Tail(q)) = Len(q) - 1
         /\ DOMAIN q = 1..Len(q) /\ DOMAIN Tail(q) = 1..(Len(q) - 1)
         /\ \A i \in 1..(Len(q) - 1) : Tail(q)[i] = q[i + 1]
  OBVIOUS

LEMMA AppendKeeps ==
  ASSUME NEW S, NEW q \in Seq(S), NEW e \in S, NEW a, NEW z
  PROVE  /\ \A p \in 0..Len(q) : /\ After(q, p, a, z) => After(Append(q, e), p, a, z)
                                 /\ None(q, p, a) => None(Append(q, e), p, a)
         /\ e[1] # a /\ After(q, Len(q), a, z) => After(Append(q, e), Len(q) + 1, a, z)
         /\ e[1] # a /\ None(q, Len(q), a) => None(Append(q, e), Len(q) + 1, a)
         /\ e = z => After(Append(q, e), Len(q) + 1, a, z)
<1> DEFINE r == Append(q, e)
<1>1. /\ Len(q) \in Nat /\ r[Len(q) + 1] = e
      /\ \A i \in 1..Len(q) : r[i] = q[i]
  BY AppendIs
<1> HIDE DEF r
<1>2. ASSUME NEW p \in 0..Len(q)
      PROVE  /\ After(q, p, a, z) => After(r, p, a, z)
             /\ None(q, p, a) => None(r, p, a)
  <2>1. \A j \in 1..p : r[j] = q[j]
    BY <1>1
  <2>2. \A j \in 1..p : \A k \in (j + 1)..p : k \in 1..p
    OBVIOUS
  <2>3. QED  BY <2>1, <2>2 DEF After, None
<1>3. ASSUME e[1] # a, After(q, Len(q), a, z)
      PROVE  After(r, Len(q) + 1, a, z)
  <2>1. PICK j \in 1..Len(q) : q[j] = z /\ \A k \in (j + 1)..Len(q) : q[k][1] # a
    BY <1>3 DEF After
  <2>2. j \in 1..(Len(q) + 1) /\ r[j] = z
    BY <1>1, <2>1
  <2>3. ASSUME NEW k \in (j + 1)..(Len(q) + 1)
        PROVE  r[k][1] # a
    <3>1. CASE k = Len(q) + 1
      BY <1>1, <1>3, <3>1
    <3>2. CASE k # Len(q) + 1
      <4>1. k \in (j + 1)..Len(q) /\ k \in 1..Len(q)
        BY <1>1, <2>1, <3>2
      <4>2. QED  BY <1>1, <2>1, <4>1
    <3>3. QED  BY <3>1, <3>2
  <2>4. QED  BY <2>2, <2>3 DEF After
<1>4. ASSUME e[1] # a, None(q, Len(q), a)
      PROVE  None(r, Len(q) + 1, a)
  <2>1. \A k \in 1..(Len(q) + 1) : k \in 1..Len(q) \/ k = Len(q) + 1
    BY <1>1
  <2>2. QED  BY <1>1, <1>4, <2>1 DEF None
<1>5. ASSUME e = z
      PROVE  After(r, Len(q) + 1, a, z)
  <2>1. Len(q) + 1 \in 1..(Len(q) + 1) /\ r[Len(q) + 1] = z
    BY <1>1, <1>5
  <2>2. \A k \in (Len(q) + 2)..(Len(q) + 1) : FALSE
    BY <1>1
  <2>3. QED  BY <1>1, <2>1, <2>2 DEF After
<1>6. QED  BY <1>2, <1>3, <1>4, <1>5 DEF r

LEMMA TailKeeps ==
  ASSUME NEW S, NEW q \in Seq(S), q # <<>>, NEW a, NEW z, NEW p \in 1..Len(q)
  PROVE  /\ After(q, p, a, z) => \/ After(Tail(q), p - 1, a, z)
                                 \/ Head(q) = z /\ None(Tail(q), p - 1, a)
         /\ None(q, p, a) => Head(q)[1] # a /\ None(Tail(q), p - 1, a)
<1> DEFINE r == Tail(q)
<1>1. /\ Len(q) \in Nat \ {0} /\ Head(q) = q[1]
      /\ \A i \in 1..(Len(q) - 1) : r[i] = q[i + 1]
  BY TailIs
<1> HIDE DEF r
<1>2. \A i \in 1..(p - 1) : r[i] = q[i + 1] /\ i + 1 \in 1..p
  BY <1>1
<1>3. ASSUME NEW j \in 1..p, q[j] = z, \A k \in (j + 1)..p : q[k][1] # a
      PROVE  After(r, p - 1, a, z) \/ (Head(q) = z /\ None(r, p - 1, a))
  <2>1. CASE j = 1
    <3>1. \A k \in 1..(p - 1) : k + 1 \in (j + 1)..p
      BY <2>1
    <3>2. None(r, p - 1, a)
      BY <1>2, <1>3, <3>1 DEF None
    <3>3. QED  BY <1>1, <1>3, <2>1, <3>2
  <2>2. CASE j # 1
    <3>1. j - 1 \in 1..(p - 1) /\ r[j - 1] = z
      BY <1>2, <1>3, <2>2
    <3>2. \A k \in ((j - 1) + 1)..(p - 1) : k \in 1..(p - 1) /\ k + 1 \in (j + 1)..p
      BY <2>2
    <3>3. \A k \in ((j - 1) + 1)..(p - 1) : r[k][1] # a
      BY <1>2, <1>3, <3>2
    <3>4. QED  BY <3>1, <3>3 DEF After
  <2>3. QED  BY <2>1, <2>2
<1>4. None(q, p, a) => Head(q)[1] # a /\ None(r, p - 1, a)
  <2>1. 1 \in 1..p
    OBVIOUS
  <2>2. QED  BY <1>1, <1>2, <2>1 DEF None
<1>5. QED  BY <1>3, <1>4 DEF After, r

LEMMA FirstIs ==
  ASSUME NEW q, NEW a, NEW z
  PROVE  ~After(q, 0, a, z) /\ None(q, 0, a)
  BY DEF After, None

-----------------------------------------------------------------------------
(* Types *)

LEMMA EventTypes ==
  /\ <<"start">> \in BlogicEvents /\ <<"stop">> \in BlogicEvents
  /\ <<"connect">> \in DbEvents /\ <<"disconnect">> \in DbEvents /\ <<"stopped">> \in DbEvents
  /\ \A n \in Nat : /\ <<"tick", n>> \in BlogicEvents /\ <<"begin", n>> \in DbEvents
                    /\ <<"begin", n>> \in PushEvents /\ <<"contracts", n>> \in PushEvents
                    /\ <<"tick", n>> \in PushEvents
  BY DEF BlogicEvents, DbEvents, PushEvents

LEMMA StepTypes ==
  /\ Idle \in Steps /\ <<"stop">> \in Steps /\ <<"delete">> \in Steps
  /\ \A n \in Nat : <<"wake", n>> \in Steps /\ <<"push", n>> \in Steps
  /\ \A s \in Steps : s[1] \in {"wake", "push"} => s[2] \in Nat
  /\ Idle[1] = "idle" /\ <<"stop">>[1] = "stop" /\ <<"delete">>[1] = "delete"
  /\ \A s \in Steps : /\ s[1] = "idle" => s = Idle
                      /\ s[1] = "stop" => s = <<"stop">>
                      /\ s[1] = "delete" => s = <<"delete">>
  BY DEF Steps, Idle

\* What the head of a queue is.
LEMMA HeadsAre ==
  ASSUME TypeOK
  PROVE  /\ blogic # <<>> =>
              /\ Tail(blogic) \in Seq(BlogicEvents)
              /\ Head(blogic)[1] = "stop" => Head(blogic) = <<"stop">>
         /\ db # <<>> =>
              /\ Tail(db) \in Seq(DbEvents)
              /\ Head(db)[1] = "begin" => Head(db)[2] \in Nat
              /\ Head(db)[1] = "stopped" <=> Head(db) = <<"stopped">>
         /\ push # <<>> =>
              /\ Tail(push) \in Seq(PushEvents) /\ Head(push)[2] \in Nat
              /\ Head(push) = <<Head(push)[1], Head(push)[2]>>
<1>1. ASSUME blogic # <<>>
      PROVE  Tail(blogic) \in Seq(BlogicEvents) /\ Head(blogic) \in BlogicEvents
  BY <1>1, TailIs DEF TypeOK
<1>2. ASSUME db # <<>>
      PROVE  Tail(db) \in Seq(DbEvents) /\ Head(db) \in DbEvents
  BY <1>2, TailIs DEF TypeOK
<1>3. ASSUME push # <<>>
      PROVE  Tail(push) \in Seq(PushEvents) /\ Head(push) \in PushEvents
  BY <1>3, TailIs DEF TypeOK
<1>4. \A e \in BlogicEvents : e[1] = "stop" => e = <<"stop">>
  BY DEF BlogicEvents
<1>5. \A e \in DbEvents : /\ e[1] = "begin" => e[2] \in Nat
                          /\ e[1] = "stopped" <=> e = <<"stopped">>
  BY DEF DbEvents
<1>6. \A e \in PushEvents : e[2] \in Nat /\ e = <<e[1], e[2]>>
  BY DEF PushEvents
<1>7. QED  BY <1>1, <1>2, <1>3, <1>4, <1>5, <1>6

LEMMA SpendType ==
  ASSUME TypeOK, NEW what \in {"sessions", "connects", "errors"}, NEW limit, Spend(what, limit)
  PROVE  used' \in [{"sessions", "connects", "errors"} -> Nat]
  BY DEF TypeOK, Spend

LEMMA TypeWindow ==
  ASSUME TypeOK, Window
  PROVE  TypeOK'
<1>1. CASE BtStart
  <2>1. blogic' \in Seq(BlogicEvents)
    BY <1>1, EventTypes, AppendIs DEF BtStart, TypeOK
  <2>2. used' \in [{"sessions", "connects", "errors"} -> Nat]
    BY <1>1, SpendType DEF BtStart
  <2>3. QED  BY <1>1, <2>1, <2>2 DEF BtStart, TypeOK, readerVars, history
<1>2. CASE BtStop
  <2>1. blogic' \in Seq(BlogicEvents)
    BY <1>2, EventTypes, AppendIs DEF BtStop, TypeOK
  <2>2. QED  BY <1>2, <2>1 DEF BtStop, TypeOK, readerVars, history
<1>3. CASE BtConfig
  BY <1>3 DEF BtConfig, TypeOK, readerVars, history
<1>4. CASE DfConnect
  <2>1. db' \in Seq(DbEvents)
    BY <1>4, EventTypes, AppendIs DEF DfConnect, TypeOK
  <2>2. used' \in [{"sessions", "connects", "errors"} -> Nat]
    BY <1>4, SpendType DEF DfConnect
  <2>3. QED  BY <1>4, <2>1, <2>2 DEF DfConnect, TypeOK, readerVars, history
<1>5. CASE DfDisconnect
  <2>1. db' \in Seq(DbEvents)
    BY <1>5, EventTypes, AppendIs DEF DfDisconnect, TypeOK
  <2>2. QED  BY <1>5, <2>1 DEF DfDisconnect, TypeOK, readerVars, history
<1>6. QED  BY <1>1, <1>2, <1>3, <1>4, <1>5 DEF Window

LEMMA TypeBlogic ==
  ASSUME TypeOK, Blogic
  PROVE  TypeOK'
<1>1. blogic' \in Seq(BlogicEvents)
  BY HeadsAre DEF Blogic, Start, Stop, OnGotTick, TakeBlogic
<1>2. CASE Start
  <2>1. session + 1 \in Nat
    BY DEF TypeOK
  <2>2. db' \in Seq(DbEvents) /\ push' \in Seq(PushEvents)
    BY <1>2, <2>1, EventTypes, AppendIs DEF Start, TypeOK
  <2>3. QED  BY <1>1, <1>2, <2>1, <2>2 DEF Start, TakeBlogic, TypeOK, windowVars, readerVars, history
<1>3. CASE Stop
  <2>1. db' \in Seq(DbEvents)
    BY <1>3, EventTypes, AppendIs DEF Stop, TypeOK
  <2>2. QED  BY <1>1, <1>3, <2>1 DEF Stop, TakeBlogic, TypeOK, windowVars, readerVars, history
<1>4. CASE OnGotTick
  BY <1>1, <1>4 DEF OnGotTick, TakeBlogic, TypeOK, windowVars, readerVars, history
<1>5. QED  BY <1>2, <1>3, <1>4 DEF Blogic

LEMMA TypeDb ==
  ASSUME TypeOK, Db
  PROVE  TypeOK'
<1>1. ASSUME NEW what, TakeDb(what)
      PROVE  /\ db' \in Seq(DbEvents)
             /\ UNCHANGED <<windowVars, blogic, session, push, announced, heard, used>>
  BY <1>1, HeadsAre DEF TakeDb
<1>2. CASE ConnectDatafeed
  BY <1>1, <1>2 DEF ConnectDatafeed, TypeOK, windowVars
<1>3. CASE DisconnectDatafeed
  BY <1>1, <1>3, StepTypes DEF DisconnectDatafeed, StopPushTick, TypeOK, windowVars
<1>4. CASE OnTradeStopped
  BY <1>1, <1>4, StepTypes DEF OnTradeStopped, StopPushTick, TypeOK, windowVars, readerVars
<1>5. CASE Join
  BY <1>5, StepTypes DEF Join, TypeOK, windowVars, history
<1>6. CASE OnTradeWillBegin
  <2>1. step' \in Steps
    BY <1>6, HeadsAre, StepTypes DEF OnTradeWillBegin, TakeDb
  <2>2. QED  BY <1>1, <1>6, <2>1 DEF OnTradeWillBegin, TypeOK, windowVars, readerVars
<1>7. CASE GetContract
  <2>1. step[2] \in Nat
    BY <1>7, StepTypes DEF GetContract, TypeOK
  <2>2. step' \in Steps /\ push' \in Seq(PushEvents)
    BY <1>7, <2>1, StepTypes, EventTypes, AppendIs DEF GetContract, TypeOK
  <2>3. QED  BY <1>7, <2>2 DEF GetContract, TypeOK, windowVars, readerVars, history
<1>8. CASE NoContract
  <2>1. used' \in [{"sessions", "connects", "errors"} -> Nat]
    BY <1>8, SpendType DEF NoContract, TypeOK
  <2>2. QED  BY <1>8, <2>1, StepTypes DEF NoContract, TypeOK, windowVars, readerVars, history
<1>9. CASE PushTick
  <2>1. step[2] \in Nat /\ Length \in 0..Length
    BY <1>9, StepTypes, BoundsAssumption DEF PushTick, TypeOK
  <2>2. QED  BY <1>9, <2>1, StepTypes DEF PushTick, TypeOK, windowVars, history
<1>10. QED  BY <1>2, <1>3, <1>4, <1>5, <1>6, <1>7, <1>8, <1>9 DEF Db

LEMMA TypeReader ==
  ASSUME TypeOK, Reader \/ ReadFails
  PROVE  TypeOK'
<1>1. CASE ReadTick
  <2>1. reader \in Nat /\ left' \in 0..Length
    BY <1>1, BoundsAssumption DEF ReadTick, TypeOK
  <2>2. blogic' \in Seq(BlogicEvents) /\ push' \in Seq(PushEvents)
    BY <1>1, <2>1, EventTypes, AppendIs DEF ReadTick, TypeOK
  <2>3. QED  BY <1>1, <2>1, <2>2 DEF ReadTick, TypeOK, windowVars, history
<1>2. CASE ReadEnds
  BY <1>2 DEF ReadEnds, TypeOK, windowVars, history
<1>3. CASE ReadFails
  <2>1. used' \in [{"sessions", "connects", "errors"} -> Nat]
    BY <1>3, SpendType DEF ReadFails
  <2>2. QED  BY <1>3, <2>1 DEF ReadFails, TypeOK, windowVars
<1>4. QED  BY <1>1, <1>2, <1>3 DEF Reader

LEMMA TypePush ==
  ASSUME TypeOK, Push
  PROVE  TypeOK'
<1>1. push' \in Seq(PushEvents) /\ Head(push)[2] \in Nat
  BY HeadsAre DEF Push, OnTradeBegins, OnGotContracts, OnPushTick, TakePush
<1>2. heard' \in [Sessions -> Nat] /\ announced' \in Nat
  BY <1>1 DEF Push, OnTradeBegins, OnGotContracts, OnPushTick, TypeOK
<1>3. QED
  BY <1>1, <1>2 DEF Push, OnTradeBegins, OnGotContracts, OnPushTick, TakePush, TypeOK, windowVars,
                    readerVars

\* Every step keeps the types.
LEMMA TypeStep ==
  ASSUME TypeOK, [Next]_vars
  PROVE  TypeOK'
<1>1. CASE UNCHANGED vars
  BY <1>1 DEF vars, windowVars, readerVars, history, TypeOK
<1>2. QED  BY <1>1, TypeWindow, TypeBlogic, TypeDb, TypeReader, TypePush DEF Next

LEMMA TypeInit == ASSUME Init PROVE TypeOK
<1>1. /\ blogic \in Seq(BlogicEvents) /\ db \in Seq(DbEvents) /\ push \in Seq(PushEvents)
      /\ step \in Steps /\ left \in 0..Length
  BY StepTypes, BoundsAssumption DEF Init
<1>2. QED  BY <1>1 DEF Init, TypeOK

\* The state of the replay stays well-typed: TypeOK is an invariant.
THEOREM TypeCorrect == Spec => []TypeOK
<1>1. QED  BY TypeInit, TypeStep, PTL DEF Spec

-----------------------------------------------------------------------------
(* One reader thread at a time *)

\* Steps on no queue of the two, behind which DB is not busier than before.
LEMMA AlternatingKept ==
  ASSUME Alternating, UNCHANGED <<db, blogic, canStart>>, OneReader', Busy' => Busy
  PROVE  Alternating'
  BY DEF Alternating, DbInTurn, BlogicInTurn, WindowInTurn, DbQuiet, BlogicQuiet

LEMMA DbTaken ==
  ASSUME TypeOK, Alternating, db # <<>>, db' = Tail(db), UNCHANGED <<blogic, canStart>>, OneReader',
         Head(db)[1] # "begin" /\ ~Busy => ~Busy',
         Head(db) = <<"stopped">> => ~Busy'
  PROVE  Alternating'
<1>1. /\ db \in Seq(DbEvents) /\ Len(db) \in Nat \ {0} /\ Len(db') = Len(db) - 1
      /\ DOMAIN db = 1..Len(db) /\ DOMAIN db' = 1..(Len(db) - 1)
      /\ \A i \in 1..(Len(db) - 1) : db'[i] = db[i + 1]
  BY TailIs DEF TypeOK
<1>2. ASSUME NEW p \in 1..Len(db), DbQuiet(p)
      PROVE  \/ After(db', p - 1, "begin", <<"stopped">>)
             \/ ~Busy' /\ None(db', p - 1, "begin")
  <2>1. /\ After(db, p, "begin", <<"stopped">>) =>
              \/ After(db', p - 1, "begin", <<"stopped">>)
              \/ Head(db) = <<"stopped">> /\ None(db', p - 1, "begin")
        /\ None(db, p, "begin") => Head(db)[1] # "begin" /\ None(db', p - 1, "begin")
    BY <1>1, TailKeeps
  <2>2. QED  BY <1>2, <2>1 DEF DbQuiet
<1>3. DbInTurn'
  <2>1. ASSUME NEW i \in DOMAIN db', db'[i][1] = "begin"
        PROVE  DbQuiet(i - 1)'
    <3>1. i \in 1..Len(db) /\ i + 1 \in DOMAIN db /\ db[i + 1][1] = "begin" /\ (i + 1) - 1 = i
      BY <1>1, <2>1
    <3>2. DbQuiet(i)
      BY <3>1 DEF Alternating, DbInTurn
    <3>3. QED  BY <1>2, <3>1, <3>2 DEF DbQuiet
  <2>2. QED  BY <2>1 DEF DbInTurn
<1>4. DbQuiet(Len(db)) => DbQuiet(Len(db))'
  <2>1. Len(db) \in 1..Len(db)
    BY <1>1
  <2>2. QED  BY <1>1, <1>2, <2>1 DEF DbQuiet
<1>5. QED
  BY <1>3, <1>4 DEF Alternating, BlogicInTurn, WindowInTurn, BlogicQuiet

\* What the queue of DB says once an event is behind it.
LEMMA DbAppended ==
  ASSUME TypeOK, NEW e \in DbEvents, db' = Append(db, e), UNCHANGED Busy, DbInTurn,
         e[1] = "begin" => DbQuiet(Len(db))
  PROVE  /\ DbInTurn'
         /\ e[1] # "begin" /\ DbQuiet(Len(db)) => DbQuiet(Len(db))'
         /\ e = <<"stopped">> => DbQuiet(Len(db))'
<1>1. /\ db \in Seq(DbEvents) /\ Len(db) \in Nat /\ Len(db') = Len(db) + 1
      /\ DOMAIN db = 1..Len(db) /\ DOMAIN db' = 1..(Len(db) + 1)
      /\ db'[Len(db) + 1] = e /\ \A i \in 1..Len(db) : db'[i] = db[i]
  BY AppendIs DEF TypeOK
<1>2. /\ \A p \in 0..Len(db) :
            /\ After(db, p, "begin", <<"stopped">>) => After(db', p, "begin", <<"stopped">>)
            /\ None(db, p, "begin") => None(db', p, "begin")
      /\ e[1] # "begin" /\ After(db, Len(db), "begin", <<"stopped">>)
           => After(db', Len(db) + 1, "begin", <<"stopped">>)
      /\ e[1] # "begin" /\ None(db, Len(db), "begin") => None(db', Len(db) + 1, "begin")
      /\ e = <<"stopped">> => After(db', Len(db) + 1, "begin", <<"stopped">>)
  BY <1>1, AppendKeeps
<1>3. ASSUME NEW i \in DOMAIN db', db'[i][1] = "begin"
      PROVE  DbQuiet(i - 1)'
  <2>1. i - 1 \in 0..Len(db)
    BY <1>1
  <2>2. DbQuiet(i - 1)
    <3>1. CASE i = Len(db) + 1
      <4>1. i - 1 = Len(db)
        BY <1>1, <3>1
      <4>2. QED  BY <1>1, <1>3, <3>1, <4>1
    <3>2. CASE i # Len(db) + 1
      <4>1. i \in DOMAIN db /\ db[i][1] = "begin"
        BY <1>1, <1>3, <3>2
      <4>2. QED  BY <4>1 DEF DbInTurn
    <3>3. QED  BY <3>1, <3>2
  <2>3. QED  BY <1>2, <2>1, <2>2 DEF DbQuiet
<1>4. QED
  BY <1>1, <1>2, <1>3 DEF DbInTurn, DbQuiet

\* An event that BLOGIC takes.
LEMMA BlogicTaken ==
  ASSUME TypeOK, BlogicInTurn, WindowInTurn, blogic # <<>>, blogic' = Tail(blogic),
         UNCHANGED canStart,
         Head(blogic)[1] # "start" /\ DbQuiet(Len(db)) => DbQuiet(Len(db))',
         Head(blogic) = <<"stop">> => DbQuiet(Len(db))'
  PROVE  BlogicInTurn' /\ WindowInTurn'
<1> DEFINE base == DbQuiet(Len(db))
<1>1. /\ blogic \in Seq(BlogicEvents) /\ Len(blogic) \in Nat \ {0}
      /\ Len(blogic') = Len(blogic) - 1
      /\ DOMAIN blogic = 1..Len(blogic) /\ DOMAIN blogic' = 1..(Len(blogic) - 1)
      /\ \A i \in 1..(Len(blogic) - 1) : blogic'[i] = blogic[i + 1]
  BY TailIs DEF TypeOK
<1>2. /\ Head(blogic)[1] # "start" /\ base => base'
      /\ Head(blogic) = <<"stop">> => base'
  OBVIOUS
<1>3. ASSUME NEW p \in 1..Len(blogic), BlogicQuiet(p)
      PROVE  \/ After(blogic', p - 1, "start", <<"stop">>)
             \/ base' /\ None(blogic', p - 1, "start")
  <2>1. /\ After(blogic, p, "start", <<"stop">>) =>
              \/ After(blogic', p - 1, "start", <<"stop">>)
              \/ Head(blogic) = <<"stop">> /\ None(blogic', p - 1, "start")
        /\ None(blogic, p, "start") => Head(blogic)[1] # "start" /\ None(blogic', p - 1, "start")
    BY <1>1, TailKeeps
  <2>2. After(blogic, p, "start", <<"stop">>) \/ (base /\ None(blogic, p, "start"))
    BY <1>3 DEF BlogicQuiet
  <2>3. QED
    <3> HIDE DEF base
    <3>1. QED  BY <1>2, <2>1, <2>2
<1>4. ASSUME NEW i \in DOMAIN blogic', blogic'[i][1] = "start"
      PROVE  BlogicQuiet(i - 1)'
  <2>1. /\ i \in 1..Len(blogic) /\ i + 1 \in DOMAIN blogic /\ blogic[i + 1][1] = "start"
        /\ (i + 1) - 1 = i
    BY <1>1, <1>4
  <2>2. BlogicQuiet(i)
    BY <2>1 DEF BlogicInTurn
  <2>3. QED  BY <1>3, <2>1, <2>2 DEF BlogicQuiet
<1>5. BlogicQuiet(Len(blogic)) => BlogicQuiet(Len(blogic))'
  <2>1. Len(blogic) \in 1..Len(blogic)
    BY <1>1
  <2>2. QED  BY <1>1, <1>3, <2>1 DEF BlogicQuiet
<1>6. QED  BY <1>4, <1>5 DEF BlogicInTurn, WindowInTurn

\* An event that BLOGIC is sent.
LEMMA BlogicAppended ==
  ASSUME TypeOK, Alternating, NEW e \in BlogicEvents, blogic' = Append(blogic, e),
         UNCHANGED <<db, Busy>>, OneReader',
         e[1] = "start" => canStart /\ ~canStart',
         e = <<"stop">> \/ (canStart' => canStart)
  PROVE  Alternating'
<1>1. /\ blogic \in Seq(BlogicEvents) /\ Len(blogic) \in Nat /\ Len(blogic') = Len(blogic) + 1
      /\ DOMAIN blogic = 1..Len(blogic) /\ DOMAIN blogic' = 1..(Len(blogic) + 1)
      /\ blogic'[Len(blogic) + 1] = e /\ \A i \in 1..Len(blogic) : blogic'[i] = blogic[i]
  BY AppendIs DEF TypeOK
<1>2. /\ \A p \in 0..Len(blogic) :
            /\ After(blogic, p, "start", <<"stop">>) => After(blogic', p, "start", <<"stop">>)
            /\ None(blogic, p, "start") => None(blogic', p, "start")
      /\ e[1] # "start" /\ After(blogic, Len(blogic), "start", <<"stop">>)
           => After(blogic', Len(blogic) + 1, "start", <<"stop">>)
      /\ e[1] # "start" /\ None(blogic, Len(blogic), "start") => None(blogic', Len(blogic) + 1, "start")
      /\ e = <<"stop">> => After(blogic', Len(blogic) + 1, "start", <<"stop">>)
  BY <1>1, AppendKeeps
<1>3. \A p \in 0..Len(db) : DbQuiet(p) => DbQuiet(p)'
  BY DEF DbQuiet
<1>4. DbQuiet(Len(db)) => DbQuiet(Len(db))'
  BY DEF DbQuiet
<1>5. ASSUME NEW i \in DOMAIN blogic', blogic'[i][1] = "start"
      PROVE  BlogicQuiet(i - 1)'
  <2>1. i - 1 \in 0..Len(blogic)
    BY <1>1
  <2>2. BlogicQuiet(i - 1)
    <3>1. CASE i = Len(blogic) + 1
      <4>1. i - 1 = Len(blogic)
        BY <1>1, <3>1
      <4>2. QED  BY <1>1, <1>5, <3>1, <4>1 DEF Alternating, WindowInTurn
    <3>2. CASE i # Len(blogic) + 1
      <4>1. i \in DOMAIN blogic /\ blogic[i][1] = "start"
        BY <1>1, <1>5, <3>2
      <4>2. QED  BY <4>1 DEF Alternating, BlogicInTurn
    <3>3. QED  BY <3>1, <3>2
  <2>3. QED  BY <1>2, <1>4, <2>1, <2>2 DEF BlogicQuiet
<1>6. ASSUME canStart'
      PROVE  BlogicQuiet(Len(blogic))'
  <2>1. CASE e = <<"stop">>
    BY <1>1, <1>2, <2>1 DEF BlogicQuiet
  <2>2. CASE e # <<"stop">>
    <3>1. e[1] # "start" /\ BlogicQuiet(Len(blogic))
      BY <1>6, <2>2 DEF Alternating, WindowInTurn
    <3>2. QED  BY <1>1, <1>2, <1>4, <3>1 DEF BlogicQuiet
  <2>3. QED  BY <2>1, <2>2
<1>7. DbInTurn'
  BY DEF Alternating, DbInTurn, DbQuiet
<1>8. QED  BY <1>5, <1>6, <1>7 DEF Alternating, BlogicInTurn, WindowInTurn

LEMMA AlternatingWindow ==
  ASSUME TypeOK, Alternating, Window
  PROVE  Alternating'
<1>1. /\ UNCHANGED <<reading, client, step, Busy>> /\ OneReader'
  BY DEF Window, BtStart, BtStop, BtConfig, DfConnect, DfDisconnect, readerVars, Busy, Alternating,
         OneReader
<1>2. CASE BtStart
  <2>1. canStart /\ ~canStart' /\ UNCHANGED db
    BY <1>2 DEF BtStart
  <2>2. CASE blogic' = Append(blogic, <<"start">>)
    BY <1>1, <2>1, <2>2, EventTypes, BlogicAppended
  <2>3. CASE UNCHANGED blogic
    BY <1>1, <2>1, <2>3 DEF Alternating, DbInTurn, BlogicInTurn, WindowInTurn, DbQuiet, BlogicQuiet
  <2>4. QED  BY <1>2, <2>2, <2>3 DEF BtStart
<1>3. CASE BtStop
  <2>1. blogic' = Append(blogic, <<"stop">>) /\ UNCHANGED db
    BY <1>3 DEF BtStop
  <2>2. <<"stop">> \in BlogicEvents /\ <<"stop">>[1] # "start"
    BY EventTypes
  <2>3. QED  BY <1>1, <2>1, <2>2, BlogicAppended
<1>4. CASE BtConfig
  BY <1>1, <1>4, AlternatingKept DEF BtConfig
<1>5. CASE DfConnect \/ DfDisconnect
  <2>1. PICK e \in {<<"connect">>, <<"disconnect">>} : db' = Append(db, e)
    BY <1>5 DEF DfConnect, DfDisconnect
  <2>2. e \in DbEvents /\ e[1] # "begin"
    BY <2>1, EventTypes
  <2>3. UNCHANGED <<blogic, canStart>>
    BY <1>5 DEF DfConnect, DfDisconnect
  <2>4. DbInTurn' /\ (DbQuiet(Len(db)) => DbQuiet(Len(db))')
    BY <1>1, <2>1, <2>2, DbAppended DEF Alternating
  <2>5. QED
    BY <1>1, <2>3, <2>4 DEF Alternating, BlogicInTurn, WindowInTurn, BlogicQuiet
<1>6. QED  BY <1>2, <1>3, <1>4, <1>5 DEF Window

LEMMA AlternatingBlogic ==
  ASSUME TypeOK, Alternating, Blogic
  PROVE  Alternating'
<1>1. /\ blogic # <<>> /\ blogic' = Tail(blogic)
      /\ UNCHANGED <<canStart, reading, client, step, Busy>> /\ OneReader'
  BY DEF Blogic, Start, Stop, OnGotTick, TakeBlogic, windowVars, readerVars, Busy, Alternating,
         OneReader
<1>2. CASE Start
  <2>1. Head(blogic)[1] = "start" /\ db' = Append(db, <<"begin", session + 1>>)
    BY <1>2 DEF Start, TakeBlogic
  <2>2. <<"begin", session + 1>> \in DbEvents
    <3>1. session + 1 \in Nat
      BY DEF TypeOK
    <3>2. QED  BY <3>1, EventTypes
  <2>3. DbQuiet(Len(db))
    <3>1. 1 \in DOMAIN blogic /\ blogic[1] = Head(blogic)
      BY <1>1, TailIs DEF TypeOK
    <3>2. BlogicQuiet(1 - 1)
      BY <2>1, <3>1 DEF Alternating, BlogicInTurn
    <3>3. QED  BY <3>2, FirstIs DEF BlogicQuiet
  <2>4. DbInTurn'
    BY <1>1, <2>2, <2>1, <2>3, DbAppended DEF Alternating
  <2>5. Head(blogic) # <<"stop">>
    BY <2>1
  <2>6. BlogicInTurn' /\ WindowInTurn'
    BY <1>1, <2>1, <2>5, BlogicTaken DEF Alternating
  <2>7. QED  BY <1>1, <2>4, <2>6 DEF Alternating
<1>3. CASE Stop
  <2>1. db' = Append(db, <<"stopped">>) /\ <<"stopped">> \in DbEvents
    BY <1>3, EventTypes DEF Stop
  <2>2. <<"stopped">>[1] # "begin"
    OBVIOUS
  <2>3. DbInTurn' /\ DbQuiet(Len(db))'
    BY <1>1, <2>1, <2>2, DbAppended DEF Alternating
  <2>4. BlogicInTurn' /\ WindowInTurn'
    BY <1>1, <2>3, BlogicTaken DEF Alternating
  <2>5. QED  BY <1>1, <2>3, <2>4 DEF Alternating
<1>4. CASE OnGotTick
  <2>1. UNCHANGED db /\ Head(blogic)[1] = "tick"
    BY <1>4 DEF OnGotTick, TakeBlogic
  <2>2. Head(blogic) # <<"stop">>
    BY <2>1
  <2>3. DbInTurn' /\ (DbQuiet(Len(db)) => DbQuiet(Len(db))')
    BY <1>1, <2>1 DEF Alternating, DbInTurn, DbQuiet
  <2>4. BlogicInTurn' /\ WindowInTurn'
    BY <1>1, <2>2, <2>3, BlogicTaken DEF Alternating
  <2>5. QED  BY <1>1, <2>3, <2>4 DEF Alternating
<1>5. QED  BY <1>2, <1>3, <1>4 DEF Blogic

LEMMA AlternatingDb ==
  ASSUME TypeOK, Alternating, Db
  PROVE  Alternating'
<1>1. ASSUME NEW what, TakeDb(what)
      PROVE  /\ db # <<>> /\ db' = Tail(db) /\ step = Idle /\ Head(db)[1] = what
             /\ step[1] \notin {"wake", "push"} /\ step \notin {<<"stop">>, <<"delete">>}
             /\ UNCHANGED <<blogic, canStart>>
  BY <1>1, StepTypes DEF TakeDb, windowVars, Idle
<1>2. CASE ConnectDatafeed
  <2>1. UNCHANGED <<reading, step>> /\ client' = TRUE
    BY <1>2 DEF ConnectDatafeed
  <2>2. OneReader' /\ (Busy' => Busy) /\ Head(db) # <<"stopped">>
    BY <1>1, <1>2, <2>1 DEF ConnectDatafeed, Alternating, OneReader, Busy
  <2>3. QED  BY <1>1, <1>2, <2>2, DbTaken DEF ConnectDatafeed
<1>3. CASE DisconnectDatafeed \/ (OnTradeStopped /\ client)
  <2>1. step' \in {<<"stop">>, <<"delete">>} /\ UNCHANGED <<reading, client>>
    BY <1>3 DEF DisconnectDatafeed, OnTradeStopped, StopPushTick
  <2>2. OneReader' /\ ~Busy'
    BY <2>1 DEF Alternating, OneReader, Busy
  <2>3. QED  BY <1>1, <1>3, <2>2, DbTaken DEF DisconnectDatafeed, OnTradeStopped
<1>4. CASE OnTradeStopped /\ ~client
  <2>1. UNCHANGED <<step, reading, client>>
    BY <1>4 DEF OnTradeStopped, readerVars
  <2>2. OneReader' /\ ~Busy'
    BY <1>1, <1>4, <2>1 DEF OnTradeStopped, Alternating, OneReader, Busy
  <2>3. QED  BY <1>1, <1>4, <2>2, DbTaken DEF OnTradeStopped
<1>5. CASE Join
  <2>1. ~reading' /\ step' = Idle /\ UNCHANGED <<db, blogic, canStart>>
    BY <1>5 DEF Join, windowVars
  <2>2. OneReader' /\ ~Busy'
    BY <2>1, StepTypes DEF OneReader, Busy, Idle
  <2>3. QED  BY <2>1, <2>2, AlternatingKept
<1>6. CASE OnTradeWillBegin
  <2>1. /\ db # <<>> /\ db' = Tail(db) /\ Head(db)[1] = "begin" /\ Head(db) # <<"stopped">>
        /\ UNCHANGED <<blogic, canStart, reading, client>>
    BY <1>1, <1>6 DEF OnTradeWillBegin, readerVars
  <2>2. ~reading
    <3>1. 1 \in DOMAIN db /\ db[1] = Head(db)
      BY <2>1, TailIs DEF TypeOK
    <3>2. DbQuiet(1 - 1)
      BY <2>1, <3>1 DEF Alternating, DbInTurn
    <3>3. ~Busy
      BY <3>2, FirstIs DEF DbQuiet
    <3>4. QED  BY <1>1, <1>6, <3>3 DEF Busy, OnTradeWillBegin
  <2>3. OneReader'
    BY <1>6, <2>1, <2>2 DEF OnTradeWillBegin, OneReader
  <2>4. QED  BY <2>1, <2>3, DbTaken
<1>7. CASE GetContract
  <2>1. /\ step[1] = "wake" /\ client /\ step' = <<"push", step[2]>>
        /\ UNCHANGED <<reading, client, db, blogic, canStart>>
    BY <1>7 DEF GetContract, windowVars, readerVars
  <2>2. OneReader' /\ (Busy' => Busy)
    BY <2>1 DEF Alternating, OneReader, Busy
  <2>3. QED  BY <2>1, <2>2, AlternatingKept
<1>8. CASE NoContract
  <2>1. step[1] = "wake" /\ step' = Idle /\ UNCHANGED <<reading, client, db, blogic, canStart>>
    BY <1>8 DEF NoContract, windowVars, readerVars
  <2>2. OneReader' /\ (Busy' => Busy)
    BY <2>1, StepTypes DEF Alternating, OneReader, Busy
  <2>3. QED  BY <2>1, <2>2, AlternatingKept
<1>9. CASE PushTick
  <2>1. step[1] = "push" /\ step' = Idle /\ UNCHANGED <<client, db, blogic, canStart>>
    BY <1>9 DEF PushTick, windowVars
  <2>2. OneReader' /\ (Busy' => Busy)
    BY <2>1, <1>9, StepTypes DEF PushTick, Alternating, OneReader, Busy
  <2>3. QED  BY <2>1, <2>2, AlternatingKept
<1>10. QED  BY <1>2, <1>3, <1>4, <1>5, <1>6, <1>7, <1>8, <1>9 DEF Db

LEMMA AlternatingReader ==
  ASSUME TypeOK, Alternating, Reader \/ ReadFails
  PROVE  Alternating'
<1>1. CASE ReadTick
  <2>1. blogic' = Append(blogic, <<"tick", reader>>) /\ <<"tick", reader>> \in BlogicEvents
    BY <1>1, EventTypes DEF ReadTick, TypeOK
  <2>2. UNCHANGED <<db, Busy, canStart>> /\ OneReader'
    BY <1>1 DEF ReadTick, Busy, windowVars, Alternating, OneReader
  <2>3. <<"tick", reader>>[1] # "start"
    OBVIOUS
  <2>4. QED  BY <2>1, <2>2, <2>3, BlogicAppended
<1>2. CASE ReadEnds \/ ReadFails
  <2>1. UNCHANGED <<db, blogic, canStart>> /\ OneReader' /\ (Busy' => Busy)
    BY <1>2 DEF ReadEnds, ReadFails, Busy, windowVars, Alternating, OneReader
  <2>2. QED  BY <2>1, AlternatingKept
<1>3. QED  BY <1>1, <1>2 DEF Reader

LEMMA AlternatingStep ==
  ASSUME TypeOK, Alternating, [Next]_vars
  PROVE  Alternating'
<1>1. CASE UNCHANGED vars \/ Push
  <2>1. /\ UNCHANGED <<db, blogic, canStart>>
        /\ step' = step /\ reading' = reading /\ client' = client
    BY <1>1 DEF vars, windowVars, readerVars, Push, OnTradeBegins, OnGotContracts, OnPushTick,
                TakePush
  <2>2. OneReader'
    BY <2>1 DEF Alternating, OneReader
  <2>3. Busy' => Busy
    BY <2>1 DEF Busy
  <2>4. QED  BY <2>1, <2>2, <2>3, AlternatingKept
<1>2. QED
  BY <1>1, AlternatingWindow, AlternatingBlogic, AlternatingDb, AlternatingReader DEF Next

LEMMA AlternatingInit == ASSUME Init PROVE Alternating
<1>1. DOMAIN db = {} /\ DOMAIN blogic = {} /\ Len(db) = 0 /\ Len(blogic) = 0 /\ ~reading
  BY DEF Init
<1>2. step[1] \notin {"wake", "push"}
  BY DEF Init, Idle
<1>3. OneReader /\ ~Busy
  BY <1>1, <1>2 DEF OneReader, Busy
<1>4. DbQuiet(Len(db))
  BY <1>1, <1>3, FirstIs DEF DbQuiet
<1>5. BlogicQuiet(Len(blogic))
  BY <1>1, <1>4, FirstIs DEF BlogicQuiet
<1>6. QED  BY <1>1, <1>3, <1>5 DEF Alternating, DbInTurn, BlogicInTurn, WindowInTurn

-----------------------------------------------------------------------------
(* Ticks behind the contracts of their session *)

\* Steps that leave the queue of PUSH alone.
LEMMA FramedKept ==
  ASSUME Framed, UNCHANGED <<push, announced>>,
         reading' => reading /\ UNCHANGED reader,
         step'[1] = "push" => UNCHANGED step
  PROVE  Framed'
  BY DEF Framed, LastIs

LEMMA FramedAppended ==
  ASSUME TypeOK, Framed, NEW e \in PushEvents, push' = Append(push, e), UNCHANGED announced,
         e[1] # "contracts",
         e[1] = "tick" => LastIs(Len(push), e[2]),
         reading' => reading /\ UNCHANGED reader,
         step'[1] = "push" => UNCHANGED step
  PROVE  Framed'
<1>1. /\ push \in Seq(PushEvents) /\ Len(push) \in Nat /\ Len(push') = Len(push) + 1
      /\ DOMAIN push = 1..Len(push) /\ DOMAIN push' = 1..(Len(push) + 1)
      /\ push'[Len(push) + 1] = e /\ \A i \in 1..Len(push) : push'[i] = push[i]
  BY AppendIs DEF TypeOK
<1>2. ASSUME NEW n
      PROVE  /\ \A p \in 0..Len(push) : LastIs(p, n) => LastIs(p, n)'
             /\ LastIs(Len(push), n) => \/ After(push', Len(push'), "contracts", <<"contracts", n>>)
                                        \/ announced' = n /\ None(push', Len(push'), "contracts")
  BY <1>1, AppendKeeps DEF LastIs
<1>3. ASSUME NEW i \in DOMAIN push', NEW n, push'[i][1] = "tick", n = push'[i][2]
      PROVE  LastIs(i - 1, n)'
  <2>1. i - 1 \in 0..Len(push)
    BY <1>1
  <2>2. LastIs(i - 1, n)
    <3>1. CASE i = Len(push) + 1
      <4>1. i - 1 = Len(push)
        BY <1>1, <3>1
      <4>2. QED  BY <1>1, <1>3, <3>1, <4>1
    <3>2. CASE i # Len(push) + 1
      <4>1. i \in DOMAIN push /\ push'[i] = push[i]
        BY <1>1, <3>2
      <4>2. QED  BY <1>3, <4>1 DEF Framed
    <3>3. QED  BY <3>1, <3>2
  <2>3. QED  BY <1>2, <2>1, <2>2
<1>4. reading' => LastIs(Len(push), reader)'
  BY <1>2 DEF Framed, LastIs
<1>5. step'[1] = "push" => LastIs(Len(push), step[2])'
  BY <1>2 DEF Framed, LastIs
<1>6. QED  BY <1>3, <1>4, <1>5 DEF Framed, LastIs

LEMMA FramedTaken ==
  ASSUME TypeOK, Framed, push # <<>>, push' = Tail(push), UNCHANGED <<reading, reader, step>>,
         announced' = IF Head(push)[1] = "contracts" THEN Head(push)[2] ELSE announced
  PROVE  Framed'
<1>1. /\ push \in Seq(PushEvents) /\ Len(push) \in Nat \ {0} /\ Len(push') = Len(push) - 1
      /\ DOMAIN push = 1..Len(push) /\ DOMAIN push' = 1..(Len(push) - 1)
      /\ \A i \in 1..(Len(push) - 1) : push'[i] = push[i + 1]
  BY TailIs DEF TypeOK
<1>2. ASSUME NEW p \in 1..Len(push), NEW n, LastIs(p, n)
      PROVE  \/ After(push', p - 1, "contracts", <<"contracts", n>>)
             \/ announced' = n /\ None(push', p - 1, "contracts")
  <2>1. /\ After(push, p, "contracts", <<"contracts", n>>) =>
              \/ After(push', p - 1, "contracts", <<"contracts", n>>)
              \/ Head(push) = <<"contracts", n>> /\ None(push', p - 1, "contracts")
        /\ None(push, p, "contracts") =>
              Head(push)[1] # "contracts" /\ None(push', p - 1, "contracts")
    BY <1>1, TailKeeps
  <2>2. Head(push) = <<"contracts", n>> => announced' = n
    OBVIOUS
  <2>3. QED  BY <1>2, <2>1, <2>2 DEF LastIs
<1>3. ASSUME NEW i \in DOMAIN push', NEW n, push'[i][1] = "tick", n = push'[i][2]
      PROVE  LastIs(i - 1, n)'
  <2>1. i \in 1..Len(push) /\ i + 1 \in DOMAIN push /\ push'[i] = push[i + 1] /\ (i + 1) - 1 = i
    BY <1>1
  <2>2. LastIs(i, n)
    BY <1>3, <2>1 DEF Framed
  <2>3. QED  BY <1>2, <2>1, <2>2 DEF LastIs
<1>4. \A n : LastIs(Len(push), n) => \/ After(push', Len(push'), "contracts", <<"contracts", n>>)
                                     \/ announced' = n /\ None(push', Len(push'), "contracts")
  <2>1. Len(push) \in 1..Len(push)
    BY <1>1
  <2>2. QED  BY <1>1, <1>2, <2>1
<1>5. reading' => LastIs(Len(push), reader)'
  BY <1>4 DEF Framed, LastIs
<1>6. step'[1] = "push" => LastIs(Len(push), step[2])'
  BY <1>4 DEF Framed, LastIs
<1>7. QED  BY <1>3, <1>5, <1>6 DEF Framed, LastIs

LEMMA FramedDb ==
  ASSUME TypeOK, Alternating, Framed, Db
  PROVE  Framed'
<1>1. CASE ConnectDatafeed \/ DisconnectDatafeed \/ OnTradeStopped
  <2>1. /\ UNCHANGED <<push, announced, reading, reader>>
        /\ UNCHANGED step \/ step' \in {<<"stop">>, <<"delete">>}
    BY <1>1 DEF ConnectDatafeed, DisconnectDatafeed, OnTradeStopped, StopPushTick, TakeDb,
                readerVars
  <2>2. step'[1] = "push" => UNCHANGED step
    BY <2>1
  <2>3. QED  BY <2>1, <2>2, FramedKept
<1>2. CASE Join \/ NoContract
  <2>1. /\ UNCHANGED <<push, announced, reading>> /\ step' = Idle
        /\ reading => UNCHANGED reader
    BY <1>2 DEF Join, NoContract, readerVars, history
  <2>2. QED  BY <2>1, FramedKept DEF Idle
<1>3. CASE OnTradeWillBegin
  <2>1. UNCHANGED <<push, announced, reading, reader>> /\ step'[1] = "wake"
    BY <1>3 DEF OnTradeWillBegin, TakeDb, readerVars
  <2>2. QED  BY <2>1, FramedKept
<1>4. CASE GetContract
  <2>1. /\ step[1] = "wake" /\ step' = <<"push", step[2]>> /\ ~reading'
        /\ push' = Append(push, <<"contracts", step[2]>>) /\ UNCHANGED announced
    BY <1>4 DEF GetContract, readerVars, history, Alternating, OneReader
  <2>2. <<"contracts", step[2]>> \in PushEvents
    BY <2>1, StepTypes, EventTypes DEF TypeOK
  <2>3. /\ push \in Seq(PushEvents) /\ Len(push) \in Nat /\ Len(push') = Len(push) + 1
        /\ DOMAIN push = 1..Len(push) /\ DOMAIN push' = 1..(Len(push) + 1)
        /\ push'[Len(push) + 1] = <<"contracts", step[2]>>
        /\ \A i \in 1..Len(push) : push'[i] = push[i]
    BY <2>1, <2>2, AppendIs DEF TypeOK
  <2>4. \A n : /\ \A p \in 0..Len(push) : LastIs(p, n) => LastIs(p, n)'
               /\ n = step[2] => After(push', Len(push) + 1, "contracts", <<"contracts", n>>)
    BY <2>1, <2>2, <2>3, AppendKeeps DEF LastIs
  <2>5. ASSUME NEW i \in DOMAIN push', NEW n, push'[i][1] = "tick", n = push'[i][2]
        PROVE  LastIs(i - 1, n)'
    <3>1. i \in DOMAIN push /\ push'[i] = push[i] /\ i - 1 \in 0..Len(push)
      <4>1. i # Len(push) + 1
        BY <2>3, <2>5
      <4>2. QED  BY <2>3, <4>1
    <3>2. LastIs(i - 1, n)
      BY <2>5, <3>1 DEF Framed
    <3>3. QED  BY <2>4, <3>1, <3>2
  <2>6. LastIs(Len(push), step[2])'
    BY <2>1, <2>3, <2>4 DEF LastIs
  <2>7. QED  BY <2>1, <2>5, <2>6 DEF Framed, LastIs
<1>5. CASE PushTick
  <2>1. /\ step[1] = "push" /\ reader' = step[2] /\ step' = Idle /\ UNCHANGED <<push, announced>>
    BY <1>5 DEF PushTick, history
  <2>2. step'[1] # "push"
    BY <2>1 DEF Idle
  <2>3. QED  BY <2>1, <2>2 DEF Framed, LastIs
<1>6. QED  BY <1>1, <1>2, <1>3, <1>4, <1>5 DEF Db

LEMMA FramedStep ==
  ASSUME TypeOK, Alternating, Framed, [Next]_vars
  PROVE  Framed'
<1>1. CASE UNCHANGED vars \/ Window \/ Stop \/ OnGotTick
  <2>1. UNCHANGED <<push, announced, reading, reader, step>>
    BY <1>1 DEF vars, readerVars, history, Window, BtStart, BtStop, BtConfig, DfConnect,
                DfDisconnect, Stop, OnGotTick, TakeBlogic
  <2>2. QED  BY <2>1, FramedKept
<1>2. CASE Start
  <2>1. /\ push' = Append(push, <<"begin", session + 1>>)
        /\ UNCHANGED <<announced, reading, reader, step>>
    BY <1>2 DEF Start, TakeBlogic, readerVars, history
  <2>2. session + 1 \in Nat
    BY DEF TypeOK
  <2>3. /\ <<"begin", session + 1>> \in PushEvents
        /\ <<"begin", session + 1>>[1] \notin {"contracts", "tick"}
    BY <2>2, EventTypes
  <2>4. QED  BY <2>1, <2>3, FramedAppended
<1>3. CASE ReadTick
  <2>1. /\ push' = Append(push, <<"tick", reader>>) /\ reading
        /\ UNCHANGED <<announced, reading, reader, step>>
    BY <1>3 DEF ReadTick, history
  <2>2. <<"tick", reader>> \in PushEvents /\ <<"tick", reader>>[1] # "contracts"
    BY EventTypes DEF TypeOK
  <2>3. LastIs(Len(push), <<"tick", reader>>[2])
    BY <2>1 DEF Framed
  <2>4. QED  BY <2>1, <2>2, <2>3, FramedAppended
<1>4. CASE ReadEnds \/ ReadFails
  <2>1. UNCHANGED <<push, announced, reader, step>> /\ ~reading'
    BY <1>4 DEF ReadEnds, ReadFails, history
  <2>2. QED  BY <2>1, FramedKept
<1>5. CASE Push
  <2>1. /\ push # <<>> /\ push' = Tail(push) /\ UNCHANGED <<reading, reader, step>>
        /\ announced' = IF Head(push)[1] = "contracts" THEN Head(push)[2] ELSE announced
    BY <1>5 DEF Push, OnTradeBegins, OnGotContracts, OnPushTick, TakePush, readerVars
  <2>2. QED  BY <2>1, FramedTaken
<1>6. QED  BY <1>1, <1>2, <1>3, <1>4, <1>5, FramedDb DEF Next, Blogic, Reader

LEMMA FramedInit == ASSUME Init PROVE Framed
<1>1. DOMAIN push = {} /\ ~reading /\ step[1] # "push"
  BY DEF Init, Idle
<1>2. QED  BY <1>1 DEF Framed

LEMMA FramedEnough == ASSUME TypeOK, Framed PROVE TicksFollowContracts
<1> SUFFICES ASSUME push # <<>>, Head(push)[1] = "tick"
             PROVE  announced = Head(push)[2]
  BY DEF TicksFollowContracts
<1>1. 1 \in DOMAIN push /\ push[1] = Head(push)
  BY TailIs DEF TypeOK
<1>2. LastIs(1 - 1, Head(push)[2])
  BY <1>1 DEF Framed
<1>3. QED  BY <1>2, FirstIs DEF LastIs

\* A client that is handed a tick has heard of the contracts of its session last:
\* TicksFollowContracts is an invariant.
THEOREM TicksAlwaysFollowContracts == Spec => []TicksFollowContracts
<1>1. Init => TypeOK /\ Alternating /\ Framed
  BY TypeInit, AlternatingInit, FramedInit
<1>2. TypeOK /\ Alternating /\ Framed /\ [Next]_vars => (TypeOK /\ Alternating /\ Framed)'
  BY TypeStep, AlternatingStep, FramedStep
<1>3. TypeOK /\ Framed => TicksFollowContracts
  BY FramedEnough
<1>4. QED  BY <1>1, <1>2, <1>3, PTL DEF Spec
=============================================================================
