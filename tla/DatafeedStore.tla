----------------------------- MODULE DatafeedStore -----------------------------
(***************************************************************************)
(* The history store of datafeed: one LevelDB whose keys are ordered.  The *)
(* records of a series (the ticks of a contract, its bars of a period, the *)
(* contracts themselves) lie between two empty items, the first and the    *)
(* last key of the series; all readers find their way by them.             *)
(*                                                                         *)
(* gRPC threads queue the writes for the DB thread and answer at once; the *)
(* reads run on the gRPC threads, each over an iterator, which sees the    *)
(* store as it was when the iterator was made.  The window (MAIN) reads and*)
(* deletes too.  CleanAll closes the database under all of them.           *)
(*                                                                         *)
(* A key is <<table, contract, period, mark>>: the text of a key, which    *)
(* LevelDB compares byte by byte, sorts as these tuples do.                *)
(***************************************************************************)
EXTENDS Integers, Sequences, FiniteSets

CONSTANTS
  Contracts,   \* the contracts, numbered in the order of their names
  Times,       \* the times of ticks and bars
  Last,        \* the mark of the last key of a series, after every record
  Left,        \* what earlier runs of the program may have left: contracts whose
               \* series have their first and last keys, contracts stored, records by key
  Calls,       \* the write calls that clients make
  Asked,       \* the contract and the period that clients read
  Counts,      \* the counts that clients ask for
  Readers,     \* the gRPC threads that run GetTick, GetBar and GetContract
  PageRows,    \* the rows of a page of TickForm and BarForm, 128 in the code
  MaxCalls,    \* bound: write calls
  MaxGets,     \* bound: read calls
  MaxClicks,   \* bound: clicks in the window
  MaxEvents    \* bound: write calls, read calls and clicks together

Bars == 1
ContractTable == 2
Ticks == 3
First == 0
Letters == Last - 1   \* a period's letters where a time's digits are expected

\* Three of the nineteen periods and the text that a key holds for them.
Periods == {"H03", "H04", "M01"}
PeriodText == [H03 |-> 1, H04 |-> 1, M01 |-> 2]
UnknownText == 3

Items == {"null", "item"} \cup Periods

ContractSeries == <<ContractTable, 0, 0>>
TickSeries(c) == <<Ticks, c, 0>>
BarSeries(c, text) == <<Bars, c, text>>
AllSeries ==
  {ContractSeries} \cup {TickSeries(c) : c \in Contracts}
    \cup {BarSeries(c, x) : c \in Contracts, x \in 1 .. UnknownText}

KeyOf(s, mark) == <<s[1], s[2], s[3], mark>>
FirstKey(s) == KeyOf(s, First)
LastKey(s) == KeyOf(s, Last)
TickKey(c, t) == KeyOf(TickSeries(c), t)
BarKey(c, p, t) == KeyOf(BarSeries(c, PeriodText[p]), t)
ContractKey(c) == KeyOf(ContractSeries, c)

RecordKeys ==
  {TickKey(c, t) : c \in Contracts, t \in Times}
    \cup {BarKey(c, p, t) : c \in Contracts, p \in Periods, t \in Times}

\* What may lie under the key of a record: a bar keeps its period, of which its key has
\* the text.
RecordItems(k) ==
  IF k[1] = Bars THEN {p \in Periods : PeriodText[p] = k[3]} ELSE {"item"}

FrameKeys(s) == {FirstKey(s), LastKey(s)}
Keys == RecordKeys \cup {ContractKey(c) : c \in Contracts} \cup UNION {FrameKeys(s) : s \in AllSeries}

Ops == {"insertTick", "insertBar", "insertContract",
        "deleteTick", "deleteBar", "deleteContract", "cleanAll"}
AllContracts == 0   \* the request with "*" for symbol and exchange
CallType ==
  [op : Ops, c : {AllContracts} \cup Contracts, p : Periods, from : Times, to : Times]

ASSUME LastAssumption == Last \in Nat \ {First} /\ Contracts \cup Times \subseteq 1 .. (Last - 2)
ASSUME LeftAssumption == \A left \in Left :
  /\ left.framed \subseteq Contracts /\ left.known \subseteq left.framed
  /\ DOMAIN left.records \subseteq RecordKeys
  /\ \A k \in DOMAIN left.records : left.records[k] \in RecordItems(k)
ASSUME CallsAssumption ==
  /\ Calls \subseteq CallType
  /\ \A call \in Calls : call.c = AllContracts => call.op \in {"deleteContract", "cleanAll"}
ASSUME AskedAssumption == Asked \subseteq Contracts \X Periods /\ Counts \subseteq Nat
ASSUME StoreBoundsAssumption ==
  /\ PageRows \in Nat \ {0}
  /\ MaxCalls \in Nat /\ MaxGets \in Nat /\ MaxClicks \in Nat /\ MaxEvents \in Nat

VARIABLES
  db,        \* the items in the database, by key
  handle,    \* db_ points to an open database (the handlers use it unchecked)
  cleaning,  \* the step of cleanAll that the DB thread has done last
  calls,     \* the event queue of the DB thread
  readers,   \* the iterator of each gRPC thread
  opened,    \* the slots that opened() has queued for MAIN, one of each form
  listed,    \* the contracts that ContractForm lists
  stats,     \* the rows of StatForm: a series, its first and its last record
  form,      \* the TickForm or BarForm: its series and the page it shows
  alive,     \* the process has not aborted
  used       \* how much of each bound is used

window == <<opened, listed, stats, form>>
vars == <<db, handle, cleaning, calls, readers, window, alive, used>>

-----------------------------------------------------------------------------
(* LevelDB (third_party/leveldb), as far as it is used: an order on keys, iterators on a
   snapshot of the store, single writes. *)

Before(a, b) ==
  \/ a[1] < b[1]
  \/ a[1] = b[1] /\ \/ a[2] < b[2]
                    \/ a[2] = b[2] /\ \/ a[3] < b[3]
                                      \/ a[3] = b[3] /\ a[4] < b[4]
UpTo(a, b) == a = b \/ Before(a, b)

End == <<>>   \* an iterator that is not Valid()

Least(keys) == IF keys = {} THEN End ELSE CHOOSE i \in keys : \A j \in keys : UpTo(i, j)
Greatest(keys) == IF keys = {} THEN End ELSE CHOOSE i \in keys : \A j \in keys : UpTo(j, i)
Seek(store, k) == Least({i \in DOMAIN store : UpTo(k, i)})
\* Next() and Prev(), which the code calls only on an iterator that is Valid().
Next1(store, k) == IF k = End THEN End ELSE Least({i \in DOMAIN store : Before(k, i)})
Prev1(store, k) == IF k = End THEN End ELSE Greatest({i \in DOMAIN store : Before(i, k)})

Put(store, items) ==
  [k \in DOMAIN store \cup DOMAIN items |->
     IF k \in DOMAIN items THEN items[k] ELSE store[k]]
Delete(store, keys) == [k \in DOMAIN store \ keys |-> store[k]]

Framed(store, s) == FrameKeys(s) \subseteq DOMAIN store
SeriesOf(c) == {TickSeries(c)} \cup {BarSeries(c, x) : x \in 1 .. UnknownText}
NullItems(keys) == [k \in keys |-> "null"]

\* What insertContract writes: the contract and the frames of its series.
ContractItemsFull(c) ==   \* mutant
  [k \in {ContractKey(c)} \cup UNION {FrameKeys(s) : s \in SeriesOf(c)} |-> "item"]
ContractItems(c) ==
  [k \in {ContractKey(c)} \cup UNION {FrameKeys(s) : s \in SeriesOf(c)} |->
     IF k = ContractKey(c) THEN "item" ELSE "null"]
InsertContract(store, c) == Put(store, ContractItems(c))
\* insertTick, insertBar: a record under its key; one that is there is replaced.
InsertTick(store, c, t) == Put(store, [k \in {TickKey(c, t)} |-> "item"])
InsertBar(store, c, p, t) == Put(store, [k \in {BarKey(c, p, t)} |-> p])

\* The loop of deleteTick and deleteBar over [from, to].
Scanned(store, s, from, to) ==
  {k \in DOMAIN store \ {FirstKey(s)} :
     /\ UpTo(from, k) /\ UpTo(k, to)
     /\ ~ (LastKey(s) \in DOMAIN store /\ UpTo(from, LastKey(s)) /\ UpTo(LastKey(s), k))}
DeleteTickToEnd(store, c, from, to) ==   \* mutant
  Delete(store, Scanned(store, TickSeries(c), TickKey(c, from), LastKey(TickSeries(c))))
DeleteTick(store, c, from, to) ==
  Delete(store, Scanned(store, TickSeries(c), TickKey(c, from), TickKey(c, to)))
\* deleteBar composes its keys with "tick-", so that they sort behind the ticks.
DeleteBar(store, c, p, from, to) ==
  Delete(store, Scanned(store, TickSeries(c), TickKey(c, Letters), TickKey(c, Letters)))
DeleteContractWithFrames(store, c) ==   \* mutant
  Delete(store,
    IF c = AllContracts
      THEN {k \in DOMAIN store : /\ Before(FirstKey(ContractSeries), k)
                                 /\ Before(k, LastKey(ContractSeries))}
      ELSE {ContractKey(c)} \cup UNION {FrameKeys(s) : s \in SeriesOf(c)})
DeleteContract(store, c) ==
  Delete(store,
    IF c = AllContracts
      THEN {k \in DOMAIN store : /\ Before(FirstKey(ContractSeries), k)
                                 /\ Before(k, LastKey(ContractSeries))}
      ELSE {ContractKey(c)})

\* A forward or backward page: at most n items from a key up to the first empty one.
Reached(store, k) ==
  LET stop == Least({i \in DOMAIN store : UpTo(k, i) /\ store[i] = "null"})
  IN {i \in DOMAIN store : UpTo(k, i) /\ (stop = End \/ Before(i, stop))}
ReachedBack(store, k) ==
  LET stop == Greatest({i \in DOMAIN store : UpTo(i, k) /\ store[i] = "null"})
  IN {i \in DOMAIN store : UpTo(i, k) /\ (stop = End \/ Before(stop, i))}
FirstOf(keys, n) == {i \in keys : Cardinality({j \in keys : Before(j, i)}) < n}
LastOf(keys, n) == {i \in keys : Cardinality({j \in keys : Before(i, j)}) < n}
PageFrom(store, k, n) == IF k = End THEN {} ELSE FirstOf(Reached(store, k), n)
PageBack(store, k, n) == IF k = End THEN {} ELSE LastOf(ReachedBack(store, k), n)

-----------------------------------------------------------------------------
NoForm == [series |-> <<>>, rows |-> {}, last |-> End, framed |-> FALSE]
NoRead == [loop |-> "idle"]
NoUse == [b \in {"calls", "gets", "clicks"} |-> 0]
Limit == [calls |-> MaxCalls, gets |-> MaxGets, clicks |-> MaxClicks]
\* One more call, read or click, within the bounds.
Use(b) ==
  /\ alive /\ used[b] < Limit[b] /\ used["calls"] + used["gets"] + used["clicks"] < MaxEvents
  /\ used' = [used EXCEPT ![b] = @ + 1]

\* Start on the database that earlier runs left: dbOpen and dbInit are done.  The signal
\* opened() of the start is lost on the forms that MAIN has not yet connected to it.
LeftStore(left) ==
  LET frames == FrameKeys(ContractSeries)
                  \cup UNION {UNION {FrameKeys(s) : s \in SeriesOf(c)} : c \in left.framed}
  IN Put(NullItems(frames),
         Put([k \in {ContractKey(c) : c \in left.known} |-> "item"], left.records))

Init ==
  /\ \E left \in Left : db = LeftStore(left)
  /\ handle = TRUE
  /\ cleaning = "none"
  /\ calls = <<>>
  /\ readers = [r \in Readers |-> NoRead]
  /\ opened \in {<<>>, <<"contract">>, <<"contract", "stat">>}
  /\ listed = {}
  /\ stats = {}
  /\ form = NoForm
  /\ alive = TRUE
  /\ used = NoUse

(* The write handlers of RpcService: they queue the call and answer OK. *)

Accept(ops) ==
  /\ Use("calls")
  /\ \E call \in Calls : call.op \in ops /\ calls' = Append(calls, call)
  /\ UNCHANGED <<db, handle, cleaning, readers, window, alive>>

AcceptInsert == Accept({"insertTick", "insertBar", "insertContract"})
AcceptDelete == Accept({"deleteTick", "deleteBar", "deleteContract"})
AcceptCleanAll == Accept({"cleanAll"})

(* The DB thread. *)

Written(store, call) ==
  CASE call.op = "insertTick" -> InsertTick(store, call.c, call.from)
    [] call.op = "insertBar" -> InsertBar(store, call.c, call.p, call.from)
    [] call.op = "insertContract" -> InsertContract(store, call.c)
    [] call.op = "deleteTick" -> DeleteTick(store, call.c, call.from, call.to)
    [] call.op = "deleteBar" -> DeleteBar(store, call.c, call.p, call.from, call.to)
    [] call.op = "deleteContract" -> DeleteContract(store, call.c)

Write ==
  /\ alive /\ cleaning = "none" /\ calls # <<>> /\ Head(calls).op # "cleanAll"
  /\ db' = Written(db, Head(calls))
  /\ calls' = Tail(calls)
  /\ UNCHANGED <<handle, cleaning, readers, window, alive, used>>

Reading(r) == readers[r].loop # "idle"

\* cleanAll: dbClose.  To delete the database under an open iterator is undefined: the
\* process dies, or the reader goes on.
DbClose ==
  /\ alive /\ cleaning = "none" /\ calls # <<>> /\ Head(calls).op = "cleanAll"
  /\ handle' = FALSE
  /\ cleaning' = "closed"
  /\ alive' \in {TRUE} \cup {FALSE : r \in {r \in Readers : Reading(r)}}
  /\ UNCHANGED <<db, calls, readers, window, used>>

DbReset ==
  /\ alive /\ cleaning = "closed"
  /\ db' = <<>>
  /\ cleaning' = "reset"
  /\ UNCHANGED <<handle, calls, readers, window, alive, used>>

DbOpen ==
  /\ alive /\ cleaning = "reset"
  /\ handle' = TRUE
  /\ cleaning' = "opened"
  /\ UNCHANGED <<db, calls, readers, window, alive, used>>

DbInit ==
  /\ alive /\ cleaning = "opened"
  /\ db' = Put(db, NullItems(FrameKeys(ContractSeries)))
  /\ cleaning' = "none"
  /\ calls' = Tail(calls)
  /\ opened' = opened \o <<"contract", "stat">>
  /\ UNCHANGED <<handle, readers, listed, stats, form, alive, used>>

(* The read handlers on gRPC threads.  One that finds db_ null dereferences it. *)

Die == alive' = FALSE /\ UNCHANGED <<db, handle, cleaning, calls, readers, form>>

\* The read names a series and, for bars, a period; its loop knows the text of the period.
Iterate(r, loop, s, p, from, at, to, count) ==
  /\ ~ Reading(r) /\ Use("gets")
  /\ UNCHANGED <<opened, listed, stats>>
  /\ IF handle
       THEN /\ readers' = [readers EXCEPT ![r] =
                 [loop |-> loop, series |-> s, period |-> p, from |-> from, to |-> to,
                  count |-> count, snap |-> db, at |-> at, out |-> {}]]
            /\ UNCHANGED <<db, handle, cleaning, calls, form, alive>>
       ELSE Die

Back(r, s, p, to, n) == Iterate(r, "back", s, p, to, Seek(db, to), End, n)
Forward(r, s, p, from, n) == Iterate(r, "forward", s, p, from, Seek(db, from), End, n)
Window(r, s, p, from, to) == Iterate(r, "window", s, p, from, Seek(db, from), to, 0)

GetTickCountTo(r) ==
  \E a \in Asked, t \in Times, n \in Counts :
    Back(r, TickSeries(a[1]), "item", TickKey(a[1], t), n)
GetTickFromCount(r) ==
  \E a \in Asked, t \in Times, n \in Counts :
    Forward(r, TickSeries(a[1]), "item", TickKey(a[1], t), n)
GetTickFromTo(r) ==
  \E a \in Asked, t, u \in Times :
    Window(r, TickSeries(a[1]), "item", TickKey(a[1], t), TickKey(a[1], u))
AskedBars(a) == BarSeries(a[1], PeriodText[a[2]])
GetBarCountTo(r) ==
  \E a \in Asked, t \in Times, n \in Counts :
    Back(r, AskedBars(a), a[2], BarKey(a[1], a[2], t), n)
GetBarFromCount(r) ==
  \E a \in Asked, t \in Times, n \in Counts :
    Forward(r, AskedBars(a), a[2], BarKey(a[1], a[2], t), n)
GetBarFromTo(r) ==
  \E a \in Asked, t, u \in Times :
    Window(r, AskedBars(a), a[2], BarKey(a[1], a[2], t), BarKey(a[1], a[2], u))
\* getContract for "*" "*" starts behind contract+.
GetContracts(r) ==
  Iterate(r, "contracts", ContractSeries, "item", FirstKey(ContractSeries),
          Next1(db, Seek(db, FirstKey(ContractSeries))), End, 0)
\* getContract for one contract is one look at its key and needs no iterator.
GetContract(r) ==
  /\ ~ Reading(r) /\ Use("gets")
  /\ UNCHANGED <<opened, listed, stats>>
  /\ IF handle THEN UNCHANGED <<db, handle, cleaning, calls, readers, form, alive>> ELSE Die

\* Whether a loop ends at the item its iterator is at, or skips that item.
Full(g) == Cardinality(g.out) >= g.count
EndsBackAtEnd(g) == g.at = End \/ Full(g)   \* mutant
EndsBack(g) == g.at = End \/ Full(g) \/ g.at = FirstKey(g.series)
EndsForward(g) == g.at = End \/ Full(g) \/ g.at = LastKey(g.series)
EndsWindowEarly(g) ==   \* mutant
  \/ g.at = End \/ g.at = LastKey(g.series)
  \/ g.at # FirstKey(g.series) /\ ~ Before(g.at, g.to)
EndsWindow(g) ==
  \/ g.at = End \/ g.at = LastKey(g.series)
  \/ g.at # FirstKey(g.series) /\ ~ UpTo(g.at, g.to)
EndsContracts(g) == g.at = End \/ g.snap[g.at] = "null"
Ends(g) ==
  CASE g.loop = "back" -> EndsBack(g)
    [] g.loop = "forward" -> EndsForward(g)
    [] g.loop = "window" -> EndsWindow(g)
    [] g.loop = "contracts" -> EndsContracts(g)
Skips(g) == g.at = IF g.loop = "back" THEN LastKey(g.series) ELSE FirstKey(g.series)

\* One turn of a loop: an item that is not skipped goes to the client.
Turned(g) ==
  [g EXCEPT !.at = IF g.loop = "back" THEN Prev1(g.snap, @) ELSE Next1(g.snap, @),
            !.out = IF Skips(g) THEN @ ELSE @ \cup {g.at}]
GetStep(r) ==
  /\ alive /\ Reading(r) /\ ~ Ends(readers[r])
  /\ readers' = [readers EXCEPT ![r] = Turned(@)]
  /\ UNCHANGED <<db, handle, cleaning, calls, window, alive, used>>

\* The loop has ended, or a write fails because the client has gone.
GetEnd(r) ==
  /\ alive /\ Reading(r)
  /\ readers' = [readers EXCEPT ![r] = NoRead]
  /\ UNCHANGED <<db, handle, cleaning, calls, window, alive, used>>

(* The window on MAIN.  getDb aborts when db_ is null. *)

\* The items that refresh meets between contract+ and the next empty item, each a row.
ContractsListed(store) ==
  {k[4] : k \in PageFrom(store, Next1(store, Seek(store, FirstKey(ContractSeries))), Last)}

\* statTick, statBar: the record behind the first key and the one before the last key.
Oldest(store, s) == Next1(store, Seek(store, FirstKey(s)))
Newest(store, s) == Prev1(store, Seek(store, LastKey(s)))
StatSeries(c) == {TickSeries(c)} \cup {BarSeries(c, PeriodText[p]) : p \in Periods}
\* A row for a series that has both.
StatRow(store, s) == <<s, Oldest(store, s), Newest(store, s)>>
StatRows(store) ==
  {row \in {StatRow(store, s) : s \in UNION {StatSeries(c) : c \in ContractsListed(store)}} :
     \A i \in 2 .. 3 : row[i] # End /\ store[row[i]] # "null"}

ContractRefresh ==
  /\ UNCHANGED stats
  /\ \/ /\ handle
        /\ listed' = ContractsListed(db)
        /\ UNCHANGED <<db, handle, cleaning, calls, readers, form, alive>>
     \/ ~ handle /\ Die /\ UNCHANGED listed
StatRefresh ==
  /\ UNCHANGED listed
  /\ \/ /\ handle
        /\ stats' = StatRows(db)
        /\ UNCHANGED <<db, handle, cleaning, calls, readers, form, alive>>
     \/ ~ handle /\ Die /\ UNCHANGED stats
OnOpened(slot) ==
  alive /\ opened # <<>> /\ Head(opened) = slot /\ opened' = Tail(opened) /\ UNCHANGED used
Click == Use("clicks") /\ UNCHANGED opened
ContractRefreshButton == Click /\ ContractRefresh
StatRefreshButton == Click /\ StatRefresh
ContractOnOpened == OnOpened("contract") /\ ContractRefresh
StatOnOpened == OnOpened("stat") /\ StatRefresh

\* A row keeps the key of its record in its last column.
\* The page lies between its frames (history) if they are there, and it was sought from
\* a place between them.
Show(s, rows, last, within) ==
  \/ /\ handle
     /\ form' = [series |-> s, rows |-> rows, last |-> last,
                 framed |-> within /\ Framed(db, s)]
     /\ UNCHANGED <<db, handle, cleaning, calls, readers, alive>>
  \/ ~ handle /\ Die
ShowForward(s, at, within) ==
  LET rows == PageFrom(db, at, PageRows)
  IN Show(s, rows, Greatest(rows), within)
ShowBack(s, at, within) ==
  LET rows == PageBack(db, at, PageRows)
  IN Show(s, rows, Least(rows), within)

First128(s) == Click /\ UNCHANGED <<listed, stats>> /\ ShowForward(s, Oldest(db, s), TRUE)
Last128(s) == Click /\ UNCHANGED <<listed, stats>> /\ ShowBack(s, Newest(db, s), TRUE)
\* The next and the previous page go by the key in the last row of the page.  When that
\* record has been deleted, Seek finds the item behind it, be it the last key, and Next
\* goes on from there.
Next128(s) ==
  /\ form.last # End
  /\ Click /\ UNCHANGED <<listed, stats>>
  /\ ShowForward(s, Next1(db, Seek(db, form.last)), form.framed /\ form.last \in DOMAIN db)
Pre128(s) ==
  /\ form.last # End
  /\ Click /\ UNCHANGED <<listed, stats>>
  /\ ShowBack(s, Prev1(db, Seek(db, form.last)), form.framed)
SeekButton(s) ==
  /\ Click /\ UNCHANGED <<listed, stats>>
  /\ \E t \in Times : ShowBack(s, Seek(db, KeyOf(s, t)), TRUE)
\* The key to delete is the one of a row that was clicked.  The line it stands in can be
\* typed in too: nothing would stop a user from deleting the first key of a series.
DelButton(k) ==
  /\ Click /\ UNCHANGED <<listed, stats>>
  /\ \/ /\ handle
        /\ db' = Delete(db, {k})
        /\ UNCHANGED <<handle, cleaning, calls, readers, form, alive>>
     \/ ~ handle /\ Die

\* The contract and the period stand in lines that the selected row fills in.  They can
\* be typed in too and outlive a refresh: only series listed now are shown here.
ShowTicks == \E c \in listed : First128(TickSeries(c))
ShowBars == \E c \in listed, p \in Periods : First128(BarSeries(c, PeriodText[p]))
ShowData == \E row \in stats : First128(row[1])
DelRow == \E k \in form.rows : DelButton(k)
Shows(table) == form.series # NoForm.series /\ form.series[1] = table
TickForm ==
  \/ Shows(Ticks) /\ First128(form.series)
  \/ Shows(Ticks) /\ Next128(form.series)
  \/ Shows(Ticks) /\ Pre128(form.series)
  \/ Shows(Ticks) /\ Last128(form.series)
  \/ Shows(Ticks) /\ SeekButton(form.series)
  \/ Shows(Ticks) /\ DelRow
\* BarForm has the same buttons.
BarFirst128 == Shows(Bars) /\ First128(form.series)
BarNext128 == Shows(Bars) /\ Next128(form.series)
BarPre128 == Shows(Bars) /\ Pre128(form.series)
BarLast128 == Shows(Bars) /\ Last128(form.series)
BarSeekButton == Shows(Bars) /\ SeekButton(form.series)
BarDelButton == Shows(Bars) /\ DelRow

-----------------------------------------------------------------------------
DbThread == Write \/ DbClose \/ DbReset \/ DbOpen \/ DbInit
Get(r) ==
  \/ GetTickCountTo(r) \/ GetTickFromCount(r) \/ GetTickFromTo(r)
  \/ GetBarCountTo(r) \/ GetBarFromCount(r) \/ GetBarFromTo(r) \/ GetContracts(r)
  \/ GetContract(r)
  \/ GetStep(r) \/ GetEnd(r)
Main ==
  \/ ContractOnOpened \/ StatOnOpened \/ ContractRefreshButton \/ StatRefreshButton
  \/ ShowTicks \/ ShowBars \/ ShowData \/ TickForm
  \/ BarFirst128 \/ BarNext128 \/ BarPre128 \/ BarLast128 \/ BarSeekButton \/ BarDelButton

Next ==
  \/ AcceptInsert \/ AcceptDelete \/ AcceptCleanAll
  \/ DbThread
  \/ \E r \in Readers : Get(r)
  \/ Main

Spec == Init /\ [][Next]_vars

-----------------------------------------------------------------------------
(* Properties. *)

ItemOK(store, k) ==
  /\ k[4] \in {First, Last} <=> store[k] = "null"
  /\ k[1] = Bars /\ k[4] \notin {First, Last} =>
       store[k] \in Periods /\ PeriodText[store[k]] = k[3]
StoreOK(store) ==
  /\ DOMAIN store \subseteq Keys
  /\ \A k \in DOMAIN store : store[k] \in Items /\ ItemOK(store, k)
ReadOK(g) ==
  \/ g = NoRead
  \/ /\ DOMAIN g = {"loop", "series", "period", "from", "to", "count", "snap", "at", "out"}
     /\ g.loop \in {"back", "forward", "window", "contracts"}
     /\ g.series \in AllSeries /\ g.period \in {"item"} \cup Periods
     /\ g.from \in Keys /\ g.to \in Keys \cup {End} /\ g.count \in Nat
     /\ StoreOK(g.snap)
     /\ g.at \in DOMAIN g.snap \cup {End}
     /\ g.out \subseteq DOMAIN g.snap

\* The type invariant.  It includes what a key says of its item: the first and the last
\* keys of the series, and no others, hold empty items, and a bar lies under the text of
\* its period.
TypeOK ==
  /\ StoreOK(db)
  /\ handle = (cleaning \notin {"closed", "reset"})
  /\ cleaning \in {"none", "closed", "reset", "opened"}
  /\ cleaning # "none" => calls # <<>>
  /\ calls \in Seq(Calls)
  /\ DOMAIN readers = Readers /\ \A r \in Readers : ReadOK(readers[r])
  /\ opened \in Seq({"contract", "stat"})
  /\ listed \subseteq Contracts
  /\ stats \subseteq AllSeries \X Keys \X Keys
  /\ form.series \in AllSeries \cup {<<>>} /\ form.rows \subseteq Keys
  /\ form.last \in form.rows \cup {End} /\ form.framed \in BOOLEAN
  /\ alive \in BOOLEAN
  /\ used \in [{"calls", "gets", "clicks"} -> Nat]

InSeries(k, s) == <<k[1], k[2], k[3]>> = s /\ k[4] \notin {First, Last}

\* Whatever getTick, getBar, getContract, TickForm and BarForm give out is a record of
\* the series they were asked for, when the first and the last key of the series were in
\* the database they looked at: no neighbour's record, and no empty item.  A series is
\* what its keys say: bars of H03 and of H04 are of one series.  A next page
\* counts only when the record it starts behind is still there: behind a deleted one it
\* may leave the series.
ReadsStayInSeries ==
  /\ \A r \in Readers : Reading(r) /\ Framed(readers[r].snap, readers[r].series) =>
       \A k \in readers[r].out : InSeries(k, readers[r].series)
  /\ form.framed => \A k \in form.rows : InSeries(k, form.series)

RecordsOf(store, s) == {k \in DOMAIN store : InSeries(k, s)}

\* The records that a read names: those of its series and, for bars, of its period.  The
\* keys of H03 and H04 have the same text, so that the series may hold bars of the other
\* one, which the loops cannot tell from those asked for.
Named(g) == {k \in RecordsOf(g.snap, g.series) : g.snap[k] = g.period}
OfOnePeriod(g) == Named(g) = RecordsOf(g.snap, g.series)

\* The newest count records up to the cut-off.  One record behind the cut-off may be among
\* them, when no record has the time of the cut-off itself.
Late(g) == {k \in g.out : Before(g.from, k)}
GivesNewest(g) ==
  /\ g.out \ Late(g) =
       LastOf({k \in Named(g) : UpTo(k, g.from)}, g.count - Cardinality(Late(g)))
  /\ Late(g) \subseteq Named(g) /\ Cardinality(Late(g)) <= 1
  /\ Late(g) # {} => g.from \notin Named(g)
GivesFirst(g) == g.out = FirstOf({k \in Named(g) : UpTo(g.from, k)}, g.count)
GivesInterval(g) == g.out = {k \in Named(g) : UpTo(g.from, k) /\ UpTo(k, g.to)}
GivesNamed(g) ==
  CASE g.loop = "back" -> GivesNewest(g)
    [] g.loop = "forward" -> GivesFirst(g)
    [] g.loop = "window" -> GivesInterval(g)
    [] g.loop = "contracts" -> g.out = Named(g)

\* A read that has ended has left out no record that it names, and has added none but the
\* one that GivesNewest allows: the first count records from a time, the records of an
\* interval, the newest count records up to a cut-off, or all contracts.
\* Two things that bfdatafeed.proto promises and the code does not keep are no part of
\* this.  The proto calls toDate and toTime the cut-off, and yet a record behind it may be
\* given.  And where the bars of a second period lie under the same text (H03 and H04),
\* a read gives those too: such a read is outside this property.
ReadMatchesRequest ==
  \A r \in Readers :
    Reading(r) /\ Framed(readers[r].snap, readers[r].series) /\ Ends(readers[r])
      /\ OfOnePeriod(readers[r]) => GivesNamed(readers[r])

\* A contract that is stored, or that the window lists, has the first and the last keys of
\* all its series in the database, so that its pages and reads stay in their series.  A
\* listing may be stale only from the moment cleanAll has emptied the database to the
\* refresh that opened() brings.
ListedFramed ==
  /\ \A c \in Contracts : ContractKey(c) \in DOMAIN db =>
       \A s \in SeriesOf(c) : Framed(db, s)
  /\ cleaning = "none" => Framed(db, ContractSeries)
  /\ cleaning = "none" /\ opened = <<>> =>
       /\ \A c \in listed : \A s \in SeriesOf(c) : Framed(db, s)
       /\ \A row \in stats : Framed(db, row[1])

\* A tick or a bar leaves the database only by a deleteTick of its contract whose interval
\* it is in, by the del button, or by cleanAll.  (Its key, that is: a second insertion
\* under the same key replaces it, be it a bar of H03 over one of H04.)
NothingElseLost ==
  [][\A k \in DOMAIN db \ DOMAIN db' : k \in RecordKeys =>
       \/ /\ calls # <<>> /\ Head(calls).op = "deleteTick"
          /\ InSeries(k, TickSeries(Head(calls).c))
          /\ Head(calls).from <= k[4] /\ k[4] <= Head(calls).to
       \/ k \in form.rows /\ used' # used
       \/ cleaning' = "reset"]_vars

\* bfdatafeed.proto on DeleteBar: it deletes bars, by from and to.
DeletedBarsGone ==
  [][calls # <<>> /\ calls' = Tail(calls) /\ Head(calls).op = "deleteBar" =>
       \A t \in Times : Head(calls).from <= t /\ t <= Head(calls).to =>
         BarKey(Head(calls).c, Head(calls).p, t) \notin DOMAIN db']_vars

=============================================================================
