------------------------------ MODULE NezipDump ------------------------------
(***************************************************************************)
(* tools/nezipdump: GatewayMgr on BLOGIC asks the Nezip driver for the     *)
(* history of a list of labels, the driver's own thread appends what       *)
(* arrives to four lists (DataWriteQueue), and PushService on PUSH, at its *)
(* ping timer, waits until nothing has arrived for five seconds, inserts   *)
(* the contracts of the index labels into datafeed and then the bars of    *)
(* the lists until they are empty.                                         *)
(*                                                                         *)
(* A datum is known by its label.  BLOGIC, PUSH and the driver interleave  *)
(* between the calls that PUSH makes to datafeed and to the lists.         *)
(*                                                                         *)
(* DatafeedProofs reasons about this module beside DatafeedStore, to which *)
(* the tool writes: the names that both would define have the prefix Dump. *)
(***************************************************************************)
EXTENDS Naturals, Sequences

CONSTANTS
  Labels,    \* the labels that AskData asks for, each with its contract
  Index,     \* those of an index: their contract is cloned from another one
  Other,     \* a label that arrives without having been asked for
  Batch,     \* how many data one get takes from a list at most (8192)
  MaxPacket, \* bound: data that arrive in one packet
  MaxData,   \* bound: data that arrive
  MaxAsks, \* bound: clicks on AskData
  MaxErrors  \* bound: calls to datafeed that fail

ASSUME LabelsAssumption == Index \subseteq Labels /\ Other \notin Labels
ASSUME BatchAssumption == Batch \in Nat \ {0}
ASSUME BoundsAssumption ==
  /\ MaxPacket \in Nat /\ MaxData \in Nat
  /\ MaxAsks \in Nat /\ MaxErrors \in Nat

VARIABLES
  driver,    \* the driver is loaded
  asks,      \* the labels that the window posted to askData
  tags,      \* tags_ of GatewayMgr
  list,      \* the four lists of gDataWriteQueue
  seen,      \* daysize_, min1size_, min5size_, ticksize_
  received,  \* recvFinished_
  indexed,   \* pushIndexFinished_
  step,      \* where PUSH is in onPing
  todo,      \* the index labels, or the lists, it has still to do there
  kind,      \* the list its batch comes from
  batch,     \* the data it has taken from that list
  known,     \* its copy of tags_
  timer,     \* pingTimer_ runs
  cloneable, \* external: the index labels whose model contract datafeed has
  contracts, \* external: the index contracts inserted
  bars,      \* external: the labels of which a bar was inserted
  through,    \* history: the labels that the last pushIndexData went through
  count,     \* history: data that arrived, were stored, skipped, or dropped after an error
  spent       \* how much of each bound is used

gatewayVars == <<driver, asks, tags>>
pushVars == <<seen, received, indexed, step, todo, kind, batch, known, timer>>
datafeedVars == <<cloneable, contracts, bars>>
dumpVars == <<gatewayVars, list, pushVars, datafeedVars, through, count, spent>>

-----------------------------------------------------------------------------
KindOrder == <<"day", "min1", "min5", "tick">>
Kinds == {"day", "min1", "min5", "tick"}
Tallies == {"arrived", "stored", "skipped", "dropped"}

DumpTypeOK ==
  /\ driver \in BOOLEAN
  /\ asks \subseteq Labels /\ tags \subseteq Labels
  /\ list \in [Kinds -> Seq(Labels \cup {Other})]
  /\ seen \in [Kinds -> Nat]
  /\ received \in BOOLEAN /\ indexed \in BOOLEAN /\ timer \in BOOLEAN
  /\ step \in {"idle", "index", "loop", "take", "insert"}
  /\ todo \subseteq Kinds \cup Index
  /\ kind \in Kinds
  /\ batch \in Seq(Labels \cup {Other})
  /\ known \subseteq Labels
  /\ cloneable \subseteq Index /\ contracts \subseteq Index
  /\ bars \subseteq Labels
  /\ through \subseteq Labels
  /\ count \in [Tallies -> Nat]
  /\ spent \in [{"clicks", "errors"} -> Nat]

DumpInit ==
  /\ driver = FALSE /\ asks = {} /\ tags = {}
  /\ list = [k \in Kinds |-> <<>>]
  /\ seen = [k \in Kinds |-> 0]
  /\ received = FALSE /\ indexed = FALSE /\ timer = TRUE
  /\ step = "idle" /\ todo = {} /\ kind = "day" /\ batch = <<>> /\ known = {}
  /\ cloneable \in SUBSET Index /\ contracts = {} /\ bars = {}
  /\ through = {}
  /\ count = [c \in Tallies |-> 0]
  /\ spent = [b \in {"clicks", "errors"} |-> 0]

Spend(what, limit) == spent[what] < limit /\ spent' = [spent EXCEPT ![what] = @ + 1]
\* A call of the datafeed client that returns false: an error, or its deadline,
\* behind which the server may have done what it was asked.
Error == Spend("errors", MaxErrors)
MayHave(set, l) == {set, set \cup {l}}
Counted(c, n) == count' = [count EXCEPT ![c] = @ + n]
Sizes == [k \in Kinds |-> Len(list[k])]

-----------------------------------------------------------------------------
(* BLOGIC and the driver *)

LoadDrv ==
  /\ ~driver /\ driver' = TRUE
  /\ UNCHANGED <<asks, tags, list, pushVars, datafeedVars, through, count, spent>>

\* The window posts every label, each with its contract and its model contract.
AskDataButton ==
  /\ Spend("clicks", MaxAsks)
  /\ asks' = Labels
  /\ UNCHANGED <<driver, tags, list, pushVars, datafeedVars, through, count>>

\* A label is asked for once, and only of a driver that is loaded.
AskData(l) ==
  /\ l \in asks /\ asks' = asks \ {l}
  /\ tags' = IF driver THEN tags \cup {l} ELSE tags
  /\ UNCHANGED <<driver, list, pushVars, datafeedVars, through, count, spent>>

\* What is left of a packet without the records of other markets.
Packets == UNION {[1..n -> tags \cup {Other}] : n \in 1..MaxPacket}

Merge(k, packet) ==
  /\ driver /\ count["arrived"] + Len(packet) <= MaxData
  /\ list' = [list EXCEPT ![k] = @ \o packet]
  /\ Counted("arrived", Len(packet))
  /\ UNCHANGED <<gatewayVars, pushVars, datafeedVars, through, spent>>

HandleDaydata(packet) == Merge("day", packet)
HandleMindata(packet) == Merge("min1", packet) \/ Merge("min5", packet)
HandleTick(packet) == Merge("tick", packet)

\* The driver answers what it was asked, or sends data of its own accord.
OnCallBack ==
  \E packet \in Packets :
    HandleDaydata(packet) \/ HandleMindata(packet) \/ HandleTick(packet)

-----------------------------------------------------------------------------
(* PUSH: onPing *)

\* Five seconds without new data, after the first.
RecvFinished == seen = Sizes /\ \E k \in Kinds : seen[k] # 0

StillReceiving ==
  /\ timer /\ step = "idle" /\ ~received /\ ~RecvFinished
  /\ seen' = Sizes
  /\ UNCHANGED <<gatewayVars, list, received, indexed, step, todo, kind, batch, known, timer,
                 datafeedVars, through, count, spent>>

\* pushIndexData copies tags_ and goes through its index labels.
OnPing ==
  /\ timer /\ step = "idle" /\ (received \/ RecvFinished)
  /\ received' = TRUE
  /\ IF indexed
       THEN step' = "loop" /\ UNCHANGED <<todo, known, through>>
       ELSE /\ step' = "index" /\ known' = tags /\ through' = tags
            /\ todo' = tags \cap Index
  /\ UNCHANGED <<gatewayVars, list, seen, indexed, kind, batch, timer, datafeedVars, count, spent>>

\* Datafeed does not answer the ping: nothing is pushed this time.
PingFails ==
  /\ timer /\ step = "idle" /\ (received \/ RecvFinished)
  /\ Error
  /\ received' = TRUE
  /\ UNCHANGED <<gatewayVars, list, seen, indexed, step, todo, kind, batch, known, timer,
                 datafeedVars, through, count>>

\* The model contract is cloned under the name of the index.
PushIndex(l) ==
  /\ step = "index" /\ l \in todo /\ l \in cloneable
  /\ contracts' = contracts \cup {l}
  /\ todo' = todo \ {l}
  /\ UNCHANGED <<gatewayVars, list, seen, received, indexed, step, kind, batch, known, timer,
                 cloneable, bars, through, count, spent>>

\* No model contract, or an error: again at the next ping.
PushIndexFails(l) ==
  /\ step = "index" /\ l \in todo
  /\ IF l \in cloneable THEN Error /\ contracts' \in MayHave(contracts, l)
                         ELSE UNCHANGED <<spent, contracts>>
  /\ step' = "idle" /\ todo' = {}
  /\ UNCHANGED <<gatewayVars, list, seen, received, indexed, kind, batch, known, timer,
                 cloneable, bars, through, count>>

PushIndexSkips ==  \* mutant
  /\ step = "index"
  /\ indexed' = TRUE /\ step' = "loop" /\ todo' = {}
  /\ UNCHANGED <<gatewayVars, list, seen, received, kind, batch, known, timer,
                 datafeedVars, through, count, spent>>

PushIndexEnds ==
  /\ step = "index" /\ todo = {}
  /\ indexed' = TRUE /\ step' = "loop"
  /\ UNCHANGED <<gatewayVars, list, seen, received, todo, kind, batch, known, timer,
                 datafeedVars, through, count, spent>>

\* The sizes decide which lists this round takes from...
PushRound ==
  /\ step = "loop" /\ \E k \in Kinds : list[k] # <<>>
  /\ todo' = {k \in Kinds : list[k] # <<>>}
  /\ step' = "take"
  /\ UNCHANGED <<gatewayVars, list, seen, received, indexed, kind, batch, known, timer,
                 datafeedVars, through, count, spent>>

\* ..."push finished,please exit app!"
PushFinished ==
  /\ step = "loop" /\ \A k \in Kinds : list[k] = <<>>
  /\ timer' = FALSE /\ step' = "idle"
  /\ UNCHANGED <<gatewayVars, list, seen, received, indexed, todo, kind, batch, known,
                 datafeedVars, through, count, spent>>

RestCleared(s) == <<>>  \* mutant
\* get_klinedata takes the whole list, or the first Batch of it.
Rest(s) == SubSeq(s, Batch + 1, Len(s))
Taken(s) == SubSeq(s, 1, IF Len(s) < Batch THEN Len(s) ELSE Batch)

\* k is the first of those left.
Turn(k) == k \in todo /\ \A i, j \in DOMAIN KindOrder :
             j < i /\ KindOrder[i] = k => KindOrder[j] \notin todo

TakeList(k) ==
  /\ step = "take" /\ Turn(k)
  /\ kind' = k /\ todo' = todo \ {k}
  /\ batch' = Taken(list[k])
  /\ list' = [list EXCEPT ![k] = Rest(@)]
  /\ known' = tags
  /\ step' = "insert"
  /\ UNCHANGED <<gatewayVars, seen, received, indexed, timer, datafeedVars, through, count, spent>>

RoundEnds ==
  /\ step = "take" /\ todo = {}
  /\ step' = "loop"
  /\ UNCHANGED <<gatewayVars, list, seen, received, indexed, todo, kind, batch, known, timer,
                 datafeedVars, through, count, spent>>

BatchEnds ==
  /\ step = "insert" /\ batch = <<>>
  /\ step' = "take"
  /\ UNCHANGED <<gatewayVars, list, seen, received, indexed, todo, kind, batch, known, timer,
                 datafeedVars, through, count, spent>>

\* Ticks are not inserted (the call is commented out), nor are other labels.
Skip ==
  /\ step = "insert" /\ batch # <<>>
  /\ kind = "tick" \/ Head(batch) \notin known
  /\ batch' = Tail(batch)
  /\ Counted("skipped", 1)
  /\ UNCHANGED <<gatewayVars, list, seen, received, indexed, step, todo, kind, known, timer,
                 datafeedVars, through, spent>>

PushBarRetries ==  \* mutant
  /\ step = "insert" /\ batch # <<>>
  /\ kind # "tick" /\ Head(batch) \in known
  /\ step' = "insert"
  /\ UNCHANGED <<gatewayVars, list, seen, received, indexed, todo, kind, batch, known, timer,
                 datafeedVars, through, count, spent>>

PushBar ==
  /\ step = "insert" /\ batch # <<>>
  /\ kind # "tick" /\ Head(batch) \in known
  /\ bars' = bars \cup {Head(batch)}
  /\ batch' = Tail(batch)
  /\ Counted("stored", 1)
  /\ UNCHANGED <<gatewayVars, list, seen, received, indexed, step, todo, kind, known, timer,
                 cloneable, contracts, through, spent>>

\* A failed call drops the rest of the batch.
PushBarFails ==
  /\ step = "insert" /\ batch # <<>>
  /\ kind # "tick" /\ Head(batch) \in known
  /\ Error
  /\ bars' \in MayHave(bars, Head(batch))
  /\ batch' = <<>>
  /\ Counted("dropped", Len(batch))
  /\ UNCHANGED <<gatewayVars, list, seen, received, indexed, step, todo, kind, known, timer,
                 cloneable, contracts, through>>

-----------------------------------------------------------------------------
Sources == LoadDrv \/ AskDataButton \/ (\E l \in Labels : AskData(l)) \/ OnCallBack
Push ==
  \/ StillReceiving \/ OnPing \/ (\E l \in Index : PushIndex(l)) \/ PushIndexEnds
  \/ PushRound \/ PushFinished \/ (\E k \in Kinds : TakeList(k)) \/ RoundEnds
  \/ BatchEnds \/ Skip \/ PushBar
NoContract == \E l \in Index : PushIndexFails(l)
Failures == PingFails \/ NoContract \/ PushBarFails

DumpNext == Sources \/ Push \/ Failures

DumpSpec == DumpInit /\ [][DumpNext]_dumpVars
DumpFairSpec == DumpSpec /\ WF_dumpVars(Push \/ NoContract)

-----------------------------------------------------------------------------
(* Properties *)

Waiting == Len(list["day"]) + Len(list["min1"]) + Len(list["min5"]) + Len(list["tick"])

\* Every datum that arrived still waits, was stored or skipped, or was dropped
\* behind a failed InsertBar: the rounds, whose sizes are old when a list is
\* taken, and the partial takes lose nothing of what arrives meanwhile.
NothingVanishes ==
  /\ count["arrived"] =
       Waiting + Len(batch) + count["stored"] + count["skipped"] + count["dropped"]
  /\ count["dropped"] > 0 => spent["errors"] > 0

\* A bar of an index only comes after its contract, which the bars of datafeed
\* are framed by: also when pushIndexData failed half way and ran again, and
\* unless the label was asked for when pushIndexData had already copied tags_.
IndexContractsFirst ==
  \A l \in bars \cap Index : l \in contracts \/ l \notin through

\* Once the data are in, the push ends, unless datafeed has no contract to
\* clone for an index that was asked for: that is retried for ever.
PushEnds == received ~> ~timer \/ \E l \in tags \cap Index : l \notin cloneable
=============================================================================
