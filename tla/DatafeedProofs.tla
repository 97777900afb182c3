---------------------------- MODULE DatafeedProofs ----------------------------
(***************************************************************************)
(* Theorems about the history store (DatafeedStore) for every set of       *)
(* contracts, times, readers, counts and write calls and every content that*)
(* earlier runs may have left, and about the tool that fills it            *)
(* (NezipDump) for every set of labels, batch size and bound.              *)
(*                                                                         *)
(* DatafeedStore.  The keys are ordered, so that the records of a series   *)
(* are what lies between its first and its last key (Inside), and whoever  *)
(* walks from a place between the two stays there (NextInside, PrevInside).*)
(* On that rests the inductive invariant DatafeedInv:                      *)
(*   - StoreFramed: no step but cleanAll removes a first or a last key;    *)
(*   - WindowFramed: what the window lists is of series with these keys,   *)
(*     until cleanAll runs and then again once opened() has come;          *)
(*   - RowsInside: no row of a page is a first or a last key, so that the  *)
(*     del button cannot remove one;                                       *)
(*   - ReadsPassed: what a reader has given out is exactly what lies       *)
(*     between the place it started from and the place it has come to.     *)
(*     At the end of the loop that is what the request names, as long as   *)
(*     the series holds bars of one period only (PassedAll).               *)
(*                                                                         *)
(* NezipDump.  NothingVanishes is inductive with the types: a take splits a*)
(* list into what it hands out and what it leaves.  IndexFramed follows    *)
(* pushIndexData: before it has ended there are no bars, while it runs its *)
(* labels are done or still to do, and at its end all of them have their   *)
(* contract.                                                               *)
(***************************************************************************)
EXTENDS DatafeedStore, NezipDump, FiniteSetTheorems, WellFoundedInduction, TLAPS

-----------------------------------------------------------------------------
(* The order of keys *)

Box == Nat \X Nat \X Nat \X Nat

LEMMA Order ==
  ASSUME NEW a \in Box, NEW b \in Box, NEW c \in Box
  PROVE  /\ ~ Before(a, a)
         /\ Before(a, b) => ~ Before(b, a) /\ a # b
         /\ Before(a, b) /\ Before(b, c) => Before(a, c)
         /\ a = b \/ Before(a, b) \/ Before(b, a)
<1>1. ~ Before(a, a)
  BY DEF Before, Box
<1>2. Before(a, b) => ~ Before(b, a) /\ a # b
  BY DEF Before, Box
<1>3. Before(a, b) /\ Before(b, c) => Before(a, c)
  BY DEF Before, Box
<1>4. a = b \/ Before(a, b) \/ Before(b, a)
  <2>1. /\ a[1] \in Nat /\ a[2] \in Nat /\ a[3] \in Nat /\ a[4] \in Nat
        /\ b[1] \in Nat /\ b[2] \in Nat /\ b[3] \in Nat /\ b[4] \in Nat
    BY DEF Box
  <2>2. a[1] = b[1] /\ a[2] = b[2] /\ a[3] = b[3] /\ a[4] = b[4] => a = b
    BY DEF Box
  <2>3. QED  BY <2>1, <2>2 DEF Before
<1>5. QED  BY <1>1, <1>2, <1>3, <1>4

LEMMA EndNoKey == End \notin Box
  BY DEF End, Box

\* A set of natural numbers has a least one.
LEMMA NatMin ==
  ASSUME NEW T \in SUBSET Nat, T # {}
  PROVE  \E x \in T : \A y \in T : x <= y
<1>1. PICK x \in T : \A y \in T : ~ (<<y, x>> \in OpToRel(<, Nat))
  BY NatLessThanWellFounded, WFMin
<1>2. \A y \in T : ~ (y < x)
  BY <1>1 DEF OpToRel
<1>3. QED  BY <1>2

LEMMA LeastExists ==
  ASSUME NEW S \in SUBSET Box, IsFiniteSet(S), S # {}
  PROVE  \E i \in S : \A j \in S : UpTo(i, j)
<1> DEFINE Under(i) == {j \in S : Before(j, i)}
           Places == {Cardinality(Under(i)) : i \in S}
<1>1. \A i \in S : IsFiniteSet(Under(i)) /\ Cardinality(Under(i)) \in Nat
  BY FS_Subset, FS_CardinalityType
<1>2. PICK i \in S : \A j \in S : Cardinality(Under(i)) <= Cardinality(Under(j))
  <2>1. Places \in SUBSET Nat /\ Places # {}
    BY <1>1
  <2>2. PICK x \in Places : \A y \in Places : x <= y
    BY <2>1, NatMin
  <2>3. QED  BY <2>2
<1>3. ASSUME NEW j \in S, Before(j, i)
      PROVE  FALSE
  <2>1. Under(j) \subseteq Under(i) /\ j \in Under(i) /\ j \notin Under(j)
    BY <1>3, Order
  <2>2. Cardinality(Under(j)) <= Cardinality(Under(i)) /\ Cardinality(Under(j)) # Cardinality(Under(i))
    BY <1>1, <2>1, FS_Subset
  <2>3. Cardinality(Under(i)) \in Nat /\ Cardinality(Under(j)) \in Nat
    BY <1>1
  <2>4. Cardinality(Under(i)) <= Cardinality(Under(j))
    BY <1>2
  <2> HIDE DEF Under
  <2>5. QED  BY <2>2, <2>3, <2>4
<1>4. QED  BY <1>3, Order DEF UpTo

LEMMA GreatestExists ==
  ASSUME NEW S \in SUBSET Box, IsFiniteSet(S), S # {}
  PROVE  \E i \in S : \A j \in S : UpTo(j, i)
<1> DEFINE Over(i) == {j \in S : Before(i, j)}
           Places == {Cardinality(Over(i)) : i \in S}
<1>1. \A i \in S : IsFiniteSet(Over(i)) /\ Cardinality(Over(i)) \in Nat
  BY FS_Subset, FS_CardinalityType
<1>2. PICK i \in S : \A j \in S : Cardinality(Over(i)) <= Cardinality(Over(j))
  <2>1. Places \in SUBSET Nat /\ Places # {}
    BY <1>1
  <2>2. PICK x \in Places : \A y \in Places : x <= y
    BY <2>1, NatMin
  <2>3. QED  BY <2>2
<1>3. ASSUME NEW j \in S, Before(i, j)
      PROVE  FALSE
  <2>1. Over(j) \subseteq Over(i) /\ j \in Over(i) /\ j \notin Over(j)
    BY <1>3, Order
  <2>2. Cardinality(Over(j)) <= Cardinality(Over(i)) /\ Cardinality(Over(j)) # Cardinality(Over(i))
    BY <1>1, <2>1, FS_Subset
  <2>3. Cardinality(Over(i)) \in Nat /\ Cardinality(Over(j)) \in Nat
    BY <1>1
  <2>4. Cardinality(Over(i)) <= Cardinality(Over(j))
    BY <1>2
  <2> HIDE DEF Over
  <2>5. QED  BY <2>2, <2>3, <2>4
<1>4. QED  BY <1>3, Order DEF UpTo

LEMMA LeastIs ==
  ASSUME NEW S \in SUBSET Box, IsFiniteSet(S)
  PROVE  /\ S = {} => Least(S) = End
         /\ S # {} => Least(S) \in S /\ \A j \in S : UpTo(Least(S), j)
  BY LeastExists DEF Least

LEMMA GreatestIs ==
  ASSUME NEW S \in SUBSET Box, IsFiniteSet(S)
  PROVE  /\ S = {} => Greatest(S) = End
         /\ S # {} => Greatest(S) \in S /\ \A j \in S : UpTo(j, Greatest(S))
  BY GreatestExists DEF Greatest

-----------------------------------------------------------------------------
(* Keys and series *)

LEMMA Numbered ==
  /\ Last \in Nat /\ First = 0 /\ First < Last
  /\ \A c \in Contracts : c \in Nat /\ First < c /\ c < Last
  /\ \A t \in Times : t \in Nat /\ First < t /\ t < Letters /\ t < Last
  /\ Letters \in Int /\ Letters < Last
  BY LastAssumption DEF First, Letters

LEMMA PeriodNumbers ==
  /\ \A p \in Periods : PeriodText[p] \in 1 .. UnknownText
  /\ UnknownText = 3 /\ Bars = 1 /\ ContractTable = 2 /\ Ticks = 3
  BY DEF Periods, PeriodText, UnknownText, Bars, ContractTable, Ticks

LEMMA SeriesIs ==
  ASSUME NEW s \in AllSeries
  PROVE  /\ s = <<s[1], s[2], s[3]>>
         /\ s[1] \in 0 .. 3 /\ s[2] \in 0 .. Last /\ s[3] \in 0 .. 3
  BY Numbered, PeriodNumbers DEF AllSeries, ContractSeries, TickSeries, BarSeries

SmallBox == (0 .. 3) \X (0 .. Last) \X (0 .. 3) \X (0 .. Last)

LEMMA KeysSmall == Keys \subseteq SmallBox
<1>1. \A s \in AllSeries : FrameKeys(s) \subseteq SmallBox
  BY SeriesIs, Numbered DEF FrameKeys, FirstKey, LastKey, KeyOf, SmallBox
<1>2. \A c \in Contracts : ContractKey(c) \in SmallBox
  BY Numbered, PeriodNumbers DEF ContractKey, KeyOf, ContractSeries, SmallBox
<1>3. RecordKeys \subseteq SmallBox
  <2>1. \A c \in Contracts, t \in Times : TickKey(c, t) \in SmallBox
    BY Numbered, PeriodNumbers DEF TickKey, TickSeries, KeyOf, SmallBox
  <2>2. \A c \in Contracts, p \in Periods, t \in Times : BarKey(c, p, t) \in SmallBox
    BY Numbered, PeriodNumbers DEF BarKey, BarSeries, KeyOf, SmallBox
  <2>3. QED  BY <2>1, <2>2 DEF RecordKeys
<1>4. QED  BY <1>1, <1>2, <1>3 DEF Keys

LEMMA SmallIn == SmallBox \subseteq Box
  BY Numbered DEF SmallBox, Box

LEMMA SmallFinite == IsFiniteSet(SmallBox)
<1> DEFINE A == 0 .. 3
           B == 0 .. Last
           P == (A \X B) \X (A \X B)
           f == [x \in P |-> <<x[1][1], x[1][2], x[2][1], x[2][2]>>]
<1>1. IsFiniteSet(A) /\ IsFiniteSet(B)
  <2>1. 0 \in Int /\ 3 \in Int /\ Last \in Int
    BY Numbered
  <2>2. QED  BY <2>1, FS_Interval
<1>2. IsFiniteSet(A \X B)
  BY <1>1, FS_Product
<1>3. IsFiniteSet(P)
  BY <1>2, FS_Product
<1>4. f \in [P -> SmallBox]
  BY DEF SmallBox
<1>5. ASSUME NEW k \in SmallBox
      PROVE  \E x \in P : f[x] = k
  <2>1. k = <<k[1], k[2], k[3], k[4]>> /\ k[1] \in A /\ k[2] \in B /\ k[3] \in A /\ k[4] \in B
    BY DEF SmallBox
  <2>2. <<<<k[1], k[2]>>, <<k[3], k[4]>>>> \in P
    BY <2>1
  <2>3. f[<<<<k[1], k[2]>>, <<k[3], k[4]>>>>] = k
    BY <2>1, <2>2
  <2>4. QED  BY <2>2, <2>3
<1>6. f \in Surjection(P, SmallBox)
  BY <1>4, <1>5 DEF Surjection
<1>7. QED  BY <1>3, <1>6, FS_Surjection

LEMMA KeysFinite ==
  /\ Keys \subseteq Box
  /\ \A S \in SUBSET Keys : IsFiniteSet(S)
  BY KeysSmall, SmallIn, SmallFinite, FS_Subset

LEMMA Frames ==
  ASSUME NEW s \in AllSeries
  PROVE  /\ FirstKey(s) \in Keys /\ LastKey(s) \in Keys
         /\ FirstKey(s) \in Box /\ LastKey(s) \in Box
         /\ FirstKey(s)[4] = First /\ LastKey(s)[4] = Last
         /\ Before(FirstKey(s), LastKey(s))
<1>1. FirstKey(s) \in Keys /\ LastKey(s) \in Keys
  BY DEF Keys, FrameKeys
<1>2. FirstKey(s)[4] = First /\ LastKey(s)[4] = Last /\ First < Last
  <2>1. First < Last
    BY LastAssumption DEF First
  <2>2. QED  BY <2>1 DEF FirstKey, LastKey, KeyOf
<1>3. Before(FirstKey(s), LastKey(s))
  BY <1>2, SeriesIs DEF FirstKey, LastKey, KeyOf, Before
<1>4. QED  BY <1>1, <1>2, <1>3, KeysFinite

\* What lies between the first and the last key of a series is a record of it.
LEMMA Inside ==
  ASSUME NEW s \in AllSeries, NEW k \in Keys
  PROVE  InSeries(k, s) <=> Before(FirstKey(s), k) /\ Before(k, LastKey(s))
<1>1. /\ k[1] \in Int /\ k[2] \in Int /\ k[3] \in Int /\ k[4] \in 0 .. Last
      /\ s = <<s[1], s[2], s[3]>> /\ s[1] \in Int /\ s[2] \in Int /\ s[3] \in Int
      /\ First = 0 /\ Last \in Nat
  BY KeysSmall, SeriesIs, Numbered DEF SmallBox
<1>2. InSeries(k, s) <=>
        /\ k[1] = s[1] /\ k[2] = s[2] /\ k[3] = s[3] /\ k[4] # First /\ k[4] # Last
  BY <1>1 DEF InSeries
<1>3. Before(FirstKey(s), k) /\ Before(k, LastKey(s)) <=>
        /\ k[1] = s[1] /\ k[2] = s[2] /\ k[3] = s[3] /\ First < k[4] /\ k[4] < Last
  BY <1>1 DEF FirstKey, LastKey, KeyOf, Before
<1>4. QED  BY <1>1, <1>2, <1>3

LEMMA StoreIs ==
  ASSUME NEW store, StoreOK(store)
  PROVE  /\ DOMAIN store \subseteq Keys /\ DOMAIN store \subseteq Box
         /\ End \notin DOMAIN store
         /\ \A S \in SUBSET (DOMAIN store) : IsFiniteSet(S) /\ S \in SUBSET Box
<1>1. DOMAIN store \subseteq Keys
  BY DEF StoreOK
<1>2. QED  BY <1>1, KeysFinite, EndNoKey

LEMMA SeekIs ==
  ASSUME NEW store, StoreOK(store), NEW k
  PROVE  /\ Seek(store, k) \in DOMAIN store \cup {End}
         /\ Seek(store, k) # End => UpTo(k, Seek(store, k))
         /\ \A i \in DOMAIN store : UpTo(k, i) =>
              Seek(store, k) \in DOMAIN store /\ UpTo(Seek(store, k), i)
<1> DEFINE S == {i \in DOMAIN store : UpTo(k, i)}
<1>1. S \in SUBSET Box /\ IsFiniteSet(S)
  BY StoreIs
<1>2. CASE S = {}
  BY <1>1, <1>2, LeastIs DEF Seek
<1>3. CASE S # {}
  <2>1. Seek(store, k) \in S /\ \A j \in S : UpTo(Seek(store, k), j)
    BY <1>1, <1>3, LeastIs DEF Seek
  <2>2. QED  BY <2>1
<1>4. QED  BY <1>2, <1>3

LEMMA Next1Is ==
  ASSUME NEW store, StoreOK(store), NEW k \in DOMAIN store \cup {End}
  PROVE  /\ Next1(store, k) \in DOMAIN store \cup {End}
         /\ Next1(store, k) # End => k # End /\ Before(k, Next1(store, k))
         /\ k # End => \A i \in DOMAIN store : Before(k, i) =>
              Next1(store, k) \in DOMAIN store /\ UpTo(Next1(store, k), i)
<1> DEFINE S == {i \in DOMAIN store : Before(k, i)}
<1>1. S \in SUBSET Box /\ IsFiniteSet(S)
  BY StoreIs
<1>2. CASE k = End
  BY <1>2 DEF Next1
<1>3. CASE k # End /\ S = {}
  BY <1>1, <1>3, LeastIs DEF Next1
<1>4. CASE k # End /\ S # {}
  <2>1. Next1(store, k) \in S /\ \A j \in S : UpTo(Next1(store, k), j)
    BY <1>1, <1>4, LeastIs DEF Next1
  <2>2. QED  BY <1>4, <2>1
<1>5. QED  BY <1>2, <1>3, <1>4

LEMMA Prev1Is ==
  ASSUME NEW store, StoreOK(store), NEW k \in DOMAIN store \cup {End}
  PROVE  /\ Prev1(store, k) \in DOMAIN store \cup {End}
         /\ Prev1(store, k) # End => k # End /\ Before(Prev1(store, k), k)
         /\ k # End => \A i \in DOMAIN store : Before(i, k) =>
              Prev1(store, k) \in DOMAIN store /\ UpTo(i, Prev1(store, k))
<1> DEFINE S == {i \in DOMAIN store : Before(i, k)}
<1>1. S \in SUBSET Box /\ IsFiniteSet(S)
  BY StoreIs
<1>2. CASE k = End
  BY <1>2 DEF Prev1
<1>3. CASE k # End /\ S = {}
  BY <1>1, <1>3, GreatestIs DEF Prev1
<1>4. CASE k # End /\ S # {}
  <2>1. Prev1(store, k) \in S /\ \A j \in S : UpTo(j, Prev1(store, k))
    BY <1>1, <1>4, GreatestIs DEF Prev1
  <2>2. QED  BY <1>4, <2>1
<1>5. QED  BY <1>2, <1>3, <1>4

\* The items of a store, as far as its series are framed.
LEMMA FramedIs ==
  ASSUME NEW store, StoreOK(store), NEW s \in AllSeries, Framed(store, s)
  PROVE  /\ FirstKey(s) \in DOMAIN store /\ LastKey(s) \in DOMAIN store
         /\ store[FirstKey(s)] = "null" /\ store[LastKey(s)] = "null"
  BY Frames DEF Framed, FrameKeys, StoreOK, ItemOK

LEMMA RecordsHold ==
  ASSUME NEW store, StoreOK(store), NEW s, NEW k \in DOMAIN store, InSeries(k, s)
  PROVE  store[k] # "null"
  BY DEF StoreOK, ItemOK, InSeries

-----------------------------------------------------------------------------
(* The first and the last n of a set of keys *)

LEMMA FirstOfFew ==
  ASSUME NEW S \in SUBSET Box, IsFiniteSet(S), NEW n \in Nat, Cardinality(S) <= n
  PROVE  FirstOf(S, n) = S
<1>1. ASSUME NEW i \in S
      PROVE  Cardinality({j \in S : Before(j, i)}) < n
  <2> DEFINE T == {j \in S : Before(j, i)}
  <2>1. T \in SUBSET S /\ T # S
    BY Order
  <2>2. /\ Cardinality(T) \in Nat /\ Cardinality(S) \in Nat
        /\ Cardinality(T) <= Cardinality(S) /\ Cardinality(T) # Cardinality(S)
    BY <2>1, FS_Subset, FS_CardinalityType
  <2> HIDE DEF T
  <2>3. Cardinality(T) < n
    BY <2>2
  <2>4. QED  BY <2>3 DEF T
<1>2. QED  BY <1>1 DEF FirstOf

LEMMA LastOfFew ==
  ASSUME NEW S \in SUBSET Box, IsFiniteSet(S), NEW n \in Nat, Cardinality(S) <= n
  PROVE  LastOf(S, n) = S
<1>1. ASSUME NEW i \in S
      PROVE  Cardinality({j \in S : Before(i, j)}) < n
  <2> DEFINE T == {j \in S : Before(i, j)}
  <2>1. T \in SUBSET S /\ T # S
    BY Order
  <2>2. /\ Cardinality(T) \in Nat /\ Cardinality(S) \in Nat
        /\ Cardinality(T) <= Cardinality(S) /\ Cardinality(T) # Cardinality(S)
    BY <2>1, FS_Subset, FS_CardinalityType
  <2> HIDE DEF T
  <2>3. Cardinality(T) < n
    BY <2>2
  <2>4. QED  BY <2>3 DEF T
<1>2. QED  BY <1>1 DEF LastOf

\* The first n are those before a key when these are n.
LEMMA FirstOfBefore ==
  ASSUME NEW S \in SUBSET Box, IsFiniteSet(S), NEW k \in Box,
         NEW T, T = {i \in S : Before(i, k)}
  PROVE  FirstOf(S, Cardinality(T)) = T
<1> DEFINE Under(i) == {j \in S : Before(j, i)}
<1>1. IsFiniteSet(T) /\ Cardinality(T) \in Nat
  BY FS_Subset, FS_CardinalityType
<1>2. ASSUME NEW i \in T
      PROVE  Cardinality(Under(i)) < Cardinality(T)
  <2>1. Under(i) \in SUBSET T /\ Under(i) # T
    BY Order
  <2>2. /\ Cardinality(Under(i)) \in Nat
        /\ Cardinality(Under(i)) <= Cardinality(T) /\ Cardinality(Under(i)) # Cardinality(T)
    BY <1>1, <2>1, FS_Subset, FS_CardinalityType
  <2> HIDE DEF Under
  <2>3. QED  BY <1>1, <2>2
<1>3. ASSUME NEW i \in S, i \notin T
      PROVE  ~ (Cardinality(Under(i)) < Cardinality(T))
  <2>1. T \in SUBSET Under(i) /\ IsFiniteSet(Under(i))
    BY <1>3, Order, FS_Subset
  <2>2. Cardinality(Under(i)) \in Nat /\ Cardinality(T) <= Cardinality(Under(i))
    BY <2>1, FS_Subset, FS_CardinalityType
  <2> HIDE DEF Under
  <2>3. QED  BY <1>1, <2>2
<1>4. T \in SUBSET S
  OBVIOUS
<1>5. QED  BY <1>2, <1>3, <1>4 DEF FirstOf

LEMMA LastOfBehind ==
  ASSUME NEW S \in SUBSET Box, IsFiniteSet(S), NEW k \in Box,
         NEW T, T = {i \in S : Before(k, i)}
  PROVE  LastOf(S, Cardinality(T)) = T
<1> DEFINE Over(i) == {j \in S : Before(i, j)}
<1>1. IsFiniteSet(T) /\ Cardinality(T) \in Nat
  BY FS_Subset, FS_CardinalityType
<1>2. ASSUME NEW i \in T
      PROVE  Cardinality(Over(i)) < Cardinality(T)
  <2>1. Over(i) \in SUBSET T /\ Over(i) # T
    BY Order
  <2>2. /\ Cardinality(Over(i)) \in Nat
        /\ Cardinality(Over(i)) <= Cardinality(T) /\ Cardinality(Over(i)) # Cardinality(T)
    BY <1>1, <2>1, FS_Subset, FS_CardinalityType
  <2> HIDE DEF Over
  <2>3. QED  BY <1>1, <2>2
<1>3. ASSUME NEW i \in S, i \notin T
      PROVE  ~ (Cardinality(Over(i)) < Cardinality(T))
  <2>1. T \in SUBSET Over(i) /\ IsFiniteSet(Over(i))
    BY <1>3, Order, FS_Subset
  <2>2. Cardinality(Over(i)) \in Nat /\ Cardinality(T) <= Cardinality(Over(i))
    BY <2>1, FS_Subset, FS_CardinalityType
  <2> HIDE DEF Over
  <2>3. QED  BY <1>1, <2>2
<1>4. T \in SUBSET S
  OBVIOUS
<1>5. QED  BY <1>2, <1>3, <1>4 DEF LastOf

\* The first one is the one that no other is before.
LEMMA FirstOfOne ==
  ASSUME NEW S \in SUBSET Box, IsFiniteSet(S)
  PROVE  FirstOf(S, 1) = {i \in S : \A j \in S : UpTo(i, j)}
<1>1. ASSUME NEW i \in S
      PROVE  Cardinality({j \in S : Before(j, i)}) < 1 <=> \A j \in S : UpTo(i, j)
  <2> DEFINE T == {j \in S : Before(j, i)}
  <2>1. IsFiniteSet(T) /\ Cardinality(T) \in Nat
    BY FS_Subset, FS_CardinalityType
  <2>2. Cardinality(T) = 0 <=> T = {}
    BY <2>1, FS_EmptySet
  <2>3. T = {} <=> \A j \in S : UpTo(i, j)
    BY Order DEF UpTo
  <2>4. Cardinality(T) < 1 <=> Cardinality(T) = 0
    <3> HIDE DEF T
    <3>1. QED  BY <2>1
  <2>5. QED  BY <2>2, <2>3, <2>4
<1>2. QED  BY <1>1 DEF FirstOf

\* The last n of a set with one more key behind all of it.
LEMMA LastOfOneMore ==
  ASSUME NEW S \in SUBSET Box, IsFiniteSet(S), NEW m \in Box, \A k \in S : Before(k, m),
         NEW n \in Nat
  PROVE  /\ n = 0 => LastOf(S \cup {m}, n) = {} /\ LastOf(S, n) = {}
         /\ n # 0 => LastOf(S \cup {m}, n) = {m} \cup LastOf(S, n - 1)
<1> DEFINE Over(i) == {j \in S : Before(i, j)}
           Behind(i) == {j \in S \cup {m} : Before(i, j)}
<1>1. m \notin S /\ Behind(m) = {}
  BY Order
<1>2. Cardinality(Behind(m)) = 0
  BY <1>1, FS_EmptySet
<1>3. ASSUME NEW i \in S
      PROVE  /\ Cardinality(Over(i)) \in Nat
             /\ Cardinality(Behind(i)) = Cardinality(Over(i)) + 1
  <2>1. Behind(i) = Over(i) \cup {m} /\ m \notin Over(i) /\ IsFiniteSet(Over(i))
    BY <1>1, FS_Subset
  <2> HIDE DEF Behind, Over
  <2>2. QED  BY <2>1, FS_AddElement, FS_CardinalityType
<1>4. LastOf(S \cup {m}, n) = {i \in S \cup {m} : Cardinality(Behind(i)) < n}
  BY DEF LastOf
<1>5. \A x : LastOf(S, x) = {i \in S : Cardinality(Over(i)) < x}
  BY DEF LastOf
<1> HIDE DEF Behind, Over
<1>6. ASSUME n = 0
      PROVE  LastOf(S \cup {m}, n) = {} /\ LastOf(S, n) = {}
  <2>1. \A i \in S : ~ (Cardinality(Behind(i)) < n) /\ ~ (Cardinality(Over(i)) < n)
    BY <1>3, <1>6
  <2>2. ~ (Cardinality(Behind(m)) < n)
    BY <1>2, <1>6
  <2>3. QED  BY <1>4, <1>5, <2>1, <2>2
<1>7. ASSUME n # 0
      PROVE  LastOf(S \cup {m}, n) = {m} \cup LastOf(S, n - 1)
  <2>1. \A i \in S : Cardinality(Behind(i)) < n <=> Cardinality(Over(i)) < n - 1
    BY <1>3
  <2>2. Cardinality(Behind(m)) < n
    BY <1>2, <1>7
  <2>3. QED  BY <1>4, <1>5, <2>1, <2>2
<1>8. QED  BY <1>6, <1>7

-----------------------------------------------------------------------------
(* A read over a framed series *)

LEMMA TimeKey ==
  ASSUME NEW s \in AllSeries, NEW t \in Times
  PROVE  /\ KeyOf(s, t) \in Box
         /\ Before(FirstKey(s), KeyOf(s, t)) /\ Before(KeyOf(s, t), LastKey(s))
<1>1. t \in Nat /\ First < t /\ t < Last /\ First \in Nat /\ Last \in Nat
  BY Numbered
<1>2. s[1] \in Nat /\ s[2] \in Nat /\ s[3] \in Nat
  BY SeriesIs, Numbered
<1>3. QED  BY <1>1, <1>2 DEF KeyOf, FirstKey, LastKey, Before, Box

\* The steps of an iterator between the frames.
LEMMA NextInside ==
  ASSUME NEW store, StoreOK(store), NEW s \in AllSeries, Framed(store, s),
         NEW k \in DOMAIN store, Before(k, LastKey(s))
  PROVE  /\ Next1(store, k) \in DOMAIN store
         /\ Before(k, Next1(store, k)) /\ UpTo(Next1(store, k), LastKey(s))
         /\ \A i \in DOMAIN store : Before(i, Next1(store, k)) => UpTo(i, k)
<1>1. LastKey(s) \in DOMAIN store /\ k # End /\ End \notin DOMAIN store
  BY FramedIs, StoreIs
<1>2. Next1(store, k) \in DOMAIN store /\ UpTo(Next1(store, k), LastKey(s))
  BY <1>1, Next1Is
<1>3. Before(k, Next1(store, k))
  BY <1>1, <1>2, Next1Is
<1>4. ASSUME NEW i \in DOMAIN store, Before(i, Next1(store, k)), ~ UpTo(i, k)
      PROVE  FALSE
  <2>1. i \in Box /\ k \in Box /\ Next1(store, k) \in Box
    BY <1>2, StoreIs
  <2>2. Before(k, i)
    BY <1>4, <2>1, Order DEF UpTo
  <2>3. UpTo(Next1(store, k), i)
    BY <1>1, <2>2, Next1Is
  <2>4. QED  BY <1>4, <2>1, <2>3, Order DEF UpTo
<1>5. QED  BY <1>2, <1>3, <1>4

LEMMA PrevInside ==
  ASSUME NEW store, StoreOK(store), NEW s \in AllSeries, Framed(store, s),
         NEW k \in DOMAIN store, Before(FirstKey(s), k)
  PROVE  /\ Prev1(store, k) \in DOMAIN store
         /\ Before(Prev1(store, k), k) /\ UpTo(FirstKey(s), Prev1(store, k))
         /\ \A i \in DOMAIN store : Before(Prev1(store, k), i) => UpTo(k, i)
<1>1. FirstKey(s) \in DOMAIN store /\ k # End /\ End \notin DOMAIN store
  BY FramedIs, StoreIs
<1>2. Prev1(store, k) \in DOMAIN store /\ UpTo(FirstKey(s), Prev1(store, k))
  BY <1>1, Prev1Is
<1>3. Before(Prev1(store, k), k)
  BY <1>1, <1>2, Prev1Is
<1>4. ASSUME NEW i \in DOMAIN store, Before(Prev1(store, k), i), ~ UpTo(k, i)
      PROVE  FALSE
  <2>1. i \in Box /\ k \in Box /\ Prev1(store, k) \in Box
    BY <1>2, StoreIs
  <2>2. Before(i, k)
    BY <1>4, <2>1, Order DEF UpTo
  <2>3. UpTo(i, Prev1(store, k))
    BY <1>1, <2>2, Prev1Is
  <2>4. QED  BY <1>4, <2>1, <2>3, Order DEF UpTo
<1>5. QED  BY <1>2, <1>3, <1>4

LEMMA SeekInside ==
  ASSUME NEW store, StoreOK(store), NEW s \in AllSeries, Framed(store, s),
         NEW k \in Box, UpTo(k, LastKey(s))
  PROVE  /\ Seek(store, k) \in DOMAIN store
         /\ UpTo(k, Seek(store, k)) /\ UpTo(Seek(store, k), LastKey(s))
         /\ \A i \in DOMAIN store : Before(i, Seek(store, k)) => Before(i, k)
<1>1. LastKey(s) \in DOMAIN store /\ End \notin DOMAIN store
  BY FramedIs, StoreIs
<1>2. Seek(store, k) \in DOMAIN store /\ UpTo(Seek(store, k), LastKey(s))
  BY <1>1, SeekIs
<1>3. UpTo(k, Seek(store, k))
  BY <1>1, <1>2, SeekIs
<1>4. ASSUME NEW i \in DOMAIN store, Before(i, Seek(store, k)), ~ Before(i, k)
      PROVE  FALSE
  <2>1. i \in Box /\ Seek(store, k) \in Box
    BY <1>2, StoreIs
  <2>2. UpTo(k, i)
    BY <1>4, <2>1, Order DEF UpTo
  <2>3. UpTo(Seek(store, k), i)
    BY <1>1, <2>2, SeekIs
  <2>4. QED  BY <1>4, <2>1, <2>3, Order DEF UpTo
<1>5. QED  BY <1>2, <1>3, <1>4

\* What a read has passed so far.
Records(g) == RecordsOf(g.snap, g.series)
Older(g) == {k \in Records(g) : Before(k, g.from)}
Newer(g) == Records(g) \ Older(g)
Near(g) == Older(g) \cup FirstOf(Newer(g), 1)

PassedBack(g) ==
  /\ g.from \in {KeyOf(g.series, t) : t \in Times}
  /\ g.at \in {FirstKey(g.series), LastKey(g.series)} \cup Near(g)
  /\ g.at = LastKey(g.series) => Newer(g) = {}
  /\ g.out = {k \in Near(g) : Before(g.at, k)}
  /\ Cardinality(g.out) <= g.count
PassedForward(g) ==
  /\ g.from \in {KeyOf(g.series, t) : t \in Times}
  /\ g.at \in {LastKey(g.series)} \cup Newer(g)
  /\ g.out = {k \in Newer(g) : Before(k, g.at)}
  /\ Cardinality(g.out) <= g.count
PassedWindow(g) ==
  /\ g.from \in {KeyOf(g.series, t) : t \in Times}
  /\ g.at \in {LastKey(g.series)} \cup Newer(g)
  /\ g.out = {k \in Newer(g) : Before(k, g.at)}
  /\ \A k \in g.out : UpTo(k, g.to)
  /\ g.to \in Box
PassedContracts(g) ==
  /\ g.at \in {LastKey(g.series)} \cup Records(g)
  /\ g.out = {k \in Records(g) : Before(k, g.at)}
Passed(g) ==
  /\ g.loop = "back" => PassedBack(g)
  /\ g.loop = "forward" => PassedForward(g)
  /\ g.loop = "window" => PassedWindow(g)
  /\ g.loop = "contracts" => PassedContracts(g)

LEMMA ReadIs ==
  ASSUME NEW g, ReadOK(g), g # NoRead, Framed(g.snap, g.series)
  PROVE  /\ g.series \in AllSeries /\ StoreOK(g.snap)
         /\ DOMAIN g.snap \subseteq Box /\ End \notin DOMAIN g.snap
         /\ FirstKey(g.series) \in DOMAIN g.snap /\ LastKey(g.series) \in DOMAIN g.snap
         /\ \A k \in DOMAIN g.snap : k \in Records(g) <=>
              Before(FirstKey(g.series), k) /\ Before(k, LastKey(g.series))
         /\ Records(g) \subseteq DOMAIN g.snap
         /\ Older(g) \subseteq Records(g) /\ Newer(g) \subseteq Records(g)
         /\ Near(g) \subseteq Records(g)
         /\ \A S \in SUBSET Records(g) : IsFiniteSet(S) /\ S \in SUBSET Box
<1>1. g.series \in AllSeries /\ StoreOK(g.snap)
  BY DEF ReadOK
<1>2. DOMAIN g.snap \subseteq Keys /\ DOMAIN g.snap \subseteq Box /\ End \notin DOMAIN g.snap
  BY <1>1, StoreIs
<1>3. Records(g) \subseteq DOMAIN g.snap
  BY DEF Records, RecordsOf
<1>4. /\ Older(g) \subseteq Records(g) /\ Newer(g) \subseteq Records(g)
      /\ Near(g) \subseteq Records(g)
  BY DEF Older, Newer, Near, FirstOf
<1>5. \A S \in SUBSET Records(g) : IsFiniteSet(S) /\ S \in SUBSET Box
  BY <1>1, <1>3, StoreIs
<1>6. \A k \in DOMAIN g.snap : k \in Records(g) <=>
              Before(FirstKey(g.series), k) /\ Before(k, LastKey(g.series))
  BY <1>1, <1>2, Inside DEF Records, RecordsOf
<1>7. QED  BY <1>1, <1>2, <1>3, <1>4, <1>5, <1>6, FramedIs

LEMMA TurnedIs ==
  ASSUME NEW g, ReadOK(g), g # NoRead
  PROVE  /\ DOMAIN Turned(g) = DOMAIN g
         /\ Turned(g).loop = g.loop /\ Turned(g).series = g.series /\ Turned(g).from = g.from
         /\ Turned(g).to = g.to /\ Turned(g).count = g.count /\ Turned(g).snap = g.snap
         /\ Turned(g).period = g.period
         /\ Records(Turned(g)) = Records(g) /\ Older(Turned(g)) = Older(g)
         /\ Newer(Turned(g)) = Newer(g) /\ Near(Turned(g)) = Near(g)
         /\ Turned(g).at = IF g.loop = "back" THEN Prev1(g.snap, g.at) ELSE Next1(g.snap, g.at)
         /\ Turned(g).out = IF Skips(g) THEN g.out ELSE g.out \cup {g.at}
<1>1. DOMAIN g = {"loop", "series", "period", "from", "to", "count", "snap", "at", "out"}
  BY DEF ReadOK
<1>2. /\ DOMAIN Turned(g) = DOMAIN g
      /\ Turned(g).loop = g.loop /\ Turned(g).series = g.series /\ Turned(g).from = g.from
      /\ Turned(g).to = g.to /\ Turned(g).count = g.count /\ Turned(g).snap = g.snap
      /\ Turned(g).period = g.period
  BY <1>1 DEF Turned
<1>3. /\ Turned(g).at = IF g.loop = "back" THEN Prev1(g.snap, g.at) ELSE Next1(g.snap, g.at)
      /\ Turned(g).out = IF Skips(g) THEN g.out ELSE g.out \cup {g.at}
  BY <1>1 DEF Turned
<1>4. QED  BY <1>2, <1>3 DEF Records, Older, Newer, Near

\* One more key in a set that is not full.
LEMMA OneMore ==
  ASSUME NEW S, IsFiniteSet(S), NEW k, NEW n \in Nat,
         Cardinality(S) <= n, ~ (Cardinality(S) >= n)
  PROVE  Cardinality(S \cup {k}) <= n
  BY FS_AddElement, FS_CardinalityType

LEMMA StepBack ==
  ASSUME NEW g, ReadOK(g), g # NoRead, Framed(g.snap, g.series), g.loop = "back",
         PassedBack(g), ~ EndsBack(g)
  PROVE  PassedBack(Turned(g))
<1> DEFINE F == FirstKey(g.series)
           L == LastKey(g.series)
           at == g.at
           pos == Prev1(g.snap, g.at)
           h == Turned(g)
<1>1. /\ at # End /\ at # F /\ ~ (Cardinality(g.out) >= g.count) /\ g.count \in Nat
  BY DEF EndsBack, Full, ReadOK
<1>2. at \in {L} \cup Near(g) /\ at \in DOMAIN g.snap /\ at \in Box /\ F \in Box /\ L \in Box
  BY <1>1, ReadIs DEF PassedBack
<1>3. Before(F, at) /\ UpTo(at, L)
  BY <1>2, ReadIs, Frames DEF UpTo
<1>4. /\ pos \in DOMAIN g.snap /\ pos \in Box /\ Before(pos, at) /\ UpTo(F, pos)
      /\ \A i \in DOMAIN g.snap : Before(pos, i) => UpTo(at, i)
  BY <1>2, <1>3, PrevInside, ReadIs
<1>5. /\ h.at = pos /\ h.out = (IF at = L THEN g.out ELSE g.out \cup {at})
      /\ h.from = g.from /\ h.series = g.series /\ h.count = g.count
      /\ Newer(h) = Newer(g) /\ Near(h) = Near(g)
  BY TurnedIs DEF Skips
<1>6. pos # L
  <2>1. Before(pos, L)
    BY <1>2, <1>3, <1>4, Order DEF UpTo
  <2>2. QED  BY <1>2, <2>1, Order
<1>7. pos = F \/ pos \in Records(g)
  <2>1. Before(pos, L)
    BY <1>2, <1>3, <1>4, Order DEF UpTo
  <2>2. QED  BY <1>4, <2>1, ReadIs DEF UpTo
<1>8. pos \in {F} \cup Near(g)
  <2>1. CASE at = L
    <3>1. Newer(g) = {}
      BY <2>1 DEF PassedBack
    <3>2. QED  BY <1>7, <3>1 DEF Newer, Near
  <2>2. CASE at \in Older(g) /\ pos \in Records(g)
    <3>1. Before(at, g.from) /\ g.from \in Box
      BY <2>2, TimeKey, ReadIs DEF Older, PassedBack
    <3>2. Before(pos, g.from)
      BY <1>2, <1>4, <3>1, Order
    <3>3. QED  BY <2>2, <3>2 DEF Older, Near
  <2>3. CASE at \in FirstOf(Newer(g), 1) /\ pos \in Records(g)
    <3>1. \A j \in Newer(g) : UpTo(at, j)
      BY <2>3, ReadIs, FirstOfOne
    <3>2. pos \notin Newer(g)
      BY <1>2, <1>4, <3>1, Order DEF UpTo
    <3>3. QED  BY <2>3, <3>2 DEF Newer, Near
  <2>4. QED  BY <1>2, <1>7, <2>1, <2>2, <2>3 DEF Near
<1>9. h.out = {k \in Near(g) : Before(pos, k)}
  <2>1. \A k \in Near(g) : k \in DOMAIN g.snap /\ k \in Box
    BY ReadIs
  <2>2. \A k \in Near(g) : Before(pos, k) <=> k = at \/ Before(at, k)
    BY <1>2, <1>4, <2>1, Order DEF UpTo
  <2>3. g.out = {k \in Near(g) : Before(at, k)}
    BY DEF PassedBack
  <2>4. L \notin Near(g)
    <3>1. \A k \in Near(g) : Before(k, L)
      BY <2>1, ReadIs
    <3>2. QED  BY <1>2, <3>1, Order
  <2>5. QED  BY <1>2, <1>5, <2>2, <2>3, <2>4
<1>10. Cardinality(h.out) <= g.count
  <2>1. g.out \in SUBSET Records(g) /\ Cardinality(g.out) <= g.count
    BY ReadIs DEF PassedBack
  <2>2. IsFiniteSet(g.out)
    BY <2>1, ReadIs
  <2>3. QED  BY <1>1, <1>5, <2>1, <2>2, OneMore
<1>11. h.from \in {KeyOf(h.series, t) : t \in Times}
  BY <1>5 DEF PassedBack
<1>12. QED  BY <1>5, <1>6, <1>8, <1>9, <1>10, <1>11 DEF PassedBack

\* The three loops that go forward.
LEMMA StepOn ==
  ASSUME NEW g, ReadOK(g), g # NoRead, Framed(g.snap, g.series), g.loop # "back",
         NEW S \in SUBSET Records(g), g.at \in S,
         g.out = {k \in S : Before(k, g.at)},
         \A k \in Records(g) : Before(g.at, k) => k \in S
  PROVE  /\ Turned(g).at \in {LastKey(g.series)} \cup S
         /\ Turned(g).out = {k \in S : Before(k, Turned(g).at)}
         /\ Turned(g).out = g.out \cup {g.at}
         /\ \A k \in Records(g) : Before(Turned(g).at, k) => k \in S
<1> DEFINE F == FirstKey(g.series)
           L == LastKey(g.series)
           at == g.at
           pos == Next1(g.snap, g.at)
           h == Turned(g)
<1>1. /\ at \in DOMAIN g.snap /\ at \in Box /\ Before(F, at) /\ Before(at, L)
      /\ F \in Box /\ L \in Box /\ L \in DOMAIN g.snap
  BY ReadIs
<1>2. /\ pos \in DOMAIN g.snap /\ pos \in Box /\ Before(at, pos) /\ UpTo(pos, L)
      /\ \A i \in DOMAIN g.snap : Before(i, pos) => UpTo(i, at)
  BY <1>1, NextInside, ReadIs
<1>3. h.at = pos /\ h.out = g.out \cup {at}
  <2>1. at # F
    BY <1>1, Order
  <2>2. QED  BY <2>1, TurnedIs DEF Skips
<1>4. pos \in {L} \cup S
  <2>1. Before(F, pos)
    BY <1>1, <1>2, Order
  <2>2. pos = L \/ pos \in Records(g)
    BY <1>2, <2>1, ReadIs DEF UpTo
  <2>3. QED  BY <1>2, <2>2
<1>5. \A k \in S : k \in DOMAIN g.snap /\ k \in Box
  BY ReadIs
<1>6. \A k \in S : Before(k, pos) <=> k = at \/ Before(k, at)
  BY <1>1, <1>2, <1>5, Order DEF UpTo
<1>7. \A k \in Records(g) : Before(pos, k) => k \in S
  <2>1. \A k \in Records(g) : k \in Box
    BY ReadIs
  <2>2. QED  BY <1>1, <1>2, <2>1, Order
<1>8. QED  BY <1>3, <1>4, <1>6, <1>7

\* Behind a newer record all are newer.
LEMMA NewerBehind ==
  ASSUME NEW g, ReadOK(g), g # NoRead, Framed(g.snap, g.series),
         g.from \in {KeyOf(g.series, t) : t \in Times}, g.at \in Newer(g)
  PROVE  \A k \in Records(g) : Before(g.at, k) => k \in Newer(g)
<1>1. /\ g.from \in Box /\ g.at \in Box /\ g.at \in Records(g)
      /\ \A k \in Records(g) : k \in Box
  BY ReadIs, TimeKey
<1>2. ~ Before(g.at, g.from)
  BY DEF Newer, Older
<1>3. ASSUME NEW k \in Records(g), Before(g.at, k)
      PROVE  k \in Newer(g)
  <2>1. ~ Before(k, g.from)
    BY <1>1, <1>2, <1>3, Order
  <2>2. QED  BY <2>1 DEF Newer, Older
<1>4. QED  BY <1>3

LEMMA StepForward ==
  ASSUME NEW g, ReadOK(g), g # NoRead, Framed(g.snap, g.series), g.loop = "forward",
         PassedForward(g), ~ EndsForward(g)
  PROVE  PassedForward(Turned(g))
<1>1. g.at \in Newer(g) /\ ~ (Cardinality(g.out) >= g.count) /\ g.count \in Nat
  BY DEF PassedForward, EndsForward, Full, ReadOK
<1>2. Newer(g) \in SUBSET Records(g) /\ g.out \in SUBSET Records(g)
  BY ReadIs DEF PassedForward
<1>3. /\ Turned(g).at \in {LastKey(g.series)} \cup Newer(g)
      /\ Turned(g).out = {k \in Newer(g) : Before(k, Turned(g).at)}
      /\ Turned(g).out = g.out \cup {g.at}
  BY <1>1, <1>2, NewerBehind, StepOn DEF PassedForward
<1>4. Cardinality(Turned(g).out) <= g.count
  <2>1. IsFiniteSet(g.out) /\ Cardinality(g.out) <= g.count
    BY <1>2, ReadIs DEF PassedForward
  <2>2. QED  BY <1>1, <1>3, <2>1, OneMore
<1>5. QED  BY <1>3, <1>4, TurnedIs DEF PassedForward

LEMMA StepWindow ==
  ASSUME NEW g, ReadOK(g), g # NoRead, Framed(g.snap, g.series), g.loop = "window",
         PassedWindow(g), ~ EndsWindow(g)
  PROVE  PassedWindow(Turned(g))
<1>1. g.at \in Newer(g)
  BY DEF PassedWindow, EndsWindow
<1>2. Newer(g) \in SUBSET Records(g)
  BY ReadIs
<1>3. /\ Turned(g).at \in {LastKey(g.series)} \cup Newer(g)
      /\ Turned(g).out = {k \in Newer(g) : Before(k, Turned(g).at)}
      /\ Turned(g).out = g.out \cup {g.at}
  BY <1>1, <1>2, NewerBehind, StepOn DEF PassedWindow
<1>4. UpTo(g.at, g.to)
  <2>1. g.at # FirstKey(g.series)
    BY <1>1, <1>2, ReadIs, Order
  <2>2. QED  BY <2>1 DEF EndsWindow
<1>5. QED  BY <1>3, <1>4, TurnedIs DEF PassedWindow

LEMMA StepContracts ==
  ASSUME NEW g, ReadOK(g), g # NoRead, Framed(g.snap, g.series), g.loop = "contracts",
         PassedContracts(g), ~ EndsContracts(g)
  PROVE  PassedContracts(Turned(g))
<1>1. g.at \in Records(g)
  BY ReadIs, FramedIs DEF PassedContracts, EndsContracts
<1>2. /\ Turned(g).at \in {LastKey(g.series)} \cup Records(g)
      /\ Turned(g).out = {k \in Records(g) : Before(k, Turned(g).at)}
  BY <1>1, StepOn DEF PassedContracts
<1>3. QED  BY <1>2, TurnedIs DEF PassedContracts

\* A turn of its loop leaves a read with what it has passed.
LEMMA PassedStep ==
  ASSUME NEW g, ReadOK(g), g # NoRead, Framed(g.snap, g.series), Passed(g), ~ Ends(g)
  PROVE  Passed(Turned(g))
<1>1. g.loop \in {"back", "forward", "window", "contracts"} /\ Turned(g).loop = g.loop
  BY TurnedIs DEF ReadOK
<1>2. CASE g.loop = "back"
  BY <1>1, <1>2, StepBack DEF Passed, Ends
<1>3. CASE g.loop = "forward"
  BY <1>1, <1>3, StepForward DEF Passed, Ends
<1>4. CASE g.loop = "window"
  BY <1>1, <1>4, StepWindow DEF Passed, Ends
<1>5. CASE g.loop = "contracts"
  BY <1>1, <1>5, StepContracts DEF Passed, Ends
<1>6. QED  BY <1>1, <1>2, <1>3, <1>4, <1>5

LEMMA PassedInSeries ==
  ASSUME NEW g, ReadOK(g), g # NoRead, Framed(g.snap, g.series), Passed(g)
  PROVE  \A k \in g.out : InSeries(k, g.series)
<1>1. g.out \subseteq Records(g)
  BY ReadIs DEF Passed, PassedBack, PassedForward, PassedWindow, PassedContracts, ReadOK
<1>2. QED  BY <1>1 DEF Records, RecordsOf

LEMMA EndBack ==
  ASSUME NEW g, ReadOK(g), g # NoRead, Framed(g.snap, g.series), g.loop = "back",
         PassedBack(g), EndsBack(g)
  PROVE  g.out = LastOf(Near(g), g.count)
<1>1. /\ Near(g) \in SUBSET Box /\ IsFiniteSet(Near(g)) /\ g.count \in Nat
      /\ g.at \in Box /\ g.at # End /\ g.out \subseteq Near(g)
      /\ IsFiniteSet(g.out) /\ Cardinality(g.out) \in Nat
  <2>1. /\ Near(g) \in SUBSET Box /\ IsFiniteSet(Near(g))
        /\ g.at \in DOMAIN g.snap /\ g.out \subseteq Near(g)
    BY ReadIs DEF PassedBack
  <2>2. IsFiniteSet(g.out) /\ Cardinality(g.out) \in Nat
    BY <2>1, FS_Subset, FS_CardinalityType
  <2>3. QED  BY <2>1, <2>2, ReadIs DEF ReadOK
<1>2. CASE Full(g)
  <2>1. Cardinality(g.out) = g.count
    BY <1>1, <1>2 DEF Full, PassedBack
  <2>2. LastOf(Near(g), Cardinality(g.out)) = g.out
    BY <1>1, LastOfBehind DEF PassedBack
  <2>3. QED  BY <2>1, <2>2
<1>3. CASE g.at = FirstKey(g.series)
  <2>1. g.out = Near(g)
    BY <1>3, ReadIs DEF PassedBack
  <2>2. LastOf(Near(g), g.count) = Near(g)
    BY <1>1, <2>1, LastOfFew DEF PassedBack
  <2>3. QED  BY <2>1, <2>2
<1>4. QED  BY <1>1, <1>2, <1>3 DEF EndsBack

LEMMA EndForward ==
  ASSUME NEW g, ReadOK(g), g # NoRead, Framed(g.snap, g.series), g.loop = "forward",
         PassedForward(g), EndsForward(g)
  PROVE  g.out = FirstOf(Newer(g), g.count)
<1>1. /\ Newer(g) \in SUBSET Box /\ IsFiniteSet(Newer(g)) /\ g.count \in Nat
      /\ g.at \in Box /\ g.at # End /\ g.out \subseteq Newer(g)
      /\ IsFiniteSet(g.out) /\ Cardinality(g.out) \in Nat
  <2>1. /\ Newer(g) \in SUBSET Box /\ IsFiniteSet(Newer(g))
        /\ g.at \in DOMAIN g.snap /\ g.out \subseteq Newer(g)
    BY ReadIs DEF PassedForward
  <2>2. IsFiniteSet(g.out) /\ Cardinality(g.out) \in Nat
    BY <2>1, FS_Subset, FS_CardinalityType
  <2>3. QED  BY <2>1, <2>2, ReadIs DEF ReadOK
<1>2. CASE Full(g)
  <2>1. Cardinality(g.out) = g.count
    BY <1>1, <1>2 DEF Full, PassedForward
  <2>2. FirstOf(Newer(g), Cardinality(g.out)) = g.out
    BY <1>1, FirstOfBefore DEF PassedForward
  <2>3. QED  BY <2>1, <2>2
<1>3. CASE g.at = LastKey(g.series)
  <2>1. g.out = Newer(g)
    BY <1>3, ReadIs DEF PassedForward
  <2>2. FirstOf(Newer(g), g.count) = Newer(g)
    BY <1>1, <2>1, FirstOfFew DEF PassedForward
  <2>3. QED  BY <2>1, <2>2
<1>4. QED  BY <1>1, <1>2, <1>3 DEF EndsForward

LEMMA EndWindow ==
  ASSUME NEW g, ReadOK(g), g # NoRead, Framed(g.snap, g.series), g.loop = "window",
         PassedWindow(g), EndsWindow(g)
  PROVE  g.out = {k \in Newer(g) : UpTo(k, g.to)}
<1>1. /\ g.at \in Box /\ g.at # End /\ g.to \in Box /\ \A k \in Newer(g) : k \in Box
  <2>1. g.at \in DOMAIN g.snap /\ g.to \in Box
    BY ReadIs DEF PassedWindow
  <2>2. QED  BY <2>1, ReadIs
<1>2. CASE g.at = LastKey(g.series)
  <2>1. g.out = Newer(g)
    BY <1>2, ReadIs DEF PassedWindow
  <2>2. QED  BY <2>1 DEF PassedWindow
<1>3. CASE ~ UpTo(g.at, g.to)
  <2>1. \A k \in Newer(g) : UpTo(k, g.to) => Before(k, g.at)
    BY <1>1, <1>3, Order DEF UpTo
  <2>2. QED  BY <2>1 DEF PassedWindow
<1>4. QED  BY <1>1, <1>2, <1>3 DEF EndsWindow

LEMMA EndContracts ==
  ASSUME NEW g, ReadOK(g), g # NoRead, Framed(g.snap, g.series), g.loop = "contracts",
         PassedContracts(g), EndsContracts(g)
  PROVE  g.out = Records(g)
<1>1. g.at = LastKey(g.series)
  <2>1. \A k \in Records(g) : g.snap[k] # "null" /\ k # End
    BY ReadIs, RecordsHold DEF Records, RecordsOf
  <2>2. g.at # End
    BY <2>1, ReadIs DEF PassedContracts
  <2>3. QED  BY <2>1, <2>2 DEF PassedContracts, EndsContracts
<1>2. QED  BY <1>1, ReadIs DEF PassedContracts

\* The newer records are those from the cut-off on, the older ones those before it.
LEMMA NewerIs ==
  ASSUME NEW g, ReadOK(g), g # NoRead, Framed(g.snap, g.series),
         g.from \in {KeyOf(g.series, t) : t \in Times}
  PROVE  /\ g.from \in Box
         /\ Newer(g) = {k \in Records(g) : UpTo(g.from, k)}
         /\ Records(g) = Older(g) \cup Newer(g)
         /\ g.from \notin Records(g) => {k \in Records(g) : UpTo(k, g.from)} = Older(g)
         /\ g.from \in Records(g) =>
              {k \in Records(g) : UpTo(k, g.from)} = Older(g) \cup {g.from}
<1>1. g.from \in Box /\ \A k \in Records(g) : k \in Box
  BY TimeKey, ReadIs
<1>2. \A k \in Records(g) : ~ Before(k, g.from) <=> UpTo(g.from, k)
  BY <1>1, Order DEF UpTo
<1>3. Newer(g) = {k \in Records(g) : UpTo(g.from, k)}
  BY <1>2 DEF Newer, Older
<1>4. QED  BY <1>1, <1>3 DEF Newer, Older, UpTo

\* A read of the newest count records, with the record behind the cut-off that it may give.
LEMMA BackGives ==
  ASSUME NEW g, ReadOK(g), g # NoRead, Framed(g.snap, g.series), OfOnePeriod(g),
         g.from \in {KeyOf(g.series, t) : t \in Times},
         g.out = LastOf(Near(g), g.count)
  PROVE  GivesNewest(g)
<1> DEFINE one == FirstOf(Newer(g), 1)
           told == {k \in Records(g) : UpTo(k, g.from)}
<1>1. /\ g.from \in Box /\ g.count \in Nat /\ Named(g) = Records(g)
      /\ \A k \in Records(g) : k \in Box
      /\ Near(g) = Older(g) \cup one /\ g.out \subseteq Near(g)
      /\ Newer(g) \in SUBSET Box /\ IsFiniteSet(Newer(g))
      /\ Older(g) \in SUBSET Box /\ IsFiniteSet(Older(g))
      /\ Near(g) \subseteq Records(g)
  BY NewerIs, ReadIs DEF ReadOK, OfOnePeriod, Records, Near, LastOf
<1>2. one = {i \in Newer(g) : \A j \in Newer(g) : UpTo(i, j)}
  BY <1>1, FirstOfOne
<1>3. \A k \in Older(g) : Before(k, g.from) /\ ~ Before(g.from, k) /\ k \in Box
  BY <1>1, Order DEF Older
<1>4. ASSUME Near(g) = told
      PROVE  GivesNewest(g)
  <2>1. \A k \in g.out : ~ Before(g.from, k)
    BY <1>1, <1>4, Order DEF UpTo
  <2>2. Late(g) = {}
    BY <2>1 DEF Late
  <2>3. Cardinality(Late(g)) = 0 /\ g.count - Cardinality(Late(g)) = g.count
    BY <1>1, <2>2, FS_EmptySet
  <2>4. g.out \ Late(g) = LastOf(told, g.count - Cardinality(Late(g)))
    BY <1>4, <2>2, <2>3
  <2>5. QED  BY <1>1, <2>2, <2>3, <2>4 DEF GivesNewest
<1>5. CASE g.from \in Records(g)
  <2>1. g.from \in Newer(g) /\ \A j \in Newer(g) : UpTo(g.from, j) /\ j \in Box
    BY <1>1, <1>5, NewerIs DEF UpTo
  <2>2. one = {g.from}
    BY <1>1, <1>2, <2>1, Order DEF UpTo
  <2>3. QED  BY <1>1, <1>4, <1>5, <2>2, NewerIs
<1>6. CASE g.from \notin Records(g) /\ one = {}
  BY <1>1, <1>4, <1>6, NewerIs
<1>7. CASE g.from \notin Records(g) /\ one # {}
  <2>1. PICK m \in one : TRUE
    BY <1>7
  <2>2. m \in Newer(g) /\ m \in Box /\ m \in Records(g) /\ Before(g.from, m)
    BY <1>1, <1>2, <1>7, <2>1, NewerIs DEF UpTo
  <2>3. one = {m}
    BY <1>1, <1>2, <2>1, <2>2, Order DEF UpTo
  <2>4. \A k \in Older(g) : Before(k, m)
    BY <1>1, <1>3, <2>2, Order
  <2>5. g.out = LastOf(Older(g) \cup {m}, g.count)
    BY <1>1, <2>3
  <2>6. told = Older(g) /\ m \notin Older(g)
    BY <1>3, <1>7, <2>2, NewerIs
  <2>7. CASE g.count = 0
    <3>1. g.out = {} /\ LastOf(Older(g), 0) = {}
      BY <1>1, <2>2, <2>4, <2>7, <2>5, LastOfOneMore
    <3>2. Late(g) = {} /\ Cardinality(Late(g)) = 0
      BY <3>1, FS_EmptySet DEF Late
    <3>3. g.count - Cardinality(Late(g)) = 0
      BY <2>7, <3>2
    <3>4. g.out \ Late(g) = LastOf(told, g.count - Cardinality(Late(g)))
      BY <2>6, <3>1, <3>2, <3>3
    <3>5. QED  BY <1>1, <3>2, <3>4 DEF GivesNewest
  <2>8. CASE g.count # 0
    <3>1. g.out = {m} \cup LastOf(Older(g), g.count - 1)
      BY <1>1, <2>2, <2>4, <2>8, <2>5, LastOfOneMore
    <3>2. LastOf(Older(g), g.count - 1) \subseteq Older(g)
      BY DEF LastOf
    <3>3. Late(g) = {m}
      BY <1>3, <2>2, <3>1, <3>2 DEF Late
    <3>4. Cardinality(Late(g)) = 1
      BY <3>3, FS_Singleton
    <3>5. g.out \ Late(g) = LastOf(Older(g), g.count - Cardinality(Late(g)))
      BY <2>6, <3>1, <3>2, <3>3, <3>4
    <3>6. g.out \ Late(g) = LastOf(told, g.count - Cardinality(Late(g)))
      BY <2>6, <3>5
    <3>7. Late(g) \subseteq Named(g) /\ Cardinality(Late(g)) <= 1
      BY <1>1, <2>2, <3>3, <3>4
    <3>8. QED  BY <1>1, <1>7, <3>6, <3>7 DEF GivesNewest
  <2>9. QED  BY <2>7, <2>8
<1>8. QED  BY <1>5, <1>6, <1>7

\* What a read has passed when it ends is what it was asked for.
LEMMA PassedAll ==
  ASSUME NEW g, ReadOK(g), g # NoRead, Framed(g.snap, g.series), Passed(g), Ends(g),
         OfOnePeriod(g)
  PROVE  GivesNamed(g)
<1>1. g.loop \in {"back", "forward", "window", "contracts"}
  BY DEF ReadOK
<1>2. Named(g) = Records(g)
  BY DEF OfOnePeriod, Records
<1>3. CASE g.loop = "back"
  <2>1. PassedBack(g) /\ EndsBack(g)
    BY <1>3 DEF Passed, Ends
  <2>2. GivesNewest(g)
    BY <1>3, <2>1, EndBack, BackGives DEF PassedBack
  <2>3. QED  BY <1>3, <2>2 DEF GivesNamed
<1>4. CASE g.loop = "forward"
  <2>1. PassedForward(g) /\ EndsForward(g)
    BY <1>4 DEF Passed, Ends
  <2>2. GivesFirst(g)
    BY <1>2, <1>4, <2>1, EndForward, NewerIs DEF PassedForward, GivesFirst
  <2>3. QED  BY <1>4, <2>2 DEF GivesNamed
<1>5. CASE g.loop = "window"
  <2>1. PassedWindow(g) /\ EndsWindow(g)
    BY <1>5 DEF Passed, Ends
  <2>2. GivesInterval(g)
    BY <1>2, <1>5, <2>1, EndWindow, NewerIs DEF PassedWindow, GivesInterval
  <2>3. QED  BY <1>5, <2>2 DEF GivesNamed
<1>6. CASE g.loop = "contracts"
  BY <1>2, <1>6, EndContracts DEF Passed, Ends, GivesNamed
<1>7. QED  BY <1>1, <1>3, <1>4, <1>5, <1>6

\* A read that starts.
Started(loop, s, p, from, at, to, n) ==
  [loop |-> loop, series |-> s, period |-> p, from |-> from, to |-> to, count |-> n,
   snap |-> db, at |-> at, out |-> {}]

LEMMA StartsAt ==
  ASSUME StoreOK(db), NEW s \in AllSeries, Framed(db, s), NEW t \in Times, NEW loop, NEW to,
         NEW n, NEW p, NEW g, g = Started(loop, s, p, KeyOf(s, t), Seek(db, KeyOf(s, t)), to, n),
         ReadOK(g), g # NoRead
  PROVE  /\ g.at \in {LastKey(s)} \cup Newer(g) /\ g.at \in Box
         /\ \A k \in Newer(g) : UpTo(g.at, k)
         /\ g.from \in {KeyOf(g.series, x) : x \in Times}
         /\ g.series = s /\ g.out = {} /\ g.count = n
<1>1. g.snap = db /\ g.series = s /\ g.from = KeyOf(s, t) /\ g.at = Seek(db, KeyOf(s, t))
      /\ g.out = {} /\ g.count = n
  BY DEF Started
<1>2. /\ g.at \in DOMAIN db /\ g.at \in Box /\ UpTo(g.from, g.at) /\ UpTo(g.at, LastKey(s))
      /\ \A i \in DOMAIN db : Before(i, g.at) => Before(i, g.from)
      /\ g.from \in Box /\ Before(FirstKey(s), g.from)
      /\ FirstKey(s) \in Box
  <2>1. KeyOf(s, t) \in Box /\ UpTo(KeyOf(s, t), LastKey(s)) /\ Before(FirstKey(s), g.from)
    BY <1>1, TimeKey DEF UpTo
  <2>2. QED  BY <1>1, <2>1, SeekInside, StoreIs, Frames
<1>3. g.at \in {LastKey(s)} \cup Newer(g)
  <2>1. Before(FirstKey(s), g.at)
    BY <1>2, Order DEF UpTo
  <2>2. g.at = LastKey(s) \/ g.at \in Records(g)
    BY <1>1, <1>2, <2>1, ReadIs DEF UpTo
  <2>3. ~ Before(g.at, g.from)
    BY <1>2, Order DEF UpTo
  <2>4. QED  BY <2>2, <2>3 DEF Newer, Older
<1>4. ASSUME NEW k \in Newer(g)
      PROVE  UpTo(g.at, k)
  <2>1. k \in DOMAIN db /\ k \in Box /\ ~ Before(k, g.from)
    BY <1>1, <1>4, ReadIs DEF Newer, Older
  <2>2. QED  BY <1>2, <2>1, Order DEF UpTo
<1>5. QED  BY <1>1, <1>2, <1>3, <1>4

LEMMA StartBack ==
  ASSUME StoreOK(db), NEW s \in AllSeries, Framed(db, s), NEW t \in Times, NEW n \in Nat,
         NEW p, NEW g, g = Started("back", s, p, KeyOf(s, t), Seek(db, KeyOf(s, t)), End, n),
         ReadOK(g), g # NoRead
  PROVE  PassedBack(g)
<1>1. /\ g.at \in {LastKey(s)} \cup Newer(g) /\ g.at \in Box
      /\ \A k \in Newer(g) : UpTo(g.at, k)
      /\ g.from \in {KeyOf(g.series, x) : x \in Times}
      /\ g.series = s /\ g.out = {} /\ g.count = n /\ g.snap = db
  BY StartsAt DEF Started
<1>2. /\ \A k \in Records(g) : k \in Box /\ Before(k, LastKey(s))
      /\ Newer(g) \in SUBSET Box /\ IsFiniteSet(Newer(g))
  BY <1>1, ReadIs
<1>3. g.at = LastKey(s) => Newer(g) = {}
  <2>1. ASSUME NEW k \in Newer(g), g.at = LastKey(s)
        PROVE  FALSE
    <3>1. k \in Box /\ Before(k, g.at) /\ UpTo(g.at, k)
      BY <1>1, <1>2, <2>1 DEF Newer
    <3>2. QED  BY <1>1, <3>1, Order DEF UpTo
  <2>2. QED  BY <2>1
<1>4. g.at \in {LastKey(s)} \cup Near(g)
  <2>1. g.at \in Newer(g) => g.at \in FirstOf(Newer(g), 1)
    BY <1>1, <1>2, FirstOfOne
  <2>2. QED  BY <1>1, <2>1 DEF Near
<1>5. \A k \in Near(g) : ~ Before(g.at, k)
  <2>1. ASSUME NEW k \in FirstOf(Newer(g), 1)
        PROVE  ~ Before(g.at, k)
    <3>1. k \in Newer(g) /\ \A j \in Newer(g) : UpTo(k, j)
      BY <1>2, <2>1, FirstOfOne
    <3>2. g.at \in Newer(g)
      BY <1>1, <1>3, <3>1
    <3>3. UpTo(k, g.at) /\ k \in Box
      BY <1>2, <3>1, <3>2
    <3>4. QED  BY <1>1, <3>3, Order DEF UpTo
  <2>2. ASSUME NEW k \in Older(g)
        PROVE  ~ Before(g.at, k)
    <3>1. k \in Records(g) /\ Before(k, g.from) /\ k \in Box /\ g.from \in Box
      BY <1>1, <1>2, TimeKey DEF Older
    <3>2. CASE g.at \in Newer(g)
      <4>1. ~ Before(g.at, g.from)
        BY <3>2 DEF Newer, Older
      <4>2. QED  BY <1>1, <3>1, <4>1, Order
    <3>3. CASE g.at = LastKey(s)
      BY <1>1, <1>2, <3>1, <3>3, Order
    <3>4. QED  BY <1>1, <3>2, <3>3
  <2>3. QED  BY <2>1, <2>2 DEF Near
<1>6. g.out = {k \in Near(g) : Before(g.at, k)}
  BY <1>1, <1>5
<1>7. Cardinality(g.out) <= g.count
  BY <1>1, FS_EmptySet
<1>8. QED  BY <1>1, <1>3, <1>4, <1>6, <1>7 DEF PassedBack

LEMMA StartForward ==
  ASSUME StoreOK(db), NEW s \in AllSeries, Framed(db, s), NEW t \in Times, NEW n \in Nat,
         NEW p, NEW g, g = Started("forward", s, p, KeyOf(s, t), Seek(db, KeyOf(s, t)), End, n),
         ReadOK(g), g # NoRead
  PROVE  PassedForward(g)
<1>1. /\ g.at \in {LastKey(s)} \cup Newer(g) /\ g.at \in Box
      /\ \A k \in Newer(g) : UpTo(g.at, k)
      /\ g.from \in {KeyOf(g.series, x) : x \in Times}
      /\ g.series = s /\ g.out = {} /\ g.count = n /\ g.snap = db
  BY StartsAt DEF Started
<1>2. \A k \in Newer(g) : k \in Box
  BY <1>1, ReadIs
<1>3. g.out = {k \in Newer(g) : Before(k, g.at)}
  BY <1>1, <1>2, Order DEF UpTo
<1>4. Cardinality(g.out) <= g.count
  BY <1>1, FS_EmptySet
<1>5. QED  BY <1>1, <1>3, <1>4 DEF PassedForward

LEMMA StartWindow ==
  ASSUME StoreOK(db), NEW s \in AllSeries, Framed(db, s), NEW t \in Times, NEW to \in Box,
         NEW p, NEW g, g = Started("window", s, p, KeyOf(s, t), Seek(db, KeyOf(s, t)), to, 0),
         ReadOK(g), g # NoRead
  PROVE  PassedWindow(g)
<1>1. /\ g.at \in {LastKey(s)} \cup Newer(g) /\ g.at \in Box
      /\ \A k \in Newer(g) : UpTo(g.at, k)
      /\ g.from \in {KeyOf(g.series, x) : x \in Times}
      /\ g.series = s /\ g.out = {} /\ g.snap = db /\ g.to = to
  BY StartsAt DEF Started
<1>2. \A k \in Newer(g) : k \in Box
  BY <1>1, ReadIs
<1>3. g.out = {k \in Newer(g) : Before(k, g.at)}
  BY <1>1, <1>2, Order DEF UpTo
<1>4. QED  BY <1>1, <1>3 DEF PassedWindow

\* The first key of a framed series, found and passed.
LEMMA FirstFound ==
  ASSUME NEW store, StoreOK(store), NEW s \in AllSeries, Framed(store, s)
  PROVE  Seek(store, FirstKey(s)) = FirstKey(s)
<1>1. /\ FirstKey(s) \in DOMAIN store /\ FirstKey(s) \in Box
      /\ UpTo(FirstKey(s), LastKey(s))
  BY FramedIs, Frames DEF UpTo
<1>2. /\ Seek(store, FirstKey(s)) \in DOMAIN store
      /\ UpTo(FirstKey(s), Seek(store, FirstKey(s)))
      /\ UpTo(Seek(store, FirstKey(s)), FirstKey(s))
  BY <1>1, SeekInside, SeekIs DEF UpTo
<1>3. Seek(store, FirstKey(s)) \in Box
  BY <1>2, StoreIs
<1>4. QED  BY <1>1, <1>2, <1>3, Order DEF UpTo

LEMMA OldestIs ==
  ASSUME NEW store, StoreOK(store), NEW s \in AllSeries, Framed(store, s)
  PROVE  /\ Oldest(store, s) \in DOMAIN store
         /\ Before(FirstKey(s), Oldest(store, s)) /\ UpTo(Oldest(store, s), LastKey(s))
         /\ \A i \in DOMAIN store : Before(i, Oldest(store, s)) => UpTo(i, FirstKey(s))
<1>1. Oldest(store, s) = Next1(store, FirstKey(s))
  BY FirstFound DEF Oldest
<1>2. FirstKey(s) \in DOMAIN store /\ Before(FirstKey(s), LastKey(s))
  BY FramedIs, Frames
<1>3. QED  BY <1>1, <1>2, NextInside

LEMMA StartContracts ==
  ASSUME StoreOK(db), NEW s \in AllSeries, Framed(db, s),
         NEW g, g = Started("contracts", s, "item", FirstKey(s), Oldest(db, s), End, 0),
         ReadOK(g), g # NoRead
  PROVE  PassedContracts(g)
<1>1. /\ g.snap = db /\ g.series = s /\ g.at = Oldest(db, s) /\ g.out = {}
  BY DEF Started
<1>2. /\ g.at \in DOMAIN db /\ g.at \in Box
      /\ Before(FirstKey(s), g.at) /\ UpTo(g.at, LastKey(s))
      /\ \A i \in DOMAIN db : Before(i, g.at) => UpTo(i, FirstKey(s))
      /\ FirstKey(s) \in Box
  BY <1>1, OldestIs, StoreIs, Frames
<1>3. g.at \in {LastKey(s)} \cup Records(g)
  BY <1>1, <1>2, ReadIs DEF UpTo
<1>4. \A k \in Records(g) : ~ Before(k, g.at)
  <2>1. \A k \in Records(g) : k \in DOMAIN db /\ k \in Box /\ Before(FirstKey(s), k)
    BY <1>1, ReadIs
  <2>2. QED  BY <1>2, <2>1, Order DEF UpTo
<1>5. QED  BY <1>1, <1>3, <1>4 DEF PassedContracts

-----------------------------------------------------------------------------
(* Pages *)

\* A page shows records, and no empty item.
LEMMA PageItems ==
  ASSUME NEW store, StoreOK(store), NEW at \in DOMAIN store \cup {End}, NEW n
  PROVE  /\ \A k \in PageFrom(store, at, n) :
              k \in DOMAIN store /\ store[k] # "null" /\ UpTo(at, k)
         /\ \A k \in PageBack(store, at, n) :
              k \in DOMAIN store /\ store[k] # "null" /\ UpTo(k, at)
<1> DEFINE Ahead == {i \in DOMAIN store : UpTo(at, i) /\ store[i] = "null"}
           Behind == {i \in DOMAIN store : UpTo(i, at) /\ store[i] = "null"}
<1>1. /\ Ahead \in SUBSET Box /\ IsFiniteSet(Ahead)
      /\ Behind \in SUBSET Box /\ IsFiniteSet(Behind)
  BY StoreIs
<1>2. ASSUME NEW k \in PageFrom(store, at, n)
      PROVE  k \in DOMAIN store /\ store[k] # "null" /\ UpTo(at, k)
  <2>1. /\ k \in DOMAIN store /\ UpTo(at, k)
        /\ Least(Ahead) = End \/ Before(k, Least(Ahead))
    BY <1>2 DEF PageFrom, FirstOf, Reached
  <2>2. ASSUME store[k] = "null"
        PROVE  FALSE
    <3>1. k \in Ahead
      BY <2>1, <2>2
    <3>2. Least(Ahead) \in Ahead /\ UpTo(Least(Ahead), k)
      BY <1>1, <3>1, LeastIs
    <3>3. Least(Ahead) \in Box /\ k \in Box
      BY <1>1, <3>1, <3>2
    <3>4. Before(k, Least(Ahead))
      BY <2>1, <3>3, EndNoKey
    <3>5. QED  BY <3>2, <3>3, <3>4, Order DEF UpTo
  <2>3. QED  BY <2>1, <2>2
<1>3. ASSUME NEW k \in PageBack(store, at, n)
      PROVE  k \in DOMAIN store /\ store[k] # "null" /\ UpTo(k, at)
  <2>1. /\ k \in DOMAIN store /\ UpTo(k, at)
        /\ Greatest(Behind) = End \/ Before(Greatest(Behind), k)
    BY <1>3 DEF PageBack, LastOf, ReachedBack
  <2>2. ASSUME store[k] = "null"
        PROVE  FALSE
    <3>1. k \in Behind
      BY <2>1, <2>2
    <3>2. Greatest(Behind) \in Behind /\ UpTo(k, Greatest(Behind))
      BY <1>1, <3>1, GreatestIs
    <3>3. Greatest(Behind) \in Box /\ k \in Box
      BY <1>1, <3>1, <3>2
    <3>4. Before(Greatest(Behind), k)
      BY <2>1, <3>3, EndNoKey
    <3>5. QED  BY <3>2, <3>3, <3>4, Order DEF UpTo
  <2>3. QED  BY <2>1, <2>2
<1>4. QED  BY <1>2, <1>3

\* A page from a place between the frames of a series ends at its frame.
LEMMA PageInside ==
  ASSUME NEW store, StoreOK(store), NEW s \in AllSeries, Framed(store, s),
         NEW at \in DOMAIN store, Before(FirstKey(s), at), UpTo(at, LastKey(s)), NEW n,
         NEW k \in PageFrom(store, at, n)
  PROVE  InSeries(k, s)
<1> DEFINE Ahead == {i \in DOMAIN store : UpTo(at, i) /\ store[i] = "null"}
           L == LastKey(s)
<1>1. /\ k \in DOMAIN store /\ store[k] # "null" /\ UpTo(at, k)
      /\ Least(Ahead) = End \/ Before(k, Least(Ahead))
  BY PageItems DEF PageFrom, FirstOf, Reached
<1>2. L \in Ahead /\ Ahead \in SUBSET Box /\ IsFiniteSet(Ahead)
  BY FramedIs, StoreIs
<1>3. Least(Ahead) \in Ahead /\ UpTo(Least(Ahead), L)
  BY <1>2, LeastIs
<1>4. /\ Least(Ahead) \in Box /\ k \in Box /\ k \in Keys /\ at \in Box /\ L \in Box
      /\ FirstKey(s) \in Box
  BY <1>1, <1>2, <1>3, StoreIs, Frames
<1>5. Before(k, Least(Ahead))
  BY <1>1, <1>4, EndNoKey
<1>6. Before(k, L)
  BY <1>3, <1>4, <1>5, Order DEF UpTo
<1>7. Before(FirstKey(s), k)
  BY <1>1, <1>4, Order DEF UpTo
<1>8. QED  BY <1>4, <1>6, <1>7, Inside

LEMMA PageBackInside ==
  ASSUME NEW store, StoreOK(store), NEW s \in AllSeries, Framed(store, s),
         NEW at \in DOMAIN store, UpTo(FirstKey(s), at), UpTo(at, LastKey(s)), NEW n,
         NEW k \in PageBack(store, at, n)
  PROVE  InSeries(k, s)
<1> DEFINE Behind == {i \in DOMAIN store : UpTo(i, at) /\ store[i] = "null"}
           F == FirstKey(s)
<1>1. /\ k \in DOMAIN store /\ store[k] # "null" /\ UpTo(k, at)
      /\ Greatest(Behind) = End \/ Before(Greatest(Behind), k)
  BY PageItems DEF PageBack, LastOf, ReachedBack
<1>2. F \in Behind /\ Behind \in SUBSET Box /\ IsFiniteSet(Behind)
  BY FramedIs, StoreIs
<1>3. Greatest(Behind) \in Behind /\ UpTo(F, Greatest(Behind))
  BY <1>2, GreatestIs
<1>4. /\ Greatest(Behind) \in Box /\ k \in Box /\ k \in Keys /\ at \in Box /\ F \in Box
      /\ LastKey(s) \in Box
  BY <1>1, <1>2, <1>3, StoreIs, Frames
<1>5. Before(Greatest(Behind), k)
  BY <1>1, <1>4, EndNoKey
<1>6. Before(F, k)
  BY <1>3, <1>4, <1>5, Order DEF UpTo
<1>7. Before(k, LastKey(s))
  <2>1. k # LastKey(s)
    BY <1>1, FramedIs
  <2>2. QED  BY <1>1, <1>4, <2>1, Order DEF UpTo
<1>8. QED  BY <1>4, <1>6, <1>7, Inside

LEMMA PageEnds ==
  ASSUME NEW store, StoreOK(store), NEW at \in DOMAIN store \cup {End}, NEW n
  PROVE  /\ Greatest(PageFrom(store, at, n)) \in PageFrom(store, at, n) \cup {End}
         /\ Least(PageBack(store, at, n)) \in PageBack(store, at, n) \cup {End}
<1>1. /\ PageFrom(store, at, n) \in SUBSET (DOMAIN store)
      /\ PageBack(store, at, n) \in SUBSET (DOMAIN store)
  BY PageItems
<1>2. /\ IsFiniteSet(PageFrom(store, at, n)) /\ PageFrom(store, at, n) \in SUBSET Box
      /\ IsFiniteSet(PageBack(store, at, n)) /\ PageBack(store, at, n) \in SUBSET Box
  BY <1>1, StoreIs
<1>3. QED  BY <1>2, LeastIs, GreatestIs

LEMMA NewestIs ==
  ASSUME NEW store, StoreOK(store), NEW s \in AllSeries, Framed(store, s)
  PROVE  /\ Newest(store, s) \in DOMAIN store
         /\ UpTo(FirstKey(s), Newest(store, s)) /\ UpTo(Newest(store, s), LastKey(s))
<1>1. /\ LastKey(s) \in DOMAIN store /\ LastKey(s) \in Box
      /\ UpTo(LastKey(s), LastKey(s)) /\ Before(FirstKey(s), LastKey(s))
  BY FramedIs, Frames DEF UpTo
<1>2. /\ Seek(store, LastKey(s)) \in DOMAIN store
      /\ UpTo(LastKey(s), Seek(store, LastKey(s)))
      /\ UpTo(Seek(store, LastKey(s)), LastKey(s))
  BY <1>1, SeekInside
<1>3. Seek(store, LastKey(s)) = LastKey(s)
  <2>1. Seek(store, LastKey(s)) \in Box
    BY <1>2, StoreIs
  <2>2. QED  BY <1>1, <1>2, <2>1, Order DEF UpTo
<1>4. QED  BY <1>1, <1>3, PrevInside DEF Newest, UpTo

\* The contracts that are listed are stored.
LEMMA ListedIs ==
  ASSUME StoreOK(db), DOMAIN db = {} \/ Framed(db, ContractSeries),
         NEW c \in ContractsListed(db)
  PROVE  c \in Contracts /\ ContractKey(c) \in DOMAIN db
<1> DEFINE at == Next1(db, Seek(db, FirstKey(ContractSeries)))
<1>1. PICK k \in PageFrom(db, at, Last) : c = k[4]
  BY DEF ContractsListed
<1>2. Seek(db, FirstKey(ContractSeries)) \in DOMAIN db \cup {End}
  BY SeekIs
<1>3. at \in DOMAIN db \cup {End}
  BY <1>2, Next1Is
<1>4. k \in DOMAIN db
  BY <1>3, PageItems
<1>5. ContractSeries \in AllSeries
  BY DEF AllSeries
<1>6. InSeries(k, ContractSeries)
  <2>1. Framed(db, ContractSeries)
    BY <1>4
  <2>2. at = Oldest(db, ContractSeries)
    BY DEF Oldest
  <2>3. at \in DOMAIN db /\ Before(FirstKey(ContractSeries), at) /\ UpTo(at, LastKey(ContractSeries))
    BY <1>5, <2>1, <2>2, OldestIs
  <2> HIDE DEF at
  <2>4. QED  BY <1>5, <2>1, <2>3, PageInside
<1>7. k[1] = ContractTable /\ k[4] # First /\ k[4] # Last /\ k \in Keys
  BY <1>4, <1>6, StoreIs DEF InSeries, ContractSeries
<1>8. \A d \in Contracts, t \in Times :
        /\ TickKey(d, t)[1] # ContractTable
        /\ \A p \in Periods : BarKey(d, p, t)[1] # ContractTable
  BY PeriodNumbers DEF TickKey, BarKey, KeyOf, TickSeries, BarSeries
<1>9. PICK d \in Contracts : k = ContractKey(d)
  BY <1>7, <1>8, Frames DEF Keys, RecordKeys, FrameKeys
<1>10. k[4] = d
  BY <1>9 DEF ContractKey, KeyOf
<1>11. QED  BY <1>1, <1>4, <1>9, <1>10

-----------------------------------------------------------------------------
(* Writes *)

LEMMA PutIs ==
  ASSUME NEW store, StoreOK(store), NEW items, StoreOK(items)
  PROVE  /\ StoreOK(Put(store, items))
         /\ DOMAIN Put(store, items) = DOMAIN store \cup DOMAIN items
<1>1. DOMAIN Put(store, items) = DOMAIN store \cup DOMAIN items
  BY DEF Put
<1>2. \A k \in DOMAIN Put(store, items) :
        Put(store, items)[k] = IF k \in DOMAIN items THEN items[k] ELSE store[k]
  BY DEF Put
<1>3. QED  BY <1>1, <1>2 DEF StoreOK, ItemOK

LEMMA DeleteIs ==
  ASSUME NEW store, StoreOK(store), NEW keys
  PROVE  StoreOK(Delete(store, keys)) /\ DOMAIN Delete(store, keys) = DOMAIN store \ keys
  BY DEF Delete, StoreOK, ItemOK

LEMMA NullItemsAre ==
  ASSUME NEW keys \in SUBSET Keys, \A k \in keys : k[4] \in {First, Last}
  PROVE  StoreOK(NullItems(keys)) /\ DOMAIN NullItems(keys) = keys
  BY DEF NullItems, StoreOK, ItemOK, Items

LEMMA SeriesOfIs ==
  ASSUME NEW c \in Contracts
  PROVE  SeriesOf(c) \subseteq AllSeries
  BY DEF SeriesOf, AllSeries

LEMMA ContractItemsAre ==
  ASSUME NEW c \in Contracts
  PROVE  /\ StoreOK(ContractItems(c))
         /\ DOMAIN ContractItems(c) = {ContractKey(c)} \cup UNION {FrameKeys(s) : s \in SeriesOf(c)}
<1>1. DOMAIN ContractItems(c) = {ContractKey(c)} \cup UNION {FrameKeys(s) : s \in SeriesOf(c)}
  BY DEF ContractItems
<1>2. \A k \in UNION {FrameKeys(s) : s \in SeriesOf(c)} : k \in Keys /\ k[4] \in {First, Last}
  BY SeriesOfIs, Frames DEF FrameKeys
<1>3. ContractKey(c) \in Keys
  BY DEF Keys
<1>4. ContractKey(c)[4] \notin {First, Last} /\ ContractKey(c)[1] # Bars
  BY Numbered, PeriodNumbers DEF ContractKey, KeyOf, ContractSeries
<1>5. \A k \in DOMAIN ContractItems(c) :
        ContractItems(c)[k] = IF k = ContractKey(c) THEN "item" ELSE "null"
  BY DEF ContractItems
<1>6. \A k \in DOMAIN ContractItems(c) : k \in Keys
  BY <1>1, <1>2, <1>3
<1>7. \A k \in DOMAIN ContractItems(c) :
        ContractItems(c)[k] \in Items /\ ItemOK(ContractItems(c), k)
  BY <1>1, <1>2, <1>4, <1>5 DEF Items, ItemOK
<1>8. QED  BY <1>1, <1>6, <1>7 DEF StoreOK

LEMMA RecordMarks ==
  ASSUME NEW k \in RecordKeys
  PROVE  /\ k \in Keys /\ k[4] \notin {First, Last} /\ k[1] # ContractTable
         /\ k[1] = Bars => \E p \in Periods : PeriodText[p] = k[3]
<1>1. k \in Keys
  BY DEF Keys
<1>2. ASSUME NEW c \in Contracts, NEW t \in Times, k = TickKey(c, t)
      PROVE  k[4] \notin {First, Last} /\ k[1] = Ticks
  BY <1>2, Numbered DEF TickKey, KeyOf, TickSeries
<1>3. ASSUME NEW c \in Contracts, NEW t \in Times, NEW p \in Periods, k = BarKey(c, p, t)
      PROVE  k[4] \notin {First, Last} /\ k[1] = Bars /\ PeriodText[p] = k[3]
  BY <1>3, Numbered DEF BarKey, KeyOf, BarSeries
<1>4. QED  BY <1>1, <1>2, <1>3, PeriodNumbers DEF RecordKeys

LEMMA TickPut ==
  ASSUME NEW store, StoreOK(store), NEW c \in Contracts, NEW t \in Times
  PROVE  /\ StoreOK(InsertTick(store, c, t))
         /\ DOMAIN InsertTick(store, c, t) = DOMAIN store \cup {TickKey(c, t)}
<1> DEFINE items == [k \in {TickKey(c, t)} |-> "item"]
<1>1. TickKey(c, t) \in RecordKeys /\ TickKey(c, t)[1] # Bars
  BY PeriodNumbers DEF RecordKeys, TickKey, KeyOf, TickSeries
<1>2. StoreOK(items)
  BY <1>1, RecordMarks DEF StoreOK, ItemOK, Items
<1>3. DOMAIN items = {TickKey(c, t)} /\ InsertTick(store, c, t) = Put(store, items)
  BY DEF InsertTick
<1> HIDE DEF items
<1>4. QED  BY <1>2, <1>3, PutIs

LEMMA BarPut ==
  ASSUME NEW store, StoreOK(store), NEW c \in Contracts, NEW p \in Periods, NEW t \in Times
  PROVE  /\ StoreOK(InsertBar(store, c, p, t))
         /\ DOMAIN InsertBar(store, c, p, t) = DOMAIN store \cup {BarKey(c, p, t)}
<1> DEFINE items == [k \in {BarKey(c, p, t)} |-> p]
<1>1. BarKey(c, p, t) \in RecordKeys /\ BarKey(c, p, t)[3] = PeriodText[p]
  BY DEF RecordKeys, BarKey, KeyOf, BarSeries
<1>2. p # "null" /\ p \in Items
  BY DEF Periods, Items
<1>3. StoreOK(items)
  BY <1>1, <1>2, RecordMarks DEF StoreOK, ItemOK
<1>4. DOMAIN items = {BarKey(c, p, t)} /\ InsertBar(store, c, p, t) = Put(store, items)
  BY DEF InsertBar
<1> HIDE DEF items
<1>5. QED  BY <1>3, <1>4, PutIs

LEMMA ContractPut ==
  ASSUME NEW store, StoreOK(store), NEW c \in Contracts
  PROVE  /\ StoreOK(InsertContract(store, c))
         /\ DOMAIN InsertContract(store, c) =
              DOMAIN store \cup {ContractKey(c)} \cup UNION {FrameKeys(s) : s \in SeriesOf(c)}
<1>1. /\ StoreOK(ContractItems(c))
      /\ DOMAIN ContractItems(c) = {ContractKey(c)} \cup UNION {FrameKeys(s) : s \in SeriesOf(c)}
  BY ContractItemsAre
<1>2. /\ StoreOK(InsertContract(store, c))
      /\ DOMAIN InsertContract(store, c) = DOMAIN store \cup DOMAIN ContractItems(c)
  BY <1>1, PutIs DEF InsertContract
<1>3. QED  BY <1>1, <1>2, Zenon

\* deleteTick deletes ticks of its contract in its interval, and nothing else.
LEMMA TicksScanned ==
  ASSUME NEW store, StoreOK(store), NEW c \in Contracts, NEW from \in Nat, NEW to \in Nat,
         First < from, to < Last,
         NEW k \in Scanned(store, TickSeries(c), TickKey(c, from), TickKey(c, to))
  PROVE  /\ k[4] \notin {First, Last} /\ k[1] = Ticks
         /\ InSeries(k, TickSeries(c)) /\ from <= k[4] /\ k[4] <= to
<1>1. /\ k \in DOMAIN store /\ UpTo(TickKey(c, from), k) /\ UpTo(k, TickKey(c, to))
  BY DEF Scanned
<1>2. /\ k[1] \in Int /\ k[2] \in Int /\ k[3] \in Int /\ k[4] \in Nat /\ k[4] \in 0 .. Last
      /\ Last \in Nat /\ First = 0
  BY <1>1, StoreIs, KeysSmall, Numbered DEF SmallBox
<1>3. /\ k[1] = Ticks /\ k[2] = c /\ k[3] = 0 /\ from <= k[4] /\ k[4] <= to
  BY <1>1, <1>2, Numbered, PeriodNumbers DEF UpTo, Before, TickKey, TickSeries, KeyOf
<1>4. QED  BY <1>2, <1>3 DEF InSeries, TickSeries

\* What a write of the DB thread does to the keys.
LEMMA WrittenIs ==
  ASSUME NEW store, StoreOK(store), NEW call \in Calls, call.op # "cleanAll"
  PROVE  /\ StoreOK(Written(store, call))
         /\ \A k \in DOMAIN store : k[4] \in {First, Last} => k \in DOMAIN Written(store, call)
         /\ \A c \in Contracts : ContractKey(c) \in DOMAIN Written(store, call) =>
              \/ ContractKey(c) \in DOMAIN store
              \/ \A s \in SeriesOf(c) : Framed(Written(store, call), s)
         /\ \A k \in DOMAIN store \ DOMAIN Written(store, call) : k \in RecordKeys =>
              /\ call.op = "deleteTick" /\ InSeries(k, TickSeries(call.c))
              /\ call.from <= k[4] /\ k[4] <= call.to
<1>1. /\ call.op \in Ops /\ call.c \in {AllContracts} \cup Contracts
      /\ call.p \in Periods /\ call.from \in Times /\ call.to \in Times
      /\ call.c = AllContracts => call.op = "deleteContract"
  BY CallsAssumption DEF CallType
<1>2. \A c \in Contracts, d \in Contracts, t \in Times :
        /\ ContractKey(c) # TickKey(d, t)
        /\ \A p \in Periods : ContractKey(c) # BarKey(d, p, t)
  BY PeriodNumbers DEF ContractKey, TickKey, BarKey, KeyOf, ContractSeries, TickSeries, BarSeries
<1>3. CASE call.op = "insertTick"
  <2>1. Written(store, call) = InsertTick(store, call.c, call.from)
    BY <1>3 DEF Written
  <2>2. call.c \in Contracts
    BY <1>1, <1>3
  <2>3. /\ StoreOK(Written(store, call))
        /\ DOMAIN Written(store, call) = DOMAIN store \cup {TickKey(call.c, call.from)}
    <3>1. call.from \in Times
      BY <1>1
    <3>2. /\ StoreOK(InsertTick(store, call.c, call.from))
          /\ DOMAIN InsertTick(store, call.c, call.from) = DOMAIN store \cup {TickKey(call.c, call.from)}
      BY <2>2, <3>1, TickPut
    <3>3. QED  BY <2>1, <3>2
  <2>4. \A c \in Contracts : ContractKey(c) # TickKey(call.c, call.from)
    BY <1>1, <1>2, <2>2
  <2>5. QED  BY <2>3, <2>4
<1>4. CASE call.op = "insertBar"
  <2>1. Written(store, call) = InsertBar(store, call.c, call.p, call.from)
    BY <1>4 DEF Written
  <2>2. call.c \in Contracts
    BY <1>1, <1>4
  <2>3. /\ StoreOK(Written(store, call))
        /\ DOMAIN Written(store, call) = DOMAIN store \cup {BarKey(call.c, call.p, call.from)}
    <3>1. call.from \in Times /\ call.p \in Periods
      BY <1>1
    <3>2. \A c \in Contracts, p \in Periods, t \in Times :
            /\ StoreOK(InsertBar(store, c, p, t))
            /\ DOMAIN InsertBar(store, c, p, t) = DOMAIN store \cup {BarKey(c, p, t)}
      BY BarPut
    <3>3. QED  BY <2>1, <2>2, <3>1, <3>2
  <2>4. \A c \in Contracts : ContractKey(c) # BarKey(call.c, call.p, call.from)
    BY <1>1, <1>2, <2>2
  <2>5. QED  BY <2>3, <2>4
<1>5. CASE call.op = "insertContract"
  <2>1. Written(store, call) = InsertContract(store, call.c)
    BY <1>5 DEF Written
  <2>2. call.c \in Contracts
    BY <1>1, <1>5
  <2>3. /\ StoreOK(Written(store, call))
        /\ DOMAIN Written(store, call) =
             DOMAIN store \cup {ContractKey(call.c)}
               \cup UNION {FrameKeys(s) : s \in SeriesOf(call.c)}
    BY <2>1, <2>2, ContractPut
  <2>4. \A s \in SeriesOf(call.c) : Framed(Written(store, call), s)
    BY <2>3 DEF Framed
  <2>5. ASSUME NEW c \in Contracts, ContractKey(c) \in DOMAIN Written(store, call)
        PROVE  ContractKey(c) \in DOMAIN store \/ c = call.c
    <3>1. \A k \in UNION {FrameKeys(s) : s \in SeriesOf(call.c)} : k[4] \in {First, Last}
      BY <2>2, SeriesOfIs, Frames DEF FrameKeys
    <3>2. ContractKey(c)[4] = c /\ c \notin {First, Last}
      BY Numbered DEF ContractKey, KeyOf
    <3>3. ContractKey(call.c)[4] = call.c
      BY DEF ContractKey, KeyOf
    <3>4. QED  BY <2>3, <2>5, <3>1, <3>2, <3>3
  <2>6. QED  BY <2>3, <2>4, <2>5
<1>6. CASE call.op = "deleteTick"
  <2>1. Written(store, call) = DeleteTick(store, call.c, call.from, call.to)
    BY <1>6 DEF Written
  <2>2. call.c \in Contracts
    BY <1>1, <1>6
  <2> DEFINE gone == Scanned(store, TickSeries(call.c), TickKey(call.c, call.from), TickKey(call.c, call.to))
  <2>3. /\ StoreOK(Written(store, call))
        /\ DOMAIN Written(store, call) = DOMAIN store \ gone
    BY <2>1, DeleteIs DEF DeleteTick
  <2>4. \A k \in gone : /\ k[4] \notin {First, Last} /\ k[1] = Ticks
                        /\ InSeries(k, TickSeries(call.c)) /\ call.from <= k[4] /\ k[4] <= call.to
    BY <1>1, <2>2, TicksScanned, Numbered
  <2> HIDE DEF gone
  <2>5. QED  BY <1>6, <2>3, <2>4
<1>7. CASE call.op = "deleteBar"
  <2>1. Written(store, call) = DeleteBar(store, call.c, call.p, call.from, call.to)
    BY <1>7 DEF Written
  <2>2. call.c \in Contracts
    BY <1>1, <1>7
  <2> DEFINE gone == Scanned(store, TickSeries(call.c), TickKey(call.c, Letters), TickKey(call.c, Letters))
  <2>3. /\ StoreOK(Written(store, call))
        /\ DOMAIN Written(store, call) = DOMAIN store \ gone
    BY <2>1, DeleteIs DEF DeleteBar
  <2>4. \A k \in gone : /\ k[4] = Letters /\ k[1] = Ticks /\ k[4] # Last
    <3>1. \A k \in gone : k \in DOMAIN store /\ k = TickKey(call.c, Letters)
      <4>1. \A k \in gone : k \in Box /\ UpTo(TickKey(call.c, Letters), k)
                              /\ UpTo(k, TickKey(call.c, Letters))
        BY StoreIs DEF Scanned
      <4>2. \A k \in gone : k \in DOMAIN store
        BY DEF Scanned
      <4>3. ASSUME NEW k \in gone
            PROVE  k = TickKey(call.c, Letters)
        <5>1. ~ (Before(TickKey(call.c, Letters), k) /\ Before(k, TickKey(call.c, Letters)))
          <6>1. k \in Box
            BY <4>1
          <6>2. /\ k[1] \in Int /\ k[2] \in Int /\ k[3] \in Int /\ k[4] \in Int
                /\ Letters \in Int /\ call.c \in Int
            BY <2>2, <6>1, Numbered DEF Box
          <6>3. QED
            BY <6>2, PeriodNumbers DEF Before, TickKey, TickSeries, KeyOf
        <5>2. QED  BY <4>1, <4>3, <5>1 DEF UpTo
      <4>4. QED  BY <4>2, <4>3
    <3>2. TickKey(call.c, Letters)[4] = Letters /\ TickKey(call.c, Letters)[1] = Ticks
      BY DEF TickKey, TickSeries, KeyOf
    <3>3. Letters # Last
      BY Numbered
    <3>4. QED  BY <3>1, <3>2, <3>3
  <2> HIDE DEF gone
  <2>5. \A k \in gone : k \notin RecordKeys /\ k[4] \notin {First, Last} /\ k[1] # ContractTable
    <3>1. \A k \in RecordKeys : k[1] = Ticks => k[4] # Letters
      <4>1. \A d \in Contracts, t \in Times : TickKey(d, t)[4] = t /\ t # Letters
        BY Numbered DEF TickKey, TickSeries, KeyOf
      <4>2. \A d \in Contracts, p \in Periods, t \in Times : BarKey(d, p, t)[4] = t /\ t # Letters
        BY Numbered DEF BarKey, BarSeries, KeyOf
      <4>3. QED  BY <4>1, <4>2 DEF RecordKeys
    <3>2. Letters # First /\ Ticks # ContractTable
      <4>1. call.from \in Times
        BY <1>1
      <4>2. QED  BY <4>1, Numbered, PeriodNumbers
    <3>3. QED  BY <2>4, <3>1, <3>2
  <2>6. QED  BY <1>7, <2>3, <2>5
<1>8. CASE call.op = "deleteContract"
  <2>1. Written(store, call) = DeleteContract(store, call.c)
    BY <1>8 DEF Written
  <2> DEFINE gone == IF call.c = AllContracts
      THEN {k \in DOMAIN store : /\ Before(FirstKey(ContractSeries), k)
                                 /\ Before(k, LastKey(ContractSeries))}
      ELSE {ContractKey(call.c)}
  <2>2. /\ StoreOK(Written(store, call))
        /\ DOMAIN Written(store, call) = DOMAIN store \ gone
    BY <2>1, DeleteIs DEF DeleteContract
  <2>3. \A k \in gone \cap DOMAIN store : k[4] \notin {First, Last} /\ k[1] = ContractTable
    <3>1. CASE call.c = AllContracts
      <4>1. ContractSeries \in AllSeries /\ ContractSeries[1] = ContractTable
        BY DEF AllSeries, ContractSeries
      <4>2. \A k \in gone : InSeries(k, ContractSeries)
        BY <3>1, <4>1, Inside, StoreIs
      <4> HIDE DEF gone
      <4>3. QED  BY <4>1, <4>2 DEF InSeries
    <3>2. CASE call.c # AllContracts
      <4>1. call.c \in Contracts /\ gone = {ContractKey(call.c)}
        BY <1>1, <3>2
      <4>2. /\ ContractKey(call.c)[4] \notin {First, Last}
            /\ ContractKey(call.c)[1] = ContractTable
        BY <4>1, Numbered DEF ContractKey, KeyOf, ContractSeries
      <4>3. QED  BY <4>1, <4>2
    <3>3. QED  BY <3>1, <3>2
  <2> HIDE DEF gone
  <2>4. QED  BY <2>2, <2>3, RecordMarks
<1>9. QED  BY <1>1, <1>3, <1>4, <1>5, <1>6, <1>7, <1>8 DEF Ops

-----------------------------------------------------------------------------
(* The inductive invariant *)

\* cleanAll leaves nothing until it has written the frames of the contracts.
Emptied == cleaning \in {"reset", "opened"} => DOMAIN db = {}

StoreFramed ==
  /\ \A c \in Contracts : ContractKey(c) \in DOMAIN db =>
       \A s \in SeriesOf(c) : Framed(db, s)
  /\ cleaning = "none" => Framed(db, ContractSeries)

\* A listing that no slot of opened() will refresh any more is of series with frames.
Refreshed(slot) == \A i \in DOMAIN opened : opened[i] # slot
WindowFramed ==
  cleaning = "none" =>
    /\ Refreshed("contract") => \A c \in listed : \A s \in SeriesOf(c) : Framed(db, s)
    /\ Refreshed("stat") => \A row \in stats : Framed(db, row[1])

RowsInside ==
  /\ \A k \in form.rows : k[4] \notin {First, Last}
  /\ form.framed => form.series \in AllSeries /\ \A k \in form.rows : InSeries(k, form.series)

ReadsPassed ==
  \A r \in Readers :
    Reading(r) /\ Framed(readers[r].snap, readers[r].series) => Passed(readers[r])

-----------------------------------------------------------------------------
(* The shapes of the steps *)

RowsFit(s, rows, within) ==
  \A k \in rows : db[k] # "null" /\ (within /\ Framed(db, s) => InSeries(k, s))

PageShown(s) ==
  \E rows \in SUBSET (DOMAIN db) : \E last \in rows \cup {End} : \E within \in BOOLEAN :
    /\ Click /\ UNCHANGED <<listed, stats>>
    /\ Show(s, rows, last, within)
    /\ RowsFit(s, rows, within)

LEMMA ForwardShown ==
  ASSUME StoreOK(db), NEW s \in AllSeries, NEW at \in DOMAIN db \cup {End},
         NEW within \in BOOLEAN, Click, UNCHANGED <<listed, stats>>,
         ShowForward(s, at, within),
         within /\ Framed(db, s) /\ at # End =>
           Before(FirstKey(s), at) /\ UpTo(at, LastKey(s))
  PROVE  PageShown(s)
<1> DEFINE rows == PageFrom(db, at, PageRows)
<1>1. rows \in SUBSET (DOMAIN db) /\ \A k \in rows : db[k] # "null"
  BY PageItems
<1>2. Greatest(rows) \in rows \cup {End}
  BY PageEnds
<1>3. RowsFit(s, rows, within)
  <2>1. at = End => rows = {}
    BY DEF PageFrom
  <2>2. ASSUME NEW k \in rows, within, Framed(db, s)
        PROVE  InSeries(k, s)
    <3>1. at \in DOMAIN db /\ Before(FirstKey(s), at) /\ UpTo(at, LastKey(s))
      BY <2>1, <2>2
    <3>2. QED  BY <2>2, <3>1, PageInside
  <2> HIDE DEF rows
  <2>3. QED  BY <1>1, <2>2 DEF RowsFit
<1>4. Show(s, rows, Greatest(rows), within)
  BY DEF ShowForward
<1> HIDE DEF rows
<1>5. QED  BY <1>1, <1>2, <1>3, <1>4 DEF PageShown

LEMMA BackShown ==
  ASSUME StoreOK(db), NEW s \in AllSeries, NEW at \in DOMAIN db \cup {End},
         NEW within \in BOOLEAN, Click, UNCHANGED <<listed, stats>>,
         ShowBack(s, at, within),
         within /\ Framed(db, s) /\ at # End =>
           UpTo(FirstKey(s), at) /\ UpTo(at, LastKey(s))
  PROVE  PageShown(s)
<1> DEFINE rows == PageBack(db, at, PageRows)
<1>1. rows \in SUBSET (DOMAIN db) /\ \A k \in rows : db[k] # "null"
  BY PageItems
<1>2. Least(rows) \in rows \cup {End}
  BY PageEnds
<1>3. RowsFit(s, rows, within)
  <2>1. at = End => rows = {}
    BY DEF PageBack
  <2>2. ASSUME NEW k \in rows, within, Framed(db, s)
        PROVE  InSeries(k, s)
    <3>1. at \in DOMAIN db /\ UpTo(FirstKey(s), at) /\ UpTo(at, LastKey(s))
      BY <2>1, <2>2
    <3>2. QED  BY <2>2, <3>1, PageBackInside
  <2> HIDE DEF rows
  <2>3. QED  BY <1>1, <2>2 DEF RowsFit
<1>4. Show(s, rows, Least(rows), within)
  BY DEF ShowBack
<1> HIDE DEF rows
<1>5. QED  BY <1>1, <1>2, <1>3, <1>4 DEF PageShown

LEMMA OldestType ==
  ASSUME NEW store, StoreOK(store), NEW s
  PROVE  /\ Oldest(store, s) \in DOMAIN store \cup {End}
         /\ Newest(store, s) \in DOMAIN store \cup {End}
  BY SeekIs, Next1Is, Prev1Is DEF Oldest, Newest

LEMMA First128Shown ==
  ASSUME StoreOK(db), NEW s \in AllSeries, First128(s)
  PROVE  PageShown(s)
<1>1. Oldest(db, s) \in DOMAIN db \cup {End}
  BY OldestType
<1>2. Framed(db, s) => Before(FirstKey(s), Oldest(db, s)) /\ UpTo(Oldest(db, s), LastKey(s))
  BY OldestIs
<1>3. QED  BY <1>1, <1>2, ForwardShown DEF First128

LEMMA Last128Shown ==
  ASSUME StoreOK(db), NEW s \in AllSeries, Last128(s)
  PROVE  PageShown(s)
<1>1. Newest(db, s) \in DOMAIN db \cup {End}
  BY OldestType
<1>2. Framed(db, s) => UpTo(FirstKey(s), Newest(db, s)) /\ UpTo(Newest(db, s), LastKey(s))
  BY NewestIs
<1>3. QED  BY <1>1, <1>2, BackShown DEF Last128

LEMMA SeekShown ==
  ASSUME StoreOK(db), NEW s \in AllSeries, SeekButton(s)
  PROVE  PageShown(s)
<1>1. PICK t \in Times : ShowBack(s, Seek(db, KeyOf(s, t)), TRUE)
  BY DEF SeekButton
<1> DEFINE at == Seek(db, KeyOf(s, t))
<1>2. at \in DOMAIN db \cup {End}
  BY SeekIs
<1>3. Framed(db, s) => UpTo(FirstKey(s), at) /\ UpTo(at, LastKey(s))
  <2>1. ASSUME Framed(db, s)
        PROVE  UpTo(FirstKey(s), at) /\ UpTo(at, LastKey(s))
    <3>1. /\ KeyOf(s, t) \in Box /\ FirstKey(s) \in Box
          /\ Before(FirstKey(s), KeyOf(s, t)) /\ UpTo(KeyOf(s, t), LastKey(s))
      BY TimeKey, Frames DEF UpTo
    <3>2. at \in DOMAIN db /\ UpTo(KeyOf(s, t), at) /\ UpTo(at, LastKey(s))
      BY <2>1, <3>1, SeekInside
    <3>3. at \in Box
      BY <3>2, StoreIs
    <3> HIDE DEF at
    <3>4. QED  BY <3>1, <3>2, <3>3, Order DEF UpTo
  <2>2. QED  BY <2>1
<1>4. Click /\ UNCHANGED <<listed, stats>> /\ ShowBack(s, at, TRUE)
  BY <1>1 DEF SeekButton
<1> HIDE DEF at
<1>5. QED  BY <1>2, <1>3, <1>4, BackShown

LEMMA Next128Shown ==
  ASSUME StoreOK(db), RowsInside, form.last \in form.rows \cup {End}, form.framed \in BOOLEAN,
         form.series \in AllSeries, Next128(form.series)
  PROVE  PageShown(form.series)
<1> DEFINE s == form.series
           at == Next1(db, Seek(db, form.last))
           within == form.framed /\ form.last \in DOMAIN db
<1>1. at \in DOMAIN db \cup {End}
  BY SeekIs, Next1Is
<1>2. within /\ Framed(db, s) => Before(FirstKey(s), at) /\ UpTo(at, LastKey(s))
  <2>1. ASSUME within, Framed(db, s)
        PROVE  Before(FirstKey(s), at) /\ UpTo(at, LastKey(s))
    <3>1. form.last \in DOMAIN db /\ form.last \in Keys /\ InSeries(form.last, s)
      BY <2>1, StoreIs DEF RowsInside
    <3>2. /\ Before(FirstKey(s), form.last) /\ Before(form.last, LastKey(s))
          /\ form.last \in Box /\ FirstKey(s) \in Box /\ LastKey(s) \in Box
      BY <3>1, Inside, StoreIs, Frames
    <3>3. Seek(db, form.last) = form.last
      <4>1. /\ Seek(db, form.last) \in DOMAIN db /\ UpTo(form.last, Seek(db, form.last))
            /\ UpTo(Seek(db, form.last), form.last)
        BY <2>1, <3>1, <3>2, SeekInside, SeekIs DEF UpTo
      <4>2. Seek(db, form.last) \in Box
        BY <4>1, StoreIs
      <4>3. QED  BY <3>2, <4>1, <4>2, Order DEF UpTo
    <3>4. /\ at \in DOMAIN db /\ Before(form.last, at) /\ UpTo(at, LastKey(s))
      BY <2>1, <3>1, <3>2, <3>3, NextInside
    <3>5. at \in Box
      BY <3>4, StoreIs
    <3> HIDE DEF at
    <3>6. QED  BY <3>2, <3>4, <3>5, Order
  <2>2. QED  BY <2>1
<1>3. within \in BOOLEAN /\ Click /\ UNCHANGED <<listed, stats>> /\ ShowForward(s, at, within)
  BY DEF Next128
<1> HIDE DEF at, within
<1>4. QED  BY <1>1, <1>2, <1>3, ForwardShown

LEMMA Pre128Shown ==
  ASSUME StoreOK(db), RowsInside, form.last \in form.rows \cup {End}, form.framed \in BOOLEAN,
         form.rows \subseteq Keys, form.series \in AllSeries, Pre128(form.series)
  PROVE  PageShown(form.series)
<1> DEFINE s == form.series
           behind == Seek(db, form.last)
           at == Prev1(db, behind)
<1>1. behind \in DOMAIN db \cup {End} /\ at \in DOMAIN db \cup {End}
  BY SeekIs, Prev1Is
<1>2. form.framed /\ Framed(db, s) => UpTo(FirstKey(s), at) /\ UpTo(at, LastKey(s))
  <2>1. ASSUME form.framed, Framed(db, s)
        PROVE  UpTo(FirstKey(s), at) /\ UpTo(at, LastKey(s))
    <3>1. form.last \in Keys /\ InSeries(form.last, s)
      BY <2>1 DEF RowsInside, Pre128
    <3>2. /\ Before(FirstKey(s), form.last) /\ Before(form.last, LastKey(s))
          /\ form.last \in Box /\ FirstKey(s) \in Box /\ LastKey(s) \in Box
      BY <3>1, Inside, KeysFinite, Frames
    <3>3. /\ behind \in DOMAIN db /\ UpTo(form.last, behind) /\ UpTo(behind, LastKey(s))
      BY <2>1, <3>2, SeekInside DEF UpTo
    <3>4. behind \in Box /\ Before(FirstKey(s), behind)
      <4>1. behind \in Box
        BY <3>3, StoreIs
      <4> HIDE DEF behind
      <4>2. QED  BY <3>2, <3>3, <4>1, Order DEF UpTo
    <3>5. at \in DOMAIN db /\ Before(at, behind) /\ UpTo(FirstKey(s), at)
      BY <2>1, <3>3, <3>4, PrevInside
    <3>6. at \in Box
      BY <3>5, StoreIs
    <3> HIDE DEF at, behind
    <3>7. QED  BY <3>2, <3>3, <3>4, <3>5, <3>6, Order DEF UpTo
  <2>2. QED  BY <2>1
<1>3. Click /\ UNCHANGED <<listed, stats>> /\ ShowBack(s, at, form.framed)
  BY DEF Pre128
<1> HIDE DEF at
<1>4. QED  BY <1>1, <1>2, <1>3, BackShown

Paging ==
  \/ ShowTicks \/ ShowBars \/ ShowData
  \/ BarFirst128 \/ BarNext128 \/ BarPre128 \/ BarLast128 \/ BarSeekButton
  \/ Shows(Ticks) /\ (First128(form.series) \/ Next128(form.series) \/ Pre128(form.series)
                        \/ Last128(form.series) \/ SeekButton(form.series))

LEMMA PagingShown ==
  ASSUME TypeOK, RowsInside, Paging
  PROVE  \E s \in AllSeries : PageShown(s)
<1>1. /\ StoreOK(db) /\ form.last \in form.rows \cup {End} /\ form.framed \in BOOLEAN
      /\ form.rows \subseteq Keys /\ listed \subseteq Contracts
      /\ \A row \in stats : row[1] \in AllSeries
  BY DEF TypeOK
<1>2. CASE ShowTicks
  <2>1. PICK c \in Contracts : First128(TickSeries(c))
    BY <1>1, <1>2 DEF ShowTicks
  <2>2. TickSeries(c) \in AllSeries
    BY DEF AllSeries
  <2>3. QED  BY <1>1, <2>1, <2>2, First128Shown
<1>3. CASE ShowBars
  <2>1. PICK c \in Contracts, p \in Periods : First128(BarSeries(c, PeriodText[p]))
    BY <1>1, <1>3 DEF ShowBars
  <2>2. BarSeries(c, PeriodText[p]) \in AllSeries
    BY PeriodNumbers DEF AllSeries
  <2>3. QED  BY <1>1, <2>1, <2>2, First128Shown
<1>4. CASE ShowData
  BY <1>1, <1>4, First128Shown DEF ShowData
<1>5. ASSUME ~ (ShowTicks \/ ShowBars \/ ShowData)
      PROVE  \E s \in AllSeries : PageShown(s)
  <2>1. /\ form.series \in AllSeries
        /\ \/ First128(form.series) \/ Next128(form.series) \/ Pre128(form.series)
           \/ Last128(form.series) \/ SeekButton(form.series)
    BY <1>5 DEF Paging, BarFirst128, BarNext128, BarPre128, BarLast128, BarSeekButton, Shows,
                TypeOK, NoForm
  <2>2. QED  BY <1>1, <2>1, First128Shown, Next128Shown, Pre128Shown, Last128Shown, SeekShown
<1>6. QED  BY <1>2, <1>3, <1>4, <1>5

\* A read that starts on an open database has passed nothing yet.
ReadStarts(r) ==
  /\ ~ Reading(r) /\ Use("gets") /\ UNCHANGED <<opened, listed, stats>>
  /\ IF handle
       THEN /\ \E g : /\ ReadOK(g) /\ g.loop # "idle"
                      /\ Framed(g.snap, g.series) => Passed(g)
                      /\ readers' = [readers EXCEPT ![r] = g]
            /\ UNCHANGED <<db, handle, cleaning, calls, form, alive>>
       ELSE Die

LEMMA StartedType ==
  ASSUME StoreOK(db), NEW loop \in {"back", "forward", "window", "contracts"},
         NEW s \in AllSeries, NEW p \in {"item"} \cup Periods, NEW from \in Keys,
         NEW to, to \in Keys \/ to = End, NEW n \in Nat,
         NEW at \in DOMAIN db \cup {End}
  PROVE  /\ ReadOK(Started(loop, s, p, from, at, to, n))
         /\ Started(loop, s, p, from, at, to, n).loop = loop
         /\ Started(loop, s, p, from, at, to, n).snap = db
         /\ Started(loop, s, p, from, at, to, n).series = s
         /\ Started(loop, s, p, from, at, to, n) # NoRead
<1> DEFINE g == Started(loop, s, p, from, at, to, n)
<1>1. /\ DOMAIN g = {"loop", "series", "period", "from", "to", "count", "snap", "at", "out"}
      /\ g.loop = loop /\ g.series = s /\ g.period = p /\ g.from = from /\ g.to = to /\ g.count = n
      /\ g.snap = db /\ g.at = at /\ g.out = {}
  BY DEF Started
<1>2. DOMAIN NoRead = {"loop"}
  BY DEF NoRead
<1>3. g # NoRead
  BY <1>1, <1>2
<1>4. ReadOK(g)
  BY <1>1 DEF ReadOK
<1>5. QED  BY <1>1, <1>3, <1>4

\* The same for the reads that have no end.
LEMMA EndlessType ==
  ASSUME StoreOK(db), NEW loop \in {"back", "forward", "contracts"},
         NEW s \in AllSeries, NEW p \in {"item"} \cup Periods, NEW from \in Keys, NEW n \in Nat,
         NEW at \in DOMAIN db \cup {End}
  PROVE  /\ ReadOK(Started(loop, s, p, from, at, End, n))
         /\ Started(loop, s, p, from, at, End, n).loop = loop
         /\ Started(loop, s, p, from, at, End, n) # NoRead
<1>1. ASSUME NEW to, to = End
      PROVE  /\ ReadOK(Started(loop, s, p, from, at, to, n))
             /\ Started(loop, s, p, from, at, to, n).loop = loop
             /\ Started(loop, s, p, from, at, to, n) # NoRead
  <2>1. loop \in {"back", "forward", "window", "contracts"} /\ (to \in Keys \/ to = End)
    BY <1>1
  <2>2. QED  BY <2>1, StartedType
<1>2. QED  BY <1>1

LEMMA IterateStarts ==
  ASSUME StoreOK(db), NEW r, NEW loop \in {"back", "forward", "window", "contracts"},
         NEW s \in AllSeries, NEW p \in {"item"} \cup Periods, NEW from \in Keys,
         NEW to, to \in Keys \/ to = End, NEW n \in Nat,
         NEW at \in DOMAIN db \cup {End}, Iterate(r, loop, s, p, from, at, to, n),
         Framed(db, s) => Passed(Started(loop, s, p, from, at, to, n))
  PROVE  ReadStarts(r)
<1> DEFINE g == Started(loop, s, p, from, at, to, n)
<1>1. /\ ReadOK(g) /\ g.loop # "idle"
      /\ Framed(g.snap, g.series) => Passed(g)
  <2>1. ReadOK(g) /\ g.loop = loop /\ g.snap = db /\ g.series = s
    BY StartedType
  <2>2. Framed(db, s) => Passed(g)
    OBVIOUS
  <2> HIDE DEF g
  <2>3. QED  BY <2>1, <2>2
<1>2. /\ ~ Reading(r) /\ Use("gets") /\ UNCHANGED <<opened, listed, stats>>
      /\ handle => /\ readers' = [readers EXCEPT ![r] = g]
                   /\ UNCHANGED <<db, handle, cleaning, calls, form, alive>>
      /\ ~ handle => Die
  BY DEF Iterate, Started
<1> HIDE DEF g
<1>3. QED  BY <1>1, <1>2 DEF ReadStarts

LEMMA BackStarts ==
  ASSUME StoreOK(db), NEW r, NEW s \in AllSeries, NEW t \in Times, KeyOf(s, t) \in Keys,
         NEW n \in Nat, NEW p \in {"item"} \cup Periods, Back(r, s, p, KeyOf(s, t), n)
  PROVE  ReadStarts(r)
<1> DEFINE g == Started("back", s, p, KeyOf(s, t), Seek(db, KeyOf(s, t)), End, n)
<1>1. Seek(db, KeyOf(s, t)) \in DOMAIN db \cup {End}
  BY SeekIs
<1>2. ReadOK(g) /\ g.loop = "back" /\ g # NoRead
  BY <1>1, EndlessType
<1>3. Framed(db, s) => Passed(g)
  BY <1>2, StartBack DEF Passed
<1>4. QED  BY <1>1, <1>3, IterateStarts DEF Back

LEMMA ForwardStarts ==
  ASSUME StoreOK(db), NEW r, NEW s \in AllSeries, NEW t \in Times, KeyOf(s, t) \in Keys,
         NEW n \in Nat, NEW p \in {"item"} \cup Periods, Forward(r, s, p, KeyOf(s, t), n)
  PROVE  ReadStarts(r)
<1> DEFINE g == Started("forward", s, p, KeyOf(s, t), Seek(db, KeyOf(s, t)), End, n)
<1>1. Seek(db, KeyOf(s, t)) \in DOMAIN db \cup {End}
  BY SeekIs
<1>2. ReadOK(g) /\ g.loop = "forward" /\ g # NoRead
  BY <1>1, EndlessType
<1>3. Framed(db, s) => Passed(g)
  BY <1>2, StartForward DEF Passed
<1>4. QED  BY <1>1, <1>3, IterateStarts DEF Forward

LEMMA WindowStarts ==
  ASSUME StoreOK(db), NEW r, NEW s \in AllSeries, NEW t \in Times, KeyOf(s, t) \in Keys,
         NEW to \in Keys, NEW p \in {"item"} \cup Periods, Window(r, s, p, KeyOf(s, t), to)
  PROVE  ReadStarts(r)
<1> DEFINE g == Started("window", s, p, KeyOf(s, t), Seek(db, KeyOf(s, t)), to, 0)
<1>1. Seek(db, KeyOf(s, t)) \in DOMAIN db \cup {End} /\ to \in Box
  BY SeekIs, KeysFinite
<1>2. ReadOK(g) /\ g.loop = "window" /\ g # NoRead
  BY <1>1, StartedType
<1>3. Framed(db, s) => Passed(g)
  BY <1>1, <1>2, StartWindow DEF Passed
<1>4. QED  BY <1>1, <1>3, IterateStarts DEF Window

LEMMA ContractsStart ==
  ASSUME StoreOK(db), NEW r, GetContracts(r)
  PROVE  ReadStarts(r)
<1> DEFINE s == ContractSeries
           g == Started("contracts", s, "item", FirstKey(s), Oldest(db, s), End, 0)
<1>1. s \in AllSeries /\ FirstKey(s) \in Keys
  BY Frames DEF AllSeries
<1>2. Oldest(db, s) \in DOMAIN db \cup {End}
  BY OldestType
<1>3. ReadOK(g) /\ g.loop = "contracts" /\ g # NoRead
  BY <1>1, <1>2, EndlessType
<1>4. Framed(db, s) => Passed(g)
  BY <1>1, <1>3, StartContracts DEF Passed
<1>5. Iterate(r, "contracts", s, "item", FirstKey(s), Oldest(db, s), End, 0)
  BY DEF GetContracts, Oldest
<1> HIDE DEF s
<1>6. QED  BY <1>1, <1>2, <1>4, <1>5, IterateStarts

Gets(r) ==
  \/ GetTickCountTo(r) \/ GetTickFromCount(r) \/ GetTickFromTo(r)
  \/ GetBarCountTo(r) \/ GetBarFromCount(r) \/ GetBarFromTo(r) \/ GetContracts(r)

LEMMA GetsStart ==
  ASSUME StoreOK(db), NEW r, Gets(r)
  PROVE  ReadStarts(r)
<1>1. ASSUME NEW a \in Asked, NEW t \in Times
      PROVE  /\ TickSeries(a[1]) \in AllSeries /\ AskedBars(a) \in AllSeries
             /\ TickKey(a[1], t) = KeyOf(TickSeries(a[1]), t)
             /\ BarKey(a[1], a[2], t) = KeyOf(AskedBars(a), t)
             /\ TickKey(a[1], t) \in Keys /\ BarKey(a[1], a[2], t) \in Keys
             /\ a[2] \in {"item"} \cup Periods
  <2>1. a[1] \in Contracts /\ a[2] \in Periods
    BY AskedAssumption
  <2>2. QED
    BY <2>1, PeriodNumbers DEF AllSeries, AskedBars, TickKey, BarKey, Keys, RecordKeys
<1>2. (\A n \in Counts : n \in Nat) /\ "item" \in {"item"} \cup Periods
  BY AskedAssumption
<1>3. CASE GetTickCountTo(r)
  BY <1>1, <1>2, <1>3, BackStarts DEF GetTickCountTo
<1>4. CASE GetTickFromCount(r)
  BY <1>1, <1>2, <1>4, ForwardStarts DEF GetTickFromCount
<1>5. CASE GetTickFromTo(r)
  BY <1>1, <1>2, <1>5, WindowStarts DEF GetTickFromTo
<1>6. CASE GetBarCountTo(r)
  BY <1>1, <1>2, <1>6, BackStarts DEF GetBarCountTo
<1>7. CASE GetBarFromCount(r)
  BY <1>1, <1>2, <1>7, ForwardStarts DEF GetBarFromCount
<1>8. CASE GetBarFromTo(r)
  BY <1>1, <1>8, WindowStarts DEF GetBarFromTo
<1>9. QED  BY <1>3, <1>4, <1>5, <1>6, <1>7, <1>8, ContractsStart DEF Gets

\* Every step has one of these shapes.
LEMMA Steps ==
  ASSUME TypeOK, RowsInside, Next
  PROVE  \/ \E ops : Accept(ops)
         \/ Write \/ DbClose \/ DbReset \/ DbOpen \/ DbInit
         \/ \E r \in Readers : ReadStarts(r) \/ GetContract(r) \/ GetStep(r) \/ GetEnd(r)
         \/ ContractRefreshButton \/ ContractOnOpened \/ StatRefreshButton \/ StatOnOpened
         \/ \E s \in AllSeries : PageShown(s)
         \/ DelRow
<1>1. CASE AcceptInsert \/ AcceptDelete \/ AcceptCleanAll
  BY <1>1 DEF AcceptInsert, AcceptDelete, AcceptCleanAll
<1>2. CASE DbThread
  BY <1>2 DEF DbThread
<1>3. ASSUME NEW r \in Readers, Get(r)
      PROVE  ReadStarts(r) \/ GetContract(r) \/ GetStep(r) \/ GetEnd(r)
  <2>1. StoreOK(db)
    BY DEF TypeOK
  <2>2. QED  BY <1>3, <2>1, GetsStart DEF Get, Gets
<1>4. CASE Main
  <2>1. Paging => \E s \in AllSeries : PageShown(s)
    BY PagingShown
  <2>2. \/ ContractRefreshButton \/ ContractOnOpened \/ StatRefreshButton \/ StatOnOpened
        \/ Paging \/ DelRow
    BY <1>4 DEF Main, Paging, TickForm, BarDelButton
  <2>3. QED  BY <2>1, <2>2
<1>5. QED  BY <1>1, <1>2, <1>3, <1>4 DEF Next

-----------------------------------------------------------------------------
(* Every step keeps the invariant *)

DatafeedInv ==
  TypeOK /\ Emptied /\ StoreFramed /\ WindowFramed /\ RowsInside /\ ReadsPassed

LEMMA UseType ==
  ASSUME TypeOK, NEW b \in {"calls", "gets", "clicks"}, Use(b)
  PROVE  alive /\ used' # used /\ used' \in [{"calls", "gets", "clicks"} -> Nat]
<1>1. used \in [{"calls", "gets", "clicks"} -> Nat]
  BY DEF TypeOK
<1>2. alive /\ used' = [used EXCEPT ![b] = used[b] + 1]
  BY DEF Use
<1>3. used[b] \in Nat /\ used'[b] = used[b] + 1
  BY <1>1, <1>2
<1>4. QED  BY <1>1, <1>2, <1>3

\* The part of the invariant about readers and pages, while these are left alone.
LEMMA ReadsKept ==
  ASSUME ReadsPassed, readers' = readers
  PROVE  ReadsPassed'
  BY DEF ReadsPassed, Reading

LEMMA RowsKept ==
  ASSUME RowsInside, form' = form
  PROVE  RowsInside'
  BY DEF RowsInside

LEMMA StoreKept ==
  ASSUME Emptied, StoreFramed, UNCHANGED <<db, cleaning>>
  PROVE  Emptied' /\ StoreFramed'
  BY DEF Emptied, StoreFramed

LEMMA FramesKept ==
  ASSUME \A k \in DOMAIN db : k[4] \in {First, Last} => k \in DOMAIN db',
         NEW s \in AllSeries, Framed(db, s)
  PROVE  Framed(db', s)
  BY Frames DEF Framed, FrameKeys

LEMMA WindowKept ==
  ASSUME TypeOK, WindowFramed, UNCHANGED <<cleaning, opened, listed, stats>>,
         \A s \in AllSeries : Framed(db, s) => Framed(db', s)
  PROVE  WindowFramed'
<1>1. /\ \A c \in listed : \A s \in SeriesOf(c) : s \in AllSeries
      /\ \A row \in stats : row[1] \in AllSeries
  BY SeriesOfIs DEF TypeOK
<1>2. QED  BY <1>1 DEF WindowFramed, Refreshed

\* What a null database leaves of a step.
LEMMA DieInv ==
  ASSUME DatafeedInv, Die, ~ handle, opened' \in Seq({"contract", "stat"}),
         UNCHANGED <<listed, stats>>, used' \in [{"calls", "gets", "clicks"} -> Nat]
  PROVE  DatafeedInv'
<1>1. UNCHANGED <<db, handle, cleaning, calls, readers, form>> /\ alive' = FALSE
  BY DEF Die
<1>2. TypeOK'
  BY <1>1 DEF DatafeedInv, TypeOK
<1>3. WindowFramed'
  BY <1>1 DEF DatafeedInv, TypeOK, WindowFramed
<1>4. QED  BY <1>1, <1>2, <1>3, ReadsKept, RowsKept, StoreKept DEF DatafeedInv

LEMMA AcceptInv ==
  ASSUME DatafeedInv, NEW ops, Accept(ops)
  PROVE  DatafeedInv'
<1>1. TypeOK /\ UNCHANGED <<db, handle, cleaning, readers, opened, listed, stats, form, alive>>
  BY DEF Accept, DatafeedInv, window
<1>2. used' \in [{"calls", "gets", "clicks"} -> Nat]
  BY <1>1, UseType DEF Accept
<1>3. calls' \in Seq(Calls) /\ calls' # <<>>
  <2>1. PICK call \in Calls : calls' = Append(calls, call)
    BY DEF Accept
  <2>2. QED  BY <1>1, <2>1 DEF TypeOK
<1>4. TypeOK'
  BY <1>1, <1>2, <1>3 DEF TypeOK
<1>5. QED  BY <1>1, <1>4, ReadsKept, RowsKept, StoreKept, WindowKept DEF DatafeedInv

LEMMA WriteInv ==
  ASSUME DatafeedInv, Write
  PROVE  DatafeedInv'
<1>1. /\ TypeOK /\ StoreOK(db) /\ StoreFramed
      /\ UNCHANGED <<handle, cleaning, readers, opened, listed, stats, form, alive, used>>
  BY DEF Write, DatafeedInv, window, TypeOK
<1>2. /\ Head(calls) \in Calls /\ Head(calls).op # "cleanAll"
      /\ db' = Written(db, Head(calls)) /\ calls' \in Seq(Calls) /\ cleaning = "none"
  BY <1>1 DEF Write, TypeOK
<1>3. StoreOK(db')
  BY <1>1, <1>2, WrittenIs
<1>4. TypeOK'
  BY <1>1, <1>2, <1>3 DEF TypeOK
<1>5. \A s \in AllSeries : Framed(db, s) => Framed(db', s)
  BY <1>1, <1>2, WrittenIs, FramesKept
<1>6. StoreFramed'
  <2>1. ASSUME NEW c \in Contracts, ContractKey(c) \in DOMAIN db', NEW s \in SeriesOf(c)
        PROVE  Framed(db', s)
    <3>1. s \in AllSeries
      BY SeriesOfIs
    <3>2. \/ ContractKey(c) \in DOMAIN db
          \/ Framed(db', s)
      BY <1>1, <1>2, <2>1, WrittenIs
    <3>3. QED  BY <1>1, <1>5, <3>1, <3>2 DEF StoreFramed
  <2>2. ContractSeries \in AllSeries
    BY DEF AllSeries
  <2>3. QED  BY <1>1, <1>5, <2>1, <2>2 DEF StoreFramed
<1>7. Emptied'
  BY <1>1, <1>2 DEF Emptied
<1>8. QED  BY <1>1, <1>4, <1>5, <1>6, <1>7, ReadsKept, RowsKept, WindowKept DEF DatafeedInv

LEMMA CleanInv ==
  ASSUME DatafeedInv, DbClose \/ DbReset \/ DbOpen
  PROVE  DatafeedInv'
<1>1. /\ TypeOK /\ cleaning' # "none" /\ alive' \in BOOLEAN
      /\ UNCHANGED <<calls, readers, opened, listed, stats, form, used>>
  BY DEF DbClose, DbReset, DbOpen, DatafeedInv, window, TypeOK
<1>2. WindowFramed'
  BY <1>1 DEF WindowFramed
<1>3. CASE DbClose
  <2>1. db' = db /\ handle' = FALSE /\ cleaning' = "closed" /\ calls # <<>>
    BY <1>3 DEF DbClose
  <2>2. TypeOK'
    BY <1>1, <2>1 DEF TypeOK
  <2>3. Emptied' /\ StoreFramed'
    BY <2>1 DEF DatafeedInv, Emptied, StoreFramed
  <2>4. QED  BY <1>1, <1>2, <2>2, <2>3, ReadsKept, RowsKept DEF DatafeedInv
<1>4. CASE DbReset
  <2>1. /\ DOMAIN db' = {} /\ handle' = handle /\ cleaning' = "reset" /\ cleaning = "closed"
        /\ alive' = alive
    BY <1>4 DEF DbReset
  <2>2. TypeOK'
    BY <1>1, <2>1 DEF TypeOK, StoreOK
  <2>3. Emptied' /\ StoreFramed'
    BY <2>1 DEF Emptied, StoreFramed
  <2>4. QED  BY <1>1, <1>2, <2>2, <2>3, ReadsKept, RowsKept DEF DatafeedInv
<1>5. CASE DbOpen
  <2>1. /\ db' = db /\ handle' = TRUE /\ cleaning' = "opened" /\ cleaning = "reset"
        /\ alive' = alive
    BY <1>5 DEF DbOpen
  <2>2. TypeOK'
    BY <1>1, <2>1 DEF TypeOK
  <2>3. Emptied' /\ StoreFramed'
    BY <2>1 DEF DatafeedInv, Emptied, StoreFramed
  <2>4. QED  BY <1>1, <1>2, <2>2, <2>3, ReadsKept, RowsKept DEF DatafeedInv
<1>6. QED  BY <1>3, <1>4, <1>5

\* The frames of the contracts are back, and both slots of opened() are on their way.
LEMMA DbInitInv ==
  ASSUME DatafeedInv, DbInit
  PROVE  DatafeedInv'
<1> DEFINE frames == FrameKeys(ContractSeries)
<1>1. /\ TypeOK /\ cleaning = "opened" /\ cleaning' = "none" /\ DOMAIN db = {} /\ StoreOK(db)
      /\ UNCHANGED <<handle, readers, listed, stats, form, alive, used>>
      /\ db' = Put(db, NullItems(frames)) /\ calls # <<>>
      /\ calls' = Tail(calls) /\ opened' = opened \o <<"contract", "stat">>
  BY DEF DbInit, DatafeedInv, Emptied, TypeOK
<1>2. ContractSeries \in AllSeries
  BY DEF AllSeries
<1>3. frames \in SUBSET Keys /\ \A k \in frames : k[4] \in {First, Last}
  BY <1>2, Frames DEF FrameKeys
<1>4. StoreOK(NullItems(frames)) /\ DOMAIN NullItems(frames) = frames
  BY <1>3, NullItemsAre
<1>5. StoreOK(db') /\ DOMAIN db' = frames
  <2> HIDE DEF frames
  <2>1. ASSUME NEW items, items = NullItems(frames)
        PROVE  /\ StoreOK(Put(db, items))
               /\ DOMAIN Put(db, items) = DOMAIN db \cup DOMAIN items
    BY <1>1, <1>4, <2>1, PutIs
  <2>2. StoreOK(db') /\ DOMAIN db' = DOMAIN db \cup DOMAIN NullItems(frames)
    BY <1>1, <2>1
  <2>3. QED  BY <1>1, <1>4, <2>2
<1>6. opened' \in Seq({"contract", "stat"})
  BY <1>1 DEF TypeOK
<1>7. TypeOK'
  <2>1. calls' \in Seq(Calls)
    BY <1>1 DEF TypeOK
  <2> HIDE DEF frames
  <2>2. QED  BY <1>1, <1>5, <1>6, <2>1 DEF TypeOK
<1>8. Emptied' /\ StoreFramed'
  <2>1. \A c \in Contracts : ContractKey(c) \notin DOMAIN db'
    <3>1. ASSUME NEW c \in Contracts
          PROVE  ContractKey(c)[4] \notin {First, Last}
      <4>1. ContractKey(c)[4] = c /\ c \in 1 .. (Last - 2) /\ Last \in Nat /\ First = 0
        BY LastAssumption DEF ContractKey, KeyOf, First
      <4>2. QED  BY <4>1
    <3>2. QED  BY <1>3, <1>5, <3>1
  <2>2. Framed(db', ContractSeries)
    BY <1>5 DEF Framed
  <2>3. QED  BY <1>1, <2>1, <2>2 DEF Emptied, StoreFramed
<1>9. WindowFramed'
  <2>1. opened \in Seq({"contract", "stat"})
    BY <1>1 DEF TypeOK
  <2>2. /\ Len(opened) + 1 \in DOMAIN opened' /\ opened'[Len(opened) + 1] = "contract"
        /\ Len(opened) + 2 \in DOMAIN opened' /\ opened'[Len(opened) + 2] = "stat"
    BY <1>1, <2>1
  <2>3. QED  BY <2>2 DEF WindowFramed, Refreshed
<1>10. QED  BY <1>1, <1>7, <1>8, <1>9, ReadsKept, RowsKept DEF DatafeedInv

\* A step of one reader.
LEMMA ReaderInv ==
  ASSUME DatafeedInv, NEW r \in Readers, NEW g, ReadOK(g),
         g.loop # "idle" /\ Framed(g.snap, g.series) => Passed(g),
         readers' = [readers EXCEPT ![r] = g],
         UNCHANGED <<db, handle, cleaning, calls, opened, listed, stats, form, alive>>,
         used' \in [{"calls", "gets", "clicks"} -> Nat]
  PROVE  DatafeedInv'
<1>1. /\ TypeOK /\ DOMAIN readers = Readers /\ DOMAIN readers' = Readers
      /\ \A q \in Readers : readers'[q] = IF q = r THEN g ELSE readers[q]
  BY DEF DatafeedInv, TypeOK
<1>2. \A q \in Readers : ReadOK(readers'[q])
  BY <1>1 DEF TypeOK
<1>3. TypeOK'
  BY <1>1, <1>2 DEF TypeOK
<1>4. ReadsPassed'
  BY <1>1 DEF DatafeedInv, ReadsPassed, Reading
<1>5. WindowFramed'
  BY <1>1, WindowKept DEF DatafeedInv
<1>6. QED  BY <1>3, <1>4, <1>5, RowsKept, StoreKept DEF DatafeedInv

LEMMA StartInv ==
  ASSUME DatafeedInv, NEW r \in Readers, ReadStarts(r) \/ GetContract(r)
  PROVE  DatafeedInv'
<1>1. /\ TypeOK /\ Use("gets") /\ UNCHANGED <<opened, listed, stats>>
  BY DEF DatafeedInv, ReadStarts, GetContract
<1>2. used' \in [{"calls", "gets", "clicks"} -> Nat] /\ opened' \in Seq({"contract", "stat"})
  BY <1>1, UseType DEF TypeOK
<1>3. CASE ~ handle
  <2>1. Die
    BY <1>3 DEF ReadStarts, GetContract
  <2>2. QED  BY <1>1, <1>2, <1>3, <2>1, DieInv
<1>4. CASE handle /\ ReadStarts(r)
  <2>1. PICK g : /\ ReadOK(g) /\ g.loop # "idle"
                 /\ Framed(g.snap, g.series) => Passed(g)
                 /\ readers' = [readers EXCEPT ![r] = g]
    BY <1>4 DEF ReadStarts
  <2>2. UNCHANGED <<db, handle, cleaning, calls, form, alive>>
    BY <1>4 DEF ReadStarts
  <2>3. QED  BY <1>1, <1>2, <2>1, <2>2, ReaderInv
<1>5. CASE handle /\ GetContract(r)
  <2>1. UNCHANGED <<db, handle, cleaning, calls, readers, form, alive>>
    BY <1>5 DEF GetContract
  <2>2. TypeOK'
    BY <1>1, <1>2, <2>1 DEF TypeOK
  <2>3. WindowFramed'
    BY <1>1, <2>1, WindowKept DEF DatafeedInv
  <2>4. QED  BY <2>1, <2>2, <2>3, ReadsKept, RowsKept, StoreKept DEF DatafeedInv
<1>6. QED  BY <1>3, <1>4, <1>5

LEMMA TurnInv ==
  ASSUME DatafeedInv, NEW r \in Readers, GetStep(r)
  PROVE  DatafeedInv'
<1> DEFINE g == readers[r]
<1>1. /\ TypeOK /\ ReadOK(g) /\ g.loop # "idle" /\ ~ Ends(g)
      /\ readers' = [readers EXCEPT ![r] = Turned(g)]
      /\ UNCHANGED <<db, handle, cleaning, calls, opened, listed, stats, form, alive, used>>
  BY DEF GetStep, Reading, DatafeedInv, TypeOK, window
<1>2. g # NoRead
  BY <1>1 DEF NoRead
<1>3. used' \in [{"calls", "gets", "clicks"} -> Nat]
  BY <1>1 DEF TypeOK
<1>4. ReadOK(Turned(g))
  <2>1. /\ g.loop \in {"back", "forward", "window", "contracts"}
        /\ StoreOK(g.snap) /\ g.at \in DOMAIN g.snap \cup {End} /\ g.out \subseteq DOMAIN g.snap
        /\ DOMAIN g = {"loop", "series", "period", "from", "to", "count", "snap", "at", "out"}
        /\ g.series \in AllSeries /\ g.period \in {"item"} \cup Periods
        /\ g.from \in Keys /\ g.to \in Keys \cup {End} /\ g.count \in Nat
    BY <1>1, <1>2 DEF ReadOK
  <2>2. g.at # End
    BY <1>1, <2>1 DEF Ends, EndsBack, EndsForward, EndsWindow, EndsContracts
  <2>3. /\ Prev1(g.snap, g.at) \in DOMAIN g.snap \cup {End}
        /\ Next1(g.snap, g.at) \in DOMAIN g.snap \cup {End}
    BY <2>1, Prev1Is, Next1Is
  <2>4. /\ DOMAIN Turned(g) = DOMAIN g
        /\ Turned(g).loop = g.loop /\ Turned(g).series = g.series /\ Turned(g).from = g.from
        /\ Turned(g).to = g.to /\ Turned(g).count = g.count /\ Turned(g).snap = g.snap
        /\ Turned(g).period = g.period
        /\ Turned(g).at = IF g.loop = "back" THEN Prev1(g.snap, g.at) ELSE Next1(g.snap, g.at)
        /\ Turned(g).out = IF Skips(g) THEN g.out ELSE g.out \cup {g.at}
    BY <1>1, <1>2, TurnedIs
  <2>5. Turned(g).at \in DOMAIN g.snap \cup {End} /\ Turned(g).out \subseteq DOMAIN g.snap
    BY <2>1, <2>2, <2>3, <2>4
  <2> HIDE DEF g
  <2>6. QED  BY <2>1, <2>4, <2>5 DEF ReadOK
<1>5. Framed(Turned(g).snap, Turned(g).series) => Passed(Turned(g))
  <2>1. Turned(g).snap = g.snap /\ Turned(g).series = g.series
    BY <1>1, <1>2, TurnedIs
  <2>2. Framed(g.snap, g.series) => Passed(g)
    BY <1>1 DEF DatafeedInv, ReadsPassed, Reading
  <2> HIDE DEF g
  <2>3. QED  BY <1>1, <1>2, <2>1, <2>2, PassedStep
<1> HIDE DEF g
<1>6. QED  BY <1>1, <1>3, <1>4, <1>5, ReaderInv

LEMMA EndInv ==
  ASSUME DatafeedInv, NEW r \in Readers, GetEnd(r)
  PROVE  DatafeedInv'
<1>1. /\ TypeOK /\ readers' = [readers EXCEPT ![r] = NoRead]
      /\ UNCHANGED <<db, handle, cleaning, calls, opened, listed, stats, form, alive, used>>
  BY DEF GetEnd, DatafeedInv, window
<1>2. used' \in [{"calls", "gets", "clicks"} -> Nat]
  BY <1>1 DEF TypeOK
<1>3. ReadOK(NoRead) /\ NoRead.loop = "idle"
  BY DEF ReadOK, NoRead
<1>4. QED  BY <1>1, <1>2, <1>3, ReaderInv

\* A listing that has been refreshed is of contracts that have their frames.
LEMMA ListingFramed ==
  ASSUME DatafeedInv, handle, NEW c \in ContractsListed(db)
  PROVE  c \in Contracts /\ \A s \in SeriesOf(c) : Framed(db, s)
<1>1. StoreOK(db) /\ (DOMAIN db = {} \/ Framed(db, ContractSeries))
  BY DEF DatafeedInv, TypeOK, Emptied, StoreFramed
<1>2. QED  BY <1>1, ListedIs DEF DatafeedInv, StoreFramed

LEMMA StatsFramed ==
  ASSUME DatafeedInv, handle, NEW row \in StatRows(db)
  PROVE  row \in AllSeries \X Keys \X Keys /\ Framed(db, row[1])
<1>1. PICK c \in ContractsListed(db) : \E s \in StatSeries(c) : row = StatRow(db, s)
  BY DEF StatRows
<1>2. PICK s \in StatSeries(c) : row = StatRow(db, s)
  BY <1>1
<1>3. row[2] # End /\ row[3] # End
  BY DEF StatRows
<1>4. s \in SeriesOf(c)
  BY <1>2, PeriodNumbers DEF StatSeries, SeriesOf
<1>5. s \in AllSeries /\ Framed(db, s)
  BY <1>4, ListingFramed, SeriesOfIs
<1>6. /\ Oldest(db, s) \in DOMAIN db \cup {End} /\ Newest(db, s) \in DOMAIN db \cup {End}
      /\ DOMAIN db \subseteq Keys
  BY OldestType, StoreIs DEF DatafeedInv, TypeOK
<1>7. row = <<s, Oldest(db, s), Newest(db, s)>>
  BY <1>2 DEF StatRow
<1>8. QED  BY <1>3, <1>5, <1>6, <1>7

LEMMA TailRefreshed ==
  ASSUME TypeOK, NEW slot, NEW taken, OnOpened(taken), slot # taken, Refreshed(slot)'
  PROVE  Refreshed(slot)
<1>1. /\ opened \in Seq({"contract", "stat"}) /\ opened # <<>>
      /\ opened[1] = taken /\ opened' = Tail(opened)
  BY DEF OnOpened, TypeOK
<1>2. ASSUME NEW i \in DOMAIN opened, i # 1
      PROVE  opened[i] # slot
  <2>1. i - 1 \in DOMAIN opened' /\ opened'[i - 1] = opened[i]
    BY <1>1, <1>2
  <2>2. QED  BY <2>1 DEF Refreshed
<1>3. QED  BY <1>1, <1>2 DEF Refreshed

\* What both listings of the window do alike: a click, or a slot of opened().
LEMMA RefreshMoves ==
  ASSUME TypeOK, NEW taken \in {"contract", "stat"}, Click \/ OnOpened(taken)
  PROVE  /\ used' \in [{"calls", "gets", "clicks"} -> Nat]
         /\ opened' \in Seq({"contract", "stat"})
         /\ \A slot \in {"contract", "stat"} \ {taken} : Refreshed(slot)' => Refreshed(slot)
<1>1. CASE Click
  <2>1. opened' = opened /\ used' \in [{"calls", "gets", "clicks"} -> Nat]
    BY <1>1, UseType DEF Click
  <2>2. QED  BY <2>1 DEF TypeOK, Refreshed
<1>2. CASE OnOpened(taken)
  <2>1. /\ used' \in [{"calls", "gets", "clicks"} -> Nat]
        /\ opened' \in Seq({"contract", "stat"})
    BY <1>2 DEF OnOpened, TypeOK
  <2>2. QED  BY <1>2, <2>1, TailRefreshed
<1>3. QED  BY <1>1, <1>2

LEMMA ContractRefreshInv ==
  ASSUME DatafeedInv, ContractRefreshButton \/ ContractOnOpened
  PROVE  DatafeedInv'
<1>1. TypeOK /\ ContractRefresh /\ (Click \/ OnOpened("contract")) /\ stats' = stats
  BY DEF DatafeedInv, ContractRefreshButton, ContractOnOpened, ContractRefresh
<1>2. /\ used' \in [{"calls", "gets", "clicks"} -> Nat]
      /\ opened' \in Seq({"contract", "stat"})
      /\ Refreshed("stat")' => Refreshed("stat")
  BY <1>1, RefreshMoves
<1>3. CASE ~ handle
  BY <1>1, <1>2, <1>3, DieInv DEF ContractRefresh
<1>4. CASE handle
  <2>1. /\ listed' = ContractsListed(db)
        /\ UNCHANGED <<db, handle, cleaning, calls, readers, form, alive>>
    BY <1>1, <1>4 DEF ContractRefresh
  <2>2. \A c \in listed' : c \in Contracts /\ \A s \in SeriesOf(c) : Framed(db, s)
    BY <1>4, <2>1, ListingFramed
  <2>3. TypeOK'
    BY <1>1, <1>2, <2>1, <2>2 DEF TypeOK
  <2>4. WindowFramed'
    <3>1. WindowFramed
      BY DEF DatafeedInv
    <3>2. QED  BY <1>1, <1>2, <2>1, <2>2, <3>1 DEF WindowFramed
  <2>5. QED  BY <2>1, <2>3, <2>4, ReadsKept, RowsKept, StoreKept DEF DatafeedInv
<1>5. QED  BY <1>3, <1>4

LEMMA StatRefreshInv ==
  ASSUME DatafeedInv, StatRefreshButton \/ StatOnOpened
  PROVE  DatafeedInv'
<1>1. TypeOK /\ StatRefresh /\ (Click \/ OnOpened("stat")) /\ listed' = listed
  BY DEF DatafeedInv, StatRefreshButton, StatOnOpened, StatRefresh
<1>2. /\ used' \in [{"calls", "gets", "clicks"} -> Nat]
      /\ opened' \in Seq({"contract", "stat"})
      /\ Refreshed("contract")' => Refreshed("contract")
  BY <1>1, RefreshMoves
<1>3. CASE ~ handle
  BY <1>1, <1>2, <1>3, DieInv DEF StatRefresh
<1>4. CASE handle
  <2>1. /\ stats' = StatRows(db)
        /\ UNCHANGED <<db, handle, cleaning, calls, readers, form, alive>>
    BY <1>1, <1>4 DEF StatRefresh
  <2>2. \A row \in stats' : row \in AllSeries \X Keys \X Keys /\ Framed(db, row[1])
    BY <1>4, <2>1, StatsFramed
  <2>3. stats' \subseteq AllSeries \X Keys \X Keys
    BY <2>2
  <2>4. TypeOK'
    BY <1>1, <1>2, <2>1, <2>3 DEF TypeOK
  <2>5. WindowFramed'
    <3>1. WindowFramed
      BY DEF DatafeedInv
    <3>2. QED  BY <1>1, <1>2, <2>1, <2>2, <3>1 DEF WindowFramed
  <2>6. QED  BY <2>1, <2>4, <2>5, ReadsKept, RowsKept, StoreKept DEF DatafeedInv
<1>5. QED  BY <1>3, <1>4

LEMMA PageInv ==
  ASSUME DatafeedInv, NEW s \in AllSeries, PageShown(s)
  PROVE  DatafeedInv'
<1>1. PICK rows \in SUBSET (DOMAIN db) :
        \E last \in rows \cup {End} : \E within \in BOOLEAN :
          /\ Click /\ UNCHANGED <<listed, stats>>
          /\ Show(s, rows, last, within)
          /\ RowsFit(s, rows, within)
  BY DEF PageShown
<1>2. PICK last \in rows \cup {End}, within \in BOOLEAN :
        /\ Click /\ UNCHANGED <<listed, stats>>
        /\ Show(s, rows, last, within)
        /\ RowsFit(s, rows, within)
  BY <1>1
<1>3. TypeOK /\ StoreOK(db) /\ opened' = opened
  BY <1>2 DEF Click, DatafeedInv, TypeOK
<1>4. used' \in [{"calls", "gets", "clicks"} -> Nat] /\ opened' \in Seq({"contract", "stat"})
  BY <1>2, <1>3, UseType DEF Click, TypeOK
<1>5. CASE ~ handle
  BY <1>2, <1>3, <1>4, <1>5, DieInv DEF Show
<1>6. CASE handle
  <2>1. /\ form' = [series |-> s, rows |-> rows, last |-> last,
                    framed |-> within /\ Framed(db, s)]
        /\ UNCHANGED <<db, handle, cleaning, calls, readers, alive>>
    BY <1>2, <1>6 DEF Show, Die
  <2>2. /\ form'.series = s /\ form'.rows = rows /\ form'.last = last
        /\ form'.framed = (within /\ Framed(db, s))
    BY <2>1
  <2>3. rows \subseteq Keys /\ \A k \in rows : k[4] \notin {First, Last}
    BY <1>2, <1>3 DEF RowsFit, StoreOK, ItemOK
  <2>4. TypeOK'
    <3>1. form'.framed \in BOOLEAN
      BY <2>2
    <3>2. QED  BY <1>2, <1>3, <1>4, <2>1, <2>2, <2>3, <3>1 DEF TypeOK
  <2>5. RowsInside'
    BY <1>2, <2>2, <2>3 DEF RowsFit, RowsInside
  <2>6. WindowFramed'
    BY <1>2, <1>3, <2>1, WindowKept DEF DatafeedInv
  <2>7. QED  BY <2>1, <2>4, <2>5, <2>6, ReadsKept, StoreKept DEF DatafeedInv
<1>7. QED  BY <1>5, <1>6

LEMMA DelRowIs ==
  ASSUME DatafeedInv, DelRow, handle
  PROVE  \E k \in form.rows :
           /\ k[4] \notin {First, Last}
           /\ db' = Delete(db, {k}) /\ StoreOK(db') /\ DOMAIN db' = DOMAIN db \ {k}
           /\ UNCHANGED <<handle, cleaning, calls, readers, form, alive>>
<1>1. PICK k \in form.rows : DelButton(k)
  BY DEF DelRow
<1>2. k[4] \notin {First, Last} /\ StoreOK(db)
  BY DEF DatafeedInv, RowsInside, TypeOK
<1>3. db' = Delete(db, {k}) /\ UNCHANGED <<handle, cleaning, calls, readers, form, alive>>
  BY <1>1 DEF DelButton
<1>4. StoreOK(db') /\ DOMAIN db' = DOMAIN db \ {k}
  BY <1>2, <1>3, DeleteIs
<1>5. QED  BY <1>2, <1>3, <1>4

LEMMA DelInv ==
  ASSUME DatafeedInv, DelRow
  PROVE  DatafeedInv'
<1>1. TypeOK /\ Click /\ UNCHANGED <<listed, stats>>
  BY DEF DelRow, DelButton, DatafeedInv
<1>2. /\ used' \in [{"calls", "gets", "clicks"} -> Nat]
      /\ opened' = opened /\ opened' \in Seq({"contract", "stat"})
  BY <1>1, UseType DEF Click, TypeOK
<1>3. CASE ~ handle
  <2>1. Die
    BY <1>3 DEF DelRow, DelButton
  <2>2. QED  BY <1>1, <1>2, <1>3, <2>1, DieInv
<1>4. CASE handle
  <2>1. PICK k \in form.rows :
          /\ k[4] \notin {First, Last}
          /\ StoreOK(db') /\ DOMAIN db' = DOMAIN db \ {k}
          /\ UNCHANGED <<handle, cleaning, calls, readers, form, alive>>
    BY <1>4, DelRowIs
  <2>2. TypeOK'
    BY <1>1, <1>2, <2>1 DEF TypeOK
  <2>3. \A s \in AllSeries : Framed(db, s) => Framed(db', s)
    BY <2>1, FramesKept
  <2>4. Emptied' /\ StoreFramed'
    <3>1. Emptied /\ StoreFramed
      BY DEF DatafeedInv
    <3>2. Emptied'
      BY <2>1, <3>1 DEF Emptied
    <3>3. \A c \in Contracts : \A s \in SeriesOf(c) : s \in AllSeries
      BY SeriesOfIs
    <3>4. ContractSeries \in AllSeries
      BY DEF AllSeries
    <3>5. QED  BY <2>1, <2>3, <3>1, <3>2, <3>3, <3>4 DEF StoreFramed
  <2>5. WindowFramed'
    BY <1>1, <1>2, <2>1, <2>3, WindowKept DEF DatafeedInv
  <2>6. QED  BY <2>1, <2>2, <2>4, <2>5, ReadsKept, RowsKept DEF DatafeedInv
<1>5. QED  BY <1>3, <1>4

LEMMA InvNext ==
  ASSUME DatafeedInv, Next
  PROVE  DatafeedInv'
<1>1. TypeOK /\ RowsInside
  BY DEF DatafeedInv
<1>2. QED
  BY <1>1, Steps, AcceptInv, WriteInv, CleanInv, DbInitInv, StartInv, TurnInv, EndInv,
     ContractRefreshInv, StatRefreshInv, PageInv, DelInv

LEMMA InvStutter ==
  ASSUME DatafeedInv, UNCHANGED vars
  PROVE  DatafeedInv'
<1>1. UNCHANGED <<db, handle, cleaning, calls, readers, opened, listed, stats, form, alive, used>>
  BY DEF vars, window
<1>2. TypeOK'
  BY <1>1 DEF DatafeedInv, TypeOK
<1>3. WindowFramed'
  BY <1>1, WindowKept DEF DatafeedInv
<1>4. QED  BY <1>1, <1>2, <1>3, ReadsKept, RowsKept, StoreKept DEF DatafeedInv

-----------------------------------------------------------------------------
(* The start *)

\* The contracts that earlier runs have left, and the records.
LEMMA LeftContracts ==
  ASSUME NEW C \in SUBSET Contracts,
         NEW items, items = [k \in {ContractKey(c) : c \in C} |-> "item"]
  PROVE  StoreOK(items) /\ DOMAIN items = {ContractKey(c) : c \in C}
<1>1. ASSUME NEW k \in DOMAIN items
      PROVE  k \in Keys /\ items[k] \in Items /\ ItemOK(items, k)
  <2>1. PICK c \in C : k = ContractKey(c)
    BY <1>1
  <2>2. k \in Keys /\ k[4] \notin {First, Last} /\ k[1] # Bars
    BY <2>1, Numbered, PeriodNumbers DEF ContractKey, KeyOf, ContractSeries, Keys
  <2>3. items[k] = "item"
    BY <1>1
  <2>4. QED  BY <2>2, <2>3 DEF Items, ItemOK
<1>2. QED  BY <1>1 DEF StoreOK

LEMMA LeftRecords ==
  ASSUME NEW items, DOMAIN items \subseteq RecordKeys,
         \A k \in DOMAIN items : items[k] \in RecordItems(k)
  PROVE  StoreOK(items)
<1>1. ASSUME NEW k \in DOMAIN items
      PROVE  k \in Keys /\ items[k] \in Items /\ ItemOK(items, k)
  <2>1. k \in Keys /\ k[4] \notin {First, Last}
    BY <1>1, RecordMarks
  <2>2. IF k[1] = Bars THEN items[k] \in Periods /\ PeriodText[items[k]] = k[3]
                       ELSE items[k] = "item"
    BY <1>1 DEF RecordItems
  <2>3. QED  BY <2>1, <2>2 DEF Items, Periods, ItemOK
<1>2. QED  BY <1>1 DEF StoreOK

LEMMA LeftStoreIs ==
  ASSUME NEW left \in Left
  PROVE  /\ StoreOK(LeftStore(left)) /\ Framed(LeftStore(left), ContractSeries)
         /\ \A c \in Contracts : ContractKey(c) \in DOMAIN LeftStore(left) =>
              \A s \in SeriesOf(c) : Framed(LeftStore(left), s)
<1> DEFINE frames == FrameKeys(ContractSeries)
                       \cup UNION {UNION {FrameKeys(s) : s \in SeriesOf(c)} : c \in left.framed}
           held == [k \in {ContractKey(c) : c \in left.known} |-> "item"]
           items == Put(held, left.records)
           keys == {ContractKey(c) : c \in left.known} \cup DOMAIN left.records
<1>1. /\ left.framed \subseteq Contracts /\ left.known \subseteq left.framed
      /\ DOMAIN left.records \subseteq RecordKeys
      /\ \A k \in DOMAIN left.records : left.records[k] \in RecordItems(k)
  BY LeftAssumption
<1>2. ContractSeries \in AllSeries /\ \A c \in left.framed : SeriesOf(c) \subseteq AllSeries
  BY <1>1, SeriesOfIs DEF AllSeries
<1>3. frames \in SUBSET Keys /\ \A k \in frames : k[4] \in {First, Last}
  BY <1>2, Frames DEF FrameKeys
<1>4. StoreOK(NullItems(frames)) /\ DOMAIN NullItems(frames) = frames
  BY <1>3, NullItemsAre
<1>5. StoreOK(items) /\ DOMAIN items = keys
  <2>1. StoreOK(held) /\ DOMAIN held = {ContractKey(c) : c \in left.known}
    BY <1>1, LeftContracts
  <2>2. StoreOK(left.records)
    BY <1>1, LeftRecords
  <2> HIDE DEF held
  <2>3. QED  BY <2>1, <2>2, PutIs
<1>6. LeftStore(left) = Put(NullItems(frames), items)
  BY DEF LeftStore
<1>7. StoreOK(LeftStore(left)) /\ DOMAIN LeftStore(left) = frames \cup keys
  <2> HIDE DEF frames, keys, items
  <2>1. ASSUME NEW nulls, nulls = NullItems(frames)
        PROVE  /\ StoreOK(Put(nulls, items))
               /\ DOMAIN Put(nulls, items) = DOMAIN nulls \cup DOMAIN items
    BY <1>4, <1>5, <2>1, PutIs
  <2>2. QED  BY <1>4, <1>5, <1>6, <2>1
<1>8. Framed(LeftStore(left), ContractSeries)
  BY <1>7 DEF Framed
<1>9. ASSUME NEW c \in Contracts, ContractKey(c) \in DOMAIN LeftStore(left), NEW s \in SeriesOf(c)
      PROVE  Framed(LeftStore(left), s)
  <2>1. ContractKey(c)[4] \notin {First, Last} /\ ContractKey(c)[1] = ContractTable
        /\ ContractKey(c)[4] = c
    BY Numbered DEF ContractKey, KeyOf, ContractSeries
  <2>2. ContractKey(c) \notin frames /\ ContractKey(c) \notin DOMAIN left.records
    BY <1>1, <1>3, <2>1, RecordMarks
  <2>3. PICK d \in left.known : ContractKey(c) = ContractKey(d)
    BY <1>7, <1>9, <2>2
  <2>4. c \in left.framed
    BY <1>1, <2>1, <2>3 DEF ContractKey, KeyOf
  <2>5. FrameKeys(s) \subseteq frames
    BY <2>4
  <2> HIDE DEF frames, keys
  <2>6. QED  BY <1>7, <2>5 DEF Framed
<1>10. QED  BY <1>7, <1>8, <1>9

LEMMA InvInit ==
  ASSUME Init
  PROVE  DatafeedInv
<1>1. PICK left \in Left : db = LeftStore(left)
  BY DEF Init
<1>2. /\ handle = TRUE /\ cleaning = "none" /\ calls = <<>> /\ listed = {} /\ stats = {}
      /\ readers = [r \in Readers |-> NoRead] /\ form = NoForm /\ alive = TRUE /\ used = NoUse
      /\ opened \in {<<>>, <<"contract">>, <<"contract", "stat">>}
  BY DEF Init
<1>3. /\ StoreOK(db) /\ Framed(db, ContractSeries)
      /\ \A c \in Contracts : ContractKey(c) \in DOMAIN db => \A s \in SeriesOf(c) : Framed(db, s)
  BY <1>1, LeftStoreIs
<1>4. TypeOK
  <2>1. /\ form.series = <<>> /\ form.rows = {} /\ form.last = End /\ form.framed = FALSE
    BY <1>2 DEF NoForm
  <2>2. used \in [{"calls", "gets", "clicks"} -> Nat]
    BY <1>2 DEF NoUse
  <2>3. calls \in Seq(Calls) /\ opened \in Seq({"contract", "stat"})
    <3>1. /\ <<>> \in Seq(Calls) /\ <<>> \in Seq({"contract", "stat"})
          /\ <<"contract">> \in Seq({"contract", "stat"})
          /\ <<"contract", "stat">> \in Seq({"contract", "stat"})
      OBVIOUS
    <3>2. QED  BY <1>2, <3>1
  <2>4. DOMAIN readers = Readers /\ \A r \in Readers : ReadOK(readers[r])
    BY <1>2 DEF ReadOK
  <2>5. QED  BY <1>2, <1>3, <2>1, <2>2, <2>3, <2>4 DEF TypeOK
<1>5. Emptied /\ StoreFramed /\ WindowFramed
  BY <1>2, <1>3 DEF Emptied, StoreFramed, WindowFramed
<1>6. RowsInside /\ ReadsPassed
  BY <1>2 DEF RowsInside, ReadsPassed, Reading, NoForm, NoRead
<1>7. QED  BY <1>4, <1>5, <1>6 DEF DatafeedInv

-----------------------------------------------------------------------------
(* What the invariant gives *)

\* All parts of the inductive invariant together, from the writes of the DB thread, cleanAll,
\* the reads on the gRPC threads, and the refreshes, pages and deletions of the window.
THEOREM DatafeedInvariant == Spec => []DatafeedInv
<1>1. Init => DatafeedInv
  BY InvInit
<1>2. DatafeedInv /\ [Next]_vars => DatafeedInv'
  BY InvNext, InvStutter
<1>3. QED  BY <1>1, <1>2, PTL DEF Spec

\* The store holds items of the right kind under every key (a first or a last key an empty
\* item and no other key one, a bar lies under its period), the handle is null exactly while
\* cleanAll has the database closed, and every reader is at a place of its iterator.
THEOREM TypeCorrect == Spec => []TypeOK
<1>1. DatafeedInv => TypeOK
  BY DEF DatafeedInv
<1>2. QED  BY <1>1, DatafeedInvariant, PTL

\* A contract that insertContract has stored, and every series that ContractForm or StatForm
\* lists, has its first and its last key, outside cleanAll and the refresh that follows it.
THEOREM ListedAlwaysFramed == Spec => []ListedFramed
<1>1. DatafeedInv => ListedFramed
  <2>1. SUFFICES ASSUME DatafeedInv PROVE ListedFramed
    OBVIOUS
  <2>2. opened = <<>> => Refreshed("contract") /\ Refreshed("stat")
    BY DEF Refreshed
  <2>3. QED  BY <2>1, <2>2 DEF DatafeedInv, StoreFramed, WindowFramed, ListedFramed
<1>2. QED  BY <1>1, DatafeedInvariant, PTL

\* The loops of getTick, getBar and getContract and the pages of TickForm and BarForm never
\* give out a record of a neighbouring series or an empty item, as far as the first and the
\* last key of the series were in the database that they looked at.
THEOREM ReadsAlwaysInSeries == Spec => []ReadsStayInSeries
<1>1. DatafeedInv => ReadsStayInSeries
  <2>1. SUFFICES ASSUME DatafeedInv PROVE ReadsStayInSeries
    OBVIOUS
  <2>2. ASSUME NEW r \in Readers, Reading(r), Framed(readers[r].snap, readers[r].series)
        PROVE  \A k \in readers[r].out : InSeries(k, readers[r].series)
    <3>1. ReadOK(readers[r]) /\ Passed(readers[r]) /\ readers[r] # NoRead
      BY <2>1, <2>2 DEF DatafeedInv, TypeOK, ReadsPassed, Reading, NoRead
    <3>2. QED  BY <2>2, <3>1, PassedInSeries
  <2>3. QED  BY <2>1, <2>2 DEF DatafeedInv, RowsInside, ReadsStayInSeries
<1>2. QED  BY <1>1, DatafeedInvariant, PTL

\* A loop of getTick, getBar or getContract that has ended has left out no record that the
\* request names and added none, at either end of the series, but for one record that a
\* read of the newest ones may give from behind the cut-off.  Reads of a series in which bars
\* of two periods lie under one key text are no part of this.
THEOREM ReadsAlwaysMatch == Spec => []ReadMatchesRequest
<1>1. DatafeedInv => ReadMatchesRequest
  <2>1. SUFFICES ASSUME DatafeedInv PROVE ReadMatchesRequest
    OBVIOUS
  <2>2. ASSUME NEW r \in Readers, Reading(r), Framed(readers[r].snap, readers[r].series),
               Ends(readers[r]), OfOnePeriod(readers[r])
        PROVE  GivesNamed(readers[r])
    <3>1. ReadOK(readers[r]) /\ Passed(readers[r]) /\ readers[r] # NoRead
      BY <2>1, <2>2 DEF DatafeedInv, TypeOK, ReadsPassed, Reading, NoRead
    <3>2. QED  BY <2>2, <3>1, PassedAll
  <2>3. QED  BY <2>2 DEF ReadMatchesRequest
<1>2. QED  BY <1>1, DatafeedInvariant, PTL

\* How a tick or a bar may leave the database.
MayLose(k) ==
  \/ /\ calls # <<>> /\ Head(calls).op = "deleteTick"
     /\ InSeries(k, TickSeries(Head(calls).c))
     /\ Head(calls).from <= k[4] /\ k[4] <= Head(calls).to
  \/ k \in form.rows /\ used' # used
  \/ cleaning' = "reset"

LEMMA StepLoses ==
  ASSUME DatafeedInv, Next, NEW k \in DOMAIN db \ DOMAIN db', k \in RecordKeys
  PROVE  MayLose(k)
<1>1. db' # db
  OBVIOUS
<1>2. TypeOK /\ RowsInside
  BY DEF DatafeedInv
<1>3. Write \/ DbReset \/ DbInit \/ DelRow
  <2>1. ~ \E ops : Accept(ops)
    BY <1>1 DEF Accept
  <2>2. ~ (DbClose \/ DbOpen \/ ContractRefreshButton \/ ContractOnOpened
             \/ StatRefreshButton \/ StatOnOpened)
    BY <1>1 DEF DbClose, DbOpen, ContractRefreshButton, ContractOnOpened, StatRefreshButton,
               StatOnOpened, ContractRefresh, StatRefresh, Die
  <2>3. ~ \E r \in Readers : ReadStarts(r) \/ GetContract(r) \/ GetStep(r) \/ GetEnd(r)
    BY <1>1 DEF ReadStarts, GetContract, GetStep, GetEnd, Die
  <2>4. ~ \E s \in AllSeries : PageShown(s)
    BY <1>1 DEF PageShown, Show, Die
  <2>5. QED  BY <1>2, <2>1, <2>2, <2>3, <2>4, Steps
<1>4. CASE Write
  <2>1. /\ Head(calls) \in Calls /\ Head(calls).op # "cleanAll" /\ calls # <<>>
        /\ db' = Written(db, Head(calls)) /\ StoreOK(db)
    BY <1>2, <1>4 DEF Write, TypeOK
  <2>2. QED  BY <2>1, WrittenIs DEF MayLose
<1>5. CASE DbReset
  BY <1>5 DEF DbReset, MayLose
<1>6. CASE DbInit
  <2>1. DOMAIN db = {}
    BY <1>6 DEF DbInit, DatafeedInv, Emptied
  <2>2. QED  BY <2>1
<1>7. CASE DelRow
  <2>1. handle
    BY <1>1, <1>7 DEF DelRow, DelButton, Die
  <2>2. PICK row \in form.rows : DOMAIN db' = DOMAIN db \ {row}
    BY <1>7, <2>1, DelRowIs
  <2>3. used' # used
    BY <1>2, <1>7, UseType DEF DelRow, DelButton, Click
  <2>4. QED  BY <2>2, <2>3 DEF MayLose
<1>8. QED  BY <1>3, <1>4, <1>5, <1>6, <1>7

\* A tick or a bar leaves the database only by a deleteTick whose interval it is in, by the
\* del button of the window on a row that it shows, or by cleanAll.
THEOREM NothingElseEverLost == Spec => NothingElseLost
<1>1. DatafeedInv /\ [Next]_vars =>
        [\A k \in DOMAIN db \ DOMAIN db' : k \in RecordKeys => MayLose(k)]_vars
  BY StepLoses
<1>2. QED  BY <1>1, DatafeedInvariant, PTL DEF Spec, NothingElseLost, MayLose

-----------------------------------------------------------------------------
(* NezipDump: the data of a dump *)

Data == Labels \cup {Other}

IndexFramed ==
  /\ step \in {"loop", "take", "insert"} => indexed
  /\ step = "index" => ~indexed /\ through \cap Index \subseteq contracts \cup todo
  /\ indexed => through \cap Index \subseteq contracts
  /\ ~indexed => bars = {}

-----------------------------------------------------------------------------
(* Sequences *)

\* A take splits a list in two.
LEMMA TakenAndRest ==
  ASSUME NEW s \in Seq(Data)
  PROVE  /\ Taken(s) \in Seq(Data) /\ Rest(s) \in Seq(Data)
         /\ Len(s) \in Nat /\ Len(Taken(s)) \in Nat /\ Len(Rest(s)) \in Nat
         /\ Len(Taken(s)) + Len(Rest(s)) = Len(s)
<1>1. Batch \in Nat \ {0} /\ Len(s) \in Nat
  BY BatchAssumption
<1>2. CASE Len(s) < Batch
  <2>1. Taken(s) = SubSeq(s, 1, Len(s))
    BY <1>2 DEF Taken
  <2>2. Rest(s) = <<>>
    BY <1>1, <1>2 DEF Rest
  <2>3. Taken(s) \in Seq(Data) /\ Len(Taken(s)) = Len(s)
    BY <1>1, <2>1
  <2>4. QED  BY <1>1, <2>2, <2>3
<1>3. CASE ~(Len(s) < Batch)
  <2>1. Taken(s) = SubSeq(s, 1, Batch)
    BY <1>3 DEF Taken
  <2>2. Taken(s) \in Seq(Data) /\ Len(Taken(s)) = Batch
    BY <1>1, <1>3, <2>1
  <2>3. Rest(s) \in Seq(Data) /\ Len(Rest(s)) = Len(s) - Batch
    BY <1>1, <1>3 DEF Rest
  <2>4. QED  BY <1>1, <2>2, <2>3
<1>4. QED  BY <1>2, <1>3

\* A packet is a sequence of data.
LEMMA PacketIs ==
  ASSUME DumpTypeOK, NEW packet \in Packets
  PROVE  packet \in Seq(Data) /\ Len(packet) \in Nat
<1>1. PICK n \in 1..MaxPacket : packet \in [1..n -> tags \cup {Other}]
  BY DEF Packets
<1>2. n \in Nat /\ tags \cup {Other} \subseteq Data
  BY <1>1, BoundsAssumption DEF DumpTypeOK, Data
<1>3. packet \in [1..n -> Data]
  BY <1>1, <1>2
<1>4. QED  BY <1>2, <1>3

LEMMA AppendedIs ==
  ASSUME NEW s \in Seq(Data), NEW t \in Seq(Data)
  PROVE  s \o t \in Seq(Data) /\ Len(s \o t) = Len(s) + Len(t)
  OBVIOUS

LEMMA BatchTail ==
  ASSUME DumpTypeOK, batch # <<>>
  PROVE  /\ Tail(batch) \in Seq(Data) /\ Len(batch) \in Nat
         /\ Len(Tail(batch)) \in Nat /\ Len(batch) = Len(Tail(batch)) + 1
  BY DEF DumpTypeOK, Data

\* What waits when one list changes.
LEMMA WaitingIs ==
  ASSUME DumpTypeOK, NEW k \in Kinds, NEW s \in Seq(Data), list' = [list EXCEPT ![k] = s]
  PROVE  /\ list' \in [Kinds -> Seq(Data)]
         /\ Waiting \in Nat /\ Waiting' = Waiting - Len(list[k]) + Len(s)
<1>1. /\ list \in [Kinds -> Seq(Data)] /\ Len(s) \in Nat
      /\ list' \in [Kinds -> Seq(Data)] /\ list'[k] = s
      /\ \A j \in Kinds : j # k => list'[j] = list[j]
  BY DEF DumpTypeOK, Data
<1>2. \A j \in Kinds : Len(list[j]) \in Nat
  BY <1>1
<1>3. \A j \in {"day", "min1", "min5", "tick"} : j \in Kinds
  BY DEF Kinds
<1>4. CASE k = "day"
  BY <1>1, <1>2, <1>3, <1>4 DEF Waiting
<1>5. CASE k = "min1"
  BY <1>1, <1>2, <1>3, <1>5 DEF Waiting
<1>6. CASE k = "min5"
  BY <1>1, <1>2, <1>3, <1>6 DEF Waiting
<1>7. CASE k = "tick"
  BY <1>1, <1>2, <1>3, <1>7 DEF Waiting
<1>8. QED  BY <1>4, <1>5, <1>6, <1>7 DEF Kinds

-----------------------------------------------------------------------------
(* Types *)

LEMMA SpendType ==
  ASSUME DumpTypeOK, NEW what \in {"clicks", "errors"}, NEW limit, Spend(what, limit)
  PROVE  /\ spent' \in [{"clicks", "errors"} -> Nat] /\ spent'[what] > 0
         /\ spent["errors"] > 0 => spent'["errors"] > 0
  BY DEF DumpTypeOK, Spend

LEMMA CountedType ==
  ASSUME DumpTypeOK, NEW c \in Tallies, NEW n \in Nat, Counted(c, n)
  PROVE  /\ count' \in [Tallies -> Nat] /\ count'[c] = count[c] + n
         /\ \A d \in Tallies : d # c => count'[d] = count[d]
  BY DEF DumpTypeOK, Counted

LEMMA DumpTypeSources ==
  ASSUME DumpTypeOK, Sources
  PROVE  DumpTypeOK'
<1>1. CASE LoadDrv
  BY <1>1 DEF LoadDrv, DumpTypeOK, pushVars, datafeedVars
<1>2. CASE AskDataButton
  <2>1. spent' \in [{"clicks", "errors"} -> Nat]
    BY <1>2, SpendType DEF AskDataButton
  <2>2. QED  BY <1>2, <2>1 DEF AskDataButton, DumpTypeOK, pushVars, datafeedVars
<1>3. ASSUME NEW l \in Labels, AskData(l)
      PROVE  DumpTypeOK'
  BY <1>3 DEF AskData, DumpTypeOK, pushVars, datafeedVars
<1>4. ASSUME NEW k \in Kinds, NEW packet \in Packets, Merge(k, packet)
      PROVE  DumpTypeOK'
  <2>1. count' \in [Tallies -> Nat]
    BY <1>4, PacketIs, CountedType DEF Merge, Tallies
  <2>2. list' \in [Kinds -> Seq(Data)]
    BY <1>4, PacketIs, AppendedIs DEF Merge, DumpTypeOK, Data
  <2>3. QED  BY <1>4, <2>1, <2>2 DEF Merge, DumpTypeOK, Data, gatewayVars, pushVars, datafeedVars
<1>5. CASE OnCallBack
  BY <1>4, <1>5 DEF OnCallBack, HandleDaydata, HandleMindata, HandleTick, Kinds
<1>6. QED  BY <1>1, <1>2, <1>3, <1>5 DEF Sources

LEMMA DumpTypePush ==
  ASSUME DumpTypeOK, Push
  PROVE  DumpTypeOK'
<1>1. CASE StillReceiving
  <2>1. seen' \in [Kinds -> Nat]
    BY <1>1 DEF StillReceiving, Sizes, DumpTypeOK
  <2>2. QED  BY <1>1, <2>1 DEF StillReceiving, DumpTypeOK, gatewayVars, datafeedVars
<1>2. CASE OnPing
  BY <1>2 DEF OnPing, DumpTypeOK, gatewayVars, datafeedVars
<1>3. ASSUME NEW l \in Index, PushIndex(l)
      PROVE  DumpTypeOK'
  BY <1>3 DEF PushIndex, DumpTypeOK, gatewayVars
<1>4. CASE PushIndexEnds \/ PushFinished \/ RoundEnds \/ BatchEnds
  BY <1>4 DEF PushIndexEnds, PushFinished, RoundEnds, BatchEnds, DumpTypeOK, gatewayVars, datafeedVars
<1>5. CASE PushRound
  BY <1>5 DEF PushRound, DumpTypeOK, gatewayVars, datafeedVars
<1>6. ASSUME NEW k \in Kinds, TakeList(k)
      PROVE  DumpTypeOK'
  <2>1. list[k] \in Seq(Data)
    BY DEF DumpTypeOK, Data
  <2>2. batch' \in Seq(Data) /\ list' \in [Kinds -> Seq(Data)]
    BY <1>6, <2>1, TakenAndRest, WaitingIs DEF TakeList
  <2>3. QED  BY <1>6, <2>2 DEF TakeList, DumpTypeOK, Data, gatewayVars, datafeedVars
<1>7. CASE Skip
  <2>1. count' \in [Tallies -> Nat] /\ batch' \in Seq(Data)
    BY <1>7, CountedType, BatchTail DEF Skip, Tallies
  <2>2. QED  BY <1>7, <2>1 DEF Skip, DumpTypeOK, Data, gatewayVars, datafeedVars
<1>8. CASE PushBar
  <2>1. count' \in [Tallies -> Nat] /\ batch' \in Seq(Data)
    BY <1>8, CountedType, BatchTail DEF PushBar, Tallies
  <2>2. QED  BY <1>8, <2>1 DEF PushBar, DumpTypeOK, Data, gatewayVars
<1>9. QED  BY <1>1, <1>2, <1>3, <1>4, <1>5, <1>6, <1>7, <1>8 DEF Push

LEMMA DumpTypeFailures ==
  ASSUME DumpTypeOK, Failures
  PROVE  DumpTypeOK'
<1>1. Error => spent' \in [{"clicks", "errors"} -> Nat]
  BY SpendType DEF Error
<1>2. CASE PingFails
  BY <1>1, <1>2 DEF PingFails, DumpTypeOK, gatewayVars, datafeedVars
<1>3. ASSUME NEW l \in Index, PushIndexFails(l)
      PROVE  DumpTypeOK'
  BY <1>1, <1>3 DEF PushIndexFails, MayHave, DumpTypeOK, gatewayVars
<1>4. CASE PushBarFails
  <2>1. count' \in [Tallies -> Nat]
    BY <1>4, CountedType, BatchTail DEF PushBarFails, Tallies
  <2>2. QED  BY <1>1, <1>4, <2>1 DEF PushBarFails, MayHave, DumpTypeOK, gatewayVars
<1>5. QED  BY <1>2, <1>3, <1>4 DEF Failures, NoContract

\* Every step keeps the types.
LEMMA DumpTypeStep ==
  ASSUME DumpTypeOK, [DumpNext]_dumpVars
  PROVE  DumpTypeOK'
<1>1. CASE UNCHANGED dumpVars
  BY <1>1 DEF dumpVars, gatewayVars, pushVars, datafeedVars, DumpTypeOK
<1>2. QED  BY <1>1, DumpTypeSources, DumpTypePush, DumpTypeFailures DEF DumpNext

LEMMA DumpTypeInit == ASSUME DumpInit PROVE DumpTypeOK
<1>1. /\ list \in [Kinds -> Seq(Data)] /\ seen \in [Kinds -> Nat] /\ batch \in Seq(Data)
      /\ count \in [Tallies -> Nat] /\ spent \in [{"clicks", "errors"} -> Nat]
  BY DEF DumpInit
<1>2. /\ cloneable \subseteq Index /\ kind \in Kinds /\ driver = FALSE
      /\ received = FALSE /\ indexed = FALSE /\ timer = TRUE
  BY DEF DumpInit, Kinds
<1>3. QED  BY <1>1, <1>2 DEF DumpInit, DumpTypeOK, Data

\* The state of the tool stays well-typed: DumpTypeOK is an invariant.
THEOREM DumpTypeCorrect == DumpSpec => []DumpTypeOK
<1>1. QED  BY DumpTypeInit, DumpTypeStep, PTL DEF DumpSpec

-----------------------------------------------------------------------------
(* Nothing vanishes *)

LEMMA CountsIn ==
  "arrived" \in Tallies /\ "stored" \in Tallies /\ "skipped" \in Tallies /\ "dropped" \in Tallies
  BY DEF Tallies

LEMMA Numbers ==
  ASSUME DumpTypeOK
  PROVE  /\ Waiting \in Nat /\ Len(batch) \in Nat /\ spent["errors"] \in Nat
         /\ count["arrived"] \in Nat /\ count["stored"] \in Nat
         /\ count["skipped"] \in Nat /\ count["dropped"] \in Nat
<1>1. \A k \in Kinds : Len(list[k]) \in Nat
  BY DEF DumpTypeOK
<1>2. QED  BY <1>1, CountsIn DEF DumpTypeOK, Waiting, Kinds

\* What one counter has counted, the others have not.
LEMMA CountedOne ==
  ASSUME DumpTypeOK, NEW c \in Tallies, NEW n \in Nat, Counted(c, n)
  PROVE  /\ c = "arrived" => count'["arrived"] = count["arrived"] + n
         /\ c # "arrived" => count'["arrived"] = count["arrived"]
         /\ c = "stored" => count'["stored"] = count["stored"] + n
         /\ c # "stored" => count'["stored"] = count["stored"]
         /\ c = "skipped" => count'["skipped"] = count["skipped"] + n
         /\ c # "skipped" => count'["skipped"] = count["skipped"]
         /\ c = "dropped" => count'["dropped"] = count["dropped"] + n
         /\ c # "dropped" => count'["dropped"] = count["dropped"]
  BY CountedType, CountsIn

\* Steps that leave data where they are.
LEMMA NothingMoved ==
  ASSUME DumpTypeOK, NothingVanishes, UNCHANGED <<list, batch, count>>,
         spent["errors"] > 0 => spent'["errors"] > 0
  PROVE  NothingVanishes'
  BY DEF NothingVanishes, Waiting

LEMMA ArrivedKept ==
  ASSUME DumpTypeOK, NothingVanishes, NEW k \in Kinds, NEW packet \in Packets, Merge(k, packet)
  PROVE  NothingVanishes'
<1>1. /\ list[k] \in Seq(Data) /\ packet \in Seq(Data) /\ Len(packet) \in Nat
      /\ list[k] \o packet \in Seq(Data) /\ Len(list[k]) \in Nat
      /\ Len(list[k] \o packet) = Len(list[k]) + Len(packet)
  <2>1. list[k] \in Seq(Data) /\ packet \in Seq(Data)
    BY PacketIs DEF DumpTypeOK, Data
  <2>2. QED  BY <2>1, AppendedIs
<1>2. Waiting' = Waiting + Len(packet)
  <2>1. list' = [list EXCEPT ![k] = list[k] \o packet]
    BY DEF Merge
  <2>2. Waiting' = Waiting - Len(list[k]) + Len(list[k] \o packet)
    BY <1>1, <2>1, WaitingIs
  <2>3. QED  BY <1>1, <2>2, Numbers
<1>3. /\ count'["arrived"] = count["arrived"] + Len(packet)
      /\ count'["stored"] = count["stored"]
      /\ count'["skipped"] = count["skipped"]
      /\ count'["dropped"] = count["dropped"]
  BY <1>1, CountedOne, CountsIn DEF Merge
<1>4. UNCHANGED <<batch, spent>>
  BY DEF Merge, pushVars
<1>5. Len(batch') = Len(batch)
  BY <1>4
<1>6. count'["arrived"] =
        Waiting' + Len(batch') + count'["stored"] + count'["skipped"] + count'["dropped"]
  <2>1. /\ Waiting \in Nat /\ Len(batch) \in Nat
        /\ count["arrived"] \in Nat /\ count["stored"] \in Nat
        /\ count["skipped"] \in Nat /\ count["dropped"] \in Nat
    BY Numbers
  <2>2. count["arrived"] =
          Waiting + Len(batch) + count["stored"] + count["skipped"] + count["dropped"]
    BY DEF NothingVanishes
  <2>3. Len(packet) \in Nat
    BY <1>1
  <2>4. QED  BY <1>2, <1>3, <1>5, <2>1, <2>2, <2>3
<1>7. count'["dropped"] > 0 => spent'["errors"] > 0
  BY <1>3, <1>4 DEF NothingVanishes
<1>8. QED  BY <1>6, <1>7 DEF NothingVanishes

LEMMA TakenKept ==
  ASSUME DumpTypeOK, NothingVanishes, NEW k \in Kinds, TakeList(k), batch = <<>>
  PROVE  NothingVanishes'
<1>1. /\ list[k] \in Seq(Data) /\ Rest(list[k]) \in Seq(Data)
      /\ Len(Taken(list[k])) \in Nat /\ Len(Rest(list[k])) \in Nat
      /\ Len(Taken(list[k])) + Len(Rest(list[k])) = Len(list[k])
  <2>1. list[k] \in Seq(Data)
    BY DEF DumpTypeOK, Data
  <2>2. QED  BY <2>1, TakenAndRest
<1>2. Waiting' = Waiting - Len(list[k]) + Len(Rest(list[k]))
  BY <1>1, WaitingIs DEF TakeList
<1>3. Len(batch) = 0 /\ Len(batch') = Len(Taken(list[k])) /\ UNCHANGED <<count, spent>>
  BY DEF TakeList
<1>4. Waiting' + Len(batch') = Waiting + Len(batch)
  <2>1. /\ Len(list[k]) \in Nat /\ Waiting \in Nat
        /\ Len(Taken(list[k])) \in Nat /\ Len(Rest(list[k])) \in Nat
        /\ Len(Taken(list[k])) + Len(Rest(list[k])) = Len(list[k])
    BY <1>1, Numbers
  <2>2. QED  BY <1>2, <1>3, <2>1
<1>5. QED  BY <1>3, <1>4 DEF NothingVanishes

LEMMA BatchKept ==
  ASSUME DumpTypeOK, NothingVanishes, Skip \/ PushBar \/ PushBarFails
  PROVE  NothingVanishes'
<1>1. /\ batch # <<>> /\ UNCHANGED list /\ Waiting' = Waiting
      /\ Len(batch) \in Nat /\ Len(Tail(batch)) \in Nat /\ Len(batch) = Len(Tail(batch)) + 1
  BY BatchTail DEF Skip, PushBar, PushBarFails, Waiting
<1>2. CASE Skip
  <2>1. /\ count'["skipped"] = count["skipped"] + 1 /\ UNCHANGED spent
        /\ count'["arrived"] = count["arrived"]
        /\ count'["stored"] = count["stored"]
        /\ count'["dropped"] = count["dropped"]
    BY <1>2, CountedOne, CountsIn DEF Skip
  <2>2. Len(batch') = Len(Tail(batch))
    BY <1>2 DEF Skip
  <2>3. Len(batch) = Len(batch') + 1
    BY <1>1, <2>2
  <2>4. count'["arrived"] =
          Waiting' + Len(batch') + count'["stored"] + count'["skipped"] + count'["dropped"]
    <3>1. /\ Waiting \in Nat /\ Len(batch) \in Nat /\ Len(batch') \in Nat
          /\ count["arrived"] \in Nat /\ count["stored"] \in Nat
          /\ count["skipped"] \in Nat /\ count["dropped"] \in Nat
      BY <1>1, <2>2, Numbers
    <3>2. count["arrived"] =
            Waiting + Len(batch) + count["stored"] + count["skipped"] + count["dropped"]
      BY DEF NothingVanishes
    <3>3. Waiting' = Waiting
      BY <1>1
    <3>4. /\ count'["arrived"] = count["arrived"] /\ count'["stored"] = count["stored"]
          /\ count'["skipped"] = count["skipped"] + 1 /\ count'["dropped"] = count["dropped"]
      BY <2>1
    <3>5. QED  BY <2>3, <3>1, <3>2, <3>3, <3>4
  <2>5. QED  BY <2>1, <2>4 DEF NothingVanishes
<1>3. CASE PushBar
  <2>1. /\ count'["stored"] = count["stored"] + 1 /\ UNCHANGED spent
        /\ count'["arrived"] = count["arrived"]
        /\ count'["skipped"] = count["skipped"]
        /\ count'["dropped"] = count["dropped"]
    BY <1>3, CountedOne, CountsIn DEF PushBar
  <2>2. Len(batch') = Len(Tail(batch))
    BY <1>3 DEF PushBar
  <2>3. QED  BY <1>1, <2>1, <2>2, Numbers DEF NothingVanishes
<1>4. CASE PushBarFails
  <2>1. /\ count'["dropped"] = count["dropped"] + Len(batch) /\ batch' = <<>>
        /\ count'["arrived"] = count["arrived"]
        /\ count'["stored"] = count["stored"]
        /\ count'["skipped"] = count["skipped"]
    BY <1>1, <1>4, CountedOne, CountsIn DEF PushBarFails
  <2>2. spent'["errors"] > 0 /\ Len(batch') = 0
    BY <1>4, <2>1, SpendType DEF PushBarFails, Error
  <2>3. QED  BY <1>1, <2>1, <2>2, Numbers DEF NothingVanishes
<1>5. QED  BY <1>2, <1>3, <1>4

\* Only in "insert" is there a batch.
NoBatch == step # "insert" => batch = <<>>

LEMMA NoBatchStep ==
  ASSUME NoBatch, [DumpNext]_dumpVars
  PROVE  NoBatch'
  BY DEF NoBatch, DumpNext, dumpVars, gatewayVars, pushVars, datafeedVars, Sources, LoadDrv, AskDataButton,
         AskData, OnCallBack, HandleDaydata, HandleMindata, HandleTick, Merge, Push, StillReceiving,
         OnPing, PushIndex, PushIndexEnds, PushRound, PushFinished, TakeList, RoundEnds, BatchEnds,
         Skip, PushBar, Failures, NoContract, PingFails, PushIndexFails, PushBarFails

LEMMA VanishStep ==
  ASSUME DumpTypeOK, NoBatch, NothingVanishes, [DumpNext]_dumpVars
  PROVE  NothingVanishes'
<1>1. CASE UNCHANGED dumpVars
  BY <1>1, NothingMoved DEF dumpVars, pushVars
<1>2. ASSUME \/ LoadDrv \/ AskDataButton \/ \E l \in Labels : AskData(l)
             \/ StillReceiving \/ OnPing \/ \E l \in Index : PushIndex(l)
             \/ PushIndexEnds \/ PushRound \/ PushFinished \/ RoundEnds \/ BatchEnds
             \/ PingFails \/ NoContract
      PROVE  NothingVanishes'
  <2>1. UNCHANGED <<list, batch, count>>
    BY <1>2 DEF LoadDrv, AskDataButton, AskData, StillReceiving, OnPing, PushIndex, PushIndexEnds,
                PushRound, PushFinished, RoundEnds, BatchEnds, PingFails, NoContract,
                PushIndexFails, pushVars
  <2>2. \/ UNCHANGED spent
        \/ Spend("clicks", MaxAsks) \/ Spend("errors", MaxErrors)
    BY <1>2 DEF LoadDrv, AskDataButton, AskData, StillReceiving, OnPing, PushIndex, PushIndexEnds,
                PushRound, PushFinished, RoundEnds, BatchEnds, PingFails, NoContract,
                PushIndexFails, Error
  <2>3. spent["errors"] > 0 => spent'["errors"] > 0
    BY <2>2, SpendType
  <2>4. QED  BY <2>1, <2>3, NothingMoved
<1>3. CASE OnCallBack
  BY <1>3, ArrivedKept DEF OnCallBack, HandleDaydata, HandleMindata, HandleTick, Kinds
<1>4. ASSUME NEW k \in Kinds, TakeList(k)
      PROVE  NothingVanishes'
  BY <1>4, TakenKept DEF NoBatch, TakeList
<1>5. QED
  BY <1>1, <1>2, <1>3, <1>4, BatchKept DEF DumpNext, Sources, Push, Failures

LEMMA VanishInit == ASSUME DumpInit PROVE NoBatch /\ NothingVanishes
  BY DEF DumpInit, NoBatch, NothingVanishes, Waiting, Kinds, Tallies

\* Every datum that arrived waits, is being pushed, or is accounted for: NothingVanishes is
\* an invariant.
THEOREM NothingEverVanishes == DumpSpec => []NothingVanishes
<1>1. DumpInit => DumpTypeOK /\ NoBatch /\ NothingVanishes
  BY DumpTypeInit, VanishInit
<1>2. DumpTypeOK /\ NoBatch /\ NothingVanishes /\ [DumpNext]_dumpVars => (DumpTypeOK /\ NoBatch /\ NothingVanishes)'
  BY DumpTypeStep, NoBatchStep, VanishStep
<1>3. QED  BY <1>1, <1>2, PTL DEF DumpSpec

-----------------------------------------------------------------------------
(* Contracts of the index before its bars *)

LEMMA IndexFramedSources ==
  ASSUME IndexFramed, Sources
  PROVE  IndexFramed'
  BY DEF IndexFramed, Sources, LoadDrv, AskDataButton, AskData, OnCallBack, HandleDaydata, HandleMindata,
         HandleTick, Merge, pushVars, datafeedVars

LEMMA IndexFramedPush ==
  ASSUME DumpTypeOK, IndexFramed, Push
  PROVE  IndexFramed'
<1>1. CASE StillReceiving
  BY <1>1 DEF StillReceiving, IndexFramed, datafeedVars
<1>2. CASE OnPing
  BY <1>2 DEF OnPing, IndexFramed, datafeedVars
<1>3. ASSUME NEW l \in Index, PushIndex(l)
      PROVE  IndexFramed'
  BY <1>3 DEF PushIndex, IndexFramed
<1>4. CASE PushIndexEnds
  BY <1>4 DEF PushIndexEnds, IndexFramed, datafeedVars
<1>5. CASE PushRound \/ PushFinished \/ RoundEnds \/ BatchEnds
  BY <1>5 DEF PushRound, PushFinished, RoundEnds, BatchEnds, IndexFramed, datafeedVars
<1>6. ASSUME NEW k \in Kinds, TakeList(k)
      PROVE  IndexFramed'
  BY <1>6 DEF TakeList, IndexFramed, datafeedVars
<1>7. CASE Skip \/ PushBar
  BY <1>7 DEF Skip, PushBar, IndexFramed, datafeedVars
<1>8. QED  BY <1>1, <1>2, <1>3, <1>4, <1>5, <1>6, <1>7 DEF Push

LEMMA IndexFramedFailures ==
  ASSUME IndexFramed, Failures
  PROVE  IndexFramed'
  BY DEF IndexFramed, Failures, PingFails, NoContract, PushIndexFails, PushBarFails, MayHave,
         datafeedVars

LEMMA IndexFramedStep ==
  ASSUME DumpTypeOK, IndexFramed, [DumpNext]_dumpVars
  PROVE  IndexFramed'
<1>1. CASE UNCHANGED dumpVars
  BY <1>1 DEF dumpVars, pushVars, datafeedVars, IndexFramed
<1>2. QED  BY <1>1, IndexFramedSources, IndexFramedPush, IndexFramedFailures DEF DumpNext

\* A label that pushIndexData went through has its contract before its first bar:
\* IndexContractsFirst is an invariant.
THEOREM IndexContractsAlwaysFirst == DumpSpec => []IndexContractsFirst
<1>1. DumpInit => DumpTypeOK /\ IndexFramed
  BY DumpTypeInit DEF DumpInit, IndexFramed
<1>2. DumpTypeOK /\ IndexFramed /\ [DumpNext]_dumpVars => (DumpTypeOK /\ IndexFramed)'
  BY DumpTypeStep, IndexFramedStep
<1>3. IndexFramed => IndexContractsFirst
  BY DEF IndexFramed, IndexContractsFirst
<1>4. QED  BY <1>1, <1>2, <1>3, PTL DEF DumpSpec

=============================================================================
