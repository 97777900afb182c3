---------------------------- MODULE MCDatafeedStore ----------------------------
(* DatafeedStore on small instances; the bounds are in the .cfg of each run. *)
EXTENDS DatafeedStore, TLC

MCContracts == {1, 2}
MCTimes == {1, 2, 3}

\* A new database; ticks that came before their contract; two contracts with records, the
\* ticks and bars of one with a gap; a contract that is followed by a tick of one that is
\* not stored.
ItemsH04(keys) == [k \in keys |-> IF k[1] = Bars THEN "H04" ELSE "item"]
MCRecords ==
  {TickKey(1, 1), TickKey(1, 3), TickKey(2, 1), BarKey(1, "H04", 1), BarKey(1, "H04", 3)}
Store(framed, known, keys) == [framed |-> framed, known |-> known, records |-> ItemsH04(keys)]
MCLeft ==
  {Store({}, {}, {}), Store({2}, {2}, {TickKey(1, 2), TickKey(2, 1)}),
   Store({1, 2}, {1, 2}, MCRecords),
   Store({1}, {1}, {TickKey(1, 1), TickKey(2, 1)})}
MCAsked == {<<1, "H04">>}

Call(op, c, p, from, to) == [op |-> op, c |-> c, p |-> p, from |-> from, to |-> to]
MCCalls ==
  {Call("insertTick", 1, "M01", 1, 1), Call("insertBar", 1, "H03", 1, 1),
   Call("insertContract", 1, "M01", 1, 1), Call("deleteTick", 1, "M01", 1, 1),
   Call("deleteBar", 1, "H04", 1, 2), Call("deleteContract", 1, "M01", 1, 1),
   Call("deleteContract", AllContracts, "M01", 1, 1), Call("cleanAll", AllContracts, "M01", 1, 1)}

=============================================================================
