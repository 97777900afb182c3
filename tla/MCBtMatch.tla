------------------------------ MODULE MCBtMatch ------------------------------
(* BtMatch on small instances; the bounds are in the .cfg of each run. *)
EXTENDS BtMatch, TLC

MCSymbols == {"IF"}
MCPrices == {1, 2}

Req(dir, offset, price, volume) ==
  [symbol |-> "IF", dir |-> dir, offset |-> offset, price |-> price,
   volume |-> volume, limit |-> TRUE]

\* Three lots opened and closed two at a time, so that two accepted closes want more
\* than there is; an order of the other side that only the tick at 2 fills.
MCOffered ==
  {Req("net", "open", 2, 3), Req("short", "close", 1, 2), Req("short", "open", 2, 1)}

MCSymmetry == Permutations(Threads)

=============================================================================
