---------------------------- MODULE MCCtpOrders ----------------------------
(* CtpOrders on small instances; the bounds are in the .cfg of each run. *)
EXTENDS CtpOrders, TLC

ThreadSymmetry == Permutations(Threads)

Budget(o, c, q, l, r) ==
  [orders |-> o, cancels |-> c, queries |-> q, logins |-> l, refusals |-> r]
\* Two orders over a login; two orders and a query; an order, its cancel and a query over a
\* login; two queries over a login; two queries over two logins.
MCBudgets ==
  {Budget(2, 0, 0, 1, 1), Budget(2, 0, 1, 0, 0), Budget(1, 1, 1, 1, 1), Budget(1, 0, 2, 1, 0),
   Budget(0, 0, 2, 2, 1)}
MCOneOrder == {Budget(1, 0, 1, 1, 0)}

=============================================================================
