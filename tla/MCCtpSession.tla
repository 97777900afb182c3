----------------------------- MODULE MCCtpSession -----------------------------
(* CtpSession on small instances; the bounds are in the .cfg of each run. *)
EXTENDS CtpSession

\* One contract that matches the configured prefixes, and one that does not.
MCSymbols == {"IF", "cu"}
MCMySymbols == {"IF"}

=============================================================================
