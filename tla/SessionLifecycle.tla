--------------------------- MODULE SessionLifecycle ---------------------------
(***************************************************************************)
(* What ctpgateway promises of a session, as the user of the window sees   *)
(* it: start works from "stopped" only, stop ends a running session at     *)
(* once or after a logout, and a session that is stopping is never revived *)
(* but ends.  A process that died stays dead.                              *)
(***************************************************************************)
VARIABLE phase

Init == phase = "stopped"

Start == phase = "stopped" /\ phase' = "running"
Stop == phase = "running" /\ phase' \in {"stopping", "stopped"}
Finish == phase = "stopping" /\ phase' = "stopped"
Die == phase # "dead" /\ phase' = "dead"

Next == Start \/ Stop \/ Finish \/ Die

Spec == Init /\ [][Next]_phase
FairSpec == Spec /\ WF_phase(Finish)

=============================================================================
