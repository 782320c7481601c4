------------------------------- MODULE MCKilled -------------------------------
(* Constants of Killed for TLC. *)
EXTENDS Killed, MCReplicaLog, TLC

CONSTANTS a, b, x, y, c1, c2

\* Two files, and two commits of which the second has rewritten one and added the other.
MCTree == c1 :> (a :> x @@ b :> Gone) @@ c2 :> (a :> y @@ b :> x)
MCAncestors == {<<c1, c2>>}
=============================================================================
