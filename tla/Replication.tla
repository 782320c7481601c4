----------------------------- MODULE Replication -----------------------------
(***************************************************************************)
(* What peer sync promises of the op sets alone: an operation is minted     *)
(* once, at one replica, and from then on only copied from a replica that   *)
(* holds it to one that does not.  Nothing is lost, nothing is invented.    *)
(***************************************************************************)
CONSTANTS Node, Op

VARIABLE have

vars == <<have>>

Init == have = [n \in Node |-> {}]

Mint(n, o) ==
  /\ \A m \in Node : o \notin have[m]
  /\ have' = [have EXCEPT ![n] = @ \union {o}]

Copy(n, m, o) ==
  /\ o \in have[n]
  /\ have' = [have EXCEPT ![m] = @ \union {o}]

Next ==
  \/ \E n \in Node, o \in Op : Mint(n, o)
  \/ \E n, m \in Node, o \in Op : Copy(n, m, o)

Spec == Init /\ [][Next]_vars
=============================================================================
