------------------------------ MODULE MCCheckout ------------------------------
(* Constants of Checkout for TLC. *)
EXTENDS Checkout, MCClaimBoard, TLC

CONSTANTS a, b, t, u, main, p, q

\* Two files, one of them in a directory; main, a branch that changed one file and
\* one that also removed the other.
Holds(f, g) == a :> f @@ b :> g
MCTips == main :> Holds(t, t) @@ p :> Holds(u, t) @@ q :> Holds(u, Gone)
=============================================================================
