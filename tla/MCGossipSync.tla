---------------------------- MODULE MCGossipSync ----------------------------
(* Instances of GossipSync for TLC. *)
EXTENDS GossipSync, TLC

CONSTANTS a, b,          \* daemons
          d1, d2,        \* segments
          o1, o2, o3     \* operations

\* a and b share d1; d2 is b's alone.
PairAuthor == (o1 :> a) @@ (o2 :> b) @@ (o3 :> b)
PairSegOf  == (o1 :> d1) @@ (o2 :> d1) @@ (o3 :> d2)
Both  == {<<a, b>>, <<b, a>>}
AheadOfA == {<<a, d2>>}
LargeAtB == {<<b, d1>>}
LiveLink == {<<a, b>>}
=============================================================================
