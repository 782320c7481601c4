----------------------------- MODULE MCClaimBoard -----------------------------
(* Instances of ClaimBoard for TLC. *)
EXTENDS ClaimBoard

CONSTANTS d1, d2, a1, a2, i1, i2, i3, x, y

Want(a, i, s, t, f) == [agent |-> a, id |-> i, scope |-> s, ttl |-> t, force |-> f]
MCLate == [d \in Daemon |-> IF d = d1 THEN 1 ELSE 2]

\* Neighbours, one of which insists, and a second claim of one id that
\* overlaps the neighbour.
WantsShared == {Want(a1, i1, {x}, 1, TRUE), Want(a2, i2, {y}, 2, FALSE),
                Want(a2, i1, {y}, 2, FALSE)}
\* A third party, whose claim both of the others are next to.
WantsRace == {Want(a1, i1, {x}, 2, FALSE), Want(a2, i2, {x}, 2, FALSE), Want(a1, i3, {y}, 2, FALSE)}
ManyAndOne == [d \in Daemon |-> IF d = d1 THEN 2 ELSE 1]
Three == [d \in Daemon |-> 3]
NearXY == {<<x, y>>}
=============================================================================
