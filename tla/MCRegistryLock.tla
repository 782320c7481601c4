--------------------------- MODULE MCRegistryLock ---------------------------
(* Instances of RegistryLock for TLC. *)
EXTENDS RegistryLock, TLC

CONSTANTS p1, p2, p3, e1, e2, e3

\* Two registrations, and one that replaces the first's entry.
MCAdds == [p \in Proc |-> IF p = p1 THEN {e1} ELSE IF p = p2 THEN {e2} ELSE {e3}]
MCDrops == [p \in Proc |-> IF p = p3 THEN {e1} ELSE {}]
=============================================================================
