----------------------------- MODULE DurableView -----------------------------
(***************************************************************************)
(* What a daemon's CRDT persistence promises when the process may be killed *)
(* but the machine keeps its files: a store that only grows, and a view     *)
(* that is exactly the store whenever the daemon is up.                     *)
(***************************************************************************)
VARIABLES up, view, store

vars == <<up, view, store>>

Init == up = TRUE /\ view = {} /\ store = {}

\* At most one operation is new in the store, and none is lost from it.
Grows ==
  /\ store \subseteq store'
  /\ \A o, p \in store' \ store : o = p

\* An operation is recorded, and seen at once.
Record ==
  /\ up /\ UNCHANGED up
  /\ Grows
  /\ view' = view \union (store' \ store)

\* The process is gone; what it was writing may have reached the store.
Crash ==
  /\ up /\ up' = FALSE
  /\ Grows
  /\ view' = {}

\* A start reads the whole store back.
Start ==
  /\ ~up /\ up' = TRUE
  /\ view' = store
  /\ UNCHANGED store

Next == Record \/ Crash \/ Start

Spec == Init /\ [][Next]_vars
=============================================================================
