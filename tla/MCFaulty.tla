------------------------------- MODULE MCFaulty -------------------------------
(* Constants of Faulty for TLC. *)
EXTENDS Faulty, MCReplicaLog

CONSTANTS e, g, t

\* Two call edges and a covered test, one row to a chunk, and a ceiling that three
\* calls of one edge are over.
MCRates ==
  [l \in {"bun", "browser", "python", "go", "rust"} |-> IF l \in {"go", "browser"} THEN 1 ELSE 2]
=============================================================================
