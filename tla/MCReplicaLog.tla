---------------------------- MODULE MCReplicaLog ----------------------------
(* Instances of ReplicaLog for TLC. *)
EXTENDS ReplicaLog

\* One peer operation a day ahead of a fresh clock, inside the skew bound and
\* at the last counter value; one far enough ahead to be refused.
MCRemote ==
  { [hlc |-> [wall |-> 2, counter |-> CounterMax], writer |-> 2, mint |-> 0],
    [hlc |-> [wall |-> 4, counter |-> 0], writer |-> 2, mint |-> 0] }
=============================================================================
