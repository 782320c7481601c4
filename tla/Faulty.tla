------------------------------- MODULE Faulty -------------------------------
(***************************************************************************)
(* What a fault must not lose: operations whose write fails half way or    *)
(* whose machine loses power (ReplicaLog), and side by side with them the  *)
(* calls a trace collector counts and fails to send (TraceFlush).  The two *)
(* share nothing: a behaviour is one of the log or of a flusher, and the   *)
(* variables of the other are at rest in it.                               *)
(***************************************************************************)
EXTENDS ReplicaLog

CONSTANTS
  Edges, Tests, Rates, Batch, Ceiling, MaxRecords, MaxFaults, MaxSeconds, Idle

VARIABLES
  kind,                   \* what the behaviour is of
  lang, buf, flight, over, phase, second, stored, log, records, faults, due, trouble

Flusher == INSTANCE TraceFlush WITH last <- over, now <- second

ASSUME FlusherAssumption ==
  /\ IsFiniteSet(Edges) /\ IsFiniteSet(Tests) /\ Edges \cap Tests = {}
  /\ Rates \in [Flusher!Collectors -> Nat \ {0}] /\ Batch \in Nat \ {0}
  /\ Ceiling \in Nat /\ MaxSeconds \in Nat

flusherVars == <<lang, buf, flight, over, phase, second, stored, log, records, faults, due, trouble>>

FlusherAtRest ==
  /\ lang = Idle /\ buf = Idle /\ flight = Idle /\ over = Idle /\ phase = Idle
  /\ second = Idle /\ stored = Idle /\ log = Idle /\ records = Idle /\ faults = Idle
  /\ due = Idle /\ trouble = Idle

FaultyInit ==
  \/ kind = "replica" /\ Init /\ FlusherAtRest
  \/ kind = "flusher" /\ Init /\ Flusher!Init

LogStep == kind = "replica" /\ Next /\ UNCHANGED <<kind, flusherVars>>
FlusherStep == kind = "flusher" /\ Flusher!Next /\ UNCHANGED <<kind, vars>>
FaultyNext == LogStep \/ FlusherStep

everything == <<kind, vars, flusherVars>>
FaultySpec == FaultyInit /\ [][FaultyNext]_everything

(***************************************************************************)
(* TraceFlush's properties, of the behaviours that are of a flusher.       *)
(***************************************************************************)
(* No recorded call gets lost (flushOnce, rebuffer). *)
NothingLost == kind = "flusher" => Flusher!NothingLost

(* None is counted twice (flushOnce, tracesRoutes). *)
CountedOnce == kind = "flusher" => Flusher!CountedOnce

(* A stop leaves nothing recorded before it unsent (stop). *)
StopSendsAll == kind = "flusher" => Flusher!StopSendsAll
=============================================================================
