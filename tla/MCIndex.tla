-------------------------------- MODULE MCIndex --------------------------------
(***************************************************************************)
(* An index and its readers, for TLC (MCReaders), and side by side with    *)
(* them the mark of the same index while a daemon's batches and two        *)
(* commands write it (IngestMarker).  The two share nothing: a behaviour   *)
(* is of the readers or of the writers, and the variables of the other are *)
(* at rest in it.                                                          *)
(***************************************************************************)
EXTENDS MCReaders

CONSTANTS c1, c2, d1, life1, Foreign

VARIABLES
  part,                   \* what the behaviour is of
  fileNodes, fileEdges, claimed, marker, held, dead, pc, job, scope, todo, declared
writerVars == <<fileNodes, fileEdges, claimed, marker, held, dead, pc, job, scope, todo, declared>>

\* Two commands and a daemon with batches; nobody is killed, an incremental
\* ingest may fail.
Writers == INSTANCE IngestMarker WITH
  Files <- {a, b}, CliHandles <- {c1, c2}, DaemonHandles <- {d1}, Life <- d1 :> life1,
  Starts <- {"whole"}, Refusals <- FALSE, Crashes <- FALSE, FailingJobs <- {"inc"},
  BatchSets <- {{a}}, IncSets <- {{}, {a}}, nodes <- fileNodes, edges <- fileEdges

WritersAtRest ==
  /\ fileNodes = None /\ fileEdges = None /\ claimed = None /\ marker = None /\ held = None
  /\ dead = None /\ pc = None /\ job = None /\ scope = None /\ todo = None /\ declared = None

IndexInit ==
  \/ part = "readers" /\ ReadersInit /\ WritersAtRest
  \/ part = "writers" /\ ReadersInit /\ tree = [x \in Files |-> CHOOSE v \in Versions[x] : TRUE]
     /\ Writers!Init
ReadersStep == part = "readers" /\ ReadersNext /\ UNCHANGED <<part, writerVars>>
WritersStep == part = "writers" /\ Writers!Next /\ UNCHANGED <<part, vars, asked>>
IndexNext == ReadersStep \/ WritersStep
IndexSpec == IndexInit /\ [][IndexNext]_<<part, vars, asked, writerVars>>

(* While nobody writes, an index that reads healthy has the rows of every     *)
(* file, though batches purge before they mark (IngestMarker's property, of   *)
(* the behaviours that are of the writers).                                   *)
QuietHealthyIsWhole == part = "writers" => Writers!QuietHealthyIsWhole
=============================================================================
