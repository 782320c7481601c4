------------------------------- MODULE Checkout -------------------------------
(***************************************************************************)
(* What several agents do at once in one checkout: the claims board        *)
(* (ClaimBoard), and side by side with it `hayven daemon start' and `stop' *)
(* (DaemonStart) and the ingests of one branch and another                 *)
(* (BranchIndexes).  The three share nothing: a behaviour is one of the    *)
(* board, of the commands or of the indexes, and the variables of the      *)
(* other two are at rest in it.                                            *)
(***************************************************************************)
EXTENDS ClaimBoard

CONSTANTS
  None,
  MaxStarts, MaxStops, StartKills, MaxSlow, MaxRecycled,   \* bounds of the commands
  CheckoutFiles, Texts, Gone, Nested, Branches, Tips, Legacy, MaxBranches,
  MaxMoves, MaxIngests, IngestKills                        \* bounds of the indexes

ASSUME CheckoutAssumption ==
  /\ MaxStarts \in Nat
  /\ None \notin 1 .. MaxStarts /\ None # "failed"
  /\ None \notin [by : 1 .. MaxStarts, blank : BOOLEAN]
VARIABLES
  part,                   \* what the behaviour is of
  lock, pc, child, result, status, term, port, pidfile, side, owned, stop, pid,
  kills, slow, stops, recycled, bare, late, alone,
  files, tips, branch, newest, store, ingest, key, full, todo, purged, moved,
  tick, moves, ingests, ended

Start == INSTANCE DaemonStart WITH MaxKills <- StartKills
Index == INSTANCE BranchIndexes WITH
  Files <- CheckoutFiles, MaxKills <- IngestKills, pc <- ingest, now <- tick, kills <- ended

ASSUME BranchesAssumption == Tips \in [Branches -> Index!Rows] /\ None \notin Index!Indexes

startVars ==
  <<lock, pc, child, result, status, term, port, pidfile, side, owned, stop, pid,
    kills, slow, stops, recycled, bare, late, alone>>
indexVars ==
  <<files, tips, branch, newest, store, ingest, key, full, todo, purged, moved,
    tick, moves, ingests, ended>>

StartsAtRest ==
  /\ lock = None /\ pc = None /\ child = None /\ result = None /\ status = None /\ term = None
  /\ port = None /\ pidfile = None /\ side = None /\ owned = None /\ stop = None /\ pid = None
  /\ kills = None /\ slow = None /\ stops = None /\ recycled = None
  /\ bare = None /\ late = None /\ alone = None
IndexesAtRest ==
  /\ files = None /\ tips = None /\ branch = None /\ newest = None /\ store = None
  /\ ingest = None /\ key = None /\ full = None /\ todo = None /\ purged = None /\ moved = None
  /\ tick = None /\ moves = None /\ ingests = None /\ ended = None

CheckoutInit ==
  \/ part = "claims" /\ Init /\ StartsAtRest /\ IndexesAtRest
  \/ part = "starts" /\ Init /\ Start!Init /\ IndexesAtRest
  \/ part = "indexes" /\ Init /\ StartsAtRest /\ Index!Init

ClaimsStep == part = "claims" /\ Next /\ UNCHANGED <<part, startVars, indexVars>>
StartsStep == part = "starts" /\ Start!Next /\ UNCHANGED <<part, vars, indexVars>>
IndexesStep == part = "indexes" /\ Index!Next /\ UNCHANGED <<part, vars, startVars>>
CheckoutNext == ClaimsStep \/ StartsStep \/ IndexesStep
CheckoutSpec == CheckoutInit /\ [][CheckoutNext]_<<part, vars, startVars, indexVars>>

(***************************************************************************)
(* DaemonStart's properties, of the behaviours that are of the commands.   *)
(***************************************************************************)
(* No second daemon comes up beside the first (startDetachedDaemon). *)
OneDaemon == part = "starts" => Start!OneDaemon

(* A start that nobody disturbs brings a daemon up, unless a lock whose pid was
   given away bars it (startDetachedUnderLock). *)
StartHeals == part = "starts" => Start!StartHeals

(* A stop that says so has left nothing answering (stopDaemon). *)
StoppedIsQuiet == Start!StoppedIsQuiet

(***************************************************************************)
(* BranchIndexes's, of those that are of the indexes.                      *)
(***************************************************************************)
(* A read that warns of nothing answers from the files as they are (evaluateStaleness). *)
QuietIsRight == part = "indexes" => Index!QuietIsRight

(* An ingest ends the warning that asked for it (runIngest). *)
IngestQuiets == Index!IngestQuiets
=============================================================================
