-------------------------------- MODULE Killed --------------------------------
(***************************************************************************)
(* What a kill leaves on disk: the log of a daemon (ReplicaLog), and side  *)
(* by side with it the overlay of a linked worktree whose refresh dies     *)
(* (Overlay).  The two share nothing: a behaviour is one of the log or of  *)
(* the overlay, and the variables of the other are at rest in it.          *)
(***************************************************************************)
EXTENDS ReplicaLog

CONSTANTS
  Files, Texts, Gone, Commits, Tree, Base, Ancestors, Cap,
  MaxMoves, MaxMainMoves, MaxIngests, MaxKills, None, Unknown

VARIABLES
  part,                   \* what the behaviour is of
  wt, main, index, ingest, ov, seed, pc, fp, plan, seeded, seen, moved,
  misled, moves, mainMoves, ingests, kills

Worktree == INSTANCE Overlay

ASSUME OverlayAssumption ==
  /\ MaxMoves \in Nat /\ Base \in Commits /\ Tree \in [Commits -> Worktree!Rows]
  /\ None \notin Commits \cup Worktree!Fingerprints \cup Worktree!Overlays

overlayVars ==
  <<wt, main, index, ingest, ov, seed, pc, fp, plan, seeded, seen, moved,
    misled, moves, mainMoves, ingests, kills>>

OverlayAtRest ==
  /\ wt = None /\ main = None /\ index = None /\ ingest = None /\ ov = None /\ seed = None
  /\ pc = None /\ fp = None /\ plan = None /\ seeded = None /\ seen = None /\ moved = None
  /\ misled = None /\ moves = None /\ mainMoves = None /\ ingests = None /\ kills = None

KilledInit ==
  \/ part = "replica" /\ Init /\ OverlayAtRest
  \/ part = "overlay" /\ Init /\ Worktree!Init

ReplicaStep == part = "replica" /\ Next /\ UNCHANGED <<part, overlayVars>>
OverlayStep == part = "overlay" /\ Worktree!Next /\ UNCHANGED <<part, vars>>
OverlayRead == part = "overlay" /\ Worktree!Read /\ UNCHANGED <<part, vars>>
KilledNext == ReplicaStep \/ OverlayStep

all == <<part, vars, overlayVars>>
KilledSpec == KilledInit /\ [][KilledNext]_all /\ WF_all(OverlayRead)

(***************************************************************************)
(* Overlay's properties, of the behaviours that are of an overlay.         *)
(***************************************************************************)
(* What is called fresh holds the worktree's files (writeStamp, overlayStatus). *)
FreshIsWorktree == part = "overlay" => Worktree!FreshIsWorktree

(* Read again and again, it is fresh again, unless nothing is left to index
   (refreshOverlay). *)
FreshAgain ==
  []<>(part = "overlay" =>
         \/ Worktree!Status = "fresh"
         \/ Worktree!Status = "broken" /\ wt.files = Worktree!Empty)
=============================================================================
