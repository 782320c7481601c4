------------------------------- MODULE FileLock -------------------------------
(***************************************************************************)
(* The advisory lockfile of the worktree registry and of overlay refreshes  *)
(* (daemon/src/util/file_lock.ts).  The file is created with O_EXCL and     *)
(* then given a token that is read back; a waiter removes the file of a     *)
(* dead pid at once and any other file whose mtime has not moved for its    *)
(* staleness window; the release removes a file that still has our token.   *)
(* Every read of the file and every removal is a step of its own.           *)
(***************************************************************************)
EXTENDS Naturals, FiniteSets

CONSTANTS
  Proc,        \* processes that want the section once
  Slow,        \* may a living holder go without touching for staleMs?
  MaxCrashes   \* bound: processes that die

ASSUME FileLockAssumption == Slow \in BOOLEAN /\ MaxCrashes \in Nat

VARIABLES
  lock,     \* the lockfile: who created it, whether the token is in it
  seen,     \* waiters that have watched its present mtime
  pc,       \* where each process is
  expected, \* what a waiter read in the file it means to reclaim
  taken     \* has a removal taken the file of a process in the section?

vars == <<lock, seen, pc, expected, taken>>

NoFile == [by |-> {}, token |-> FALSE]
Files == [by : {{}} \union {{p} : p \in Proc}, token : BOOLEAN]

\* What a reader gets: the owner of the token, or nothing it could name.
Token(file) == IF file.token THEN file.by ELSE {}

Goto(p, from, to) == pc[p] = from /\ pc' = [pc EXCEPT ![p] = to]
Dead(p) == pc[p] = "dead"
Mine(p) == Token(lock) = {p}

Init ==
  /\ lock = NoFile /\ seen = {}
  /\ pc = [p \in Proc |-> "try"] /\ expected = [p \in Proc |-> {}]
  /\ taken = FALSE

\* tryCreate: open "wx" ...
Create(p) ==
  /\ Goto(p, "try", "write") /\ lock = NoFile
  /\ lock' = [by |-> {p}, token |-> FALSE] /\ seen' = {}
  /\ UNCHANGED <<expected, taken>>

\* ... write the token into it, wherever the file is by now ...
WriteToken(p) ==
  /\ Goto(p, "write", "confirm")
  /\ IF lock.by = {p} THEN lock' = [lock EXCEPT !.token = TRUE] /\ seen' = {}
                      ELSE UNCHANGED <<lock, seen>>
  /\ UNCHANGED <<expected, taken>>

\* A slip: the token is not read back.
ConfirmUnread(p) ==
  /\ Goto(p, "confirm", "in")
  /\ UNCHANGED <<lock, seen, expected, taken>>

\* ... and read it back.
Confirm(p) ==
  /\ IF Mine(p) THEN Goto(p, "confirm", "in") ELSE Goto(p, "confirm", "try")
  /\ UNCHANGED <<lock, seen, expected, taken>>

\* First sighting of this mtime: watch it.
Watch(p) ==
  /\ pc[p] = "try" /\ lock # NoFile /\ p \notin seen
  /\ seen' = seen \union {p}
  /\ UNCHANGED <<lock, pc, expected, taken>>

\* Two slips: only named owners are looked at; a sighting is as good as a window.
StaleIfNamed(p) == \E q \in Proc \ {p} : Token(lock) = {q} /\ Dead(q)
StaleOnSight(p) == lock # NoFile

\* A named owner that is dead, at once; after the window, whoever it was: an
\* owner that still lives has touched the file meanwhile, unless Slow.
Stale(p) ==
  /\ lock # NoFile
  /\ \/ \E q \in Proc \ {p} : Token(lock) = {q} /\ Dead(q)
     \/ p \in seen /\ (Slow \/ \E q \in Proc : lock.by = {q} /\ Dead(q))

Suspect(p) ==
  /\ Goto(p, "try", "reclaim") /\ Stale(p)
  /\ expected' = [expected EXCEPT ![p] = Token(lock)]
  /\ UNCHANGED <<lock, seen, taken>>

\* reclaim: the token is read once more, then the file removed by its name.
Recheck(p) ==
  /\ IF lock # NoFile /\ Token(lock) = expected[p] THEN Goto(p, "reclaim", "remove")
                                                   ELSE Goto(p, "reclaim", "try")
  /\ seen' = seen \ {p}
  /\ UNCHANGED <<lock, expected, taken>>

\* Whatever has the lockfile's name goes.
TakeLock(p) ==
  /\ lock' = NoFile /\ seen' = {}
  /\ taken' = (taken \/ \E q \in Proc : lock.by = {q} /\ pc[q] = "in")
  /\ UNCHANGED expected

Remove(p) == Goto(p, "remove", "try") /\ TakeLock(p)

\* The budget is spent: FileLockTimeoutError.
TimeOut(p) ==
  /\ Goto(p, "try", "timed out") /\ lock # NoFile
  /\ seen' = seen \ {p}
  /\ UNCHANGED <<lock, expected, taken>>

\* An async holder's interval: the mtime moves, waiters watch anew.
Touch(p) ==
  /\ pc[p] = "in" /\ Mine(p) /\ seen' = {}
  /\ UNCHANGED <<lock, pc, expected, taken>>

\* The section is over; release reads the token, then removes by name.
Leave(p) ==
  /\ IF Mine(p) THEN Goto(p, "in", "unlink") ELSE Goto(p, "in", "done")
  /\ UNCHANGED <<lock, seen, expected, taken>>

Unlink(p) == Goto(p, "unlink", "done") /\ TakeLock(p)

Crash(p) ==
  /\ Cardinality({q \in Proc : Dead(q)}) < MaxCrashes
  /\ pc[p] \notin {"done", "timed out", "dead"}
  /\ pc' = [pc EXCEPT ![p] = "dead"] /\ seen' = seen \ {p}
  /\ UNCHANGED <<lock, expected, taken>>

Step(p) ==
  \/ WriteToken(p) \/ Confirm(p) \/ Watch(p) \/ Suspect(p) \/ Recheck(p)
  \/ Remove(p) \/ Leave(p) \/ Unlink(p)

Next ==
  \/ \E p \in Proc : Create(p)
  \/ \E p \in Proc : Step(p)
  \/ \E p \in Proc : Touch(p)
  \/ \E p \in Proc : TimeOut(p)
  \/ \E p \in Proc : Crash(p)

Spec == Init /\ [][Next]_vars

\* A living process runs on; the random sleep between two attempts keeps a
\* waiter from missing every moment at which the file is free.
FairSpec ==
  Spec /\ \A p \in Proc : WF_vars(Step(p)) /\ SF_vars(Create(p))

------------------------------------------------------------------------------
(* Properties *)

TypeOK ==
  /\ lock \in Files /\ seen \subseteq Proc
  /\ pc \in [Proc -> {"try", "write", "confirm", "in", "reclaim", "remove",
                      "unlink", "done", "timed out", "dead"}]
  /\ taken \in BOOLEAN
  /\ expected \in [Proc -> {{}} \union {{p} : p \in Proc}]

(* One section at a time, whoever dies where, until a removal takes the file *)
(* of a process in the section: a process that lost its file on the way in   *)
(* finds out when it reads its token back, and starts anew.                  *)
MutualExclusion == \A p, q \in Proc : pc[p] = "in" /\ pc[q] = "in" => p = q
OneAtATime == ~taken => MutualExclusion

(* And such a removal needs a death (or a holder that does not touch the     *)
(* file): among processes that live, nobody in the section loses its file.   *)
Calm == ~Slow /\ \A p \in Proc : ~Dead(p)
TakenAfterDeath == Calm => ~taken

(* A crash anywhere, also between the creation of the file and its token,    *)
(* leaves nobody waiting who is prepared to: each is through the section, or *)
(* gave up on its budget.                                                    *)
NobodyWedged == <>(\A p \in Proc : pc[p] \in {"done", "timed out", "dead"})

------------------------------------------------------------------------------
(* The invariant behind the two: until then whoever is in owns the lockfile; *)
(* and without a death so does everybody past its creation, and nobody       *)
(* reclaims.                                                                 *)
InsidersOwn ==
  ~taken => \A p \in Proc : pc[p] = "in" => lock.by = {p} /\ lock.token

CalmOwners ==
  Calm => /\ ~taken
          /\ \A p \in Proc :
               /\ pc[p] \in {"write", "confirm", "in", "unlink"} => lock.by = {p}
               /\ pc[p] \notin {"reclaim", "remove"}

LockInv == TypeOK /\ InsidersOwn /\ CalmOwners
=============================================================================
