----------------------------- MODULE RegistryLock -----------------------------
(***************************************************************************)
(* The machine's project registry (daemon/src/daemon/registry.ts): a JSON   *)
(* file that several processes read, change and replace, each under an      *)
(* advisory lockfile.  A waiter reclaims a lockfile whose mtime it has seen *)
(* unchanged for LOCK_STALE_MS; a holder renews its lease before it         *)
(* publishes and, when it finds the lease gone, runs its section again.     *)
(* A process may crash anywhere, and sleep anywhere for longer than         *)
(* LOCK_STALE_MS.                                                          *)
(***************************************************************************)
EXTENDS Naturals, FiniteSets

CONSTANTS
  Proc,        \* processes, each with one change to make
  Entry,       \* registry entries
  Adds, Drops, \* process -> entries its change adds, and removes
  Degrades,    \* processes that may run out of budget, or be refused the file
  Retries,     \* LOCK_LOST_RETRIES
  MaxCrashes,  \* bound: processes that die
  MaxSleeps    \* bound: living holders whose lockfile comes to look stale

ASSUME RegistryAssumption ==
  /\ Adds \in [Proc -> SUBSET Entry] /\ Drops \in [Proc -> SUBSET Entry]
  /\ Degrades \subseteq Proc
  /\ Retries \in Nat /\ MaxCrashes \in Nat /\ MaxSleeps \in Nat

\* No lockfile, or one created by a process, with its token or still empty.
NoFile == [by |-> {}, token |-> FALSE]
Files == [by : {{}} \union {{p} : p \in Proc}, token : BOOLEAN]

VARIABLES
  disk,     \* the registry file
  lock,     \* the lockfile
  seen,     \* waiters that have watched its present mtime
  pc,       \* where each process is
  view,     \* what each process read
  lost,     \* processes whose lease is gone (leaseLost)
  tries,    \* attempts at the section so far
  warned,   \* processes that went on without the lock, and said so
  blind,    \* processes whose lockfile was taken between their last look at
            \* it and the rename
  sleeps    \* sleeps so far (bound)

vars == <<disk, lock, seen, pc, view, lost, tries, warned, blind, sleeps>>

Init ==
  /\ disk = {} /\ lock = NoFile /\ seen = {}
  /\ pc = [p \in Proc |-> "try"] /\ view = [p \in Proc |-> {}]
  /\ lost = {} /\ tries = [p \in Proc |-> 0] /\ warned = {}
  /\ blind = {} /\ sleeps = 0

Goto(p, from, to) == pc[p] = from /\ pc' = [pc EXCEPT ![p] = to]
Mine(p) == lock = [by |-> {p}, token |-> TRUE]
Change(p, entries) == (entries \ Drops[p]) \union Adds[p]
Dead(p) == pc[p] = "dead"

------------------------------------------------------------------------------
(* acquireRegistryLock *)

\* open(path, "wx"): the file exists, empty, from here on.
Create(p) ==
  /\ Goto(p, "try", "write") /\ lock = NoFile
  /\ lock' = [by |-> {p}, token |-> FALSE] /\ seen' = {}
  /\ UNCHANGED <<disk, view, lost, tries, warned, blind, sleeps>>

\* The token goes into the file we created, wherever that file is by now.
WriteToken(p) ==
  /\ Goto(p, "write", "confirm")
  /\ IF lock.by = {p} THEN lock' = [lock EXCEPT !.token = TRUE] /\ seen' = {}
                      ELSE UNCHANGED <<lock, seen>>
  /\ UNCHANGED <<disk, view, lost, tries, warned, blind, sleeps>>

\* Read back: is it still there?
Confirm(p) ==
  /\ IF Mine(p) THEN Goto(p, "confirm", "read") ELSE Goto(p, "confirm", "try")
  /\ lost' = lost \ {p}
  /\ UNCHANGED <<disk, lock, seen, view, tries, warned, blind, sleeps>>

\* First sighting of this mtime.
Watch(p) ==
  /\ pc[p] = "try" /\ lock # NoFile /\ p \notin seen
  /\ seen' = seen \union {p}
  /\ UNCHANGED <<disk, lock, pc, view, lost, tries, warned, blind, sleeps>>

\* The process that created the lockfile has died.
Abandoned == \E p \in Proc : lock.by = {p} /\ Dead(p)

\* A slip: a lockfile without a token is never reclaimed.
LooksStaleNamed == lock.token /\ (Abandoned \/ sleeps < MaxSleeps)

\* Unchanged for LOCK_STALE_MS of the waiter's own time: its creator is dead,
\* or asleep.
LooksStale == lock # NoFile /\ (Abandoned \/ sleeps < MaxSleeps)

Suspect(p) ==
  /\ Goto(p, "try", "recheck") /\ p \in seen /\ LooksStale
  /\ sleeps' = IF Abandoned THEN sleeps ELSE sleeps + 1
  /\ UNCHANGED <<disk, lock, seen, view, lost, tries, warned, blind>>

\* reclaimStaleLock: stat again, then remove whatever has that name.
Recheck(p) ==
  /\ IF p \in seen THEN Goto(p, "recheck", "remove") ELSE Goto(p, "recheck", "try")
  /\ seen' = seen \ {p}
  /\ UNCHANGED <<disk, lock, view, lost, tries, warned, blind, sleeps>>

\* Removed by name, the file of whoever is about to rename included.
TakeLock ==
  /\ lock' = NoFile /\ seen' = {}
  /\ blind' = blind \union {q \in Proc : lock.by = {q} /\ pc[q] = "rename"}

Remove(p) ==
  /\ Goto(p, "remove", "try") /\ TakeLock
  /\ UNCHANGED <<disk, view, lost, tries, warned, sleeps>>

\* The budget is spent, or the file cannot be created: go on without it.
Degrade(p) ==
  /\ p \in Degrades /\ Goto(p, "try", "read")
  /\ warned' = warned \union {p} /\ lost' = lost \ {p}
  /\ UNCHANGED <<disk, lock, seen, view, tries, blind, sleeps>>

------------------------------------------------------------------------------
(* withRegistryLock around a read, a change and writeRegistryUnlocked. *)

Read(p) ==
  /\ Goto(p, "read", "touch")
  /\ view' = [view EXCEPT ![p] = disk]
  /\ UNCHANGED <<disk, lock, seen, lost, tries, warned, blind, sleeps>>

\* renewRegistryLock, before the scratch file and again after it: utimes ...
Touch(p, here, next) ==
  /\ Goto(p, here, next)
  /\ seen' = IF lock # NoFile /\ p \notin warned \union lost THEN {} ELSE seen
  /\ UNCHANGED <<disk, lock, view, lost, tries, warned, blind, sleeps>>

\* ... and then the ownership read.  A failed one sticks.
Verify(p) ==
  /\ Goto(p, "verify", "touch again")
  /\ lost' = IF Mine(p) \/ p \in warned THEN lost ELSE lost \union {p}
  /\ UNCHANGED <<disk, lock, seen, view, tries, warned, blind, sleeps>>

\* A slip: a lease found gone at the first renewal reads as "never had one"
\* at the second.
HoldsUnsticky(p) == p \in warned \/ p \in lost \/ Mine(p)

\* May this section publish?  One that said that it has no lock may, too.
Holds(p) == p \in warned \/ (p \notin lost /\ Mine(p))

Publish(p) == disk' = Change(p, view[p])

\* The second verification; the rename is another system call.
VerifyAgain(p) ==
  /\ Holds(p) /\ Goto(p, "verify again", "rename")
  /\ UNCHANGED <<disk, lock, seen, view, lost, tries, warned, blind, sleeps>>

Rename(p) ==
  /\ Goto(p, "rename", "release")
  /\ Publish(p)
  /\ UNCHANGED <<lock, seen, view, lost, tries, warned, blind, sleeps>>

\* RegistryLockLostError: the whole section again, under a new lock, whose
\* last attempt publishes whatever it finds.
Retry(p) ==
  /\ ~Holds(p)
  /\ IF tries[p] < Retries
     THEN /\ Goto(p, "verify again", "try")
          /\ tries' = [tries EXCEPT ![p] = @ + 1]
          /\ UNCHANGED <<disk, lost, warned>>
     ELSE /\ Goto(p, "verify again", "release")
          /\ Publish(p)
          /\ lost' = lost \union {p} /\ warned' = warned \union {p}
          /\ UNCHANGED tries
  /\ UNCHANGED <<lock, seen, view, blind, sleeps>>

\* releaseRegistryLock: the token is read, then the file removed by name.
CheckRelease(p) ==
  /\ IF Mine(p) THEN Goto(p, "release", "unlink") ELSE Goto(p, "release", "done")
  /\ UNCHANGED <<disk, lock, seen, view, lost, tries, warned, blind, sleeps>>

Unlink(p) ==
  /\ Goto(p, "unlink", "done") /\ TakeLock
  /\ UNCHANGED <<disk, view, lost, tries, warned, sleeps>>

Crash(p) ==
  /\ Cardinality({q \in Proc : Dead(q)}) < MaxCrashes
  /\ pc[p] \notin {"done", "dead"}
  /\ pc' = [pc EXCEPT ![p] = "dead"] /\ seen' = seen \ {p}
  /\ UNCHANGED <<disk, lock, view, lost, tries, warned, blind, sleeps>>

Step(p) ==
  \/ WriteToken(p) \/ Confirm(p) \/ Watch(p) \/ Suspect(p) \/ Recheck(p)
  \/ Remove(p) \/ Degrade(p) \/ Read(p)
  \/ Touch(p, "touch", "verify") \/ Verify(p)
  \/ Touch(p, "touch again", "verify again")
  \/ VerifyAgain(p) \/ Rename(p) \/ Retry(p)
  \/ CheckRelease(p) \/ Unlink(p)

Next ==
  \/ \E p \in Proc : Create(p)
  \/ \E p \in Proc : Step(p)
  \/ \E p \in Proc : Crash(p)

Spec == Init /\ [][Next]_vars

\* A living process runs on; the random sleep between two attempts keeps a
\* waiter from missing every moment at which the file is free.
FairSpec ==
  Spec /\ \A p \in Proc : WF_vars(Step(p)) /\ SF_vars(Create(p))

------------------------------------------------------------------------------
(* Properties *)

TypeOK ==
  /\ disk \subseteq Entry /\ lock \in Files
  /\ seen \subseteq Proc /\ lost \subseteq Proc /\ warned \subseteq Proc
  /\ pc \in [Proc -> {"try", "write", "confirm", "recheck", "remove", "read",
       "touch", "verify", "touch again", "verify again", "rename", "release",
       "unlink", "done", "dead"}]
  /\ view \in [Proc -> SUBSET Entry] /\ tries \in [Proc -> 0..Retries]
  /\ blind \subseteq Proc /\ sleeps \in Nat

(* Everybody who published held the lock.  Otherwise either the publisher    *)
(* said that it went on without, or it slept for LOCK_STALE_MS between its   *)
(* last look at the lease and the rename, which nothing in registry.ts       *)
(* notices.                                                                  *)
Clean == warned = {} /\ blind = {}

(* No change of the registry is lost (the incident of registry.ts: 10 of 24  *)
(* registrations gone): as long as publishers held the lock, every           *)
(* publication is the publisher's own change of what was there, whoever      *)
(* crashed, slept, or removed whose lockfile meanwhile.                      *)
OwnChange == Clean' /\ disk' # disk => \E p \in Proc : disk' = Change(p, disk)
NothingClobbered == [][OwnChange]_vars

(* The same of the results: when a registration has published and nobody     *)
(* removes its entries, they are in the file from then on.                   *)
RegistrationsStay ==
  Clean => \A p \in Proc : pc[p] \in {"release", "unlink", "done"} =>
    \A e \in Adds[p] : (\A q \in Proc : e \notin Drops[q]) => e \in disk

(* A crash anywhere, also between the creation of the lockfile and its       *)
(* token, wedges nobody: every other process gets its turn.                  *)
NobodyWedged == \A p \in Proc : <>(pc[p] \in {"done", "dead"})

------------------------------------------------------------------------------
(* The invariant behind NothingClobbered.  A process owns a lockfile only    *)
(* between its creation and its end, its token is in it once written, a     *)
(* lease once found gone does not come back, and a process that still owns   *)
(* the file has read what is still in the registry; and who renames without  *)
(* one has said so, or lost it since the last look.                          *)

Reading == {"touch", "verify", "touch again", "verify again", "rename"}

OwnersAreCurrent ==
  \A p \in Proc : lock.by = {p} =>
    /\ pc[p] \notin {"try", "recheck", "remove", "done"}
    /\ pc[p] \notin {"write", "dead"} => lock.token
    /\ p \in lost => pc[p] \in {"write", "confirm", "dead"}
    /\ Clean /\ pc[p] \in Reading => view[p] = disk

RenamersHold ==
  \A p \in Proc :
    pc[p] = "rename" => p \in warned \/ p \in blind \/ lock.by = {p}

RegistryInv ==
  TypeOK /\ RegistrationsStay /\ OwnersAreCurrent /\ RenamersHold
=============================================================================
