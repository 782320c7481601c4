--------------------------- MODULE RegistryLockProofs ---------------------------
(***************************************************************************)
(* As long as everybody who publishes holds the lock, no change of the      *)
(* registry is lost, for any number of processes that sleep, crash and      *)
(* reclaim each other's lockfiles.                                          *)
(***************************************************************************)
EXTENDS RegistryLock, TLAPS

USE RegistryAssumption

\* A lockfile has at most one owner.
LEMMA OneOwner ==
  ASSUME NEW p \in Proc, NEW q \in Proc, {p} = {q}
  PROVE  p = q
  OBVIOUS

\* A token that reads as ours is in a file of ours.
LEMMA MineOwns ==
  ASSUME NEW p \in Proc, Mine(p)
  PROVE  lock.by = {p} /\ lock.token
  BY DEF Mine

\* Conversely a file of ours that has its token reads as ours.
LEMMA OwnsMine ==
  ASSUME NEW p \in Proc, TypeOK, lock.by = {p}, lock.token
  PROVE  Mine(p)
  BY DEF Mine, TypeOK, Files

\* acquireRegistryLock starts with no lockfile and nobody past it.
LEMMA InitInv == Init => RegistryInv
  <1> SUFFICES ASSUME Init PROVE RegistryInv
    OBVIOUS
  <1>1. TypeOK
    BY DEF Init, TypeOK, NoFile, Files
  <1>2. RegistrationsStay /\ OwnersAreCurrent /\ RenamersHold
    BY DEF Init, RegistrationsStay, OwnersAreCurrent, RenamersHold, NoFile, Reading
  <1> QED
    BY <1>1, <1>2 DEF RegistryInv

\* Every step of withRegistryLock keeps an owner's view current, and what has
\* been published in the file.
LEMMA StepInv ==
  ASSUME RegistryInv, [Next]_vars
  PROVE  RegistryInv'
  <1> USE DEF RegistryInv
  <1>1. ASSUME NEW p \in Proc, Create(p)
        PROVE  RegistryInv'
    <2>1. TypeOK'
      BY <1>1 DEF Create, Goto, NoFile, TypeOK, Files
    <2>2. RegistrationsStay'
      BY <1>1 DEF Create, Goto, NoFile, TypeOK, RegistrationsStay, Clean
    <2>3. OwnersAreCurrent'
      BY <1>1 DEF Create, Goto, NoFile, TypeOK, Files, OwnersAreCurrent, Clean, Reading
    <2>4. RenamersHold'
      BY <1>1 DEF Create, Goto, NoFile, TypeOK, RenamersHold
    <2> QED
      BY <2>1, <2>2, <2>3, <2>4
  <1>2. ASSUME NEW p \in Proc, WriteToken(p)
        PROVE  RegistryInv'
    <2>1. TypeOK'
      BY <1>2 DEF WriteToken, Goto, TypeOK, Files, NoFile
    <2>2. RegistrationsStay'
      BY <1>2 DEF WriteToken, Goto, TypeOK, RegistrationsStay, Clean
    <2>3. OwnersAreCurrent'
      BY <1>2 DEF WriteToken, Goto, TypeOK, Files, OwnersAreCurrent, Clean, Reading
    <2>4. RenamersHold'
      BY <1>2 DEF WriteToken, Goto, TypeOK, RenamersHold
    <2> QED
      BY <2>1, <2>2, <2>3, <2>4
  <1>3. ASSUME NEW p \in Proc, Confirm(p)
        PROVE  RegistryInv'
    <2>1. TypeOK'
      BY <1>3 DEF Confirm, Goto, Mine, TypeOK, Files, NoFile
    <2>2. RegistrationsStay'
      BY <1>3 DEF Confirm, Goto, Mine, TypeOK, RegistrationsStay, Clean
    <2>3. OwnersAreCurrent'
      <3>1. pc[p] = "confirm" /\ pc' = [pc EXCEPT ![p] = IF Mine(p) THEN "read" ELSE "try"]
        BY <1>3 DEF Confirm, Goto
      <3>2. UNCHANGED <<disk, lock, view, warned, blind>> /\ lost' \subseteq lost
        BY <1>3 DEF Confirm
      <3>3. ASSUME NEW q \in Proc \ {p} PROVE pc'[q] = pc[q]
        BY <3>1 DEF TypeOK
      <3>4. lock.by = {p} => lock.token /\ pc'[p] = "read" /\ p \notin lost'
        <4>1. ASSUME lock.by = {p} PROVE lock.token /\ (p \in lost => pc[p] = "confirm")
          BY <3>1, <4>1 DEF OwnersAreCurrent
        <4>2. lock.by = {p} => lock = [by |-> {p}, token |-> TRUE]
          BY <4>1 DEF TypeOK, Files
        <4> QED
          BY <1>3, <3>1, <4>1, <4>2 DEF Mine, TypeOK, Confirm
      <3> QED
        BY <3>1, <3>2, <3>3, <3>4 DEF OwnersAreCurrent, Clean, Reading
    <2>4. RenamersHold'
      BY <1>3 DEF Confirm, Goto, Mine, TypeOK, RenamersHold
    <2> QED
      BY <2>1, <2>2, <2>3, <2>4
  <1>4. ASSUME NEW p \in Proc, Watch(p)
        PROVE  RegistryInv'
    <2>1. TypeOK'
      BY <1>4 DEF Watch, TypeOK, Files, NoFile
    <2>2. RegistrationsStay'
      BY <1>4 DEF Watch, TypeOK, RegistrationsStay, Clean
    <2>3. OwnersAreCurrent'
      BY <1>4 DEF Watch, TypeOK, Files, OwnersAreCurrent, Clean, Reading
    <2>4. RenamersHold'
      BY <1>4 DEF Watch, TypeOK, RenamersHold
    <2> QED
      BY <2>1, <2>2, <2>3, <2>4
  <1>5. ASSUME NEW p \in Proc, Suspect(p)
        PROVE  RegistryInv'
    <2>1. TypeOK'
      <3>1. sleeps' \in Nat
        <4>1. sleeps' = sleeps \/ sleeps' = sleeps + 1
          <5>1. sleeps' = IF Abandoned THEN sleeps ELSE sleeps + 1
            BY <1>5 DEF Suspect
          <5>2. CASE Abandoned
            BY <5>1, <5>2
          <5>3. CASE ~Abandoned
            BY <5>1, <5>3
          <5> QED
            BY <5>2, <5>3
        <4>2. sleeps \in Nat
          BY DEF TypeOK
        <4> QED
          BY <4>1, <4>2
      <3>2. pc' = [pc EXCEPT ![p] = "recheck"]
            /\ UNCHANGED <<disk, lock, seen, view, lost, tries, warned, blind>>
        BY <1>5 DEF Suspect, Goto
      <3> QED
        BY <3>1, <3>2 DEF TypeOK
    <2>2. RegistrationsStay'
      BY <1>5 DEF Suspect, Goto, TypeOK, RegistrationsStay, Clean
    <2>3. OwnersAreCurrent'
      BY <1>5 DEF Suspect, Goto, TypeOK, Files, OwnersAreCurrent, Clean, Reading
    <2>4. RenamersHold'
      BY <1>5 DEF Suspect, Goto, TypeOK, RenamersHold
    <2> QED
      BY <2>1, <2>2, <2>3, <2>4
  <1>6. ASSUME NEW p \in Proc, Recheck(p)
        PROVE  RegistryInv'
    <2>1. TypeOK'
      BY <1>6 DEF Recheck, Goto, TypeOK, Files, NoFile
    <2>2. RegistrationsStay'
      BY <1>6 DEF Recheck, Goto, TypeOK, RegistrationsStay, Clean
    <2>3. OwnersAreCurrent'
      <3>1. pc[p] = "recheck" /\ pc' = [pc EXCEPT ![p] = IF p \in seen THEN "remove" ELSE "try"]
        BY <1>6 DEF Recheck, Goto
      <3>2. UNCHANGED <<disk, lock, view, warned, blind>> /\ lost' \subseteq lost
        BY <1>6 DEF Recheck
      <3>3. ASSUME NEW q \in Proc \ {p} PROVE pc'[q] = pc[q]
        BY <3>1 DEF TypeOK
      <3>4. lock.by # {p}
        BY <3>1 DEF OwnersAreCurrent
      <3> QED
        BY <3>1, <3>2, <3>3, <3>4 DEF OwnersAreCurrent, Clean, Reading
    <2>4. RenamersHold'
      BY <1>6 DEF Recheck, Goto, TypeOK, RenamersHold
    <2> QED
      BY <2>1, <2>2, <2>3, <2>4
  <1>7. ASSUME NEW p \in Proc, Remove(p)
        PROVE  RegistryInv'
    <2>1. TypeOK'
      BY <1>7 DEF Remove, TakeLock, Goto, NoFile, TypeOK, Files
    <2>2. RegistrationsStay'
      BY <1>7 DEF Remove, TakeLock, Goto, NoFile, TypeOK, RegistrationsStay, Clean
    <2>3. OwnersAreCurrent'
      BY <1>7 DEF Remove, TakeLock, Goto, NoFile, TypeOK, Files, OwnersAreCurrent, Clean, Reading
    <2>4. RenamersHold'
      BY <1>7 DEF Remove, TakeLock, Goto, NoFile, TypeOK, RenamersHold
    <2> QED
      BY <2>1, <2>2, <2>3, <2>4
  <1>8. ASSUME NEW p \in Proc, Degrade(p)
        PROVE  RegistryInv'
    <2>1. TypeOK'
      BY <1>8 DEF Degrade, Goto, TypeOK, Files, NoFile
    <2>2. RegistrationsStay'
      BY <1>8 DEF Degrade, Goto, TypeOK, RegistrationsStay, Clean
    <2>3. OwnersAreCurrent'
      BY <1>8 DEF Degrade, Goto, TypeOK, Files, OwnersAreCurrent, Clean, Reading
    <2>4. RenamersHold'
      BY <1>8 DEF Degrade, Goto, TypeOK, RenamersHold
    <2> QED
      BY <2>1, <2>2, <2>3, <2>4
  <1>9. ASSUME NEW p \in Proc, Read(p)
        PROVE  RegistryInv'
    <2>1. TypeOK'
      BY <1>9 DEF Read, Goto, TypeOK, Files, NoFile
    <2>2. RegistrationsStay'
      BY <1>9 DEF Read, Goto, TypeOK, RegistrationsStay, Clean
    <2>3. OwnersAreCurrent'
      BY <1>9 DEF Read, Goto, TypeOK, Files, OwnersAreCurrent, Clean, Reading
    <2>4. RenamersHold'
      BY <1>9 DEF Read, Goto, TypeOK, RenamersHold
    <2> QED
      BY <2>1, <2>2, <2>3, <2>4
  <1>10. ASSUME NEW p \in Proc, Touch(p, "touch", "verify")
        PROVE  RegistryInv'
    <2>1. TypeOK'
      BY <1>10 DEF Touch, Goto, TypeOK, Files, NoFile
    <2>2. RegistrationsStay'
      BY <1>10 DEF Touch, Goto, TypeOK, RegistrationsStay, Clean
    <2>3. OwnersAreCurrent'
      BY <1>10 DEF Touch, Goto, TypeOK, Files, OwnersAreCurrent, Clean, Reading
    <2>4. RenamersHold'
      BY <1>10 DEF Touch, Goto, TypeOK, RenamersHold
    <2> QED
      BY <2>1, <2>2, <2>3, <2>4
  <1>11. ASSUME NEW p \in Proc, Verify(p)
        PROVE  RegistryInv'
    <2>1. TypeOK'
      BY <1>11 DEF Verify, Goto, Mine, TypeOK, Files, NoFile
    <2>2. RegistrationsStay'
      BY <1>11 DEF Verify, Goto, Mine, TypeOK, RegistrationsStay, Clean
    <2>3. OwnersAreCurrent'
      BY <1>11 DEF Verify, Goto, Mine, TypeOK, Files, OwnersAreCurrent, Clean, Reading
    <2>4. RenamersHold'
      BY <1>11 DEF Verify, Goto, Mine, TypeOK, RenamersHold
    <2> QED
      BY <2>1, <2>2, <2>3, <2>4
  <1>12. ASSUME NEW p \in Proc, Touch(p, "touch again", "verify again")
        PROVE  RegistryInv'
    <2>1. TypeOK'
      BY <1>12 DEF Touch, Goto, TypeOK, Files, NoFile
    <2>2. RegistrationsStay'
      BY <1>12 DEF Touch, Goto, TypeOK, RegistrationsStay, Clean
    <2>3. OwnersAreCurrent'
      BY <1>12 DEF Touch, Goto, TypeOK, Files, OwnersAreCurrent, Clean, Reading
    <2>4. RenamersHold'
      BY <1>12 DEF Touch, Goto, TypeOK, RenamersHold
    <2> QED
      BY <2>1, <2>2, <2>3, <2>4
  <1>13. ASSUME NEW p \in Proc, VerifyAgain(p)
        PROVE  RegistryInv'
    <2>1. p \in warned \/ lock.by = {p}
      BY <1>13, MineOwns DEF VerifyAgain, Holds
    <2>2. TypeOK'
      BY <1>13 DEF VerifyAgain, Goto, TypeOK
    <2>3. RegistrationsStay'
      BY <1>13 DEF VerifyAgain, Goto, TypeOK, RegistrationsStay, Clean
    <2>4. OwnersAreCurrent'
      BY <1>13 DEF VerifyAgain, Goto, TypeOK, OwnersAreCurrent, Clean, Reading
    <2>5. RenamersHold'
      BY <1>13, <2>1 DEF VerifyAgain, Goto, TypeOK, RenamersHold
    <2> QED
      BY <2>2, <2>3, <2>4, <2>5
  <1>14. ASSUME NEW p \in Proc, Rename(p)
        PROVE  RegistryInv'
    <2>1. pc[p] = "rename" /\ pc' = [pc EXCEPT ![p] = "release"]
          /\ disk' = (view[p] \ Drops[p]) \union Adds[p]
          /\ UNCHANGED <<lock, seen, view, lost, tries, warned, blind, sleeps>>
      BY <1>14 DEF Rename, Goto, Publish, Change
    <2>2. Clean => lock.by = {p} /\ view[p] = disk
      BY <2>1 DEF RenamersHold, OwnersAreCurrent, Reading, Clean
    <2>3. TypeOK'
      BY <2>1 DEF TypeOK
    <2>4. RegistrationsStay'
      BY <2>1, <2>2 DEF TypeOK, RegistrationsStay, Clean
    <2>5. OwnersAreCurrent'
      <3> SUFFICES ASSUME NEW q \in Proc, lock.by = {q}
                   PROVE  OwnersAreCurrent!(q)!2'
        BY <2>1 DEF OwnersAreCurrent
      <3>1. CASE p = q
        BY <3>1, <2>1 DEF TypeOK, OwnersAreCurrent, Clean, Reading
      <3>2. CASE p # q
        BY <3>2, <2>1, <2>2, OneOwner DEF TypeOK, OwnersAreCurrent, Clean, Reading
      <3> QED
        BY <3>1, <3>2
    <2>6. RenamersHold'
      BY <2>1 DEF TypeOK, RenamersHold
    <2> QED
      BY <2>3, <2>4, <2>5, <2>6
  <1>15. ASSUME NEW p \in Proc, Retry(p)
        PROVE  RegistryInv'
    <2>1. CASE tries[p] < Retries
      <3>1. /\ pc[p] = "verify again" /\ pc' = [pc EXCEPT ![p] = "try"]
            /\ tries' = [tries EXCEPT ![p] = @ + 1]
            /\ lock.by # {p}
            /\ UNCHANGED <<disk, lock, seen, view, lost, warned, blind, sleeps>>
        <4>1. lock.by # {p}
          <5>1. p \in lost \/ ~Mine(p)
            BY <1>15 DEF Retry, Holds
          <5> QED
            BY <1>15, <5>1, OwnsMine DEF Retry, Goto, OwnersAreCurrent
        <4> QED
          BY <1>15, <2>1, <4>1 DEF Retry, Goto
      <3>2. TypeOK'
        <4>1. tries \in [Proc -> 0..Retries] /\ Retries \in Nat
          BY DEF TypeOK
        <4>2. tries[p] + 1 \in 0..Retries
          BY <2>1, <4>1
        <4>3. tries' \in [Proc -> 0..Retries]
          BY <3>1, <4>1, <4>2
        <4> QED
          BY <3>1, <4>3 DEF TypeOK
      <3>3. RegistrationsStay'
        BY <3>1 DEF TypeOK, RegistrationsStay, Clean
      <3>4. OwnersAreCurrent'
        BY <3>1 DEF TypeOK, OwnersAreCurrent, Clean, Reading
      <3>5. RenamersHold'
        BY <3>1 DEF TypeOK, RenamersHold
      <3> QED
        BY <3>2, <3>3, <3>4, <3>5
    <2>2. CASE ~(tries[p] < Retries)
      <3>1. /\ pc[p] = "verify again" /\ pc' = [pc EXCEPT ![p] = "release"]
            /\ disk' = (view[p] \ Drops[p]) \union Adds[p]
            /\ lost' = lost \union {p} /\ warned' = warned \union {p}
            /\ lock.by # {p}
            /\ UNCHANGED <<lock, seen, view, tries, blind, sleeps>>
        <4>1. lock.by # {p}
          <5>1. p \in lost \/ ~Mine(p)
            BY <1>15 DEF Retry, Holds
          <5> QED
            BY <1>15, <5>1, OwnsMine DEF Retry, Goto, OwnersAreCurrent
        <4> QED
          BY <1>15, <2>2, <4>1 DEF Retry, Goto, Publish, Change
      <3>2. TypeOK'
        BY <3>1 DEF TypeOK
      <3>3. RegistrationsStay'
        BY <3>1 DEF RegistrationsStay, Clean
      <3>4. OwnersAreCurrent'
        BY <3>1 DEF TypeOK, OwnersAreCurrent, Clean, Reading
      <3>5. RenamersHold'
        BY <3>1 DEF TypeOK, RenamersHold
      <3> QED
        BY <3>2, <3>3, <3>4, <3>5
    <2> QED
      BY <2>1, <2>2
  <1>16. ASSUME NEW p \in Proc, CheckRelease(p)
        PROVE  RegistryInv'
    <2>1. TypeOK'
      BY <1>16 DEF CheckRelease, Goto, Mine, TypeOK, Files, NoFile
    <2>2. RegistrationsStay'
      BY <1>16 DEF CheckRelease, Goto, Mine, TypeOK, RegistrationsStay, Clean
    <2>3. OwnersAreCurrent'
      <3>1. pc[p] = "release" /\ pc' = [pc EXCEPT ![p] = IF Mine(p) THEN "unlink" ELSE "done"]
        BY <1>16 DEF CheckRelease, Goto
      <3>2. UNCHANGED <<disk, lock, view, warned, blind>> /\ lost' \subseteq lost
        BY <1>16 DEF CheckRelease
      <3>3. ASSUME NEW q \in Proc \ {p} PROVE pc'[q] = pc[q]
        BY <3>1 DEF TypeOK
      <3>4. lock.by = {p} => lock.token /\ pc'[p] = "unlink" /\ p \notin lost'
        <4>1. ASSUME lock.by = {p} PROVE lock.token /\ (p \in lost => pc[p] = "confirm")
          BY <3>1, <4>1 DEF OwnersAreCurrent
        <4>2. lock.by = {p} => lock = [by |-> {p}, token |-> TRUE]
          BY <4>1 DEF TypeOK, Files
        <4> QED
          BY <1>16, <3>1, <4>1, <4>2 DEF Mine, TypeOK, CheckRelease
      <3> QED
        BY <3>1, <3>2, <3>3, <3>4 DEF OwnersAreCurrent, Clean, Reading
    <2>4. RenamersHold'
      BY <1>16 DEF CheckRelease, Goto, Mine, TypeOK, RenamersHold
    <2> QED
      BY <2>1, <2>2, <2>3, <2>4
  <1>17. ASSUME NEW p \in Proc, Unlink(p)
        PROVE  RegistryInv'
    <2>1. TypeOK'
      BY <1>17 DEF Unlink, TakeLock, Goto, NoFile, TypeOK, Files
    <2>2. RegistrationsStay'
      BY <1>17 DEF Unlink, TakeLock, Goto, NoFile, TypeOK, RegistrationsStay, Clean
    <2>3. OwnersAreCurrent'
      BY <1>17 DEF Unlink, TakeLock, Goto, NoFile, TypeOK, Files, OwnersAreCurrent, Clean, Reading
    <2>4. RenamersHold'
      BY <1>17 DEF Unlink, TakeLock, Goto, NoFile, TypeOK, RenamersHold
    <2> QED
      BY <2>1, <2>2, <2>3, <2>4
  <1>18. ASSUME NEW p \in Proc, Crash(p)
        PROVE  RegistryInv'
    <2>1. TypeOK'
      BY <1>18 DEF Crash, Goto, TypeOK, Files, NoFile
    <2>2. RegistrationsStay'
      BY <1>18 DEF Crash, Goto, TypeOK, RegistrationsStay, Clean
    <2>3. OwnersAreCurrent'
      BY <1>18 DEF Crash, Goto, TypeOK, Files, OwnersAreCurrent, Clean, Reading
    <2>4. RenamersHold'
      BY <1>18 DEF Crash, Goto, TypeOK, RenamersHold
    <2> QED
      BY <2>1, <2>2, <2>3, <2>4
  <1>19. CASE UNCHANGED vars
    BY <1>19 DEF vars, TypeOK, RegistrationsStay, OwnersAreCurrent, RenamersHold, Clean, Reading
  <1> QED
    BY <1>1, <1>2, <1>3, <1>4, <1>5, <1>6, <1>7, <1>8, <1>9, <1>10, <1>11, <1>12, <1>13, <1>14, <1>15, <1>16, <1>17, <1>18, <1>19 DEF Next, Step

\* The strengthened invariant: withRegistryLock's owners read what is there.
THEOREM RegistryInvariant == Spec => []RegistryInv
  <1>1. Init => RegistryInv
    BY InitInv
  <1>2. RegistryInv /\ [Next]_vars => RegistryInv'
    BY StepInv
  <1> QED
    BY <1>1, <1>2, PTL DEF Spec

\* A registration that writeRegistryUnlocked has published stays in the file,
\* unless somebody removes it or went on without the lock and said so.
THEOREM PublishedStays == Spec => []RegistrationsStay
  <1>1. Spec => []RegistryInv
    BY RegistryInvariant
  <1>2. RegistryInv => RegistrationsStay
    BY DEF RegistryInv
  <1> QED
    BY <1>1, <1>2, PTL

\* A write of the registry file is its owner's, or not a clean one.
LEMMA StepClobbersNothing ==
  ASSUME RegistryInv, Next
  PROVE  OwnChange
  <1> SUFFICES ASSUME Clean', disk' # disk
               PROVE  \E p \in Proc : disk' = Change(p, disk)
    BY DEF OwnChange
  <1>1. PICK p \in Proc : Rename(p) \/ Retry(p)
    BY DEF Next, Step, Create, WriteToken, Confirm, Watch, Suspect, Recheck,
           Remove, Degrade, Read, Touch, Verify, VerifyAgain, CheckRelease,
           Unlink, Crash
  <1>2. ~Retry(p)
    <2>1. p \notin warned'
      BY DEF Clean
    <2> QED
      BY <2>1 DEF Retry
  <1>3. Rename(p)
    BY <1>1, <1>2
  <1>4. lock.by = {p} /\ pc[p] = "rename" /\ Clean
    BY <1>3 DEF Rename, Goto, RegistryInv, RenamersHold, Clean
  <1>5. view[p] = disk
    BY <1>4 DEF RegistryInv, OwnersAreCurrent, Reading
  <1> QED
    BY <1>3, <1>5 DEF Rename, Publish

\* Nobody's change of the registry is overwritten by one computed without it,
\* whoever slept past LOCK_STALE_MS, crashed or reclaimed whose lockfile.
THEOREM NeverClobbers == Spec => NothingClobbered
  <1>1. Spec => []RegistryInv
    BY RegistryInvariant
  <1>2. RegistryInv /\ [Next]_vars => [OwnChange]_vars
    BY StepClobbersNothing
  <1> QED
    BY <1>1, <1>2, PTL DEF Spec, NothingClobbered
=============================================================================
