--------------------------- MODULE FileLockProofs ---------------------------
(***************************************************************************)
(* Until somebody's removal takes the file of a process in the section, the *)
(* lockfile of file_lock.ts admits one process at a time, for any number of *)
(* processes, deaths and slow holders; and such a removal needs a death or  *)
(* a slow holder.                                                           *)
(***************************************************************************)
EXTENDS FileLock, TLAPS

\* Nothing is on disk and nobody past the first attempt.
LEMMA InitInv == Init => LockInv
  <1> SUFFICES ASSUME Init PROVE LockInv
    OBVIOUS
  <1>1. TypeOK
    BY DEF Init, TypeOK, NoFile, Files
  <1>2. InsidersOwn
    BY DEF Init, InsidersOwn
  <1>3. CalmOwners
    BY DEF Init, CalmOwners
  <1> QED
    BY <1>1, <1>2, <1>3 DEF LockInv

\* With no slow holder, step() suspects the files of the dead only.
LEMMA SuspectsTheDead ==
  ASSUME NEW p \in Proc, Suspect(p)
  PROVE  ~Calm
  BY DEF Suspect, Stale, Calm

\* Every step of step(), the section and release() keeps the lockfile that of
\* the process in the section, until a removal takes it.
LEMMA StepInv ==
  ASSUME LockInv, [Next]_vars
  PROVE  LockInv'
  <1> USE DEF LockInv
  <1>1. ASSUME NEW p \in Proc, Create(p)
        PROVE  LockInv'
    <2>1. TypeOK'
      BY <1>1 DEF Create, Goto, TypeOK, NoFile, Files
    <2>2. InsidersOwn'
      BY <1>1 DEF Create, Goto, TypeOK, NoFile, Files, InsidersOwn
    <2>3. CalmOwners'
      BY <1>1 DEF Create, Goto, TypeOK, NoFile, Files, CalmOwners, Calm, Dead
    <2> QED
      BY <2>1, <2>2, <2>3
  <1>2. ASSUME NEW p \in Proc, WriteToken(p)
        PROVE  LockInv'
    <2>1. TypeOK'
      BY <1>2 DEF WriteToken, Goto, TypeOK, NoFile, Files
    <2>2. InsidersOwn'
      BY <1>2 DEF WriteToken, Goto, TypeOK, Files, InsidersOwn
    <2>3. CalmOwners'
      BY <1>2 DEF WriteToken, Goto, TypeOK, NoFile, Files, CalmOwners, Calm, Dead
    <2> QED
      BY <2>1, <2>2, <2>3
  <1>3. ASSUME NEW p \in Proc, Confirm(p)
        PROVE  LockInv'
    <2>1. TypeOK'
      BY <1>3 DEF Confirm, Goto, Mine, Token, TypeOK, NoFile, Files
    <2>2. InsidersOwn'
      BY <1>3 DEF Confirm, Goto, Mine, Token, TypeOK, Files, InsidersOwn
    <2>3. CalmOwners'
      BY <1>3 DEF Confirm, Goto, Mine, Token, TypeOK, NoFile, Files, CalmOwners, Calm, Dead
    <2> QED
      BY <2>1, <2>2, <2>3
  <1>4. ASSUME NEW p \in Proc, Watch(p)
        PROVE  LockInv'
    BY <1>4 DEF Watch, TypeOK, InsidersOwn, CalmOwners, Calm, Dead
  <1>5. ASSUME NEW p \in Proc, Suspect(p)
        PROVE  LockInv'
    <2>1. TypeOK'
      BY <1>5 DEF Suspect, Goto, Token, TypeOK, Files
    <2>2. InsidersOwn'
      BY <1>5 DEF Suspect, Goto, TypeOK, InsidersOwn
    <2>3. CalmOwners'
      BY <1>5, SuspectsTheDead DEF Suspect, Goto, TypeOK, CalmOwners, Calm, Dead
    <2> QED
      BY <2>1, <2>2, <2>3
  <1>6. ASSUME NEW p \in Proc, Recheck(p)
        PROVE  LockInv'
    BY <1>6 DEF Recheck, Goto, TypeOK, InsidersOwn, CalmOwners, Calm, Dead
  <1>7. ASSUME NEW p \in Proc, Remove(p)
        PROVE  LockInv'
    <2>1. TypeOK'
      BY <1>7 DEF Remove, TakeLock, Goto, TypeOK, NoFile, Files
    <2>2. InsidersOwn'
      BY <1>7 DEF Remove, TakeLock, Goto, TypeOK, InsidersOwn, Dead
    <2>3. CalmOwners'
      BY <1>7 DEF Remove, TakeLock, Goto, TypeOK, CalmOwners, Calm, Dead
    <2> QED
      BY <2>1, <2>2, <2>3
  <1>8. ASSUME NEW p \in Proc, Leave(p)
        PROVE  LockInv'
    <2>1. TypeOK'
      BY <1>8 DEF Leave, Goto, Mine, Token, TypeOK, NoFile, Files
    <2>2. InsidersOwn'
      BY <1>8 DEF Leave, Goto, Mine, Token, TypeOK, Files, InsidersOwn
    <2>3. CalmOwners'
      BY <1>8 DEF Leave, Goto, Mine, Token, TypeOK, NoFile, Files, CalmOwners, Calm, Dead
    <2> QED
      BY <2>1, <2>2, <2>3
  <1>9. ASSUME NEW p \in Proc, Unlink(p)
        PROVE  LockInv'
    <2>1. TypeOK'
      BY <1>9 DEF Unlink, TakeLock, Goto, TypeOK, NoFile, Files
    <2>2. InsidersOwn'
      BY <1>9 DEF Unlink, TakeLock, Goto, TypeOK, InsidersOwn
    <2>3. CalmOwners'
      BY <1>9 DEF Unlink, TakeLock, Goto, TypeOK, InsidersOwn, CalmOwners, Calm, Dead
    <2> QED
      BY <2>1, <2>2, <2>3
  <1>10. ASSUME NEW p \in Proc, Touch(p)
         PROVE  LockInv'
    BY <1>10 DEF Touch, TypeOK, InsidersOwn, CalmOwners, Calm, Dead
  <1>11. ASSUME NEW p \in Proc, TimeOut(p)
         PROVE  LockInv'
    BY <1>11 DEF TimeOut, Goto, TypeOK, InsidersOwn, CalmOwners, Calm, Dead
  <1>12. ASSUME NEW p \in Proc, Crash(p)
         PROVE  LockInv'
    BY <1>12 DEF Crash, TypeOK, InsidersOwn, CalmOwners, Calm, Dead
  <1>13. CASE UNCHANGED vars
    BY <1>13 DEF vars, TypeOK, InsidersOwn, CalmOwners, Calm, Dead
  <1> QED
    BY <1>1, <1>2, <1>3, <1>4, <1>5, <1>6, <1>7, <1>8, <1>9, <1>10, <1>11, <1>12,
       <1>13 DEF Next, Step

\* The strengthened invariant of withFileLock.
THEOREM LockInvariant == Spec => []LockInv
  <1>1. Init => LockInv
    BY InitInv
  <1>2. LockInv /\ [Next]_vars => LockInv'
    BY StepInv
  <1> QED
    BY <1>1, <1>2, PTL DEF Spec

\* withFileLock admits one process at a time until the file of a process in
\* the section is taken.
THEOREM AdmitsOne == Spec => []OneAtATime
  <1>1. Spec => []LockInv
    BY LockInvariant
  <1>2. LockInv => OneAtATime
    BY DEF LockInv, TypeOK, InsidersOwn, OneAtATime, MutualExclusion
  <1> QED
    BY <1>1, <1>2, PTL

\* Among processes that neither die nor go silent, nobody in the section of
\* withFileLock loses its file.
THEOREM LivingKeepTheirFile == Spec => []TakenAfterDeath
  <1>1. Spec => []LockInv
    BY LockInvariant
  <1>2. LockInv => TakenAfterDeath
    BY DEF LockInv, CalmOwners, TakenAfterDeath
  <1> QED
    BY <1>1, <1>2, PTL
=============================================================================
