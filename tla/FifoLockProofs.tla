--------------------------- MODULE FifoLockProofs ---------------------------
(***************************************************************************)
(* The lock of a FIFO, for any number of samplers and slots and any sets   *)
(* of processes that may be killed or interrupted: typing and, while slots *)
(* are apart and no wait was cut short, mutual exclusion, a living owner   *)
(* for a locked FIFO, and the implementation of RoleLock.                  *)
(***************************************************************************)
EXTENDS FifoLock, TLAPS

(* The semaphore region has at most one process, and only while sem = 1.   *)
SemInv == /\ \A p, q \in Procs : pc[p] \in SemRegion /\ pc[q] \in SemRegion => p = q
          /\ \A p \in Procs : pc[p] \in SemRegion => sem = 1

(* What the position of a process tells of the lock word.                  *)
WordInv == \A p \in Procs :
  /\ p \in owns => LockedFor(p) /\ pc[p] \in {"idle", "waitlock", "test", "taken"}
  /\ pc[p] = "taken" => LockedFor(p)
  /\ pc[p] = "take" => status = "UNLOCKED"
  /\ pc[p] \in {"unlock", "check"} /\ p # Writer => LockedFor(p)
  /\ pc[p] = "reset" => LockedFor(p)

(* A locked FIFO has a process, dead or alive, that has not unlocked it.   *)
WordOwner == status # "UNLOCKED" =>
  \E p \in Procs : /\ LockedFor(p)
                   /\ p \in owns \/ pc[p] \in {"taken", "unlock", "check", "reset"}

IInv == TypeOK /\ (Intact => SemInv /\ WordInv /\ WordOwner)

(* Two processes cannot both find the FIFO locked for themselves.          *)
LEMMA LockedForOne ==
  ASSUME SlotsApart, NEW p \in Procs, NEW q \in Procs, LockedFor(p), LockedFor(q)
  PROVE  p = q
BY ProcsAssumption DEF LockedFor, OwnStatus, Procs, SlotsApart

(* The process that finds the FIFO locked for itself is the one the lock   *)
(* word names.                                                             *)
LEMMA HolderLockedFor ==
  ASSUME SlotsApart, NEW p \in Procs, LockedFor(p)
  PROVE  Holder = p
<1>1. CASE p \in Samplers
  <2>1. status = "LOCKEDFORSM" /\ sam_ind[p] = sam_locker
    BY <1>1, ProcsAssumption DEF LockedFor, OwnStatus
  <2>2. (CHOOSE q \in Samplers : sam_ind[q] = sam_locker) = p
    BY <1>1, <2>1 DEF SlotsApart
  <2> QED
    BY <2>1, <2>2 DEF Holder
<1>2. CASE p \notin Samplers
  BY <1>2, ProcsAssumption DEF LockedFor, OwnStatus, Holder, Procs
<1> QED
  BY <1>1, <1>2

(* The initial state satisfies the inductive invariant.                    *)
LEMMA InitInv == Init => IInv
BY ProcsAssumption
   DEF Init, IInv, TypeOK, SemInv, WordInv, WordOwner, Status, PC, SemRegion, Slot

(* A semop leaves the semaphore binary, whoever is interrupted.            *)
LEMMA GiveType ==
  ASSUME TypeOK, NEW p, SemGive(p) PROVE sem' \in {0, 1} /\ cut' \in BOOLEAN
<1>1. sem' \in {0, 1}
  BY DEF SemGive, TypeOK
<1>2. cut' \in BOOLEAN
  BY Zenon DEF SemGive, TypeOK
<1> QED
  BY <1>1, <1>2

LEMMA TypeStep == TypeOK /\ [Next]_vars => TypeOK'
<1> SUFFICES ASSUME TypeOK, [Next]_vars PROVE TypeOK'
  OBVIOUS
<1> USE ProcsAssumption DEF TypeOK, Goto, word
<1>1. CASE UNCHANGED vars
  BY <1>1 DEF vars
<1>2. ASSUME NEW p \in Procs, Spin(p) \/ ReturnLocked(p) \/ ReturnUnlocked(p) PROVE TypeOK'
  <2>1. sem' \in {0, 1} /\ cut' \in BOOLEAN
    BY <1>2, GiveType DEF Spin, ReturnLocked, ReturnUnlocked
  <2> QED
    BY <1>2, <2>1 DEF Spin, ReturnLocked, ReturnUnlocked, PC, InWaitlock
<1>3. ASSUME NEW p \in Procs, SemTake(p) \/ SemTakeCutShort(p) PROVE TypeOK'
  <2>1. sem' \in {0, 1}
    BY <1>3 DEF SemTake, SemTakeCutShort
  <2>2. pc' \in [Procs -> PC]
    BY <1>3 DEF SemTake, SemTakeCutShort, AfterSem, PC, InWaitlock, InUnlock
  <2>3. cut' \in BOOLEAN
    BY <1>3, Zenon DEF SemTake, SemTakeCutShort
  <2> QED
    BY <1>3, <2>1, <2>2, <2>3 DEF SemTake, SemTakeCutShort
<1>4. ASSUME NEW p \in Procs, Take(p) \/ Reset(p) PROVE TypeOK'
  BY <1>4 DEF Take, Reset, PC, InWaitlock, InUnlock, Status, OwnStatus, Procs
<1>5. ASSUME NEW p \in Procs,
             CallWaitlock(p) \/ CallUnlock(p) \/ Test(p) \/ Retest(p) \/ Check(p) \/ Kill(p)
      PROVE  TypeOK'
  BY <1>5 DEF CallWaitlock, CallUnlock, Test, Retest, Check, Kill, PC, InWaitlock, InUnlock
<1> QED
  BY <1>1, <1>2, <1>3, <1>4, <1>5 DEF Next, Step, InsideCall

(* While the lock is intact, every step preserves the rest.                *)
LEMMA SafeStep ==
  ASSUME TypeOK, SlotsApart, SemInv, WordInv, WordOwner, [Next]_vars, cut' = FALSE
  PROVE  (SemInv /\ WordInv /\ WordOwner)'
<1> DEFINE Safe == SemInv /\ WordInv /\ WordOwner
<1> USE ProcsAssumption DEF Goto, word
<1>a. CASE UNCHANGED vars
  BY <1>a DEF vars, SemInv, WordInv, WordOwner, LockedFor, OwnStatus
<1>b. ASSUME NEW p \in Procs, Kill(p) PROVE Safe'
  BY <1>b DEF Kill, SemInv, WordInv, WordOwner, LockedFor, OwnStatus
<1>1. ASSUME NEW p \in Procs, CallWaitlock(p) PROVE Safe'
  BY <1>1 DEF CallWaitlock, TypeOK, SemInv, WordInv, WordOwner, LockedFor, OwnStatus,
     PC, InWaitlock, InUnlock, SemRegion
<1>2. ASSUME NEW p \in Procs, CallUnlock(p) PROVE Safe'
  BY <1>2 DEF CallUnlock, TypeOK, SemInv, WordInv, WordOwner, LockedFor, OwnStatus,
     PC, InWaitlock, InUnlock, SemRegion
<1>3. ASSUME NEW p \in Procs, SemTake(p) PROVE Safe'
  BY <1>3 DEF SemTake, AfterSem, TypeOK, SemInv, WordInv, WordOwner, LockedFor, OwnStatus,
     PC, InWaitlock, InUnlock, SemRegion
<1>4. ASSUME NEW p \in Procs, Test(p) PROVE Safe'
  BY <1>4 DEF Test, TypeOK, SemInv, WordInv, WordOwner, LockedFor, OwnStatus,
     PC, InWaitlock, InUnlock, SemRegion
<1>5. ASSUME NEW p \in Procs, Retest(p) PROVE Safe'
  BY <1>5 DEF Retest, TypeOK, SemInv, WordInv, WordOwner, LockedFor, OwnStatus,
     PC, InWaitlock, InUnlock, SemRegion
<1>6. ASSUME NEW p \in Procs, Take(p) PROVE Safe'
  BY <1>6 DEF Take, Status, Procs, SlotsApart, TypeOK, SemInv, WordInv, WordOwner, LockedFor, OwnStatus,
     PC, InWaitlock, InUnlock, SemRegion
<1>7. ASSUME NEW p \in Procs, Spin(p) PROVE Safe'
  BY <1>7 DEF Spin, SemGive, TypeOK, SemInv, WordInv, WordOwner, LockedFor, OwnStatus,
     PC, InWaitlock, InUnlock, SemRegion
<1>8. ASSUME NEW p \in Procs, ReturnLocked(p) PROVE Safe'
  BY <1>8 DEF ReturnLocked, SemGive, TypeOK, SemInv, WordInv, WordOwner, LockedFor, OwnStatus,
     PC, InWaitlock, InUnlock, SemRegion
<1>9. ASSUME NEW p \in Procs, Check(p) PROVE Safe'
  BY <1>9 DEF Check, Refused, TypeOK, SemInv, WordInv, WordOwner, LockedFor, OwnStatus,
     PC, InWaitlock, InUnlock, SemRegion
<1>10. ASSUME NEW p \in Procs, Reset(p) PROVE Safe'
  BY <1>10 DEF Reset, Status, Procs, SlotsApart, TypeOK, SemInv, WordInv, WordOwner, LockedFor, OwnStatus,
     PC, InWaitlock, InUnlock, SemRegion
<1>11. ASSUME NEW p \in Procs, ReturnUnlocked(p) PROVE Safe'
  BY <1>11 DEF ReturnUnlocked, SemGive, TypeOK, SemInv, WordInv, WordOwner, LockedFor, OwnStatus,
     PC, InWaitlock, InUnlock, SemRegion
<1>12. ASSUME NEW p \in Procs, SemTakeCutShort(p) PROVE FALSE
  BY <1>12 DEF SemTakeCutShort
<1> QED
  BY <1>a, <1>b, <1>1, <1>2, <1>3, <1>4, <1>5, <1>6, <1>7, <1>8, <1>9, <1>10, <1>11, <1>12
     DEF Next, Step, InsideCall

(* No step repairs the lock.                                               *)
LEMMA IntactBefore ==
  ASSUME TypeOK, TypeOK', [Next]_vars, Intact' PROVE Intact /\ cut' = FALSE
<1>1. sam_ind' = sam_ind
  BY DEF Next, Step, InsideCall, vars, word, CallWaitlock, CallUnlock, SemTake, SemTakeCutShort,
     Test, Retest, Take, Spin, ReturnLocked, Check, Reset, ReturnUnlocked, Kill
<1>2. cut => cut'
  BY Zenon DEF Next, Step, InsideCall, vars, word, CallWaitlock, CallUnlock, SemTake,
     SemTakeCutShort, Test, Retest, Take, Spin, ReturnLocked, Check, Reset, ReturnUnlocked, Kill,
     SemGive
<1>3. SlotsApart
  BY <1>1 DEF Intact, SlotsApart
<1> QED
  BY <1>2, <1>3 DEF Intact, TypeOK

(* Every step preserves the inductive invariant.                           *)
LEMMA StepInv == IInv /\ [Next]_vars => IInv'
<1> SUFFICES ASSUME IInv, [Next]_vars PROVE IInv'
  OBVIOUS
<1>1. TypeOK /\ TypeOK'
  BY TypeStep DEF IInv
<1>2. ASSUME Intact' PROVE (SemInv /\ WordInv /\ WordOwner)'
  <2>1. Intact /\ cut' = FALSE
    BY <1>1, <1>2, IntactBefore
  <2> QED
    BY <1>1, <2>1, SafeStep DEF IInv, Intact
<1> QED
  BY <1>1, <1>2 DEF IInv

(* Typing, position and word invariants, in every reachable state.         *)
THEOREM LockInvariant == Spec => []IInv
<1>1. Init => IInv
  BY InitInv
<1>2. IInv /\ [Next]_vars => IInv'
  BY StepInv
<1> QED
  BY <1>1, <1>2, PTL DEF Spec

(* Variables keep their types (myFIFOData.status, sam_locker, semaphore).  *)
THEOREM TypeCorrect == Spec => []TypeOK
<1>1. IInv => TypeOK
  BY DEF IInv
<1> QED
  BY <1>1, LockInvariant, PTL

(* While each sampler has its own slot and no wait was cut short, write(), *)
(* dumpData() and read() of two processes never overlap, whoever is        *)
(* killed.                                                                 *)
THEOREM LockExcludes == Spec => []MutualExclusion
<1>1. IInv => MutualExclusion
  BY LockedForOne DEF IInv, Intact, WordInv, MutualExclusion, TypeOK
<1> QED
  BY <1>1, LockInvariant, PTL

(* Under the same condition waitlock() by the owner never enters its       *)
(* polling loop.                                                           *)
THEOREM OwnerReenters == Spec => []ReentryNeverPolls
<1>1. IInv => ReentryNeverPolls
  BY DEF IInv, WordInv, ReentryNeverPolls, TypeOK
<1> QED
  BY <1>1, LockInvariant, PTL

(* Under the same condition a FIFO is never left locked, unless a process  *)
(* was killed as its owner or inside the calls.                            *)
THEOREM LockNotOrphaned == Spec => []LockHasOwner
<1>1. IInv => LockHasOwner
  <2> SUFFICES ASSUME IInv, Intact, \A p \in dead : DiedOutside(p), status # "UNLOCKED"
               PROVE  \E p \in Procs \ dead :
                        /\ LockedFor(p)
                        /\ p \in owns \/ pc[p] \in {"taken", "unlock", "check", "reset"}
    BY DEF LockHasOwner
  <2>1. PICK p \in Procs : /\ LockedFor(p)
                           /\ p \in owns \/ pc[p] \in {"taken", "unlock", "check", "reset"}
    BY DEF IInv, WordOwner
  <2>2. p \notin dead
    BY <2>1 DEF DiedOutside
  <2> QED
    BY <2>1, <2>2
<1> QED
  BY <1>1, LockInvariant, PTL

-----------------------------------------------------------------------------
(* A step of waitlock() or unlock() is one step of the abstract lock or    *)
(* leaves it unchanged, as long as the lock is intact.                     *)
LEMMA StepRefines ==
  IInv /\ IInv' /\ [Next]_vars => [Abstract!Next]_<<Holder, owns>>
<1> SUFFICES ASSUME IInv, IInv', [Next]_vars
             PROVE  [Abstract!Next]_<<Holder, owns>>
  OBVIOUS
<1> SUFFICES ASSUME Intact'
             PROVE  [Abstract!Move]_<<Holder, owns>>
  <2>1. Intact' => Intact
    BY IntactBefore DEF IInv
  <2> QED
    BY <2>1 DEF Abstract!Next
<1>0. Intact /\ SlotsApart /\ WordInv
  BY IntactBefore DEF IInv, Intact
<1> USE DEF Goto, word, Abstract!Move
<1>a. UNCHANGED <<status, sam_locker, sam_ind>> => Holder' = Holder
  BY DEF Holder
<1>1. CASE UNCHANGED vars
  BY <1>1, <1>a DEF vars
<1>2. ASSUME NEW p \in Procs,
             \/ Kill(p) \/ CallWaitlock(p) \/ SemTake(p) \/ SemTakeCutShort(p) \/ Test(p)
             \/ Retest(p) \/ Spin(p) \/ Check(p) \/ ReturnUnlocked(p)
      PROVE  UNCHANGED <<Holder, owns>>
  BY <1>2, <1>a DEF Kill, CallWaitlock, SemTake, SemTakeCutShort, Test, Retest, Spin, Check,
     ReturnUnlocked
<1>3. ASSUME NEW p \in Procs, Take(p) PROVE Abstract!Take(p)
  <2>1. status = "UNLOCKED" /\ Holder = NoProc
    BY <1>0, <1>3 DEF Take, WordInv, Holder
  <2>2. LockedFor(p)' /\ SlotsApart'
    BY <1>0, <1>3, <2>1, ProcsAssumption DEF Take, LockedFor, OwnStatus, SlotsApart
  <2>3. ASSUME SlotsApart', LockedFor(p)' PROVE Holder' = p
    <3>1. CASE p \in Samplers
      <4>1. status' = "LOCKEDFORSM" /\ sam_ind'[p] = sam_locker'
        BY <2>3, <3>1, ProcsAssumption DEF LockedFor, OwnStatus
      <4>2. (CHOOSE q \in Samplers : sam_ind'[q] = sam_locker') = p
        BY <2>3, <3>1, <4>1 DEF SlotsApart
      <4> QED
        BY <4>1, <4>2 DEF Holder
    <3>2. CASE p \notin Samplers
      BY <2>3, <3>2, ProcsAssumption DEF LockedFor, OwnStatus, Holder, Procs
    <3> QED
      BY <3>1, <3>2
  <2>4. Holder' = p
    BY <2>2, <2>3
  <2> QED
    BY <1>3, <2>1, <2>4 DEF Take, Abstract!Take
<1>4. ASSUME NEW p \in Procs, ReturnLocked(p) PROVE Abstract!Enter(p)
  <2>1. Holder = p
    BY <1>0, <1>4, HolderLockedFor DEF ReturnLocked, WordInv
  <2> QED
    BY <1>4, <1>a, <2>1 DEF ReturnLocked, Abstract!Enter
<1>5. ASSUME NEW p \in Procs, CallUnlock(p)
      PROVE  Abstract!Leave(p) \/ UNCHANGED <<Holder, owns>>
  BY <1>5, <1>a DEF CallUnlock, Abstract!Leave
<1>6. ASSUME NEW p \in Procs, Reset(p) PROVE Abstract!GiveBack(p)
  <2>1. Holder = p /\ p \notin owns
    BY <1>0, <1>6, HolderLockedFor DEF Reset, WordInv
  <2> QED
    BY <1>6, <2>1 DEF Reset, Abstract!GiveBack, Holder
<1> QED
  BY <1>1, <1>2, <1>3, <1>4, <1>5, <1>6 DEF Next, Step, InsideCall

(* The semaphore-and-polling lock of myFIFO implements RoleLock, until a   *)
(* wait is cut short, if each sampler has its own slot.                    *)
THEOREM LockRefines == Spec => ImplementsRoleLock
<1>1. Init => Abstract!Init
  BY DEF Init, Abstract!Init, Holder
<1> QED
  BY <1>1, StepRefines, LockInvariant, PTL DEF Spec, ImplementsRoleLock, Abstract!Spec

=============================================================================
