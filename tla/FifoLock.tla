------------------------------ MODULE FifoLock ------------------------------
(***************************************************************************)
(* The lock of one FIFO (FIFOlib/myFIFO.cpp): the word `status' in shared  *)
(* memory says which role holds the FIFO, and semaphore 1 of the FIFO's    *)
(* set guards that word.  A process takes the semaphore by one atomic      *)
(* semop (wait for 0, then add 1), looks at `status', possibly changes it, *)
(* and gives the semaphore back.  waitlock() polls: while another role     *)
(* holds the FIFO it releases the semaphore, sleeps and tries again.       *)
(*                                                                         *)
(* The reading and the writing of `status' are separate steps, so that the *)
(* semaphore matters.  Samplers are told apart by their slot sam_ind only, *)
(* and may have the same (FifoRing, FifoAttach).  No result of a semop is  *)
(* looked at: a wait that SIGINT cuts short goes on without the semaphore. *)
(* A process may be killed at any step: nothing is undone for it (the      *)
(* semops carry no SEM_UNDO).                                              *)
(***************************************************************************)
EXTENDS Naturals

CONSTANTS Writer,     \* the process that fills the FIFO (readout)
          Reader,     \* the process that empties it (data writer)
          Samplers,   \* the monitoring processes
          MAXSM,      \* slots for samplers
          NoProc,     \* no process: the holder of a free lock
          Killable,   \* the processes that may be killed
          Interruptible  \* the processes that may get SIGINT while they wait

Procs == {Writer, Reader} \cup Samplers

ASSUME ProcsAssumption ==
         /\ Writer # Reader
         /\ Writer \notin Samplers
         /\ Reader \notin Samplers
         /\ NoProc \notin Procs
         /\ MAXSM \in Nat \ {0}
         /\ Killable \subseteq Procs /\ Interruptible \subseteq Procs

VARIABLES sem,         \* value of semaphore 1
          status,      \* myFIFOData.status
          sam_locker,  \* myFIFOData.sam_locker
          sam_ind,     \* the slot of each sampler
          pc,          \* where each process is in waitlock() or unlock()
          owns,        \* processes between waitlock()'s return and unlock()
          dead,        \* killed processes
          cut          \* history: SIGINT has cut a semop short

word == <<status, sam_locker, sam_ind>>
vars == <<sem, word, pc, owns, dead, cut>>

Slot == 0..(MAXSM - 1)

Status == {"LOCKEDFORWR", "LOCKEDFORRD", "LOCKEDFORSM", "UNLOCKED"}

InWaitlock == {"waitlock", "test", "take", "spin", "again", "retest", "taken"}
InUnlock == {"unlock", "check", "reset", "leave"}
PC == {"idle"} \cup InWaitlock \cup InUnlock

(* Where a process has semaphore 1 at 1.                                   *)
SemRegion == {"test", "take", "spin", "retest", "taken", "check", "reset", "leave"}

OwnStatus(p) == IF p = Writer THEN "LOCKEDFORWR"
                ELSE IF p = Reader THEN "LOCKEDFORRD" ELSE "LOCKEDFORSM"

(* The re-entry test of waitlock(): the FIFO is already locked for the     *)
(* caller's role and, for a sampler, for its slot.                         *)
LockedFor(p) == status = OwnStatus(p) /\ (p \in Samplers => sam_locker = sam_ind[p])

(* Each sampler has its slot for itself.                                   *)
SlotsApart == \A p, q \in Samplers : sam_ind[p] = sam_ind[q] => p = q

(* No sampler takes another for itself, and no wait was cut short.         *)
Intact == SlotsApart /\ ~ cut

(* The process the lock word names, when slots are apart.                  *)
Holder == IF status = "LOCKEDFORWR" THEN Writer
          ELSE IF status = "LOCKEDFORRD" THEN Reader
          ELSE IF status = "LOCKEDFORSM" THEN CHOOSE p \in Samplers : sam_ind[p] = sam_locker
          ELSE NoProc

Init == /\ sem = 0
        /\ status = "UNLOCKED"
        /\ sam_locker = MAXSM + 1
        /\ sam_ind \in [Samplers -> Slot]
        /\ pc = [p \in Procs |-> "idle"]
        /\ owns = {}
        /\ dead = {}
        /\ cut = FALSE

Goto(p, l) == pc' = [pc EXCEPT ![p] = l]

-----------------------------------------------------------------------------
(* waitlock(), also called by a process that already owns the lock         *)
(* (myFIFOlock() after myOpenRun(), dumpData(FILE* ) by the reader).       *)

CallWaitlock(p) == /\ pc[p] = "idle"
                   /\ Goto(p, "waitlock")
                   /\ UNCHANGED <<sem, word, owns, dead, cut>>

(* What a process does once it has the semaphore.                          *)
AfterSem == [waitlock |-> "test", again |-> "retest", unlock |-> "check"]

(* A semop that forgets to wait for 0 before it adds 1.                    *)
SemTakeNoWait(p) ==
  /\ pc[p] \in {"waitlock", "again", "unlock"}
  /\ sem' = sem + 1
  /\ Goto(p, AfterSem[pc[p]])
  /\ UNCHANGED <<word, owns, dead, cut>>

(* semop(ops, 2): atomically wait for 0 and add 1.                         *)
SemTake(p) ==
  /\ pc[p] \in {"waitlock", "again", "unlock"}
  /\ sem = 0
  /\ sem' = sem + 1
  /\ Goto(p, AfterSem[pc[p]])
  /\ UNCHANGED <<word, owns, dead, cut>>

(* SIGINT ends the wait with EINTR: the process goes on as if it had it.   *)
SemTakeCutShort(p) ==
  /\ pc[p] \in {"waitlock", "again", "unlock"}
  /\ sem # 0 /\ p \in Interruptible
  /\ cut' = TRUE
  /\ Goto(p, AfterSem[pc[p]])
  /\ UNCHANGED <<sem, word, owns, dead>>

(* semop(&ops[2], 1), which subtracts 1: waits at 0, unless cut short.     *)
SemGive(p) ==
  \/ sem > 0 /\ sem' = sem - 1 /\ UNCHANGED cut
  \/ sem = 0 /\ p \in Interruptible /\ cut' = TRUE /\ UNCHANGED sem

(* waitlock() that does not recognise its own lock.                        *)
TestNoReentry(p) ==
  /\ pc[p] = "test"
  /\ Goto(p, IF status = "UNLOCKED" THEN "take" ELSE "spin")
  /\ UNCHANGED <<sem, word, owns, dead, cut>>

Test(p) ==
  /\ pc[p] = "test"
  /\ Goto(p, IF LockedFor(p) THEN "taken"
             ELSE IF status = "UNLOCKED" THEN "take" ELSE "spin")
  /\ UNCHANGED <<sem, word, owns, dead, cut>>

(* The loop looks for UNLOCKED only.                                       *)
Retest(p) ==
  /\ pc[p] = "retest"
  /\ Goto(p, IF status = "UNLOCKED" THEN "take" ELSE "spin")
  /\ UNCHANGED <<sem, word, owns, dead, cut>>

Take(p) ==
  /\ pc[p] = "take"
  /\ status' = OwnStatus(p)
  /\ sam_locker' = IF p \in Samplers THEN sam_ind[p] ELSE sam_locker
  /\ Goto(p, "taken")
  /\ UNCHANGED <<sem, sam_ind, owns, dead, cut>>

(* Release the semaphore inside the loop, then usleep(10).                 *)
Spin(p) ==
  /\ pc[p] = "spin"
  /\ SemGive(p)
  /\ Goto(p, "again")
  /\ UNCHANGED <<word, owns, dead>>

ReturnLocked(p) ==
  /\ pc[p] = "taken"
  /\ SemGive(p)
  /\ owns' = owns \cup {p}
  /\ Goto(p, "idle")
  /\ UNCHANGED <<word, dead>>

-----------------------------------------------------------------------------
(* unlock().  Every owner ends with one; the writer calls it once more     *)
(* without the lock when it closes a run (myCloseRun() after               *)
(* myFIFOunlock()), whoever holds the FIFO at that moment.                 *)

CallUnlock(p) ==
  /\ pc[p] = "idle"
  /\ p \in owns \/ p = Writer
  /\ owns' = owns \ {p}
  /\ Goto(p, "unlock")
  /\ UNCHANGED <<sem, word, dead, cut>>

(* unlock() that wants a sampler's slot whatever the caller's role.        *)
RefusedStrict(p) == status # OwnStatus(p) \/ p \notin Samplers

(* Whether unlock() answers FAILED: another role has the lock.  For a      *)
(* sampler the code joins the two tests by `and': the last sampler that    *)
(* took the FIFO is never refused, whoever has it now.                     *)
Refused(p) ==
  IF p \in Samplers THEN status # "LOCKEDFORSM" /\ sam_locker # sam_ind[p]
                    ELSE status # OwnStatus(p)

(* unlock() without the test of who holds the lock.                        *)
CheckAnybody(p) ==
  /\ pc[p] = "check"
  /\ Goto(p, IF status = "UNLOCKED" THEN "leave" ELSE "reset")
  /\ UNCHANGED <<sem, word, owns, dead, cut>>

Check(p) ==
  /\ pc[p] = "check"
  /\ Goto(p, IF status = "UNLOCKED" \/ Refused(p) THEN "leave" ELSE "reset")
  /\ UNCHANGED <<sem, word, owns, dead, cut>>

Reset(p) ==
  /\ pc[p] = "reset"
  /\ status' = "UNLOCKED"
  /\ Goto(p, "leave")
  /\ UNCHANGED <<sem, sam_locker, sam_ind, owns, dead, cut>>

ReturnUnlocked(p) ==
  /\ pc[p] = "leave"
  /\ SemGive(p)
  /\ Goto(p, "idle")
  /\ UNCHANGED <<word, owns, dead>>

-----------------------------------------------------------------------------
(* SIGKILL: the process stops where it is; semaphore and word stay.        *)
Kill(p) == /\ p \in Killable
           /\ dead' = dead \cup {p}
           /\ UNCHANGED <<sem, word, pc, owns, cut>>

(* The steps a running process takes by itself once it is in a call.       *)
InsideCall(p) == \/ Test(p) \/ Retest(p) \/ Take(p) \/ Spin(p) \/ ReturnLocked(p)
                 \/ Check(p) \/ Reset(p) \/ ReturnUnlocked(p)

Step(p) == \/ CallWaitlock(p) \/ CallUnlock(p)
           \/ SemTake(p) \/ SemTakeCutShort(p) \/ InsideCall(p)

Next == \E p \in Procs \ dead : Step(p) \/ Kill(p)

Spec == Init /\ [][Next]_vars

(* A process that is in waitlock() or unlock() goes on; the kernel serves  *)
(* blocked semops in the order they arrived, so a process that asks again  *)
(* and again gets the semaphore; every owner calls unlock() in the end.    *)
Fairness == \A p \in Procs : /\ WF_vars(p \notin dead /\ InsideCall(p))
                             /\ SF_vars(p \notin dead /\ SemTake(p))
                             /\ WF_vars(p \notin dead /\ p \in owns /\ CallUnlock(p))

FairSpec == Spec /\ Fairness

-----------------------------------------------------------------------------
TypeOK == /\ sem \in {0, 1}
          /\ status \in Status
          /\ sam_locker \in Slot \cup {MAXSM + 1}
          /\ sam_ind \in [Samplers -> Slot]
          /\ pc \in [Procs -> PC]
          /\ owns \subseteq Procs
          /\ dead \subseteq Procs
          /\ cut \in BOOLEAN

(* While slots are apart and no wait was cut short, at most one process is *)
(* between waitlock() and unlock(): write(), dumpData() and read() of      *)
(* different processes do not overlap, whoever is killed wherever.         *)
MutualExclusion == Intact => \A p, q \in owns : p = q

(* Under the same condition an owner that calls waitlock() again returns   *)
(* without polling: it cannot wait for itself.                             *)
ReentryNeverPolls ==
  Intact => \A p \in owns : pc[p] \notin {"take", "spin", "again", "retest"}

(* Where SIGKILL does no harm to the others: outside, or about to ask for  *)
(* the FIFO, and not as its owner.                                         *)
DiedOutside(p) == p \notin owns /\ pc[p] \in {"idle", "waitlock", "again"}

(* Under the same condition, and if the killed processes died outside, a   *)
(* locked FIFO has a living process that will unlock it: one that owns it, *)
(* or is returning from waitlock(), or is on its way through unlock().     *)
LockHasOwner ==
  Intact /\ (\A p \in dead : DiedOutside(p)) /\ status # "UNLOCKED" =>
    \E p \in Procs \ dead : /\ LockedFor(p)
                            /\ \/ p \in owns
                               \/ pc[p] \in {"taken", "unlock", "check", "reset"}

(* The polling lock implements the abstract one while it is intact.        *)
Abstract == INSTANCE RoleLock WITH holder <- Holder, broken <- ~ Intact

ImplementsRoleLock == Abstract!Spec

(* As long as somebody waits for the lock, somebody gets it: the polling   *)
(* processes cannot keep the semaphore from the one that wants to unlock.  *)
Progress == (\E p \in Procs : pc[p] \in InWaitlock) ~> (owns # {})

=============================================================================
