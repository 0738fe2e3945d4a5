----------------------------- MODULE FifoAttach -----------------------------
(***************************************************************************)
(* How processes come to a FIFO and leave it: constructor and destructor   *)
(* of myFIFO (FIFOlib/myFIFO.cpp), one step per system call and per group  *)
(* of accesses to the shared data segment.                                 *)
(*                                                                         *)
(* The constructor runs under semaphore 0 of the FIFO's set; the           *)
(* destructor does not, and whoever leaves last removes the FIFO segment,  *)
(* the data segment and the set.  System V rules: an identifier is found   *)
(* by its key until it is removed; a removed segment lives on while it is  *)
(* mapped; a removed set of semaphores is gone at once, and semop on it    *)
(* fails.  The code does not look at the result of semop, so that a        *)
(* constructor also goes on when SIGINT cuts its wait short.               *)
(*                                                                         *)
(* The history `harm' remembers what has happened of the things that undo  *)
(* the protection: "overlap", a process starts while another one leaves,   *)
(* or leaves while another one starts; "cut", a wait was cut short;        *)
(* "refused", a reader or writer that was refused has left; "died", a      *)
(* process ended without its destructor.                                   *)
(***************************************************************************)
EXTENDS Naturals, Sequences, FiniteSets

CONSTANTS Writers, Readers, Samplers,  \* processes by the role they ask for
          NoProc,
          MaxSM,       \* MAXSM
          Width,       \* nsampler counts modulo Width (2^32 in the code)
          Killable,    \* processes that may die without their destructor
          Failing,     \* processes for which a system call may fail
          Interruptible  \* processes that may get SIGINT while they wait

Procs == Writers \cup Readers \cup Samplers

ASSUME AttachAssumption ==
         /\ Writers \cap Readers = {} /\ Writers \cap Samplers = {}
         /\ Readers \cap Samplers = {} /\ NoProc \notin Procs
         /\ MaxSM \in Nat \ {0} /\ Width \in Nat /\ Width > MaxSM
         /\ Killable \subseteq Procs /\ Failing \subseteq Procs
         /\ Interruptible \subseteq Procs

VARIABLES semKey,   \* set of semaphores the key leads to, 0 if there is none
          sem0,     \* its semaphore 0
          nsets,    \* sets made so far
          dataKey,  \* data segment the key leads to
          data,     \* contents of every data segment made so far
          fifoKey,  \* FIFO segment the key leads to
          nfifos,   \* FIFO segments made so far
          pc,
          my,       \* what each process keeps for itself
          harm      \* history

vars == <<semKey, sem0, nsets, dataKey, data, fifoKey, nfifos, pc, my, harm>>

(* The entries of the segment that belong to one user: sampler slots,      *)
(* then the reader's and the writer's.                                     *)
RdSlot == MaxSM
WrSlot == MaxSM + 1
Slots == 0..(MaxSM + 1)

(* A data segment: zeroes until somebody initialises it.  start[s] is the  *)
(* process whose address of the FIFO segment startSM/RD/WR holds.          *)
Blank == [init |-> FALSE, semid |-> 0, fifo |-> 0, nsampler |-> 0,
          user |-> [s \in Slots |-> "ZERO"], start |-> [s \in Slots |-> NoProc]]

(* A process: its set of semaphores, the segments it knows and maps, its   *)
(* slot, a copy of nsampler and the test of its last IPC_STAT.             *)
Fresh == [sem |-> 0, did |-> 0, data |-> 0, fifo |-> 0, sam_ind |-> 0, n |-> 0, none |-> FALSE]

InCtor == {"shmget", "shmat", "test", "init", "check", "attach", "mark", "bump"}
InDtor == {"leave", "count", "stat", "rmfifo", "shmdt", "stat2", "rmdata", "rmsem"}
PC == {"out", "semop", "in", "invalid", "gone"} \cup InCtor \cup InDtor

Init == /\ semKey = 0 /\ sem0 = 0 /\ nsets = 0
        /\ dataKey = 0 /\ data = <<>>
        /\ fifoKey = 0 /\ nfifos = 0
        /\ pc = [p \in Procs |-> "out"]
        /\ my = [p \in Procs |-> Fresh]
        /\ harm = {}

Seg(p) == data[my[p].data]
Role(p) == IF p \in Readers THEN Readers ELSE IF p \in Writers THEN Writers ELSE Samplers
SlotOf(p) == IF p \in Readers THEN RdSlot ELSE IF p \in Writers THEN WrSlot ELSE my[p].sam_ind

DataUsers(d) == {p \in Procs : my[p].data = d}
FifoUsers(f) == {p \in Procs : my[p].fifo = f}
DataExists(d) == d # 0 /\ (d = dataKey \/ DataUsers(d) # {})
FifoExists(f) == f # 0 /\ (f = fifoKey \/ FifoUsers(f) # {})

Goto(p, l) == pc' = [pc EXCEPT ![p] = l]

(* semop -1: without effect on a set that was removed.  At 0, where only a *)
(* wait cut short can lead, it waits, unless it is cut short too.          *)
Release(p) == IF my[p].sem = semKey
              THEN /\ sem0 = 1 \/ p \in Interruptible
                   /\ sem0' = 0
              ELSE UNCHANGED sem0

Sems == <<semKey, nsets>>
Data == <<dataKey, data>>
Fifo == <<fifoKey, nfifos>>

-----------------------------------------------------------------------------
(* The constructor.                                                        *)

(* Somebody is on the way out, or on the way in.                           *)
SomeoneLeaves == \E q \in Procs : pc[q] \in InDtor
SomeoneComes == \E q \in Procs : pc[q] \in InCtor \cup {"semop"}

Overlap(b) == IF b THEN {"overlap"} ELSE {}

(* semget.                                                                 *)
Start(p) == /\ pc[p] = "out"
            /\ IF semKey = 0
               THEN /\ semKey' = nsets + 1 /\ nsets' = nsets + 1 /\ sem0' = 0
                    /\ my' = [my EXCEPT ![p].sem = nsets + 1]
               ELSE /\ my' = [my EXCEPT ![p].sem = semKey]
                    /\ UNCHANGED <<Sems, sem0>>
            /\ Goto(p, "semop") /\ UNCHANGED <<Data, Fifo>>
            /\ harm' = harm \cup Overlap(SomeoneLeaves)

(* Without semaphores internalData is uninitialised, and the destructor    *)
(* dies of it.                                                             *)
StartFails(p) == /\ p \in Failing /\ pc[p] = "out"
                 /\ Goto(p, "gone") /\ UNCHANGED <<Sems, sem0, Data, Fifo, my>>

(* semop: wait for 0 and add 1.  It fails on a set that was removed, and   *)
(* the constructor goes on.                                                *)
SemopNoWait(p) == /\ pc[p] = "semop"
                  /\ sem0' = IF my[p].sem = semKey THEN sem0 + 1 ELSE sem0
                  /\ Goto(p, "shmget") /\ UNCHANGED <<Sems, Data, Fifo, my>>

Semop(p) == /\ pc[p] = "semop"
            /\ IF my[p].sem = semKey THEN sem0 = 0 /\ sem0' = 1 ELSE UNCHANGED sem0
            /\ Goto(p, "shmget") /\ UNCHANGED <<Sems, Data, Fifo, my>>

(* SIGINT ends the wait; the constructor goes on beside the one inside.    *)
SemopCutShort(p) ==
  /\ pc[p] = "semop" /\ p \in Interruptible
  /\ my[p].sem = semKey /\ sem0 # 0
  /\ Goto(p, "shmget") /\ harm' = harm \cup {"cut"}
  /\ UNCHANGED <<Sems, sem0, Data, Fifo, my>>

Shmget(p) == /\ pc[p] = "shmget"
             /\ IF dataKey = 0
                THEN /\ data' = Append(data, Blank) /\ dataKey' = Len(data) + 1
                     /\ my' = [my EXCEPT ![p].did = Len(data) + 1]
                ELSE /\ my' = [my EXCEPT ![p].did = dataKey]
                     /\ UNCHANGED Data
             /\ Goto(p, "shmat") /\ UNCHANGED <<Sems, sem0, Fifo>>

Shmat(p) == /\ pc[p] = "shmat" /\ DataExists(my[p].did)
            /\ my' = [my EXCEPT ![p].data = my[p].did]
            /\ Goto(p, "test") /\ UNCHANGED <<Sems, sem0, Data, Fifo>>

(* shmget fails, or shmat, surely so for a segment that was removed: then  *)
(* internalData is uninitialised or -1, and the destructor dies of it.     *)
ArriveFails(p) == /\ \/ pc[p] \in {"shmget", "shmat"} /\ p \in Failing
                     \/ pc[p] = "shmat" /\ ~DataExists(my[p].did)
                  /\ Goto(p, "gone") /\ Release(p)
                  /\ UNCHANGED <<Sems, Data, Fifo, my>>

TestNot(p) == /\ pc[p] = "test"
              /\ Goto(p, "init")
              /\ UNCHANGED <<Sems, sem0, Data, Fifo, my>>

Test(p) == /\ pc[p] = "test"
           /\ Goto(p, IF Seg(p).init THEN "check" ELSE "init")
           /\ UNCHANGED <<Sems, sem0, Data, Fifo, my>>

(* The first one in fills the segment and gets the FIFO segment.  The      *)
(* flags of reader, writer and samplers keep what they were.               *)
Initialise(p) ==
  LET f == IF fifoKey = 0 THEN nfifos + 1 ELSE fifoKey IN
  /\ pc[p] = "init"
  /\ fifoKey' = f
  /\ nfifos' = IF fifoKey = 0 THEN nfifos + 1 ELSE nfifos
  /\ data' = [data EXCEPT ![my[p].data] =
                [@ EXCEPT !.init = TRUE, !.semid = my[p].sem, !.fifo = f, !.nsampler = 0]]
  /\ Goto(p, "check") /\ UNCHANGED <<Sems, sem0, dataKey, my>>

(* Without the FIFO segment the data segment stays uninitialised, with -1  *)
(* for its identifier (here 0), and the destructor can work.               *)
InitialiseFails(p) ==
  /\ p \in Failing /\ pc[p] = "init"
  /\ data' = [data EXCEPT ![my[p].data] =
                [@ EXCEPT !.semid = my[p].sem, !.fifo = 0, !.nsampler = 0]]
  /\ Goto(p, "invalid") /\ Release(p) /\ UNCHANGED <<Sems, dataKey, Fifo, my>>

Taken(p) == IF p \in Samplers THEN Seg(p).nsampler = MaxSM
            ELSE Seg(p).user[SlotOf(p)] = "PRESENT"

Check(p) == /\ pc[p] = "check"
            /\ IF Taken(p) THEN Goto(p, "invalid") /\ Release(p)
                           ELSE Goto(p, "attach") /\ UNCHANGED sem0
            /\ UNCHANGED <<Sems, Data, Fifo, my>>

(* The slot a user takes: the one nsampler points at for a sampler.  An    *)
(* index beyond the array is undefined behaviour: the model ends the       *)
(* process there, with semaphore 0 at 1.                                   *)
NextSlot(p) == IF p \in Samplers THEN Seg(p).nsampler ELSE SlotOf(p)

OutOfBounds(p) == /\ pc[p] \in {"attach", "mark"}
                  /\ p \in Samplers /\ NextSlot(p) >= MaxSM
                  /\ my' = [my EXCEPT ![p] = Fresh]
                  /\ Goto(p, "gone") /\ UNCHANGED <<Sems, sem0, Data, Fifo>>

Attach(p) ==
  /\ pc[p] = "attach" /\ (p \in Samplers => NextSlot(p) < MaxSM)
  /\ \/ /\ FifoExists(Seg(p).fifo)
        /\ data' = [data EXCEPT ![my[p].data].start[NextSlot(p)] = p]
        /\ my' = [my EXCEPT ![p].fifo = Seg(p).fifo]
        /\ Goto(p, "mark") /\ UNCHANGED sem0
     \/ /\ ~FifoExists(Seg(p).fifo) \/ p \in Failing
        /\ data' = [data EXCEPT ![my[p].data].start[NextSlot(p)] = NoProc]
        /\ Goto(p, "invalid") /\ Release(p) /\ UNCHANGED my
  /\ UNCHANGED <<Sems, dataKey, Fifo>>

(* PRESENT; a sampler also takes its index and adds one to nsampler,       *)
(* which is a read and a write.                                            *)
Mark(p) ==
  /\ pc[p] = "mark" /\ (p \in Samplers => NextSlot(p) < MaxSM)
  /\ data' = [data EXCEPT ![my[p].data].user[NextSlot(p)] = "PRESENT"]
  /\ IF p \in Samplers
     THEN /\ my' = [my EXCEPT ![p].sam_ind = NextSlot(p), ![p].n = NextSlot(p)]
          /\ Goto(p, "bump") /\ UNCHANGED sem0
     ELSE Goto(p, "in") /\ Release(p) /\ UNCHANGED my
  /\ UNCHANGED <<Sems, dataKey, Fifo>>

Bump(p) == /\ pc[p] = "bump"
           /\ data' = [data EXCEPT ![my[p].data].nsampler = (my[p].n + 1) % Width]
           /\ Goto(p, "in") /\ Release(p)
           /\ UNCHANGED <<Sems, dataKey, Fifo, my>>

-----------------------------------------------------------------------------
(* The destructor, also of a user that was not admitted.                   *)

HarmOfLeaving(p) ==
  Overlap(SomeoneComes) \cup IF pc[p] = "invalid" /\ p \notin Samplers THEN {"refused"} ELSE {}

LeaveStays(p) == /\ pc[p] \in {"in", "invalid"}
                 /\ Goto(p, IF p \in Samplers THEN "leave" ELSE "stat")
                 /\ my' = [my EXCEPT ![p].fifo = 0] /\ harm' = harm \cup HarmOfLeaving(p)
                 /\ UNCHANGED <<Sems, sem0, Data, Fifo>>

LeaveMapped(p) == /\ pc[p] \in {"in", "invalid"}
                  /\ data' = [data EXCEPT ![my[p].data].user[SlotOf(p)] = "MISSING"]
                  /\ Goto(p, IF p \in Samplers THEN "leave" ELSE "stat")
                  /\ harm' = harm \cup HarmOfLeaving(p)
                  /\ UNCHANGED <<Sems, sem0, dataKey, Fifo, my>>

LeaveClearsAll(p) == /\ pc[p] \in {"in", "invalid"}
                     /\ data' = [data EXCEPT ![my[p].data].user = [s \in Slots |-> "MISSING"]]
                     /\ my' = [my EXCEPT ![p].fifo = 0] /\ harm' = harm \cup HarmOfLeaving(p)
                     /\ Goto(p, IF p \in Samplers THEN "leave" ELSE "stat")
                     /\ UNCHANGED <<Sems, sem0, dataKey, Fifo>>

(* MISSING, and shmdt of the address the segment has for this slot.  If    *)
(* another process wrote that address it need not be mapped here.          *)
Leave(p) ==
  LET s == SlotOf(p) IN
  /\ pc[p] \in {"in", "invalid"}
  /\ data' = [data EXCEPT ![my[p].data].user[s] = "MISSING"]
  /\ \/ my' = [my EXCEPT ![p].fifo = 0]
     \/ Seg(p).start[s] # p /\ UNCHANGED my
  /\ Goto(p, IF p \in Samplers THEN "leave" ELSE "stat")
  /\ harm' = harm \cup HarmOfLeaving(p)
  /\ UNCHANGED <<Sems, sem0, dataKey, Fifo>>

(* nsampler-- is a read and a write, and nothing excludes other users.     *)
Count(p) == /\ pc[p] = "leave"
            /\ my' = [my EXCEPT ![p].n = Seg(p).nsampler]
            /\ Goto(p, "count") /\ UNCHANGED <<Sems, sem0, Data, Fifo>>

Uncount(p) == /\ pc[p] = "count"
              /\ data' = [data EXCEPT ![my[p].data].nsampler = (my[p].n + Width - 1) % Width]
              /\ Goto(p, "stat") /\ UNCHANGED <<Sems, sem0, dataKey, Fifo, my>>

(* IPC_STAT of the FIFO segment; when it fails shmdata is uninitialised.   *)
Stat(p) ==
  /\ pc[p] = "stat"
  /\ \E none \in BOOLEAN :
       /\ FifoExists(Seg(p).fifo) => none = (FifoUsers(Seg(p).fifo) = {})
       /\ my' = [my EXCEPT ![p].none = none]
       /\ Goto(p, IF none THEN "rmfifo" ELSE "shmdt")
  /\ UNCHANGED <<Sems, sem0, Data, Fifo>>

RemoveFifo(p) == /\ pc[p] = "rmfifo"
                 /\ fifoKey' = IF Seg(p).fifo = fifoKey THEN 0 ELSE fifoKey
                 /\ Goto(p, "shmdt") /\ UNCHANGED <<Sems, sem0, Data, nfifos, my>>

Shmdt(p) == /\ pc[p] = "shmdt"
            /\ my' = [my EXCEPT ![p].data = 0, ![p].sem = Seg(p).semid]
            /\ Goto(p, "stat2") /\ UNCHANGED <<Sems, sem0, Data, Fifo>>

Stat2Always(p) == /\ pc[p] = "stat2"
                  /\ Goto(p, "rmdata") /\ UNCHANGED <<Sems, sem0, Data, Fifo, my>>

(* IPC_STAT of the data segment; when it fails shmdata keeps the answer    *)
(* about the FIFO segment.  A process that removes nothing ends here.      *)
Stat2(p) ==
  /\ pc[p] = "stat2"
  /\ LET none == IF DataExists(my[p].did) THEN DataUsers(my[p].did) = {} ELSE my[p].none IN
     IF none THEN Goto(p, "rmdata") /\ UNCHANGED my
             ELSE Goto(p, "gone") /\ my' = [my EXCEPT ![p] = Fresh]
  /\ UNCHANGED <<Sems, sem0, Data, Fifo>>

RemoveData(p) == /\ pc[p] = "rmdata"
                 /\ dataKey' = IF my[p].did = dataKey THEN 0 ELSE dataKey
                 /\ Goto(p, "rmsem") /\ UNCHANGED <<Sems, sem0, data, Fifo, my>>

RemoveSems(p) == /\ pc[p] = "rmsem"
                 /\ semKey' = IF my[p].sem = semKey THEN 0 ELSE semKey
                 /\ sem0' = IF my[p].sem = semKey THEN 0 ELSE sem0
                 /\ my' = [my EXCEPT ![p] = Fresh]
                 /\ Goto(p, "gone") /\ UNCHANGED <<nsets, Data, Fifo>>

(* SIGKILL, exit(1) of a sampler on an alignment error, or the crash of a  *)
(* readout whose pedestal FIFO was not valid: the kernel unmaps, and       *)
(* nothing else is undone.                                                 *)
Die(p) == /\ p \in Killable /\ pc[p] \notin {"out", "gone"}
          /\ my' = [my EXCEPT ![p] = Fresh]
          /\ Goto(p, "gone") /\ UNCHANGED <<Sems, sem0, Data, Fifo>>

-----------------------------------------------------------------------------
Construct(p) == \/ Shmget(p) \/ Shmat(p) \/ Test(p) \/ Initialise(p) \/ InitialiseFails(p)
                \/ Check(p) \/ Attach(p) \/ OutOfBounds(p) \/ Mark(p) \/ Bump(p)
Destroy(p) == \/ Count(p) \/ Uncount(p) \/ Stat(p) \/ RemoveFifo(p) \/ Shmdt(p)
              \/ Stat2(p) \/ RemoveData(p) \/ RemoveSems(p)

Next == \E p \in Procs :
          \/ Start(p) \/ SemopCutShort(p) \/ Leave(p)
          \/ StartFails(p) /\ UNCHANGED harm
          \/ Semop(p) /\ UNCHANGED harm
          \/ Construct(p) /\ UNCHANGED harm
          \/ Destroy(p) /\ UNCHANGED harm
          \/ (ArriveFails(p) \/ Die(p)) /\ harm' = harm \cup {"died"}

Spec == Init /\ [][Next]_vars

-----------------------------------------------------------------------------
Users == {p \in Procs : pc[p] = "in"}

Segment == [init : BOOLEAN, semid : Nat, fifo : Nat, nsampler : 0..(Width - 1),
            user : [Slots -> {"ZERO", "PRESENT", "MISSING"}],
            start : [Slots -> Procs \cup {NoProc}]]
Local == [sem : Nat, did : Nat, data : Nat, fifo : Nat,
          sam_ind : 0..(MaxSM - 1), n : 0..(Width - 1), none : BOOLEAN]

TypeOK == /\ nsets \in Nat /\ semKey \in 0..nsets /\ sem0 \in {0, 1}
          /\ data \in Seq(Segment) /\ dataKey \in 0..Len(data)
          /\ nfifos \in Nat /\ fifoKey \in Nat
          /\ pc \in [Procs -> PC] /\ my \in [Procs -> Local]
          /\ harm \subseteq {"overlap", "cut", "refused", "died"}

(* Nobody has started while somebody left, and no wait was cut short; and  *)
(* no refused reader or writer has left.                                   *)
Orderly == harm \cap {"overlap", "cut"} = {}
RolesKept == Orderly /\ "refused" \notin harm

(* While all is orderly, everybody who was admitted is in the same FIFO,   *)
(* the one that whoever comes next will find, and has the semaphore that   *)
(* guards its lock word.                                                   *)
SameFifo == Orderly => \A p \in Users : /\ my[p].data = dataKey
                                        /\ my[p].fifo = Seg(p).fifo
                                        /\ Seg(p).semid = semKey

(* Until a refused one leaves, a reader or writer that was admitted is the *)
(* only one, and the flag that data writers and samplers decide by that a  *)
(* run is over, or has not begun, says PRESENT as long as it is there,     *)
(* whoever asks for the role.                                              *)
PresentWhileThere ==
  RolesKept =>
    \A p \in Users \cap (Readers \cup Writers) :
      /\ Seg(p).user[SlotOf(p)] = "PRESENT"
      /\ Users \cap Role(p) = {p}

(* "A reader is already present" is only said when there is one.           *)
RefusedOnlyIfPresent ==
  [][\A p \in Readers \cup Writers :
       pc[p] = "check" /\ pc'[p] = "invalid" => Users \cap Role(p) # {}]_pc

(* When everybody has left by the destructor, and all was orderly, no      *)
(* semaphores and no data segment remain, whoever was refused and whatever *)
(* call failed.  For the FIFO segment that takes at most two samplers:     *)
(* after one that was refused has counted itself out, a third one shares   *)
(* the slot of one that is in, whose address of the segment is lost, and   *)
(* who leaves without unmapping it; and it takes that no reader or writer  *)
(* that was refused has left, by which a second one gets in.               *)
FewSamplers == \A p, q, r \in {s \in Samplers : pc[s] # "out"} : p = q \/ q = r \/ p = r

NothingLeft == Orderly /\ "died" \notin harm /\ (\A p \in Procs : pc[p] \in {"out", "gone"})
                 => /\ semKey = 0 /\ dataKey = 0
                    /\ FewSamplers /\ RolesKept => fifoKey = 0

(* "wait for eventual initializiation of the other process": while all is  *)
(* orderly, one process at a time is past that wait.                       *)
OneAtATime == Orderly => \A p, q \in Procs : pc[p] \in InCtor /\ pc[q] \in InCtor => p = q

(* "A reader is already present": one reader at a time is admitted, at     *)
(* least while all is orderly.                                             *)
OneReader == Orderly => \A p, q \in Users \cap Readers : p = q

(* While all is orderly, nobody initialises a FIFO that is in use.         *)
NeverReinitialised ==
  [][Orderly => \A p \in Procs : pc[p] = "init" /\ pc'[p] = "check" =>
       \A q \in Users : my[q].data # my[p].data]_<<pc, my, harm>>

=============================================================================
