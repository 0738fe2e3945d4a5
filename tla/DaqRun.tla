------------------------------- MODULE DaqRun -------------------------------
(***************************************************************************)
(* One run: the readout (myReadOut.cpp with FIFOlib/myFIFO-IO.cpp) fills   *)
(* the physics and the pedestal FIFO, and two data writers                 *)
(* (myDataWriter.cpp) empty one each into files.  The readout holds both   *)
(* FIFOs during a spill and gives them back between spills.                *)
(*                                                                         *)
(* A FIFO is its count of events written and consumed (FifoRing shows that *)
(* its words are a stream) and its lock is one step (FifoLock shows that   *)
(* it excludes as long as no semop() is cut short).  A run starts with     *)
(* fresh FIFOs.                                                            *)
(***************************************************************************)
EXTENDS Naturals, Sequences

CONSTANTS Cap,         \* events a FIFO holds
          MaxFile,     \* events after which a file has reached MAX_FILE_SIZE
          MaxEvts,     \* maxevts
          MaxPedEvts,  \* maxpedevts: maxevts / phypedratio, rounded, so possibly 0
          RatioNum, RatioDen,  \* phypedratio, a double: RatioNum / RatioDen
          MaxSpills,   \* bound: spills in a behaviour
          Interrupted  \* which programs may get SIGINT: "readout", "phys", "ped"

ASSUME RunAssumption == /\ Cap \in Nat \ {0} /\ MaxFile \in Nat \ {0}
                        /\ MaxEvts \in Nat \ {0} /\ MaxPedEvts \in Nat
                        /\ RatioNum \in Nat /\ RatioDen \in Nat \ {0} /\ MaxSpills \in Nat
                        /\ Interrupted \subseteq {"readout", "phys", "ped"}

VARIABLES lock,       \* who holds each FIFO
          present,    \* WRITER_PRESENT of each FIFO
          written, consumed,  \* events put into and taken out of each FIFO
          numevt,     \* myFIFOData.numevt
          ro,         \* where the readout is
          stage,      \* which check_and_handle_event() it is in
          cur,        \* FIFO of the event in hand
          ped_enabled, pedVeto,  \* flag of the program, bit 14 of the I/O register
          dw,         \* where each data writer is
          infile,     \* events in its open file
          nevtsaved,
          closed,     \* its closed files: events announced by the header and inside
          abort,      \* programs that got SIGINT
          inSpill, spills  \* the accelerator

roVars == <<ro, stage, cur>>
pedVars == <<ped_enabled, pedVeto>>
fifoVars == <<lock, present, written, consumed, numevt>>
dwVars == <<dw, infile, nevtsaved, closed>>
envVars == <<abort, inSpill, spills>>
vars == <<fifoVars, roVars, pedVars, dwVars, envVars>>

Fifos == {"phys", "ped"}
Holders == {"none", "readout", "dw"}
Stages == {"loop", "spillEnd", "closing"}

(* waitlock() calls of the readout: the FIFO and what follows.             *)
LockStep == [lockPed0  |-> [fifo |-> "ped",  next |-> "attachPhys"],
             lockPhys0 |-> [fifo |-> "phys", next |-> "waitFirst"],
             lockPhys  |-> [fifo |-> "phys", next |-> "lockPed"],
             lockPed   |-> [fifo |-> "ped",  next |-> "check"],
             lockPhys2 |-> [fifo |-> "phys", next |-> "lockPed2"],
             lockPed2  |-> [fifo |-> "ped",  next |-> "resume"]]

(* unlock() calls: at a spill's end, and twice when the run is closed.     *)
UnlockStep == [unlockPhys  |-> [fifo |-> "phys", next |-> "unlockPed"],
               unlockPed   |-> [fifo |-> "ped",  next |-> "waitSpill"],
               closePhys   |-> [fifo |-> "phys", next |-> "closePed"],
               closePed    |-> [fifo |-> "ped",  next |-> "closePhys2"],
               closePhys2  |-> [fifo |-> "phys", next |-> "closePed2"],
               closePed2   |-> [fifo |-> "ped",  next |-> "deletePhys"]]

RoPC == DOMAIN LockStep \cup DOMAIN UnlockStep \cup
        {"attachPed", "attachPhys", "waitFirst", "check", "write", "relock", "after",
         "update", "waitSpill", "resume", "deletePhys", "deletePed", "done"}

DwPC == {"waitWriter", "loop", "lock", "dump", "unlockSome", "unlockEmpty", "size",
         "present", "final", "done"}

Init == /\ lock = [f \in Fifos |-> "none"]
        /\ present = [f \in Fifos |-> FALSE]
        /\ written = [f \in Fifos |-> 0]
        /\ consumed = [f \in Fifos |-> 0]
        /\ numevt = [f \in Fifos |-> 0]
        /\ ro = "attachPed" /\ stage = "loop" /\ cur = "phys"
        /\ ped_enabled = TRUE /\ pedVeto = TRUE
        /\ dw = [f \in Fifos |-> "waitWriter"]
        /\ infile = [f \in Fifos |-> 0]
        /\ nevtsaved = [f \in Fifos |-> 0]
        /\ closed = [f \in Fifos |-> << >>]
        /\ abort = {} /\ inSpill = FALSE /\ spills = 0

events == written["phys"]
pedevents == written["ped"]

-----------------------------------------------------------------------------
(* The readout: attaching, locking and unlocking                           *)

RoAttach == /\ ro \in {"attachPed", "attachPhys"}
            /\ LET f == IF ro = "attachPed" THEN "ped" ELSE "phys"
               IN  present' = [present EXCEPT ![f] = TRUE]
            /\ ro' = IF ro = "attachPed" THEN "lockPed0" ELSE "lockPhys0"
            /\ UNCHANGED <<lock, written, consumed, numevt, stage, cur, pedVars, dwVars, envVars>>

Take(f, who) == /\ lock[f] \in {"none", who}
                /\ lock' = [lock EXCEPT ![f] = who]

(* unlock() by whoever calls it.                                           *)
FreeAnybody(f, who) == lock' = [lock EXCEPT ![f] = "none"]

(* unlock() by a process that does not hold the FIFO changes nothing.      *)
Free(f, who) == lock' = [lock EXCEPT ![f] = IF @ = who THEN "none" ELSE @]

RoLock == /\ ro \in DOMAIN LockStep
          /\ Take(LockStep[ro].fifo, "readout")
          /\ ro' = LockStep[ro].next
          /\ UNCHANGED <<present, written, consumed, numevt, stage, cur, pedVars, dwVars, envVars>>

RoUnlock == /\ ro \in DOMAIN UnlockStep
            /\ Free(UnlockStep[ro].fifo, "readout")
            /\ ro' = UnlockStep[ro].next
            /\ UNCHANGED <<present, written, consumed, numevt, stage, cur, pedVars, dwVars, envVars>>

(* The same without a look at abort_run.                                   *)
RoSpillOnly == /\ ro \in {"waitFirst", "waitSpill"}
               /\ inSpill
               /\ ro' = IF ro = "waitFirst" THEN "lockPhys" ELSE "lockPhys2"
               /\ UNCHANGED <<fifoVars, stage, cur, pedVars, dwVars, envVars>>

(* while(!isInSpill() && !abort_run), before the first spill and between.  *)
RoSpillStarts == /\ ro \in {"waitFirst", "waitSpill"}
                 /\ inSpill \/ "readout" \in abort
                 /\ ro' = IF ro = "waitFirst" THEN "lockPhys" ELSE "lockPhys2"
                 /\ UNCHANGED <<fifoVars, stage, cur, pedVars, dwVars, envVars>>

(* After the spill gap: if (abort_run) break.                              *)
RoResume == /\ ro = "resume"
            /\ ro' = "check"
            /\ stage' = IF "readout" \in abort THEN "closing" ELSE "loop"
            /\ UNCHANGED <<fifoVars, cur, pedVars, dwVars, envVars>>

-----------------------------------------------------------------------------
(* check_and_handle_event()                                                *)

(* No trigger.                                                             *)
RoNoEvent == /\ ro = "check"
             /\ ro' = "after"
             /\ UNCHANGED <<fifoVars, stage, cur, pedVars, dwVars, envVars>>

(* A pedestal trigger comes only when its veto is off.                     *)
RoTrigger(f) == /\ ro = "check"
                /\ "readout" \notin abort
                /\ f = "ped" => ~ pedVeto
                /\ cur' = f
                /\ ro' = "write"
                /\ UNCHANGED <<fifoVars, stage, pedVars, dwVars, envVars>>

(* events >= phypedratio * pedevents                                       *)
Due(nphys, nped) == RatioDen * nphys >= RatioNum * nped

(* A pedestal trigger that never sets the veto.                            *)
KeepOpen(f, nphys, nped) ==
  pedVeto' = (pedVeto /\ ~ (f = "phys" /\ ped_enabled /\ Due(nphys, nped)))

(* The pedestal veto after a trigger: a physics trigger lifts it while the *)
(* pedestals are behind, a pedestal trigger sets it when they are ahead.   *)
KeepShare(f, nphys, nped) ==
  pedVeto' = IF f = "phys" THEN pedVeto /\ ~ (ped_enabled /\ Due(nphys, nped))
                           ELSE pedVeto \/ ~ Due(nphys, nped)

(* The same of an event that was read out: the last pedestal needed sets   *)
(* the veto for good.                                                      *)
PedVetoAfter(f, nphys, nped) ==
  IF f = "ped" /\ nped >= MaxPedEvts
  THEN pedVeto' = TRUE /\ ped_enabled' = FALSE
  ELSE KeepShare(f, nphys, nped) /\ UNCHANGED ped_enabled

(* A trigger that getEvent() gives up because of abort_run.                *)
RoGiveUp(f) == /\ ro = "check"
               /\ "readout" \in abort
               /\ f = "ped" => ~ pedVeto
               /\ KeepShare(f, events, pedevents)
               /\ ro' = "after"
               /\ UNCHANGED <<fifoVars, ped_enabled, stage, cur, dwVars, envVars>>

(* myWriteEvent() and the rest of handle_trigger().                        *)
RoWrite == /\ ro = "write"
           /\ written[cur] - consumed[cur] < Cap
           /\ written' = [written EXCEPT ![cur] = @ + 1]
           /\ PedVetoAfter(cur, events', pedevents')
           /\ ro' = "after"
           /\ UNCHANGED <<lock, present, consumed, numevt, stage, cur, dwVars, envVars>>

(* The FIFO is full: unlock it, sleep, wait for the lock and try again.    *)
RoFull == /\ ro = "write"
          /\ written[cur] - consumed[cur] >= Cap
          /\ Free(cur, "readout")
          /\ ro' = "relock"
          /\ UNCHANGED <<present, written, consumed, numevt, stage, cur, pedVars, dwVars, envVars>>

RoRelock == /\ ro = "relock"
            /\ Take(cur, "readout")
            /\ ro' = "write"
            /\ UNCHANGED <<present, written, consumed, numevt, stage, cur, pedVars, dwVars, envVars>>

(* The end of the spill tested before the number of events.                *)
RoAfterSpillFirst ==
  /\ ro = "after"
  /\ IF stage # "loop" THEN ro' = "update" /\ UNCHANGED stage
     ELSE /\ ro' = "check"
          /\ stage' = IF ~ inSpill THEN "spillEnd"
                      ELSE IF events >= MaxEvts \/ "readout" \in abort THEN "closing" ELSE "loop"
  /\ UNCHANGED <<fifoVars, cur, pedVars, dwVars, envVars>>

(* What follows the event, by where check_and_handle_event() was called.   *)
RoAfter ==
  /\ ro = "after"
  /\ IF stage # "loop" THEN ro' = "update" /\ UNCHANGED stage
     ELSE /\ ro' = "check"
          /\ stage' = IF events >= MaxEvts \/ "readout" \in abort THEN "closing"
                      ELSE IF inSpill THEN "loop" ELSE "spillEnd"
  /\ UNCHANGED <<fifoVars, cur, pedVars, dwVars, envVars>>

(* A spill's end that does not count its events.                           *)
RoUpdateNothing ==
  /\ ro = "update"
  /\ ro' = IF stage = "spillEnd" THEN "unlockPhys" ELSE "closePhys"
  /\ UNCHANGED <<fifoVars, stage, cur, pedVars, dwVars, envVars>>

(* myFIFOUpdateEvtNr()                                                     *)
RoUpdate == /\ ro = "update"
            /\ numevt' = [phys |-> events, ped |-> pedevents]
            /\ ro' = IF stage = "spillEnd" THEN "unlockPhys" ELSE "closePhys"
            /\ UNCHANGED <<lock, present, written, consumed, stage, cur, pedVars, dwVars, envVars>>

(* myCloseRun() that deletes one FIFO only.                                *)
RoDeleteOne == /\ ro \in {"deletePhys", "deletePed"}
               /\ present' = [present EXCEPT !["phys"] = FALSE]
               /\ ro' = IF ro = "deletePhys" THEN "deletePed" ELSE "done"
               /\ UNCHANGED <<lock, written, consumed, numevt, stage, cur, pedVars, dwVars, envVars>>

(* ~myFIFO() of the two writers, the end of myCloseRun().                  *)
RoDelete == /\ ro \in {"deletePhys", "deletePed"}
            /\ LET f == IF ro = "deletePhys" THEN "phys" ELSE "ped"
               IN  present' = [present EXCEPT ![f] = FALSE]
            /\ ro' = IF ro = "deletePhys" THEN "deletePed" ELSE "done"
            /\ UNCHANGED <<lock, written, consumed, numevt, stage, cur, pedVars, dwVars, envVars>>

-----------------------------------------------------------------------------
(* The data writer of FIFO f                                               *)

dwOther == <<roVars, pedVars, envVars, present, written, numevt>>

DwGoto(f, l) == dw' = [dw EXCEPT ![f] = l]

DwSeesWriter(f) == /\ dw[f] = "waitWriter"
                   /\ present[f] \/ f \in abort
                   /\ DwGoto(f, "loop")
                   /\ UNCHANGED <<dwOther, lock, consumed, infile, nevtsaved, closed>>

DwLoop(f) == /\ dw[f] = "loop"
             /\ DwGoto(f, IF f \in abort THEN "final" ELSE "lock")
             /\ UNCHANGED <<dwOther, lock, consumed, infile, nevtsaved, closed>>

DwLock(f) == /\ dw[f] = "lock"
             /\ Take(f, "dw")
             /\ DwGoto(f, "dump")
             /\ UNCHANGED <<dwOther, consumed, infile, nevtsaved, closed>>

(* dumpData() takes a chunk, some or all of the events.                    *)
DwDump(f) == /\ dw[f] = "dump"
             /\ \E n \in 1..(written[f] - consumed[f]) :
                  /\ consumed' = [consumed EXCEPT ![f] = @ + n]
                  /\ infile' = [infile EXCEPT ![f] = @ + n]
             /\ DwGoto(f, "unlockSome")
             /\ UNCHANGED <<dwOther, lock, nevtsaved, closed>>

DwDumpEmpty(f) == /\ dw[f] = "dump"
                  /\ written[f] = consumed[f]
                  /\ DwGoto(f, "unlockEmpty")
                  /\ UNCHANGED <<dwOther, lock, consumed, infile, nevtsaved, closed>>

DwUnlock(f) == /\ dw[f] \in {"unlockSome", "unlockEmpty"}
               /\ Free(f, "dw")
               /\ DwGoto(f, IF dw[f] = "unlockSome" THEN "loop" ELSE "size")
               /\ UNCHANGED <<dwOther, consumed, infile, nevtsaved, closed>>

(* The count of events saved grown by all of them, not by the file's.      *)
CloseFileAdds(f) ==
  /\ closed' = [closed EXCEPT ![f] =
                  Append(@, [header |-> numevt[f] - nevtsaved[f], inside |-> infile[f]])]
  /\ nevtsaved' = [nevtsaved EXCEPT ![f] = @ + numevt[f]]
  /\ infile' = [infile EXCEPT ![f] = 0]

(* The header with the count of events instead of the difference.          *)
CloseFileTotal(f) ==
  /\ closed' = [closed EXCEPT ![f] =
                  Append(@, [header |-> numevt[f], inside |-> infile[f]])]
  /\ nevtsaved' = [nevtsaved EXCEPT ![f] = numevt[f]]
  /\ infile' = [infile EXCEPT ![f] = 0]

(* getNevt(), read without the lock, and myUpdateHeader().                 *)
CloseFile(f) ==
  /\ closed' = [closed EXCEPT ![f] =
                  Append(@, [header |-> numevt[f] - nevtsaved[f], inside |-> infile[f]])]
  /\ nevtsaved' = [nevtsaved EXCEPT ![f] = numevt[f]]
  /\ infile' = [infile EXCEPT ![f] = 0]

(* On an empty FIFO a file that is large enough is closed and a new one    *)
(* begun.                                                                  *)
DwRollOver(f) == /\ dw[f] = "size"
                 /\ infile[f] >= MaxFile
                 /\ CloseFile(f)
                 /\ DwGoto(f, "present")
                 /\ UNCHANGED <<dwOther, lock, consumed>>

DwKeepFile(f) == /\ dw[f] = "size"
                 /\ infile[f] < MaxFile
                 /\ DwGoto(f, "present")
                 /\ UNCHANGED <<dwOther, lock, consumed, infile, nevtsaved, closed>>

DwPresent(f) == /\ dw[f] = "present"
                /\ DwGoto(f, IF present[f] THEN "loop" ELSE "final")
                /\ UNCHANGED <<dwOther, lock, consumed, infile, nevtsaved, closed>>

DwFinal(f) == /\ dw[f] = "final"
              /\ CloseFile(f)
              /\ DwGoto(f, "done")
              /\ UNCHANGED <<dwOther, lock, consumed>>

-----------------------------------------------------------------------------
(* The accelerator and the operator                                        *)

SpillToggle == /\ inSpill \/ spills < MaxSpills
               /\ inSpill' = ~ inSpill
               /\ spills' = IF inSpill THEN spills ELSE spills + 1
               /\ UNCHANGED <<fifoVars, roVars, pedVars, dwVars, abort>>

Interrupt(p) == /\ p \in Interrupted \ abort
                /\ abort' = abort \cup {p}
                /\ UNCHANGED <<fifoVars, roVars, pedVars, dwVars, inSpill, spills>>

-----------------------------------------------------------------------------
RoSolo == \/ RoAttach \/ RoUnlock \/ RoSpillStarts \/ RoResume
          \/ RoNoEvent \/ (\E f \in Fifos : RoTrigger(f) \/ RoGiveUp(f))
          \/ RoWrite \/ RoFull \/ RoAfter \/ RoUpdate \/ RoDelete

RoTake == RoLock \/ RoRelock

DwSolo(f) == \/ DwSeesWriter(f) \/ DwLoop(f) \/ DwDump(f) \/ DwDumpEmpty(f) \/ DwUnlock(f)
             \/ DwRollOver(f) \/ DwKeepFile(f) \/ DwPresent(f) \/ DwFinal(f)

Next == \/ RoSolo \/ RoTake
        \/ \E f \in Fifos : DwSolo(f) \/ DwLock(f)
        \/ SpillToggle
        \/ \E p \in Interrupted : Interrupt(p)

Spec == Init /\ [][Next]_vars

(* The programs run, and a process that polls for a FIFO again and again   *)
(* free gets it: it looks every 10 microseconds, and the FIFO is free for  *)
(* the whole gap between two spills.                                       *)
FairSpec == /\ Spec
            /\ WF_vars(RoSolo) /\ SF_vars(RoTake)
            /\ \A f \in Fifos : WF_vars(DwSolo(f)) /\ SF_vars(DwLock(f))

-----------------------------------------------------------------------------
Header == [header : Nat, inside : Nat]

TypeOK == /\ lock \in [Fifos -> Holders] /\ present \in [Fifos -> BOOLEAN]
          /\ written \in [Fifos -> Nat] /\ consumed \in [Fifos -> Nat]
          /\ numevt \in [Fifos -> Nat]
          /\ ro \in RoPC /\ stage \in Stages /\ cur \in Fifos
          /\ ped_enabled \in BOOLEAN /\ pedVeto \in BOOLEAN
          /\ dw \in [Fifos -> DwPC] /\ infile \in [Fifos -> Nat]
          /\ nevtsaved \in [Fifos -> Nat] /\ closed \in [Fifos -> Seq(Header)]
          /\ abort \subseteq Interrupted /\ inSpill \in BOOLEAN /\ spills \in Nat

(* Events enter a FIFO only while the readout holds it and leave it only   *)
(* while its data writer does, the unlock-and-wait of a full FIFO and the  *)
(* second unlock() of myCloseRun() included.                               *)
OnlyLocked == [][\A f \in Fifos : /\ written'[f] # written[f] => lock[f] = "readout"
                                  /\ consumed'[f] # consumed[f] => lock[f] = "dw"]_vars

(* The sum of the headers of a sequence of files.                          *)
SumHeaders(s) ==
  LET sum[i \in 0..Len(s)] == IF i = 0 THEN 0 ELSE sum[i - 1] + s[i].header
  IN  sum[Len(s)]

(* The headers of the files of a run announce, together, the events that   *)
(* were put into the FIFO, although the data writer reads numevt without   *)
(* the lock and starts new files in the middle of the run.                 *)
HeadersCountRun == \A f \in Fifos :
                     dw[f] = "done" /\ f \notin abort => SumHeaders(closed[f]) = written[f]

(* A run takes at most two physics events more than maxevts: one at the    *)
(* end of a spill, one when it is closed.                                  *)
EventsBounded == events <= MaxEvts + 2

(* Pedestals never run ahead of their share by more than one event, and    *)
(* never beyond maxpedevts; but the first is taken whatever the limit is,  *)
(* which a large ratio rounds to 0: it is only tested after an event.      *)
PedShare == pedevents > 0 => /\ RatioNum * (pedevents - 1) <= RatioDen * events
                             /\ pedevents <= MaxPedEvts \/ pedevents = 1

(* SIGINT ends the readout, even if it comes while a FIFO is full or       *)
(* between spills, as long as the data writers run.                        *)
InterruptCloses == ("readout" \in abort) ~> (ro = "done")

(* A data writer that has seen the readout closes its file after it.       *)
WritersFinish == \A f \in Fifos :
                   (ro = "done" /\ dw[f] # "waitWriter") ~> (dw[f] = "done")

(* What myFileChecker calls an OK file: the header of the last file counts *)
(* the events inside.                                                      *)
LastFileOK == \A f \in Fifos : dw[f] = "done" /\ abort = {} =>
                LET last == closed[f][Len(closed[f])] IN last.header = last.inside

(* The same of a file that was closed because it had reached its size.     *)
RolledFileOK == \A f \in Fifos : \A i \in 1..Len(closed[f]) :
                  dw[f] # "done" => closed[f][i].header = closed[f][i].inside

=============================================================================
