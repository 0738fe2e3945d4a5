---------------------------- MODULE DaqHandshake ----------------------------
(***************************************************************************)
(* The two-process readout: daqLogic.cpp polls the trigger register and    *)
(* publishes each trigger in a shared segment (DAQcommonlib/daqShm.h);     *)
(* daqReadout.cpp reads the event and answers by zeroing triggerMask.  A   *)
(* semaphore (DAQcommonlib/daqSem.h), raised by stopGracely or incDaqSem,  *)
(* or SIGINT to daqLogic stops the run.  Nothing but the order of single   *)
(* reads and writes of the seven words protects them.                      *)
(*                                                                         *)
(* The segment and the semaphore do not exist before the run.              *)
(***************************************************************************)
EXTENDS Naturals

CONSTANTS MaxEvents,   \* bound: triggers in a behaviour
          MaxSpills    \* bound: spills in a behaviour

ASSUME BoundsAssumption == MaxEvents \in Nat /\ MaxSpills \in Nat

VARIABLES shm,         \* the words of the segment
          shmExists,   \* the segment can be attached
          semExists,   \* the semaphore can be attached
          sem,         \* value of the semaphore
          logic,       \* where daqLogic is
          readout,     \* where daqReadout is
          zeroed,      \* words each process has zeroed
          abort_run,   \* flag of daqLogic's SIGINT handler
          wasSpill,    \* spill bit when daqLogic last looked
          label        \* eventNr and spillNr when the readout began an event

vars == <<shm, shmExists, semExists, sem, logic, readout, zeroed, abort_run, wasSpill, label>>

Words == {"daqReadyToRun", "askDaqToRun", "fromDaq", "toDaq", "eventNr", "spillNr", "triggerMask"}

(* The order in which both programs zero the words.                        *)
Order == <<"daqReadyToRun", "askDaqToRun", "fromDaq", "toDaq", "eventNr", "spillNr",
           "triggerMask">>

(* trigPat | 4: physics, pedestal, both.                                   *)
Masks == {5, 6, 7}

LogicPC == {"off", "zero", "semget", "setval", "waitReady", "ask", "poll",
            "countEvent", "countTo", "publish", "spin", "semGet", "stop", "waitIdle",
            "rmSem", "rmShm", "done"}

ReadoutPC == {"off", "shmget", "zero", "ready", "waitAsk", "look", "read", "answer",
              "clear", "test", "idle", "done"}

Init == /\ shm = [w \in Words |-> 0]
        /\ shmExists = FALSE /\ semExists = FALSE /\ sem = 0
        /\ logic = "off" /\ readout = "off"
        /\ zeroed = [p \in {"logic", "readout"} |-> 0]
        /\ abort_run = FALSE
        /\ wasSpill = FALSE
        /\ label = [eventNr |-> 0, spillNr |-> 0]

Set(w, v) == shm' = [shm EXCEPT ![w] = v]

Increment(w) == Set(w, shm[w] + 1)

(* The next word of the list, then the next line of the program.           *)
ZeroNext(p) == /\ Set(Order[zeroed[p] + 1], 0)
               /\ zeroed' = [zeroed EXCEPT ![p] = @ + 1]

ipcVars == <<shmExists, semExists, sem>>
logicVars == <<logic, abort_run, wasSpill>>
readoutVars == <<readout, label>>

-----------------------------------------------------------------------------
(* daqLogic                                                                *)

LogicCreateShm == /\ logic = "off"
                  /\ logic' = "zero"
                  /\ shmExists' = TRUE
                  /\ UNCHANGED <<shm, semExists, sem, zeroed, abort_run, wasSpill, readoutVars>>

LogicZero == /\ logic = "zero"
             /\ ZeroNext("logic")
             /\ logic' = IF zeroed["logic"] = 6 THEN "semget" ELSE "zero"
             /\ UNCHANGED <<ipcVars, abort_run, wasSpill, readoutVars>>

LogicCreateSem == /\ logic = "semget"
                  /\ logic' = "setval"
                  /\ semExists' = TRUE
                  /\ UNCHANGED <<shm, shmExists, sem, zeroed, abort_run, wasSpill, readoutVars>>

(* The constructor sets the value after it has created the semaphore: a    *)
(* request to stop that falls in between is forgotten.                     *)
LogicSetSem == /\ logic = "setval"
               /\ logic' = "waitReady"
               /\ sem' = 0
               /\ UNCHANGED <<shm, shmExists, semExists, zeroed, abort_run, wasSpill, readoutVars>>

LogicSeesReady == /\ logic = "waitReady"
                  /\ shm["daqReadyToRun"] # 0
                  /\ logic' = "ask"
                  /\ UNCHANGED <<shm, ipcVars, zeroed, abort_run, wasSpill, readoutVars>>

LogicAsk == /\ logic = "ask"
            /\ Set("askDaqToRun", 1)
            /\ logic' = "poll"
            /\ UNCHANGED <<ipcVars, zeroed, abort_run, wasSpill, readoutVars>>

(* One look at the trigger register and the spill bit.                     *)
LogicPoll(isTrig, isSpill) ==
  /\ logic = "poll"
  /\ isTrig => shm["eventNr"] < MaxEvents
  /\ isSpill /\ ~ wasSpill => shm["spillNr"] < MaxSpills
  /\ IF isSpill /\ ~ wasSpill THEN Increment("spillNr") ELSE UNCHANGED shm
  /\ wasSpill' = isSpill
  /\ logic' = IF isTrig THEN "countEvent" ELSE "semGet"
  /\ UNCHANGED <<ipcVars, zeroed, abort_run, readoutVars>>

LogicCountEvent == /\ logic = "countEvent"
                   /\ Increment("eventNr")
                   /\ logic' = "countTo"
                   /\ UNCHANGED <<ipcVars, zeroed, abort_run, wasSpill, readoutVars>>

LogicCountTo == /\ logic = "countTo"
                /\ Increment("toDaq")
                /\ logic' = "publish"
                /\ UNCHANGED <<ipcVars, zeroed, abort_run, wasSpill, readoutVars>>

(* daqLogic that publishes the pattern without the in-spill bit.           *)
LogicPublishPattern(mask) ==
  /\ logic = "publish"
  /\ Set("triggerMask", mask - 4)
  /\ logic' = "spin"
  /\ UNCHANGED <<ipcVars, zeroed, abort_run, wasSpill, readoutVars>>

LogicPublish(mask) == /\ logic = "publish"
                      /\ Set("triggerMask", mask)
                      /\ logic' = "spin"
                      /\ UNCHANGED <<ipcVars, zeroed, abort_run, wasSpill, readoutVars>>

(* daqLogic that does not wait for the answer.                             *)
LogicDoesNotSpin == /\ logic = "spin"
                    /\ logic' = "semGet"
                    /\ UNCHANGED <<shm, ipcVars, zeroed, abort_run, wasSpill, readoutVars>>

(* daqLogic that gives the answer up when it is asked to stop.             *)
LogicSpinAborts == /\ logic = "spin"
                   /\ shm["triggerMask"] = 0 \/ abort_run
                   /\ logic' = "semGet"
                   /\ UNCHANGED <<shm, ipcVars, zeroed, abort_run, wasSpill, readoutVars>>

(* Only the readout ends this loop: not abort_run, not the semaphore.      *)
LogicSeesAnswer == /\ logic = "spin"
                   /\ shm["triggerMask"] = 0
                   /\ logic' = "semGet"
                   /\ UNCHANGED <<shm, ipcVars, zeroed, abort_run, wasSpill, readoutVars>>

LogicSemGet == /\ logic = "semGet"
               /\ logic' = IF sem = 0 /\ ~ abort_run THEN "poll" ELSE "stop"
               /\ UNCHANGED <<shm, ipcVars, zeroed, abort_run, wasSpill, readoutVars>>

LogicStop == /\ logic = "stop"
             /\ Set("askDaqToRun", 0)
             /\ logic' = "waitIdle"
             /\ UNCHANGED <<ipcVars, zeroed, abort_run, wasSpill, readoutVars>>

(* daqLogic that does not wait for the readout to finish.                  *)
LogicNoWaitIdle == /\ logic = "waitIdle"
                   /\ logic' = "rmSem"
                   /\ UNCHANGED <<shm, ipcVars, zeroed, abort_run, wasSpill, readoutVars>>

LogicSeesIdle == /\ logic = "waitIdle"
                 /\ shm["daqReadyToRun"] # 1
                 /\ logic' = "rmSem"
                 /\ UNCHANGED <<shm, ipcVars, zeroed, abort_run, wasSpill, readoutVars>>

(* The destructors run in the reverse order of the declarations.           *)
LogicRemoveSem == /\ logic = "rmSem"
                  /\ logic' = "rmShm"
                  /\ semExists' = FALSE
                  /\ UNCHANGED <<shm, shmExists, sem, zeroed, abort_run, wasSpill, readoutVars>>

LogicRemoveShm == /\ logic = "rmShm"
                  /\ logic' = "done"
                  /\ shmExists' = FALSE
                  /\ UNCHANGED <<shm, semExists, sem, zeroed, abort_run, wasSpill, readoutVars>>

-----------------------------------------------------------------------------
(* daqReadout.  Started before daqLogic it finds no semaphore, throws, and *)
(* is started again.                                                       *)

ReadoutFindsSem == /\ readout = "off"
                   /\ semExists
                   /\ readout' = "shmget"
                   /\ UNCHANGED <<shm, ipcVars, zeroed, logicVars, label>>

ReadoutFindsShm == /\ readout = "shmget"
                   /\ readout' = IF shmExists THEN "zero" ELSE "off"
                   /\ UNCHANGED <<shm, ipcVars, zeroed, logicVars, label>>

(* daqReadout that says it is ready before it has zeroed the words.        *)
ReadyBeforeZero == /\ readout = "zero"
                   /\ IF zeroed["readout"] = 0
                      THEN shm' = [shm EXCEPT !["daqReadyToRun"] = 1]
                      ELSE Set(Order[zeroed["readout"] + 1], 0)
                   /\ zeroed' = [zeroed EXCEPT !["readout"] = @ + 1]
                   /\ readout' = IF zeroed["readout"] = 6 THEN "ready" ELSE "zero"
                   /\ UNCHANGED <<ipcVars, logicVars, label>>

ReadoutZero == /\ readout = "zero"
               /\ ZeroNext("readout")
               /\ readout' = IF zeroed["readout"] = 6 THEN "ready" ELSE "zero"
               /\ UNCHANGED <<ipcVars, logicVars, label>>

ReadoutReady == /\ readout = "ready"
                /\ Set("daqReadyToRun", 1)
                /\ readout' = "waitAsk"
                /\ UNCHANGED <<ipcVars, zeroed, logicVars, label>>

ReadoutSeesAsk == /\ readout = "waitAsk"
                  /\ shm["askDaqToRun"] # 0
                  /\ readout' = "look"
                  /\ UNCHANGED <<shm, ipcVars, zeroed, logicVars, label>>

ReadoutLook ==
  /\ readout = "look"
  /\ IF shm["triggerMask"] = 0
     THEN readout' = "test" /\ UNCHANGED label
     ELSE readout' = "read" /\ label' = [eventNr |-> shm["eventNr"], spillNr |-> shm["spillNr"]]
  /\ UNCHANGED <<shm, ipcVars, zeroed, logicVars>>

(* readEvent(), printEvent()                                               *)
ReadoutRead == /\ readout = "read"
               /\ readout' = "answer"
               /\ UNCHANGED <<shm, ipcVars, zeroed, logicVars, label>>

(* daqReadout that answers an event it has not counted.                    *)
ReadoutNoCount == /\ readout = "answer"
                  /\ readout' = "clear"
                  /\ UNCHANGED <<shm, ipcVars, zeroed, logicVars, label>>

ReadoutAnswer == /\ readout = "answer"
                 /\ Increment("fromDaq")
                 /\ readout' = "clear"
                 /\ UNCHANGED <<ipcVars, zeroed, logicVars, label>>

ReadoutClear == /\ readout = "clear"
                /\ Set("triggerMask", 0)
                /\ readout' = "test"
                /\ UNCHANGED <<ipcVars, zeroed, logicVars, label>>

ReadoutTest == /\ readout = "test"
               /\ readout' = IF shm["askDaqToRun"] = 1 THEN "look" ELSE "idle"
               /\ UNCHANGED <<shm, ipcVars, zeroed, logicVars, label>>

(* daqReadout that leaves without taking its readiness back.               *)
ReadoutStaysReady == /\ readout = "idle"
                     /\ readout' = "done"
                     /\ UNCHANGED <<shm, ipcVars, zeroed, logicVars, label>>

ReadoutIdle == /\ readout = "idle"
               /\ Set("daqReadyToRun", 0)
               /\ readout' = "done"
               /\ UNCHANGED <<ipcVars, zeroed, logicVars, label>>

-----------------------------------------------------------------------------
(* The operator: SIGINT at any time, or the semaphore once it exists.      *)

Interrupt == /\ logic \notin {"off", "done"} /\ ~ abort_run
             /\ abort_run' = TRUE
             /\ UNCHANGED <<shm, ipcVars, logic, wasSpill, zeroed, readoutVars>>

RaiseSem == /\ semExists /\ sem = 0
            /\ sem' = sem + 1
            /\ UNCHANGED <<shm, shmExists, semExists, logicVars, zeroed, readoutVars>>

Logic == \/ LogicCreateShm \/ LogicZero \/ LogicCreateSem \/ LogicSetSem
         \/ LogicSeesReady \/ LogicAsk
         \/ \E isTrig, isSpill \in BOOLEAN : LogicPoll(isTrig, isSpill)
         \/ LogicCountEvent \/ LogicCountTo \/ (\E m \in Masks : LogicPublish(m))
         \/ LogicSeesAnswer \/ LogicSemGet
         \/ LogicStop \/ LogicSeesIdle \/ LogicRemoveSem \/ LogicRemoveShm

Readout == \/ ReadoutFindsSem \/ ReadoutFindsShm \/ ReadoutZero \/ ReadoutReady
           \/ ReadoutSeesAsk \/ ReadoutLook \/ ReadoutRead \/ ReadoutAnswer
           \/ ReadoutClear \/ ReadoutTest \/ ReadoutIdle

Next == Logic \/ Readout \/ Interrupt \/ RaiseSem

Spec == Init /\ [][Next]_vars

(* Both programs keep running; the operator stops the run when he likes,   *)
(* if ever, and has both programs started.                                 *)
FairSpec == Spec /\ WF_vars(Logic) /\ WF_vars(Readout)

-----------------------------------------------------------------------------
TypeOK == /\ shm \in [Words -> Nat]
          /\ shm["daqReadyToRun"] \in {0, 1} /\ shm["askDaqToRun"] \in {0, 1}
          /\ shm["triggerMask"] \in Masks \cup {0}
          /\ shmExists \in BOOLEAN /\ semExists \in BOOLEAN /\ sem \in {0, 1}
          /\ logic \in LogicPC /\ readout \in ReadoutPC
          /\ zeroed \in [{"logic", "readout"} -> 0..7]
          /\ abort_run \in BOOLEAN /\ wasSpill \in BOOLEAN
          /\ label \in [eventNr : Nat, spillNr : Nat]

(* The two counters follow the hand-over of one trigger at a time, the     *)
(* zeroing of the words by both programs included.                         *)
Handover == INSTANCE Rendezvous WITH sent <- shm["toDaq"], taken <- shm["fromDaq"]

ImplementsRendezvous == Handover!Spec

(* Whenever daqLogic is not in the middle of a trigger, and so when the    *)
(* run has been stopped in whatever way, every trigger has been read out.  *)
NoneLost == logic \notin {"countTo", "publish", "spin"} =>
              /\ shm["fromDaq"] = shm["toDaq"]
              /\ shm["toDaq"] = shm["eventNr"]

(* From the moment the readout finds a trigger until it has printed the    *)
(* event, the event and spill numbers it prints are those of this trigger. *)
ReadsItsOwnEvent == readout \in {"read", "answer", "clear"} =>
  /\ label = [eventNr |-> shm["eventNr"], spillNr |-> shm["spillNr"]]
  /\ label.eventNr = shm["toDaq"]
  /\ label.eventNr = IF readout = "clear" THEN shm["fromDaq"] ELSE shm["fromDaq"] + 1

(* daqLogic removes the segment only when the readout has left it.         *)
SegmentAlive == readout \in ReadoutPC \ {"off", "shmget", "done"} => shmExists

(* Every trigger that is published is answered.                            *)
Answered == (logic = "spin") ~> (logic = "semGet")

(* A run that took at least one trigger ends, for both programs, once it   *)
(* is stopped.  (A run stopped before its first trigger may not: the       *)
(* readout polls askDaqToRun and can miss that it was ever 1.)             *)
Terminates == (logic = "stop" /\ shm["eventNr"] > 0) ~> (logic = "done" /\ readout = "done")

=============================================================================
