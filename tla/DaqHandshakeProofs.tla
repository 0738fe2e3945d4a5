------------------------- MODULE DaqHandshakeProofs -------------------------
(***************************************************************************)
(* The trigger handshake of daqLogic and daqReadout, for any number of     *)
(* triggers and spills: no trigger is lost or read twice, the readout      *)
(* labels each event with its own numbers, and the shared segment is       *)
(* removed only when it is no longer used.  The words daqReadyToRun,       *)
(* askDaqToRun and triggerMask each have one writer at a time, and their   *)
(* values tell how far the other program can be.                           *)
(***************************************************************************)
EXTENDS DaqHandshake, TLAPS

LogicStarting == {"off", "zero", "semget", "setval", "waitReady"}
ReadoutStarting == {"off", "shmget", "zero", "ready"}

(* Which phases of the two programs go together.                           *)
PhaseInv ==
  /\ logic \in {"off", "zero", "semget"} => readout = "off" /\ ~ semExists
  /\ shmExists <=> logic \notin {"off", "done"}
  /\ readout \in ReadoutStarting =>
       logic \in LogicStarting /\ shm["daqReadyToRun"] = 0
  /\ readout = "done" => shm["daqReadyToRun"] = 0
  /\ readout \in ReadoutPC \ (ReadoutStarting \cup {"done"}) => shm["daqReadyToRun"] = 1
  /\ readout \in {"look", "read", "answer", "clear", "test", "idle", "done"} =>
       logic \notin LogicStarting \cup {"ask"}
  /\ readout \in {"idle", "done"} =>
       logic \in {"waitIdle", "rmSem", "rmShm", "done"}
  /\ logic \in {"rmSem", "rmShm", "done"} => readout = "done"
  /\ shm["askDaqToRun"] = 1 <=>
       logic \in {"poll", "countEvent", "countTo", "publish", "spin", "semGet", "stop"}

(* The counters and the mask at each phase.                                *)
CountInv ==
  /\ logic \in LogicStarting \cup {"ask"} => shm["eventNr"] = 0
  /\ shm["eventNr"] = IF logic = "countTo" THEN shm["toDaq"] + 1 ELSE shm["toDaq"]
  /\ shm["triggerMask"] # 0 => logic = "spin"
  /\ shm["toDaq"] = IF logic = "publish" \/ (shm["triggerMask"] # 0 /\ readout # "clear")
                    THEN shm["fromDaq"] + 1 ELSE shm["fromDaq"]
  /\ readout \in {"read", "answer", "clear"} =>
       /\ shm["triggerMask"] # 0
       /\ label = [eventNr |-> shm["eventNr"], spillNr |-> shm["spillNr"]]

(* A program that is zeroing has a word left to zero.                      *)
ZeroInv ==
  /\ logic = "off" => zeroed["logic"] = 0
  /\ logic = "zero" => zeroed["logic"] \in 0..6
  /\ readout \in {"off", "shmget"} => zeroed["readout"] = 0
  /\ readout = "zero" => zeroed["readout"] \in 0..6

IInv == TypeOK /\ PhaseInv /\ CountInv /\ ZeroInv

(* The initial state satisfies the inductive invariant.                    *)
LEMMA InitInv == Init => IInv
<1> SUFFICES ASSUME Init PROVE IInv
  OBVIOUS
<1>1. TypeOK
  <2>1. shm \in [Words -> Nat] /\ \A w \in Words : shm[w] = 0
    BY DEF Init
  <2>2. logic \in LogicPC /\ readout \in ReadoutPC
    BY DEF Init, LogicPC, ReadoutPC
  <2>3. label \in [eventNr : Nat, spillNr : Nat]
    BY DEF Init
  <2>4. zeroed \in [{"logic", "readout"} -> 0..7]
    BY DEF Init
  <2>5. /\ shmExists \in BOOLEAN /\ semExists \in BOOLEAN /\ sem \in {0, 1}
        /\ abort_run \in BOOLEAN /\ wasSpill \in BOOLEAN
    BY DEF Init
  <2> QED
    BY <2>1, <2>2, <2>3, <2>4, <2>5 DEF TypeOK, Words, Masks
<1>2. PhaseInv
  BY DEF Init, PhaseInv, Words, LogicStarting, ReadoutStarting, ReadoutPC
<1>3. CountInv
  BY DEF Init, CountInv, Words, LogicStarting
<1>4. ZeroInv
  BY DEF Init, ZeroInv
<1> QED
  BY <1>1, <1>2, <1>3, <1>4 DEF IInv

(* The list of the words has each of them.                                 *)
LEMMA OrderInWords == \A z \in 0..6 : Order[z + 1] \in Words
BY DEF Order, Words

(* Every step of either program preserves the inductive invariant.         *)
LEMMA StepInv == IInv /\ [Next]_vars => IInv'
<1> SUFFICES ASSUME IInv, [Next]_vars PROVE IInv'
  OBVIOUS
<1> USE DEF IInv, TypeOK, PhaseInv, CountInv, ZeroInv, Words, Masks, LogicPC, ReadoutPC,
            LogicStarting, ReadoutStarting, Set, Increment,
            ipcVars, logicVars, readoutVars
<1>1. CASE UNCHANGED vars
  BY <1>1 DEF vars
<1>2. CASE LogicCreateShm
  BY <1>2 DEF LogicCreateShm
<1>3. CASE LogicZero
  <2>1. Order[zeroed["logic"] + 1] \in Words
    BY <1>3, OrderInWords DEF LogicZero
  <2> QED
    BY <1>3, <2>1 DEF LogicZero, ZeroNext
<1>4. CASE LogicCreateSem
  BY <1>4 DEF LogicCreateSem
<1>5. CASE LogicSetSem
  BY <1>5 DEF LogicSetSem
<1>6. CASE LogicSeesReady
  BY <1>6 DEF LogicSeesReady
<1>7. CASE LogicAsk
  BY <1>7 DEF LogicAsk
<1>8. ASSUME NEW isTrig \in BOOLEAN, NEW isSpill \in BOOLEAN, LogicPoll(isTrig, isSpill)
      PROVE  IInv'
  BY <1>8 DEF LogicPoll
<1>9. CASE LogicCountEvent
  BY <1>9 DEF LogicCountEvent
<1>10. CASE LogicCountTo
  BY <1>10 DEF LogicCountTo
<1>11. ASSUME NEW m \in Masks, LogicPublish(m) PROVE IInv'
  BY <1>11 DEF LogicPublish
<1>12. CASE LogicSeesAnswer
  BY <1>12 DEF LogicSeesAnswer
<1>13. CASE LogicSemGet
  BY <1>13 DEF LogicSemGet
<1>14. CASE LogicStop
  BY <1>14 DEF LogicStop
<1>15. CASE LogicSeesIdle
  BY <1>15 DEF LogicSeesIdle
<1>16. CASE LogicRemoveSem
  BY <1>16 DEF LogicRemoveSem
<1>17. CASE LogicRemoveShm
  BY <1>17 DEF LogicRemoveShm
<1>18. CASE ReadoutFindsSem
  BY <1>18 DEF ReadoutFindsSem
<1>19. CASE ReadoutFindsShm
  BY <1>19 DEF ReadoutFindsShm
<1>20. CASE ReadoutZero
  <2>1. Order[zeroed["readout"] + 1] \in Words
    BY <1>20, OrderInWords DEF ReadoutZero
  <2> QED
    BY <1>20, <2>1 DEF ReadoutZero, ZeroNext
<1>21. CASE ReadoutReady
  BY <1>21 DEF ReadoutReady
<1>22. CASE ReadoutSeesAsk
  BY <1>22 DEF ReadoutSeesAsk
<1>23. CASE ReadoutLook
  BY <1>23 DEF ReadoutLook
<1>24. CASE ReadoutRead
  BY <1>24 DEF ReadoutRead
<1>25. CASE ReadoutAnswer
  BY <1>25 DEF ReadoutAnswer
<1>26. CASE ReadoutClear
  BY <1>26 DEF ReadoutClear
<1>27. CASE ReadoutTest
  BY <1>27 DEF ReadoutTest
<1>28. CASE ReadoutIdle
  BY <1>28 DEF ReadoutIdle
<1>29. CASE Interrupt
  BY <1>29 DEF Interrupt
<1>30. CASE RaiseSem
  BY <1>30 DEF RaiseSem
<1> QED
  BY <1>1, <1>2, <1>3, <1>4, <1>5, <1>6, <1>7, <1>8, <1>9, <1>10, <1>11, <1>12, <1>13,
     <1>14, <1>15, <1>16, <1>17, <1>18, <1>19, <1>20, <1>21, <1>22, <1>23, <1>24, <1>25,
     <1>26, <1>27, <1>28, <1>29, <1>30 DEF Next, Logic, Readout

(* Phases and counters, in every reachable state.                          *)
THEOREM HandshakeInvariant == Spec => []IInv
<1>1. Init => IInv
  BY InitInv
<1>2. IInv /\ [Next]_vars => IInv'
  BY StepInv
<1> QED
  BY <1>1, <1>2, PTL DEF Spec

(* The words of the segment and the phases keep their types.               *)
THEOREM HandshakeTypeCorrect == Spec => []TypeOK
<1>1. IInv => TypeOK
  BY DEF IInv
<1> QED
  BY <1>1, HandshakeInvariant, PTL

(* No trigger is lost, however the run is stopped.                         *)
THEOREM HandshakeLosesNone == Spec => []NoneLost
<1>1. IInv => NoneLost
  BY DEF IInv, TypeOK, CountInv, NoneLost, Words
<1> QED
  BY <1>1, HandshakeInvariant, PTL

(* The readout prints each event with its own event and spill numbers.     *)
THEOREM ReadoutLabels == Spec => []ReadsItsOwnEvent
<1>1. IInv => ReadsItsOwnEvent
  BY DEF IInv, TypeOK, CountInv, ReadsItsOwnEvent, Words
<1> QED
  BY <1>1, HandshakeInvariant, PTL

(* The segment outlives its use by the readout.                            *)
THEOREM SegmentOutlivesReadout == Spec => []SegmentAlive
<1>1. IInv => SegmentAlive
  BY DEF IInv, TypeOK, PhaseInv, SegmentAlive, ReadoutPC, ReadoutStarting, LogicStarting
<1> QED
  BY <1>1, HandshakeInvariant, PTL

-----------------------------------------------------------------------------
(* A step of the handshake hands one trigger over, takes one, or neither.  *)
LEMMA StepRefines ==
  IInv /\ [Next]_vars => [Handover!Next]_<<shm["toDaq"], shm["fromDaq"]>>
<1> SUFFICES ASSUME IInv, [Next]_vars
             PROVE  [Handover!Next]_<<shm["toDaq"], shm["fromDaq"]>>
  OBVIOUS
<1> USE DEF IInv, TypeOK, CountInv, Words, Set, Increment
<1>1. CASE LogicCountTo
  <2>1. Handover!Send
    BY <1>1 DEF LogicCountTo, Handover!Send
  <2> QED
    BY <2>1 DEF Handover!Next
<1>2. CASE ReadoutAnswer
  <2>1. Handover!Receive
    BY <1>2 DEF ReadoutAnswer, Handover!Receive
  <2> QED
    BY <2>1 DEF Handover!Next
<1>3. CASE LogicZero
  <2>1. Order[zeroed["logic"] + 1] \in Words
    BY <1>3, OrderInWords DEF LogicZero, ZeroInv
  <2>2. shm["toDaq"] = 0 /\ shm["fromDaq"] = 0
    BY <1>3 DEF LogicZero, PhaseInv, LogicStarting
  <2> QED
    BY <1>3, <2>1, <2>2 DEF LogicZero, ZeroNext
<1>4. CASE ReadoutZero
  <2>1. Order[zeroed["readout"] + 1] \in Words
    BY <1>4, OrderInWords DEF ReadoutZero, ZeroInv
  <2>2. shm["toDaq"] = 0 /\ shm["fromDaq"] = 0
    BY <1>4 DEF ReadoutZero, PhaseInv, LogicStarting, ReadoutStarting
  <2> QED
    BY <1>4, <2>1, <2>2 DEF ReadoutZero, ZeroNext
<1>5. CASE ~ (LogicCountTo \/ ReadoutAnswer \/ LogicZero \/ ReadoutZero)
  BY <1>5 DEF Next, vars, Logic, Readout, ipcVars, logicVars, readoutVars,
     LogicCreateShm, LogicCreateSem, LogicSetSem, LogicSeesReady, LogicAsk, LogicPoll,
     LogicCountEvent, LogicPublish, LogicSeesAnswer, LogicSemGet, LogicStop, LogicSeesIdle,
     LogicRemoveSem, LogicRemoveShm, ReadoutFindsSem, ReadoutFindsShm, ReadoutReady,
     ReadoutSeesAsk, ReadoutLook, ReadoutRead, ReadoutClear, ReadoutTest, ReadoutIdle,
     Interrupt, RaiseSem
<1> QED
  BY <1>1, <1>2, <1>3, <1>4, <1>5

(* daqLogic and daqReadout implement the one-at-a-time hand-over.          *)
THEOREM HandshakeRefines == Spec => ImplementsRendezvous
<1>1. Init => Handover!Init
  BY DEF Init, Handover!Init, Words
<1> QED
  BY <1>1, StepRefines, HandshakeInvariant, PTL DEF Spec, ImplementsRendezvous, Handover!Spec

=============================================================================
