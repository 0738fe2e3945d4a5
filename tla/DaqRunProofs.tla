---------------------------- MODULE DaqRunProofs ----------------------------
(***************************************************************************)
(* The run of a readout and two data writers, for every capacity, every    *)
(* limit and every ratio of pedestals: each FIFO changes only under its    *)
(* lock, and the limits on events hold.  The argument follows the place of *)
(* the readout: which FIFOs it holds there, how many events it may have,   *)
(* and that the pedestal veto is off only while one more pedestal is due.  *)
(***************************************************************************)
EXTENDS DaqRun, TLAPS

Preparing == {"attachPed", "lockPed0", "attachPhys", "lockPhys0", "waitFirst", "lockPhys",
              "lockPed"}
Handling == {"check", "write", "relock"}
Gap == {"unlockPhys", "unlockPed", "waitSpill", "lockPhys2", "lockPed2", "resume"}
Closing == {"closePhys", "closePed", "closePhys2", "closePed2", "deletePhys", "deletePed",
            "done"}

(* The places where the readout holds each FIFO, but for a full one.       *)
Holding == [phys |-> {"waitFirst", "lockPhys", "lockPed", "check", "write", "after", "update",
                      "unlockPhys", "lockPed2", "resume", "closePhys"},
            ped  |-> {"attachPhys", "lockPhys0", "waitFirst", "lockPhys", "lockPed", "check",
                      "write", "after", "update", "unlockPhys", "unlockPed", "resume",
                      "closePhys", "closePed"}]

ReadoutHolds(f) == ro \in Holding[f] \/ (ro = "relock" /\ cur # f)

LockInv == \A f \in Fifos :
             /\ ReadoutHolds(f) => lock[f] = "readout"
             /\ dw[f] \in {"dump", "unlockSome", "unlockEmpty"} => lock[f] = "dw"

CountInv == \A f \in Fifos : /\ consumed[f] <= written[f]
                             /\ nevtsaved[f] <= numevt[f]
                             /\ numevt[f] <= written[f]

(* The physics events there may be at each place of each stage.            *)
StageInv ==
  /\ stage = "loop" => /\ ro \in Preparing \cup Handling \cup {"after"}
                       /\ events <= MaxEvts + 1
                       /\ ro # "after" => events <= MaxEvts
  /\ stage = "spillEnd" => /\ ro \in Handling \cup {"after", "update"} \cup Gap
                           /\ events <= MaxEvts
                           /\ ro \in Handling => events < MaxEvts
  /\ stage = "closing" => /\ ro \in Handling \cup {"after", "update"} \cup Closing
                          /\ events <= MaxEvts + 2
                          /\ ro \in Handling => events <= MaxEvts + 1

(* One more pedestal may be taken.                                         *)
Room(n) == n < MaxPedEvts \/ n = 0

PedInv == /\ ped_enabled => Room(pedevents)
          /\ ~ pedVeto => RatioNum * pedevents <= RatioDen * events /\ Room(pedevents)
          /\ ro \in {"write", "relock"} /\ cur = "ped" => ~ pedVeto
          /\ PedShare

IInv == TypeOK /\ LockInv /\ CountInv /\ StageInv /\ PedInv

(* The tables of lock and unlock calls, spelled out.                       *)
LEMMA Tables ==
  /\ DOMAIN LockStep = {"lockPed0", "lockPhys0", "lockPhys", "lockPed", "lockPhys2", "lockPed2"}
  /\ DOMAIN UnlockStep = {"unlockPhys", "unlockPed", "closePhys", "closePed", "closePhys2",
                          "closePed2"}
BY DEF LockStep, UnlockStep

LEMMA Places ==
  /\ RoPC = Preparing \cup Handling \cup {"after", "update"} \cup Gap \cup Closing
  /\ \A l \in DOMAIN LockStep : LockStep[l].next \in RoPC /\ LockStep[l].fifo \in Fifos
  /\ \A l \in DOMAIN UnlockStep : UnlockStep[l].next \in RoPC /\ UnlockStep[l].fifo \in Fifos
<1>1. RoPC = Preparing \cup Handling \cup {"after", "update"} \cup Gap \cup Closing
  BY Tables DEF RoPC, Preparing, Handling, Gap, Closing
<1>2. \A l \in DOMAIN LockStep : LockStep[l].next \in RoPC /\ LockStep[l].fifo \in Fifos
  BY <1>1, Tables DEF LockStep, Fifos, Preparing, Handling, Gap
<1>3. \A l \in DOMAIN UnlockStep : UnlockStep[l].next \in RoPC /\ UnlockStep[l].fifo \in Fifos
  BY <1>1, Tables DEF UnlockStep, Fifos, Gap, Closing
<1> QED
  BY <1>1, <1>2, <1>3

LEMMA InitInv == Init => IInv
<1> SUFFICES ASSUME Init PROVE IInv
  OBVIOUS
<1>1. "attachPed" \in RoPC
  BY Places DEF Preparing
<1>2. TypeOK
  <2>1. lock \in [Fifos -> Holders] /\ dw \in [Fifos -> DwPC] /\ present \in [Fifos -> BOOLEAN]
    BY DEF Init, Holders, DwPC
  <2>2. closed \in [Fifos -> Seq(Header)]
    BY DEF Init
  <2>3. /\ written \in [Fifos -> Nat] /\ consumed \in [Fifos -> Nat] /\ numevt \in [Fifos -> Nat]
        /\ infile \in [Fifos -> Nat] /\ nevtsaved \in [Fifos -> Nat] /\ spills \in Nat
    BY DEF Init
  <2>4. /\ ro \in RoPC /\ stage \in Stages /\ cur \in Fifos
        /\ ped_enabled \in BOOLEAN /\ pedVeto \in BOOLEAN
        /\ abort \subseteq Interrupted /\ inSpill \in BOOLEAN
    BY <1>1 DEF Init, Stages, Fifos
  <2> QED
    BY <2>1, <2>2, <2>3, <2>4 DEF TypeOK
<1>3. LockInv /\ CountInv
  BY DEF Init, LockInv, CountInv, ReadoutHolds, Holding, Fifos
<1>4. StageInv
  BY RunAssumption DEF Init, StageInv, Preparing, Handling, Gap, Closing, events, Fifos
<1>5. PedInv
  BY RunAssumption DEF Init, PedInv, PedShare, Room, events, pedevents, Fifos
<1> QED
  BY <1>2, <1>3, <1>4, <1>5 DEF IInv

(* A step that leaves the pedestals and the event in hand alone.           *)
LEMMA PedFrame ==
  ASSUME PedInv, UNCHANGED <<written, ped_enabled, pedVeto, cur>>,
         ro' \in {"write", "relock"} => ro \in {"write", "relock"}
  PROVE  PedInv'
BY DEF PedInv, PedShare, events, pedevents

(* A step of the readout that moves it and changes a lock, or nothing else *)
(* but presence, stage and numevt.                                         *)
LEMMA RoTypeFrame ==
  ASSUME TypeOK, ro' \in RoPC, stage' \in Stages, lock' \in [Fifos -> Holders],
         present' \in [Fifos -> BOOLEAN], numevt' \in [Fifos -> Nat],
         UNCHANGED <<written, consumed, cur, pedVars, dwVars, envVars>>
  PROVE  TypeOK'
BY DEF TypeOK, pedVars, dwVars, envVars

LEMMA CountFrame ==
  ASSUME CountInv, UNCHANGED <<written, consumed, numevt, nevtsaved>>
  PROVE  CountInv'
BY DEF CountInv

LEMMA RoAttachInv == ASSUME IInv, RoAttach PROVE IInv'
<1> USE DEF IInv
<1>1. ro' \in {"lockPed0", "lockPhys0"} /\ ro' \in RoPC
  BY Places DEF RoAttach, Preparing
<1>2. present' \in [Fifos -> BOOLEAN]
  BY Zenon DEF RoAttach, TypeOK
<1>3. TypeOK'
  BY <1>1, <1>2, RoTypeFrame DEF RoAttach, TypeOK
<1>4. LockInv'
  BY <1>1 DEF RoAttach, LockInv, ReadoutHolds, Holding, dwVars, Fifos
<1>5. CountInv'
  BY CountFrame DEF RoAttach, dwVars
<1>6. StageInv'
  BY <1>1 DEF RoAttach, StageInv, Preparing, Handling, Gap, Closing, events
<1>7. PedInv'
  BY <1>1, PedFrame DEF RoAttach, pedVars
<1> QED
  BY <1>3, <1>4, <1>5, <1>6, <1>7

LEMMA RoLockInv == ASSUME IInv, RoLock PROVE IInv'
<1> USE DEF IInv
<1>1. ro' \in RoPC /\ LockStep[ro].fifo \in Fifos
  BY Places DEF RoLock
<1>2. lock' \in [Fifos -> Holders]
  BY <1>1 DEF RoLock, Take, TypeOK, Holders
<1>3. TypeOK'
  BY <1>1, <1>2, RoTypeFrame DEF RoLock, TypeOK
<1>4. LockInv'
  <2> SUFFICES ASSUME NEW f \in Fifos
               PROVE  /\ ReadoutHolds(f)' => lock'[f] = "readout"
                      /\ dw[f] \in {"dump", "unlockSome", "unlockEmpty"} => lock'[f] = "dw"
    BY DEF LockInv, RoLock, dwVars
  <2>1. ro' # "relock" /\ (ro' \in Holding[f] => ro \in Holding[f] \/ f = LockStep[ro].fifo)
    BY Tables DEF RoLock, LockStep, Holding, Fifos
  <2>2. /\ lock[LockStep[ro].fifo] \in {"none", "readout"}
        /\ lock'[f] = IF f = LockStep[ro].fifo THEN "readout" ELSE lock[f]
    BY <1>1 DEF RoLock, Take, TypeOK
  <2> QED
    BY <2>1, <2>2 DEF LockInv, ReadoutHolds
<1>5. CountInv'
  BY CountFrame DEF RoLock, dwVars
<1>6. StageInv'
  BY Tables DEF RoLock, LockStep, StageInv, Preparing, Handling, Gap, Closing, events
<1>7. ro' \notin {"write", "relock"}
  BY Tables DEF RoLock, LockStep
<1>8. PedInv'
  BY <1>7, PedFrame DEF RoLock, pedVars
<1> QED
  BY <1>3, <1>4, <1>5, <1>6, <1>8

LEMMA RoUnlockInv == ASSUME IInv, RoUnlock PROVE IInv'
<1> USE DEF IInv
<1>1. ro' \in RoPC /\ UnlockStep[ro].fifo \in Fifos
  BY Places DEF RoUnlock
<1>2. lock' \in [Fifos -> Holders]
  BY <1>1 DEF RoUnlock, Free, TypeOK, Holders
<1>3. TypeOK'
  BY <1>1, <1>2, RoTypeFrame DEF RoUnlock, TypeOK
<1>4. LockInv'
  <2> SUFFICES ASSUME NEW f \in Fifos
               PROVE  /\ ReadoutHolds(f)' => lock'[f] = "readout"
                      /\ dw[f] \in {"dump", "unlockSome", "unlockEmpty"} => lock'[f] = "dw"
    BY DEF LockInv, RoUnlock, dwVars
  <2>1. ro' # "relock" /\ (ro' \in Holding[f] => ro \in Holding[f] /\ f # UnlockStep[ro].fifo)
    BY Tables DEF RoUnlock, UnlockStep, Holding, Fifos
  <2>2. lock'[f] = IF f = UnlockStep[ro].fifo /\ lock[f] = "readout" THEN "none" ELSE lock[f]
    BY <1>1 DEF RoUnlock, Free, TypeOK
  <2> QED
    BY <2>1, <2>2 DEF LockInv, ReadoutHolds
<1>5. CountInv'
  BY CountFrame DEF RoUnlock, dwVars
<1>6. StageInv'
  BY Tables DEF RoUnlock, UnlockStep, StageInv, Preparing, Handling, Gap, Closing, events
<1>7. ro' \notin {"write", "relock"}
  BY Tables DEF RoUnlock, UnlockStep
<1>8. PedInv'
  BY <1>7, PedFrame DEF RoUnlock, pedVars
<1> QED
  BY <1>3, <1>4, <1>5, <1>6, <1>8

LEMMA RoSpillStartsInv == ASSUME IInv, RoSpillStarts PROVE IInv'
<1> USE DEF IInv
<1>1. ro' \in {"lockPhys", "lockPhys2"} /\ ro' \in RoPC
  BY Places DEF RoSpillStarts, Preparing, Gap
<1>2. TypeOK'
  BY <1>1, RoTypeFrame DEF RoSpillStarts, fifoVars, TypeOK
<1>3. LockInv'
  BY DEF RoSpillStarts, fifoVars, LockInv, ReadoutHolds, Holding, dwVars, Fifos
<1>4. CountInv'
  BY CountFrame DEF RoSpillStarts, fifoVars, dwVars
<1>5. StageInv'
  BY DEF RoSpillStarts, fifoVars, StageInv, Preparing, Handling, Gap, Closing, events
<1>6. PedInv'
  BY <1>1, PedFrame DEF RoSpillStarts, fifoVars, pedVars
<1> QED
  BY <1>2, <1>3, <1>4, <1>5, <1>6

LEMMA RoResumeInv == ASSUME IInv, RoResume PROVE IInv'
<1> USE DEF IInv
<1>1. ro' = "check" /\ ro' \in RoPC /\ stage' \in Stages
  BY Places DEF RoResume, Handling, Stages
<1>2. TypeOK'
  BY <1>1, RoTypeFrame DEF RoResume, fifoVars, TypeOK
<1>3. LockInv'
  BY DEF RoResume, fifoVars, LockInv, ReadoutHolds, Holding, dwVars, Fifos
<1>4. CountInv'
  BY CountFrame DEF RoResume, fifoVars, dwVars
<1>5. events \in Nat
  BY DEF TypeOK, events, Fifos
<1>6. StageInv'
  BY <1>5, RunAssumption
     DEF RoResume, fifoVars, TypeOK, Stages, StageInv, Preparing, Handling, Gap, Closing, events
<1>7. PedInv'
  BY <1>1, PedFrame DEF RoResume, fifoVars, pedVars
<1> QED
  BY <1>2, <1>3, <1>4, <1>6, <1>7

(* Steps of the readout that leave the locks and the counts alone.         *)
LEMMA RoNoEventInv == ASSUME IInv, RoNoEvent PROVE IInv'
<1> USE DEF IInv
<1>1. ro' = "after" /\ ro' \in RoPC
  BY Places DEF RoNoEvent
<1>2. TypeOK'
  BY <1>1, RoTypeFrame DEF RoNoEvent, fifoVars, TypeOK
<1>3. LockInv'
  BY DEF RoNoEvent, fifoVars, LockInv, ReadoutHolds, Holding, dwVars, Fifos
<1>4. CountInv'
  BY CountFrame DEF RoNoEvent, fifoVars, dwVars
<1>5. StageInv'
  BY DEF RoNoEvent, fifoVars, TypeOK, StageInv, Preparing, Handling, Gap, Closing, events, Fifos
<1>6. PedInv'
  BY <1>1, PedFrame DEF RoNoEvent, fifoVars, pedVars
<1> QED
  BY <1>2, <1>3, <1>4, <1>5, <1>6

LEMMA RoTriggerInv == ASSUME IInv, NEW f \in Fifos, RoTrigger(f) PROVE IInv'
<1> USE DEF IInv
<1>1. ro' = "write" /\ ro' \in RoPC
  BY Places DEF RoTrigger, Handling
<1>2. TypeOK'
  BY <1>1 DEF RoTrigger, fifoVars, pedVars, dwVars, envVars, TypeOK
<1>3. LockInv'
  BY DEF RoTrigger, fifoVars, LockInv, ReadoutHolds, Holding, dwVars, Fifos
<1>4. CountInv'
  BY CountFrame DEF RoTrigger, fifoVars, dwVars
<1>5. StageInv'
  BY DEF RoTrigger, fifoVars, StageInv, Preparing, Handling, Gap, Closing, events
<1>6. PedInv'
  BY DEF RoTrigger, fifoVars, pedVars, PedInv, PedShare, events, pedevents
<1> QED
  BY <1>2, <1>3, <1>4, <1>5, <1>6

(* KeepShare lifts the veto only when a pedestal is due.                   *)
LEMMA ShareKept ==
  ASSUME NEW f \in Fifos, NEW m \in Nat, NEW n \in Nat, pedVeto \in BOOLEAN,
         KeepShare(f, m, n), ~ pedVeto'
  PROVE  \/ ped_enabled /\ RatioNum * n <= RatioDen * m
         \/ ~ pedVeto /\ (f = "ped" => RatioNum * n <= RatioDen * m)
<1>1. RatioNum * n \in Nat /\ RatioDen * m \in Nat
  BY RunAssumption
<1>2. Due(m, n) <=> RatioNum * n <= RatioDen * m
  BY <1>1 DEF Due
<1> QED
  BY <1>2 DEF KeepShare, Fifos

LEMMA RoGiveUpInv == ASSUME IInv, NEW f \in Fifos, RoGiveUp(f) PROVE IInv'
<1> USE DEF IInv
<1>1. ro' = "after" /\ ro' \in RoPC
  BY Places DEF RoGiveUp
<1>2. pedVeto' \in BOOLEAN
  BY DEF RoGiveUp, KeepShare, TypeOK
<1>3. TypeOK'
  BY <1>1, <1>2 DEF RoGiveUp, fifoVars, dwVars, envVars, TypeOK
<1>4. LockInv'
  BY DEF RoGiveUp, fifoVars, LockInv, ReadoutHolds, Holding, dwVars, Fifos
<1>5. CountInv'
  BY CountFrame DEF RoGiveUp, fifoVars, dwVars
<1>6. StageInv'
  BY DEF RoGiveUp, fifoVars, TypeOK, StageInv, Preparing, Handling, Gap, Closing, events, Fifos
<1>7. events \in Nat /\ pedevents \in Nat
  BY DEF TypeOK, events, pedevents, Fifos
<1>8. ~ pedVeto' => (RatioNum * pedevents <= RatioDen * events /\ Room(pedevents))
  BY <1>7, ShareKept DEF RoGiveUp, TypeOK, PedInv
<1>9. PedInv'
  BY <1>1, <1>8 DEF RoGiveUp, fifoVars, PedInv, PedShare, Room, events, pedevents
<1> QED
  BY <1>3, <1>4, <1>5, <1>6, <1>9

(* An event put into a FIFO: the only step that counts.                    *)
LEMMA RoWriteInv == ASSUME IInv, RoWrite PROVE IInv'
<1> USE DEF IInv
<1>1. ro = "write" /\ ro' = "after" /\ ro' \in RoPC
  BY Places DEF RoWrite
<1>2. pedVeto' \in BOOLEAN /\ ped_enabled' \in BOOLEAN
  BY DEF RoWrite, PedVetoAfter, KeepShare, TypeOK
<1>3. /\ written' \in [Fifos -> Nat]
      /\ \A f \in Fifos : written'[f] = IF f = cur THEN written[f] + 1 ELSE written[f]
  BY DEF RoWrite, TypeOK
<1>4. TypeOK'
  BY <1>1, <1>2, <1>3 DEF RoWrite, dwVars, envVars, TypeOK
<1>5. LockInv'
  BY DEF RoWrite, LockInv, ReadoutHolds, Holding, dwVars, Fifos
<1>6. CountInv'
  BY <1>3 DEF RoWrite, dwVars, CountInv, TypeOK
<1>7. /\ events \in Nat /\ pedevents \in Nat /\ cur \in Fifos
      /\ cur = "phys" => events' = events + 1 /\ pedevents' = pedevents
      /\ cur = "ped" => events' = events /\ pedevents' = pedevents + 1
  BY <1>3 DEF TypeOK, events, pedevents, Fifos
<1>8. StageInv'
  BY <1>1, <1>7, RunAssumption DEF RoWrite, StageInv, Preparing, Handling, Gap, Closing, Fifos
<1>9. CASE cur = "phys"
  <2>1. PedVetoAfter(cur, events', pedevents') <=>
          KeepShare(cur, events', pedevents') /\ UNCHANGED ped_enabled
    BY <1>9 DEF PedVetoAfter
  <2>2. /\ RatioNum * pedevents \in Nat /\ RatioDen * events \in Nat
        /\ RatioDen * events' \in Nat /\ RatioDen * events <= RatioDen * events'
        /\ pedevents > 0 => RatioNum * (pedevents - 1) \in Nat
    BY <1>7, <1>9, RunAssumption
  <2>3. ~ pedVeto' => (RatioNum * pedevents <= RatioDen * events' /\ Room(pedevents))
    <3>1. \/ ped_enabled /\ RatioNum * pedevents <= RatioDen * events'
          \/ ~ pedVeto
          \/ pedVeto'
      BY <1>7, <1>9, <2>1, ShareKept DEF RoWrite, TypeOK
    <3> QED
      BY <2>2, <3>1 DEF PedInv
  <2>4. PedShare'
    BY <1>7, <1>9, <2>2 DEF PedInv, PedShare
  <2> QED
    BY <1>1, <1>7, <1>9, <2>1, <2>3, <2>4, <1>4, <1>5, <1>6, <1>8 DEF RoWrite, PedInv
<1>10. CASE cur = "ped"
  <2>1. RatioNum * pedevents <= RatioDen * events /\ Room(pedevents)
    BY <1>1, <1>10 DEF PedInv
  <2>2. PedShare'
    <3>1. pedevents' - 1 = pedevents /\ (pedevents' <= MaxPedEvts \/ pedevents' = 1)
      BY <1>7, <1>10, <2>1, RunAssumption DEF Room
    <3> QED
      BY <1>7, <1>10, <2>1, <3>1 DEF PedShare
  <2>3. CASE pedevents' >= MaxPedEvts
    BY <1>1, <1>10, <2>2, <2>3, <1>4, <1>5, <1>6, <1>8 DEF RoWrite, PedVetoAfter, PedInv
  <2>4. CASE ~ (pedevents' >= MaxPedEvts)
    <3>1. KeepShare(cur, events', pedevents') /\ UNCHANGED ped_enabled
      BY <1>10, <2>4 DEF RoWrite, PedVetoAfter
    <3>2. Room(pedevents') /\ events' \in Nat /\ pedevents' \in Nat
      BY <1>7, <1>10, <2>4, RunAssumption DEF Room
    <3>3. ~ pedVeto' => RatioNum * pedevents' <= RatioDen * events'
      BY <1>7, <1>10, <3>1, <3>2, ShareKept DEF TypeOK
    <3>4. PedInv'
      BY <1>1, <1>10, <2>2, <3>1, <3>2, <3>3 DEF PedInv
    <3> QED
      BY <3>4, <1>4, <1>5, <1>6, <1>8
  <2> QED
    BY <2>3, <2>4
<1> QED
  BY <1>7, <1>9, <1>10 DEF Fifos

LEMMA RoFullInv == ASSUME IInv, RoFull PROVE IInv'
<1> USE DEF IInv
<1>1. ro = "write" /\ ro' = "relock" /\ ro' \in RoPC
  BY Places DEF RoFull, Handling
<1>2. lock' \in [Fifos -> Holders]
  BY DEF RoFull, Free, TypeOK, Holders
<1>3. TypeOK'
  BY <1>1, <1>2, RoTypeFrame DEF RoFull, TypeOK
<1>4. LockInv'
  <2> SUFFICES ASSUME NEW f \in Fifos
               PROVE  /\ ReadoutHolds(f)' => lock'[f] = "readout"
                      /\ dw[f] \in {"dump", "unlockSome", "unlockEmpty"} => lock'[f] = "dw"
    BY DEF LockInv, RoFull, dwVars
  <2>1. ro \in Holding[f] /\ "relock" \notin Holding[f] /\ cur' = cur
    BY <1>1 DEF RoFull, Holding, Fifos
  <2>2. lock'[f] = IF f = cur /\ lock[f] = "readout" THEN "none" ELSE lock[f]
    BY DEF RoFull, Free, TypeOK
  <2> QED
    BY <1>1, <2>1, <2>2 DEF LockInv, ReadoutHolds
<1>5. CountInv'
  BY CountFrame DEF RoFull, dwVars
<1>6. StageInv'
  BY <1>1 DEF RoFull, StageInv, Preparing, Handling, Gap, Closing, events
<1>7. PedInv'
  BY <1>1, PedFrame DEF RoFull, pedVars
<1> QED
  BY <1>3, <1>4, <1>5, <1>6, <1>7

LEMMA RoRelockInv == ASSUME IInv, RoRelock PROVE IInv'
<1> USE DEF IInv
<1>1. ro = "relock" /\ ro' = "write" /\ ro' \in RoPC
  BY Places DEF RoRelock, Handling
<1>2. lock' \in [Fifos -> Holders]
  BY DEF RoRelock, Take, TypeOK, Holders
<1>3. TypeOK'
  BY <1>1, <1>2, RoTypeFrame DEF RoRelock, TypeOK
<1>4. LockInv'
  BY <1>1 DEF RoRelock, Take, TypeOK, LockInv, ReadoutHolds, Holding, dwVars, Fifos
<1>5. CountInv'
  BY CountFrame DEF RoRelock, dwVars
<1>6. StageInv'
  BY <1>1 DEF RoRelock, StageInv, Preparing, Handling, Gap, Closing, events
<1>7. PedInv'
  BY <1>1, PedFrame DEF RoRelock, pedVars
<1> QED
  BY <1>3, <1>4, <1>5, <1>6, <1>7

LEMMA RoAfterInv == ASSUME IInv, RoAfter PROVE IInv'
<1> USE DEF IInv
<1>1. ro = "after" /\ ro' \in {"check", "update"} /\ ro' \in RoPC /\ stage' \in Stages
  BY Places DEF RoAfter, Handling, Stages, TypeOK
<1>2. TypeOK'
  BY <1>1, RoTypeFrame DEF RoAfter, fifoVars, TypeOK
<1>3. LockInv'
  BY <1>1 DEF RoAfter, fifoVars, LockInv, ReadoutHolds, Holding, dwVars, Fifos
<1>4. CountInv'
  BY CountFrame DEF RoAfter, fifoVars, dwVars
<1>5. events \in Nat
  BY DEF TypeOK, events, Fifos
<1>6. StageInv'
  <2>1. CASE stage = "loop"
    BY <1>1, <1>5, <2>1, RunAssumption
       DEF RoAfter, fifoVars, StageInv, Preparing, Handling, Gap, Closing, events
  <2>2. CASE stage # "loop"
    BY <1>1, <1>5, <2>2, RunAssumption
       DEF RoAfter, fifoVars, TypeOK, Stages, StageInv, Preparing, Handling, Gap, Closing, events
  <2> QED
    BY <2>1, <2>2
<1>7. PedInv'
  BY <1>1, PedFrame DEF RoAfter, fifoVars, pedVars
<1> QED
  BY <1>2, <1>3, <1>4, <1>6, <1>7

LEMMA RoUpdateInv == ASSUME IInv, RoUpdate PROVE IInv'
<1> USE DEF IInv
<1>1. ro = "update" /\ ro' \in {"unlockPhys", "closePhys"} /\ ro' \in RoPC
  BY Places DEF RoUpdate, Gap, Closing
<1>2. \A f \in Fifos : numevt'[f] = written[f]
  BY DEF RoUpdate, events, pedevents, Fifos
<1>3. numevt' \in [Fifos -> Nat]
  BY DEF RoUpdate, events, pedevents, Fifos, TypeOK
<1>4. TypeOK'
  BY <1>1, <1>3, RoTypeFrame DEF RoUpdate, TypeOK
<1>5. LockInv'
  BY <1>1 DEF RoUpdate, LockInv, ReadoutHolds, Holding, dwVars, Fifos
<1>6. CountInv'
  BY <1>2 DEF RoUpdate, CountInv, dwVars, TypeOK
<1>7. StageInv'
  BY <1>1 DEF RoUpdate, TypeOK, Stages, StageInv, Preparing, Handling, Gap, Closing, events
<1>8. PedInv'
  BY <1>1, PedFrame DEF RoUpdate, pedVars
<1> QED
  BY <1>4, <1>5, <1>6, <1>7, <1>8

LEMMA RoDeleteInv == ASSUME IInv, RoDelete PROVE IInv'
<1> USE DEF IInv
<1>1. ro \in {"deletePhys", "deletePed"} /\ ro' \in {"deletePed", "done"} /\ ro' \in RoPC
  BY Places DEF RoDelete, Closing
<1>2. present' \in [Fifos -> BOOLEAN]
  BY Zenon DEF RoDelete, TypeOK
<1>3. TypeOK'
  BY <1>1, <1>2, RoTypeFrame DEF RoDelete, TypeOK
<1>4. LockInv'
  BY <1>1 DEF RoDelete, LockInv, ReadoutHolds, Holding, dwVars, Fifos
<1>5. CountInv'
  BY CountFrame DEF RoDelete, dwVars
<1>6. StageInv'
  BY <1>1 DEF RoDelete, TypeOK, Stages, StageInv, Preparing, Handling, Gap, Closing, events
<1>7. PedInv'
  BY <1>1, PedFrame DEF RoDelete, pedVars
<1> QED
  BY <1>3, <1>4, <1>5, <1>6, <1>7

(* What a step of a data writer that moves it to l must show.              *)
LEMMA DwFrame ==
  ASSUME IInv, NEW f \in Fifos, NEW l \in DwPC, DwGoto(f, l), UNCHANGED dwOther,
         lock' \in [Fifos -> Holders], consumed' \in [Fifos -> Nat], infile' \in [Fifos -> Nat],
         nevtsaved' \in [Fifos -> Nat], closed' \in [Fifos -> Seq(Header)],
         \A g \in Fifos \ {f} : lock'[g] = lock[g],
         lock[f] = "readout" => lock'[f] = "readout",
         l \in {"dump", "unlockSome", "unlockEmpty"} => lock'[f] = "dw",
         \A g \in Fifos : consumed'[g] <= written[g] /\ nevtsaved'[g] <= numevt[g]
  PROVE  IInv'
<1> USE DEF IInv
<1>1. /\ dw' \in [Fifos -> DwPC]
      /\ dw'[f] = l /\ \A g \in Fifos \ {f} : dw'[g] = dw[g]
  BY DEF DwGoto, TypeOK
<1>2. TypeOK'
  BY <1>1 DEF dwOther, roVars, pedVars, envVars, TypeOK
<1>3. LockInv'
  <2> SUFFICES ASSUME NEW g \in Fifos
               PROVE  /\ ReadoutHolds(g)' => lock'[g] = "readout"
                      /\ dw'[g] \in {"dump", "unlockSome", "unlockEmpty"} => lock'[g] = "dw"
    BY DEF LockInv
  <2>1. ReadoutHolds(g)' => lock[g] = "readout"
    BY DEF LockInv, ReadoutHolds, dwOther, roVars
  <2>2. CASE g = f
    BY <1>1, <2>1, <2>2
  <2>3. CASE g # f
    BY <1>1, <2>1, <2>3 DEF LockInv
  <2> QED
    BY <2>2, <2>3
<1>4. CountInv'
  BY DEF dwOther, CountInv
<1>5. StageInv'
  BY DEF dwOther, roVars, StageInv, events
<1>6. PedInv'
  BY PedFrame DEF dwOther, roVars, pedVars
<1> QED
  BY <1>2, <1>3, <1>4, <1>5, <1>6

(* A data writer that only moves, to a place without the lock or, with it, *)
(* from one to another.                                                    *)
LEMMA DwMoves ==
  ASSUME IInv, NEW f \in Fifos, NEW l \in DwPC, DwGoto(f, l), UNCHANGED dwOther,
         UNCHANGED <<lock, consumed, infile, nevtsaved, closed>>,
         l \in {"dump", "unlockSome", "unlockEmpty"} => lock[f] = "dw"
  PROVE  IInv'
BY DwFrame DEF IInv, TypeOK, CountInv

LEMMA DwLockInv == ASSUME IInv, NEW f \in Fifos, DwLock(f) PROVE IInv'
<1>1. lock' \in [Fifos -> Holders] /\ lock'[f] = "dw" /\ lock[f] # "readout"
  BY DEF DwLock, Take, IInv, TypeOK, Holders
<1>2. \A g \in Fifos \ {f} : lock'[g] = lock[g]
  BY DEF DwLock, Take, IInv, TypeOK
<1>3. "dump" \in DwPC
  BY DEF DwPC
<1> QED
  BY <1>1, <1>2, <1>3, DwFrame DEF DwLock, IInv, TypeOK, CountInv

LEMMA DwDumpInv == ASSUME IInv, NEW f \in Fifos, DwDump(f) PROVE IInv'
<1>1. PICK n \in 1..(written[f] - consumed[f]) :
        /\ consumed' = [consumed EXCEPT ![f] = @ + n]
        /\ infile' = [infile EXCEPT ![f] = @ + n]
  BY DEF DwDump
<1>2. /\ consumed' \in [Fifos -> Nat] /\ infile' \in [Fifos -> Nat]
      /\ \A g \in Fifos : consumed'[g] <= written[g]
  BY <1>1 DEF IInv, TypeOK, CountInv
<1>3. lock[f] = "dw" /\ "unlockSome" \in DwPC
  BY DEF DwDump, IInv, LockInv, DwPC
<1> QED
  BY <1>2, <1>3, DwFrame DEF DwDump, IInv, TypeOK, CountInv

LEMMA DwUnlockInv == ASSUME IInv, NEW f \in Fifos, DwUnlock(f) PROVE IInv'
<1>1. lock[f] = "dw"
  BY DEF DwUnlock, IInv, LockInv
<1>2. lock' \in [Fifos -> Holders] /\ \A g \in Fifos \ {f} : lock'[g] = lock[g]
  BY DEF DwUnlock, Free, IInv, TypeOK, Holders
<1>3. PICK l \in {"loop", "size"} : DwGoto(f, l)
  BY DEF DwUnlock
<1>4. l \in DwPC
  BY DEF DwPC
<1> QED
  BY <1>1, <1>2, <1>3, <1>4, DwFrame DEF DwUnlock, IInv, TypeOK, CountInv

(* A file closed: its header is no negative number.                        *)
LEMMA CloseFileInv ==
  ASSUME IInv, NEW f \in Fifos, CloseFile(f), NEW l \in {"present", "done"}, DwGoto(f, l),
         UNCHANGED <<dwOther, lock, consumed>>
  PROVE  IInv'
<1> USE DEF IInv
<1>1. [header |-> numevt[f] - nevtsaved[f], inside |-> infile[f]] \in Header
  BY DEF Header, TypeOK, CountInv
<1>2. closed' \in [Fifos -> Seq(Header)]
  BY <1>1 DEF CloseFile, TypeOK
<1>3. /\ nevtsaved' \in [Fifos -> Nat] /\ infile' \in [Fifos -> Nat]
      /\ \A g \in Fifos : nevtsaved'[g] <= numevt[g]
  BY DEF CloseFile, TypeOK, CountInv
<1>4. l \in DwPC
  BY DEF DwPC
<1> QED
  BY <1>2, <1>3, <1>4, DwFrame DEF TypeOK, CountInv

LEMMA DwSoloInv == ASSUME IInv, NEW f \in Fifos, DwSolo(f) PROVE IInv'
<1>1. CASE DwSeesWriter(f)
  BY <1>1, DwMoves DEF DwSeesWriter, DwPC
<1>2. CASE DwLoop(f)
  BY <1>2, DwMoves DEF DwLoop, DwPC
<1>3. CASE DwDump(f)
  BY <1>3, DwDumpInv
<1>4. CASE DwDumpEmpty(f)
  BY <1>4, DwMoves DEF DwDumpEmpty, DwPC, IInv, LockInv
<1>5. CASE DwUnlock(f)
  BY <1>5, DwUnlockInv
<1>6. CASE DwRollOver(f)
  BY <1>6, CloseFileInv DEF DwRollOver
<1>7. CASE DwKeepFile(f)
  BY <1>7, DwMoves DEF DwKeepFile, DwPC
<1>8. CASE DwPresent(f)
  BY <1>8, DwMoves DEF DwPresent, DwPC
<1>9. CASE DwFinal(f)
  BY <1>9, CloseFileInv DEF DwFinal
<1> QED
  BY <1>1, <1>2, <1>3, <1>4, <1>5, <1>6, <1>7, <1>8, <1>9 DEF DwSolo

(* Steps of the accelerator and the operator.                              *)
LEMMA EnvFrame ==
  ASSUME IInv, UNCHANGED <<fifoVars, roVars, pedVars, dwVars>>,
         abort' \subseteq Interrupted, inSpill' \in BOOLEAN, spills' \in Nat
  PROVE  IInv'
<1> USE DEF IInv, fifoVars, roVars, pedVars, dwVars
<1>1. TypeOK'
  BY DEF TypeOK
<1>2. LockInv' /\ CountInv'
  BY DEF LockInv, CountInv, ReadoutHolds
<1>3. StageInv' /\ PedInv'
  BY DEF StageInv, PedInv, PedShare, events, pedevents
<1> QED
  BY <1>1, <1>2, <1>3

(* Every step preserves the inductive invariant.                           *)
LEMMA StepInv == IInv /\ [Next]_vars => IInv'
<1> SUFFICES ASSUME IInv, [Next]_vars PROVE IInv'
  OBVIOUS
<1>1. CASE UNCHANGED vars
  BY <1>1, EnvFrame DEF vars, envVars, IInv, TypeOK
<1>2. CASE RoSolo
  BY <1>2, RoAttachInv, RoUnlockInv, RoSpillStartsInv, RoResumeInv, RoNoEventInv, RoTriggerInv,
     RoGiveUpInv, RoWriteInv, RoFullInv, RoAfterInv, RoUpdateInv, RoDeleteInv DEF RoSolo
<1>3. CASE RoTake
  BY <1>3, RoLockInv, RoRelockInv DEF RoTake
<1>4. ASSUME NEW f \in Fifos, DwSolo(f) \/ DwLock(f) PROVE IInv'
  BY <1>4, DwSoloInv, DwLockInv
<1>5. CASE SpillToggle
  <2>1. UNCHANGED <<fifoVars, roVars, pedVars, dwVars>> /\ abort' \subseteq Interrupted
    BY <1>5 DEF SpillToggle, IInv, TypeOK
  <2>2. inSpill' \in BOOLEAN /\ spills' \in Nat
    BY <1>5 DEF SpillToggle, IInv, TypeOK
  <2> QED
    BY <2>1, <2>2, EnvFrame
<1>6. ASSUME NEW p \in Interrupted, Interrupt(p) PROVE IInv'
  BY <1>6, EnvFrame DEF Interrupt, IInv, TypeOK
<1> QED
  BY <1>1, <1>2, <1>3, <1>4, <1>5, <1>6 DEF Next

(* Types, locks, counts and limits, in every reachable state.              *)
THEOREM RunInvariant == Spec => []IInv
<1> QED
  BY InitInv, StepInv, PTL DEF Spec

(* The variables of a run keep their types; no header is negative.         *)
THEOREM RunTypeCorrect == Spec => []TypeOK
<1>1. IInv => TypeOK
  BY DEF IInv
<1> QED
  BY <1>1, RunInvariant, PTL

(* A run takes at most two physics events more than maxevts.               *)
THEOREM RunBounded == Spec => []EventsBounded
<1>1. IInv => EventsBounded
  <2> SUFFICES ASSUME IInv PROVE events <= MaxEvts + 2
    BY DEF EventsBounded
  <2>1. events \in Nat /\ stage \in {"loop", "spillEnd", "closing"}
    BY DEF IInv, TypeOK, events, Fifos, Stages
  <2> QED
    BY <2>1, RunAssumption DEF IInv, StageInv
<1> QED
  BY <1>1, RunInvariant, PTL

(* Pedestals keep their share of the run and stop at maxpedevts, or at the *)
(* first one if maxpedevts is 0.                                           *)
THEOREM PedestalsShared == Spec => []PedShare
<1>1. IInv => PedShare
  BY DEF IInv, PedInv
<1> QED
  BY <1>1, RunInvariant, PTL

(* Events enter and leave a FIFO only under its lock.                      *)
THEOREM FifosLocked == Spec => OnlyLocked
<1> DEFINE Locked == \A f \in Fifos : /\ written'[f] # written[f] => lock[f] = "readout"
                                      /\ consumed'[f] # consumed[f] => lock[f] = "dw"
<1>1. IInv /\ [Next]_vars => [Locked]_vars
  <2> SUFFICES ASSUME IInv, Next PROVE Locked
    OBVIOUS
  <2>1. CASE RoWrite
    <3>1. lock[cur] = "readout"
      BY <2>1 DEF RoWrite, IInv, LockInv, TypeOK, ReadoutHolds, Holding, Fifos
    <3>2. \A f \in Fifos \ {cur} : written'[f] = written[f]
      BY <2>1 DEF RoWrite, IInv, TypeOK
    <3> QED
      BY <2>1, <3>1, <3>2 DEF RoWrite
  <2>2. ASSUME NEW f \in Fifos, DwDump(f) PROVE Locked
    <3>1. lock[f] = "dw"
      BY <2>2 DEF DwDump, IInv, LockInv
    <3>2. \A g \in Fifos \ {f} : consumed'[g] = consumed[g]
      BY <2>2 DEF DwDump, IInv, TypeOK
    <3> QED
      BY <2>2, <3>1, <3>2 DEF DwDump, dwOther
  <2>3. CASE RoSolo /\ ~ RoWrite
    BY <2>3 DEF RoSolo, RoAttach, RoUnlock, RoSpillStarts, RoResume, RoNoEvent, RoTrigger, RoGiveUp,
       RoFull, RoAfter, RoUpdate, RoDelete, fifoVars
  <2>4. CASE RoTake
    BY <2>4 DEF RoTake, RoLock, RoRelock
  <2>5. ASSUME NEW f \in Fifos, (DwSolo(f) /\ ~ DwDump(f)) \/ DwLock(f) PROVE Locked
    BY <2>5 DEF DwSolo, DwLock, DwSeesWriter, DwLoop, DwDumpEmpty, DwUnlock, DwRollOver, DwKeepFile,
       DwPresent, DwFinal, dwOther
  <2>6. CASE SpillToggle \/ \E p \in Interrupted : Interrupt(p)
    BY <2>6 DEF SpillToggle, Interrupt, fifoVars
  <2> QED
    BY <2>1, <2>2, <2>3, <2>4, <2>5, <2>6 DEF Next
<1> QED
  BY <1>1, RunInvariant, PTL DEF Spec, OnlyLocked

=============================================================================
