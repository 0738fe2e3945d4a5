-------------------------- MODULE NoStopRunProofs ---------------------------
(***************************************************************************)
(* The readout without stops ends only when it was asked to or when an     *)
(* event has no QDC data, keeps its file in step with FERS, puts one trigger in a line without error mark,  *)
(* and adds a fake event only for a gate all modules counted, for any      *)
(* number of QDCs, width of their counters, runs, triggers and gates.      *)
(***************************************************************************)
EXTENDS NoStopRun, TLAPS

-----------------------------------------------------------------------------
(* Requests to stop.                                                       *)

(* From the end of the semaphore's constructor on, a raised semaphore or   *)
(* abort_run is a request made to this run; an event is only read while    *)
(* its trigger is locked.                                                  *)
AskInv == /\ sem \in Int
          /\ Alive /\ abort_run => asked
          /\ Started \/ pc = "init" => sem = 0 \/ asked
          /\ pc \in {"count", "data"} => locked
          /\ pc = "end" /\ ~asked => empty /\ locked

LEMMA AskInit == RunInit => AskInv
BY DEF RunInit, Init, AskInv, Alive, Started

(* What the readout does.                                                  *)
LEMMA AskReadout == ASSUME AskInv, Readout PROVE AskInv'
<1>1. CASE SemGet
  BY <1>1 DEF SemGet, AskInv, Alive, Started, flags
<1>2. CASE SemZero
  BY <1>2 DEF SemZero, AskInv, Alive, Started, flags
<1>3. CASE Event /\ UNCHANGED control
  <2>1. UNCHANGED <<abort_run, sem, asked>>
    BY <1>3 DEF Event, Begin, Loop, Count, ReadCounter, ReadData, Blocks, NoBlocks, Write, Reset,
                Unlock, Rest, flags, control
  <2>2. pc \in {"init"} \/ Started
    BY <1>3 DEF Event, Begin, Loop, Count, ReadData, Write, Reset, Unlock, Started
  <2>3. Alive /\ (pc' = "end" /\ ~asked => (abort_run \/ (empty' /\ locked')))
    <3>1. CASE ReadData
      BY <3>1 DEF ReadData, Blocks, NoBlocks, Goto, Alive, AskInv, trigger
    <3>2. CASE Event /\ ~ReadData
      BY <2>2, <3>2 DEF Event, Begin, Loop, Count, ReadCounter, Write, Reset, Unlock, Goto,
                        Started, Alive
    <3> QED
      BY <1>3, <3>1, <3>2
  <2>4. pc' \in {"count", "data"} => locked'
    BY <1>3 DEF Event, Begin, Loop, Count, ReadCounter, ReadData, Blocks, NoBlocks, Write, Reset,
                Unlock, Goto, Rest, trigger, AskInv
  <2> QED
    BY <2>1, <2>2, <2>3, <2>4 DEF AskInv, Alive
<1>4. CASE TestEnd(sem) /\ UNCHANGED control
  BY <1>4 DEF TestEnd, Goto, Rest, flags, control, AskInv, Alive, Started
<1>5. CASE Close /\ sem' = -1 /\ held' = FALSE /\ UNCHANGED <<script, asked, runs>>
  BY <1>5 DEF Close, Goto, Rest, flags, AskInv, Alive, Started
<1> QED
  BY <1>1, <1>2, <1>3, <1>4, <1>5 DEF Readout, Step

(* What is done to it.                                                     *)
LEMMA AskOthers == ASSUME AskInv, [Next]_vars, ~Readout PROVE AskInv'
<1> USE DEF trigger, outside
<1>1. CASE RunScript
  BY <1>1 DEF RunScript, AskInv, Alive, Started
<1>2. CASE StopScript \/ SpillSeen \/ ScriptEnds
  BY <1>2 DEF StopScript, SpillSeen, ScriptEnds, AskInv, Alive, Started, readout, program, flags
<1>3. CASE Raise
  BY <1>3 DEF Raise, AskInv, Alive, Started, readout, program, flags
<1>4. CASE CheckAgain \/ CtrlC
  BY <1>4 DEF CheckAgain, CtrlC, Signalled, AskInv, Alive, Started
<1>5. CASE Kill
  BY <1>5 DEF Kill, AskInv, Alive, Started, flags
<1>6. CASE (Hardware \/ SpillToggle \/ Pause) /\ UNCHANGED control
  BY <1>6 DEF Hardware, Trigger, Spurious, SpillToggle, Pause, AskInv, Alive, Started,
              program, flags, control
<1>7. CASE UNCHANGED vars
  BY <1>7 DEF vars, readout, program, flags, control, AskInv, Alive, Started
<1> QED
  BY <1>1, <1>2, <1>3, <1>4, <1>5, <1>6, <1>7 DEF Next, Script

(* EndsOnlyIfAsked: a run only ends because it was asked to while it was   *)
(* running, whatever a killed run has left in the semaphore (daqSem.h:49,  *)
(* myReadOutNoStopV2718.cpp:648), or because an event came without any     *)
(* QDC data, whose trigger is then still locked (line 566).                *)
THEOREM EndsAsked == Spec => []EndsOnlyIfAsked
<1>1. AskInv /\ [Next]_vars => AskInv'
  BY AskReadout, AskOthers
<1>2. AskInv => EndsOnlyIfAsked
  BY DEF AskInv, EndsOnlyIfAsked
<1> QED
  BY <1>1, <1>2, AskInit, PTL DEF Spec

-----------------------------------------------------------------------------
(* Types.                                                                  *)

LEMMA NoneTyped == None \in [Modules -> Nat] /\ None \in [Modules -> Int] /\ 0 \in Modules
BY ReadoutAssumption DEF None, Modules

(* A gate that reaches the modules ms.                                     *)
LEMMA GateTyped ==
  ASSUME ReadoutTypeOK, NEW ms, NEW id \in Nat, Gate(ms, id)
  PROVE  seen' \in [Modules -> Nat] /\ ofs' \in Nat /\ stored' \in [Modules -> Seq(Nat)]
<1>1. \A m \in Modules : seen[m] \in Nat /\ stored[m] \in Seq(Nat)
  BY Zenon DEF ReadoutTypeOK
<1>2. \A m \in Modules : Append(stored[m], id) \in Seq(Nat)
  BY <1>1
<1>3. ofs \in Nat
  BY DEF ReadoutTypeOK
<1> QED
  BY <1>1, <1>2, <1>3 DEF Gate

LEMMA HardwareTyped ==
  ASSUME ReadoutTypeOK, Hardware \/ SpillToggle \/ Pause PROVE ReadoutTypeOK'
<1> USE DEF program, flags, trigger, modules, outside
<1>1. CASE Trigger
  <2>1. PICK miss \in SUBSET Deaf : Gate(Modules \ miss, fers + 1)
    BY <1>1 DEF Trigger
  <2>2. fers + 1 \in Nat
    BY DEF ReadoutTypeOK
  <2>3. seen' \in [Modules -> Nat] /\ ofs' \in Nat /\ stored' \in [Modules -> Seq(Nat)]
    BY <2>1, <2>2, GateTyped
  <2> QED
    BY <1>1, <2>2, <2>3 DEF Trigger, ReadoutTypeOK
<1>2. CASE Spurious
  <2>1. PICK ms \in Extra : /\ Gate(ms, IF ms = Modules THEN fers + 1 ELSE 0)
                            /\ fers' = IF ms = Modules THEN fers + 1 ELSE fers
                            /\ clean' = (clean /\ Foreseen(ms))
    BY <1>2 DEF Spurious
  <2> DEFINE id == IF ms = Modules THEN fers + 1 ELSE 0
  <2>2. seen' \in [Modules -> Nat] /\ ofs' \in Nat /\ stored' \in [Modules -> Seq(Nat)]
    <3>1. id \in Nat /\ Gate(ms, id)
      BY <2>1 DEF ReadoutTypeOK
    <3> HIDE DEF id
    <3> QED
      BY <3>1, GateTyped
  <2>3. Foreseen(ms) \in BOOLEAN
    BY DEF Foreseen
  <2>4. clean' \in BOOLEAN /\ fers' \in Nat /\ noise' \in Nat /\ extra' \in Nat
    BY <1>2, <2>1, <2>3 DEF Spurious, ReadoutTypeOK
  <2> QED
    BY <1>2, <2>2, <2>4 DEF Spurious, ReadoutTypeOK
<1>3. CASE SpillToggle \/ Pause
  BY <1>3 DEF SpillToggle, Pause, ReadoutTypeOK
<1> QED
  BY <1>1, <1>2, <1>3 DEF Hardware

(* What the readout computes.                                              *)
LEMMA EventTyped == ASSUME ReadoutTypeOK, Event PROVE ReadoutTypeOK'
<1> USE DEF Goto, Rest, flags, trigger, modules, outside, PC
<1>1. CASE Begin
  <2>1. [m \in Modules |-> <<>>] \in [Modules -> Seq(Nat)]
    OBVIOUS
  <2> QED
    BY <1>1, <2>1, NoneTyped DEF Begin, ReadoutTypeOK
<1>2. CASE Loop
  BY <1>2 DEF Loop, ReadoutTypeOK
<1>3. CASE Count
  <2>1. CASE j # TDC /\ abort_run
    BY <1>3, <2>1, NoneTyped DEF Count, Forget, ReadoutTypeOK
  <2>2. CASE ReadCounter
    <3>1. j \in Modules /\ nev \in [Modules -> Int] /\ ofs \in Nat /\ seen[j] \in Nat
      BY DEF ReadoutTypeOK
    <3>2. Counter(j) \in Int
      BY <3>1, ReadoutAssumption DEF Counter
    <3>3. j' \in Modules /\ pc' \in PC /\ nev' \in [Modules -> Int]
      BY <1>3, <2>2, <3>1, <3>2, ReadoutAssumption DEF ReadCounter, Count, Modules, TDC
    <3> QED
      BY <2>2, <3>3 DEF ReadCounter, ReadoutTypeOK
  <2> QED
    BY <1>3, <2>1, <2>2 DEF Count
<1>4. CASE ReadData
  <2>1. CASE NoBlocks
    BY <2>1, NoneTyped DEF NoBlocks, Forget, ReadoutTypeOK
  <2>2. ASSUME NEW failed, Blocks(failed) PROVE ReadoutTypeOK'
    <3>1. ASSUME NEW m \in Modules
          PROVE  /\ stored[m] \in Seq(Nat)
                 /\ stored[m] # <<>> => Head(stored[m]) \in Nat /\ Tail(stored[m]) \in Seq(Nat)
      <4>1. stored[m] \in Seq(Nat)
        BY Zenon DEF ReadoutTypeOK
      <4> QED
        BY <4>1
    <3>2. data' \in [Modules -> Nat] /\ stored' \in [Modules -> Seq(Nat)]
      BY <2>2, <3>1 DEF Blocks
    <3>3. retcode' \in {"0", "error", "0xff"} /\ marked' \in BOOLEAN /\ veto' \in BOOLEAN
      BY <2>2 DEF Blocks, Retcode, ReadoutTypeOK
    <3> QED
      BY <2>2, <3>2, <3>3 DEF Blocks, ReadoutTypeOK
  <2> QED
    BY <1>4, <2>1, <2>2 DEF ReadData
<1>5. CASE Write
  <2>1. lines' \in Nat /\ trignum' \in Nat /\ pc' \in PC
    BY <1>5 DEF Write, ReadoutTypeOK
  <2> QED
    BY <1>5, <2>1, NoneTyped DEF Write, Forget, ReadoutTypeOK
<1>6. CASE Reset
  <2>1. seen' \in [Modules -> Nat]
    BY <1>6 DEF Reset, ReadoutTypeOK
  <2>2. stored' \in [Modules -> Seq(Nat)]
    <3>1. <<>> \in Seq(Nat)
      OBVIOUS
    <3> QED
      BY <1>6, <3>1, Zenon DEF Reset, ReadoutTypeOK
  <2>3. j' \in Modules
    <3>1. j \in Modules
      BY DEF ReadoutTypeOK
    <3>2. j' = IF j # TDC THEN j + 1 ELSE 0
      BY <1>6 DEF Reset
    <3> QED
      BY <3>1, <3>2, ReadoutAssumption DEF Modules, TDC
  <2>4. pc' \in PC /\ ofs' \in Nat /\ numevofs' \in Nat /\ veto' \in BOOLEAN
    BY <1>6 DEF Reset, ReadoutTypeOK
  <2> QED
    BY <1>6, <2>1, <2>2, <2>3, <2>4 DEF Reset, ReadoutTypeOK
<1>7. CASE Unlock
  BY <1>7 DEF Unlock, ReadoutTypeOK
<1> QED
  BY <1>1, <1>2, <1>3, <1>4, <1>5, <1>6, <1>7 DEF Event

(* The semaphore is raised by one script at a time, and a script that has  *)
(* raised it stays until the run is over.                                  *)
RaiseInv ==
  /\ runs \in 0..MaxRuns /\ sem \in Int /\ -1 <= sem
  /\ script \in {"idle", "spill", "raise", "check", "interrupted"}
  /\ Alive => runs >= 1
  /\ script \in {"spill", "raise"} => sem < runs /\ runs >= 1
  /\ script \in {"check", "interrupted"} => sem <= runs
  /\ script = "idle" => IF Alive THEN sem < runs ELSE sem <= runs

LEMMA RaiseStep == ASSUME RaiseInv, [Next]_vars PROVE RaiseInv'
<1> USE RunsAssumption DEF RaiseInv, Alive
<1>1. CASE SemGet \/ SemZero
  BY <1>1 DEF SemGet, SemZero
<1>2. CASE Step
  <2>1. CASE Event /\ UNCHANGED control
    <3>1. Alive /\ Alive'
      BY <2>1 DEF Event, Begin, Loop, Count, ReadCounter, ReadData, Blocks, NoBlocks, Write, Reset, Unlock, Goto
    <3> QED
      BY <2>1, <3>1 DEF control
  <2>2. CASE TestEnd(sem) /\ UNCHANGED control
    BY <2>2 DEF TestEnd, Goto, control
  <2>3. CASE Close /\ sem' = -1 /\ held' = FALSE /\ UNCHANGED <<script, asked, runs>>
    BY <2>3 DEF Close, Goto
  <2> QED
    BY <1>2, <2>1, <2>2, <2>3 DEF Step
<1>3. CASE RunScript
  BY <1>3 DEF RunScript
<1>4. CASE StopScript \/ SpillSeen \/ Raise \/ ScriptEnds
  BY <1>4 DEF StopScript, SpillSeen, Raise, ScriptEnds, ScriptGoes, readout, program
<1>5. CASE CheckAgain \/ CtrlC
  BY <1>5 DEF CheckAgain, CtrlC, Signalled
<1>6. CASE Kill
  BY <1>6 DEF Kill
<1>7. CASE (Hardware \/ SpillToggle \/ Pause) /\ UNCHANGED control
  BY <1>7 DEF Hardware, Trigger, Spurious, SpillToggle, Pause, program, control
<1>8. CASE UNCHANGED vars
  BY <1>8 DEF vars, readout, program, control
<1> QED
  BY <1>1, <1>2, <1>3, <1>4, <1>5, <1>6, <1>7, <1>8 DEF Next, Readout, Script

LEMMA ReadoutTyped == ASSUME ReadoutTypeOK, [Next]_vars PROVE ReadoutTypeOK'
<1> USE DEF flags, trigger, modules, outside, PC
<1>1. CASE Step
  <2>1. CASE TestEnd(sem)
    BY <2>1 DEF TestEnd, Goto, Rest, ReadoutTypeOK
  <2>2. CASE Close
    BY <2>2, NoneTyped DEF Close, Goto, Rest, Vanish, Forget, ReadoutTypeOK
  <2> QED
    BY <1>1, <2>1, <2>2, EventTyped DEF Step
<1>2. CASE SemGet \/ SemZero \/ RunScript
  <2>1. pc' \in PC
    BY <1>2 DEF SemGet, SemZero, RunScript
  <2>2. pause_run' \in BOOLEAN /\ abort_run' \in BOOLEAN
    BY <1>2, Zenon DEF SemGet, SemZero, RunScript, ReadoutTypeOK
  <2>3. UNCHANGED <<trignum, numevofs, running, j, nev, retcode, marked, data, lines,
                    trigger, modules, outside>>
    BY <1>2 DEF SemGet, SemZero, RunScript
  <2> QED
    BY <2>1, <2>2, <2>3 DEF ReadoutTypeOK
<1>3. CASE StopScript \/ SpillSeen \/ Raise \/ ScriptEnds \/ UNCHANGED vars
  BY <1>3 DEF StopScript, SpillSeen, Raise, ScriptEnds, vars, readout, program, ReadoutTypeOK
<1>4. CASE CheckAgain \/ CtrlC
  <2>1. pc' \in PC
    BY <1>4 DEF CheckAgain, CtrlC, Signalled, ReadoutTypeOK
  <2>2. abort_run' \in BOOLEAN
    BY <1>4, Zenon DEF CheckAgain, CtrlC, Signalled, ReadoutTypeOK
  <2>3. UNCHANGED <<trignum, numevofs, running, j, nev, retcode, marked, data, lines, pause_run,
                    trigger, modules, outside>>
    BY <1>4 DEF CheckAgain, CtrlC
  <2> QED
    BY <2>1, <2>2, <2>3 DEF ReadoutTypeOK
<1>5. CASE Kill
  BY <1>5, NoneTyped DEF Kill, Vanish, Forget, ReadoutTypeOK
<1> QED
  BY <1>1, <1>2, <1>3, <1>4, <1>5, HardwareTyped DEF Next, Readout, Script

ScriptBits == held \in BOOLEAN /\ asked \in BOOLEAN

LEMMA BitsStep == ASSUME ScriptBits, [Next]_vars PROVE ScriptBits'
<1> USE DEF ScriptBits, control
<1>1. CASE Readout
  BY <1>1, Zenon DEF Readout, SemGet, SemZero, Step
<1>2. CASE RunScript \/ Script \/ CtrlC \/ Kill
  BY <1>2, Zenon DEF RunScript, Script, SpillSeen, Raise, CheckAgain, ScriptEnds, CtrlC, Kill
<1>3. CASE StopScript
  <2>1. held' = (sem # -1) /\ UNCHANGED asked
    BY <1>3 DEF StopScript
  <2> QED
    BY <2>1
<1>4. CASE (Hardware \/ SpillToggle \/ Pause) /\ UNCHANGED control
  BY <1>4
<1> QED
  BY <1>1, <1>2, <1>3, <1>4 DEF Next, vars

LEMMA TypeStart == RunInit => ReadoutTypeOK /\ RaiseInv /\ ScriptBits
<1>1. [m \in Modules |-> <<>>] \in [Modules -> Seq(Nat)]
  OBVIOUS
<1> QED
  BY <1>1, NoneTyped, RunsAssumption DEF RunInit, Init, ReadoutTypeOK, PC, RaiseInv,
                                           Alive, ScriptBits

(* Types, for any number of QDCs, counter width, triggers and runs; and    *)
(* the semaphore has never been raised more often than runs were begun,    *)
(* however many stop scripts, interrupts and kills there were.             *)
THEOREM NoStopTypeCorrect == Spec => []TypeOK
<1> DEFINE Inv == ReadoutTypeOK /\ RaiseInv /\ ScriptBits
<1>1. Inv /\ [Next]_vars => Inv'
  BY ReadoutTyped, RaiseStep, BitsStep
<1>2. Inv => TypeOK
  <2>1. RaiseInv => sem \in -1..runs /\ runs \in 0..MaxRuns
    BY RunsAssumption DEF RaiseInv, Alive
  <2> QED
    BY <2>1 DEF RaiseInv, ScriptBits, TypeOK
<1> QED
  BY <1>1, <1>2, TypeStart, PTL DEF Spec

-----------------------------------------------------------------------------
(* Alignment.                                                              *)

USE ReadoutAssumption DEF QDCs, TDC, Modules

Types == /\ pc \in PC /\ marked \in BOOLEAN /\ locked \in BOOLEAN
         /\ clean \in BOOLEAN /\ retcode \in {"0", "error", "0xff"}
         /\ trignum \in Nat /\ lines \in Nat /\ ofs \in Nat /\ fers \in Nat /\ extra \in Nat
         /\ j \in Modules /\ nev \in [Modules -> Int] /\ seen \in [Modules -> Nat]

(* Lines that are still to be written for the trigger in the latch.        *)
Due == IF ~locked \/ pc \in {"reset", "unlock"} THEN 0
       ELSE IF pc = "write" /\ retcode = "0xff" THEN 2 ELSE 1

(* The counters are about to be reset.                                     *)
Discarded == pc = "reset" \/ (pc = "write" /\ marked)

(* QDC 0 and the TDC have seen one gate per line since the reset, those    *)
(* that are due and the spurious one included, and the spurious one came   *)
(* early enough to leave room for one more trigger.                        *)
CountersFit ==
  /\ seen[0] = (trignum - ofs) + extra + Due /\ seen[TDC] = seen[0]
  /\ extra = 1 => seen[0] < W \/ (seen[0] = W /\ Due = 1 /\ pc # "write")

Aligned ==
  /\ lines = trignum /\ ofs <= trignum /\ extra <= 1
  /\ fers = trignum + extra + Due
  /\ pc \in {"count", "data", "write", "reset", "unlock"} => locked
  /\ pc = "write" /\ retcode = "0xff" => marked
  /\ IF Discarded THEN veto /\ extra = 0 ELSE CountersFit
  /\ pc = "reset" /\ j # 0 => seen[0] = 0
  /\ pc = "count" /\ j # 0 => nev[0] = Counter(0)
  /\ pc = "data" => nev[0] = Counter(0) /\ nev[TDC] = Counter(TDC)

AlignInv == /\ Types
            /\ ~Started => trignum = 0 /\ lines = 0
            /\ pc \in {"count", "data", "write", "reset"} \/ j = 0
            /\ Started /\ clean => Aligned

LEMMA Residue == \A x \in Nat : /\ x % W \in Nat /\ x % W <= x
                                /\ x < W => x % W = x
OBVIOUS

LEMMA NoneAtAll == /\ None \in [Modules -> Nat] /\ None \in [Modules -> Int]
                   /\ 0 \in Modules /\ TDC \in Modules /\ None[0] = 0 /\ None[TDC] = 0
BY DEF None

LEMMA AlignStart == RunInit => AlignInv
<1> SUFFICES ASSUME RunInit PROVE AlignInv
  OBVIOUS
<1>1. pc = "out" /\ j = 0 /\ trignum = 0 /\ lines = 0
  BY DEF RunInit, Init
<1>2. Types
  BY NoneAtAll DEF RunInit, Init, Types, PC
<1> QED
  BY <1>1, <1>2 DEF AlignInv, Started

(* The hardware.                                                           *)
LEMMA TriggerStep ==
  ASSUME AlignInv, Deaf \cap {0, TDC} = {}, Trigger PROVE AlignInv'
<1>1. PICK miss \in SUBSET Deaf : Gate(Modules \ miss, fers + 1)
  BY DEF Trigger
<1>2. /\ UNCHANGED <<pc, trignum, j, nev, retcode, marked, lines, ofs, veto, extra, clean>>
      /\ locked' = TRUE /\ ~locked /\ fers' = fers + 1 /\ Started
  BY <1>1 DEF Trigger, Gate, program, Modules
<1>3. /\ seen' \in [Modules -> Nat]
      /\ seen'[0] = seen[0] + 1 /\ seen'[TDC] = seen[TDC] + 1
  BY <1>1 DEF Gate, AlignInv, Types
<1>4. Types'
  BY <1>2, <1>3 DEF AlignInv, Types
<1>5. ASSUME clean PROVE Aligned'
  <2>1. Aligned /\ pc \in {"loop", "test", "end"}
    BY <1>2, <1>5 DEF AlignInv, Aligned, Started
  <2> QED
    BY <2>1, <1>2, <1>3, <1>4 DEF AlignInv, Types, Aligned, Due, Discarded, CountersFit
<1> QED
  BY <1>2, <1>4, <1>5 DEF AlignInv, Started

LEMMA SpuriousStep == ASSUME AlignInv, Spurious PROVE AlignInv'
<1>1. PICK ms \in Extra : /\ Gate(ms, IF ms = Modules THEN fers + 1 ELSE 0)
                          /\ fers' = IF ms = Modules THEN fers + 1 ELSE fers
                          /\ clean' = (clean /\ Foreseen(ms))
  BY DEF Spurious
<1>2. /\ UNCHANGED <<pc, trignum, j, nev, retcode, marked, lines, ofs, veto, locked>>
      /\ extra' = extra + 1 /\ Started
  BY <1>1 DEF Spurious, Gate, program, trigger
<1>3. /\ seen' \in [Modules -> Nat]
      /\ ms = Modules => seen'[0] = seen[0] + 1 /\ seen'[TDC] = seen[TDC] + 1
  BY <1>1 DEF Gate, AlignInv, Types
<1>4. Types'
  BY <1>1, <1>2, <1>3 DEF AlignInv, Types
<1>5. ASSUME clean' PROVE Aligned'
  <2>1. Aligned /\ ms = Modules /\ extra = 0 /\ seen[0] + 2 <= W /\ ~veto
    <3>1. Foreseen(ms) /\ clean
      BY <1>1, <1>5
    <3> QED
      BY <3>1, <1>2, NoneAtAll DEF Foreseen, AlignInv
  <2>2. pc # "data" /\ (pc = "count" => j = 0)
    BY <1>1, <1>5 DEF Foreseen
  <2>3. ~Discarded /\ ~Discarded' /\ Due' = Due /\ pc # "reset"
    BY <2>1, <1>2 DEF Aligned, Discarded, Due
  <2>4. Due \in {0, 1, 2}
    BY DEF Due
  <2> QED
    BY <2>1, <2>2, <2>3, <2>4, <1>1, <1>2, <1>3 DEF AlignInv, Types, Aligned, CountersFit
<1> QED
  BY <1>2, <1>4, <1>5 DEF AlignInv, Started

-----------------------------------------------------------------------------
(* The readout.                                                            *)
LEMMA BeginStep == ASSUME AlignInv, Begin PROVE AlignInv'
<1>1. /\ UNCHANGED <<trignum, lines, j, nev, retcode, marked>>
      /\ pc = "init" /\ pc' = "loop" /\ locked' = FALSE
      /\ seen' = None /\ ofs' = 0 /\ fers' = 0 /\ extra' = 0 /\ clean' = TRUE
  BY DEF Begin, Goto
<1>2. Types'
  BY <1>1, NoneAtAll DEF AlignInv, Types, PC
<1>3. Aligned'
  BY <1>1, NoneAtAll DEF AlignInv, Started, Aligned, Due, Discarded, CountersFit
<1> QED
  BY <1>1, <1>2, <1>3 DEF AlignInv, Started

LEMMA LoopStep == ASSUME AlignInv, Loop PROVE AlignInv'
<1>1. /\ UNCHANGED <<trignum, j, nev, retcode, marked, lines, locked, seen, ofs, fers, extra, clean>>
      /\ pc = "loop" /\ pc' \in {"count", "test"} /\ (pc' = "count" => locked /\ j' = 0)
  BY DEF Loop, Goto, Rest, modules, outside, AlignInv, Types
<1>2. Types'
  BY <1>1 DEF AlignInv, Types, PC
<1>3. ASSUME clean PROVE Aligned'
  <2>1. Aligned
    BY <1>1, <1>3 DEF AlignInv, Started
  <2> QED
    BY <1>1, <2>1 DEF Aligned, Due, Discarded, CountersFit
<1> QED
  BY <1>1, <1>2, <1>3 DEF AlignInv, Started

LEMMA CountStep == ASSUME AlignInv, Count PROVE AlignInv'
<1>1. UNCHANGED <<trignum, lines, veto, locked, seen, ofs, fers, extra, clean>> /\ pc = "count"
  BY DEF Count, ReadCounter, Rest, trigger, modules, outside
<1>2. CASE pc' = "end" /\ Forget
  <2>1. /\ nev' = None /\ retcode' = "0" /\ marked' = FALSE /\ j' = 0
    BY <1>2 DEF Forget
  <2>2. Types'
    BY <1>1, <1>2, <2>1, NoneAtAll DEF AlignInv, Types, PC
  <2>3. ASSUME clean PROVE Aligned'
    <3>1. Aligned
      BY <1>1, <2>3 DEF AlignInv, Started
    <3> QED
      BY <1>1, <1>2, <2>1, <3>1 DEF Aligned, Due, Discarded, CountersFit
  <2> QED
    BY <1>1, <1>2, <2>1, <2>2, <2>3 DEF AlignInv, Started
<1>3. CASE ReadCounter
  <2>1. UNCHANGED <<retcode, marked>> /\ nev' = [nev EXCEPT ![j] = Counter(j)]
    BY <1>3 DEF ReadCounter, Rest
  <2>2. Counter(j) \in Int
    BY DEF Counter, AlignInv, Types
  <2>3. IF j = TDC THEN pc' = "data" /\ j' = j ELSE pc' = "count" /\ j' = j + 1
    BY <1>1, <1>3 DEF ReadCounter, Goto
  <2>4. Types'
    BY <1>1, <2>1, <2>2, <2>3 DEF AlignInv, Types, PC
  <2>5. ASSUME clean PROVE Aligned'
    <3>1. Aligned
      BY <1>1, <2>5 DEF AlignInv, Started
    <3>2. Counter(0)' = Counter(0) /\ Counter(TDC)' = Counter(TDC)
      BY <1>1 DEF Counter
    <3>3. /\ nev'[0] = Counter(0)
          /\ pc' = "data" => nev'[TDC] = Counter(TDC)
      BY <1>1, <2>1, <2>3, <3>1 DEF AlignInv, Types, Aligned
    <3> QED
      BY <1>1, <2>1, <2>3, <3>1, <3>2, <3>3 DEF Aligned, Due, Discarded, CountersFit
  <2> QED
    BY <1>1, <2>3, <2>4, <2>5 DEF AlignInv, Started
<1> QED
  BY <1>2, <1>3 DEF Count, Goto

(* What the comparison finds: 0xff when there was a spurious gate, and an  *)
(* event without a mark has no spurious gate.                              *)
LEMMA Compared ==
  ASSUME AlignInv, clean, pc = "data"
  PROVE  /\ extra = 1 <=> Retcode = "0xff"
         /\ Retcode = "0" => extra = 0
<1>1. /\ Aligned /\ locked /\ ~Discarded /\ Due = 1
  BY DEF AlignInv, Aligned, Started, Discarded, Due
<1>2. /\ nev[0] = ofs + ((seen[0] - 1) % W) /\ nev[TDC] = nev[0]
      /\ seen[0] = (trignum - ofs) + extra + 1 /\ extra \in {0, 1}
      /\ extra = 1 => seen[0] <= W
  BY <1>1 DEF Aligned, CountersFit, Counter, AlignInv, Types
<1>3. (seen[0] - 1) % W <= seen[0] - 1 /\ (seen[0] <= W => (seen[0] - 1) % W = seen[0] - 1)
  <2>1. seen[0] - 1 \in Nat /\ (seen[0] <= W => seen[0] - 1 < W)
    BY <1>1, <1>2 DEF AlignInv, Types, Aligned
  <2> QED
    BY <2>1, Residue
<1>4. extra = 1 => nev[0] = trignum + 1
  BY <1>2, <1>3 DEF AlignInv, Types
<1>5. extra = 0 => nev[0] # trignum + 1
  BY <1>2, <1>3, Residue DEF AlignInv, Types
<1> QED
  BY <1>2, <1>4, <1>5 DEF Retcode, AllDiffer, SomeDiffer, AlignInv, Types

(* Over with an event without data: nothing has been counted as read.      *)
LEMMA EmptyStep == ASSUME AlignInv, pc = "data", NoBlocks PROVE AlignInv'
<1>1. /\ UNCHANGED <<trignum, lines, veto, locked, seen, ofs, fers, extra, clean>>
      /\ pc' = "end" /\ nev' = None /\ retcode' = "0" /\ marked' = FALSE /\ j' = 0
  BY DEF NoBlocks, Goto, Forget, trigger, modules
<1>2. Types'
  BY <1>1, NoneAtAll DEF AlignInv, Types, PC
<1>3. ASSUME clean PROVE Aligned'
  <2>1. Aligned
    BY <1>3 DEF AlignInv, Started
  <2> QED
    BY <1>1, <2>1 DEF Aligned, Due, Discarded, CountersFit
<1> QED
  BY <1>1, <1>2, <1>3 DEF AlignInv, Started

LEMMA ReadDataStep == ASSUME AlignInv, ReadData PROVE AlignInv'
<1>1. pc = "data"
  BY DEF ReadData
<1>2. SUFFICES ASSUME NEW failed, Blocks(failed) PROVE AlignInv'
  BY <1>1, EmptyStep DEF ReadData
<1>3. /\ UNCHANGED <<trignum, lines, j, nev, locked, seen, ofs, fers, clean>>
      /\ pc' = "write" /\ extra' = 0 /\ marked' \in BOOLEAN /\ (retcode' # "0" => marked')
      /\ retcode' \in {"0", "error", "0xff"}
      /\ (retcode' = "0xff" <=> Retcode = "0xff") /\ (retcode' = "0" => Retcode = "0")
      /\ veto' = (marked' \/ veto)
  BY <1>2 DEF Blocks, Goto, Retcode
<1>4. Types'
  BY <1>3 DEF AlignInv, Types, PC
<1>5. ASSUME clean PROVE Aligned'
  <2>1. /\ Aligned /\ locked /\ ~Discarded /\ Due = 1
    BY <1>1, <1>5 DEF AlignInv, Aligned, Started, Discarded, Due
  <2>2. Due' = extra + 1
    BY <1>1, <1>3, <1>5, <2>1, Compared DEF Due, Aligned, AlignInv, Types
  <2>3. ~marked' => extra = 0
    BY <1>1, <1>3, <1>5, Compared
  <2> QED
    BY <1>1, <1>3, <2>1, <2>2, <2>3 DEF Aligned, Discarded, CountersFit, AlignInv, Types
<1> QED
  BY <1>1, <1>3, <1>4, <1>5 DEF AlignInv, Started

LEMMA WriteStep == ASSUME AlignInv, Write PROVE AlignInv'
<1> DEFINE n == IF retcode = "0xff" THEN 2 ELSE 1
<1>1. /\ UNCHANGED <<veto, locked, seen, ofs, fers, extra, clean>>
      /\ pc = "write" /\ pc' = IF marked THEN "reset" ELSE "unlock"
      /\ lines' = lines + n /\ trignum' = trignum + n
      /\ nev' = None /\ retcode' = "0" /\ marked' = FALSE /\ j' = 0
  BY DEF Write, Goto, Rest, Forget, trigger, modules, outside
<1>2. Types'
  <2>1. lines' \in Nat /\ trignum' \in Nat /\ pc' \in PC
    BY <1>1 DEF AlignInv, Types, PC
  <2> QED
    BY <1>1, <2>1, NoneAtAll DEF AlignInv, Types
<1>3. ASSUME clean PROVE Aligned'
  <2>1. Aligned /\ locked /\ Due = n
    BY <1>1, <1>3 DEF AlignInv, Aligned, Started, Due
  <2>2. Due' = 0 /\ pc' \in {"reset", "unlock"}
    BY <1>1 DEF Due
  <2>3. ~marked => CountersFit'
    BY <1>1, <2>1, <2>2 DEF Aligned, CountersFit, Discarded, AlignInv, Types
  <2> QED
    BY <1>1, <2>1, <2>2, <2>3 DEF Aligned, Discarded, AlignInv, Types
<1> QED
  BY <1>1, <1>2, <1>3 DEF AlignInv, Started

LEMMA ResetStep == ASSUME AlignInv, Reset PROVE AlignInv'
<1>1. /\ UNCHANGED <<trignum, lines, nev, retcode, marked, locked, fers, extra, clean>>
      /\ pc = "reset" /\ seen' = [seen EXCEPT ![j] = 0]
      /\ IF j # TDC THEN j' = j + 1 /\ UNCHANGED <<pc, ofs, veto>>
                    ELSE j' = 0 /\ ofs' = trignum /\ pc' = "unlock"
  BY DEF Reset, Goto, Rest, outside
<1>2. Types'
  <2>1. j' \in Modules
    BY <1>1 DEF AlignInv, Types
  <2> QED
    BY <1>1, <2>1 DEF AlignInv, Types, PC
<1>3. ASSUME clean PROVE Aligned'
  <2>1. Aligned
    BY <1>1, <1>3 DEF AlignInv, Started
  <2>2. /\ seen'[j] = 0 /\ (j # 0 => seen'[0] = 0)
    BY <1>1, <2>1, NoneAtAll DEF AlignInv, Types, Aligned
  <2>3. veto /\ extra = 0 /\ locked /\ Due = 0 /\ fers = trignum /\ lines = trignum
    BY <1>1, <2>1 DEF Aligned, Discarded, Due, AlignInv, Types
  <2>4. CASE j # TDC
    BY <1>1, <2>1, <2>2, <2>3, <2>4 DEF Aligned, Discarded, Due, Counter
  <2>5. CASE j = TDC
    <3>1. seen'[0] = 0 /\ seen'[TDC] = 0 /\ pc' = "unlock" /\ ofs' = trignum /\ Due' = 0
      BY <1>1, <2>2, <2>5 DEF Due
    <3> QED
      BY <1>1, <2>1, <2>3, <2>5, <3>1 DEF Aligned, Discarded, CountersFit, AlignInv, Types
  <2> QED
    BY <2>4, <2>5
<1> QED
  BY <1>1, <1>2, <1>3 DEF AlignInv, Started

LEMMA UnlockStep == ASSUME AlignInv, Unlock PROVE AlignInv'
<1>1. /\ UNCHANGED <<trignum, lines, j, nev, retcode, marked, veto, seen, ofs, fers, extra, clean>>
      /\ pc = "unlock" /\ pc' = "test" /\ locked' = FALSE
  BY DEF Unlock, Goto, Rest, modules, outside
<1> QED
  BY <1>1 DEF AlignInv, Types, PC, Started, Aligned, Due, Discarded, CountersFit

(* Steps that leave everything but the place alone: the end of a pass, a   *)
(* new run, pauses, requests, and an end before the loop.                  *)
LEMMA PlaceStep ==
  ASSUME AlignInv, pc' \in PC,
         UNCHANGED <<trignum, lines, j, nev, retcode, marked, veto, locked, modules, outside>>,
         \/ pc' = pc
         \/ pc = "test" /\ pc' \in {"loop", "end"}
         \/ ~Started /\ pc' \in {"dead", "semget", "zero", "init"}
  PROVE  AlignInv'
BY DEF AlignInv, Types, Started, Aligned, Due, Discarded, CountersFit, Counter, modules, outside

(* The end of a run.                                                       *)
LEMMA VanishStep ==
  ASSUME AlignInv, Vanish, pc' \in {"out", "dead"},
         UNCHANGED <<locked, modules, outside>>
  PROVE  AlignInv'
BY NoneAtAll DEF Vanish, Forget, AlignInv, Types, PC, Started, modules, outside

LEMMA AlignStep ==
  ASSUME AlignInv, Deaf \cap {0, TDC} = {}, [Next]_vars PROVE AlignInv'
<1>1. CASE Event
  BY <1>1, BeginStep, LoopStep, CountStep, ReadDataStep, WriteStep, ResetStep, UnlockStep DEF Event
<1>2. CASE Hardware
  BY <1>2, TriggerStep, SpuriousStep DEF Hardware
<1>3. CASE TestEnd(sem)
  BY <1>3, PlaceStep DEF TestEnd, Goto, Rest, PC, trigger
<1>4. CASE Close
  BY <1>4, VanishStep DEF Close, Goto, Rest
<1>5. CASE Kill
  BY <1>5, VanishStep DEF Kill, trigger
<1>6. CASE SemGet \/ SemZero \/ RunScript
  BY <1>6, PlaceStep DEF SemGet, SemZero, RunScript, Alive, Started, PC, trigger
<1>7. CASE CheckAgain \/ CtrlC
  <2>1. \/ pc' = pc /\ pc' \in PC
        \/ ~Started /\ pc' = "dead"
    BY <1>7 DEF CheckAgain, CtrlC, Signalled, Started, AlignInv, Types
  <2>2. UNCHANGED <<trignum, lines, j, nev, retcode, marked, veto, locked, modules, outside>>
    BY <1>7 DEF CheckAgain, CtrlC, trigger
  <2> QED
    BY <2>1, <2>2, PlaceStep DEF PC
<1>8. CASE StopScript \/ SpillSeen \/ Raise \/ ScriptEnds \/ SpillToggle \/ Pause \/ UNCHANGED vars
  <2>1. UNCHANGED <<pc, trignum, lines, j, nev, retcode, marked, veto, locked, modules, outside>>
    BY <1>8 DEF StopScript, SpillSeen, Raise, ScriptEnds, SpillToggle, Pause, vars, readout,
                program, trigger
  <2> QED
    BY <2>1, PlaceStep DEF AlignInv, Types
<1> QED
  BY <1>1, <1>2, <1>3, <1>4, <1>5, <1>6, <1>7, <1>8 DEF Next, Readout, Step, Script

(* FersAligned: as long as QDC 0 and the TDC miss no trigger and spurious  *)
(* ones are of the foreseen kind, the line with a number is the one of the *)
(* FERS trigger with that number (myReadOutNoStopV2718.cpp:610).           *)
THEOREM KeepsStep ==
  ASSUME Deaf \cap {0, TDC} = {}
  PROVE  Spec => []FersAligned
<1>1. AlignInv /\ [Next]_vars => AlignInv'
  BY AlignStep
<1>2. AlignInv => FersAligned
  BY DEF AlignInv, Aligned, Started, FersAligned, Due
<1> QED
  BY <1>1, <1>2, AlignStart, PTL DEF Spec

-----------------------------------------------------------------------------
(* One trigger per line.                                                   *)

HIDE ReadoutAssumption DEF QDCs, TDC, Modules

(* The modules whose counters are compared.                                *)
Both == {0, TDC}

(* The trigger in the latch has not been read, its event not been taken.   *)
Pending == locked /\ pc \notin {"write", "reset", "unlock"}

(* The counter of m has been read for this event, and fits.                *)
Fits(m) == (pc = "data" \/ (pc = "count" /\ m < j)) /\ nev[m] = trignum

(* Module m holds the trigger t, as its oldest one if the counter fits.    *)
HasTrigger(m, t) == \E i \in 1..Len(stored[m]) : stored[m][i] = t /\ (Fits(m) => i = 1)

(* What m has counted since the reset is in the file or still in m, and    *)
(* what is in m is the trigger in the latch or spurious.                   *)
Accounted(m) ==
  /\ seen[m] = (trignum - ofs) + (IF pc = "write" THEN 1 ELSE 0) + Len(stored[m])
  /\ Len(stored[m]) <= noise + (IF Pending THEN 1 ELSE 0)

Paired ==
  /\ ofs <= trignum
  /\ pc \in {"count", "data", "write", "reset", "unlock"} => locked
  /\ pc = "write" /\ ~marked => retcode = "0" /\ data[0] = data[TDC] /\ data[0] # 0
  /\ ~Discarded => \A m \in Both : Accounted(m)
  /\ pc = "reset" => \A m \in Both : m < j => /\ seen[m] = Len(stored[m])
                                              /\ Len(stored[m]) <= noise
  /\ Pending => \E t \in Nat \ {0} : \A m \in Both : HasTrigger(m, t)

PairInv == /\ pc \in {"count", "data", "write", "reset"} \/ j = 0
           /\ noise <= MaxNoise
           /\ ~Started => trignum = 0
           /\ Started => Paired

LEMMA BothTyped ==
  ASSUME ReadoutTypeOK, NEW m \in Both
  PROVE  /\ m \in Modules /\ m \in Nat /\ seen[m] \in Nat /\ stored[m] \in Seq(Nat)
         /\ Len(stored[m]) \in Nat
<1>1. m \in Modules /\ m \in Nat
  BY ReadoutAssumption DEF Both, TDC, Modules
<1>2. seen[m] \in Nat /\ stored[m] \in Seq(Nat)
  BY <1>1, Zenon DEF ReadoutTypeOK
<1> QED
  BY <1>1, <1>2

LEMMA Numbers ==
  ASSUME ReadoutTypeOK
  PROVE  /\ trignum \in Nat /\ ofs \in Nat /\ noise \in Nat /\ fers \in Nat /\ j \in Nat
         /\ W \in Nat \ {0} /\ MaxNoise \in Nat /\ TDC \in Nat \ {0}
BY ReadoutAssumption DEF ReadoutTypeOK, Modules, TDC

(* A counter that is ahead by less than W does not agree.                  *)
LEMMA AheadDiffers ==
  ASSUME NEW w \in Nat \ {0}, NEW b \in Nat, NEW k \in Nat, k < w, (b + k) % w = b
  PROVE  k = 0
<1>1. b < w
  OBVIOUS
<1>2. CASE b + k < w
  <2>1. (b + k) % w = b + k
    BY <1>2
  <2> QED
    BY <2>1
<1>3. CASE b + k >= w
  <2> DEFINE r == b + k - w
  <2>1. r \in 0..(w - 1) /\ b + k = w * 1 + r
    BY <1>1, <1>3
  <2>2. (b + k) % w = r
    BY <2>1
  <2> QED
    BY <2>2
<1> QED
  BY <1>2, <1>3

(* What a gate does to one module.                                         *)
LEMMA GateOf ==
  ASSUME ReadoutTypeOK, NEW ms, NEW id \in Nat, Gate(ms, id), NEW m \in Both
  PROVE  /\ m \in ms => /\ seen'[m] = seen[m] + 1 /\ Len(stored'[m]) = Len(stored[m]) + 1
                        /\ stored'[m][Len(stored[m]) + 1] = id
         /\ m \notin ms => seen'[m] = seen[m] /\ stored'[m] = stored[m]
         /\ \A i \in 1..Len(stored[m]) : stored'[m][i] = stored[m][i]
<1>1. /\ seen'[m] = IF m \in ms THEN seen[m] + 1 ELSE seen[m]
      /\ stored'[m] = IF m \in ms THEN Append(stored[m], id) ELSE stored[m]
  BY BothTyped DEF Gate
<1>2. stored[m] \in Seq(Nat)
  BY BothTyped
<1> QED
  BY <1>1, <1>2

LEMMA PairStart == RunInit => PairInv
BY ReadoutAssumption DEF RunInit, Init, PairInv, Started

LEMMA PairTrigger ==
  ASSUME ReadoutTypeOK, PairInv, Deaf \cap Both = {}, Trigger PROVE PairInv'
<1>1. PICK miss \in SUBSET Deaf : Gate(Modules \ miss, fers + 1)
  BY DEF Trigger
<1>2. /\ UNCHANGED <<pc, trignum, j, nev, retcode, marked, data, noise>> /\ locked' = TRUE
      /\ ~locked /\ Started
  BY DEF Trigger, program
<1>3. ofs' = ofs
  BY <1>1 DEF Gate
<1>4. Paired /\ pc \in {"loop", "test", "end"}
  BY <1>2 DEF PairInv, Paired, Started
<1>5. PICK t \in Nat \ {0} : t = fers + 1
  BY Numbers
<1>6. ASSUME NEW m \in Both PROVE Accounted(m)' /\ HasTrigger(m, t)'
  <2>1. m \in Modules \ miss
    BY BothTyped
  <2>2. /\ seen'[m] = seen[m] + 1 /\ Len(stored'[m]) = Len(stored[m]) + 1
        /\ stored'[m][Len(stored[m]) + 1] = t
    BY <1>1, <1>5, <2>1, GateOf
  <2>3. Accounted(m)
    BY <1>4 DEF Paired, Discarded
  <2>4. Len(stored[m]) <= noise /\ Len(stored'[m]) <= noise' + 1
    BY <1>2, <2>2, <2>3, BothTyped, Numbers DEF Accounted, Pending
  <2>5. seen'[m] = (trignum' - ofs') + Len(stored'[m])
    <3>1. seen[m] = (trignum - ofs) + 0 + Len(stored[m])
      BY <1>4, <2>3 DEF Accounted
    <3> QED
      BY <1>2, <1>3, <2>2, <3>1, BothTyped, Numbers
  <2>6. pc' # "write" /\ Pending' /\ ~Fits(m)'
    BY <1>2, <1>4 DEF Pending, Fits, Paired
  <2>7. Accounted(m)'
    BY <1>2, <1>3, <2>4, <2>5, <2>6, Numbers, BothTyped DEF Accounted
  <2>8. Len(stored[m]) + 1 \in 1..Len(stored'[m])
    BY <2>2, BothTyped
  <2>9. HasTrigger(m, t)'
    BY <2>2, <2>6, <2>8 DEF HasTrigger
  <2> QED
    BY <2>7, <2>9
<1>7. Paired'
  <2>1. ofs' <= trignum' /\ locked' /\ pc' # "write" /\ pc' # "reset"
    BY <1>2, <1>3, <1>4 DEF Paired
  <2>2. \A m \in Both : Accounted(m)'
    BY <1>6
  <2>3. \E u \in Nat \ {0} : \A m \in Both : HasTrigger(m, u)'
    BY <1>5, <1>6
  <2> QED
    BY <2>1, <2>2, <2>3 DEF Paired
<1> QED
  BY <1>2, <1>7 DEF PairInv, Started

LEMMA PairSpurious == ASSUME ReadoutTypeOK, PairInv, Spurious PROVE PairInv'
<1>1. PICK ms \in Extra, id \in Nat : Gate(ms, id)
  BY Numbers DEF Spurious
<1>2. /\ UNCHANGED <<pc, trignum, j, nev, retcode, marked, data, locked>> /\ noise' = noise + 1
      /\ noise < MaxNoise /\ Started
  BY DEF Spurious, program, trigger
<1>3. ofs' = ofs
  BY <1>1 DEF Gate
<1>4. Paired
  BY <1>2 DEF PairInv
<1>5. ASSUME NEW m \in Both, Accounted(m) PROVE Accounted(m)'
  <2>1. \/ seen'[m] = seen[m] + 1 /\ Len(stored'[m]) = Len(stored[m]) + 1
        \/ seen'[m] = seen[m] /\ stored'[m] = stored[m]
    BY <1>1, GateOf
  <2> QED
    BY <1>2, <1>3, <1>5, <2>1, BothTyped, Numbers DEF Accounted, Pending
<1>6. ASSUME NEW m \in Both, NEW t, HasTrigger(m, t) PROVE HasTrigger(m, t)'
  <2>1. PICK i \in 1..Len(stored[m]) : stored[m][i] = t /\ (Fits(m) => i = 1)
    BY <1>6 DEF HasTrigger
  <2>2. stored'[m][i] = t /\ i \in 1..Len(stored'[m])
    BY <1>1, <2>1, GateOf, BothTyped
  <2>3. Fits(m)' = Fits(m)
    BY <1>2 DEF Fits
  <2> QED
    BY <2>1, <2>2, <2>3 DEF HasTrigger
<1>7. Discarded' = Discarded /\ Pending' = Pending
  BY <1>2 DEF Discarded, Pending
<1>8. ASSUME pc = "reset", NEW m \in Both, m < j
      PROVE  seen'[m] = Len(stored'[m]) /\ Len(stored'[m]) <= noise'
  <2>1. seen[m] = Len(stored[m]) /\ Len(stored[m]) <= noise
    BY <1>4, <1>8 DEF Paired
  <2>2. \/ seen'[m] = seen[m] + 1 /\ Len(stored'[m]) = Len(stored[m]) + 1
        \/ seen'[m] = seen[m] /\ stored'[m] = stored[m]
    BY <1>1, GateOf
  <2> QED
    BY <1>2, <2>1, <2>2, BothTyped, Numbers
<1>9. Paired'
  BY <1>2, <1>3, <1>4, <1>5, <1>6, <1>7, <1>8 DEF Paired
<1> QED
  BY <1>2, <1>9, Numbers DEF PairInv, Started

(* A step that leaves the modules, the counters read and the latch alone,  *)
(* and that neither reads nor takes an event.                              *)
LEMMA PairFrame ==
  ASSUME ReadoutTypeOK, PairInv, Started,
         UNCHANGED <<trignum, locked, seen, ofs, stored, noise>>,
         pc \in {"loop", "count", "data", "test", "end"},
         pc' \in {"loop", "count", "test", "end"},
         j' = 0, pc' = "count" => locked
  PROVE  PairInv'
<1>1. Paired /\ ~Discarded /\ ~Discarded' /\ Pending' = Pending
  BY DEF PairInv, Discarded, Pending
<1>2. ASSUME NEW m \in Both, Accounted(m) PROVE Accounted(m)'
  BY <1>1, <1>2 DEF Accounted
<1>3. ASSUME NEW m \in Both, NEW t, HasTrigger(m, t) PROVE HasTrigger(m, t)'
  <2>1. ~ Fits(m)'
    BY BothTyped DEF Fits
  <2> QED
    BY <1>3, <2>1 DEF HasTrigger
<1>4. Paired'
  BY <1>1, <1>2, <1>3 DEF Paired
<1> QED
  BY <1>4 DEF PairInv, Started

LEMMA PairBegin == ASSUME ReadoutTypeOK, PairInv, Begin PROVE PairInv'
<1>1. /\ UNCHANGED <<trignum, j>> /\ pc = "init" /\ pc' = "loop" /\ locked' = FALSE
      /\ seen' = None /\ ofs' = 0 /\ noise' = 0 /\ stored' = [m \in Modules |-> <<>>]
  BY DEF Begin, Goto
<1>2. trignum = 0 /\ j = 0
  BY <1>1 DEF PairInv, Started
<1>3. ASSUME NEW m \in Both PROVE Accounted(m)'
  <2>1. seen'[m] = 0 /\ Len(stored'[m]) = 0
    BY <1>1, BothTyped DEF None
  <2> QED
    BY <1>1, <1>2, <2>1 DEF Accounted, Pending
<1>4. Paired'
  BY <1>1, <1>2, <1>3 DEF Paired, Pending
<1> QED
  BY <1>1, <1>2, <1>4, Numbers DEF PairInv, Started

LEMMA PairLoop == ASSUME ReadoutTypeOK, PairInv, Loop PROVE PairInv'
<1>1. /\ UNCHANGED <<trignum, locked, seen, ofs, stored, noise, j>>
      /\ pc = "loop" /\ pc' \in {"count", "test"} /\ (pc' = "count" => locked)
  BY DEF Loop, Goto, Rest, modules, outside
<1>2. j' = 0
  BY <1>1 DEF PairInv
<1> QED
  BY <1>1, <1>2, PairFrame DEF Started

LEMMA PairTest == ASSUME ReadoutTypeOK, PairInv, TestEnd(sem) PROVE PairInv'
<1>1. /\ UNCHANGED <<trignum, locked, seen, ofs, stored, noise, j>>
      /\ pc = "test" /\ pc' \in {"loop", "end"}
  BY DEF TestEnd, Goto, Rest, modules, outside, trigger
<1>2. j' = 0
  BY <1>1 DEF PairInv
<1> QED
  BY <1>1, <1>2, PairFrame DEF Started

(* A counter that fits when it is read: the module holds the event of the  *)
(* trigger alone.                                                          *)
LEMMA FitsAlone ==
  ASSUME ReadoutTypeOK, MaxNoise < W, noise <= MaxNoise, NEW m \in Both, Accounted(m), Pending,
         ofs <= trignum, Len(stored[m]) # 0, Counter(m) = trignum
  PROVE  Len(stored[m]) = 1
<1> DEFINE b == trignum - ofs
           k == Len(stored[m]) - 1
<1>1. b \in Nat /\ k \in Nat /\ k < W
  BY BothTyped, Numbers DEF Accounted
<1>2. seen[m] - 1 = b + k
  BY BothTyped, Numbers DEF Accounted, Pending
<1>3. (b + k) % W = b
  <2>1. ofs + ((b + k) % W) = trignum
    BY <1>2 DEF Counter
  <2>2. (b + k) % W \in Int
    BY <1>1, Numbers
  <2> QED
    BY <2>1, <2>2, Numbers
<1> HIDE DEF b, k
<1>4. k = 0
  BY <1>1, <1>3, Numbers, AheadDiffers
<1> QED
  BY <1>4, BothTyped DEF k

LEMMA PairCount ==
  ASSUME ReadoutTypeOK, PairInv, MaxNoise < W, Count PROVE PairInv'
<1>1. pc = "count" /\ Paired /\ locked /\ Pending /\ ~Discarded
  BY DEF Count, PairInv, Paired, Started, Pending, Discarded
<1>2. CASE j # TDC /\ abort_run
  <2>1. /\ UNCHANGED <<trignum, locked, seen, ofs, stored, noise>> /\ j' = 0 /\ pc' = "end"
    BY <1>2 DEF Count, Goto, Rest, Forget, modules, outside, trigger
  <2> QED
    BY <1>1, <2>1, PairFrame DEF Started
<1>3. CASE ~(j # TDC /\ abort_run)
  <2>1. /\ UNCHANGED <<trignum, locked, seen, ofs, stored, noise, marked, retcode>>
        /\ nev' = [nev EXCEPT ![j] = Counter(j)]
        /\ \/ j = TDC /\ pc' = "data" /\ j' = j
           \/ j # TDC /\ pc' = "count" /\ j' = j + 1
    BY <1>1, <1>3 DEF Count, ReadCounter, Goto, Rest, modules, outside, trigger
  <2>2. Pending' /\ ~Discarded' /\ locked' /\ pc' # "write"
    BY <1>1, <2>1 DEF Pending, Discarded
  <2>3. ASSUME NEW m \in Both PROVE Accounted(m)'
    BY <1>1, <2>1, <2>2 DEF Accounted, Paired
  <2>4. PICK t \in Nat \ {0} : \A m \in Both : HasTrigger(m, t)
    BY <1>1 DEF Paired
  <2>5. ASSUME NEW m \in Both PROVE HasTrigger(m, t)'
    <3>1. PICK i \in 1..Len(stored[m]) : stored[m][i] = t /\ (Fits(m) => i = 1)
      BY <2>4 DEF HasTrigger
    <3>2. ASSUME Fits(m)' PROVE i = 1
      <4>1. nev'[m] = trignum
        BY <2>1, <3>2 DEF Fits
      <4>2. nev \in [Modules -> Int] /\ m \in Modules /\ m \in Nat /\ j \in Nat /\ TDC \in Nat \ {0}
        BY BothTyped, Numbers, Zenon DEF ReadoutTypeOK
      <4>3. CASE m = j
        <5>1. Counter(m) = trignum
          BY <2>1, <4>1, <4>2, <4>3
        <5>2. Len(stored[m]) = 1
          BY <1>1, <3>1, <5>1, FitsAlone, BothTyped DEF Paired, PairInv
        <5> QED
          BY <3>1, <5>2
      <4>4. CASE m # j
        <5>1. nev[m] = trignum
          BY <2>1, <4>1, <4>2, <4>4
        <5>2. m < j
          BY <2>1, <3>2, <4>2, <4>4 DEF Fits, Both
        <5> QED
          BY <1>1, <3>1, <5>1, <5>2 DEF Fits
      <4> QED
        BY <4>3, <4>4
    <3> QED
      BY <2>1, <3>1, <3>2 DEF HasTrigger
  <2>6. Paired'
    BY <1>1, <2>1, <2>2, <2>3, <2>4, <2>5 DEF Paired
  <2> QED
    BY <2>1, <2>6 DEF PairInv, Started
<1> QED
  BY <1>2, <1>3

LEMMA PairRead == ASSUME ReadoutTypeOK, PairInv, ReadData PROVE PairInv'
<1>0. pc = "data"
  BY DEF ReadData
<1>a. CASE NoBlocks
  <2>1. /\ UNCHANGED <<trignum, locked, seen, ofs, stored, noise>> /\ j' = 0 /\ pc' = "end"
    BY <1>a DEF NoBlocks, Goto, Forget, modules, trigger
  <2> QED
    BY <1>0, <2>1, PairFrame DEF Started
<1>b. SUFFICES ASSUME NEW failed, Blocks(failed) PROVE PairInv'
  BY <1>a DEF ReadData
<1>1. /\ UNCHANGED <<trignum, j, nev, locked, seen, ofs, noise>> /\ pc = "data" /\ pc' = "write"
      /\ (retcode' = "0" => Retcode = "0" /\ failed = {}) /\ (retcode' # "0" => marked')
      /\ data' = [m \in Modules |-> IF m \in failed \/ stored[m] = <<>> THEN 0 ELSE Head(stored[m])]
      /\ stored' = [m \in Modules |-> IF stored[m] = <<>> THEN <<>> ELSE Tail(stored[m])]
  BY <1>0, <1>b DEF Blocks, Goto
<1>2. Paired /\ Pending /\ ~Discarded /\ ~Pending' /\ locked
  BY <1>1 DEF PairInv, Paired, Started, Pending, Discarded
<1>3. PICK t \in Nat \ {0} : \A m \in Both : HasTrigger(m, t)
  BY <1>2 DEF Paired
<1>4. ASSUME NEW m \in Both PROVE stored[m] # <<>> /\ Accounted(m)'
  <2>1. PICK i \in 1..Len(stored[m]) : stored[m][i] = t
    BY <1>3 DEF HasTrigger
  <2>2. stored[m] # <<>> /\ stored'[m] = Tail(stored[m])
    BY <1>1, <2>1, BothTyped
  <2>3. Len(stored'[m]) = Len(stored[m]) - 1
    BY <2>2, BothTyped
  <2>4. /\ seen[m] = (trignum - ofs) + Len(stored[m])
        /\ Len(stored[m]) <= noise + 1
    BY <1>1, <1>2, BothTyped, Numbers DEF Paired, Accounted
  <2>5. seen'[m] = (trignum' - ofs') + 1 + Len(stored'[m]) /\ Len(stored'[m]) <= noise'
    BY <1>1, <2>3, <2>4, BothTyped, Numbers
  <2> QED
    BY <1>1, <1>2, <2>2, <2>5, BothTyped, Numbers DEF Accounted
<1>5. ASSUME NEW m \in Both, ~marked' PROVE data'[m] = t
  <2>1. nev[0] = trignum /\ nev[TDC] = trignum /\ failed = {}
    BY <1>1, <1>5 DEF Retcode, SomeDiffer, AllDiffer
  <2>2. Fits(m)
    BY <1>1, <2>1 DEF Fits, Both
  <2>3. stored[m][1] = t
    BY <1>3, <2>2 DEF HasTrigger
  <2> QED
    BY <1>1, <1>4, <2>1, <2>3, BothTyped
<1>6. ~marked' => retcode' = "0" /\ data'[0] = data'[TDC] /\ data'[0] # 0
  BY <1>1, <1>5 DEF Both
<1>7. Paired'
  BY <1>1, <1>2, <1>4, <1>6 DEF Paired
<1> QED
  BY <1>1, <1>7 DEF PairInv, Started

LEMMA PairWrite == ASSUME ReadoutTypeOK, PairInv, Write PROVE PairInv'
<1>1. /\ UNCHANGED <<locked, seen, ofs, stored, noise>> /\ pc = "write" /\ j' = 0
      /\ trignum' = trignum + (IF retcode = "0xff" THEN 2 ELSE 1)
      /\ pc' = IF marked THEN "reset" ELSE "unlock"
  BY DEF Write, Goto, Rest, Forget, modules, outside, trigger
<1>2. Paired /\ ~Pending' /\ locked
  BY <1>1 DEF PairInv, Paired, Started, Pending
<1>3. ofs' <= trignum'
  BY <1>1, <1>2, Numbers DEF Paired
<1>4. ASSUME ~Discarded', NEW m \in Both PROVE Accounted(m)'
  <2>1. ~marked
    BY <1>1, <1>4 DEF Discarded
  <2>2. Accounted(m) /\ retcode = "0"
    BY <1>1, <1>2, <2>1 DEF Paired, Discarded
  <2> QED
    BY <1>1, <1>2, <2>1, <2>2, BothTyped, Numbers DEF Accounted, Pending
<1>5. Paired'
  BY <1>1, <1>2, <1>3, <1>4, BothTyped DEF Paired
<1> QED
  BY <1>1, <1>5 DEF PairInv, Started

LEMMA PairReset == ASSUME ReadoutTypeOK, PairInv, Reset PROVE PairInv'
<1>1. /\ UNCHANGED <<trignum, locked, noise>> /\ pc = "reset"
      /\ seen' = [seen EXCEPT ![j] = 0] /\ stored' = [stored EXCEPT ![j] = <<>>]
      /\ IF j # TDC THEN j' = j + 1 /\ UNCHANGED <<pc, ofs>>
                    ELSE j' = 0 /\ ofs' = trignum /\ pc' = "unlock"
  BY DEF Reset, Goto, Rest, outside
<1>2. Paired /\ ~Pending' /\ locked
  BY <1>1 DEF PairInv, Paired, Started, Pending
<1>3. ASSUME NEW m \in Both, m < j \/ m = j
      PROVE  seen'[m] = Len(stored'[m]) /\ Len(stored'[m]) <= noise
  <2>1. seen \in [Modules -> Nat] /\ stored \in [Modules -> Seq(Nat)] /\ m \in Modules
    BY BothTyped, Zenon DEF ReadoutTypeOK
  <2>2. CASE m = j
    BY <1>1, <2>1, <2>2, Numbers
  <2>3. CASE m # j
    BY <1>1, <1>2, <1>3, <2>1, <2>3 DEF Paired
  <2> QED
    BY <2>2, <2>3
<1>4. CASE j # TDC
  <2>1. \A m \in Both : m < j' => seen'[m] = Len(stored'[m]) /\ Len(stored'[m]) <= noise'
    BY <1>1, <1>3, <1>4, BothTyped, Numbers
  <2>2. Paired'
    BY <1>1, <1>2, <1>4, <2>1, Numbers DEF Paired, Discarded
  <2> QED
    BY <1>1, <1>4, <2>2 DEF PairInv, Started
<1>5. CASE j = TDC
  <2>1. ASSUME NEW m \in Both PROVE Accounted(m)'
    <3>1. m < j \/ m = j
      BY <1>5, Numbers DEF Both
    <3> QED
      BY <1>1, <1>2, <1>3, <1>5, <3>1, Numbers, BothTyped DEF Accounted
  <2>2. Paired'
    BY <1>1, <1>2, <1>5, <2>1, Numbers DEF Paired
  <2> QED
    BY <1>1, <1>5, <2>2 DEF PairInv, Started
<1> QED
  BY <1>4, <1>5

LEMMA PairUnlock == ASSUME ReadoutTypeOK, PairInv, Unlock PROVE PairInv'
<1>1. /\ UNCHANGED <<trignum, j, seen, ofs, stored, noise>> /\ pc = "unlock" /\ pc' = "test"
      /\ locked' = FALSE
  BY DEF Unlock, Goto, Rest, outside, modules
<1>2. Paired /\ ~Pending /\ ~Pending' /\ ~Discarded
  BY <1>1 DEF PairInv, Paired, Started, Pending, Discarded
<1>3. ASSUME NEW m \in Both PROVE Accounted(m)'
  BY <1>1, <1>2 DEF Accounted, Paired
<1>4. Paired'
  BY <1>1, <1>2, <1>3 DEF Paired
<1> QED
  BY <1>1, <1>4 DEF PairInv, Started

(* Steps outside the loop, and those that are none of the readout's.       *)
LEMMA PairPlace ==
  ASSUME PairInv,
         UNCHANGED <<trignum, j, nev, retcode, marked, data, locked, seen, ofs, stored, noise>>,
         pc' = pc \/ (~Started /\ pc' \in {"dead", "semget", "zero", "init"})
  PROVE  PairInv'
<1>1. CASE pc' = pc
  BY <1>1 DEF PairInv, Started, Paired, Pending, Discarded, Accounted, HasTrigger, Fits
<1>2. CASE ~Started /\ pc' \in {"dead", "semget", "zero", "init"}
  BY <1>2 DEF PairInv, Started
<1> QED
  BY <1>1, <1>2

LEMMA PairGone ==
  ASSUME PairInv, Vanish, pc' \in {"out", "dead"}, noise' = noise PROVE PairInv'
BY DEF PairInv, Started, Vanish, Forget

LEMMA PairStep ==
  ASSUME ReadoutTypeOK, PairInv, MaxNoise < W, Deaf \cap Both = {}, [Next]_vars PROVE PairInv'
<1>1. CASE Event
  BY <1>1, PairBegin, PairLoop, PairCount, PairRead, PairWrite, PairReset, PairUnlock DEF Event
<1>2. CASE Hardware
  BY <1>2, PairTrigger, PairSpurious DEF Hardware
<1>3. CASE TestEnd(sem)
  BY <1>3, PairTest
<1>4. CASE Close
  BY <1>4, PairGone DEF Close, Goto, Rest, outside
<1>5. CASE Kill
  BY <1>5, PairGone DEF Kill, outside
<1>6. CASE SemGet \/ SemZero \/ RunScript
  BY <1>6, PairPlace DEF SemGet, SemZero, RunScript, Alive, Started, trigger, modules, outside
<1>7. CASE CheckAgain \/ CtrlC
  <2>1. pc' = pc \/ (~Started /\ pc' = "dead")
    BY <1>7 DEF CheckAgain, CtrlC, Signalled, Started
  <2> QED
    BY <1>7, <2>1, PairPlace DEF CheckAgain, CtrlC, trigger, modules, outside
<1>8. CASE StopScript \/ SpillSeen \/ Raise \/ ScriptEnds \/ SpillToggle \/ Pause \/ UNCHANGED vars
  <2>1. UNCHANGED <<pc, trignum, j, nev, retcode, marked, data, locked, modules, outside>>
    BY <1>8 DEF StopScript, SpillSeen, Raise, ScriptEnds, SpillToggle, Pause, vars, readout,
                program, trigger
  <2> QED
    BY <2>1, PairPlace DEF modules, outside
<1> QED
  BY <1>1, <1>2, <1>3, <1>4, <1>5, <1>6, <1>7, <1>8 DEF Next, Readout, Step, Script

(* OneTriggerPerLine: a line without error mark has the data of one and    *)
(* the same trigger from QDC 0 and from the TDC, as long as these two miss *)
(* no trigger and a run has fewer spurious gates than a counter has        *)
(* values; of whatever kind the spurious gates are                         *)
(* (myReadOutNoStopV2718.cpp:249).                                         *)
THEOREM LinesOfOneTrigger ==
  ASSUME Deaf \cap {0, TDC} = {}, MaxNoise < W
  PROVE  Spec => []OneTriggerPerLine
<1> DEFINE Inv == ReadoutTypeOK /\ PairInv
<1>1. RunInit => Inv
  BY TypeStart, PairStart
<1>2. Inv /\ [Next]_vars => Inv'
  BY ReadoutTyped, PairStep DEF Both
<1>3. Inv => OneTriggerPerLine
  BY DEF PairInv, Paired, Started, OneTriggerPerLine
<1> QED
  BY <1>1, <1>2, <1>3, PTL DEF Spec

-----------------------------------------------------------------------------
(* The fake event.                                                         *)

Read(m) == pc = "data" \/ (pc = "count" /\ m < j)

(* The modules have seen the same gates, so that the counters that were    *)
(* read are all the same.                                                  *)
Even ==
  /\ \A m \in Modules : IF pc # "reset" THEN seen[m] = seen[0] ELSE m < j => seen[m] = 0
  /\ \A m \in Modules : Read(m) => nev[m] = Counter(0)
  /\ pc = "write" /\ retcode = "0xff" => \A m \in Modules : nev[m] = trignum + 1

EvenInv == Started /\ clean => Even

LEMMA Functions ==
  ASSUME AlignInv
  PROVE  /\ nev \in [Modules -> Int] /\ seen \in [Modules -> Nat] /\ 0 \in Modules
         /\ j \in Modules /\ Modules \subseteq Nat
BY ReadoutAssumption DEF AlignInv, Types, Modules

LEMMA EvenTrigger == ASSUME AlignInv, EvenInv, Deaf = {}, Trigger PROVE EvenInv'
<1> SUFFICES ASSUME clean PROVE EvenInv'
  BY DEF Trigger, EvenInv
<1>1. /\ UNCHANGED <<pc, trignum, j, nev, retcode>> /\ ~locked /\ Started /\ Gate(Modules, fers + 1)
  <2>1. PICK miss \in SUBSET Deaf : Gate(Modules \ miss, fers + 1)
    BY DEF Trigger
  <2>2. Modules \ miss = Modules
    OBVIOUS
  <2> QED
    BY <2>1, <2>2 DEF Trigger, program
<1>2. Even /\ pc \in {"loop", "test", "end"}
  BY <1>1 DEF AlignInv, Aligned, EvenInv, Started
<1>3. \A m \in Modules : seen'[m] = seen[m] + 1
  BY <1>1 DEF Gate
<1> QED
  BY <1>1, <1>2, <1>3, Functions DEF EvenInv, Even, Read

LEMMA EvenSpurious == ASSUME AlignInv, EvenInv, Spurious PROVE EvenInv'
<1>1. PICK ms : Gate(ms, IF ms = Modules THEN fers + 1 ELSE 0) /\ clean' = (clean /\ Foreseen(ms))
  BY DEF Spurious
<1>2. UNCHANGED <<pc, trignum, j, nev, retcode>> /\ Started
  BY DEF Spurious, program
<1> SUFFICES ASSUME clean' PROVE Even'
  BY DEF EvenInv
<1>3. /\ Even /\ ms = Modules /\ (pc \notin {"count", "data"} \/ (pc = "count" /\ j = 0))
      /\ pc # "reset"
  <2>1. Foreseen(ms) /\ clean
    BY <1>1
  <2>2. pc # "reset"
    BY <1>2, <2>1 DEF Foreseen, AlignInv, Aligned, Discarded
  <2> QED
    BY <1>2, <2>1, <2>2 DEF EvenInv, Foreseen
<1>4. \A m \in Modules : seen'[m] = seen[m] + 1
  BY <1>1, <1>3 DEF Gate
<1>5. \A m \in Modules : ~ Read(m)'
  BY <1>2, <1>3, Functions DEF Read
<1> QED
  BY <1>2, <1>3, <1>4, <1>5, Functions DEF Even

LEMMA EvenCount == ASSUME AlignInv, EvenInv, Count PROVE EvenInv'
<1>1. UNCHANGED <<trignum, seen, ofs, clean>> /\ pc = "count"
  BY DEF Count, ReadCounter, Goto, Rest, Forget, modules, outside
<1> SUFFICES ASSUME clean PROVE EvenInv'
  BY <1>1 DEF EvenInv
<1>2. Even
  BY <1>1 DEF EvenInv, Started
<1>3. CASE j # TDC /\ abort_run
  BY <1>1, <1>2, <1>3 DEF Count, Goto, EvenInv, Even, Read
<1>4. CASE ~(j # TDC /\ abort_run)
  <2>1. /\ nev' = [nev EXCEPT ![j] = Counter(j)]
        /\ \/ j = TDC /\ pc' = "data" /\ j' = j
           \/ j # TDC /\ pc' = "count" /\ j' = j + 1
    BY <1>1, <1>4 DEF Count, ReadCounter, Goto
  <2>2. Counter(j) = Counter(0) /\ Counter(0)' = Counter(0)
    BY <1>1, <1>2, Functions DEF Even, Counter
  <2>3. ASSUME NEW m \in Modules, Read(m)' PROVE nev'[m] = Counter(0)
    <3>1. CASE m = j
      BY <2>1, <2>2, <3>1, Functions
    <3>2. CASE m # j
      <4>1. m < j
        BY <1>1, <2>1, <2>3, <3>2, Functions, ReadoutAssumption DEF Read, Modules, TDC
      <4> QED
        BY <1>1, <1>2, <2>1, <3>2, <4>1, Functions DEF Even, Read
    <3> QED
      BY <3>1, <3>2
  <2> QED
    BY <1>1, <1>2, <2>1, <2>2, <2>3 DEF EvenInv, Even
<1> QED
  BY <1>3, <1>4

(* With triggers on or off, what is reset is reset for all modules.        *)
LEMMA EvenReset == ASSUME AlignInv, EvenInv, Reset PROVE EvenInv'
<1>1. /\ UNCHANGED <<clean>> /\ pc = "reset" /\ seen' = [seen EXCEPT ![j] = 0]
      /\ IF j # TDC THEN j' = j + 1 /\ pc' = pc ELSE pc' = "unlock"
  BY DEF Reset, Goto, Rest, outside
<1> SUFFICES ASSUME clean PROVE EvenInv'
  BY <1>1 DEF EvenInv
<1>2. Even
  BY <1>1 DEF EvenInv, Started
<1>3. ASSUME NEW m \in Modules, m <= j PROVE seen'[m] = 0
  BY <1>1, <1>2, <1>3, Functions DEF Even
<1>4. ASSUME NEW m \in Modules PROVE ~ Read(m)'
  BY <1>1 DEF Read
<1>5. CASE j # TDC
  BY <1>1, <1>3, <1>4, <1>5, Functions DEF EvenInv, Even
<1>6. CASE j = TDC
  <2>1. \A m \in Modules : seen'[m] = 0
    BY <1>3, <1>6, ReadoutAssumption DEF Modules, TDC
  <2> QED
    BY <1>1, <1>4, <1>6, <2>1, Functions DEF EvenInv, Even
<1> QED
  BY <1>5, <1>6

LEMMA EvenRead == ASSUME AlignInv, EvenInv, ReadData PROVE EvenInv'
<1>1. /\ UNCHANGED <<trignum, seen, ofs, clean>> /\ pc = "data" /\ pc' \in {"write", "end"}
      /\ (pc' = "write" /\ retcode' = "0xff" => Retcode = "0xff" /\ nev' = nev)
  BY DEF ReadData, Blocks, NoBlocks, Goto, modules
<1> SUFFICES ASSUME clean PROVE EvenInv'
  BY <1>1 DEF EvenInv
<1>2. Even
  BY <1>1 DEF EvenInv, Started
<1>3. Retcode = "0xff" => nev[0] = trignum + 1
  BY DEF Retcode
<1>4. \A m \in Modules : nev[m] = nev[0]
  BY <1>1, <1>2, Functions DEF Even, Read
<1> QED
  BY <1>1, <1>2, <1>3, <1>4, Functions DEF EvenInv, Even, Read

(* Steps that leave the modules and what was read of them alone, ...       *)
LEMMA EvenFrame ==
  ASSUME EvenInv, UNCHANGED <<pc, trignum, j, nev, retcode, seen, ofs, clean>> PROVE EvenInv'
BY DEF EvenInv, Started, Even, Read, Counter

(* ... and those before any counter is read or after all were.             *)
LEMMA EvenPlace ==
  ASSUME EvenInv, Modules \subseteq Nat, 0 \in Modules,
         \/ /\ Started /\ pc # "reset" /\ UNCHANGED <<seen, clean>>
            /\ pc' \in {"loop", "unlock", "test", "end"} \/ (pc' = "reset" /\ j' = 0)
         \/ pc = "loop" /\ pc' = "count" /\ j' = 0 /\ UNCHANGED <<seen, clean>>
         \/ pc' \in {"out", "dead", "semget", "zero", "init"}
         \/ pc' \in {"loop", "unlock"} /\ seen' = None
  PROVE  EvenInv'
<1> SUFFICES ASSUME Started', clean' PROVE Even'
  BY DEF EvenInv
<1>1. pc' # "write" /\ pc' # "data" /\ (pc' \in {"count", "reset"} => j' = 0)
  BY DEF Started
<1>2. \A m \in Modules : IF pc' # "reset" THEN seen'[m] = seen'[0] ELSE m < j' => seen'[m] = 0
  <2>1. CASE seen' = None
    BY <2>1 DEF None
  <2>2. CASE Started /\ pc # "reset" /\ UNCHANGED <<seen, clean>>
    BY <1>1, <2>2 DEF EvenInv, Even
  <2> QED
    BY <2>1, <2>2 DEF Started
<1>3. ASSUME NEW m \in Modules PROVE ~ Read(m)'
  <2>1. m \in Nat
    OBVIOUS
  <2> QED
    BY <1>1, <2>1 DEF Read
<1> QED
  BY <1>1, <1>2, <1>3 DEF Even

LEMMA EvenStep ==
  ASSUME AlignInv, EvenInv, Deaf = {}, [Next]_vars PROVE EvenInv'
<1>1. CASE Count \/ ReadData \/ Reset
  BY <1>1, EvenCount, EvenRead, EvenReset
<1>2. CASE Hardware
  BY <1>2, EvenTrigger, EvenSpurious DEF Hardware
<1>3. CASE Loop
  <2>1. /\ UNCHANGED <<j, seen, clean>> /\ pc = "loop" /\ j = 0 /\ pc' \in {"count", "test"}
    BY <1>3 DEF Loop, Goto, Rest, modules, outside, AlignInv
  <2> QED
    BY <2>1, EvenPlace, Functions DEF Started
<1>4. CASE Write \/ Unlock \/ TestEnd(sem)
  <2>1. /\ Started /\ pc # "reset" /\ UNCHANGED <<seen, clean>>
        /\ pc' \in {"loop", "unlock", "test", "end"} \/ (pc' = "reset" /\ j' = 0)
    BY <1>4 DEF Write, Forget, Unlock, TestEnd, Goto, Rest, modules, outside, Started
  <2> QED
    BY <2>1, EvenPlace, Functions
<1>5. CASE Begin
  BY <1>5, EvenPlace, Functions DEF Begin, Goto
<1>6. CASE Close \/ Kill \/ SemGet \/ SemZero \/ RunScript
  BY <1>6, EvenPlace, Functions DEF Close, Kill, SemGet, SemZero, RunScript, Goto
<1>7. CASE CheckAgain \/ CtrlC
  <2>1. UNCHANGED <<trignum, j, nev, retcode, seen, ofs, clean>> /\ (pc' = pc \/ pc' = "dead")
    BY <1>7 DEF CheckAgain, CtrlC, Signalled, modules, outside
  <2> QED
    BY <2>1, EvenFrame, EvenPlace, Functions
<1>8. CASE StopScript \/ SpillSeen \/ Raise \/ ScriptEnds \/ SpillToggle \/ Pause \/ UNCHANGED vars
  <2>1. UNCHANGED <<pc, trignum, j, nev, retcode, modules, outside>>
    BY <1>8 DEF StopScript, SpillSeen, Raise, ScriptEnds, SpillToggle, Pause, vars, readout, program
  <2> QED
    BY <2>1, EvenFrame DEF modules, outside
<1> QED
  BY <1>1, <1>2, <1>3, <1>4, <1>5, <1>6, <1>7, <1>8 DEF Next, Readout, Step, Script, Event

(* FakeOnlyIfAll holds as long as no module misses a trigger and spurious  *)
(* gates reach every module: the fake event is only added when all         *)
(* counters are ahead by one (myReadOutNoStopV2718.cpp:610).  The run that *)
(* refutes FakeOnlyIfAll needs a gate that reaches some of the modules.    *)
THEOREM FakeIfForeseen ==
  ASSUME Deaf = {}
  PROVE  Spec => [](clean => FakeOnlyIfAll)
<1> DEFINE Inv == AlignInv /\ EvenInv
<1>1. RunInit => Inv
  BY AlignStart DEF RunInit, Init, EvenInv, Started
<1>2. Inv /\ [Next]_vars => Inv'
  BY AlignStep, EvenStep
<1>3. Inv => (clean => FakeOnlyIfAll)
  BY DEF EvenInv, Even, Started, FakeOnlyIfAll
<1> QED
  BY <1>1, <1>2, <1>3, PTL DEF Spec

=============================================================================
