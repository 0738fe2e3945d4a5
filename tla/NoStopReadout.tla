--------------------------- MODULE NoStopReadout ---------------------------
(***************************************************************************)
(* The readout without stops (myReadOutNoStopV2718.cpp): one event per     *)
(* trigger, written as a line of the data file.  Every QDC and the TDC     *)
(* count the gates they get; readEvent() compares the counters with        *)
(* trignum, and an event that does not fit ends with a reset.  A second    *)
(* system, FERS, counts the same triggers in a file of its own, and lines  *)
(* and FERS triggers must stay in step.                                    *)
(*                                                                         *)
(* The modules may get gates that are no triggers, and may miss one, and   *)
(* the transfer of a QDC's block may fail.  A block that comes is whole:   *)
(* header and trailer errors are left out, and so are the scalers and the  *)
(* pedestal veto.                                                          *)
(***************************************************************************)
EXTENDS Integers, Sequences

CONSTANTS NQDC,      \* nQDCs
          W,         \* counters count modulo W (2^24 in the modules)
          Extra,     \* sets of modules that a spurious gate may reach
          Deaf,      \* modules that may miss a trigger
          Failing,   \* sets of QDCs whose blocks may fail to come together
          MaxFers,   \* bound on the triggers FERS sees
          MaxNoise   \* bound on the spurious gates

QDCs == 0..(NQDC - 1)
TDC == NQDC
Modules == 0..NQDC

ASSUME ReadoutAssumption == /\ NQDC \in Nat \ {0} /\ W \in Nat \ {0}
                            /\ Extra \subseteq SUBSET Modules /\ Deaf \subseteq Modules
                            /\ Failing \subseteq SUBSET QDCs
                            /\ MaxFers \in Nat /\ MaxNoise \in Nat

VARIABLES pc, trignum, numevofs, running,
          j,          \* the module whose counter is read next, or that is reset next
          nev,        \* nevqdc and nevtdc0
          retcode,    \* 0, an error code or 0xff
          marked,     \* tmask has 0xffff0000
          data,       \* trigger whose data each module gave, 0 for none
          lines,      \* lines of the data file
          pause_run, abort_run,
          veto, locked,  \* DAQ_VETO; the latch that unlockTrigger() opens
          spill,
          seen, ofs,  \* gates since the reset, m_eventCounterOffset
          stored,     \* events in the buffer of each module, oldest first
          fers, noise,
          extra,      \* spurious gates since the last event was read
          clean,      \* history: were all of them of the kind the code foresees?
          empty       \* history: did an event of this run have no QDC block at all?

program == <<pc, trignum, numevofs, running, j, nev, retcode, marked, data, lines>>
flags == <<pause_run, abort_run>>
trigger == <<veto, locked, spill>>
modules == <<seen, ofs, stored>>
outside == <<fers, noise, extra, clean, empty>>
readout == <<program, flags, trigger, modules, outside>>

None == [m \in Modules |-> 0]

Init == /\ pc = "out" /\ trignum = 0 /\ numevofs = 0 /\ running = TRUE /\ j = 0
        /\ nev = None /\ retcode = "0" /\ marked = FALSE /\ data = None /\ lines = 0
        /\ pause_run = FALSE /\ abort_run = FALSE
        /\ veto = TRUE /\ locked = FALSE /\ spill = FALSE
        /\ seen = None /\ ofs = 0 /\ stored = [m \in Modules |-> <<>>]
        /\ fers = 0 /\ noise = 0 /\ extra = 0 /\ clean = TRUE /\ empty = FALSE

(* What eventCounter() returns, and the number in the oldest event stored: *)
(* the first gate after a reset is number 0.                               *)
Counter(m) == ofs + ((seen[m] - 1) % W)
Oldest(m) == (seen[m] - Len(stored[m])) % W

-----------------------------------------------------------------------------
(* The hardware.                                                           *)

Gate(ms, id) ==
  /\ seen' = [m \in Modules |-> IF m \in ms THEN seen[m] + 1 ELSE seen[m]]
  /\ stored' = [m \in Modules |-> IF m \in ms THEN Append(stored[m], id) ELSE stored[m]]
  /\ UNCHANGED ofs

(* Triggers before the reset at the start of a run leave no trace.         *)
Started == pc \in {"loop", "count", "data", "write", "reset", "unlock", "test", "end"}

Trigger == /\ Started /\ ~veto /\ ~locked /\ fers < MaxFers
           /\ \E miss \in SUBSET Deaf : Gate(Modules \ miss, fers + 1)
           /\ locked' = TRUE /\ fers' = fers + 1
           /\ UNCHANGED <<program, flags, veto, spill, noise, extra, clean, empty>>

(* The kind of spurious gate that readEvent() knows: it reaches all        *)
(* modules and FERS, no counter of the event has been read, it is the only *)
(* one, no counter goes round with it, and triggers are on.                *)
Foreseen(ms) == /\ ms = Modules /\ extra = 0 /\ ~veto
                /\ pc \notin {"count", "data"} \/ (pc = "count" /\ j = 0)
                /\ \A m \in Modules : seen[m] + 2 <= W

Spurious == /\ Started /\ noise < MaxNoise /\ fers < MaxFers
            /\ \E ms \in Extra :
                 /\ Gate(ms, IF ms = Modules THEN fers + 1 ELSE 0)
                 /\ fers' = IF ms = Modules THEN fers + 1 ELSE fers
                 /\ clean' = (clean /\ Foreseen(ms))
            /\ noise' = noise + 1 /\ extra' = extra + 1
            /\ UNCHANGED <<program, flags, trigger, empty>>

SpillToggle == /\ spill' = ~spill
               /\ UNCHANGED <<program, flags, veto, locked, modules, outside>>

(* SIGUSR1.                                                                *)
Pause == /\ Started /\ pause_run' = ~pause_run
         /\ UNCHANGED <<program, abort_run, trigger, modules, outside>>

-----------------------------------------------------------------------------
(* main(), from the start of the loop on.                                  *)

Goto(l) == pc' = l
Rest(v) == UNCHANGED <<v, flags, outside>>

(* What belongs to one event is forgotten with it, the rest at the end.    *)
Forget == nev' = None /\ retcode' = "0" /\ marked' = FALSE /\ data' = None /\ j' = 0
Vanish == Forget /\ trignum' = 0 /\ numevofs' = 0 /\ running' = TRUE /\ lines' = 0

(* Reset, triggers on: the last lines before the loop.  FERS is started    *)
(* with the run.                                                           *)
Begin == /\ pc = "init"
         /\ seen' = None /\ ofs' = 0 /\ stored' = [m \in Modules |-> <<>>]
         /\ veto' = FALSE /\ locked' = FALSE
         /\ fers' = 0 /\ noise' = 0 /\ extra' = 0 /\ clean' = TRUE /\ empty' = FALSE
         /\ Goto("loop")
         /\ UNCHANGED <<trignum, numevofs, running, j, nev, retcode, marked, data, lines, flags, spill>>

(* Pause and resume; then an event is read if the spill is on and the      *)
(* latch shows a trigger.                                                  *)
Loop == /\ pc = "loop"
        /\ running' = ~pause_run
        /\ veto' = IF running = pause_run THEN pause_run ELSE veto
        /\ IF spill /\ locked THEN Goto("count") ELSE Goto("test")
        /\ Rest(<<trignum, numevofs, j, nev, retcode, marked, data, lines, locked, spill, modules>>)

ReadCounter == /\ nev' = [nev EXCEPT ![j] = Counter(j)]
               /\ IF j = TDC THEN Goto("data") /\ UNCHANGED j
                             ELSE UNCHANGED pc /\ j' = j + 1
               /\ Rest(<<trignum, numevofs, running, retcode, marked, data, lines, trigger, modules>>)

CountPastTdc == /\ pc = "count" /\ (j # TDC => stored[j] # <<>>)
                /\ nev' = [nev EXCEPT ![j] = Counter(j)] /\ j' = j + 1
                /\ Rest(<<pc, trignum, numevofs, running, retcode, marked, data, lines, trigger, modules>>)

CountDeaf == pc = "count" /\ (j # TDC => stored[j] # <<>>) /\ ReadCounter

(* readEvent(): wait for the data of every QDC in turn and read its        *)
(* counter, then the one of the TDC.  The wait ends with abort_run.        *)
Count == /\ pc = "count"
         /\ IF j # TDC /\ abort_run
            THEN /\ Goto("end") /\ Forget
                 /\ Rest(<<trignum, numevofs, running, lines, trigger, modules>>)
            ELSE (j # TDC => stored[j] # <<>>) /\ ReadCounter

(* The code compares nevqdc[0] for every QDC, so that all bits of errcode  *)
(* are set as soon as QDC 0 and the TDC differ from trignum.               *)
AllDiffer == nev[0] # trignum /\ nev[TDC] # trignum
SomeDiffer == nev[0] # trignum \/ nev[TDC] # trignum

RetcodeNoTdc == IF nev[0] = trignum + 1 THEN "0xff" ELSE IF nev[0] # trignum THEN "error" ELSE "0"

Retcode == IF AllDiffer /\ nev[0] = trignum + 1 THEN "0xff"
           ELSE IF SomeDiffer THEN "error" ELSE "0"

(* One event from each module, the oldest, but from the QDCs in failed;    *)
(* main() also compares the number in the last word, which is the last     *)
(* QDC's, and the size.  A block of size 0 sets a bit of errcode, which    *)
(* leaves 0xff as it is.                                                   *)
Blocks(failed) ==
  LET code == IF failed # {} /\ Retcode = "0" THEN "error" ELSE Retcode IN
  /\ data' = [m \in Modules |-> IF m \in failed \/ stored[m] = <<>> THEN 0 ELSE Head(stored[m])]
  /\ stored' = [m \in Modules |-> IF stored[m] = <<>> THEN <<>> ELSE Tail(stored[m])]
  /\ retcode' = code
  /\ marked' = (numevofs + Oldest(NQDC - 1) # trignum \/ code # "0")
  /\ veto' = (marked' \/ veto)
  /\ extra' = 0
  /\ Goto("write")
  /\ UNCHANGED <<trignum, numevofs, running, j, nev, lines, flags, locked, spill,
                 seen, ofs, fers, noise, clean, empty>>

(* Without any QDC data the run is over, asked or not.                     *)
NoBlocks == /\ empty' = TRUE /\ Goto("end") /\ Forget
            /\ UNCHANGED <<trignum, numevofs, running, lines, flags, trigger, modules,
                           fers, noise, extra, clean>>

ReadData == /\ pc = "data"
            /\ \E failed \in Failing \union {{}} :
                 IF failed = QDCs THEN NoBlocks ELSE Blocks(failed)

WriteNoCount == /\ pc = "write"
                /\ lines' = lines + (IF retcode = "0xff" THEN 2 ELSE 1) /\ trignum' = trignum + 1
                /\ Goto(IF marked THEN "reset" ELSE "unlock")
                /\ Forget /\ Rest(<<numevofs, running, trigger, modules>>)

(* A line; with 0xff one more, all zeroes.                                 *)
Write == LET n == IF retcode = "0xff" THEN 2 ELSE 1 IN
         /\ pc = "write"
         /\ lines' = lines + n /\ trignum' = trignum + n
         /\ Goto(IF marked THEN "reset" ELSE "unlock")
         /\ Forget /\ Rest(<<numevofs, running, trigger, modules>>)

(* Module by module; then the offsets, and triggers on.                    *)
Reset == /\ pc = "reset"
         /\ seen' = [seen EXCEPT ![j] = 0] /\ stored' = [stored EXCEPT ![j] = <<>>]
         /\ IF j # TDC
            THEN j' = j + 1 /\ UNCHANGED <<pc, ofs, numevofs, veto>>
            ELSE /\ j' = 0 /\ ofs' = trignum /\ numevofs' = trignum /\ veto' = FALSE
                 /\ Goto("unlock")
         /\ Rest(<<trignum, running, nev, retcode, marked, data, lines, locked, spill>>)

Unlock == /\ pc = "unlock" /\ locked' = FALSE /\ Goto("test")
          /\ Rest(<<trignum, numevofs, running, j, nev, retcode, marked, data, lines, veto, spill, modules>>)

(* The end of a pass: sv is the value of the semaphore.                    *)
TestEnd(sv) == /\ pc = "test" /\ Goto(IF abort_run \/ sv > 0 THEN "end" ELSE "loop")
               /\ Rest(<<trignum, numevofs, running, j, nev, retcode, marked, data, lines, trigger, modules>>)

(* Triggers off, the file is closed, the program is gone.                  *)
Close == /\ pc = "end" /\ veto' = TRUE /\ Goto("out")
         /\ Vanish /\ Rest(<<locked, spill, modules>>)

Event == Begin \/ Loop \/ Count \/ ReadData \/ Write \/ Reset \/ Unlock
Hardware == Trigger \/ Spurious

-----------------------------------------------------------------------------
PC == {"out", "dead", "semget", "zero", "init", "loop", "count", "data", "write", "reset",
       "unlock", "test", "end"}

ReadoutTypeOK ==
  /\ pc \in PC /\ trignum \in Nat /\ numevofs \in Nat /\ running \in BOOLEAN
  /\ j \in Modules /\ nev \in [Modules -> Int] /\ retcode \in {"0", "error", "0xff"}
  /\ marked \in BOOLEAN /\ data \in [Modules -> Nat] /\ lines \in Nat
  /\ pause_run \in BOOLEAN /\ abort_run \in BOOLEAN
  /\ veto \in BOOLEAN /\ locked \in BOOLEAN /\ spill \in BOOLEAN
  /\ seen \in [Modules -> Nat] /\ ofs \in Nat /\ stored \in [Modules -> Seq(Nat)]
  /\ fers \in Nat /\ noise \in Nat /\ extra \in Nat /\ clean \in BOOLEAN
  /\ empty \in BOOLEAN

(* A line without error mark has the data of one and the same trigger from *)
(* QDC 0 and from the TDC, the modules whose counters are compared.        *)
OneTriggerPerLine == pc = "write" /\ ~marked => data[0] = data[TDC] /\ data[0] # 0

(* "add one fake event to align VME data with FERS data": as long as the   *)
(* spurious triggers are of the foreseen kind, the line with a number is   *)
(* the one of the FERS trigger with that number, over resets and counters  *)
(* that go round; a stop leaves out at most the trigger in the latch and   *)
(* the spurious one after the last event.                                  *)
FersAligned == clean /\ pc \in {"loop", "test", "end"}
                 => lines = trignum /\ fers = trignum + extra + (IF locked THEN 1 ELSE 0)

(* "spurious trigger to all elx": the fake event is only added when every  *)
(* module has counted one gate more.                                       *)
FakeOnlyIfAll == pc = "write" /\ retcode = "0xff" => \A m \in Modules : nev[m] = trignum + 1

=============================================================================
