------------------------------ MODULE NoStopRun -----------------------------
(***************************************************************************)
(* Runs of the readout without stops, one after the other: its start, the  *)
(* semaphore that asks it to stop, the script that stops it                *)
(* (stopSPS2024nos.sh with stopGracely.cpp, then SIGINT, then SIGKILL) and *)
(* the one that kills it (hkillSPS2024nos.sh).                             *)
(***************************************************************************)
EXTENDS NoStopReadout

CONSTANT MaxRuns  \* bound on the runs

ASSUME RunsAssumption == MaxRuns \in Nat

VARIABLES sem,     \* value of the semaphore, -1 if there is none
          script,  \* where the stop script is
          held,    \* does stopGracely hold the semaphore that is there?
          asked,   \* history: has this run been asked to stop?
          runs

control == <<sem, script, held, asked, runs>>
vars == <<readout, control>>

RunInit == Init /\ sem = -1 /\ script = "idle" /\ held = FALSE /\ asked = FALSE /\ runs = 0

Alive == pc \notin {"out", "dead"}

-----------------------------------------------------------------------------
(* runSPS2024nos.sh: only when ps shows no readout.  Nobody starts a run   *)
(* in the second between the stop script's SIGINT and its last look: the   *)
(* script would kill the new one.                                          *)
RunScript == /\ ~Alive /\ script # "interrupted" /\ runs < MaxRuns
             /\ pc' = "semget" /\ runs' = runs + 1 /\ asked' = FALSE
             /\ abort_run' = FALSE /\ pause_run' = FALSE
             /\ UNCHANGED <<trignum, numevofs, running, j, nev, retcode, marked, data, lines,
                            trigger, modules, outside, sem, script, held>>

(* The constructor of the semaphore: found or made, then set to 0.         *)
SemGet == /\ pc = "semget" /\ pc' = "zero"
          /\ sem' = IF sem = -1 THEN 0 ELSE sem
          /\ UNCHANGED <<trignum, numevofs, running, j, nev, retcode, marked, data, lines,
                         flags, trigger, modules, outside, script, held, asked, runs>>

SemZeroKeeps == /\ pc = "zero" /\ pc' = "init"
                /\ UNCHANGED <<trignum, numevofs, running, j, nev, retcode, marked, data, lines,
                               flags, trigger, modules, outside, control>>

SemZero == /\ pc = "zero" /\ pc' = "init" /\ sem' = 0
           /\ UNCHANGED <<trignum, numevofs, running, j, nev, retcode, marked, data, lines,
                          flags, trigger, modules, outside, script, held, asked, runs>>

(* The loop, and the destructor of the semaphore at its end.               *)
Step == \/ Event /\ UNCHANGED control
        \/ TestEnd(sem) /\ UNCHANGED control
        \/ Close /\ sem' = -1 /\ held' = FALSE /\ UNCHANGED <<script, asked, runs>>

-----------------------------------------------------------------------------
ScriptGoes(from, to) == script = from /\ script' = to

(* The script sees the readout in the list of processes and calls          *)
(* stopGracely, which throws if there is no semaphore.                     *)
StopScript == /\ ScriptGoes("idle", IF sem = -1 THEN "check" ELSE "spill") /\ Alive
              /\ held' = (sem # -1) /\ UNCHANGED <<readout, sem, asked, runs>>

(* stopGracely waits for the end of the spill, then raises the semaphore;  *)
(* if that was removed meanwhile nothing happens.                          *)
SpillSeen == /\ ScriptGoes("spill", "raise") /\ ~spill
             /\ UNCHANGED <<readout, sem, held, asked, runs>>

Raise == /\ ScriptGoes("raise", "check")
         /\ IF held THEN sem' = sem + 1 /\ asked' = TRUE ELSE UNCHANGED <<sem, asked>>
         /\ held' = FALSE /\ UNCHANGED <<readout, runs>>

(* What a process does with SIGINT before it has installed the handler.    *)
Signalled == IF pc \in {"semget", "zero"}
             THEN pc' = "dead" /\ UNCHANGED abort_run
             ELSE UNCHANGED pc /\ abort_run' = TRUE

CheckGivesUp == /\ script = "check"
                /\ script' = "idle"
                /\ UNCHANGED <<readout, sem, held, asked, runs>>

(* Seconds later: SIGINT if it still runs.                                 *)
CheckAgain ==
  /\ script = "check"
  /\ IF Alive THEN /\ script' = "interrupted" /\ asked' = TRUE /\ Signalled
              ELSE script' = "idle" /\ UNCHANGED <<asked, pc, abort_run>>
  /\ UNCHANGED <<trignum, numevofs, running, j, nev, retcode, marked, data, lines, pause_run,
                 trigger, modules, outside, sem, held, runs>>

ScriptEnds == /\ ScriptGoes("interrupted", "idle") /\ ~Alive
              /\ UNCHANGED <<readout, sem, held, asked, runs>>

(* SIGINT from the operator, at any time.                                  *)
CtrlC == /\ Alive /\ asked' = TRUE /\ Signalled
         /\ UNCHANGED <<trignum, numevofs, running, j, nev, retcode, marked, data, lines, pause_run,
                        trigger, modules, outside, sem, script, held, runs>>

(* SIGKILL, of the stop script a second later or of the other script.      *)
Kill == /\ Alive /\ pc' = "dead"
        /\ script' = IF script = "interrupted" THEN "idle" ELSE script
        /\ Vanish /\ UNCHANGED <<flags, trigger, modules, outside, sem, held, asked, runs>>

-----------------------------------------------------------------------------
Readout == SemGet \/ SemZero \/ Step
Script == SpillSeen \/ Raise \/ CheckAgain \/ ScriptEnds

Next == \/ Readout \/ Script \/ RunScript \/ StopScript \/ CtrlC \/ Kill
        \/ (Hardware \/ SpillToggle \/ Pause) /\ UNCHANGED control

Spec == RunInit /\ [][Next]_vars

(* A program that can go on does, the script too, and spills end.  Nothing *)
(* is said of the SIGKILL: the SIGINT has to do.                           *)
Fairness == /\ WF_vars(Readout)
            /\ WF_vars(Raise) /\ WF_vars(CheckAgain) /\ WF_vars(ScriptEnds)
            /\ SF_vars(SpillSeen)
            /\ WF_vars(SpillToggle /\ UNCHANGED control)

FairSpec == Spec /\ Fairness

(* The semaphore has been raised at most once for each run that was begun. *)
TypeOK == /\ ReadoutTypeOK /\ sem \in -1..runs /\ held \in BOOLEAN /\ asked \in BOOLEAN
          /\ runs \in 0..MaxRuns
          /\ script \in {"idle", "spill", "raise", "check", "interrupted"}

(* A run only ends because it was asked to while it was running, whatever  *)
(* a killed run has left in the semaphore, or because an event came        *)
(* without any QDC data (`if (qdcsize == 0) break;', line 566); then the   *)
(* trigger of that event is still locked and has no line.                  *)
EndsOnlyIfAsked == pc = "end" /\ ~asked => empty /\ locked

(* A run that the script is to stop is stopped, without SIGKILL, even when *)
(* the readout waits for a QDC that missed its trigger or the semaphore    *)
(* was raised too early.                                                   *)
Stops == script # "idle" ~> ~Alive

=============================================================================
