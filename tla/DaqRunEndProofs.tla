-------------------------- MODULE DaqRunEndProofs ---------------------------
(***************************************************************************)
(* The headers of the files of a run add up to the events of the run, for  *)
(* every capacity, file size and limit.  The sum is a recursive function:  *)
(* what it computes is proved by induction, as the absence of a least      *)
(* counterexample.                                                         *)
(***************************************************************************)
EXTENDS DaqRunProofs, SequenceTheorems, WellFoundedInduction

-----------------------------------------------------------------------------
(* Induction.                                                              *)

Less == OpToRel(<, Nat)

LEMMA LessIsLess == \A a, b \in Nat : <<a, b>> \in Less <=> a < b
BY DEF Less, OpToRel

LEMMA LeastOf ==
  ASSUME NEW T \in SUBSET Nat, T # {}
  PROVE  \E m \in T : \A k \in T : m <= k
<1>1. IsWellFoundedOn(Less, Nat)
  BY NatLessThanWellFounded DEF Less
<1>2. PICK m \in T : \A k \in T : <<k, m>> \notin Less
  BY <1>1, WFMin
<1>3. ASSUME NEW k \in T PROVE m <= k
  <2>1. k \in Nat /\ m \in Nat
    OBVIOUS
  <2>2. ~ (k < m)
    BY <1>2, <2>1, LessIsLess
  <2> QED
    BY <2>1, <2>2
<1> QED
  BY <1>3

-----------------------------------------------------------------------------
(* Sums of headers.                                                        *)

RunningSum(s, n, g) ==
  g = [i \in 0..n |-> IF i = 0 THEN 0 ELSE g[i - 1] + s[i].header]

LEMMA SumExists == ASSUME NEW s, NEW n \in Nat PROVE \E g : RunningSum(s, n, g)
<1> DEFINE Bad == {m \in Nat : ~ \E g : RunningSum(s, m, g)}
<1> SUFFICES ASSUME Bad # {} PROVE FALSE
  OBVIOUS
<1>1. PICK m \in Bad : \A k \in Bad : m <= k
  BY LeastOf
<1>2. CASE m = 0
  <2> DEFINE g == [i \in 0..0 |-> 0]
  <2>1. RunningSum(s, 0, g)
    BY DEF RunningSum
  <2> QED
    BY <1>2, <2>1
<1>3. CASE m # 0
  <2>1. m - 1 \in Nat /\ ~ (m <= m - 1)
    BY <1>3
  <2>2. PICK g : RunningSum(s, m - 1, g)
    BY <1>1, <2>1
  <2> DEFINE h == [i \in 0..m |-> IF i = m THEN g[m - 1] + s[m].header ELSE g[i]]
  <2>3. ASSUME NEW i \in 0..m
        PROVE  h[i] = IF i = 0 THEN 0 ELSE h[i - 1] + s[i].header
    <3>1. CASE i = m
      <4>1. h[i - 1] = g[m - 1]
        BY <1>3, <2>1, <3>1
      <4> QED
        BY <1>3, <3>1, <4>1
    <3>2. CASE i # m
      <4>1. i \in 0..(m - 1) /\ h[i] = g[i] /\ (i # 0 => h[i - 1] = g[i - 1])
        BY <2>1, <3>2
      <4> QED
        BY <2>2, <4>1 DEF RunningSum
    <3> QED
      BY <3>1, <3>2
  <2>4. h = [i \in 0..m |-> h[i]]
    OBVIOUS
  <2> HIDE DEF h
  <2>5. RunningSum(s, m, h)
    BY <2>3, <2>4 DEF RunningSum
  <2> QED
    BY <2>5
<1> QED
  BY <1>2, <1>3

SameHeaders(s, t, n) == \A i \in 1..n : s[i].header = t[i].header

(* Two of them agree as far as the headers do.                             *)
LEMMA SumsAgree ==
  ASSUME NEW s, NEW t, NEW n \in Nat, NEW m \in Nat, n <= m,
         SameHeaders(s, t, n),
         NEW g, NEW h, RunningSum(s, n, g), RunningSum(t, m, h)
  PROVE  \A i \in 0..n : g[i] = h[i]
<1> DEFINE Bad == {i \in 0..n : g[i] # h[i]}
<1> SUFFICES ASSUME Bad # {} PROVE FALSE
  OBVIOUS
<1>0. Bad \in SUBSET Nat
  OBVIOUS
<1>1. PICK k \in Bad : \A l \in Bad : k <= l
  <2> HIDE DEF Bad
  <2> QED
    BY <1>0, LeastOf
<1>2. /\ g[k] = IF k = 0 THEN 0 ELSE g[k - 1] + s[k].header
      /\ h[k] = IF k = 0 THEN 0 ELSE h[k - 1] + t[k].header
  BY DEF RunningSum
<1>3. k # 0
  BY <1>2
<1>4. k - 1 \in 0..n /\ ~ (k <= k - 1) /\ k \in 1..n
  BY <1>3
<1>5. g[k - 1] = h[k - 1]
  BY <1>1, <1>4
<1> QED
  BY <1>2, <1>3, <1>4, <1>5 DEF SameHeaders

LEMMA SumIs ==
  ASSUME NEW s, Len(s) \in Nat, NEW g, RunningSum(s, Len(s), g)
  PROVE  SumHeaders(s) = g[Len(s)]
<1> DEFINE c == CHOOSE h : RunningSum(s, Len(s), h)
<1>1. RunningSum(s, Len(s), c)
  OBVIOUS
<1>2. \A i \in 0..Len(s) : c[i] = g[i]
  <2> HIDE DEF c
  <2>1. SameHeaders(s, s, Len(s))
    BY DEF SameHeaders
  <2>2. Len(s) <= Len(s)
    OBVIOUS
  <2> QED
    BY <1>1, <2>1, <2>2, SumsAgree
<1>3. SumHeaders(s) = c[Len(s)]
  BY DEF SumHeaders, RunningSum
<1>4. Len(s) \in 0..Len(s)
  OBVIOUS
<1> QED
  BY <1>2, <1>3, <1>4

(* A file more adds its header.                                            *)
LEMMA SumAppend ==
  ASSUME NEW s \in Seq(Header), NEW x \in Header
  PROVE  SumHeaders(Append(s, x)) = SumHeaders(s) + x.header
<1> DEFINE t == Append(s, x)
           n == Len(s)
<1>1. /\ n \in Nat /\ t \in Seq(Header) /\ Len(t) = n + 1
      /\ t[n + 1] = x /\ \A i \in 1..n : t[i] = s[i]
  BY AppendProperties, LenProperties
<1> HIDE DEF t, n
<1>2. PICK g : RunningSum(s, n, g)
  BY <1>1, SumExists
<1>3. PICK h : RunningSum(t, n + 1, h)
  <2>1. n + 1 \in Nat
    BY <1>1
  <2> QED
    BY <2>1, SumExists
<1>4. g[n] = h[n]
  <2>1. n + 1 \in Nat /\ n <= n + 1 /\ n \in 0..n
    BY <1>1
  <2>2. SameHeaders(s, t, n)
    BY <1>1 DEF SameHeaders
  <2>3. \A i \in 0..n : g[i] = h[i]
    BY <1>1, <1>2, <1>3, <2>1, <2>2, SumsAgree
  <2> QED
    BY <2>1, <2>3
<1>5. h[n + 1] = h[n] + x.header
  BY <1>1, <1>3 DEF RunningSum
<1>6. SumHeaders(s) = g[n] /\ SumHeaders(t) = h[n + 1]
  BY <1>1, <1>2, <1>3, SumIs DEF n
<1> QED
  BY <1>4, <1>5, <1>6 DEF t

LEMMA SumOfNone == SumHeaders(<< >>) = 0
<1>1. Len(<< >>) = 0
  OBVIOUS
<1>2. PICK g : RunningSum(<< >>, 0, g)
  BY SumExists
<1>3. g[0] = 0
  BY <1>2 DEF RunningSum
<1> QED
  BY <1>1, <1>2, <1>3, SumIs

-----------------------------------------------------------------------------
(* The end of a run.  A data writer that was not interrupted ends because  *)
(* the readout has gone; the readout goes after it has counted its events. *)

(* The readout has attached FIFO f, and it has deleted it.                 *)
Attached(f) == ro \notin {"attachPed"} \cup
                         (IF f = "phys" THEN {"lockPed0", "attachPhys"} ELSE {})
Gone(f) == ro \in {"done"} \cup (IF f = "phys" THEN {"deletePed"} ELSE {})

PresenceInv == \A f \in Fifos : /\ present[f] => Attached(f)
                                /\ Attached(f) /\ ~ Gone(f) => present[f]

CountedInv == ro \in Closing => \A f \in Fifos : numevt[f] = written[f]

WriterInv == \A f \in Fifos : f \notin abort =>
               /\ dw[f] # "waitWriter" => Attached(f)
               /\ dw[f] \in {"final", "done"} => Gone(f)
               /\ dw[f] = "done" => nevtsaved[f] = written[f]

SumInv == \A f \in Fifos : SumHeaders(closed[f]) = nevtsaved[f]

EndInv == PresenceInv /\ CountedInv /\ WriterInv /\ SumInv

LEMMA InitEnd == Init => EndInv
<1> SUFFICES ASSUME Init PROVE EndInv
  OBVIOUS
<1>1. PresenceInv
  BY DEF Init, PresenceInv, Attached, Fifos
<1>2. CountedInv /\ WriterInv
  BY DEF Init, CountedInv, WriterInv, Closing, Fifos
<1>3. SumInv
  BY SumOfNone DEF Init, SumInv
<1> QED
  BY <1>1, <1>2, <1>3 DEF EndInv

(* What a step of the readout must show.                                   *)
LEMMA RoEnd ==
  ASSUME EndInv, UNCHANGED <<dw, nevtsaved, closed, abort>>, PresenceInv', CountedInv',
         \A f \in Fifos : /\ Attached(f) => Attached(f)'
                          /\ Gone(f) => Gone(f)' /\ written'[f] = written[f]
  PROVE  EndInv'
<1>1. WriterInv'
  BY DEF EndInv, WriterInv
<1>2. SumInv'
  BY DEF EndInv, SumInv
<1> QED
  BY <1>1, <1>2 DEF EndInv

(* A step of the readout between attaching and deleting.                   *)
LEMMA RoMoves ==
  ASSUME EndInv, UNCHANGED <<present, dw, nevtsaved, closed, abort>>, CountedInv',
         {ro, ro'} \cap {"attachPed", "deletePed", "done"} = {},
         ro # "attachPhys", ro' # "lockPed0", ro = "lockPed0" <=> ro' = "attachPhys"
  PROVE  EndInv'
<1>1. \A f \in Fifos : Attached(f)' = Attached(f) /\ ~ Gone(f) /\ ~ Gone(f)'
  BY DEF Attached, Gone, Fifos
<1>2. PresenceInv'
  BY <1>1 DEF EndInv, PresenceInv
<1> QED
  BY <1>1, <1>2, RoEnd

LEMMA RoSoloEnd == ASSUME IInv, EndInv, RoSolo PROVE EndInv'
<1> USE DEF fifoVars, roVars, dwVars, envVars
<1>1. CASE RoAttach
  <2>1. \A f \in Fifos : /\ Attached(f) => Attached(f)'
                         /\ ~ Gone(f) /\ ~ Gone(f)'
    BY <1>1 DEF RoAttach, Attached, Gone
  <2>2. PresenceInv'
    BY <1>1 DEF RoAttach, EndInv, PresenceInv, Attached, Gone, Fifos, IInv, TypeOK
  <2>3. CountedInv'
    BY <1>1 DEF RoAttach, CountedInv, Closing
  <2> QED
    BY <1>1, <2>1, <2>2, <2>3, RoEnd DEF RoAttach
<1>2. CASE RoUnlock
  <2>1. CountedInv'
    BY <1>2, Tables DEF RoUnlock, UnlockStep, EndInv, CountedInv, Closing
  <2> QED
    BY <1>2, <2>1, Tables, RoMoves DEF RoUnlock, UnlockStep
<1>3. CASE RoSpillStarts \/ RoResume \/ RoNoEvent \/ RoFull
  <2>1. CountedInv'
    BY <1>3 DEF RoSpillStarts, RoResume, RoNoEvent, RoFull, CountedInv, Closing
  <2> QED
    BY <1>3, <2>1, RoMoves DEF RoSpillStarts, RoResume, RoNoEvent, RoFull
<1>4. ASSUME NEW f \in Fifos, RoTrigger(f) \/ RoGiveUp(f) PROVE EndInv'
  <2>1. CountedInv'
    BY <1>4 DEF RoTrigger, RoGiveUp, CountedInv, Closing
  <2> QED
    BY <1>4, <2>1, RoMoves DEF RoTrigger, RoGiveUp
<1>5. CASE RoWrite
  <2>1. CountedInv'
    BY <1>5 DEF RoWrite, CountedInv, Closing
  <2> QED
    BY <1>5, <2>1, RoMoves DEF RoWrite
<1>6. CASE RoAfter
  <2>1. CountedInv'
    BY <1>6 DEF RoAfter, CountedInv, Closing
  <2> QED
    BY <1>6, <2>1, RoMoves DEF RoAfter
<1>7. CASE RoUpdate
  <2>1. CountedInv'
    BY <1>7 DEF RoUpdate, CountedInv, events, pedevents, Fifos
  <2> QED
    BY <1>7, <2>1, RoMoves DEF RoUpdate
<1>8. CASE RoDelete
  <2>1. \A f \in Fifos : /\ Attached(f) => Attached(f)'
                         /\ Gone(f) => Gone(f)' /\ written'[f] = written[f]
    BY <1>8 DEF RoDelete, Attached, Gone
  <2>2. PresenceInv'
    BY <1>8 DEF RoDelete, EndInv, PresenceInv, Attached, Gone, Fifos, IInv, TypeOK
  <2>3. CountedInv'
    BY <1>8 DEF RoDelete, EndInv, CountedInv, Closing
  <2> QED
    BY <1>8, <2>1, <2>2, <2>3, RoEnd DEF RoDelete
<1> QED
  BY <1>1, <1>2, <1>3, <1>4, <1>5, <1>6, <1>7, <1>8 DEF RoSolo

LEMMA RoTakeEnd == ASSUME EndInv, RoTake PROVE EndInv'
<1> USE DEF dwVars, envVars
<1>1. CASE RoLock
  <2>1. CountedInv'
    BY <1>1, Tables DEF RoLock, LockStep, CountedInv, Closing
  <2> QED
    BY <1>1, <2>1, Tables, RoMoves DEF RoLock, LockStep
<1>2. CASE RoRelock
  <2>1. CountedInv'
    BY <1>2 DEF RoRelock, CountedInv, Closing
  <2> QED
    BY <1>2, <2>1, RoMoves DEF RoRelock
<1> QED
  BY <1>1, <1>2 DEF RoTake

(* What a step of a data writer that moves it to l must show.              *)
LEMMA DwEnd ==
  ASSUME IInv, EndInv, NEW f \in Fifos, NEW l, DwGoto(f, l), UNCHANGED dwOther,
         \A g \in Fifos \ {f} : nevtsaved'[g] = nevtsaved[g],
         f \notin abort => /\ Attached(f)
                           /\ l \in {"final", "done"} => Gone(f)
                           /\ l = "done" => nevtsaved'[f] = written[f],
         SumInv'
  PROVE  EndInv'
<1> USE DEF dwOther, roVars, envVars
<1>1. dw'[f] = l /\ \A g \in Fifos \ {f} : dw'[g] = dw[g]
  BY DEF DwGoto, IInv, TypeOK
<1>2. \A g \in Fifos : Attached(g)' = Attached(g) /\ Gone(g)' = Gone(g)
  BY DEF Attached, Gone
<1>3. PresenceInv' /\ CountedInv'
  BY <1>2 DEF EndInv, PresenceInv, CountedInv
<1>4. WriterInv'
  BY <1>1, <1>2 DEF EndInv, WriterInv
<1> QED
  BY <1>3, <1>4 DEF EndInv

LEMMA DwMovesEnd ==
  ASSUME IInv, EndInv, NEW f \in Fifos, NEW l, DwGoto(f, l), UNCHANGED dwOther,
         UNCHANGED <<nevtsaved, closed>>, l # "done",
         f \notin abort => Attached(f) /\ (l = "final" => Gone(f))
  PROVE  EndInv'
<1>1. SumInv'
  BY DEF EndInv, SumInv
<1> QED
  BY <1>1, DwEnd

(* A file closed: the headers grow by what is left to save.                *)
LEMMA CloseFileEnd ==
  ASSUME IInv, EndInv, NEW f \in Fifos, CloseFile(f), NEW l, DwGoto(f, l), UNCHANGED dwOther,
         f \notin abort => /\ Attached(f)
                           /\ l \in {"final", "done"} => Gone(f)
  PROVE  EndInv'
<1> DEFINE x == [header |-> numevt[f] - nevtsaved[f], inside |-> infile[f]]
<1>1. x \in Header /\ nevtsaved[f] \in Nat /\ numevt[f] \in Nat /\ closed[f] \in Seq(Header)
  BY DEF Header, IInv, TypeOK, CountInv
<1>2. /\ closed'[f] = Append(closed[f], x) /\ nevtsaved'[f] = numevt[f]
      /\ \A g \in Fifos \ {f} : closed'[g] = closed[g] /\ nevtsaved'[g] = nevtsaved[g]
  BY DEF CloseFile, IInv, TypeOK
<1>3. x.header = numevt[f] - nevtsaved[f]
  OBVIOUS
<1> HIDE DEF x
<1>4. SumHeaders(closed'[f]) = nevtsaved'[f]
  <2>1. SumHeaders(closed[f]) = nevtsaved[f]
    BY DEF EndInv, SumInv
  <2>2. SumHeaders(closed'[f]) = SumHeaders(closed[f]) + x.header
    BY <1>1, <1>2, SumAppend
  <2> QED
    BY <1>1, <1>2, <1>3, <2>1, <2>2
<1>5. SumInv'
  BY <1>2, <1>4 DEF EndInv, SumInv
<1>6. f \notin abort /\ l = "done" => nevtsaved'[f] = written[f]
  BY <1>2 DEF EndInv, CountedInv, Gone, Closing
<1> QED
  BY <1>2, <1>5, <1>6, DwEnd

LEMMA DwStepEnd == ASSUME IInv, EndInv, NEW f \in Fifos, DwSolo(f) \/ DwLock(f) PROVE EndInv'
<1>0. f \notin abort => /\ present[f] \/ dw[f] # "waitWriter" => Attached(f)
                        /\ Attached(f) /\ ~ present[f] => Gone(f)
                        /\ dw[f] = "final" => Gone(f)
  BY DEF EndInv, PresenceInv, WriterInv
<1>1. CASE DwSeesWriter(f)
  BY <1>0, <1>1, DwMovesEnd DEF DwSeesWriter
<1>2. CASE DwLoop(f)
  BY <1>0, <1>2, DwMovesEnd DEF DwLoop
<1>3. CASE DwDump(f) \/ DwDumpEmpty(f) \/ DwUnlock(f) \/ DwKeepFile(f) \/ DwLock(f)
  BY <1>0, <1>3, DwMovesEnd DEF DwDump, DwDumpEmpty, DwUnlock, DwKeepFile, DwLock
<1>4. CASE DwPresent(f)
  BY <1>0, <1>4, DwMovesEnd DEF DwPresent
<1>5. CASE DwRollOver(f)
  BY <1>0, <1>5, CloseFileEnd DEF DwRollOver
<1>6. CASE DwFinal(f)
  BY <1>0, <1>6, CloseFileEnd DEF DwFinal
<1> QED
  BY <1>1, <1>2, <1>3, <1>4, <1>5, <1>6 DEF DwSolo

(* An interrupt only makes the condition on the data writers weaker.       *)
LEMMA EnvEnd ==
  ASSUME EndInv, UNCHANGED <<fifoVars, roVars, dwVars>>, abort \subseteq abort'
  PROVE  EndInv'
<1> USE DEF fifoVars, roVars, dwVars
<1>1. \A f \in Fifos : Attached(f)' = Attached(f) /\ Gone(f)' = Gone(f)
  BY DEF Attached, Gone
<1>2. PresenceInv' /\ CountedInv' /\ SumInv'
  BY <1>1 DEF EndInv, PresenceInv, CountedInv, SumInv
<1>3. WriterInv'
  BY <1>1 DEF EndInv, WriterInv
<1> QED
  BY <1>2, <1>3 DEF EndInv

LEMMA StepEnd == IInv /\ EndInv /\ [Next]_vars => EndInv'
<1> SUFFICES ASSUME IInv, EndInv, [Next]_vars PROVE EndInv'
  OBVIOUS
<1>1. CASE UNCHANGED vars
  BY <1>1, EnvEnd DEF vars, envVars
<1>2. CASE RoSolo \/ RoTake
  BY <1>2, RoSoloEnd, RoTakeEnd
<1>3. ASSUME NEW f \in Fifos, DwSolo(f) \/ DwLock(f) PROVE EndInv'
  BY <1>3, DwStepEnd
<1>4. CASE SpillToggle \/ \E p \in Interrupted : Interrupt(p)
  BY <1>4, EnvEnd DEF SpillToggle, Interrupt
<1> QED
  BY <1>1, <1>2, <1>3, <1>4 DEF Next

(* The headers of the files of a run announce, together, every event that  *)
(* the readout put into the FIFO.                                          *)
THEOREM HeadersAddUp == Spec => []HeadersCountRun
<1>1. EndInv => HeadersCountRun
  BY DEF EndInv, WriterInv, SumInv, HeadersCountRun
<1> QED
  BY <1>1, InitEnd, StepEnd, RunInvariant, PTL DEF Spec

=============================================================================
