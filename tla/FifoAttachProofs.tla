-------------------------- MODULE FifoAttachProofs --------------------------
(***************************************************************************)
(* What holds of FifoAttach for any number of processes, roles, slots,     *)
(* deaths and failed calls.  Until a process starts while another one      *)
(* leaves, or SIGINT cuts a wait short, semaphore 0 keeps constructors     *)
(* apart (CtorInv, whatever the segments hold), all are in one FIFO, and   *)
(* no FIFO in use is initialised again (SegInv).  Until a refused reader   *)
(* or writer leaves, a role has one holder, whose flag says PRESENT        *)
(* (RoleInv, FlagInv).  The last to leave removes data segment and         *)
(* semaphores if nobody has died (HomeInv, HeldInv), and the FIFO segment  *)
(* under both conditions (AddressInv, FifoHeld).  A refusal has its reason *)
(* if only samplers may die (PresentInv), without any other condition.     *)
(***************************************************************************)
EXTENDS FifoAttach, TLAPS

Ctor == InCtor \cup {"semop"}

(* Enough of the types to follow one field of my.                          *)
Shape == /\ pc \in [Procs -> PC]
         /\ my = [p \in Procs |-> my[p]]
         /\ \A p \in Procs : "sem" \in DOMAIN my[p]
         /\ semKey \in Nat /\ nsets \in Nat

(* A constructor waits on the set the key leads to, semaphore 0 is 1 while *)
(* one is past the wait, and nobody constructs while somebody destroys:    *)
(* the last to leave would remove the set under those who wait on it.      *)
SemInv == /\ \A p \in Procs : pc[p] \in Ctor => my[p].sem = semKey /\ semKey # 0
          /\ \A p \in Procs : pc[p] \in InCtor => sem0 = 1
          /\ \A p, q \in Procs : pc[p] \in InCtor /\ pc[q] \in InCtor => p = q
          /\ \A p, q \in Procs : ~(pc[p] \in Ctor /\ pc[q] \in InDtor)

CtorInv == Shape /\ SemInv

(* What the history rules out while all stays orderly.                     *)
LEMMA OrderlyStep ==
  ASSUME [Next]_vars, Orderly'
  PROVE  Orderly
BY DEF Next, vars, Orderly, Start, SemopCutShort, Leave

LEMMA OrderlyStart ==
  ASSUME NEW p \in Procs, Start(p), Orderly'
  PROVE  \A q \in Procs : pc[q] \notin InDtor
BY DEF Start, Orderly, Overlap, SomeoneLeaves

LEMMA OrderlyLeave ==
  ASSUME NEW p \in Procs, Leave(p), Orderly'
  PROVE  \A q \in Procs : pc[q] \notin Ctor
BY DEF Leave, HarmOfLeaving, Orderly, Overlap, SomeoneComes, Ctor

LEMMA NeverCutShort ==
  ASSUME NEW p \in Procs, SemopCutShort(p), Orderly'
  PROVE  FALSE
BY DEF SemopCutShort, Orderly

LEMMA CtorInit == Init => CtorInv
BY DEF Init, CtorInv, Shape, SemInv, Fresh, PC, Ctor, InCtor, InDtor

(* A step of p that leaves the set of semaphores as it is, p staying where *)
(* it is allowed to be.                                                    *)
LEMMA Stays ==
  ASSUME CtorInv, NEW p \in Procs, NEW l \in PC,
         pc' = [pc EXCEPT ![p] = l], my' = [q \in Procs |-> my'[q]],
         \A q \in Procs \ {p} : my'[q] = my[q],
         "sem" \in DOMAIN my'[p],
         UNCHANGED <<semKey, nsets, sem0>>,
         l \in Ctor => pc[p] \in InCtor /\ l \in InCtor /\ my'[p].sem = my[p].sem,
         l \in InDtor => pc[p] \in InDtor \/ \A q \in Procs : pc[q] \notin Ctor
  PROVE  CtorInv'
<1>1. Shape'
  BY DEF CtorInv, Shape
<1>2. \A q \in Procs : pc'[q] = IF q = p THEN l ELSE pc[q]
  BY DEF CtorInv, Shape
<1>3. InCtor \cap InDtor = {} /\ InCtor \subseteq Ctor /\ Ctor \cap InDtor = {}
  BY DEF Ctor, InCtor, InDtor
<1>4. \A q \in Procs : pc'[q] \in Ctor => pc[q] \in Ctor /\ my'[q].sem = my[q].sem
  BY <1>2, <1>3
<1>5. \A q \in Procs : pc'[q] \in InCtor => pc[q] \in InCtor
  BY <1>2, <1>3
<1>6. SemInv'
  BY <1>2, <1>3, <1>4, <1>5 DEF CtorInv, SemInv
<1> QED
  BY <1>1, <1>6 DEF CtorInv

(* The end of a process that leaves semaphore 0 at what it was.            *)
LEMMA GoneStep ==
  ASSUME CtorInv, NEW p \in Procs,
         Goto(p, "gone"), my' = [my EXCEPT ![p] = Fresh],
         UNCHANGED <<semKey, nsets, sem0>>
  PROVE  CtorInv'
<1>1. "sem" \in DOMAIN Fresh
  BY DEF Fresh
<1>2. /\ my' = [q \in Procs |-> my'[q]] /\ my'[p] = Fresh
      /\ \A q \in Procs \ {p} : my'[q] = my[q]
  BY DEF CtorInv, Shape
<1>3. "gone" \in PC /\ "gone" \notin Ctor /\ "gone" \notin InDtor
  BY DEF PC, Ctor, InCtor, InDtor
<1> QED
  BY <1>1, <1>2, <1>3, Stays DEF Goto

(* The way out of the constructor, semaphore 0 given back.                 *)
LEMMA GivesBack ==
  ASSUME CtorInv, NEW p \in Procs, NEW l \in {"in", "invalid", "gone"},
         pc[p] \in InCtor, pc' = [pc EXCEPT ![p] = l], UNCHANGED <<my, semKey, nsets>>
  PROVE  CtorInv'
<1>1. Shape'
  BY DEF CtorInv, Shape, PC
<1>2. \A q \in Procs : pc'[q] = IF q = p THEN l ELSE pc[q]
  BY DEF CtorInv, Shape
<1>3. /\ l \notin Ctor /\ l \notin InDtor /\ InCtor \subseteq Ctor
      /\ \A q \in Procs \ {p} : pc[q] \notin InCtor
  BY DEF Ctor, InCtor, InDtor, CtorInv, SemInv
<1>4. SemInv'
  BY <1>2, <1>3 DEF CtorInv, SemInv
<1> QED
  BY <1>1, <1>4 DEF CtorInv

-----------------------------------------------------------------------------
(* Coming: the wait is what admits one process.                            *)
LEMMA StartStep == ASSUME CtorInv, Orderly', NEW p \in Procs, Start(p) PROVE CtorInv'
<1>1. \A q \in Procs : pc[q] \notin InDtor
  BY OrderlyStart
<1>2. \A q \in Procs : pc'[q] = IF q = p THEN "semop" ELSE pc[q]
  BY DEF Start, Goto, CtorInv, Shape
<1>3. /\ my' = [q \in Procs |-> my'[q]] /\ "sem" \in DOMAIN my'[p]
      /\ \A q \in Procs \ {p} : my'[q] = my[q]
      /\ semKey' \in Nat \ {0} /\ nsets' \in Nat /\ my'[p].sem = semKey'
  BY DEF Start, Sems, CtorInv, Shape
<1>4. Shape'
  BY <1>3 DEF Start, Goto, CtorInv, Shape, PC
<1>5. /\ \A q \in Procs : pc'[q] \notin InDtor
      /\ \A q \in Procs : pc'[q] \in InCtor => q # p /\ pc[q] \in InCtor
      /\ \A q \in Procs \ {p} : pc'[q] \in Ctor => pc[q] \in Ctor
  BY <1>1, <1>2 DEF InCtor, InDtor
<1>6. CASE semKey = 0
  <2>1. \A q \in Procs : pc[q] \notin Ctor
    BY <1>6 DEF CtorInv, SemInv
  <2> QED
    BY <2>1, <1>3, <1>4, <1>5 DEF CtorInv, SemInv, Ctor
<1>7. CASE semKey # 0
  <2>1. UNCHANGED <<semKey, sem0>>
    BY <1>7 DEF Start, Sems
  <2> QED
    BY <2>1, <1>3, <1>4, <1>5 DEF CtorInv, SemInv
<1> QED
  BY <1>6, <1>7

LEMMA SemopStep == ASSUME CtorInv, NEW p \in Procs, Semop(p) PROVE CtorInv'
<1>1. pc[p] = "semop" /\ pc[p] \in Ctor /\ my[p].sem = semKey
  BY DEF Semop, CtorInv, SemInv, Ctor
<1>2. sem0 = 0 /\ sem0' = 1 /\ UNCHANGED <<my, semKey, nsets>>
  BY <1>1 DEF Semop, Sems
<1>3. \A q \in Procs : pc'[q] = IF q = p THEN "shmget" ELSE pc[q]
  BY DEF Semop, Goto, CtorInv, Shape
<1>4. /\ "shmget" \in InCtor /\ "shmget" \notin InDtor /\ InCtor \subseteq Ctor
      /\ \A q \in Procs : pc[q] \notin InCtor
  BY <1>2 DEF Ctor, InCtor, InDtor, CtorInv, SemInv
<1>5. Shape'
  BY <1>2 DEF Semop, Goto, CtorInv, Shape, PC, InCtor
<1>6. SemInv'
  BY <1>1, <1>2, <1>3, <1>4 DEF CtorInv, SemInv
<1> QED
  BY <1>5, <1>6 DEF CtorInv

(* The rest of the constructor.                                            *)
LEMMA ConstructStep == ASSUME CtorInv, NEW p \in Procs, Construct(p) PROVE CtorInv'
<1> USE DEF Goto, Sems, PC, InCtor, InDtor
<1>1. pc[p] \in InCtor /\ my[p].sem = semKey /\ "sem" \in DOMAIN my[p] /\ my = [q \in Procs |-> my[q]]
  BY DEF Construct, Shmget, Shmat, Test, Initialise, InitialiseFails, Check, Attach, OutOfBounds,
         Mark, Bump, CtorInv, Shape, SemInv, Ctor
<1>2. CASE Shmget(p)
  BY <1>1, <1>2, Stays, Zenon DEF Shmget
<1>3. CASE Shmat(p)
  BY <1>1, <1>3, Stays DEF Shmat
<1>4. CASE Test(p)
  BY <1>1, <1>4, Stays DEF Test
<1>5. CASE Initialise(p)
  BY <1>1, <1>5, Stays DEF Initialise
<1>6. CASE Check(p)
  <2>1. CASE Taken(p)
    BY <1>1, <1>6, <2>1, GivesBack DEF Check
  <2>2. CASE ~Taken(p)
    BY <1>1, <1>6, <2>2, Stays DEF Check
  <2> QED
    BY <2>1, <2>2
<1>7. CASE Attach(p)
  <2>1. CASE Goto(p, "mark") /\ my' = [my EXCEPT ![p].fifo = Seg(p).fifo] /\ UNCHANGED sem0
    BY <1>1, <1>7, <2>1, Stays DEF Attach
  <2>2. CASE Goto(p, "invalid") /\ UNCHANGED my
    BY <1>1, <1>7, <2>2, GivesBack DEF Attach
  <2> QED
    BY <1>7, <2>1, <2>2 DEF Attach
<1>8. CASE OutOfBounds(p)
  BY <1>8, GoneStep DEF OutOfBounds
<1>9. CASE Mark(p)
  <2>1. CASE p \in Samplers
    BY <1>1, <1>9, <2>1, Stays DEF Mark
  <2>2. CASE p \notin Samplers
    BY <1>1, <1>9, <2>2, GivesBack DEF Mark
  <2> QED
    BY <2>1, <2>2
<1>10. CASE Bump(p)
  BY <1>1, <1>10, GivesBack DEF Bump
<1>11. CASE InitialiseFails(p)
  BY <1>1, <1>11, GivesBack DEF InitialiseFails
<1> QED
  BY <1>2, <1>3, <1>4, <1>5, <1>6, <1>7, <1>8, <1>9, <1>10, <1>11 DEF Construct

(* A system call fails before the data segment is mapped.                  *)
LEMMA FailStep ==
  ASSUME CtorInv, NEW p \in Procs, StartFails(p) \/ ArriveFails(p)
  PROVE  CtorInv'
<1>1. CASE StartFails(p)
  <2>1. /\ my = [q \in Procs |-> my[q]] /\ "sem" \in DOMAIN my[p]
        /\ UNCHANGED <<my, semKey, nsets, sem0>> /\ pc' = [pc EXCEPT ![p] = "gone"]
    BY <1>1 DEF StartFails, Goto, Sems, CtorInv, Shape
  <2>2. "gone" \in PC /\ "gone" \notin Ctor /\ "gone" \notin InDtor
    BY DEF PC, Ctor, InCtor, InDtor
  <2> QED
    BY <2>1, <2>2, Stays
<1>2. CASE ArriveFails(p)
  BY <1>2, GivesBack DEF ArriveFails, Goto, Sems, InCtor
<1> QED
  BY <1>1, <1>2

-----------------------------------------------------------------------------
(* Leaving: it begins when nobody constructs.                              *)
LEMMA LeaveStep == ASSUME CtorInv, Orderly', NEW p \in Procs, Leave(p) PROVE CtorInv'
<1> DEFINE l == IF p \in Samplers THEN "leave" ELSE "stat"
<1>1. \A q \in Procs : pc[q] \notin Ctor
  BY OrderlyLeave
<1>2. l \in PC /\ l \notin Ctor /\ pc' = [pc EXCEPT ![p] = l]
  BY DEF Leave, Goto, PC, Ctor, InCtor, InDtor
<1>3. /\ my' = [q \in Procs |-> my'[q]] /\ "sem" \in DOMAIN my'[p]
      /\ \A q \in Procs \ {p} : my'[q] = my[q]
  BY DEF Leave, CtorInv, Shape
<1>4. UNCHANGED <<semKey, nsets, sem0>>
  BY DEF Leave, Sems
<1> QED
  BY <1>1, <1>2, <1>3, <1>4, Stays

(* The rest of the destructor.                                             *)
LEMMA DestroyStep == ASSUME CtorInv, NEW p \in Procs, Destroy(p) PROVE CtorInv'
<1> USE DEF Goto, Sems, PC, Ctor, InCtor, InDtor
<1>1. pc[p] \in InDtor /\ "sem" \in DOMAIN my[p] /\ my = [q \in Procs |-> my[q]]
  BY DEF Destroy, Count, Uncount, Stat, RemoveFifo, Shmdt, Stat2, RemoveData, RemoveSems,
         CtorInv, Shape
<1>2. CASE Count(p)
  BY <1>1, <1>2, Stays DEF Count
<1>3. CASE Uncount(p)
  BY <1>1, <1>3, Stays DEF Uncount
<1>4. CASE Stat(p)
  <2>1. PICK none \in BOOLEAN : /\ my' = [my EXCEPT ![p].none = none]
                                /\ Goto(p, IF none THEN "rmfifo" ELSE "shmdt")
    BY <1>4 DEF Stat
  <2> DEFINE l == IF none THEN "rmfifo" ELSE "shmdt"
  <2>2. l \in PC /\ l \notin Ctor /\ pc' = [pc EXCEPT ![p] = l]
    BY <2>1
  <2>3. UNCHANGED <<semKey, nsets, sem0>>
    BY <1>4 DEF Stat
  <2> HIDE DEF l
  <2> QED
    BY <1>1, <2>1, <2>2, <2>3, Stays
<1>5. CASE RemoveFifo(p)
  BY <1>1, <1>5, Stays DEF RemoveFifo
<1>6. CASE Shmdt(p)
  BY <1>1, <1>6, Stays DEF Shmdt
<1>7. CASE Stat2(p)
  <2>1. CASE Goto(p, "rmdata") /\ UNCHANGED my
    BY <1>1, <1>7, <2>1, Stays DEF Stat2
  <2>2. CASE Goto(p, "gone") /\ my' = [my EXCEPT ![p] = Fresh]
    BY <1>7, <2>2, GoneStep DEF Stat2
  <2> QED
    BY <1>7, <2>1, <2>2 DEF Stat2
<1>8. CASE RemoveData(p)
  BY <1>1, <1>8, Stays DEF RemoveData
<1>9. CASE RemoveSems(p)
  <2>1. \A q \in Procs : pc[q] \notin Ctor
    BY <1>1 DEF CtorInv, SemInv
  <2>2. \A q \in Procs : pc'[q] = IF q = p THEN "gone" ELSE pc[q]
    BY <1>9 DEF RemoveSems, CtorInv, Shape
  <2>3. \A q \in Procs : pc'[q] \notin Ctor
    BY <2>1, <2>2
  <2>4. SemInv'
    BY <2>3 DEF SemInv
  <2>5. semKey' \in Nat /\ nsets' \in Nat /\ pc' \in [Procs -> PC]
    BY <1>9 DEF RemoveSems, CtorInv, Shape
  <2>6. "sem" \in DOMAIN Fresh
    BY DEF Fresh
  <2>7. my' = [q \in Procs |-> my'[q]] /\ \A q \in Procs : "sem" \in DOMAIN my'[q]
    BY <1>9, <2>6 DEF RemoveSems, CtorInv, Shape
  <2> QED
    BY <2>4, <2>5, <2>7 DEF CtorInv, Shape
<1> QED
  BY <1>2, <1>3, <1>4, <1>5, <1>6, <1>7, <1>8, <1>9 DEF Destroy

LEMMA CtorNext == ASSUME CtorInv, Orderly', [Next]_vars PROVE CtorInv'
<1>1. CASE Next
  <2>1. PICK p \in Procs : \/ Start(p) \/ StartFails(p) \/ Semop(p) \/ SemopCutShort(p)
                           \/ Construct(p) \/ ArriveFails(p)
                           \/ Leave(p) \/ Destroy(p) \/ Die(p)
    BY <1>1 DEF Next
  <2>2. CASE Die(p)
    BY <2>2, GoneStep DEF Die, Sems
  <2> QED
    BY <2>1, <2>2, StartStep, SemopStep, NeverCutShort, ConstructStep, FailStep, LeaveStep,
       DestroyStep
<1>2. CASE UNCHANGED vars
  BY <1>2 DEF vars, CtorInv, Shape, SemInv
<1> QED
  BY <1>1, <1>2

-----------------------------------------------------------------------------
(* "wait for eventual initializiation of the other process" (myFIFO.cpp    *)
(* line 37) keeps its word until a process starts while another one leaves *)
(* or SIGINT cuts a wait short, whatever else fails or dies.               *)
THEOREM OneConstructor == Spec => []OneAtATime
<1> DEFINE Inv == Orderly => CtorInv
<1>1. Init => Inv
  BY CtorInit
<1>2. Inv /\ [Next]_vars => Inv'
  BY OrderlyStep, CtorNext
<1>3. Inv => OneAtATime
  BY DEF CtorInv, SemInv, OneAtATime
<1> QED
  BY <1>1, <1>2, <1>3, PTL DEF Spec

-----------------------------------------------------------------------------
(* Types, whoever starts and leaves when and whatever fails.               *)

(* The places of a process that has mapped the data segment.               *)
Mapping == {"test", "init", "check", "attach", "mark", "bump", "in", "invalid",
            "leave", "count", "stat", "rmfifo", "shmdt"}

Types == /\ nsets \in Nat /\ semKey \in 0..nsets /\ sem0 \in {0, 1}
         /\ data \in Seq(Segment) /\ dataKey \in 0..Len(data)
         /\ nfifos \in Nat /\ fifoKey \in Nat
         /\ pc \in [Procs -> PC] /\ my \in [Procs -> Local]

MapInv == \A p \in Procs : /\ my[p].did \in 0..Len(data)
                           /\ my[p].data \in 0..Len(data)
                           /\ pc[p] \in Mapping => my[p].data # 0

TypeInv == Types /\ MapInv

LEMMA FreshLocal == Fresh \in Local /\ Fresh.did = 0 /\ Fresh.data = 0
BY AttachAssumption DEF Fresh, Local

LEMMA BlankSegment == Blank \in Segment
BY AttachAssumption DEF Blank, Segment

LEMMA TypeInit == Init => TypeInv
<1> SUFFICES ASSUME Init PROVE TypeInv
  OBVIOUS
<1>1. Types
  BY FreshLocal DEF Init, Types, PC
<1>2. MapInv
  BY FreshLocal DEF Init, MapInv, Mapping
<1> QED
  BY <1>1, <1>2 DEF TypeInv

(* What process p keeps for itself becomes m, its place l.                 *)
LEMMA TypeStep ==
  ASSUME TypeInv, NEW p \in Procs, NEW l \in PC, NEW m \in Local,
         Goto(p, l), my' = [my EXCEPT ![p] = m],
         data' \in Seq(Segment), Len(data) <= Len(data'),
         m.did \in 0..Len(data'), m.data \in 0..Len(data'), l \in Mapping => m.data # 0,
         nsets' \in Nat, semKey' \in 0..nsets', dataKey' \in 0..Len(data'),
         nfifos' \in Nat, fifoKey' \in Nat, sem0' \in {0, 1}
  PROVE  TypeInv'
<1>1. Types'
  BY DEF Goto, TypeInv, Types
<1>2. \A q \in Procs : /\ pc'[q] = IF q = p THEN l ELSE pc[q]
                       /\ my'[q] = IF q = p THEN m ELSE my[q]
  BY DEF Goto, TypeInv, Types
<1>3. Len(data) \in Nat /\ Len(data') \in Nat
  BY DEF TypeInv, Types
<1>4. MapInv'
  BY <1>2, <1>3 DEF TypeInv, MapInv
<1> QED
  BY <1>1, <1>4 DEF TypeInv

(* The same when no segment is made and no key changes but fifoKey.        *)
LEMMA TypeMoves ==
  ASSUME TypeInv, NEW p \in Procs, NEW l \in PC, Goto(p, l),
         data' \in Seq(Segment), Len(data') = Len(data), UNCHANGED <<nsets, semKey, dataKey>>,
         nfifos' \in Nat, fifoKey' \in Nat, sem0' \in {0, 1},
         \/ UNCHANGED my /\ (l \in Mapping => my[p].data # 0)
         \/ my' = [my EXCEPT ![p] = Fresh] /\ l \notin Mapping
         \/ \E m \in Local : /\ my' = [my EXCEPT ![p] = m] /\ m.did = my[p].did
                             /\ m.data \in {0, my[p].data} /\ (l \in Mapping => m.data # 0)
  PROVE  TypeInv'
<1>1. /\ my[p] \in Local /\ my[p].did \in 0..Len(data) /\ my[p].data \in 0..Len(data)
      /\ Len(data) \in Nat /\ my = [my EXCEPT ![p] = my[p]] /\ nsets \in Nat
      /\ semKey \in 0..nsets /\ dataKey \in 0..Len(data)
  BY DEF TypeInv, Types, MapInv
<1>2. /\ Len(data) <= Len(data') /\ nsets' \in Nat /\ semKey' \in 0..nsets'
      /\ dataKey' \in 0..Len(data') /\ 0 \in 0..Len(data')
      /\ my[p].did \in 0..Len(data') /\ my[p].data \in 0..Len(data')
  BY <1>1
<1>3. CASE UNCHANGED my /\ (l \in Mapping => my[p].data # 0)
  <2>1. my' = [my EXCEPT ![p] = my[p]]
    BY <1>1, <1>3
  <2> QED
    BY <1>1, <1>2, <1>3, <2>1, TypeStep
<1>4. CASE my' = [my EXCEPT ![p] = Fresh] /\ l \notin Mapping
  <2> DEFINE m == Fresh
  <2>1. /\ my' = [my EXCEPT ![p] = m] /\ m \in Local
        /\ m.did \in 0..Len(data') /\ m.data \in 0..Len(data') /\ l \notin Mapping
    BY <1>2, <1>4, FreshLocal
  <2> HIDE DEF m
  <2> QED
    BY <1>2, <2>1, TypeStep
<1>5. ASSUME NEW m \in Local, my' = [my EXCEPT ![p] = m], m.did = my[p].did,
             m.data \in {0, my[p].data}, l \in Mapping => m.data # 0
      PROVE  TypeInv'
  <2>1. m.did \in 0..Len(data') /\ m.data \in 0..Len(data')
    BY <1>2, <1>5
  <2> QED
    BY <1>2, <1>5, <2>1, TypeStep
<1> QED
  BY <1>3, <1>4, <1>5

(* Semaphore 0 is binary: it is taken at 0 and given back at 1, whether    *)
(* the constructor has waited for it or was cut short.                     *)
LEMMA SemBit ==
  ASSUME sem0 \in {0, 1}, [Next]_vars
  PROVE  sem0' \in {0, 1}
<1> SUFFICES ASSUME NEW p \in Procs,
                    \/ Start(p) \/ StartFails(p) \/ Semop(p) \/ SemopCutShort(p)
                    \/ Construct(p) \/ ArriveFails(p) \/ Leave(p) \/ Destroy(p) \/ Die(p)
             PROVE  sem0' \in {0, 1}
  BY DEF Next, vars
<1>1. CASE \/ Start(p) \/ StartFails(p) \/ Semop(p) \/ SemopCutShort(p)
           \/ Leave(p) \/ Destroy(p) \/ Die(p)
  BY <1>1 DEF Start, StartFails, Semop, SemopCutShort, Leave, Destroy, Count, Uncount, Stat,
              RemoveFifo, Shmdt, Stat2, RemoveData, RemoveSems, Die
<1>2. CASE Construct(p) \/ ArriveFails(p)
  <2>1. UNCHANGED sem0 \/ Release(p)
    BY <1>2 DEF Construct, Shmget, Shmat, Test, Initialise, InitialiseFails, Check, Attach,
                OutOfBounds, Mark, Bump, ArriveFails
  <2> QED
    BY <2>1 DEF Release
<1> QED
  BY <1>1, <1>2

(* A data segment changed.                                                 *)
LEMMA SegSet ==
  ASSUME data \in Seq(Segment), NEW d \in 1..Len(data), NEW g \in Segment,
         data' = [data EXCEPT ![d] = g]
  PROVE  /\ data' \in Seq(Segment) /\ Len(data') = Len(data)
         /\ \A e \in 1..Len(data) : data'[e] = IF e = d THEN g ELSE data[e]
OBVIOUS

LEMMA MySegment ==
  ASSUME TypeInv, NEW p \in Procs, pc[p] \in Mapping
  PROVE  my[p].data \in 1..Len(data) /\ Seg(p) \in Segment /\ my[p] \in Local
BY DEF TypeInv, Types, MapInv, Seg

(* A step of the constructor up to the test of the segment.                *)
LEMMA TypeArrives ==
  ASSUME TypeInv, sem0' \in {0, 1}, NEW p \in Procs,
         \/ Start(p) \/ StartFails(p) \/ Semop(p) \/ SemopCutShort(p)
         \/ Shmget(p) \/ Shmat(p) \/ ArriveFails(p) \/ Test(p)
  PROVE  TypeInv'
<1> USE DEF Sems, Data, Fifo, Mapping, PC, InCtor, InDtor
<1>1. /\ my[p] \in Local /\ data \in Seq(Segment) /\ Len(data) \in Nat /\ nsets \in Nat
      /\ semKey \in 0..nsets /\ dataKey \in 0..Len(data) /\ nfifos \in Nat /\ fifoKey \in Nat
      /\ my[p].did \in 0..Len(data) /\ my[p].data \in 0..Len(data)
  BY DEF TypeInv, Types, MapInv
<1>2. CASE Start(p)
  <2>1. PICK k \in Nat : my' = [my EXCEPT ![p].sem = k]
    BY <1>1, <1>2 DEF Start
  <2> DEFINE m == [my[p] EXCEPT !.sem = k]
  <2>2. m \in Local /\ m.did = my[p].did /\ m.data = my[p].data /\ my' = [my EXCEPT ![p] = m]
    BY <1>1, <2>1 DEF Local
  <2>3. semKey' \in 0..nsets' /\ nsets' \in Nat /\ UNCHANGED <<dataKey, data, fifoKey, nfifos>>
    BY <1>1, <1>2 DEF Start
  <2>4. Goto(p, "semop") /\ "semop" \in PC /\ "semop" \notin Mapping
    BY <1>2 DEF Start
  <2>5. m.did \in 0..Len(data') /\ m.data \in 0..Len(data') /\ Len(data) <= Len(data')
    BY <1>1, <2>2, <2>3
  <2> HIDE DEF m, Mapping, PC
  <2> QED
    BY <1>1, <2>2, <2>3, <2>4, <2>5, TypeStep
<1>3. CASE Semop(p) \/ SemopCutShort(p)
  BY <1>1, <1>3, TypeMoves DEF Semop, SemopCutShort
<1>4. CASE Shmget(p)
  <2>1. data' \in Seq(Segment) /\ Len(data) <= Len(data') /\ dataKey' \in 0..Len(data')
    <3>1. CASE dataKey = 0
      <4>1. data' = Append(data, Blank) /\ dataKey' = Len(data) + 1
        BY <1>4, <3>1 DEF Shmget
      <4>2. data' \in Seq(Segment) /\ Len(data') = Len(data) + 1
        BY <1>1, <4>1, BlankSegment
      <4> QED
        BY <1>1, <4>1, <4>2
    <3>2. CASE dataKey # 0
      BY <1>1, <1>4, <3>2 DEF Shmget
    <3> QED
      BY <3>1, <3>2
  <2>2. my' = [my EXCEPT ![p].did = dataKey']
    BY <1>4 DEF Shmget
  <2> DEFINE m == [my[p] EXCEPT !.did = dataKey']
  <2>3. Len(data') \in Nat /\ dataKey' \in Nat
    BY <2>1
  <2>4. m \in Local /\ m.did = dataKey' /\ m.data = my[p].data /\ my' = [my EXCEPT ![p] = m]
    BY <1>1, <2>2, <2>3 DEF Local
  <2>5. m.did \in 0..Len(data') /\ m.data \in 0..Len(data')
    BY <1>1, <2>1, <2>3, <2>4
  <2>6. /\ Goto(p, "shmat") /\ "shmat" \in PC /\ "shmat" \notin Mapping
        /\ UNCHANGED <<semKey, nsets, fifoKey, nfifos>>
    BY <1>4 DEF Shmget
  <2> HIDE DEF m, Mapping, PC
  <2> QED
    BY <1>1, <2>1, <2>4, <2>5, <2>6, TypeStep
<1>5. CASE Shmat(p)
  <2> DEFINE m == [my[p] EXCEPT !.data = my[p].did]
  <2>1. m \in Local /\ m.did = my[p].did /\ m.data = my[p].did /\ my[p].did # 0
    BY <1>1, <1>5 DEF Local, DataExists, Shmat
  <2>2. /\ my' = [my EXCEPT ![p] = m] /\ Goto(p, "test") /\ "test" \in PC
        /\ UNCHANGED <<semKey, nsets, dataKey, data, fifoKey, nfifos>>
    BY <1>5 DEF Shmat
  <2>3. m.did \in 0..Len(data') /\ m.data \in 0..Len(data') /\ Len(data) <= Len(data')
    BY <1>1, <2>1, <2>2
  <2> HIDE DEF m, Mapping, PC
  <2> QED
    BY <1>1, <2>1, <2>2, <2>3, TypeStep
<1>6. CASE Test(p)
  <2>1. my[p].data # 0
    BY <1>6 DEF Test, TypeInv, MapInv
  <2>2. PICK l \in {"check", "init"} : Goto(p, l)
    BY <1>6 DEF Test
  <2> QED
    BY <1>1, <1>6, <2>1, <2>2, TypeMoves DEF Test
<1>7. CASE StartFails(p) \/ ArriveFails(p)
  BY <1>1, <1>7, TypeMoves DEF StartFails, ArriveFails
<1> QED
  BY <1>2, <1>3, <1>4, <1>5, <1>6, <1>7

(* A step at which p has mapped the data segment, and may change it.       *)
LEMMA TypeMapped ==
  ASSUME TypeInv, NEW p \in Procs, pc[p] \in Mapping, NEW l \in PC, Goto(p, l),
         NEW g \in Segment, data' = [data EXCEPT ![my[p].data] = g],
         UNCHANGED <<nsets, semKey, dataKey>>, nfifos' \in Nat, fifoKey' \in Nat,
         sem0' \in {0, 1},
         \/ UNCHANGED my
         \/ \E m \in Local : /\ my' = [my EXCEPT ![p] = m] /\ m.did = my[p].did
                             /\ m.data = my[p].data
  PROVE  TypeInv'
<1>1. my[p].data \in 1..Len(data) /\ data \in Seq(Segment)
  BY MySegment DEF TypeInv, Types
<1>2. data' \in Seq(Segment) /\ Len(data') = Len(data) /\ my[p].data # 0
  BY <1>1, SegSet
<1> QED
  BY <1>2, TypeMoves

(* The slot that the next user takes is one of its role.                   *)
LEMMA NextSlotType ==
  ASSUME NEW p \in Procs, Seg(p) \in Segment, p \in Samplers => NextSlot(p) < MaxSM
  PROVE  /\ NextSlot(p) \in Slots
         /\ p \in Samplers => NextSlot(p) \in 0..(MaxSM - 1)
<1>1. MaxSM \in Nat /\ MaxSM \in Slots /\ MaxSM + 1 \in Slots
  BY AttachAssumption DEF Slots
<1>2. CASE p \in Samplers
  <2>1. NextSlot(p) \in Nat /\ NextSlot(p) < MaxSM
    BY <1>2, AttachAssumption DEF NextSlot, Segment
  <2> QED
    BY <1>1, <2>1 DEF Slots
<1>3. CASE p \notin Samplers
  <2>1. NextSlot(p) \in {MaxSM, MaxSM + 1}
    BY <1>3 DEF NextSlot, SlotOf, Procs, RdSlot, WrSlot
  <2> QED
    BY <1>1, <1>3, <2>1
<1> QED
  BY <1>2, <1>3

LEMMA TypeAttaches ==
  ASSUME TypeInv, sem0' \in {0, 1}, NEW p \in Procs,
         \/ Initialise(p) \/ InitialiseFails(p) \/ Check(p) \/ Attach(p)
         \/ Mark(p) \/ Bump(p)
  PROVE  TypeInv'
<1> USE DEF Sems, Data, Fifo, PC, InCtor, InDtor
<1>1. pc[p] \in Mapping
  BY DEF Initialise, InitialiseFails, Check, Attach, Mark, Bump, Mapping
<1>2. /\ my[p].data \in 1..Len(data) /\ Seg(p) \in Segment /\ my[p] \in Local
      /\ Seg(p) = data[my[p].data] /\ my[p].data # 0
      /\ data \in Seq(Segment) /\ nfifos \in Nat /\ fifoKey \in Nat
  BY <1>1, MySegment DEF Seg, TypeInv, Types
<1>3. CASE Initialise(p)
  <2> DEFINE f == IF fifoKey = 0 THEN nfifos + 1 ELSE fifoKey
             g == [Seg(p) EXCEPT !.init = TRUE, !.semid = my[p].sem, !.fifo = f, !.nsampler = 0]
  <2>1. f \in Nat /\ fifoKey' = f /\ nfifos' \in Nat
    BY <1>2, <1>3 DEF Initialise
  <2>2. g \in Segment
    <3>1. my[p].sem \in Nat /\ 0 \in 0..(Width - 1)
      BY <1>2, AttachAssumption DEF Local
    <3> HIDE DEF f
    <3> QED
      BY <1>2, <2>1, <3>1 DEF Segment
  <2>3. data' = [data EXCEPT ![my[p].data] = g]
    BY <1>2, <1>3 DEF Initialise
  <2> HIDE DEF f, g
  <2> QED
    BY <1>1, <1>3, <2>1, <2>2, <2>3, TypeMapped DEF Initialise
<1>4. CASE Check(p)
  <2>1. PICK l \in {"invalid", "attach"} : Goto(p, l)
    BY <1>4 DEF Check
  <2> QED
    BY <1>2, <1>4, <2>1, TypeMoves DEF Check
<1>5. CASE Attach(p)
  <2>1. NextSlot(p) \in Slots
    BY <1>2, <1>5, NextSlotType DEF Attach
  <2>2. PICK x \in {p, NoProc}, l \in {"mark", "invalid"} :
          data' = [data EXCEPT ![my[p].data].start[NextSlot(p)] = x] /\ Goto(p, l)
    BY <1>5 DEF Attach
  <2> DEFINE g == [Seg(p) EXCEPT !.start[NextSlot(p)] = x]
  <2>3. g \in Segment /\ data' = [data EXCEPT ![my[p].data] = g]
    BY <1>2, <2>1, <2>2 DEF Segment
  <2>4. \/ UNCHANGED my
        \/ \E m \in Local : /\ my' = [my EXCEPT ![p] = m] /\ m.did = my[p].did
                            /\ m.data = my[p].data
    <3> DEFINE m == [my[p] EXCEPT !.fifo = Seg(p).fifo]
    <3>1. m \in Local /\ m.did = my[p].did /\ m.data = my[p].data
      BY <1>2 DEF Local, Segment
    <3>2. UNCHANGED my \/ my' = [my EXCEPT ![p] = m]
      BY <1>2, <1>5 DEF Attach
    <3> HIDE DEF m
    <3> QED
      BY <3>1, <3>2
  <2>5. l \in PC
    BY <2>2
  <2> HIDE DEF g
  <2> QED
    BY <1>1, <1>2, <1>5, <2>2, <2>3, <2>4, <2>5, TypeMapped DEF Attach
<1>6. CASE Mark(p)
  <2>1. NextSlot(p) \in Slots /\ (p \in Samplers => NextSlot(p) \in 0..(MaxSM - 1))
    BY <1>2, <1>6, NextSlotType DEF Mark
  <2>2. PICK l \in {"bump", "in"} : Goto(p, l)
    BY <1>6 DEF Mark
  <2> DEFINE g == [Seg(p) EXCEPT !.user[NextSlot(p)] = "PRESENT"]
  <2>3. g \in Segment /\ data' = [data EXCEPT ![my[p].data] = g]
    BY <1>2, <1>6, <2>1 DEF Segment, Mark
  <2>4. \/ UNCHANGED my
        \/ \E m \in Local : /\ my' = [my EXCEPT ![p] = m] /\ m.did = my[p].did
                            /\ m.data = my[p].data
    <3> DEFINE m == [my[p] EXCEPT !.sam_ind = NextSlot(p), !.n = NextSlot(p)]
    <3>1. CASE p \in Samplers
      <4>1. NextSlot(p) \in 0..(MaxSM - 1) /\ NextSlot(p) \in 0..(Width - 1)
        BY <2>1, <3>1, AttachAssumption
      <4>2. m \in Local /\ m.did = my[p].did /\ m.data = my[p].data
        BY <1>2, <4>1 DEF Local
      <4>3. my' = [my EXCEPT ![p] = m]
        BY <1>2, <1>6, <3>1 DEF Mark
      <4> HIDE DEF m
      <4> QED
        BY <4>2, <4>3
    <3>2. CASE p \notin Samplers
      BY <1>6, <3>2 DEF Mark
    <3> QED
      BY <3>1, <3>2
  <2>5. l \in PC
    BY <2>2
  <2> HIDE DEF g
  <2> QED
    BY <1>1, <1>2, <1>6, <2>2, <2>3, <2>4, <2>5, TypeMapped DEF Mark
<1>7. CASE Bump(p)
  <2> DEFINE n == (my[p].n + 1) % Width
             g == [Seg(p) EXCEPT !.nsampler = n]
  <2>1. n \in 0..(Width - 1)
    BY <1>2, AttachAssumption DEF Local
  <2>2. g \in Segment /\ data' = [data EXCEPT ![my[p].data] = g]
    BY <1>2, <1>7, <2>1 DEF Segment, Bump
  <2> HIDE DEF n, g
  <2> QED
    BY <1>1, <1>2, <1>7, <2>2, TypeMapped DEF Bump
<1>8. CASE InitialiseFails(p)
  <2> DEFINE g == [Seg(p) EXCEPT !.semid = my[p].sem, !.fifo = 0, !.nsampler = 0]
  <2>1. g \in Segment
    <3>1. my[p].sem \in Nat /\ 0 \in 0..(Width - 1)
      BY <1>2, AttachAssumption DEF Local
    <3> QED
      BY <1>2, <3>1 DEF Segment
  <2>2. data' = [data EXCEPT ![my[p].data] = g]
    BY <1>2, <1>8 DEF InitialiseFails
  <2> HIDE DEF g
  <2> QED
    BY <1>1, <1>2, <1>8, <2>1, <2>2, TypeMapped DEF InitialiseFails
<1> QED
  BY <1>3, <1>4, <1>5, <1>6, <1>7, <1>8

(* Leaving, and the end of a process.                                      *)
LEMMA TypeLeaves ==
  ASSUME TypeInv, sem0' \in {0, 1}, NEW p \in Procs,
         Leave(p) \/ Count(p) \/ Uncount(p) \/ Stat(p)
  PROVE  TypeInv'
<1> USE DEF Sems, Data, Fifo, PC, InCtor, InDtor
<1>1. pc[p] \in Mapping
  BY DEF Leave, Count, Uncount, Stat, Mapping
<1>2. /\ my[p].data \in 1..Len(data) /\ Seg(p) \in Segment /\ my[p] \in Local
      /\ Seg(p) = data[my[p].data] /\ my[p].data # 0
      /\ data \in Seq(Segment) /\ nfifos \in Nat /\ fifoKey \in Nat
  BY <1>1, MySegment DEF Seg, TypeInv, Types
<1>3. CASE Leave(p)
  <2> DEFINE g == [Seg(p) EXCEPT !.user[SlotOf(p)] = "MISSING"]
             m == [my[p] EXCEPT !.fifo = 0]
  <2>1. g \in Segment /\ data' = [data EXCEPT ![my[p].data] = g]
    BY <1>2, <1>3 DEF Segment, Leave
  <2>2. m \in Local /\ m.did = my[p].did /\ m.data = my[p].data
    BY <1>2 DEF Local
  <2>3. UNCHANGED my \/ my' = [my EXCEPT ![p] = m]
    BY <1>2, <1>3 DEF Leave
  <2>4. PICK l \in {"leave", "stat"} : Goto(p, l)
    BY <1>3 DEF Leave
  <2>5. l \in PC
    BY <2>4
  <2> HIDE DEF g, m
  <2> QED
    BY <1>1, <1>2, <1>3, <2>1, <2>2, <2>3, <2>4, <2>5, TypeMapped DEF Leave
<1>4. CASE Count(p)
  <2> DEFINE m == [my[p] EXCEPT !.n = Seg(p).nsampler]
  <2>1. m \in Local /\ m.did = my[p].did /\ m.data = my[p].data /\ my' = [my EXCEPT ![p] = m]
    BY <1>2, <1>4 DEF Local, Segment, Count
  <2> HIDE DEF m
  <2> QED
    BY <1>2, <1>4, <2>1, TypeMoves DEF Count
<1>5. CASE Uncount(p)
  <2> DEFINE n == (my[p].n + Width - 1) % Width
             g == [Seg(p) EXCEPT !.nsampler = n]
  <2>1. n \in 0..(Width - 1)
    BY <1>2, AttachAssumption DEF Local
  <2>2. g \in Segment /\ data' = [data EXCEPT ![my[p].data] = g]
    BY <1>2, <1>5, <2>1 DEF Segment, Uncount
  <2> HIDE DEF n, g
  <2> QED
    BY <1>1, <1>2, <1>5, <2>2, TypeMapped DEF Uncount
<1>6. CASE Stat(p)
  <2>1. PICK none \in BOOLEAN : /\ my' = [my EXCEPT ![p].none = none]
                                /\ Goto(p, IF none THEN "rmfifo" ELSE "shmdt")
    BY <1>6 DEF Stat
  <2> DEFINE m == [my[p] EXCEPT !.none = none]
             l == IF none THEN "rmfifo" ELSE "shmdt"
  <2>2. m \in Local /\ m.did = my[p].did /\ m.data = my[p].data /\ my' = [my EXCEPT ![p] = m]
    BY <1>2, <2>1 DEF Local
  <2>3. l \in PC /\ Goto(p, l)
    BY <2>1
  <2> HIDE DEF m, l
  <2> QED
    BY <1>2, <1>6, <2>2, <2>3, TypeMoves DEF Stat
<1> QED
  BY <1>3, <1>4, <1>5, <1>6

LEMMA TypeRemoves ==
  ASSUME TypeInv, sem0' \in {0, 1}, NEW p \in Procs,
         \/ RemoveFifo(p) \/ Shmdt(p) \/ Stat2(p) \/ RemoveData(p) \/ RemoveSems(p)
         \/ OutOfBounds(p) \/ Die(p)
  PROVE  TypeInv'
<1> USE DEF Sems, Data, Fifo, PC, InCtor, InDtor, Mapping
<1>1. /\ my[p] \in Local /\ data \in Seq(Segment) /\ Len(data) \in Nat /\ nsets \in Nat
      /\ semKey \in 0..nsets /\ dataKey \in 0..Len(data) /\ nfifos \in Nat /\ fifoKey \in Nat
      /\ my[p].did \in 0..Len(data) /\ my[p].data \in 0..Len(data)
  BY DEF TypeInv, Types, MapInv
<1>2. CASE RemoveFifo(p)
  <2>1. my[p].data # 0 /\ fifoKey' \in Nat
    BY <1>1, <1>2 DEF RemoveFifo, TypeInv, MapInv
  <2> QED
    BY <1>1, <1>2, <2>1, TypeMoves DEF RemoveFifo
<1>3. CASE Shmdt(p)
  <2>1. Seg(p).semid \in Nat
    BY <1>3, MySegment DEF Shmdt, Segment
  <2> DEFINE m == [my[p] EXCEPT !.data = 0, !.sem = Seg(p).semid]
  <2>2. m \in Local /\ m.did = my[p].did /\ m.data = 0 /\ my' = [my EXCEPT ![p] = m]
    BY <1>1, <1>3, <2>1 DEF Local, Shmdt
  <2> HIDE DEF m
  <2> QED
    BY <1>1, <1>3, <2>2, TypeMoves DEF Shmdt
<1>4. CASE Stat2(p)
  <2>1. CASE Goto(p, "rmdata") /\ UNCHANGED my
    BY <1>1, <1>4, <2>1, TypeMoves DEF Stat2
  <2>2. CASE Goto(p, "gone") /\ my' = [my EXCEPT ![p] = Fresh]
    BY <1>1, <1>4, <2>2, TypeMoves DEF Stat2
  <2> QED
    BY <1>4, <2>1, <2>2 DEF Stat2
<1>5. CASE RemoveData(p) \/ RemoveSems(p)
  <2>1. PICK l \in {"rmsem", "gone"} : /\ Goto(p, l)
                                       /\ UNCHANGED my \/ my' = [my EXCEPT ![p] = Fresh]
    BY <1>5 DEF RemoveData, RemoveSems
  <2>2. /\ semKey' \in 0..nsets /\ dataKey' \in 0..Len(data)
        /\ UNCHANGED <<data, nsets, fifoKey, nfifos>>
    BY <1>1, <1>5 DEF RemoveData, RemoveSems
  <2> DEFINE m == my'[p]
  <2>3. /\ m \in {my[p], Fresh} /\ my' = [my EXCEPT ![p] = m]
        /\ l \in PC /\ l \notin Mapping
    BY <2>1 DEF TypeInv, Types
  <2>4. m \in Local /\ m.did \in 0..Len(data') /\ m.data \in 0..Len(data')
    BY <1>1, <2>2, <2>3, FreshLocal
  <2>5. semKey' \in 0..nsets' /\ dataKey' \in 0..Len(data') /\ Len(data) <= Len(data')
    BY <1>1, <2>2
  <2> HIDE DEF m
  <2> QED
    BY <1>1, <2>1, <2>2, <2>3, <2>4, <2>5, TypeStep
<1>6. CASE OutOfBounds(p)
  BY <1>1, <1>6, TypeMoves DEF OutOfBounds
<1>7. CASE Die(p)
  BY <1>1, <1>7, TypeMoves DEF Die
<1> QED
  BY <1>2, <1>3, <1>4, <1>5, <1>6, <1>7

LEMMA TypeNext == ASSUME TypeInv, [Next]_vars PROVE TypeInv'
<1>1. sem0' \in {0, 1}
  BY SemBit DEF TypeInv, Types
<1>2. CASE Next
  BY <1>1, <1>2, TypeArrives, TypeAttaches, TypeLeaves, TypeRemoves DEF Next, Construct, Destroy
<1>3. CASE UNCHANGED vars
  BY <1>3 DEF vars, TypeInv, Types, MapInv
<1> QED
  BY <1>2, <1>3

LEMMA HarmType == ASSUME harm \subseteq {"overlap", "cut", "refused", "died"}, [Next]_vars
                  PROVE  harm' \subseteq {"overlap", "cut", "refused", "died"}
BY DEF Next, vars, Start, SemopCutShort, Leave, HarmOfLeaving, Overlap

(* Counters of samplers stay below Width and indices inside the array,     *)
(* semaphore 0 is 0 or 1, and nobody uses a data segment never made,       *)
(* whatever overlaps, fails or is interrupted.                             *)
THEOREM AttachTypeCorrect == Spec => []TypeOK
<1> DEFINE Inv == TypeInv /\ harm \subseteq {"overlap", "cut", "refused", "died"}
<1>1. Init => Inv
  BY TypeInit DEF Init
<1>2. Inv /\ [Next]_vars => Inv'
  BY TypeNext, HarmType
<1>3. Inv => TypeOK
  BY DEF TypeInv, Types, TypeOK
<1> QED
  BY <1>1, <1>2, <1>3, PTL DEF Spec

-----------------------------------------------------------------------------
(* One FIFO for all: the data segment that a process has mapped and not    *)
(* begun to leave is the one the key leads to.                             *)

Inside == {"test", "init", "check", "attach", "mark", "bump", "in", "invalid"}
Removing == {"rmdata", "rmsem"}

Place(p) ==
  /\ pc[p] \in Inside \cup {"shmat"} => dataKey # 0 /\ my[p].did = dataKey
  /\ pc[p] \in Inside => my[p].data = dataKey
  /\ pc[p] \in InDtor => dataKey \in {0, my[p].did}
  /\ pc[p] = "rmsem" => dataKey = 0
  /\ pc[p] \in Inside \ {"test", "init", "invalid"} => Seg(p).init
  /\ pc[p] = "init" => ~ Seg(p).init
  /\ pc[p] \in {"mark", "bump", "in"} => my[p].fifo = Seg(p).fifo

(* A segment that somebody has begun to fill has the set of semaphores     *)
(* that is there.                                                          *)
KeysInv == dataKey # 0 => /\ semKey # 0
                          /\ data[dataKey].semid \in {0, semKey}
                          /\ data[dataKey].init => data[dataKey].semid # 0

(* Nobody removes the segment while somebody is inside.                    *)
RemoveInv == \A p, q \in Procs : ~ (pc[p] \in Removing /\ pc[q] \in Inside)

SegInv == (\A p \in Procs : Place(p)) /\ KeysInv /\ RemoveInv

(* The parts of the segments that this is about stay as they are.          *)
SameData == \A e \in 1..Len(data) : /\ data'[e].init = data[e].init
                                    /\ data'[e].semid = data[e].semid
                                    /\ data'[e].fifo = data[e].fifo

LEMMA InsideMaps ==
  ASSUME TypeInv, NEW p \in Procs, pc[p] \in Inside
  PROVE  my[p].data \in 1..Len(data) /\ Seg(p) = data[my[p].data] /\ Seg(p) \in Segment
BY MySegment DEF Inside, Mapping, Seg

(* A process that stays where it is.                                       *)
LEMMA PlaceStays ==
  ASSUME TypeInv, NEW q \in Procs, Place(q), pc'[q] = pc[q], my'[q] = my[q],
         UNCHANGED dataKey, SameData
  PROVE  Place(q)'
<1>1. CASE pc[q] \in Inside
  <2>1. /\ Seg(q)' = data'[my[q].data] /\ Seg(q)'.init = Seg(q).init
        /\ Seg(q)'.fifo = Seg(q).fifo
    BY <1>1, InsideMaps DEF SameData, Seg
  <2> QED
    BY <2>1 DEF Place
<1>2. CASE pc[q] \notin Inside
  BY <1>2 DEF Place, Inside
<1> QED
  BY <1>1, <1>2

LEMMA KeysStay ==
  ASSUME TypeInv, KeysInv, UNCHANGED <<dataKey, semKey>>, SameData
  PROVE  KeysInv'
BY DEF KeysInv, SameData, TypeInv, Types

(* A step of p that leaves keys and segments as they are.                  *)
LEMMA SegFrame ==
  ASSUME TypeInv, SegInv, NEW p \in Procs, NEW l \in PC, Goto(p, l),
         \A q \in Procs \ {p} : my'[q] = my[q], UNCHANGED <<dataKey, semKey>>, SameData,
         Place(p)',
         l \in Inside => pc[p] \in Inside \/ \A q \in Procs : pc[q] \notin Removing,
         l \in Removing => pc[p] \in Removing \/ \A q \in Procs : pc[q] \notin Inside
  PROVE  SegInv'
<1>1. \A q \in Procs : pc'[q] = IF q = p THEN l ELSE pc[q]
  BY DEF Goto, TypeInv, Types
<1>2. \A q \in Procs : Place(q)'
  BY <1>1, PlaceStays DEF SegInv
<1>3. KeysInv'
  BY KeysStay DEF SegInv
<1>4. RemoveInv'
  <2>1. Inside \cap Removing = {}
    BY DEF Inside, Removing
  <2> QED
    BY <1>1, <2>1 DEF SegInv, RemoveInv
<1> QED
  BY <1>2, <1>3, <1>4 DEF SegInv

(* Nobody leaves while p constructs, and nobody else constructs.           *)
LEMMA Alone ==
  ASSUME CtorInv, NEW p \in Procs, pc[p] \in InCtor
  PROVE  /\ my[p].sem = semKey /\ semKey # 0
         /\ \A q \in Procs : /\ pc[q] \notin InDtor /\ pc[q] \notin Removing
                             /\ q # p => pc[q] \notin InCtor
<1>1. pc[p] \in Ctor /\ Removing \subseteq InDtor
  BY DEF Ctor, Removing, InDtor
<1> QED
  BY <1>1 DEF CtorInv, SemInv

(* The constructor until it has mapped the segment.                        *)
LEMMA SegArrives ==
  ASSUME TypeInv, CtorInv, SegInv, NEW p \in Procs,
         Start(p) \/ Semop(p) \/ Shmat(p) \/ Test(p) \/ Check(p)
  PROVE  SegInv'
<1> USE DEF Sems, Data, Fifo
<1>1. CASE Start(p)
  <2>1. \A q \in Procs : pc'[q] = IF q = p THEN "semop" ELSE pc[q]
    BY <1>1 DEF Start, Goto, TypeInv, Types
  <2>2. \A q \in Procs \ {p} : my'[q] = my[q]
    BY <1>1 DEF Start, TypeInv, Types
  <2>3. UNCHANGED <<dataKey, data>> /\ (semKey # 0 => UNCHANGED semKey)
    BY <1>1 DEF Start
  <2>4. SameData
    BY <2>3 DEF SameData
  <2>5. \A q \in Procs : Place(q)'
    <3>1. Place(p)'
      BY <2>1 DEF Place, Inside, InDtor
    <3> QED
      BY <2>1, <2>2, <2>3, <2>4, <3>1, PlaceStays DEF SegInv
  <2>6. KeysInv' /\ RemoveInv'
    BY <2>1, <2>3 DEF SegInv, KeysInv, RemoveInv, Inside, Removing
  <2> QED
    BY <2>5, <2>6 DEF SegInv
<1>2. CASE Semop(p)
  <2>1. /\ Goto(p, "shmget") /\ "shmget" \in PC /\ "shmget" \notin Inside \cup Removing
        /\ UNCHANGED <<my, dataKey, semKey, data>>
    BY <1>2 DEF Semop, PC, InCtor, Inside, Removing
  <2>2. SameData
    BY <2>1 DEF SameData
  <2>3. Place(p)'
    BY <2>1 DEF Place, Goto, Inside, InDtor, TypeInv, Types
  <2> QED
    BY <2>1, <2>2, <2>3, SegFrame
<1>3. CASE Shmat(p)
  <2>1. pc[p] = "shmat" /\ dataKey # 0 /\ my[p].did = dataKey
    BY <1>3 DEF Shmat, SegInv, Place
  <2>2. /\ my' = [my EXCEPT ![p].data = my[p].did] /\ Goto(p, "test")
        /\ UNCHANGED <<dataKey, semKey, data>>
    BY <1>3 DEF Shmat
  <2>3. my'[p] = [my[p] EXCEPT !.data = my[p].did] /\ \A q \in Procs \ {p} : my'[q] = my[q]
    BY <2>2 DEF TypeInv, Types
  <2>4. my'[p].data = dataKey /\ my'[p].did = dataKey
    BY <2>1, <2>3 DEF TypeInv, Types, Local
  <2>5. Place(p)'
    BY <2>1, <2>2, <2>4 DEF Place, Goto, Inside, InDtor, TypeInv, Types
  <2>6. SameData /\ "test" \in PC /\ "test" \notin Removing
    BY <2>2 DEF SameData, PC, InCtor, Removing
  <2>7. \A q \in Procs : pc[q] \notin Removing
    BY <2>1, Alone DEF InCtor
  <2> QED
    BY <2>2, <2>3, <2>5, <2>6, <2>7, SegFrame
<1>4. CASE Test(p) \/ Check(p)
  <2>1. pc[p] \in Inside /\ UNCHANGED <<my, dataKey, semKey, data>>
    BY <1>4 DEF Test, Check, Inside
  <2>2. PICK l \in {"check", "init", "invalid", "attach"} :
          /\ Goto(p, l)
          /\ pc[p] = "test" => l = IF Seg(p).init THEN "check" ELSE "init"
          /\ pc[p] # "test" => pc[p] = "check" /\ l \in {"invalid", "attach"}
    BY <1>4 DEF Test, Check
  <2>3. Place(p)'
    BY <2>1, <2>2 DEF SegInv, Place, Goto, Inside, InDtor, Seg, TypeInv, Types
  <2>4. SameData /\ l \in PC /\ l \notin Removing
    BY <2>1, <2>2 DEF SameData, PC, InCtor, Removing
  <2> QED
    BY <2>1, <2>2, <2>3, <2>4, SegFrame
<1> QED
  BY <1>1, <1>2, <1>3, <1>4

LEMMA SegShmget ==
  ASSUME TypeInv, CtorInv, SegInv, NEW p \in Procs, Shmget(p)
  PROVE  SegInv'
<1> USE DEF Sems, Data, Fifo
<1>1. /\ pc[p] = "shmget" /\ pc[p] \in InCtor /\ Goto(p, "shmat") /\ "shmat" \in PC
      /\ "shmat" \notin Inside \cup Removing \cup InDtor /\ UNCHANGED semKey
  BY DEF Shmget, PC, InCtor, InDtor, Inside, Removing
<1>2. semKey # 0 /\ \A q \in Procs : pc[q] \notin InDtor
  BY <1>1, Alone
<1>3. \A q \in Procs : pc'[q] = IF q = p THEN "shmat" ELSE pc[q]
  BY <1>1 DEF Goto, TypeInv, Types
<1>4. my' = [my EXCEPT ![p].did = dataKey'] /\ data \in Seq(Segment) /\ dataKey \in 0..Len(data)
  BY DEF Shmget, TypeInv, Types
<1>5. /\ my'[p] = [my[p] EXCEPT !.did = dataKey'] /\ my[p] \in Local
      /\ \A q \in Procs \ {p} : my'[q] = my[q]
  BY <1>4 DEF TypeInv, Types
<1>6. my'[p].did = dataKey'
  BY <1>5 DEF Local
<1>7. dataKey' # 0 => Place(p)'
  BY <1>1, <1>3, <1>6 DEF Place, Inside
<1>8. CASE dataKey = 0
  <2>1. data' = Append(data, Blank) /\ dataKey' = Len(data) + 1
    BY <1>8 DEF Shmget
  <2>2. dataKey' # 0 /\ data'[dataKey'] = Blank
    BY <1>4, <2>1
  <2>3. KeysInv'
    BY <1>1, <1>2, <2>2 DEF KeysInv, Blank
  <2>4. \A q \in Procs : pc[q] \notin Inside \cup {"shmat"} \cup InDtor
    BY <1>2, <1>8 DEF SegInv, Place
  <2>5. \A q \in Procs \ {p} : pc'[q] \notin Inside \cup {"shmat"} \cup InDtor
    BY <1>3, <2>4
  <2>6. \A q \in Procs \ {p} : Place(q)'
    BY <2>5 DEF Place, Inside, InDtor
  <2>7. RemoveInv'
    BY <1>1, <1>3, <2>5 DEF RemoveInv
  <2> QED
    BY <1>7, <2>2, <2>3, <2>6, <2>7 DEF SegInv
<1>9. CASE dataKey # 0
  <2>1. UNCHANGED <<data, dataKey>>
    BY <1>9 DEF Shmget
  <2>2. SameData
    BY <2>1 DEF SameData
  <2> QED
    BY <1>1, <1>5, <1>7, <1>9, <2>1, <2>2, SegFrame
<1> QED
  BY <1>8, <1>9

(* Who fills the segment is the only one inside it, but for those who have *)
(* failed to.                                                              *)
LEMMA InitAlone ==
  ASSUME TypeInv, CtorInv, SegInv, NEW p \in Procs, pc[p] = "init"
  PROVE  \A q \in Procs \ {p} : pc[q] \notin (Inside \ {"invalid"}) \cup {"shmat"} \cup InDtor
<1>1. /\ pc[p] \in InCtor /\ ~ Seg(p).init /\ my[p].data = dataKey
  BY DEF InCtor, Inside, SegInv, Place
<1> SUFFICES ASSUME NEW q \in Procs \ {p},
                    pc[q] \in (Inside \ {"invalid"}) \cup {"shmat"} \cup InDtor
             PROVE  FALSE
  OBVIOUS
<1>2. pc[q] \notin InCtor /\ pc[q] \notin InDtor
  BY <1>1, Alone
<1>3. pc[q] = "in"
  BY <1>2 DEF Inside, InCtor
<1>4. Seg(q).init /\ my[q].data = dataKey
  BY <1>3 DEF SegInv, Place, Inside
<1> QED
  BY <1>1, <1>4 DEF Seg

LEMMA SegInitialise ==
  ASSUME TypeInv, CtorInv, SegInv, NEW p \in Procs, Initialise(p) \/ InitialiseFails(p)
  PROVE  SegInv'
<1>1. PICK l \in {"check", "invalid"} :
        /\ Goto(p, l) /\ (l = "check" => Initialise(p))
        /\ pc[p] = "init" /\ pc[p] \in InCtor /\ UNCHANGED <<semKey, dataKey, my>>
  BY DEF Initialise, InitialiseFails, InCtor, Sems
<1>2. /\ my[p].data = dataKey /\ my[p].did = dataKey /\ dataKey # 0
      /\ my[p].sem = semKey /\ semKey # 0
  BY <1>1, Alone DEF SegInv, Place, Inside
<1>3. /\ my[p].data \in 1..Len(data) /\ Seg(p) \in Segment /\ data \in Seq(Segment)
      /\ Seg(p) = data[my[p].data]
  BY <1>1, MySegment DEF Mapping, TypeInv, Types, Seg
<1>4. /\ data'[dataKey].semid = semKey
      /\ l = "check" => data'[dataKey].init
  <2>1. CASE Initialise(p)
    <3> DEFINE f == IF fifoKey = 0 THEN nfifos + 1 ELSE fifoKey
               g == [Seg(p) EXCEPT !.init = TRUE, !.semid = my[p].sem, !.fifo = f, !.nsampler = 0]
    <3>1. data' = [data EXCEPT ![my[p].data] = g]
      BY <1>3, <2>1 DEF Initialise
    <3>2. g.init /\ g.semid = semKey
      <4> HIDE DEF f
      <4> QED
        BY <1>2, <1>3 DEF Segment
    <3> HIDE DEF f, g
    <3> QED
      BY <1>2, <1>3, <3>1, <3>2
  <2>2. CASE ~ Initialise(p)
    <3> DEFINE g == [Seg(p) EXCEPT !.semid = my[p].sem, !.fifo = 0, !.nsampler = 0]
    <3>1. data' = [data EXCEPT ![my[p].data] = g] /\ l # "check"
      BY <1>1, <1>3, <2>2 DEF InitialiseFails
    <3>2. g.semid = semKey
      BY <1>2, <1>3 DEF Segment
    <3> HIDE DEF g
    <3> QED
      BY <1>2, <1>3, <3>1, <3>2
  <2> QED
    BY <2>1, <2>2
<1>5. \A q \in Procs : pc'[q] = IF q = p THEN l ELSE pc[q]
  BY <1>1 DEF Goto, TypeInv, Types
<1>6. KeysInv'
  BY <1>1, <1>2, <1>4 DEF KeysInv
<1>7. Place(p)'
  BY <1>1, <1>2, <1>4, <1>5 DEF Place, Seg, Inside, InDtor
<1>8. ASSUME NEW q \in Procs \ {p} PROVE Place(q)' /\ pc'[q] \notin InDtor
  <2>1. pc'[q] = pc[q] /\ pc[q] \notin (Inside \ {"invalid"}) \cup {"shmat"} \cup InDtor
    BY <1>1, <1>5, InitAlone
  <2> QED
    BY <1>1, <2>1 DEF SegInv, Place, Inside, InDtor
<1>9. RemoveInv'
  <2>1. \A q \in Procs : pc'[q] \notin Removing
    BY <1>1, <1>5, <1>8 DEF InDtor, Removing
  <2> QED
    BY <2>1 DEF RemoveInv
<1> QED
  BY <1>6, <1>7, <1>8, <1>9 DEF SegInv

(* Who changes slots and nsampler leaves the rest of the segment alone.    *)
LEMMA SlotsOnly ==
  ASSUME TypeInv, NEW p \in Procs,
         Attach(p) \/ Mark(p) \/ Bump(p) \/ Leave(p) \/ Uncount(p)
  PROVE  SameData
<1>1. pc[p] \in Mapping
  BY DEF Attach, Mark, Bump, Leave, Uncount, Mapping
<1>2. /\ my[p].data \in 1..Len(data) /\ Seg(p) \in Segment /\ Seg(p) = data[my[p].data]
      /\ data \in Seq(Segment)
  BY <1>1, MySegment DEF Seg, TypeInv, Types
<1>3. \A e \in 1..Len(data) : e # my[p].data => data'[e] = data[e]
  BY <1>2 DEF Attach, Mark, Bump, Leave, Uncount
<1> DEFINE h == data'[my[p].data]
<1>4. h.init = Seg(p).init /\ h.semid = Seg(p).semid /\ h.fifo = Seg(p).fifo
  <2>1. CASE Attach(p)
    <3>1. PICK x \in {p, NoProc} :
            data' = [data EXCEPT ![my[p].data].start[NextSlot(p)] = x]
      BY <2>1 DEF Attach
    <3> QED
      BY <1>2, <3>1 DEF Segment
  <2>2. CASE Mark(p)
    BY <1>2, <2>2 DEF Mark, Segment
  <2>3. CASE Bump(p)
    BY <1>2, <2>3 DEF Bump, Segment
  <2>4. CASE Leave(p)
    BY <1>2, <2>4 DEF Leave, Segment
  <2>5. CASE Uncount(p)
    BY <1>2, <2>5 DEF Uncount, Segment
  <2> QED
    BY <2>1, <2>2, <2>3, <2>4, <2>5
<1> QED
  BY <1>2, <1>3, <1>4 DEF SameData

(* The rest of the constructor, and the way out of the FIFO.               *)
LEMMA SegStays ==
  ASSUME TypeInv, CtorInv, SegInv, NEW p \in Procs,
         Attach(p) \/ Mark(p) \/ Bump(p) \/ Leave(p)
  PROVE  SegInv'
<1>1. /\ pc[p] \in Inside /\ my[p].data = dataKey /\ my[p].did = dataKey /\ dataKey # 0
      /\ pc[p] # "init" /\ pc[p] # "test"
  BY DEF Attach, Mark, Bump, Leave, Inside, SegInv, Place
<1>2. /\ SameData /\ (pc[p] # "invalid" => Seg(p).init)
      /\ my[p].data \in 1..Len(data) /\ Seg(p) = data[my[p].data]
      /\ my[p] \in Local /\ Seg(p) \in Segment
  BY <1>1, SlotsOnly, InsideMaps DEF SegInv, Place, TypeInv, Types
<1>3. PICK l \in {"mark", "invalid", "bump", "in", "leave", "stat"} :
        /\ Goto(p, l)
        /\ l \in {"bump", "in"} => pc[p] \in {"mark", "bump"}
        /\ pc[p] = "invalid" => l \in {"leave", "stat"}
        /\ l = "mark" => my' = [my EXCEPT ![p].fifo = Seg(p).fifo]
  BY DEF Attach, Mark, Bump, Leave
<1>4. /\ UNCHANGED <<dataKey, semKey>> /\ \A q \in Procs \ {p} : my'[q] = my[q]
  BY DEF Attach, Mark, Bump, Leave, Sems, TypeInv, Types
<1>5. my'[p].data = my[p].data /\ my'[p].did = my[p].did
  BY <1>2 DEF Attach, Mark, Bump, Leave, TypeInv, Types, Local
<1>6. l \in {"mark", "bump", "in"} => my'[p].fifo = Seg(p).fifo
  <2>1. CASE l = "mark"
    BY <1>2, <1>3, <2>1 DEF TypeInv, Types, Local
  <2>2. CASE l \in {"bump", "in"}
    <3>1. pc[p] \in {"mark", "bump"} /\ my[p].fifo = Seg(p).fifo
      BY <1>3, <2>2 DEF SegInv, Place
    <3>2. my'[p].fifo = my[p].fifo
      BY <1>2, <3>1 DEF Attach, Mark, Bump, Leave, TypeInv, Types, Local
    <3> QED
      BY <3>1, <3>2
  <2> QED
    BY <1>3, <2>1, <2>2
<1>7. (pc[p] # "invalid" => Seg(p)'.init) /\ Seg(p)'.fifo = Seg(p).fifo
  BY <1>2, <1>5 DEF SameData, Seg
<1>8. Place(p)'
  <2>1. pc'[p] = l
    BY <1>3 DEF Goto, TypeInv, Types
  <2> QED
    BY <1>1, <1>3, <1>4, <1>5, <1>6, <1>7, <2>1 DEF Place, Inside, InDtor
<1>9. l \in PC /\ l \notin Removing
  BY <1>3 DEF PC, InCtor, InDtor, Removing
<1> QED
  BY <1>1, <1>2, <1>3, <1>4, <1>8, <1>9, SegFrame

(* The destructor before it may remove the data segment.                   *)
LEMMA SegLeaves ==
  ASSUME TypeInv, CtorInv, SegInv, NEW p \in Procs,
         Count(p) \/ Uncount(p) \/ Stat(p) \/ RemoveFifo(p) \/ Shmdt(p)
  PROVE  SegInv'
<1>1. pc[p] \in InDtor /\ dataKey \in {0, my[p].did} /\ my[p] \in Local
  BY DEF Count, Uncount, Stat, RemoveFifo, Shmdt, InDtor, SegInv, Place, TypeInv, Types
<1>2. PICK l \in {"count", "stat", "rmfifo", "shmdt", "stat2"} : Goto(p, l)
  BY DEF Count, Uncount, Stat, RemoveFifo, Shmdt
<1>3. /\ UNCHANGED <<dataKey, semKey>> /\ \A q \in Procs \ {p} : my'[q] = my[q]
  BY DEF Count, Uncount, Stat, RemoveFifo, Shmdt, Sems, Data, TypeInv, Types
<1>4. my'[p].did = my[p].did
  BY <1>1 DEF Count, Uncount, Stat, RemoveFifo, Shmdt, TypeInv, Types, Local
<1>5. SameData
  <2>1. CASE Uncount(p)
    BY <2>1, SlotsOnly
  <2>2. CASE ~ Uncount(p)
    BY <2>2 DEF Count, Stat, RemoveFifo, Shmdt, Data, SameData
  <2> QED
    BY <2>1, <2>2
<1>6. Place(p)'
  <2>1. pc'[p] = l
    BY <1>2 DEF Goto, TypeInv, Types
  <2> QED
    BY <1>1, <1>2, <1>3, <1>4, <2>1 DEF Place, Inside, InDtor
<1>7. l \in PC /\ l \notin Inside /\ l \notin Removing
  BY <1>2 DEF PC, InDtor, Inside, Removing
<1> QED
  BY <1>2, <1>3, <1>5, <1>6, <1>7, SegFrame

(* The end of a process.                                                   *)
LEMMA SegGone ==
  ASSUME TypeInv, SegInv, NEW p \in Procs, Goto(p, "gone"),
         my' = [my EXCEPT ![p] = Fresh] \/ UNCHANGED my, UNCHANGED <<semKey, dataKey, data>>
  PROVE  SegInv'
<1>1. \A q \in Procs \ {p} : my'[q] = my[q]
  BY DEF TypeInv, Types
<1>2. SameData
  BY DEF SameData
<1>3. Place(p)'
  BY DEF Place, Goto, Inside, InDtor, TypeInv, Types
<1>4. "gone" \in PC /\ "gone" \notin Inside /\ "gone" \notin Removing
  BY DEF PC, Inside, Removing
<1> QED
  BY <1>1, <1>2, <1>3, <1>4, SegFrame

(* A segment is removed when nobody has it mapped.                         *)
LEMMA SegRemoves ==
  ASSUME TypeInv, CtorInv, SegInv, NEW p \in Procs,
         Stat2(p) \/ RemoveData(p) \/ RemoveSems(p)
  PROVE  SegInv'
<1> USE DEF Sems, Data, Fifo
<1>1. pc[p] \in InDtor /\ dataKey \in {0, my[p].did}
  BY DEF Stat2, RemoveData, RemoveSems, InDtor, SegInv, Place
<1>2. CASE Stat2(p)
  <2>1. CASE Goto(p, "gone") /\ my' = [my EXCEPT ![p] = Fresh]
    BY <1>2, <2>1, SegGone DEF Stat2
  <2>2. CASE Goto(p, "rmdata") /\ UNCHANGED my
    <3>1. pc'[p] = "rmdata" /\ "rmdata" \in PC /\ "rmdata" \notin Inside
      BY <2>2 DEF Goto, TypeInv, Types, PC, InDtor, Inside
    <3>2. pc[p] = "stat2" /\ UNCHANGED <<semKey, dataKey, data>>
      BY <1>2 DEF Stat2
    <3>3. dataKey # 0 => DataUsers(dataKey) = {}
      <4>1. Goto(p, "gone") => FALSE
        BY <3>1 DEF Goto, TypeInv, Types
      <4>2. dataKey # 0 => DataExists(my[p].did) /\ my[p].did = dataKey
        BY <1>1 DEF DataExists
      <4> QED
        BY <1>2, <4>1, <4>2 DEF Stat2
    <3>4. \A q \in Procs : pc[q] \notin Inside
      BY <3>3 DEF DataUsers, SegInv, Place
    <3>5. Place(p)' /\ SameData
      BY <1>1, <2>2, <3>1, <3>2 DEF Place, Inside, InDtor, SameData
    <3> QED
      BY <2>2, <3>1, <3>2, <3>4, <3>5, SegFrame
  <2> QED
    BY <1>2, <2>1, <2>2 DEF Stat2
<1>3. CASE RemoveData(p)
  <2>1. /\ pc[p] = "rmdata" /\ dataKey' = 0 /\ UNCHANGED <<semKey, data, my>>
        /\ Goto(p, "rmsem")
    BY <1>1, <1>3 DEF RemoveData
  <2>2. \A q \in Procs : pc'[q] = IF q = p THEN "rmsem" ELSE pc[q]
    BY <2>1 DEF Goto, TypeInv, Types
  <2>3. \A q \in Procs : pc[q] \notin Inside \cup {"shmat"}
    <3>1. \A q \in Procs : pc[q] \notin Inside
      BY <2>1 DEF SegInv, RemoveInv, Removing
    <3>2. \A q \in Procs : pc[q] # "shmat"
      BY <1>1, Alone DEF InCtor
    <3> QED
      BY <3>1, <3>2
  <2>4. \A q \in Procs : pc'[q] \notin Inside \cup {"shmat"}
    BY <2>2, <2>3 DEF Inside
  <2>5. \A q \in Procs : Place(q)'
    BY <2>1, <2>4 DEF Place, Inside
  <2>6. KeysInv' /\ RemoveInv'
    BY <2>1, <2>4 DEF KeysInv, RemoveInv
  <2> QED
    BY <2>5, <2>6 DEF SegInv
<1>4. CASE RemoveSems(p)
  <2>1. /\ dataKey = 0 /\ UNCHANGED <<dataKey, data>>
        /\ my' = [my EXCEPT ![p] = Fresh] /\ Goto(p, "gone")
    BY <1>4 DEF RemoveSems, SegInv, Place
  <2>2. \A q \in Procs : /\ pc'[q] = IF q = p THEN "gone" ELSE pc[q]
                         /\ q # p => my'[q] = my[q]
    BY <2>1 DEF Goto, TypeInv, Types
  <2>3. SameData
    BY <2>1 DEF SameData
  <2>4. Place(p)'
    BY <2>2 DEF Place, Inside, InDtor
  <2>5. \A q \in Procs : Place(q)'
    BY <2>1, <2>2, <2>3, <2>4, PlaceStays DEF SegInv
  <2>6. KeysInv' /\ RemoveInv'
    BY <2>1, <2>2 DEF SegInv, KeysInv, RemoveInv, Inside, Removing
  <2> QED
    BY <2>5, <2>6 DEF SegInv
<1> QED
  BY <1>2, <1>3, <1>4

LEMMA SegNext ==
  ASSUME TypeInv, CtorInv, SegInv, Orderly', [Next]_vars
  PROVE  SegInv'
<1>1. CASE Next
  <2>1. PICK p \in Procs : \/ Start(p) \/ StartFails(p) \/ Semop(p) \/ SemopCutShort(p)
                           \/ Construct(p) \/ ArriveFails(p)
                           \/ Leave(p) \/ Destroy(p) \/ Die(p)
    BY <1>1 DEF Next
  <2>2. CASE Die(p) \/ OutOfBounds(p) \/ StartFails(p) \/ ArriveFails(p)
    BY <2>2, SegGone DEF Die, OutOfBounds, StartFails, ArriveFails, Sems, Data
  <2> QED
    BY <2>1, <2>2, SegArrives, NeverCutShort, SegShmget, SegInitialise, SegStays, SegLeaves,
       SegRemoves DEF Construct, Destroy
<1>2. CASE UNCHANGED vars
  BY <1>2 DEF vars, SegInv, Place, KeysInv, RemoveInv, Seg
<1> QED
  BY <1>1, <1>2

LEMMA SegInit == Init => SegInv
BY DEF Init, SegInv, Place, KeysInv, RemoveInv, Inside, Removing, InDtor

-----------------------------------------------------------------------------
(* Everybody who was admitted is in the FIFO that the next one will find,  *)
(* and its lock word is guarded by the set that the next one will find:    *)
(* for any number of processes, roles, deaths, failures and refusals,      *)
(* until a process starts while another one leaves or a wait is cut short. *)
THEOREM AllInOneFifo == Spec => []SameFifo
<1> DEFINE Inv == TypeInv /\ (Orderly => CtorInv /\ SegInv)
<1>1. Init => Inv
  BY TypeInit, CtorInit, SegInit
<1>2. Inv /\ [Next]_vars => Inv'
  BY OrderlyStep, TypeNext, CtorNext, SegNext
<1>3. Inv => SameFifo
  <2> SUFFICES ASSUME Inv, Orderly, NEW p \in Users
               PROVE  /\ my[p].data = dataKey /\ my[p].fifo = Seg(p).fifo
                      /\ Seg(p).semid = semKey
    BY DEF SameFifo
  <2> QED
    BY DEF Users, SegInv, Place, KeysInv, Inside, Seg
<1> QED
  BY <1>1, <1>2, <1>3, PTL DEF Spec

-----------------------------------------------------------------------------
(* A FIFO that somebody uses is never initialised again, for any number of *)
(* processes, until a process starts while another one leaves or a wait is *)
(* cut short.                                                              *)
THEOREM InitialisedAlone == Spec => NeverReinitialised
<1> DEFINE Inv == TypeInv /\ (Orderly => CtorInv /\ SegInv)
           FilledAlone == Orderly => \A p \in Procs : pc[p] = "init" /\ pc'[p] = "check" =>
                                        \A q \in Users : my[q].data # my[p].data
<1>1. Init => Inv
  BY TypeInit, CtorInit, SegInit
<1>2. Inv /\ [Next]_vars => Inv'
  BY OrderlyStep, TypeNext, CtorNext, SegNext
<1>3. Inv => FilledAlone
  <2> SUFFICES ASSUME Inv, Orderly, NEW p \in Procs, pc[p] = "init", NEW q \in Users
               PROVE  FALSE
    BY DEF Users
  <2> QED
    BY InitAlone DEF Users, Inside
<1>4. Inv => [FilledAlone]_<<pc, my, harm>>
  BY <1>3
<1> QED
  BY <1>1, <1>2, <1>4, PTL DEF Spec, NeverReinitialised

-----------------------------------------------------------------------------
(* The flags of the reader and the writer, until a refused one leaves.     *)

(* From the moment it is admitted to the moment it begins to leave.        *)
Holds(p) == pc[p] \in {"attach", "mark", "in"}

RoleInv == \A p \in Procs \ Samplers : \A q \in Role(p) : Holds(p) /\ Holds(q) => p = q

FlagInv == \A p \in Procs \ Samplers :
             /\ pc[p] # "bump"
             /\ pc[p] = "in" => data[my[p].data].user[SlotOf(p)] = "PRESENT"

LEMMA RolesStep ==
  ASSUME [Next]_vars, RolesKept'
  PROVE  RolesKept /\ Orderly'
<1>1. "refused" \notin harm /\ Orderly'
  BY DEF Next, vars, RolesKept, Start, SemopCutShort, Leave
<1> QED
  BY <1>1, OrderlyStep DEF RolesKept

(* The two slots are nobody else's.                                        *)
LEMMA RoleSlots ==
  ASSUME NEW p \in Procs \ Samplers, NEW q \in Procs, q \in Samplers => my[q].sam_ind < MaxSM
  PROVE  /\ p \in Role(p) /\ Role(p) \subseteq Procs /\ SlotOf(p) \in Slots
         /\ SlotOf(p)' = SlotOf(p)
         /\ SlotOf(q) = SlotOf(p) => q \in Role(p) /\ q \notin Samplers
<1>1. MaxSM \in Nat /\ MaxSM \in Slots /\ MaxSM + 1 \in Slots /\ MaxSM # MaxSM + 1
  BY AttachAssumption DEF Slots
<1>2. p \in Readers \cup Writers /\ SlotOf(p) \in {MaxSM, MaxSM + 1}
  BY DEF Procs, SlotOf, RdSlot, WrSlot
<1>3. p \in Role(p) /\ Role(p) \subseteq Procs /\ SlotOf(p)' = SlotOf(p)
  BY <1>2 DEF Role, Procs, SlotOf
<1>4. ASSUME SlotOf(q) = SlotOf(p) PROVE q \in Role(p) /\ q \notin Samplers
  <2>1. CASE q \in Samplers
    <3>1. SlotOf(q) = my[q].sam_ind
      BY <2>1, AttachAssumption DEF SlotOf
    <3>2. my[q].sam_ind < MaxSM
      BY <2>1
    <3> QED
      BY <1>1, <1>2, <1>4, <3>1, <3>2
  <2>2. CASE q \notin Samplers
    BY <1>1, <1>2, <1>4, <2>2, AttachAssumption DEF Role, SlotOf, Procs, RdSlot, WrSlot
  <2> QED
    BY <2>1, <2>2
<1> QED
  BY <1>1, <1>2, <1>3, <1>4

(* A step of p changes flags to PRESENT, or the one of its own slot.       *)
KeepsFlags(p) ==
  \A e \in 1..Len(data), s \in Slots : \/ data'[e].user[s] = data[e].user[s]
                                       \/ data'[e].user[s] = "PRESENT"
                                       \/ s = SlotOf(p) /\ (p \in Samplers \/ pc[p] = "in")

LEMMA FlagStep ==
  ASSUME TypeInv, RoleInv, FlagInv, NEW p \in Procs, NEW l \in PC, Goto(p, l),
         \A q \in Procs \ {p} : my'[q] = my[q], KeepsFlags(p),
         Holds(p)' => p \in Samplers \/ Holds(p) \/ \A q \in Role(p) \ {p} : ~ Holds(q),
         l = "bump" => p \in Samplers,
         l = "in" => p \in Samplers \/ data'[my'[p].data].user[SlotOf(p)] = "PRESENT"
  PROVE  RoleInv' /\ FlagInv'
<1>0. \A q \in Procs \ Samplers : SlotOf(q)' = SlotOf(q)
  BY DEF SlotOf, Procs
<1>1. \A q \in Procs : pc'[q] = IF q = p THEN l ELSE pc[q]
  BY DEF Goto, TypeInv, Types
<1>2. \A q \in Procs \ {p} : Holds(q)' = Holds(q)
  BY <1>1 DEF Holds
<1>3. RoleInv'
  <2> SUFFICES ASSUME NEW q \in Procs \ Samplers, NEW r \in Role(q), Holds(q)', Holds(r)', q # r
               PROVE  FALSE
    BY DEF RoleInv, Role
  <2>1. /\ r \in Role(q) /\ q \in Role(r) /\ r \in Procs \ Samplers
    BY AttachAssumption DEF Role, Procs
  <2>2. CASE p \notin {q, r}
    <3>1. Holds(q) /\ Holds(r)
      BY <1>2, <2>1, <2>2
    <3> QED
      BY <2>1, <3>1 DEF RoleInv
  <2>3. CASE p = q
    <3>1. Holds(r)
      BY <1>2, <2>1, <2>3
    <3> QED
      BY <2>1, <2>3, <3>1 DEF RoleInv
  <2>4. CASE p = r
    <3>1. Holds(q)
      BY <1>2, <2>1, <2>4
    <3> QED
      BY <2>1, <2>4, <3>1 DEF RoleInv
  <2> QED
    BY <2>2, <2>3, <2>4
<1>4. FlagInv'
  <2> SUFFICES ASSUME NEW q \in Procs \ Samplers, pc'[q] = "in"
               PROVE  data'[my'[q].data].user[SlotOf(q)] = "PRESENT"
    BY <1>0, <1>1 DEF FlagInv
  <2>1. CASE q = p
    BY <1>1, <2>1
  <2>2. CASE q # p
    <3>1. pc[q] = "in" /\ my'[q] = my[q]
      BY <1>1, <2>2
    <3>2. my[q].data \in 1..Len(data) /\ data[my[q].data].user[SlotOf(q)] = "PRESENT"
      BY <3>1, MySegment DEF FlagInv, Mapping
    <3>3. p \in Samplers => my[p].sam_ind < MaxSM
      BY AttachAssumption DEF TypeInv, Types, Local
    <3>4. SlotOf(q) = SlotOf(p) => p \notin Samplers /\ pc[p] # "in"
      <4>1. Holds(q) /\ (pc[p] = "in" => Holds(p))
        BY <3>1 DEF Holds
      <4>2. SlotOf(p) = SlotOf(q) => p \in Role(q) /\ p \notin Samplers
        BY <3>3, RoleSlots
      <4> QED
        BY <2>2, <4>1, <4>2 DEF RoleInv
    <3>5. SlotOf(q) \in Slots
      BY <3>3, RoleSlots
    <3> QED
      BY <3>1, <3>2, <3>4, <3>5 DEF KeepsFlags
  <2> QED
    BY <2>1, <2>2
<1> QED
  BY <1>3, <1>4

(* A step that leaves the data segments alone.                             *)
LEMMA FlagFrame ==
  ASSUME TypeInv, RoleInv, FlagInv, NEW p \in Procs, NEW l \in PC \ {"in", "bump"}, Goto(p, l),
         \A q \in Procs \ {p} : my'[q] = my[q], UNCHANGED data,
         Holds(p)' => p \in Samplers \/ Holds(p) \/ \A q \in Role(p) \ {p} : ~ Holds(q)
  PROVE  RoleInv' /\ FlagInv'
<1>1. KeepsFlags(p)
  BY DEF KeepsFlags
<1> QED
  BY <1>1, FlagStep

(* A step that changes one data segment, to g.                             *)
LEMMA FlagSet ==
  ASSUME TypeInv, RoleInv, FlagInv, NEW p \in Procs, pc[p] \in Mapping,
         NEW l \in PC, Goto(p, l), \A q \in Procs \ {p} : my'[q] = my[q],
         NEW g \in Segment, data' = [data EXCEPT ![my[p].data] = g],
         \A s \in Slots : g.user[s] \in {Seg(p).user[s], "PRESENT"}
                            \/ (s = SlotOf(p) /\ (p \in Samplers \/ pc[p] = "in")),
         Holds(p)' => p \in Samplers \/ Holds(p),
         l = "bump" => p \in Samplers,
         l = "in" => p \in Samplers \/ (my'[p] = my[p] /\ g.user[SlotOf(p)] = "PRESENT")
  PROVE  RoleInv' /\ FlagInv'
<1>1. my[p].data \in 1..Len(data) /\ data \in Seq(Segment)
  BY MySegment DEF TypeInv, Types
<1>2. \A e \in 1..Len(data) : data'[e] = IF e = my[p].data THEN g ELSE data[e]
  BY <1>1, SegSet
<1>3. KeepsFlags(p)
  BY <1>2 DEF KeepsFlags, Seg
<1>4. l = "in" => p \in Samplers \/ data'[my'[p].data].user[SlotOf(p)] = "PRESENT"
  BY <1>1, <1>2
<1> QED
  BY <1>3, <1>4, FlagStep

LEMMA FlagMoves ==
  ASSUME TypeInv, RoleInv, FlagInv, NEW p \in Procs,
         \/ Start(p) \/ StartFails(p) \/ Semop(p) \/ SemopCutShort(p) \/ ArriveFails(p)
         \/ Shmat(p) \/ Test(p) \/ OutOfBounds(p)
         \/ Count(p) \/ Stat(p) \/ RemoveFifo(p) \/ Shmdt(p) \/ Stat2(p) \/ RemoveData(p)
         \/ RemoveSems(p) \/ Die(p)
  PROVE  RoleInv' /\ FlagInv'
<1>1. PICK l \in PC \ {"in", "bump", "attach", "mark"} : Goto(p, l)
  BY DEF Start, StartFails, Semop, SemopCutShort, ArriveFails, Shmat, Test, OutOfBounds, Count,
         Stat, RemoveFifo, Shmdt, Stat2, RemoveData, RemoveSems, Die, PC, InCtor, InDtor
<1>2. UNCHANGED data /\ \A q \in Procs \ {p} : my'[q] = my[q]
  BY DEF Start, StartFails, Semop, SemopCutShort, ArriveFails, Shmat, Test, OutOfBounds, Count,
         Stat, RemoveFifo, Shmdt, Stat2, RemoveData, RemoveSems, Die, Data, TypeInv, Types
<1>3. ~ Holds(p)'
  BY <1>1 DEF Goto, Holds, TypeInv, Types
<1> QED
  BY <1>1, <1>2, <1>3, FlagFrame

(* Who is let in finds its flag down, so that nobody of its role is in;    *)
(* and nobody else is in the constructor.                                  *)
LEMMA FlagCheck ==
  ASSUME TypeInv, CtorInv, SegInv, RoleInv, FlagInv, NEW p \in Procs, Check(p)
  PROVE  RoleInv' /\ FlagInv'
<1>1. PICK l \in {"invalid", "attach"} : Goto(p, l) /\ (l = "attach" => ~ Taken(p))
  BY DEF Check
<1>2. pc[p] = "check" /\ UNCHANGED <<data, my>>
  BY DEF Check, Data
<1>3. ASSUME l = "attach", p \notin Samplers, NEW q \in Role(p) \ {p} PROVE ~ Holds(q)
  <2>1. /\ q \in Procs \ Samplers /\ SlotOf(q) = SlotOf(p)
    BY <1>3, AttachAssumption DEF Role, Procs, SlotOf
  <2>2. pc[q] \notin InCtor
    BY <1>2, <2>1, Alone DEF InCtor
  <2>3. ASSUME pc[q] = "in" PROVE FALSE
    <3>1. my[q].data = dataKey /\ my[p].data = dataKey
      BY <1>2, <2>1, <2>3 DEF SegInv, Place, Inside
    <3>2. data[my[q].data].user[SlotOf(q)] = "PRESENT"
      BY <2>1, <2>3 DEF FlagInv
    <3> QED
      BY <1>1, <1>3, <2>1, <3>1, <3>2 DEF Taken, Seg
  <2> QED
    BY <2>2, <2>3 DEF Holds, InCtor
<1>4. Holds(p)' => l = "attach"
  BY <1>1 DEF Holds, Goto, TypeInv, Types
<1>5. l \in PC \ {"in", "bump"}
  BY <1>1 DEF PC, InCtor
<1> QED
  BY <1>1, <1>2, <1>3, <1>4, <1>5, FlagFrame

LEMMA FlagShmget ==
  ASSUME TypeInv, RoleInv, FlagInv, NEW p \in Procs, Shmget(p)
  PROVE  RoleInv' /\ FlagInv'
<1>1. data \in Seq(Segment)
  BY DEF TypeInv, Types
<1>2. \A e \in 1..Len(data) : data'[e] = data[e]
  BY <1>1 DEF Shmget, Data
<1>3. KeepsFlags(p)
  BY <1>2 DEF KeepsFlags
<1>4. /\ \A q \in Procs \ {p} : my'[q] = my[q]
      /\ Goto(p, "shmat") /\ "shmat" \in PC \ {"in", "bump"} /\ ~ Holds(p)'
  BY DEF Shmget, Goto, TypeInv, Types, PC, InCtor, InDtor, Holds
<1> QED
  BY <1>3, <1>4, FlagStep

(* Changes of a data segment.  A reader or writer that leaves was in.      *)
LEMMA FlagChanges ==
  ASSUME TypeInv, TypeInv', RoleInv, FlagInv, NEW p \in Procs, RolesKept',
         \/ Initialise(p) \/ InitialiseFails(p) \/ Attach(p) \/ Mark(p) \/ Bump(p)
         \/ Leave(p) \/ Uncount(p)
  PROVE  RoleInv' /\ FlagInv'
<1>1. pc[p] \in Mapping
  BY DEF Initialise, InitialiseFails, Attach, Mark, Bump, Leave, Uncount, Mapping
<1>2. /\ my[p].data \in 1..Len(data) /\ Seg(p) \in Segment /\ Seg(p) = data[my[p].data]
      /\ data \in Seq(Segment) /\ \A q \in Procs \ {p} : my'[q] = my[q]
  BY <1>1, MySegment
     DEF Seg, TypeInv, Types, Initialise, InitialiseFails, Attach, Mark, Bump, Leave, Uncount
<1>3. data' \in Seq(Segment)
  BY DEF TypeInv, Types
<1> DEFINE g == data'[my[p].data]
<1>4. g \in Segment /\ data' = [data EXCEPT ![my[p].data] = g]
  <2>1. Len(data') = Len(data)
    BY <1>2, <1>3 DEF Initialise, InitialiseFails, Attach, Mark, Bump, Leave, Uncount
  <2>2. \A e \in 1..Len(data) : e # my[p].data => data'[e] = data[e]
    BY <1>2 DEF Initialise, InitialiseFails, Attach, Mark, Bump, Leave, Uncount
  <2> QED
    BY <1>2, <1>3, <2>1, <2>2
<1>5. CASE Mark(p)
  <2>1. PICK l \in {"bump", "in"} :
          /\ Goto(p, l) /\ (l = "bump" => p \in Samplers)
          /\ l = "in" => p \notin Samplers /\ UNCHANGED my
    BY <1>5 DEF Mark
  <2>2. l \in PC /\ Holds(p)
    BY <1>5, <2>1 DEF Mark, Holds, PC, InCtor
  <2>3. \A s \in Slots : g.user[s] = IF s = NextSlot(p) THEN "PRESENT" ELSE Seg(p).user[s]
    BY <1>2, <1>5 DEF Mark, Segment
  <2>4. l = "in" => g.user[SlotOf(p)] = "PRESENT"
    <3>1. p \notin Samplers => NextSlot(p) = SlotOf(p) /\ NextSlot(p) \in Slots
      BY <1>2, NextSlotType DEF NextSlot
    <3> QED
      BY <2>1, <2>3, <3>1
  <2> HIDE DEF g
  <2>5. \A s \in Slots : g.user[s] \in {Seg(p).user[s], "PRESENT"}
    BY <2>3
  <2>6. l = "in" => p \in Samplers \/ (my'[p] = my[p] /\ g.user[SlotOf(p)] = "PRESENT")
    BY <2>1, <2>4
  <2>7. l \in PC /\ (Holds(p)' => p \in Samplers \/ Holds(p))
    BY <2>2
  <2> QED
    BY <1>1, <1>2, <1>4, <2>1, <2>5, <2>6, <2>7, FlagSet
<1>6. CASE Leave(p)
  <2>1. PICK l \in {"leave", "stat"} : Goto(p, l)
    BY <1>6 DEF Leave
  <2>2. l \in PC /\ ~ Holds(p)'
    BY <1>6, <2>1 DEF Leave, Holds, InDtor, PC, Goto, TypeInv, Types
  <2>3. \A s \in Slots : s # SlotOf(p) => g.user[s] = Seg(p).user[s]
    BY <1>2, <1>6 DEF Leave, Segment
  <2>4. p \in Samplers \/ pc[p] = "in"
    BY <1>6 DEF Leave, HarmOfLeaving, RolesKept
  <2> HIDE DEF g
  <2> QED
    BY <1>1, <1>2, <1>4, <2>1, <2>2, <2>3, <2>4, FlagSet
<1>7. CASE Initialise(p) \/ InitialiseFails(p) \/ Attach(p) \/ Bump(p) \/ Uncount(p)
  <2>1. g.user = Seg(p).user
    <3>1. CASE Initialise(p)
      BY <1>2, <3>1 DEF Initialise, Segment
    <3>2. CASE Attach(p)
      <4>1. PICK x \in {p, NoProc} :
              data' = [data EXCEPT ![my[p].data].start[NextSlot(p)] = x]
        BY <3>2 DEF Attach
      <4> QED
        BY <1>2, <4>1 DEF Segment
    <3>3. CASE Bump(p)
      BY <1>2, <3>3 DEF Bump, Segment
    <3>4. CASE Uncount(p)
      BY <1>2, <3>4 DEF Uncount, Segment
    <3>5. CASE InitialiseFails(p)
      BY <1>2, <3>5 DEF InitialiseFails, Segment
    <3> QED
      BY <1>7, <3>1, <3>2, <3>3, <3>4, <3>5
  <2>2. PICK l \in {"check", "mark", "invalid", "in", "stat"} :
          /\ Goto(p, l) /\ (l = "in" => pc[p] = "bump") /\ (l = "mark" => pc[p] = "attach")
    BY <1>7 DEF Initialise, InitialiseFails, Attach, Bump, Uncount
  <2>3. l \in PC /\ (l = "in" => p \in Samplers)
    BY <2>2 DEF PC, InCtor, InDtor, FlagInv
  <2>4. Holds(p)' => p \in Samplers \/ Holds(p)
    BY <2>2, <2>3 DEF Holds, Goto, TypeInv, Types
  <2> HIDE DEF g
  <2> QED
    BY <1>1, <1>2, <1>4, <2>1, <2>2, <2>3, <2>4, FlagSet
<1> QED
  BY <1>5, <1>6, <1>7

LEMMA FlagNext ==
  ASSUME TypeInv, CtorInv, SegInv, RoleInv, FlagInv, RolesKept', [Next]_vars
  PROVE  RoleInv' /\ FlagInv'
<1>1. CASE Next
  <2>1. PICK p \in Procs : \/ Start(p) \/ StartFails(p) \/ Semop(p) \/ SemopCutShort(p)
                           \/ Construct(p) \/ ArriveFails(p)
                           \/ Leave(p) \/ Destroy(p) \/ Die(p)
    BY <1>1 DEF Next
  <2> QED
    BY <2>1, TypeNext, FlagShmget, FlagCheck, FlagMoves, FlagChanges DEF Construct, Destroy
<1>2. CASE UNCHANGED vars
  BY <1>2 DEF vars, RoleInv, FlagInv, Holds, SlotOf, Role
<1> QED
  BY <1>1, <1>2

(* Until a refused reader or writer leaves, a process starts while another *)
(* leaves, or a wait is cut short: a reader or writer that was admitted is *)
(* the only one, and the flag by which data writers decide that the        *)
(* readout has gone says PRESENT from the end of its constructor to its    *)
(* destructor, for any number of processes, deaths, failures and refused   *)
(* samplers, also while others ask for the same role.                      *)
THEOREM FlagsTrue == Spec => []PresentWhileThere
<1> DEFINE Inv == /\ TypeInv
                  /\ Orderly => CtorInv /\ SegInv
                  /\ RolesKept => RoleInv /\ FlagInv
<1>1. Init => Inv
  BY TypeInit, CtorInit, SegInit DEF Init, RoleInv, FlagInv, Holds
<1>2. Inv /\ [Next]_vars => Inv'
  <2> SUFFICES ASSUME Inv, [Next]_vars PROVE Inv'
    OBVIOUS
  <2>1. TypeInv'
    BY TypeNext
  <2>2. Orderly' => CtorInv' /\ SegInv'
    BY OrderlyStep, CtorNext, SegNext
  <2>3. RolesKept' => RoleInv' /\ FlagInv'
    <3> SUFFICES ASSUME RolesKept' PROVE RoleInv' /\ FlagInv'
      OBVIOUS
    <3>1. RolesKept /\ Orderly
      BY RolesStep, OrderlyStep
    <3> QED
      BY <3>1, FlagNext
  <2> QED
    BY <2>1, <2>2, <2>3
<1>3. Inv => PresentWhileThere
  <2> SUFFICES ASSUME Inv, RolesKept, NEW p \in Users \cap (Readers \cup Writers)
               PROVE  /\ Seg(p).user[SlotOf(p)] = "PRESENT"
                      /\ Users \cap Role(p) = {p}
    BY DEF PresentWhileThere
  <2>1. p \in Procs \ Samplers /\ pc[p] = "in" /\ p \in Role(p) /\ Role(p) \subseteq Procs
    BY AttachAssumption DEF Users, Procs, Role
  <2>2. \A q \in Users \cap Role(p) : q = p
    BY <2>1 DEF RoleInv, Holds, Users
  <2> QED
    BY <2>1, <2>2 DEF FlagInv, Seg, Users
<1> QED
  BY <1>1, <1>2, <1>3, PTL DEF Spec

-----------------------------------------------------------------------------
(* Who refuses a reader or a writer is there, unless one of these may die  *)
(* and leave its flag behind.                                              *)

(* The flag of a role in the segment d is that of a process which is in.   *)
Backed(d, s) ==
  data[d].user[s] = "PRESENT" =>
    \E q \in Procs \ Samplers : pc[q] = "in" /\ my[q].data = d /\ SlotOf(q) = s

PresentInv == \A d \in 1..Len(data) : \A q \in Procs \ Samplers : Backed(d, SlotOf(q))

LEMMA RoleSlotsFixed ==
  ASSUME NEW q \in Procs \ Samplers
  PROVE  SlotOf(q)' = SlotOf(q) /\ SlotOf(q) \in Slots /\ SlotOf(q) \notin 0..(MaxSM - 1)
BY AttachAssumption DEF SlotOf, Procs, RdSlot, WrSlot, Slots

(* What a step of p may do to the flag s of segment d: keep it, if p has   *)
(* not gone from it; take it down; or raise it for p.                      *)
KeepsBacked(p, d, s) ==
  \/ /\ data'[d].user[s] = data[d].user[s]
     /\ pc[p] = "in" => p \in Samplers \/ my[p].data # d \/ SlotOf(p) # s
  \/ data'[d].user[s] # "PRESENT"
  \/ p \notin Samplers /\ pc'[p] = "in" /\ my'[p].data = d /\ SlotOf(p) = s

LEMMA PresentStep ==
  ASSUME TypeInv, PresentInv, NEW p \in Procs, Len(data') = Len(data),
         \A q \in Procs \ {p} : pc'[q] = pc[q] /\ my'[q] = my[q],
         \A d \in 1..Len(data) : \A q \in Procs \ Samplers : KeepsBacked(p, d, SlotOf(q))
  PROVE  PresentInv'
<1> SUFFICES ASSUME NEW d \in 1..Len(data), NEW r \in Procs \ Samplers
             PROVE  Backed(d, SlotOf(r))'
  BY DEF PresentInv
<1> DEFINE s == SlotOf(r)
<1>1. Backed(d, s) /\ KeepsBacked(p, d, s)
  BY DEF PresentInv
<1>2. \A q \in Procs \ Samplers : SlotOf(q)' = SlotOf(q)
  BY RoleSlotsFixed
<1> QED
  BY <1>1, <1>2 DEF Backed, KeepsBacked

(* A step that leaves the flags alone.                                     *)
LEMMA PresentFrame ==
  ASSUME TypeInv, PresentInv, NEW p \in Procs, pc[p] = "in" => p \in Samplers,
         \A q \in Procs \ {p} : pc'[q] = pc[q] /\ my'[q] = my[q],
         Len(data') = Len(data), \A d \in 1..Len(data) : data'[d].user = data[d].user
  PROVE  PresentInv'
<1>1. \A d \in 1..Len(data) : \A q \in Procs \ Samplers : KeepsBacked(p, d, SlotOf(q))
  BY DEF KeepsBacked
<1> QED
  BY <1>1, PresentStep

LEMMA PresentMoves ==
  ASSUME TypeInv, PresentInv, NEW p \in Procs, Killable \subseteq Samplers,
         \/ Start(p) \/ StartFails(p) \/ Semop(p) \/ SemopCutShort(p) \/ ArriveFails(p)
         \/ Shmat(p) \/ Test(p) \/ Check(p) \/ OutOfBounds(p)
         \/ Count(p) \/ Stat(p) \/ RemoveFifo(p) \/ Shmdt(p) \/ Stat2(p) \/ RemoveData(p)
         \/ RemoveSems(p) \/ Die(p)
  PROVE  PresentInv'
<1>1. pc[p] = "in" => p \in Samplers
  BY DEF Start, StartFails, Semop, SemopCutShort, ArriveFails, Shmat, Test, Check, OutOfBounds,
         Count, Stat, RemoveFifo, Shmdt, Stat2, RemoveData, RemoveSems, Die
<1>2. UNCHANGED data /\ \A q \in Procs \ {p} : pc'[q] = pc[q] /\ my'[q] = my[q]
  BY DEF Start, StartFails, Semop, SemopCutShort, ArriveFails, Shmat, Test, Check, OutOfBounds,
         Count, Stat, RemoveFifo, Shmdt, Stat2, RemoveData, RemoveSems, Die, Data, Goto,
         TypeInv, Types
<1> QED
  BY <1>1, <1>2, PresentFrame

LEMMA PresentShmget ==
  ASSUME TypeInv, PresentInv, NEW p \in Procs, Shmget(p) PROVE PresentInv'
<1>1. /\ pc[p] = "shmget" /\ data \in Seq(Segment)
      /\ \A q \in Procs \ {p} : pc'[q] = pc[q] /\ my'[q] = my[q]
  BY DEF Shmget, Goto, TypeInv, Types
<1>2. CASE UNCHANGED data
  BY <1>1, <1>2, PresentFrame
<1>3. CASE data' = Append(data, Blank)
  <2> SUFFICES ASSUME NEW d \in 1..Len(data'), NEW r \in Procs \ Samplers
               PROVE  Backed(d, SlotOf(r))'
    BY DEF PresentInv
  <2>1. SlotOf(r)' = SlotOf(r) /\ SlotOf(r) \in Slots
    BY RoleSlotsFixed
  <2>2. CASE d = Len(data) + 1
    BY <1>1, <1>3, <2>1, <2>2 DEF Backed, Blank
  <2>3. CASE d # Len(data) + 1
    <3>1. d \in 1..Len(data) /\ data'[d] = data[d]
      BY <1>1, <1>3, <2>3
    <3>2. Backed(d, SlotOf(r))
      BY <3>1 DEF PresentInv
    <3>3. \A q \in Procs \ Samplers : SlotOf(q)' = SlotOf(q)
      BY RoleSlotsFixed
    <3> QED
      BY <1>1, <2>1, <3>1, <3>2, <3>3 DEF Backed
  <2> QED
    BY <2>2, <2>3
<1> QED
  BY <1>2, <1>3 DEF Shmget, Data

LEMMA PresentChanges ==
  ASSUME TypeInv, PresentInv, NEW p \in Procs,
         \/ Initialise(p) \/ InitialiseFails(p) \/ Attach(p) \/ Mark(p) \/ Bump(p)
         \/ Leave(p) \/ Uncount(p)
  PROVE  PresentInv'
<1>1. pc[p] \in Mapping
  BY DEF Initialise, InitialiseFails, Attach, Mark, Bump, Leave, Uncount, Mapping
<1>2. /\ my[p].data \in 1..Len(data) /\ Seg(p) \in Segment /\ Seg(p) = data[my[p].data]
      /\ data \in Seq(Segment) /\ my[p] \in Local
      /\ \A q \in Procs \ {p} : pc'[q] = pc[q] /\ my'[q] = my[q]
  BY <1>1, MySegment
     DEF Seg, TypeInv, Types, Initialise, InitialiseFails, Attach, Mark, Bump, Leave, Uncount, Goto
<1>3. /\ Len(data') = Len(data)
      /\ \A d \in 1..Len(data) : d # my[p].data => data'[d] = data[d]
  BY <1>2 DEF Initialise, InitialiseFails, Attach, Mark, Bump, Leave, Uncount
<1> DEFINE g == data'[my[p].data]
<1>4. CASE Initialise(p) \/ InitialiseFails(p) \/ Attach(p) \/ Bump(p) \/ Uncount(p)
  <2>1. g.user = Seg(p).user
    <3>1. CASE Initialise(p)
      BY <1>2, <3>1 DEF Initialise, Segment
    <3>2. CASE Attach(p)
      <4>1. PICK x \in {p, NoProc} :
              data' = [data EXCEPT ![my[p].data].start[NextSlot(p)] = x]
        BY <3>2 DEF Attach
      <4> QED
        BY <1>2, <4>1 DEF Segment
    <3>3. CASE Bump(p)
      BY <1>2, <3>3 DEF Bump, Segment
    <3>4. CASE Uncount(p)
      BY <1>2, <3>4 DEF Uncount, Segment
    <3>5. CASE InitialiseFails(p)
      BY <1>2, <3>5 DEF InitialiseFails, Segment
    <3> QED
      BY <1>4, <3>1, <3>2, <3>3, <3>4, <3>5
  <2>2. pc[p] # "in"
    BY <1>4 DEF Initialise, InitialiseFails, Attach, Bump, Uncount
  <2>3. \A d \in 1..Len(data) : data'[d].user = data[d].user
    BY <1>2, <1>3, <2>1
  <2> QED
    BY <1>2, <1>3, <2>2, <2>3, PresentFrame
<1>5. CASE Mark(p)
  <2>1. NextSlot(p) \in Slots /\ (p \in Samplers => NextSlot(p) \in 0..(MaxSM - 1))
    BY <1>2, <1>5, NextSlotType DEF Mark
  <2>2. /\ \A s \in Slots : g.user[s] = IF s = NextSlot(p) THEN "PRESENT" ELSE Seg(p).user[s]
        /\ pc[p] = "mark"
    BY <1>2, <1>5, <2>1 DEF Mark, Segment
  <2>3. ASSUME NEW d \in 1..Len(data), NEW q \in Procs \ Samplers
        PROVE  KeepsBacked(p, d, SlotOf(q))
    <3>1. SlotOf(q) \in Slots /\ SlotOf(q) \notin 0..(MaxSM - 1)
      BY RoleSlotsFixed
    <3>2. CASE d = my[p].data /\ SlotOf(q) = NextSlot(p)
      <4>1. p \notin Samplers /\ NextSlot(p) = SlotOf(p)
        BY <2>1, <3>1, <3>2 DEF NextSlot
      <4>2. pc'[p] = "in" /\ my'[p] = my[p]
        BY <1>5, <4>1 DEF Mark, Goto, TypeInv, Types
      <4> QED
        BY <3>2, <4>1, <4>2 DEF KeepsBacked
    <3>3. CASE ~ (d = my[p].data /\ SlotOf(q) = NextSlot(p))
      <4>1. data'[d].user[SlotOf(q)] = data[d].user[SlotOf(q)]
        BY <1>2, <1>3, <2>2, <3>1, <3>3
      <4> QED
        BY <2>2, <4>1 DEF KeepsBacked
    <3> QED
      BY <3>2, <3>3
  <2> QED
    BY <1>2, <1>3, <2>3, PresentStep
<1>6. CASE Leave(p)
  <2>1. \A s \in Slots : g.user[s] = IF s = SlotOf(p) THEN "MISSING" ELSE Seg(p).user[s]
    BY <1>2, <1>6 DEF Leave, Segment
  <2>2. ASSUME NEW d \in 1..Len(data), NEW q \in Procs \ Samplers
        PROVE  KeepsBacked(p, d, SlotOf(q))
    <3>1. SlotOf(q) \in Slots
      BY RoleSlotsFixed
    <3>2. CASE d = my[p].data /\ SlotOf(q) = SlotOf(p)
      BY <2>1, <3>1, <3>2 DEF KeepsBacked
    <3>3. CASE ~ (d = my[p].data /\ SlotOf(q) = SlotOf(p))
      <4>1. data'[d].user[SlotOf(q)] = data[d].user[SlotOf(q)]
        BY <1>2, <1>3, <2>1, <3>1, <3>3
      <4> QED
        BY <3>3, <4>1 DEF KeepsBacked
    <3> QED
      BY <3>2, <3>3
  <2> QED
    BY <1>2, <1>3, <2>2, PresentStep
<1> QED
  BY <1>4, <1>5, <1>6

LEMMA PresentNext ==
  ASSUME TypeInv, PresentInv, Killable \subseteq Samplers, [Next]_vars PROVE PresentInv'
<1>1. CASE Next
  BY <1>1, PresentMoves, PresentShmget, PresentChanges DEF Next, Construct, Destroy
<1>2. CASE UNCHANGED vars
  BY <1>2 DEF vars, PresentInv, Backed, SlotOf
<1> QED
  BY <1>1, <1>2

(* "A reader is already present" (myFIFO.cpp) is only said when there is   *)
(* one, for any number of processes, whoever starts and leaves when, as    *)
(* long as only samplers die without their destructor.                     *)
THEOREM RefusedByOneWhoIsIn ==
  ASSUME Killable \subseteq Samplers
  PROVE  Spec => RefusedOnlyIfPresent
<1> DEFINE Inv == TypeInv /\ PresentInv
           Present == \A p \in Readers \cup Writers :
                        pc[p] = "check" /\ pc'[p] = "invalid" => Users \cap Role(p) # {}
<1>1. Init => Inv
  BY TypeInit DEF Init, PresentInv
<1>2. Inv /\ [Next]_vars => Inv'
  BY TypeNext, PresentNext
<1>3. Inv /\ [Next]_vars => [Present]_pc
  <2> SUFFICES ASSUME Inv, Next, NEW p \in Readers \cup Writers,
                      pc[p] = "check", pc'[p] = "invalid"
               PROVE  Users \cap Role(p) # {}
    BY DEF vars
  <2>1. p \in Procs \ Samplers /\ my[p].data \in 1..Len(data)
    BY AttachAssumption, MySegment DEF Procs, Mapping
  <2>2. Check(p)
    <3>1. PICK q \in Procs : \/ Start(q) \/ StartFails(q) \/ Semop(q) \/ SemopCutShort(q)
                             \/ Construct(q) \/ ArriveFails(q)
                             \/ Leave(q) \/ Destroy(q) \/ Die(q)
      BY DEF Next
    <3>2. \E l : Goto(q, l)
      <4>1. CASE \/ Start(q) \/ StartFails(q) \/ Semop(q) \/ SemopCutShort(q)
                 \/ Construct(q) \/ ArriveFails(q)
        BY <4>1 DEF Start, StartFails, Semop, SemopCutShort, Construct, ArriveFails, Shmget,
                    Shmat, Test, Initialise, InitialiseFails, Check, Attach,
                    OutOfBounds, Mark, Bump
      <4>2. CASE Leave(q) \/ Destroy(q) \/ Die(q)
        BY <4>2 DEF Leave, Destroy, Count, Uncount, Stat, RemoveFifo, Shmdt, Stat2, RemoveData,
                    RemoveSems, Die
      <4> QED
        BY <3>1, <4>1, <4>2
    <3>3. q = p
      BY <3>2 DEF Goto, TypeInv, Types
    <3> QED
      BY <2>1, <3>1, <3>3
         DEF Start, StartFails, Semop, SemopCutShort, Construct, ArriveFails, Shmget, Shmat,
             Test, Initialise, InitialiseFails, Attach, OutOfBounds, Mark, Bump, Leave, Destroy, Count, Uncount, Stat, RemoveFifo,
             Shmdt, Stat2, RemoveData, RemoveSems, Die, Goto, TypeInv, Types
  <2>3. data[my[p].data].user[SlotOf(p)] = "PRESENT"
    BY <2>1, <2>2 DEF Check, Taken, Seg, Goto, TypeInv, Types
  <2>4. PICK q \in Procs \ Samplers : pc[q] = "in" /\ SlotOf(q) = SlotOf(p)
    BY <2>1, <2>3 DEF PresentInv, Backed
  <2>5. q \in Role(p)
    BY <2>1, <2>4, AttachAssumption DEF SlotOf, Role, Procs, RdSlot, WrSlot
  <2> QED
    BY <2>4, <2>5 DEF Users
<1> QED
  BY <1>1, <1>2, <1>3, PTL DEF Spec, RefusedOnlyIfPresent

-----------------------------------------------------------------------------
(* What remains when all have left.                                        *)

(* What a process does that is orderly and does not die.                   *)
Goes(p) == Start(p) \/ StartFails(p) \/ Semop(p) \/ Construct(p) \/ Leave(p) \/ Destroy(p)
Only(p) == \A q \in Procs \ {p} : pc'[q] = pc[q] /\ my'[q] = my[q]

Whole == Orderly /\ "died" \notin harm

LEMMA WholeStep ==
  ASSUME [Next]_vars, Whole'
  PROVE  Whole /\ Orderly' /\ (UNCHANGED vars \/ \E p \in Procs : Goes(p))
<1>1. Orderly /\ Orderly' /\ "died" \notin harm'
  BY OrderlyStep DEF Whole
<1>2. CASE UNCHANGED vars
  BY <1>1, <1>2 DEF Whole, vars
<1>3. CASE Next
  <2>1. PICK p \in Procs : \/ Start(p) \/ SemopCutShort(p) \/ Leave(p)
                           \/ (StartFails(p) \/ Semop(p) \/ Construct(p) \/ Destroy(p))
                                /\ UNCHANGED harm
                           \/ harm' = harm \cup {"died"}
    BY <1>3 DEF Next
  <2>2. "died" \notin harm
    BY <1>1, <2>1 DEF Start, SemopCutShort, Leave
  <2>3. Goes(p)
    BY <1>1, <2>1, NeverCutShort DEF Goes
  <2> QED
    BY <1>1, <2>2, <2>3 DEF Whole
<1> QED
  BY <1>2, <1>3

LEMMA OneMoves == ASSUME TypeInv, NEW p \in Procs, Goes(p) PROVE Only(p)
<1>1. CASE Start(p) \/ StartFails(p) \/ Semop(p) \/ Construct(p)
  BY <1>1 DEF Start, StartFails, Semop, Construct, Shmget, Shmat, Test, Initialise,
              InitialiseFails, Check, Attach, OutOfBounds, Mark, Bump, Goto, Only, TypeInv, Types
<1>2. CASE Leave(p) \/ Destroy(p)
  BY <1>2 DEF Leave, Destroy, Count, Uncount, Stat, RemoveFifo, Shmdt, Stat2, RemoveData,
              RemoveSems, Goto, Only, TypeInv, Types
<1> QED
  BY <1>1, <1>2 DEF Goes

(* Only who is between shmat and shmdt has a data segment mapped.          *)
Unmapped == \A p \in Procs : pc[p] \notin Mapping => my[p].data = 0

LEMMA UnmappedStep ==
  ASSUME TypeInv, Unmapped, NEW p \in Procs,
         pc'[p] \in Mapping \/ my'[p].data = 0,
         \A q \in Procs \ {p} : pc'[q] = pc[q] /\ my'[q] = my[q]
  PROVE  Unmapped'
BY DEF Unmapped

LEMMA UnmappedNext ==
  ASSUME TypeInv, Unmapped, NEW p \in Procs, Goes(p)
  PROVE  Unmapped'
<1>1. my[p] \in Local /\ my \in [Procs -> Local] /\ pc \in [Procs -> PC]
  BY DEF TypeInv, Types
<1>2. pc'[p] \in Mapping \/ my'[p].data = 0
  <2>1. CASE Start(p) \/ StartFails(p) \/ Semop(p) \/ Shmget(p) \/ Shmat(p)
    <3>1. my[p].data = 0
      BY <2>1 DEF Start, StartFails, Semop, Shmget, Shmat, Unmapped, Mapping
    <3> QED
      BY <1>1, <2>1, <3>1 DEF Start, StartFails, Semop, Shmget, Shmat, Goto, Mapping, Local
  <2>2. CASE \/ Test(p) \/ Initialise(p) \/ InitialiseFails(p) \/ Check(p) \/ Attach(p)
             \/ Mark(p) \/ Bump(p)
    BY <1>1, <2>2 DEF Test, Initialise, InitialiseFails, Check, Attach, Mark, Bump, Goto, Mapping
  <2>3. CASE Leave(p) \/ Count(p) \/ Uncount(p) \/ Stat(p) \/ RemoveFifo(p)
    BY <1>1, <2>3 DEF Leave, Count, Uncount, Stat, RemoveFifo, Goto, Mapping
  <2>4. CASE Shmdt(p)
    BY <1>1, <2>4 DEF Shmdt, Local
  <2>5. CASE Stat2(p) \/ RemoveData(p) \/ RemoveSems(p)
    <3>1. my[p].data = 0
      BY <2>5 DEF Stat2, RemoveData, RemoveSems, Unmapped, Mapping
    <3> QED
      BY <1>1, <2>5, <3>1, FreshLocal DEF Stat2, RemoveData, RemoveSems
  <2>6. CASE OutOfBounds(p)
    BY <1>1, <2>6, FreshLocal DEF OutOfBounds
  <2> QED
    BY <2>1, <2>2, <2>3, <2>4, <2>5, <2>6 DEF Goes, Construct, Destroy
<1> QED
  BY <1>2, OneMoves, UnmappedStep DEF Only

(* Once filled, a segment stays filled.                                    *)
FillKept == \A e \in 1..Len(data) : /\ data[e].init => data'[e].init
                                    /\ data[e].semid # 0 => data'[e].semid # 0

LEMMA FillStays == ASSUME TypeInv, CtorInv, NEW p \in Procs, Goes(p) PROVE FillKept
<1>1. data \in Seq(Segment)
  BY DEF TypeInv, Types
<1>2. CASE UNCHANGED data
  BY <1>2 DEF FillKept
<1>3. CASE Shmget(p)
  BY <1>1, <1>3 DEF Shmget, Data, FillKept
<1>4. CASE Attach(p) \/ Mark(p) \/ Bump(p) \/ Leave(p) \/ Uncount(p)
  BY <1>4, SlotsOnly DEF SameData, FillKept
<1>5. CASE Initialise(p) \/ InitialiseFails(p)
  <2>1. /\ my[p].data \in 1..Len(data) /\ Seg(p) \in Segment /\ Seg(p) = data[my[p].data]
        /\ my[p].sem # 0
    BY <1>5, MySegment, Alone DEF Initialise, InitialiseFails, Mapping, Seg, InCtor
  <2>2. CASE Initialise(p)
    BY <1>1, <2>1, <2>2 DEF Initialise, FillKept, Segment
  <2>3. CASE InitialiseFails(p)
    BY <1>1, <2>1, <2>3 DEF InitialiseFails, FillKept, Segment
  <2> QED
    BY <1>5, <2>2, <2>3
<1>6. CASE \/ Start(p) \/ StartFails(p) \/ Semop(p) \/ Shmat(p) \/ Test(p) \/ Check(p)
           \/ OutOfBounds(p) \/ Count(p) \/ Stat(p) \/ RemoveFifo(p) \/ Shmdt(p) \/ Stat2(p)
           \/ RemoveData(p) \/ RemoveSems(p)
  <2>1. UNCHANGED data
    BY <1>6 DEF Start, StartFails, Semop, Shmat, Test, Check, OutOfBounds, Count, Stat,
                RemoveFifo, Shmdt, Stat2, RemoveData, RemoveSems, Data
  <2> QED
    BY <1>2, <2>1
<1> QED
  BY <1>3, <1>4, <1>5, <1>6 DEF Goes, Construct, Destroy

(* Who has a segment mapped has the one the key leads to, and nobody       *)
(* removes that one; who has unmapped it knows the set of semaphores.      *)
Unmapping == {"stat2", "rmdata", "rmsem"}

Home(p) == /\ pc[p] \in Mapping => /\ dataKey # 0 /\ my[p].data = dataKey
                                   /\ pc[p] \notin {"test", "init"} => data[dataKey].semid # 0
           /\ pc[p] \in Unmapping => semKey \in {0, my[p].sem}

HomeInv == /\ \A p \in Procs : Home(p)
           /\ \A p, q \in Procs : ~ (pc[p] \in Removing /\ pc[q] \in Mapping)

LEMMA HomeStep ==
  ASSUME TypeInv, CtorInv, HomeInv, NEW p \in Procs, Goes(p), UNCHANGED dataKey, Home(p)',
         semKey' \in {0, semKey} \/ \A q \in Procs : pc[q] \notin InDtor,
         pc'[p] \in Mapping => pc[p] \in Mapping \/ \A q \in Procs : pc[q] \notin InDtor,
         pc'[p] \in Removing => pc[p] \in Removing \/ \A q \in Procs : pc[q] \notin Mapping
  PROVE  HomeInv'
<1>1. Only(p) /\ FillKept /\ dataKey \in 0..Len(data)
  BY OneMoves, FillStays DEF TypeInv, Types
<1>2. Unmapping \subseteq InDtor /\ Removing \subseteq InDtor /\ Mapping \cap Removing = {}
  BY DEF Unmapping, Removing, InDtor, Mapping
<1>3. ASSUME NEW q \in Procs \ {p} PROVE Home(q)'
  <2>1. pc'[q] = pc[q] /\ my'[q] = my[q] /\ Home(q)
    BY <1>1 DEF Only, HomeInv
  <2>2. pc[q] \in Mapping /\ pc[q] \notin {"test", "init"} => data'[dataKey].semid # 0
    BY <1>1, <2>1 DEF Home, FillKept
  <2> QED
    BY <1>2, <2>1, <2>2 DEF Home
<1>4. ASSUME NEW q \in Procs, NEW r \in Procs, pc'[q] \in Removing, pc'[r] \in Mapping PROVE FALSE
  BY <1>1, <1>2, <1>4 DEF Only, HomeInv
<1> QED
  BY <1>3, <1>4 DEF HomeInv

(* Steps of a process that has the segment mapped and keeps it.            *)
LEMMA HomeMapped ==
  ASSUME TypeInv, CtorInv, SegInv, HomeInv, NEW p \in Procs,
         \/ Test(p) \/ Initialise(p) \/ InitialiseFails(p) \/ Check(p) \/ Attach(p) \/ Mark(p)
         \/ Bump(p) \/ Leave(p) \/ Count(p) \/ Uncount(p) \/ Stat(p) \/ RemoveFifo(p)
  PROVE  HomeInv'
<1>1. /\ pc[p] \in Mapping /\ UNCHANGED <<dataKey, semKey>>
      /\ pc'[p] \in Mapping \ {"test"} /\ Goes(p)
  BY DEF Test, Initialise, InitialiseFails, Check, Attach, Mark, Bump, Leave, Count, Uncount,
         Stat, RemoveFifo, Goto, Mapping, Sems, Data, Goes, Construct, Destroy, TypeInv, Types
<1>2. my'[p].data = my[p].data /\ my[p].data = dataKey /\ dataKey # 0 /\ dataKey \in 1..Len(data)
  <2>1. my[p] \in Local /\ my \in [Procs -> Local]
    BY DEF TypeInv, Types
  <2>2. my'[p].data = my[p].data
    BY <2>1 DEF Test, Initialise, InitialiseFails, Check, Attach, Mark, Bump, Leave, Count,
                Uncount, Stat, RemoveFifo, Local
  <2> QED
    BY <1>1, <2>2 DEF HomeInv, Home, TypeInv, Types
<1>3. pc'[p] # "init" => data'[dataKey].semid # 0
  <2>1. CASE Initialise(p) \/ InitialiseFails(p)
    <3>1. /\ Seg(p) \in Segment /\ Seg(p) = data[dataKey] /\ data \in Seq(Segment)
          /\ my[p].sem # 0
      BY <1>1, <1>2, <2>1, MySegment, Alone
         DEF Seg, TypeInv, Types, Initialise, InitialiseFails, InCtor
    <3>2. CASE Initialise(p)
      BY <1>2, <3>1, <3>2 DEF Initialise, Segment
    <3>3. CASE InitialiseFails(p)
      BY <1>2, <3>1, <3>3 DEF InitialiseFails, Segment
    <3> QED
      BY <2>1, <3>2, <3>3
  <2>2. CASE Test(p)
    <3>1. /\ pc'[p] # "init" => data[dataKey].init
          /\ UNCHANGED <<data, dataKey>>
      BY <1>2, <2>2 DEF Test, Goto, Data, Seg, TypeInv, Types
    <3> QED
      BY <1>2, <3>1 DEF SegInv, KeysInv
  <2>3. CASE ~ (Initialise(p) \/ InitialiseFails(p)) /\ ~ Test(p)
    <3>1. data[dataKey].semid # 0
      BY <1>1, <2>3 DEF HomeInv, Home, Check, Attach, Mark, Bump, Leave, Count, Uncount, Stat,
                        RemoveFifo
    <3> QED
      BY <1>1, <1>2, <3>1, FillStays DEF FillKept
  <2> QED
    BY <2>1, <2>2, <2>3
<1>4. Home(p)'
  BY <1>1, <1>2, <1>3 DEF Home, Mapping, Unmapping
<1>5. pc'[p] \notin Removing
  BY <1>1 DEF Mapping, Removing
<1> QED
  BY <1>1, <1>4, <1>5, HomeStep

LEMMA HomeArrives ==
  ASSUME TypeInv, CtorInv, SegInv, HomeInv, Orderly', NEW p \in Procs,
         Start(p) \/ StartFails(p) \/ Semop(p) \/ Shmat(p)
  PROVE  HomeInv'
<1> USE DEF Goes, Construct, Sems, Data
<1>1. CASE Start(p) \/ StartFails(p) \/ Semop(p)
  <2>1. pc'[p] \in {"semop", "shmget", "gone"} /\ UNCHANGED dataKey
    BY <1>1 DEF Start, StartFails, Semop, Goto, TypeInv, Types
  <2>2. semKey' = semKey \/ \A q \in Procs : pc[q] \notin InDtor
    <3>1. CASE Start(p)
      BY <3>1, OrderlyStart
    <3> QED
      BY <1>1, <3>1 DEF StartFails, Semop
  <2> QED
    BY <1>1, <2>1, <2>2, HomeStep DEF Home, Mapping, Unmapping, Removing
<1>2. CASE Shmat(p)
  <2>1. /\ pc[p] = "shmat" /\ dataKey # 0 /\ my[p].did = dataKey
        /\ \A q \in Procs : pc[q] \notin InDtor
    BY <1>2, Alone DEF Shmat, SegInv, Place, InCtor
  <2>2. /\ my' = [my EXCEPT ![p].data = my[p].did] /\ pc'[p] = "test"
        /\ UNCHANGED <<dataKey, semKey>> /\ my[p] \in Local
    BY <1>2, <2>1 DEF Shmat, Goto, TypeInv, Types
  <2>3. my'[p].data = dataKey
    BY <2>1, <2>2 DEF TypeInv, Types, Local
  <2> QED
    BY <1>2, <2>1, <2>2, <2>3, HomeStep DEF Home, Mapping, Unmapping, Removing
<1> QED
  BY <1>1, <1>2

LEMMA HomeShmget ==
  ASSUME TypeInv, CtorInv, HomeInv, NEW p \in Procs, Shmget(p)
  PROVE  HomeInv'
<1>1. /\ pc'[p] = "shmat" /\ semKey' = semKey /\ Goes(p)
      /\ \A q \in Procs : pc[q] \notin InDtor
  BY Alone DEF Shmget, Sems, Goto, Goes, Construct, InCtor, TypeInv, Types
<1>2. CASE UNCHANGED dataKey
  BY <1>1, <1>2, HomeStep DEF Home, Mapping, Unmapping, Removing
<1>3. CASE dataKey = 0
  <2>1. \A q \in Procs : pc[q] \notin Mapping \cup Unmapping \cup Removing
    BY <1>1, <1>3 DEF HomeInv, Home, InDtor, Unmapping, Removing
  <2>2. \A q \in Procs : pc'[q] \notin Mapping \cup Unmapping \cup Removing
    BY <1>1, <2>1, OneMoves DEF Only, Mapping, Unmapping, Removing
  <2> QED
    BY <2>2 DEF HomeInv, Home
<1> QED
  BY <1>2, <1>3 DEF Shmget, Data

LEMMA HomeUnmaps ==
  ASSUME TypeInv, CtorInv, SegInv, HomeInv, NEW p \in Procs,
         Shmdt(p) \/ Stat2(p) \/ RemoveSems(p) \/ OutOfBounds(p)
  PROVE  HomeInv'
<1> USE DEF Goes, Construct, Destroy, Sems, Data
<1>1. UNCHANGED dataKey /\ semKey' \in {0, semKey}
  BY DEF Shmdt, Stat2, RemoveSems, OutOfBounds
<1>2. CASE pc'[p] = "gone"
  BY <1>1, <1>2, HomeStep DEF Home, Mapping, Unmapping, Removing
<1>3. CASE Shmdt(p)
  <2>1. /\ pc[p] = "shmdt" /\ pc'[p] = "stat2" /\ my' = [my EXCEPT ![p].data = 0, ![p].sem = Seg(p).semid]
        /\ my[p] \in Local /\ semKey' = semKey
    BY <1>3 DEF Shmdt, Goto, TypeInv, Types
  <2>2. Seg(p).semid = semKey
    BY <2>1 DEF HomeInv, Home, Mapping, SegInv, KeysInv, Seg
  <2>3. my'[p].sem = semKey
    BY <2>1, <2>2 DEF TypeInv, Types, Local
  <2> QED
    BY <1>1, <1>3, <2>1, <2>3, HomeStep DEF Home, Mapping, Unmapping, Removing
<1>4. CASE Stat2(p) /\ pc'[p] # "gone"
  <2>1. /\ pc[p] = "stat2" /\ pc'[p] = "rmdata" /\ UNCHANGED <<my, semKey>>
    BY <1>4 DEF Stat2, Goto, TypeInv, Types
  <2>2. \A q \in Procs : pc[q] \notin Mapping
    <3> SUFFICES ASSUME NEW q \in Procs, pc[q] \in Mapping PROVE FALSE
      OBVIOUS
    <3>1. dataKey # 0 /\ my[q].data = dataKey
      BY DEF HomeInv, Home
    <3>2. my[p].did = dataKey
      BY <2>1, <3>1 DEF SegInv, Place, InDtor
    <3>3. DataExists(my[p].did) /\ DataUsers(my[p].did) # {}
      BY <3>1, <3>2 DEF DataExists, DataUsers
    <3> QED
      BY <1>4, <3>3 DEF Stat2, Goto, TypeInv, Types
  <2>3. Home(p)'
    BY <2>1 DEF HomeInv, Home, Mapping, Unmapping
  <2> QED
    BY <1>1, <1>4, <2>1, <2>2, <2>3, HomeStep DEF Mapping
<1>5. RemoveSems(p) \/ OutOfBounds(p) => pc'[p] = "gone"
  BY DEF RemoveSems, OutOfBounds, Goto, TypeInv, Types
<1> QED
  BY <1>2, <1>3, <1>4, <1>5

LEMMA HomeRemoves ==
  ASSUME TypeInv, CtorInv, SegInv, HomeInv, NEW p \in Procs, RemoveData(p)
  PROVE  HomeInv'
<1>1. /\ pc[p] = "rmdata" /\ pc'[p] = "rmsem" /\ Goes(p) /\ UNCHANGED <<my, semKey>>
  BY DEF RemoveData, Goto, Goes, Destroy, Sems, TypeInv, Types
<1>2. \A q \in Procs : pc[q] \notin Mapping
  BY <1>1 DEF HomeInv, Removing
<1>3. \A q \in Procs : pc'[q] \notin Mapping
  BY <1>1, <1>2, OneMoves DEF Only, Mapping
<1>4. \A q \in Procs : pc'[q] \in Unmapping => semKey \in {0, my[q].sem}
  BY <1>1, OneMoves DEF Only, HomeInv, Home, Unmapping
<1> QED
  BY <1>1, <1>3, <1>4 DEF HomeInv, Home

LEMMA HomeNext ==
  ASSUME TypeInv, CtorInv, SegInv, HomeInv, Orderly', NEW p \in Procs, Goes(p)
  PROVE  HomeInv'
BY HomeMapped, HomeArrives, HomeShmget, HomeUnmaps, HomeRemoves DEF Goes, Construct, Destroy

-----------------------------------------------------------------------------
(* The segment and the set of semaphores are held by somebody who will     *)
(* remove them, if nobody dies.                                            *)
Someone(S) == \E q \in Procs : pc[q] \in S

Holding == {"shmat", "stat2", "rmdata"} \cup Mapping
Staying == {"in", "invalid"}

(* A constructor that could run into the end of the array is not the only  *)
(* one to hold the segment.                                                *)
Company(p) ==
  /\ pc[p] \in {"shmat", "test"} /\ data[dataKey].init => Someone(Staying)
  /\ pc[p] \in {"check", "attach", "mark"} => Seg(p).nsampler = 0 \/ Someone(Staying)

HeldInv == /\ dataKey # 0 => Someone(Holding)
           /\ semKey # 0 /\ dataKey = 0 => Someone({"semop", "shmget", "rmsem"})
           /\ \A p \in Procs : Company(p)

LEMMA NeverBack == ASSUME TypeInv, NEW p \in Procs, Goes(p) PROVE pc'[p] # "out"
<1>1. \E l \in PC \ {"out"} : Goto(p, l)
  <2>1. CASE Start(p) \/ StartFails(p) \/ Semop(p) \/ Construct(p)
    BY <2>1 DEF Start, StartFails, Semop, Construct, Shmget, Shmat, Test, Initialise,
                InitialiseFails, Check, Attach, OutOfBounds, Mark, Bump, PC, InCtor, InDtor
  <2>2. CASE Leave(p) \/ Destroy(p)
    BY <2>2 DEF Leave, Destroy, Count, Uncount, Stat, RemoveFifo, Shmdt, Stat2, RemoveData,
                RemoveSems, PC, InCtor, InDtor
  <2> QED
    BY <2>1, <2>2 DEF Goes
<1> QED
  BY <1>1 DEF Goto, TypeInv, Types

(* While somebody constructs, others only start, and who stays stays.      *)
LEMMA WhoStays ==
  ASSUME TypeInv, NEW p \in Procs, Goes(p), Orderly',
         NEW x \in Procs, pc[x] \in InCtor, Someone(Staying)
  PROVE  Someone(Staying)'
<1>1. PICK q \in Procs : pc[q] \in Staying
  BY DEF Someone
<1>2. CASE q = p
  <2>1. Leave(p)
    <3>1. CASE Start(p) \/ StartFails(p) \/ Semop(p) \/ Construct(p)
      BY <1>1, <1>2, <3>1 DEF Start, StartFails, Semop, Construct, Shmget, Shmat, Test,
                 Initialise, InitialiseFails, Check, Attach, OutOfBounds, Mark, Bump, Staying
    <3>2. CASE Destroy(p)
      BY <1>1, <1>2, <3>2 DEF Destroy, Count, Uncount, Stat, RemoveFifo, Shmdt, Stat2, RemoveData,
                              RemoveSems, Staying
    <3> QED
      BY <3>1, <3>2 DEF Goes
  <2> QED
    BY <2>1, OrderlyLeave DEF Ctor
<1>3. CASE q # p
  BY <1>1, <1>3, OneMoves DEF Only, Someone
<1> QED
  BY <1>2, <1>3

LEMMA OnlyStarts ==
  ASSUME TypeInv, CtorInv, NEW p \in Procs, Goes(p), Orderly',
         NEW q \in Procs \ {p}, pc[q] \in InCtor
  PROVE  Start(p) \/ StartFails(p) \/ Semop(p)
<1>1. pc[p] \notin InCtor \cup InDtor
  BY Alone
<1>2. ~ Construct(p)
  BY <1>1 DEF Construct, Shmget, Shmat, Test, Initialise, InitialiseFails, Check, Attach,
              OutOfBounds, Mark, Bump, InCtor
<1>3. ~ Destroy(p)
  BY <1>1 DEF Destroy, Count, Uncount, Stat, RemoveFifo, Shmdt, Stat2, RemoveData, RemoveSems,
              InDtor
<1>4. ~ Leave(p)
  BY OrderlyLeave DEF Ctor
<1> QED
  BY <1>2, <1>3, <1>4 DEF Goes

LEMMA Bystander ==
  ASSUME TypeInv, CtorInv, NEW p \in Procs, Goes(p), Orderly',
         NEW q \in Procs \ {p}, pc[q] \in InCtor, Company(q)
  PROVE  Company(q)'
<1>1. UNCHANGED <<dataKey, data>> /\ pc'[q] = pc[q] /\ my'[q] = my[q]
  BY OnlyStarts, OneMoves DEF Start, StartFails, Semop, Data, Only
<1>2. Someone(Staying) => Someone(Staying)'
  BY WhoStays
<1> QED
  BY <1>1, <1>2 DEF Company, Seg

(* The process that constructs.                                            *)
LEMMA CompanyOf ==
  ASSUME TypeInv, CtorInv, SegInv, HeldInv, NEW p \in Procs, Goes(p), Orderly'
  PROVE  Company(p)'
<1> USE DEF Goto, Data
<1>1. /\ Company(p) /\ pc \in [Procs -> PC] /\ my \in [Procs -> Local] /\ my[p] \in Local
      /\ dataKey # 0 => Someone(Holding)
  BY DEF HeldInv, TypeInv, Types
<1>2. pc[p] \in InCtor /\ Someone(Staying) => Someone(Staying)'
  BY WhoStays
<1>3. CASE Shmget(p)
  <2>1. pc[p] = "shmget" /\ pc[p] \in InCtor /\ pc'[p] = "shmat"
    BY <1>1, <1>3 DEF Shmget, InCtor
  <2>2. CASE dataKey = 0
    <3>1. data' = Append(data, Blank) /\ dataKey' = Len(data) + 1 /\ data \in Seq(Segment)
      BY <1>3, <2>2 DEF Shmget, TypeInv, Types
    <3>2. data'[dataKey'] = Blank
      BY <3>1
    <3> QED
      BY <2>1, <3>2 DEF Company, Blank
  <2>3. CASE dataKey # 0
    <3>1. PICK q \in Procs : pc[q] \in Holding
      BY <1>1, <2>3 DEF Someone
    <3>2. q # p /\ pc[q] \notin InDtor /\ pc[q] \notin InCtor
      BY <2>1, <3>1, Alone DEF Holding, Mapping
    <3>3. pc[q] \in Staying
      BY <3>1, <3>2 DEF Holding, Mapping, InCtor, InDtor, Staying
    <3> QED
      BY <1>2, <2>1, <3>3 DEF Company, Someone
  <2> QED
    BY <2>2, <2>3
<1>4. CASE Shmat(p)
  <2>1. pc[p] = "shmat" /\ pc[p] \in InCtor /\ pc'[p] = "test" /\ UNCHANGED <<dataKey, data>>
    BY <1>1, <1>4 DEF Shmat, InCtor
  <2> QED
    BY <1>1, <1>2, <2>1 DEF Company
<1>5. CASE Test(p)
  <2>1. /\ pc[p] = "test" /\ pc[p] \in InCtor /\ UNCHANGED <<dataKey, data, my>>
        /\ pc'[p] = IF Seg(p).init THEN "check" ELSE "init"
    BY <1>1, <1>5 DEF Test, InCtor
  <2>2. my[p].data = dataKey
    BY <2>1 DEF SegInv, Place, Inside
  <2> QED
    BY <1>1, <1>2, <2>1, <2>2 DEF Company, Seg
<1>6. CASE Initialise(p)
  <2>1. /\ pc[p] = "init" /\ pc'[p] = "check" /\ my' = my
        /\ my[p].data \in 1..Len(data) /\ Seg(p) \in Segment /\ Seg(p) = data[my[p].data]
        /\ data \in Seq(Segment)
    BY <1>1, <1>6, MySegment DEF Initialise, Mapping, Seg, TypeInv, Types
  <2>2. data'[my[p].data].nsampler = 0
    BY <1>6, <2>1 DEF Initialise, Segment
  <2> QED
    BY <2>1, <2>2 DEF Company, Seg
<1>7. CASE Check(p)
  <2>1. /\ pc[p] = "check" /\ pc[p] \in InCtor /\ UNCHANGED <<dataKey, data, my>>
        /\ pc'[p] \in {"invalid", "attach"}
    BY <1>1, <1>7 DEF Check, InCtor
  <2> QED
    BY <1>1, <1>2, <2>1 DEF Company, Seg
<1>8. CASE Attach(p)
  <2>1. /\ pc[p] = "attach" /\ pc[p] \in InCtor /\ pc'[p] \in {"invalid", "mark"}
        /\ my[p].data \in 1..Len(data) /\ Seg(p) \in Segment /\ Seg(p) = data[my[p].data]
        /\ data \in Seq(Segment) /\ my'[p].data = my[p].data
    BY <1>1, <1>8, MySegment DEF Attach, InCtor, Mapping, Seg, TypeInv, Types, Local
  <2>2. data'[my[p].data].nsampler = Seg(p).nsampler
    <3>1. PICK x \in {p, NoProc} :
            data' = [data EXCEPT ![my[p].data].start[NextSlot(p)] = x]
      BY <1>8 DEF Attach
    <3> QED
      BY <2>1, <3>1 DEF Segment
  <2> QED
    BY <1>1, <1>2, <2>1, <2>2 DEF Company, Seg
<1>9. CASE \/ Start(p) \/ StartFails(p) \/ Semop(p) \/ InitialiseFails(p) \/ OutOfBounds(p)
           \/ Mark(p) \/ Bump(p) \/ Leave(p) \/ Destroy(p)
  <2>1. pc'[p] \notin {"shmat", "test", "check", "attach", "mark"}
    <3>1. CASE \/ Start(p) \/ StartFails(p) \/ Semop(p) \/ InitialiseFails(p)
               \/ OutOfBounds(p) \/ Mark(p) \/ Bump(p) \/ Leave(p)
      BY <1>1, <3>1 DEF Start, StartFails, Semop, InitialiseFails, OutOfBounds, Mark, Bump, Leave
    <3>2. CASE Destroy(p)
      BY <1>1, <3>2 DEF Destroy, Count, Uncount, Stat, RemoveFifo, Shmdt, Stat2, RemoveData,
                        RemoveSems
    <3> QED
      BY <1>9, <3>1, <3>2
  <2> QED
    BY <2>1 DEF Company
<1> QED
  BY <1>3, <1>4, <1>5, <1>6, <1>7, <1>8, <1>9 DEF Goes, Construct

(* Who holds the segment goes on holding it, or is not the only one.       *)
LEMMA DataHeld ==
  ASSUME TypeInv, CtorInv, SegInv, Unmapped, HomeInv, HeldInv,
         NEW p \in Procs, Goes(p), Orderly', dataKey' # 0
  PROVE  Someone(Holding)'
<1> USE DEF Goto, Data
<1>1. /\ Company(p) /\ Only(p) /\ pc \in [Procs -> PC]
      /\ dataKey # 0 => Someone(Holding)
  BY OneMoves DEF HeldInv, TypeInv, Types
<1>2. pc'[p] \in Holding => Someone(Holding)'
  BY DEF Someone
<1>3. CASE Shmget(p)
  BY <1>1, <1>2, <1>3 DEF Shmget, Holding
<1>4. CASE ~ Shmget(p)
  <2>1. dataKey # 0 /\ dataKey' = dataKey
    <3>1. CASE RemoveData(p)
      BY <3>1 DEF RemoveData, SegInv, Place, InDtor
    <3>2. CASE \/ Start(p) \/ StartFails(p) \/ Semop(p) \/ (Construct(p) /\ ~ Shmget(p))
               \/ Leave(p)
      BY <3>2 DEF Start, StartFails, Semop, Construct, Shmat, Test, Initialise, InitialiseFails,
                  Check, Attach, OutOfBounds, Mark, Bump, Leave
    <3>3. CASE Destroy(p) /\ ~ RemoveData(p)
      BY <3>3 DEF Destroy, Count, Uncount, Stat, RemoveFifo, Shmdt, Stat2, RemoveSems
    <3> QED
      BY <1>1, <1>4, <3>1, <3>2, <3>3 DEF Goes
  <2>2. PICK q \in Procs : pc[q] \in Holding
    BY <1>1, <2>1 DEF Someone
  <2>3. CASE q # p
    BY <1>1, <2>2, <2>3 DEF Only, Someone
  <2>4. CASE q = p
    <3>1. CASE Shmat(p)
      BY <1>1, <1>2, <3>1 DEF Shmat, Holding, Mapping
    <3>2. CASE OutOfBounds(p)
      <4>1. Seg(p).nsampler # 0 /\ pc[p] \in {"attach", "mark"}
        BY <3>2, AttachAssumption DEF OutOfBounds, NextSlot
      <4>2. Someone(Staying)'
        BY <1>1, <4>1, WhoStays DEF Company, InCtor
      <4> QED
        BY <4>2 DEF Someone, Staying, Holding, Mapping
    <3>3. CASE Stat2(p)
      <4>1. CASE pc'[p] = "rmdata"
        BY <1>2, <4>1 DEF Holding
      <4>2. CASE pc'[p] # "rmdata"
        <5>1. pc[p] = "stat2" /\ my[p].did = dataKey
          BY <2>1, <3>3 DEF Stat2, SegInv, Place, InDtor
        <5>2. DataUsers(dataKey) # {}
          BY <1>1, <2>1, <3>3, <4>2, <5>1 DEF Stat2, DataExists
        <5>3. PICK r \in Procs : my[r].data = dataKey
          BY <5>2 DEF DataUsers
        <5>4. pc[r] \in Mapping
          BY <2>1, <5>3 DEF Unmapped
        <5>5. r # p
          BY <5>1, <5>4 DEF Mapping
        <5> QED
          BY <1>1, <5>4, <5>5 DEF Only, Someone, Holding
      <4> QED
        BY <4>1, <4>2
    <3>4. CASE Start(p) \/ StartFails(p) \/ Semop(p) \/ RemoveData(p) \/ RemoveSems(p)
      <4>1. ~ RemoveData(p)
        BY <2>1 DEF RemoveData, SegInv, Place, InDtor
      <4> QED
        BY <2>2, <2>4, <3>4, <4>1 DEF Start, StartFails, Semop, RemoveSems, Holding, Mapping
    <3>5. CASE \/ Test(p) \/ Initialise(p) \/ InitialiseFails(p) \/ Check(p) \/ Attach(p)
               \/ Mark(p) \/ Bump(p) \/ Leave(p) \/ Count(p) \/ Uncount(p) \/ Stat(p)
               \/ RemoveFifo(p) \/ Shmdt(p)
      BY <1>1, <1>2, <3>5 DEF Test, Initialise, InitialiseFails, Check, Attach, Mark, Bump, Leave,
                              Count, Uncount, Stat, RemoveFifo, Shmdt, Holding, Mapping
    <3> QED
      BY <1>1, <1>4, <3>1, <3>2, <3>3, <3>4, <3>5 DEF Goes, Construct, Destroy
  <2> QED
    BY <2>3, <2>4
<1> QED
  BY <1>3, <1>4

LEMMA SemsHeld ==
  ASSUME TypeInv, SegInv, HomeInv, HeldInv,
         NEW p \in Procs, Goes(p), semKey' # 0, dataKey' = 0
  PROVE  Someone({"semop", "shmget", "rmsem"})'
<1> USE DEF Goto, Data, Sems
<1> DEFINE S == {"semop", "shmget", "rmsem"}
<1>1. /\ Only(p) /\ pc \in [Procs -> PC]
      /\ semKey # 0 /\ dataKey = 0 => Someone(S)
  BY OneMoves DEF HeldInv, TypeInv, Types
<1>2. CASE Start(p) \/ Semop(p) \/ RemoveData(p)
  <2>1. pc'[p] \in S
    BY <1>1, <1>2 DEF Start, Semop, RemoveData
  <2> QED
    BY <2>1 DEF Someone
<1>3. CASE ~ (Start(p) \/ Semop(p) \/ RemoveData(p))
  <2>1. dataKey = 0 /\ semKey # 0 /\ pc[p] \notin S
    <3>1. CASE Shmget(p)
      BY <3>1 DEF Shmget, TypeInv, Types
    <3>2. CASE RemoveSems(p)
      BY <3>2 DEF RemoveSems, HomeInv, Home, Unmapping
    <3>3. CASE StartFails(p) \/ (Construct(p) /\ ~ Shmget(p)) \/ Leave(p)
      BY <3>3 DEF StartFails, Construct, Shmat, Test, Initialise, InitialiseFails, Check, Attach,
                  OutOfBounds, Mark, Bump, Leave
    <3>4. CASE Destroy(p) /\ ~ RemoveData(p) /\ ~ RemoveSems(p)
      BY <3>4 DEF Destroy, Count, Uncount, Stat, RemoveFifo, Shmdt, Stat2
    <3> QED
      BY <1>1, <1>3, <3>1, <3>2, <3>3, <3>4 DEF Goes
  <2>2. PICK q \in Procs : pc[q] \in S
    BY <1>1, <2>1 DEF Someone
  <2> QED
    BY <1>1, <2>1, <2>2 DEF Only, Someone
<1> QED
  BY <1>2, <1>3

LEMMA HeldNext ==
  ASSUME TypeInv, CtorInv, SegInv, Unmapped, HomeInv, HeldInv, Orderly', NEW p \in Procs, Goes(p)
  PROVE  HeldInv'
<1>1. dataKey' # 0 => Someone(Holding)'
  BY DataHeld
<1>2. semKey' # 0 /\ dataKey' = 0 => Someone({"semop", "shmget", "rmsem"})'
  BY SemsHeld
<1>3. ASSUME NEW q \in Procs PROVE Company(q)'
  <2>1. CASE q = p
    BY <2>1, CompanyOf
  <2>2. CASE q # p /\ pc[q] \in InCtor
    <3>1. Company(q)
      BY DEF HeldInv
    <3> QED
      BY <2>2, <3>1, Bystander
  <2>3. CASE q # p /\ pc[q] \notin InCtor
    <3>1. pc'[q] \notin InCtor
      BY <2>3, OneMoves DEF Only
    <3> QED
      BY <3>1 DEF Company, InCtor
  <2> QED
    BY <2>1, <2>2, <2>3
<1> QED
  BY <1>1, <1>2, <1>3 DEF HeldInv

HeldAll == TypeInv /\ CtorInv /\ SegInv /\ Unmapped /\ HomeInv /\ HeldInv

LEMMA HeldStart == Init => HeldAll
<1> SUFFICES ASSUME Init PROVE HeldAll
  OBVIOUS
<1>1. TypeInv /\ CtorInv /\ SegInv
  BY TypeInit, CtorInit, SegInit
<1>2. Unmapped
  BY FreshLocal DEF Init, Unmapped
<1>3. HomeInv /\ HeldInv
  BY DEF Init, HomeInv, Home, HeldInv, Company, Mapping, Unmapping, Removing
<1> QED
  BY <1>1, <1>2, <1>3 DEF HeldAll

LEMMA HeldStep ==
  ASSUME TypeInv, Whole => HeldAll, [Next]_vars
  PROVE  TypeInv' /\ (Whole' => HeldAll')
<1>1. TypeInv'
  BY TypeNext
<1>2. ASSUME Whole' PROVE HeldAll'
  <2>1. Whole /\ Orderly' /\ (UNCHANGED vars \/ \E p \in Procs : Goes(p))
    BY <1>2, WholeStep
  <2>2. CASE UNCHANGED vars
    BY <2>1, <2>2, <1>1, CtorNext, SegNext
       DEF vars, HeldAll, Unmapped, HomeInv, Home, HeldInv, Company, Someone, Seg
  <2>3. ASSUME NEW p \in Procs, Goes(p) PROVE HeldAll'
    BY <1>1, <2>1, <2>3, CtorNext, SegNext, UnmappedNext, HomeNext, HeldNext DEF HeldAll
  <2> QED
    BY <2>1, <2>2, <2>3
<1> QED
  BY <1>1, <1>2

Deserted == \A p \in Procs : pc[p] \in {"out", "gone"}

LEMMA NothingHeld ==
  ASSUME HeldAll, Deserted PROVE semKey = 0 /\ dataKey = 0
BY DEF HeldAll, HeldInv, Deserted, Someone, Holding, Mapping

(* When everybody has left, the data segment and the set of semaphores are *)
(* gone, if nobody has died, no process has started while another one left *)
(* and no wait was cut short: for any number of processes, slots and       *)
(* refusals, whoever asks for which role and whichever of the calls that a *)
(* constructor survives has failed.                                        *)
THEOREM SegmentRemoved == Spec => [](Whole /\ Deserted => semKey = 0 /\ dataKey = 0)
<1> DEFINE Inv == TypeInv /\ (Whole => HeldAll)
<1>1. Init => Inv
  BY HeldStart DEF HeldAll
<1>2. Inv /\ [Next]_vars => Inv'
  BY HeldStep
<1>3. Inv => (Whole /\ Deserted => semKey = 0 /\ dataKey = 0)
  BY NothingHeld
<1> QED
  BY <1>1, <1>2, <1>3, PTL DEF Spec

-----------------------------------------------------------------------------
(* The FIFO segment: who has it mapped wrote the address in its slot, and  *)
(* finds it there when it leaves.                                          *)

FifoKeyInv == dataKey # 0 /\ data[dataKey].init /\ fifoKey # 0 => data[dataKey].fifo = fifoKey

LEMMA FifoKeyStep ==
  ASSUME TypeInv, SegInv, FifoKeyInv, NEW p \in Procs, Goes(p)
  PROVE  FifoKeyInv'
<1> USE DEF Data, Fifo
<1>1. data \in Seq(Segment) /\ dataKey \in 0..Len(data)
  BY DEF TypeInv, Types
<1>2. CASE Shmget(p)
  BY <1>1, <1>2 DEF Shmget, FifoKeyInv, Blank
<1>3. CASE Initialise(p)
  <2>1. /\ my[p].data \in 1..Len(data) /\ Seg(p) \in Segment /\ Seg(p) = data[my[p].data]
        /\ my[p].data = dataKey
    BY <1>3, MySegment DEF Initialise, Mapping, Seg, SegInv, Place, Inside
  <2>2. data'[dataKey].fifo = fifoKey' /\ dataKey' = dataKey
    BY <1>1, <1>3, <2>1 DEF Initialise, Segment
  <2> QED
    BY <2>2 DEF FifoKeyInv
<1>6. CASE InitialiseFails(p)
  <2>1. /\ my[p].data \in 1..Len(data) /\ Seg(p) \in Segment /\ Seg(p) = data[my[p].data]
        /\ my[p].data = dataKey /\ ~ Seg(p).init
    BY <1>6, MySegment DEF InitialiseFails, Mapping, Seg, SegInv, Place, Inside
  <2>2. ~ data'[dataKey].init /\ dataKey' = dataKey
    BY <1>1, <1>6, <2>1 DEF InitialiseFails, Segment
  <2> QED
    BY <2>2 DEF FifoKeyInv
<1>4. CASE Attach(p) \/ Mark(p) \/ Bump(p) \/ Leave(p) \/ Uncount(p)
  <2>1. SameData /\ UNCHANGED <<dataKey, fifoKey>>
    BY <1>4, SlotsOnly DEF Attach, Mark, Bump, Leave, Uncount
  <2> QED
    BY <1>1, <2>1 DEF SameData, FifoKeyInv
<1>5. CASE \/ Start(p) \/ StartFails(p) \/ Semop(p) \/ Shmat(p) \/ Test(p) \/ Check(p)
           \/ OutOfBounds(p) \/ Count(p) \/ Stat(p) \/ RemoveFifo(p) \/ Shmdt(p) \/ Stat2(p)
           \/ RemoveData(p) \/ RemoveSems(p)
  <2>1. UNCHANGED data /\ dataKey' \in {0, dataKey} /\ fifoKey' \in {0, fifoKey}
    BY <1>5 DEF Start, StartFails, Semop, Shmat, Test, Check, OutOfBounds, Count, Stat,
                RemoveFifo, Shmdt, Stat2, RemoveData, RemoveSems
  <2> QED
    BY <2>1 DEF FifoKeyInv
<1> QED
  BY <1>2, <1>3, <1>4, <1>5, <1>6 DEF Goes, Construct, Destroy

(* What only samplers do, and the slot that a sampler counts from.         *)
SamplerInv == \A p \in Procs : /\ pc[p] \in {"bump", "leave", "count"} => p \in Samplers
                               /\ pc[p] = "bump" => my[p].n = my[p].sam_ind

LEMMA SamplerStep ==
  ASSUME TypeInv, SamplerInv, NEW p \in Procs, Goes(p)
  PROVE  SamplerInv'
<1>1. /\ Only(p) /\ my[p] \in Local /\ pc \in [Procs -> PC] /\ my \in [Procs -> Local]
  BY OneMoves DEF TypeInv, Types
<1>2. /\ pc'[p] \in {"bump", "leave", "count"} => p \in Samplers
      /\ pc'[p] = "bump" => my'[p].n = my'[p].sam_ind
  <2>1. CASE Mark(p)
    BY <1>1, <2>1 DEF Mark, Goto, Local
  <2>2. CASE Leave(p)
    BY <1>1, <2>2 DEF Leave, Goto
  <2>3. CASE Count(p)
    BY <1>1, <2>3 DEF Count, Goto, SamplerInv
  <2>4. CASE Start(p) \/ StartFails(p) \/ Semop(p) \/ (Construct(p) /\ ~ Mark(p))
    BY <1>1, <2>4 DEF Start, StartFails, Semop, Construct, Shmget, Shmat, Test, Initialise,
                      InitialiseFails, Check, Attach, OutOfBounds, Bump, Goto
  <2>5. CASE Destroy(p) /\ ~ Count(p)
    BY <1>1, <2>5 DEF Destroy, Uncount, Stat, RemoveFifo, Shmdt, Stat2, RemoveData, RemoveSems,
                      Goto
  <2> QED
    BY <2>1, <2>2, <2>3, <2>4, <2>5 DEF Goes
<1> QED
  BY <1>1, <1>2 DEF SamplerInv, Only

FifoHolding == Mapping \ {"test", "init", "shmdt"}
Unmarked == {"out", "semop", "shmget", "shmat", "test", "init", "check", "attach"}

(* The address in the slot of a process that has the segment mapped is its *)
(* own.                                                                    *)
Addressed(p) == /\ my[p].fifo # 0 => pc[p] \in {"mark", "bump", "in"}
                /\ pc[p] = "mark" => Seg(p).start[NextSlot(p)] = p
                /\ pc[p] \in {"bump", "in"} => Seg(p).start[SlotOf(p)] = p

(* A sampler that is in, while no other one has got as far, has the slot   *)
(* before the one that nsampler points at.                                 *)
LastSlot(p) == pc[p] = "in" /\ (\A q \in Samplers \ {p} : pc[q] \in Unmarked)
                 => Seg(p).nsampler = my[p].sam_ind + 1

AddressInv == FewSamplers => /\ \A p \in Procs : Addressed(p)
                             /\ \A p \in Samplers : LastSlot(p)

LEMMA FewStay ==
  ASSUME TypeInv, NEW p \in Procs, Goes(p), FewSamplers'
  PROVE  FewSamplers
<1>1. \A q \in Samplers : pc[q] # "out" => pc'[q] # "out"
  BY NeverBack, OneMoves DEF Only, Procs
<1> QED
  BY <1>1 DEF FewSamplers

(* Who changes addresses and nsampler.                                     *)
LEMMA SegKept ==
  ASSUME TypeInv, NEW p \in Procs, Goes(p), NEW d \in 1..Len(data)
  PROVE  /\ \A s \in Slots : \/ data'[d].start[s] = data[d].start[s]
                             \/ Attach(p) /\ s = NextSlot(p) /\ d = my[p].data
         /\ \/ data'[d].nsampler = data[d].nsampler
            \/ Initialise(p) \/ InitialiseFails(p) \/ Bump(p) \/ Uncount(p)
<1>1. data \in Seq(Segment) /\ data[d] \in Segment
  BY DEF TypeInv, Types
<1>2. CASE UNCHANGED data
  BY <1>2
<1>3. CASE Shmget(p)
  BY <1>1, <1>3 DEF Shmget, Data
<1>4. CASE \/ Initialise(p) \/ InitialiseFails(p) \/ Attach(p) \/ Mark(p) \/ Bump(p)
           \/ Leave(p) \/ Uncount(p)
  <2>1. my[p].data \in 1..Len(data)
    BY <1>4, MySegment DEF Initialise, InitialiseFails, Attach, Mark, Bump, Leave, Uncount, Mapping
  <2>2. CASE d # my[p].data
    <3>1. data'[d] = data[d]
      BY <1>1, <1>4, <2>1, <2>2 DEF Initialise, InitialiseFails, Attach, Mark, Bump, Leave, Uncount
    <3> QED
      BY <3>1
  <2>3. CASE d = my[p].data
    <3>1. CASE Initialise(p)
      BY <1>1, <2>3, <3>1 DEF Initialise, Segment
    <3>2. CASE Attach(p)
      <4>1. PICK x \in {p, NoProc} :
              data' = [data EXCEPT ![my[p].data].start[NextSlot(p)] = x]
        BY <3>2 DEF Attach
      <4> QED
        BY <1>1, <2>3, <3>2, <4>1 DEF Segment
    <3>3. CASE Mark(p)
      BY <1>1, <2>3, <3>3 DEF Mark, Segment
    <3>4. CASE Bump(p)
      BY <1>1, <2>3, <3>4 DEF Bump, Segment
    <3>5. CASE Leave(p)
      BY <1>1, <2>3, <3>5 DEF Leave, Segment
    <3>6. CASE Uncount(p)
      BY <1>1, <2>3, <3>6 DEF Uncount, Segment
    <3>7. CASE InitialiseFails(p)
      BY <1>1, <2>3, <3>7 DEF InitialiseFails, Segment
    <3> QED
      BY <1>4, <3>1, <3>2, <3>3, <3>4, <3>5, <3>6, <3>7
  <2> QED
    BY <2>2, <2>3
<1>5. CASE \/ Start(p) \/ StartFails(p) \/ Semop(p) \/ Shmat(p) \/ Test(p) \/ Check(p)
           \/ OutOfBounds(p) \/ Count(p) \/ Stat(p) \/ RemoveFifo(p) \/ Shmdt(p) \/ Stat2(p)
           \/ RemoveData(p) \/ RemoveSems(p)
  <2>1. UNCHANGED data
    BY <1>5 DEF Start, StartFails, Semop, Shmat, Test, Check, OutOfBounds, Count, Stat,
                RemoveFifo, Shmdt, Stat2, RemoveData, RemoveSems, Data
  <2> QED
    BY <1>2, <2>1
<1> QED
  BY <1>3, <1>4, <1>5 DEF Goes, Construct, Destroy

(* A process that the step is not of.                                      *)
LEMMA OthersAddressed ==
  ASSUME TypeInv, CtorInv, HomeInv, RoleInv, AddressInv,
         NEW p \in Procs, Goes(p), Orderly', FewSamplers', NEW q \in Procs \ {p}
  PROVE  Addressed(q)'
<1>1. FewSamplers /\ pc'[q] = pc[q] /\ my'[q] = my[q] /\ Addressed(q)
  BY FewStay, OneMoves DEF AddressInv, Only
<1>2. CASE pc[q] \in {"mark", "bump"}
  <2>1. UNCHANGED data
    BY <1>1, <1>2, OnlyStarts DEF InCtor, Start, StartFails, Semop, Data
  <2> QED
    BY <1>1, <2>1 DEF Addressed, Seg, NextSlot, SlotOf
<1>3. CASE pc[q] = "in"
  <2>1. /\ my[q].data \in 1..Len(data) /\ my[q] \in Local /\ my[q].data = dataKey
        /\ Seg(q) = data[my[q].data] /\ Seg(q)' = data'[my[q].data]
    BY <1>1, <1>3, MySegment DEF Mapping, Seg, HomeInv, Home
  <2>2. SlotOf(q)' = SlotOf(q) /\ SlotOf(q) \in Slots /\ (q \in Samplers => SlotOf(q) = my[q].sam_ind)
    <3>1. SlotOf(q)' = SlotOf(q)
      BY <1>1 DEF SlotOf
    <3>2. SlotOf(q) \in Slots /\ (q \in Samplers => SlotOf(q) = my[q].sam_ind)
      BY <2>1, AttachAssumption DEF SlotOf, Slots, RdSlot, WrSlot, Local
    <3> QED
      BY <3>1, <3>2
  <2>3. ~ (Attach(p) /\ SlotOf(q) = NextSlot(p) /\ my[q].data = my[p].data)
    <3> SUFFICES ASSUME Attach(p), SlotOf(q) = NextSlot(p), my[q].data = my[p].data
                 PROVE  FALSE
      OBVIOUS
    <3>1. pc[p] = "attach" /\ (p \in Samplers => NextSlot(p) < MaxSM) /\ Seg(p) = Seg(q)
      BY DEF Attach, Seg
    <3>2. CASE p \in Samplers /\ q \in Samplers
      <4>1. \A r \in Samplers \ {q} : pc[r] \in Unmarked
        <5> SUFFICES ASSUME NEW r \in Samplers \ {p, q}, pc[r] # "out" PROVE FALSE
          BY <3>1 DEF Unmarked
        <5> QED
          BY <1>1, <1>3, <3>1, <3>2 DEF FewSamplers
      <4>2. Seg(q).nsampler = my[q].sam_ind + 1
        BY <1>1, <1>3, <3>2, <4>1 DEF AddressInv, LastSlot
      <4> QED
        BY <2>1, <2>2, <3>1, <3>2, <4>2 DEF NextSlot, Local
    <3>3. CASE p \in Samplers /\ q \notin Samplers
      BY <3>1, <3>3, AttachAssumption DEF SlotOf, Procs, RdSlot, WrSlot
    <3>4. CASE p \notin Samplers /\ q \in Samplers
      <4>1. SlotOf(q) < MaxSM
        BY <2>1, <2>2, <3>4, AttachAssumption DEF Local
      <4>2. NextSlot(p) \in {MaxSM, MaxSM + 1}
        BY <3>4 DEF NextSlot, SlotOf, Procs, RdSlot, WrSlot
      <4> QED
        BY <4>1, <4>2, AttachAssumption
    <3>5. CASE p \notin Samplers /\ q \notin Samplers
      <4>1. SlotOf(p) = SlotOf(q)
        BY <3>5 DEF NextSlot
      <4>2. q \in Role(p)
        BY <3>5, <4>1, AttachAssumption DEF SlotOf, Role, Procs, RdSlot, WrSlot
      <4>3. Holds(p) /\ Holds(q)
        BY <1>3, <3>1 DEF Holds
      <4> QED
        BY <3>5, <4>2, <4>3 DEF RoleInv
    <3> QED
      BY <3>2, <3>3, <3>4, <3>5
  <2>4. Seg(q)'.start[SlotOf(q)] = Seg(q).start[SlotOf(q)]
    BY <2>1, <2>2, <2>3, SegKept
  <2> QED
    BY <1>1, <1>3, <2>2, <2>4 DEF Addressed
<1>4. CASE pc[q] \notin {"mark", "bump", "in"}
  BY <1>1, <1>4 DEF Addressed
<1> QED
  BY <1>2, <1>3, <1>4

(* The process that the step is of.                                        *)
LEMMA OwnAddress ==
  ASSUME TypeInv, SamplerInv, AddressInv, NEW p \in Procs, Goes(p), FewSamplers'
  PROVE  Addressed(p)'
<1> USE DEF Goto
<1>1. /\ Addressed(p) /\ my[p] \in Local
      /\ pc \in [Procs -> PC] /\ my \in [Procs -> Local]
  BY FewStay DEF AddressInv, TypeInv, Types
<1>2. pc[p] \in Mapping => /\ my[p].data \in 1..Len(data) /\ Seg(p) \in Segment
                           /\ Seg(p) = data[my[p].data] /\ data \in Seq(Segment)
  BY MySegment DEF Seg, TypeInv, Types
<1>3. CASE Attach(p)
  <2>1. CASE pc'[p] = "mark"
    <3>1. NextSlot(p) \in Slots /\ pc[p] \in Mapping
      BY <1>2, <1>3, NextSlotType DEF Attach, Mapping
    <3>2. /\ data' = [data EXCEPT ![my[p].data].start[NextSlot(p)] = p]
          /\ my'[p].data = my[p].data
      BY <1>1, <1>3, <2>1 DEF Attach, Local
    <3>3. data'[my[p].data].start[NextSlot(p)] = p
      BY <1>2, <3>1, <3>2 DEF Segment
    <3>4. data'[my[p].data].nsampler = Seg(p).nsampler
      BY <1>2, <3>1, <3>2 DEF Segment
    <3>5. NextSlot(p)' = NextSlot(p)
      BY <3>2, <3>4, AttachAssumption DEF NextSlot, SlotOf, Seg, Procs
    <3> QED
      BY <2>1, <3>2, <3>3, <3>5 DEF Addressed, Seg
  <2>2. CASE pc'[p] # "mark"
    <3>1. my'[p].fifo = 0 /\ pc'[p] = "invalid"
      BY <1>1, <1>3, <2>2 DEF Attach, Addressed
    <3> QED
      BY <3>1 DEF Addressed
  <2> QED
    BY <2>1, <2>2
<1>4. CASE Mark(p)
  <2>1. pc[p] = "mark" /\ Seg(p).start[NextSlot(p)] = p /\ pc[p] \in Mapping /\ NextSlot(p) \in Slots
    BY <1>1, <1>2, <1>4, NextSlotType DEF Mark, Addressed, Mapping
  <2>2. data'[my[p].data].start = Seg(p).start
    BY <1>2, <1>4, <2>1 DEF Mark, Segment
  <2>3. /\ pc'[p] \in {"bump", "in"} /\ my'[p].data = my[p].data
        /\ p \in Samplers => my'[p].sam_ind = NextSlot(p)
    BY <1>1, <1>4 DEF Mark, Local
  <2>4. SlotOf(p)' = NextSlot(p)
    BY <2>3, AttachAssumption DEF SlotOf, NextSlot, Procs
  <2> QED
    BY <2>1, <2>2, <2>3, <2>4 DEF Addressed, Seg
<1>5. CASE Bump(p)
  <2>1. /\ pc[p] = "bump" /\ Seg(p).start[SlotOf(p)] = p /\ pc[p] \in Mapping
        /\ pc'[p] = "in" /\ my' = my
    BY <1>1, <1>5 DEF Bump, Addressed, Mapping
  <2>2. data'[my[p].data].start = Seg(p).start
    BY <1>2, <1>5, <2>1 DEF Bump, Segment
  <2> QED
    BY <2>1, <2>2 DEF Addressed, Seg, SlotOf
<1>6. CASE Leave(p)
  <2>1. my'[p].fifo = 0 \/ (Seg(p).start[SlotOf(p)] # p /\ my' = my)
    BY <1>1, <1>6 DEF Leave, Local
  <2>2. my'[p].fifo = 0 /\ pc'[p] \notin {"mark", "bump", "in"}
    BY <1>1, <1>6, <2>1 DEF Leave, Addressed
  <2> QED
    BY <2>2 DEF Addressed
<1>7. CASE \/ Start(p) \/ StartFails(p) \/ Semop(p) \/ Shmget(p) \/ Shmat(p) \/ Test(p)
           \/ Initialise(p) \/ InitialiseFails(p) \/ Check(p) \/ OutOfBounds(p) \/ Destroy(p)
  <2>1. CASE \/ Start(p) \/ StartFails(p) \/ Semop(p) \/ Shmget(p) \/ Shmat(p) \/ Test(p)
             \/ Initialise(p) \/ InitialiseFails(p) \/ Check(p) \/ OutOfBounds(p)
    <3>1. pc'[p] \notin {"mark", "bump", "in"}
      BY <1>1, <2>1 DEF Start, StartFails, Semop, Shmget, Shmat, Test, Initialise,
                        InitialiseFails, Check, OutOfBounds
    <3>2. my'[p].fifo = 0
      <4>1. pc[p] \notin {"mark", "bump", "in"} => my[p].fifo = 0
        BY <1>1 DEF Addressed
      <4>2. CASE OutOfBounds(p)
        BY <1>1, <4>2 DEF OutOfBounds, Fresh
      <4>3. CASE ~ OutOfBounds(p)
        BY <1>1, <2>1, <4>1, <4>3 DEF Start, StartFails, Semop, Shmget, Shmat, Test, Initialise,
                                      InitialiseFails, Check, Local
      <4> QED
        BY <4>2, <4>3
    <3> QED
      BY <3>1, <3>2 DEF Addressed
  <2>2. CASE Destroy(p)
    <3>1. pc'[p] \notin {"mark", "bump", "in"} /\ pc[p] \notin {"mark", "bump", "in"}
      BY <1>1, <2>2 DEF Destroy, Count, Uncount, Stat, RemoveFifo, Shmdt, Stat2, RemoveData,
                        RemoveSems
    <3>2. my'[p].fifo \in {0, my[p].fifo}
      BY <1>1, <2>2 DEF Destroy, Count, Uncount, Stat, RemoveFifo, Shmdt, Stat2, RemoveData,
                        RemoveSems, Local, Fresh
    <3> QED
      BY <1>1, <3>1, <3>2 DEF Addressed
  <2> QED
    BY <1>7, <2>1, <2>2
<1> QED
  BY <1>1, <1>3, <1>4, <1>5, <1>6, <1>7 DEF Goes, Construct

LEMMA LastSlotStep ==
  ASSUME TypeInv, CtorInv, SegInv, SamplerInv, AddressInv, NEW p \in Procs, Goes(p), FewSamplers',
         NEW q \in Samplers
  PROVE  LastSlot(q)'
<1> USE DEF Goto
<1>1. Only(p) /\ q \in Procs /\ LastSlot(q) /\ pc \in [Procs -> PC] /\ my \in [Procs -> Local]
  BY FewStay, OneMoves DEF AddressInv, Procs, TypeInv, Types
<1> SUFFICES ASSUME pc'[q] = "in", \A r \in Samplers \ {q} : pc'[r] \in Unmarked
             PROVE  Seg(q)'.nsampler = my'[q].sam_ind + 1
  BY DEF LastSlot
<1>2. CASE q = p
  <2>1. Bump(p)
    <3>1. ~ (Start(p) \/ StartFails(p) \/ Semop(p) \/ (Construct(p) /\ ~ Bump(p)))
      BY <1>1, <1>2 DEF Start, StartFails, Semop, Construct, Shmget, Shmat, Test, Initialise,
                        InitialiseFails, Check, Attach, OutOfBounds, Mark
    <3>2. ~ (Leave(p) \/ Destroy(p))
      BY <1>1, <1>2 DEF Leave, Destroy, Count, Uncount, Stat, RemoveFifo, Shmdt, Stat2, RemoveData,
                        RemoveSems
    <3> QED
      BY <3>1, <3>2 DEF Goes
  <2>2. /\ my[p].data \in 1..Len(data) /\ Seg(p) \in Segment /\ Seg(p) = data[my[p].data]
        /\ data \in Seq(Segment) /\ my' = my /\ my[p].n = my[p].sam_ind /\ my[p] \in Local
    BY <1>1, <2>1, MySegment DEF Bump, Mapping, Seg, SamplerInv, TypeInv, Types
  <2>3. data'[my[p].data].nsampler = (my[p].n + 1) % Width
    BY <2>1, <2>2 DEF Bump, Segment
  <2>4. my[p].sam_ind + 1 \in 0..(Width - 1)
    BY <2>2, AttachAssumption DEF Local
  <2>5. (my[p].sam_ind + 1) % Width = my[p].sam_ind + 1
    BY <2>4, AttachAssumption
  <2> QED
    BY <1>2, <2>2, <2>3, <2>5 DEF Seg
<1>3. CASE q # p
  <2>1. pc[q] = "in" /\ my'[q] = my[q]
    BY <1>1, <1>3 DEF Only
  <2>2. my[q].data \in 1..Len(data) /\ Seg(q) = data[my[q].data] /\ Seg(q)' = data'[my[q].data]
    BY <1>1, <2>1, MySegment DEF Mapping, Seg
  <2>3. ~ Initialise(p) /\ ~ InitialiseFails(p)
    BY <1>1, <1>3, <2>1, InitAlone DEF Initialise, InitialiseFails, Inside
  <2>4. CASE p \notin Samplers
    <3>1. ~ Bump(p) /\ ~ Uncount(p)
      BY <2>4 DEF Bump, Uncount, SamplerInv
    <3>2. \A r \in Samplers \ {q} : pc[r] \in Unmarked
      BY <1>1, <2>4 DEF Only, Procs
    <3> QED
      BY <1>1, <2>1, <2>2, <2>3, <3>1, <3>2, SegKept DEF LastSlot
  <2>5. CASE p \in Samplers
    <3>1. pc'[p] \in Unmarked
      BY <1>3, <2>5
    <3>2. ~ Bump(p) /\ ~ Uncount(p)
      BY <1>1, <3>1 DEF Bump, Uncount, Unmarked
    <3>3. pc[p] \in Unmarked
      <4>1. CASE Start(p) \/ StartFails(p) \/ Semop(p) \/ Construct(p)
        BY <1>1, <3>1, <4>1 DEF Start, StartFails, Semop, Construct, Shmget, Shmat, Test,
                  Initialise, InitialiseFails, Check, Attach, OutOfBounds, Mark, Bump, Unmarked
      <4>2. ~ (Leave(p) \/ Destroy(p))
        BY <1>1, <3>1 DEF Leave, Destroy, Count, Uncount, Stat, RemoveFifo, Shmdt, Stat2,
                          RemoveData, RemoveSems, Unmarked
      <4> QED
        BY <4>1, <4>2 DEF Goes
    <3>4. \A r \in Samplers \ {q} : pc[r] \in Unmarked
      BY <1>1, <3>3 DEF Only, Procs
    <3> QED
      BY <1>1, <2>1, <2>2, <2>3, <3>2, <3>4, SegKept DEF LastSlot
  <2> QED
    BY <2>4, <2>5
<1> QED
  BY <1>2, <1>3

(* The FIFO segment is held by somebody who will see whether it may be     *)
(* removed, and it may when only that one is left.                         *)
FifoHeld == FewSamplers /\ fifoKey # 0
              => Someone(FifoHolding) /\ dataKey # 0 /\ data[dataKey].init

LEMMA FilledStays ==
  ASSUME TypeInv, CtorInv, HomeInv, NEW p \in Procs, Goes(p),
         Someone(FifoHolding), dataKey # 0, data[dataKey].init
  PROVE  dataKey' = dataKey /\ data'[dataKey].init
<1>1. ~ RemoveData(p)
  BY DEF Someone, FifoHolding, RemoveData, HomeInv, Removing
<1>2. dataKey' = dataKey
  <2>1. CASE Start(p) \/ StartFails(p) \/ Semop(p) \/ Construct(p) \/ Leave(p)
    BY <2>1 DEF Start, StartFails, Semop, Construct, Shmget, Shmat, Test, Initialise,
                InitialiseFails, Check, Attach, OutOfBounds, Mark, Bump, Leave, Data
  <2>2. CASE Destroy(p)
    BY <1>1, <2>2 DEF Destroy, Count, Uncount, Stat, RemoveFifo, Shmdt, Stat2, RemoveSems, Data
  <2> QED
    BY <2>1, <2>2 DEF Goes
<1>3. dataKey \in 1..Len(data)
  BY DEF TypeInv, Types
<1> QED
  BY <1>2, <1>3, FillStays DEF FillKept

LEMMA FifoHeldStep ==
  ASSUME TypeInv, CtorInv, SegInv, HomeInv, HeldInv, FifoKeyInv, AddressInv, FifoHeld,
         NEW p \in Procs, Goes(p), Orderly'
  PROVE  FifoHeld'
<1> USE DEF Goto, Data, Fifo
<1> SUFFICES ASSUME FewSamplers', fifoKey' # 0
             PROVE  Someone(FifoHolding)' /\ dataKey' # 0 /\ data'[dataKey'].init
  BY DEF FifoHeld
<1>1. /\ FewSamplers /\ Only(p) /\ pc \in [Procs -> PC] /\ \A q \in Procs : Addressed(q)
  BY FewStay, OneMoves DEF AddressInv, TypeInv, Types
<1>2. pc'[p] \in FifoHolding => Someone(FifoHolding)'
  BY DEF Someone
<1>3. CASE Initialise(p)
  <2>1. pc'[p] \in FifoHolding
    BY <1>1, <1>3 DEF Initialise, FifoHolding, Mapping
  <2>2. /\ my[p].data \in 1..Len(data) /\ Seg(p) \in Segment /\ Seg(p) = data[my[p].data]
        /\ my[p].data = dataKey /\ dataKey # 0 /\ data \in Seq(Segment)
    BY <1>3, MySegment DEF Initialise, Mapping, Seg, SegInv, Place, Inside, TypeInv, Types
  <2>3. dataKey' = dataKey /\ data'[dataKey].init
    BY <1>3, <2>2 DEF Initialise, Segment
  <2> QED
    BY <1>2, <2>1, <2>2, <2>3
<1>4. CASE ~ Initialise(p)
  <2>1. fifoKey' \in {0, fifoKey}
    <3>1. CASE Start(p) \/ StartFails(p) \/ Semop(p) \/ Construct(p) \/ Leave(p)
      BY <1>4, <3>1 DEF Start, StartFails, Semop, Construct, Shmget, Shmat, Test, InitialiseFails,
                        Check, Attach, OutOfBounds, Mark, Bump, Leave
    <3>2. CASE Destroy(p)
      BY <3>2 DEF Destroy, Count, Uncount, Stat, RemoveFifo, Shmdt, Stat2, RemoveData, RemoveSems
    <3> QED
      BY <1>1, <3>1, <3>2 DEF Goes
  <2>2. PICK q \in Procs : pc[q] \in FifoHolding
    BY <1>1, <2>1 DEF FifoHeld, Someone
  <2>5. dataKey # 0 /\ data[dataKey].init /\ dataKey' = dataKey /\ data'[dataKey].init
    BY <1>1, <2>1, FilledStays DEF FifoHeld
  <2>3. CASE q # p
    BY <1>1, <2>2, <2>3, <2>5 DEF Only, Someone
  <2>4. ASSUME q = p PROVE Someone(FifoHolding)'
    <3>1. /\ pc[p] \in FifoHolding /\ dataKey # 0 /\ my[p].data = dataKey
          /\ Seg(p).fifo = fifoKey /\ fifoKey # 0
      BY <2>1, <2>2, <2>4, <2>5 DEF HomeInv, Home, FifoHolding, FifoKeyInv, Seg
    <3>2. CASE Stat(p)
      <4>1. PICK none \in BOOLEAN : /\ FifoExists(Seg(p).fifo) => none = (FifoUsers(Seg(p).fifo) = {})
                                    /\ Goto(p, IF none THEN "rmfifo" ELSE "shmdt")
        BY <3>2 DEF Stat
      <4>2. CASE none
        BY <1>1, <1>2, <4>1, <4>2 DEF FifoHolding, Mapping
      <4>3. CASE ~ none
        <5>1. FifoUsers(fifoKey) # {}
          BY <3>1, <4>1, <4>3 DEF FifoExists
        <5>2. PICK r \in Procs : my[r].fifo = fifoKey
          BY <5>1 DEF FifoUsers
        <5>3. pc[r] \in {"mark", "bump", "in"}
          BY <1>1, <3>1, <5>2 DEF Addressed
        <5>4. r # p
          BY <3>2, <5>3 DEF Stat
        <5> QED
          BY <1>1, <5>3, <5>4 DEF Only, Someone, FifoHolding, Mapping
      <4> QED
        BY <4>2, <4>3
    <3>3. ~ RemoveFifo(p)
      BY <3>1 DEF RemoveFifo
    <3>4. CASE OutOfBounds(p)
      <4>1. Seg(p).nsampler # 0 /\ pc[p] \in {"attach", "mark"} /\ Company(p)
        BY <1>1, <3>4, AttachAssumption DEF OutOfBounds, NextSlot, HeldInv
      <4>2. Someone(Staying)'
        BY <1>1, <4>1, WhoStays DEF Company, InCtor
      <4> QED
        BY <4>2 DEF Someone, Staying, FifoHolding, Mapping
    <3>5. CASE \/ Check(p) \/ Attach(p) \/ Mark(p) \/ Bump(p) \/ Leave(p) \/ Count(p) \/ Uncount(p)
      BY <1>1, <1>2, <3>5 DEF Check, Attach, Mark, Bump, Leave, Count, Uncount, FifoHolding, Mapping
    <3>6. ~ \/ Start(p) \/ StartFails(p) \/ Semop(p) \/ Shmget(p) \/ Shmat(p) \/ Test(p)
            \/ InitialiseFails(p) \/ Shmdt(p) \/ Stat2(p) \/ RemoveData(p) \/ RemoveSems(p)
      BY <3>1 DEF Start, StartFails, Semop, Shmget, Shmat, Test, InitialiseFails, Shmdt, Stat2,
                  RemoveData, RemoveSems, FifoHolding, Mapping
    <3> QED
      BY <1>1, <1>4, <3>2, <3>3, <3>4, <3>5, <3>6 DEF Goes, Construct, Destroy
  <2> QED
    BY <2>3, <2>4, <2>5
<1> QED
  BY <1>3, <1>4

FifoAll == RoleInv /\ FlagInv /\ FifoKeyInv /\ SamplerInv /\ AddressInv /\ FifoHeld

LEMMA FifoNext ==
  ASSUME HeldAll, FifoAll, RolesKept', Orderly', [Next]_vars, NEW p \in Procs, Goes(p)
  PROVE  FifoAll'
<1> USE DEF HeldAll, FifoAll
<1>1. RoleInv' /\ FlagInv'
  BY FlagNext
<1>2. FifoKeyInv' /\ SamplerInv' /\ FifoHeld'
  BY FifoKeyStep, SamplerStep, FifoHeldStep
<1>3. ASSUME FewSamplers', NEW q \in Procs PROVE Addressed(q)'
  BY <1>3, OthersAddressed, OwnAddress
<1>4. ASSUME FewSamplers', NEW q \in Samplers PROVE LastSlot(q)'
  BY <1>4, LastSlotStep
<1>5. AddressInv'
  BY <1>3, <1>4 DEF AddressInv
<1> QED
  BY <1>1, <1>2, <1>5

(* When everybody has left, nobody has died, no process has started while  *)
(* another one left and no wait was cut short, no semaphores and no data   *)
(* segment of the FIFO remain: for any number of processes, refused or     *)
(* not, and whichever of the calls that a constructor survives has failed. *)
(* The FIFO segment is gone too if at most two samplers were there and no  *)
(* refused reader or writer has left.                                      *)
THEOREM AllRemoved == Spec => []NothingLeft
<1> DEFINE Inv == /\ TypeInv
                  /\ Whole => HeldAll
                  /\ Whole /\ RolesKept => FifoAll
<1>1. Init => Inv
  <2> SUFFICES ASSUME Init PROVE HeldAll /\ FifoAll
    BY DEF HeldAll
  <2>1. HeldAll
    BY HeldStart
  <2>2. RoleInv /\ FlagInv /\ FifoKeyInv /\ SamplerInv /\ FifoHeld
    BY DEF Init, RoleInv, FlagInv, Holds, FifoKeyInv, SamplerInv, FifoHeld
  <2>3. AddressInv
    BY DEF Init, AddressInv, Addressed, LastSlot, Fresh, Procs
  <2> QED
    BY <2>1, <2>2, <2>3 DEF FifoAll
<1>2. Inv /\ [Next]_vars => Inv'
  <2> SUFFICES ASSUME Inv, [Next]_vars PROVE Inv'
    OBVIOUS
  <2>1. TypeInv' /\ (Whole' => HeldAll')
    BY HeldStep
  <2>2. ASSUME Whole', RolesKept' PROVE FifoAll'
    <3>1. /\ Whole /\ RolesKept /\ Orderly'
          /\ UNCHANGED vars \/ \E p \in Procs : Goes(p)
      BY <2>2, WholeStep, RolesStep
    <3>2. CASE UNCHANGED vars
      BY <3>1, <3>2 DEF vars, FifoAll, RoleInv, FlagInv, Holds, Role, FifoKeyInv, SamplerInv,
                        AddressInv, FifoHeld, FewSamplers, Addressed, LastSlot, Someone, Seg,
                        NextSlot, SlotOf
    <3>3. ASSUME NEW p \in Procs, Goes(p) PROVE FifoAll'
      BY <2>2, <3>1, <3>3, FifoNext
    <3> QED
      BY <3>1, <3>2, <3>3
  <2> QED
    BY <2>1, <2>2
<1>3. Inv => NothingLeft
  <2> SUFFICES ASSUME Inv, Whole, Deserted
               PROVE  semKey = 0 /\ dataKey = 0 /\ (FewSamplers /\ RolesKept => fifoKey = 0)
    BY DEF NothingLeft, Deserted, Whole
  <2>1. semKey = 0 /\ dataKey = 0
    BY NothingHeld
  <2>2. ASSUME FewSamplers, RolesKept PROVE fifoKey = 0
    BY <2>2 DEF FifoAll, FifoHeld, Someone, Deserted, FifoHolding, Mapping
  <2> QED
    BY <2>1, <2>2
<1> QED
  BY <1>1, <1>2, <1>3, PTL DEF Spec

=============================================================================
