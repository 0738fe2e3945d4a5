--------------------------- MODULE FifoRingProofs ---------------------------
(***************************************************************************)
(* The ring of a FIFO, for every size, every longest event and any number  *)
(* of words written: the offsets are exact, no unread word is overwritten, *)
(* the data file is the stream, and the ring implements BoundedStream.     *)
(* The argument: the write offset is always the read offset advanced, in   *)
(* the ring, by the number of unread words, which `space' only has to tell *)
(* apart when the two offsets are equal.                                   *)
(***************************************************************************)
EXTENDS FifoRing, SequenceTheorems, FiniteSetTheorems, TLAPS

Unread == written - consumed

(* The offsets and `space' against the number of unread words.             *)
OffsetInv ==
  /\ consumed <= written /\ written <= consumed + Size
  /\ Unread = 0 => offsetWR = offsetRD /\ space = "EMPTY"
  /\ Unread = Size => offsetWR = offsetRD /\ space = "FULL"
  /\ 0 < Unread /\ Unread < Size => offsetWR = Wrap(offsetRD + Unread)

IInv == TypeOK /\ OffsetInv /\ UnreadIntact /\ FileIsStream /\ FileKeepsAll

(* The number of words dumpData() passes on a request for n words.         *)
Passed(n) == IF n <= Unread THEN n ELSE Unread

(* What the emptiness test and the fit test of write() come to.            *)
LEMMA TestsExact ==
  ASSUME TypeOK, OffsetInv
  PROVE  /\ Empty <=> Unread = 0
         /\ Occupancy = Unread
         /\ \A d \in 1..Size : Fits(d) <=> written + d <= consumed + Size
BY RingAssumption DEF TypeOK, OffsetInv, Unread, Empty, Occupancy, Fits, Ahead, Wrap, Offset, Space

(* dumpData() stops min(n, unread) words further on.                       *)
LEMMA DumpExact ==
  ASSUME TypeOK, OffsetInv, ~ Empty, NEW n \in 1..Size
  PROVE  /\ DumpCount(n) = Passed(n)
         /\ DumpEnd(n) = Wrap(offsetRD + Passed(n))
         /\ DumpEnd(n) \in Offset
         /\ DumpSpace(n) \in {"EMPTY", "FREE"}
         /\ Passed(n) = Unread => DumpEnd(n) = offsetWR /\ DumpSpace(n) = "EMPTY"
<1> USE RingAssumption DEF TypeOK, OffsetInv, Unread, Empty, Offset, Space, Wrap, Passed
<1>1. DumpEnd(n) = Wrap(offsetRD + Passed(n)) /\ DumpEnd(n) \in Offset
  BY DEF DumpEnd
<1>2. DumpCount(n) = Passed(n)
  BY DEF DumpEnd, DumpCount, DumpWraps
<1>3. Passed(n) = Unread => DumpEnd(n) = offsetWR /\ DumpSpace(n) = "EMPTY"
  BY DEF DumpEnd, DumpSpace, DumpWraps
<1> QED
  BY <1>1, <1>2, <1>3 DEF DumpSpace

(* The words of the ring between the offsets continue the stream.          *)
LEMMA RingWordsExact ==
  ASSUME TypeOK, OffsetInv, UnreadIntact, NEW c \in Nat, c <= Unread
  PROVE  /\ RingWords(offsetRD, c) \in Seq(Nat)
         /\ Len(RingWords(offsetRD, c)) = c
         /\ \A k \in 1..c : RingWords(offsetRD, c)[k] = consumed + k
<1>1. \A k \in 1..c : RingWords(offsetRD, c)[k] = consumed + k
  BY RingAssumption DEF TypeOK, OffsetInv, UnreadIntact, RingWords, Unread
<1>2. \A k \in 1..c : mem[Wrap(offsetRD + k - 1)] \in Nat
  BY RingAssumption DEF TypeOK, OffsetInv, UnreadIntact, Unread
<1>3. RingWords(offsetRD, c) \in [1..c -> Nat]
  BY <1>2 DEF RingWords
<1>4. RingWords(offsetRD, c) \in Seq(Nat)
  BY <1>3, SeqDef
<1>5. DOMAIN RingWords(offsetRD, c) = 1..c
  BY <1>3
<1> QED
  BY <1>1, <1>4, <1>5, LenProperties

LEMMA InitInv == Init => IInv
BY RingAssumption
   DEF Init, IInv, TypeOK, OffsetInv, UnreadIntact, FileIsStream, FileKeepsAll, Unread,
       Offset, Slot, Space

(* A sampler that comes or goes changes nsampler by one.                   *)
LEMMA AttachType ==
  ASSUME TypeOK, NEW p \in Samplers, Attach(p) \/ Detach(p)
  PROVE  nsampler' \in 0..MAXSM /\ SlotsOK'
<1> USE RingAssumption DEF SlotsOK
<1>1. IsFiniteSet(DOMAIN sam_ind)
  BY FS_Subset DEF TypeOK
<1>2. CASE Attach(p)
  <2>1. DOMAIN sam_ind' = DOMAIN sam_ind \cup {p} /\ p \notin DOMAIN sam_ind
    BY <1>2 DEF Attach
  <2>2. Cardinality(DOMAIN sam_ind') = nsampler + 1
    BY <1>1, <2>1, FS_AddElement DEF TypeOK
  <2>3. nsampler \in Slot
    BY <1>2 DEF Attach, TypeOK, Slot
  <2> QED
    BY <1>2, <2>1, <2>2, <2>3 DEF Attach, TypeOK, Slot
<1>3. CASE Detach(p)
  <2>1. DOMAIN sam_ind' = DOMAIN sam_ind \ {p} /\ p \in DOMAIN sam_ind
    BY <1>3 DEF Detach
  <2>2. Cardinality(DOMAIN sam_ind') = nsampler - 1 /\ Cardinality(DOMAIN sam_ind') \in Nat
    BY <1>1, <2>1, FS_RemoveElement, FS_CardinalityType, FS_Subset DEF TypeOK
  <2> QED
    BY <1>3, <2>1, <2>2 DEF Detach, TypeOK
<1> QED
  BY <1>2, <1>3

(* Any other step leaves the slots alone.                                  *)
LEMMA SlotsType ==
  ASSUME SlotsOK, UNCHANGED <<nsampler, sam_ind>> PROVE SlotsOK'
BY DEF SlotsOK

(* A step of a sampler leaves the ring and the file alone.                 *)
LEMMA SamplerStepInv ==
  ASSUME IInv, TypeOK', UNCHANGED <<ringVars, fileVars, written>>
  PROVE  IInv'
BY DEF ringVars, fileVars, IInv, OffsetInv, UnreadIntact, FileIsStream, FileKeepsAll, Unread

(* write() of an event that fits puts its words behind the unread ones.    *)
LEMMA WriteInv ==
  ASSUME IInv, NEW d \in EventSize, Write(d)
  PROVE  IInv'
<1> USE RingAssumption DEF IInv, EventSize, EvSiz
<1>1. written + d <= consumed + Size /\ Fits(d)
  BY TestsExact DEF Write, TypeOK
<1>2. TypeOK'
  <2>1. Wrap(offsetWR + d) \in Offset
    BY DEF TypeOK, Wrap, Offset
  <2>2. \A a \in Offset : Ahead(offsetWR, a) \in Nat
    BY DEF TypeOK, Ahead, Offset
  <2> QED
    BY <2>1, <2>2, SlotsType DEF Write, TypeOK, Space, fileVars
<1>3. OffsetInv'
  <2>1. /\ offsetWR' = Wrap(offsetWR + d) /\ offsetRD' = offsetRD
        /\ space' = IF Wrap(offsetWR + d) = offsetRD THEN "FULL" ELSE "FREE"
        /\ written' = written + d /\ consumed' = consumed
    BY DEF Write, fileVars
  <2> QED
    BY <1>1, <2>1 DEF TypeOK, OffsetInv, Unread, Wrap, Offset, Space
<1>4. UnreadIntact'
  <2>0. offsetRD' = offsetRD /\ written' = written + d /\ consumed' = consumed
    BY DEF Write, fileVars
  <2> SUFFICES ASSUME NEW k \in 1..(written' - consumed')
               PROVE  mem'[Wrap(offsetRD' + k - 1)] = consumed' + k
    BY DEF UnreadIntact
  <2> USE <2>0
  <2> DEFINE a == Wrap(offsetRD + k - 1)
  <2>1. a \in Offset
    BY <1>1 DEF TypeOK, Wrap, Offset, OffsetInv
  <2>2. CASE k <= Unread
    <3>1. Ahead(offsetWR, a) >= d
      BY <1>1, <2>2 DEF TypeOK, OffsetInv, Unread, Wrap, Ahead, Offset
    <3>2. mem[a] = consumed + k
      BY <2>2 DEF UnreadIntact, Unread, TypeOK
    <3>3. Ahead(offsetWR, a) \in Int
      BY <2>1 DEF TypeOK, Ahead, Offset
    <3> QED
      BY <2>1, <3>1, <3>2, <3>3 DEF Write
  <2>3. CASE k > Unread
    <3>1. Ahead(offsetWR, a) = k - 1 - Unread
      BY <1>1, <2>3 DEF TypeOK, OffsetInv, Unread, Wrap, Ahead, Offset
    <3> QED
      BY <2>1, <2>3, <3>1 DEF Write, Unread, TypeOK
  <2> QED
    BY <2>2, <2>3 DEF Unread, TypeOK
<1>5. FileIsStream' /\ FileKeepsAll'
  BY DEF Write, FileIsStream, FileKeepsAll, fileVars
<1> QED
  BY <1>2, <1>3, <1>4, <1>5

(* dumpData(), with either request, appends the words it passes.           *)
LEMMA DumpInv ==
  ASSUME IInv, NEW n \in 1..Size, DumpUpTo(n)
  PROVE  IInv'
<1> USE RingAssumption DEF IInv
<1> DEFINE c == Passed(n)
           w == RingWords(offsetRD, c)
<1>1. /\ ~ Empty /\ c \in Nat /\ 0 < c /\ c <= Unread
  BY TestsExact DEF DumpUpTo, Passed, Unread, TypeOK, OffsetInv
<1>2. /\ DumpCount(n) = c
      /\ offsetRD' = Wrap(offsetRD + c)
      /\ offsetRD' \in Offset
      /\ space' \in {"EMPTY", "FREE"}
      /\ c = Unread => offsetRD' = offsetWR /\ space' = "EMPTY"
  BY <1>1, DumpExact DEF DumpUpTo
<1>3. w \in Seq(Nat) /\ Len(w) = c /\ \A k \in 1..c : w[k] = consumed + k
  BY <1>1, RingWordsExact
<1>4. file' = file \o w /\ consumed' = consumed + c
  BY <1>2 DEF DumpUpTo
<1> HIDE DEF c, w
<1>5. /\ file' \in Seq(Nat)
      /\ Len(file') = Len(file) + c
      /\ \A k \in 1..(Len(file) + c) :
            file'[k] = IF k <= Len(file) THEN file[k] ELSE w[k - Len(file)]
  BY <1>3, <1>4, ConcatProperties DEF TypeOK
<1>6. Len(file) \in Nat
  BY LenProperties DEF TypeOK
<1>7. TypeOK'
  BY <1>1, <1>2, <1>4, <1>5, SlotsType DEF DumpUpTo, TypeOK, samplerVars, Space
<1>8. OffsetInv'
  BY <1>1, <1>2, <1>4 DEF DumpUpTo, TypeOK, OffsetInv, Unread, Wrap, Offset
<1>9. UnreadIntact'
  <2> SUFFICES ASSUME NEW k \in 1..(written - (consumed + c))
               PROVE  mem[Wrap(offsetRD' + k - 1)] = consumed + c + k
    BY <1>4 DEF UnreadIntact, DumpUpTo
  <2>1. Wrap(offsetRD' + k - 1) = Wrap(offsetRD + (c + k) - 1)
    BY <1>1, <1>2 DEF TypeOK, OffsetInv, Unread, Wrap, Offset
  <2>2. mem[Wrap(offsetRD + (c + k) - 1)] = consumed + (c + k)
    <3>1. c + k \in 1..(written - consumed)
      BY <1>1 DEF TypeOK, Unread
    <3> QED
      BY <3>1 DEF UnreadIntact
  <2> QED
    BY <1>1, <2>1, <2>2 DEF TypeOK
<1>10. FileIsStream'
  <2> SUFFICES ASSUME short = 0
               PROVE  /\ Len(file') = consumed'
                      /\ \A k \in 1..Len(file') : file'[k] = k
    BY DEF FileIsStream, DumpUpTo
  <2>1. Len(file) = consumed /\ \A k \in 1..Len(file) : file[k] = k
    BY DEF FileIsStream
  <2> QED
    BY <1>1, <1>3, <1>4, <1>5, <1>6, <2>1
<1>11. FileKeepsAll'
  <2> SUFFICES ASSUME NEW m \in 1..(consumed + c)
               PROVE  \E k \in 1..Len(file') : file'[k] = m
    BY <1>4 DEF FileKeepsAll
  <2>1. CASE m <= consumed
    <3>1. PICK k \in 1..Len(file) : file[k] = m
      BY <2>1 DEF FileKeepsAll, TypeOK
    <3> QED
      BY <1>1, <1>5, <1>6, <3>1
  <2>2. CASE m > consumed
    <3> DEFINE j == m - consumed
               i == Len(file) + j
    <3>1. j \in 1..c /\ consumed + j = m
      BY <1>1, <2>2 DEF TypeOK
    <3>2. i \in 1..(Len(file) + c) /\ ~ (i <= Len(file)) /\ i - Len(file) = j
      BY <1>1, <1>6, <3>1
    <3> HIDE DEF i, j
    <3>3. file'[i] = w[j]
      BY <1>5, <3>2
    <3> QED
      BY <1>3, <1>5, <3>1, <3>2, <3>3
  <2> QED
    BY <1>1, <2>1, <2>2 DEF TypeOK
<1> QED
  BY <1>7, <1>8, <1>9, <1>10, <1>11

(* Any words of the ring are words.                                        *)
LEMMA RingWordsType ==
  ASSUME TypeOK, NEW a \in Offset, NEW c \in 0..Size
  PROVE  RingWords(a, c) \in Seq(Nat)
<1>1. \A k \in 1..c : Wrap(a + k - 1) \in Offset
  BY RingAssumption DEF Wrap, Offset
<1>2. RingWords(a, c) \in [1..c -> Nat]
  BY <1>1 DEF TypeOK, RingWords
<1> QED
  BY <1>2, SeqDef

(* A short fwrite adds words to the file and moves nothing.                *)
LEMMA ShortDumpInv ==
  ASSUME IInv, NEW k \in 0..(Chunk - 1), NEW j \in 0..(Chunk - 1), ShortDump(k, j)
  PROVE  IInv'
<1> USE RingAssumption DEF IInv
<1> DEFINE w == RingWords(offsetRD, k) \o RingWords(0, j)
<1>1. k \in 0..Size /\ j \in 0..Size /\ offsetRD \in Offset /\ 0 \in Offset
  BY DEF TypeOK, Offset
<1>2. w \in Seq(Nat)
  BY <1>1, RingWordsType, ConcatProperties
<1>3. file' = file \o w
  BY DEF ShortDump, ShortWrite
<1> HIDE DEF w
<1>4. /\ file' \in Seq(Nat)
      /\ Len(file') = Len(file) + Len(w)
      /\ \A i \in 1..(Len(file) + Len(w)) :
            file'[i] = IF i <= Len(file) THEN file[i] ELSE w[i - Len(file)]
      /\ Len(file) \in Nat /\ Len(w) \in Nat
  BY <1>2, <1>3, ConcatProperties, LenProperties DEF TypeOK
<1>5. TypeOK'
  BY <1>4, SlotsType DEF ShortDump, ShortWrite, TypeOK, ringVars, samplerVars
<1>6. OffsetInv' /\ UnreadIntact'
  BY DEF ShortDump, OffsetInv, UnreadIntact, Unread, ringVars
<1>7. FileIsStream'
  BY DEF ShortDump, ShortWrite, FileIsStream, TypeOK
<1>8. FileKeepsAll'
  <2> SUFFICES ASSUME NEW m \in 1..consumed
               PROVE  \E i \in 1..Len(file') : file'[i] = m
    BY DEF ShortDump, FileKeepsAll
  <2>1. PICK i \in 1..Len(file) : file[i] = m
    BY DEF FileKeepsAll
  <2>2. i \in 1..(Len(file) + Len(w)) /\ i <= Len(file)
    BY <1>4
  <2> QED
    BY <1>4, <2>1, <2>2
<1> QED
  BY <1>5, <1>6, <1>7, <1>8

(* Every step preserves the inductive invariant.                           *)
LEMMA StepInv == IInv /\ [Next]_vars => IInv'
<1> SUFFICES ASSUME IInv, [Next]_vars PROVE IInv'
  OBVIOUS
<1> USE RingAssumption
<1>1. CASE UNCHANGED vars
  BY <1>1, SlotsType DEF vars, ringVars, samplerVars, fileVars, IInv, TypeOK, OffsetInv, UnreadIntact,
     FileIsStream, FileKeepsAll, Unread
<1>2. ASSUME NEW d \in EventSize, Write(d) PROVE IInv'
  BY <1>2, WriteInv
<1>3. ASSUME NEW d \in EventSize, Refuse(d) PROVE IInv'
  <2>1. Unread # 0
    BY <1>3, TestsExact DEF Refuse, IInv, Unread, TypeOK, EventSize, EvSiz
  <2> QED
    BY <1>3, <2>1, SlotsType DEF Refuse, samplerVars, fileVars, IInv, TypeOK, OffsetInv, UnreadIntact,
       FileIsStream, FileKeepsAll, Unread, Space
<1>4. CASE UpdateSamplingPoint
  <2>1. TypeOK'
    BY <1>4, SlotsType DEF UpdateSamplingPoint, ringVars, fileVars, IInv, TypeOK, Space
  <2> QED
    BY <1>4, <2>1, SamplerStepInv DEF UpdateSamplingPoint
<1>5. CASE DumpChunk
  BY <1>5, DumpInv DEF DumpChunk
<1>6. CASE DumpAll
  BY <1>6, DumpInv DEF DumpAll
<1>7. ASSUME NEW k \in 0..(Chunk - 1), NEW j \in 0..(Chunk - 1), ShortDump(k, j)
      PROVE  IInv'
  BY <1>7, ShortDumpInv
<1>8. ASSUME NEW p \in Samplers, Attach(p) \/ Detach(p) PROVE IInv'
  <2>1. nsampler' \in 0..MAXSM /\ SlotsOK'
    BY <1>8, AttachType DEF IInv
  <2>2. synced' \in [Slot -> BOOLEAN]
    BY <1>8, Zenon DEF Attach, Detach, IInv, TypeOK
  <2>3. TypeOK'
    BY <1>8, <2>1, <2>2 DEF Attach, Detach, ringVars, fileVars, IInv, TypeOK
  <2> QED
    BY <1>8, <2>3, SamplerStepInv DEF Attach, Detach
<1>9. ASSUME NEW i \in Slot, NEW d \in 0..(2 * Size), SampleEvent(i, d) PROVE IInv'
  <2>1. Wrap(offsetSM[i] + d) \in Offset
    BY <1>9 DEF SampleEvent, EventInside, IInv, TypeOK, Wrap, Offset
  <2>3. synced' \in [Slot -> BOOLEAN]
    BY <1>9, Zenon DEF SampleEvent, IInv, TypeOK
  <2>2. TypeOK'
    BY <1>9, <2>1, <2>3, SlotsType DEF SampleEvent, ringVars, fileVars, IInv, TypeOK, Space
  <2> QED
    BY <1>9, <2>2, SamplerStepInv DEF SampleEvent
<1>10. ASSUME NEW i \in Slot, NEW d \in 0..(2 * Size), SampleTorn(i, d) PROVE IInv'
  <2>1. TypeOK'
    BY <1>10, SlotsType DEF SampleTorn, ringVars, fileVars, IInv, TypeOK
  <2> QED
    BY <1>10, <2>1, SamplerStepInv DEF SampleTorn
<1> QED
  BY <1>1, <1>2, <1>3, <1>4, <1>5, <1>6, <1>7, <1>8, <1>9, <1>10 DEF Next

(* Typing, offsets, ring contents and file, in every reachable state.      *)
THEOREM RingInvariant == Spec => []IInv
<1>1. Init => IInv
  BY InitInv
<1>2. IInv /\ [Next]_vars => IInv'
  BY StepInv
<1> QED
  BY <1>1, <1>2, PTL DEF Spec

(* The fields of myFIFOData keep their types; the offsets stay inside.     *)
THEOREM RingTypeCorrect == Spec => []TypeOK
<1>1. IInv => TypeOK
  BY DEF IInv
<1> QED
  BY <1>1, RingInvariant, PTL

(* bufferOccupancy(), the emptiness test and the fullness test are exact.  *)
THEOREM RingSpaceExact == Spec => []SpaceExact
<1>1. IInv => SpaceExact
  BY TestsExact, RingAssumption DEF IInv, SpaceExact, Unread, TypeOK, EventSize, EvSiz
<1> QED
  BY <1>1, RingInvariant, PTL

(* write() never overwrites a word that dumpData() has not passed.         *)
THEOREM RingUnreadIntact == Spec => []UnreadIntact
<1>1. IInv => UnreadIntact
  BY DEF IInv
<1> QED
  BY <1>1, RingInvariant, PTL

(* Without short fwrites the data file is a prefix of the stream.          *)
THEOREM RingFileIsStream == Spec => []FileIsStream
<1>1. IInv => FileIsStream
  BY DEF IInv
<1> QED
  BY <1>1, RingInvariant, PTL

(* With short fwrites no word the reader passed is missing from the file.  *)
THEOREM RingFileKeepsAll == Spec => []FileKeepsAll
<1>1. IInv => FileKeepsAll
  BY DEF IInv
<1> QED
  BY <1>1, RingInvariant, PTL

-----------------------------------------------------------------------------
(* A step of the ring is a step of the bounded stream or leaves it alone.  *)
LEMMA StepRefines == IInv /\ [Next]_vars => [Stream!Next]_<<written, consumed>>
<1> SUFFICES ASSUME IInv, [Next]_vars
             PROVE  [Stream!Next]_<<written, consumed>>
  OBVIOUS
<1> USE RingAssumption
<1>1. ASSUME NEW d \in EventSize, Write(d) PROVE Stream!Next
  <2>1. Stream!Put(d)
    BY <1>1, TestsExact DEF Write, fileVars, IInv, Stream!Put, EventSize, EvSiz
  <2> QED
    BY <2>1 DEF Stream!Next, EventSize, EvSiz
<1>2. ASSUME NEW n \in 1..Size, DumpUpTo(n) PROVE Stream!Next
  <2>1. /\ Passed(n) \in 1..Size
        /\ consumed + Passed(n) <= written
    BY <1>2, TestsExact DEF DumpUpTo, IInv, TypeOK, OffsetInv, Passed, Unread
  <2>2. consumed' = consumed + Passed(n)
    BY <1>2, DumpExact DEF DumpUpTo, IInv
  <2>3. Stream!Get(Passed(n))
    BY <1>2, <2>1, <2>2 DEF DumpUpTo, Stream!Get
  <2> QED
    BY <2>1, <2>3 DEF Stream!Next
<1>3. CASE DumpChunk \/ DumpAll
  BY <1>2, <1>3 DEF DumpChunk, DumpAll
<1>4. CASE ~ (DumpChunk \/ DumpAll \/ \E d \in EventSize : Write(d))
  BY <1>4 DEF Next, vars, ringVars, samplerVars, fileVars, Refuse, UpdateSamplingPoint, ShortDump,
     Attach, Detach, SampleEvent, SampleTorn
<1> QED
  BY <1>1, <1>3, <1>4

(* The ring of myFIFO implements a bounded FIFO stream of words.           *)
THEOREM RingRefines == Spec => ImplementsStream
<1>1. Init => Stream!Init
  BY DEF Init, Stream!Init
<1> QED
  BY <1>1, StepRefines, RingInvariant, PTL DEF Spec, ImplementsStream, Stream!Spec

=============================================================================
