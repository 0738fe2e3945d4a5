------------------------- MODULE FifoSamplerProofs -------------------------
(***************************************************************************)
(* What a sampler sees that was aligned at the start of a spill, for any   *)
(* ring, events and number of samplers, while writer and reader go on.     *)
(***************************************************************************)
EXTENDS FifoRingProofs

(* Events follow one another without a gap.                                *)
Events == \A n \in DOMAIN evlen : /\ n \in 1..written /\ evlen[n] \in EventSize
                                  /\ n + evlen[n] \in DOMAIN evlen \cup {written + 1}

SamplerInv == TypeOK /\ Events /\ SamplerView

LEMMA PendingType ==
  ASSUME TypeOK, NEW i \in Slot
  PROVE  /\ Pending(i) \in 0..Size /\ offsetSM[i] \in Offset /\ offsetWR \in Offset
         /\ NothingFor(i) <=> Pending(i) = 0
BY RingAssumption DEF TypeOK, Pending, Ahead, Offset, NothingFor

(* write() moves the samplers whose next word it is about to overwrite,    *)
(* but for one that has seen nothing of a full ring.                       *)
LEMMA OvertakenExact ==
  ASSUME TypeOK, NEW i \in Slot, NEW d \in 1..MaxEvent
  PROVE  Overtakes(offsetSM[i], d) <=> offsetSM[i] # offsetWR /\ Pending(i) + d > Size
BY RingAssumption DEF TypeOK, Overtakes, Pending, Ahead, Offset

(* The size field a sampler reads is that of an event which ends inside    *)
(* the words it has still to see, and the next event follows.              *)
LEMMA MeetsEvent ==
  ASSUME SamplerInv, NEW i \in Slot, i < nsampler, synced[i], ~ NothingFor(i),
         ~ HeaderSplit(i), NEW d \in HeaderSize(i)
  PROVE  /\ d \in 1..Pending(i) /\ EventInside(i, d)
         /\ Pending(i) > d => written + 1 - (Pending(i) - d) \in DOMAIN evlen
<1> DEFINE first == written + 1 - Pending(i)
<1> USE RingAssumption DEF SamplerInv
<1>1. Pending(i) \in 1..Size
  BY PendingType
<1>2. first \in DOMAIN evlen
  BY <1>1 DEF SamplerView
<1>3. /\ first \in 1..written /\ evlen[first] \in EventSize
      /\ first + evlen[first] \in DOMAIN evlen \cup {written + 1}
      /\ first + evlen[first] \in DOMAIN evlen => first + evlen[first] \in 1..written
  BY <1>2 DEF Events
<1>4. EvSiz \in 0..(Pending(i) - 1)
  BY <1>1, <1>3 DEF EventSize, EvSiz, TypeOK
<1>10. mem[Wrap(offsetSM[i] + EvSiz)] = first + EvSiz
  BY <1>4 DEF SamplerView
<1>11. Wrap(offsetSM[i] + EvSiz) = offsetSM[i] + EvSiz
  BY PendingType DEF HeaderSplit, Wrap, Offset, EvSiz
<1>12. mem[offsetSM[i] + EvSiz] - EvSiz = first
  BY <1>1, <1>10, <1>11 DEF EvSiz, TypeOK
<1> HIDE DEF first
<1>5. d = evlen[first]
  BY <1>2, <1>12 DEF HeaderSize
<1>6. /\ first \in 1..written /\ d \in 1..MaxEvent
      /\ first + d \in DOMAIN evlen \cup {written + 1}
  BY <1>3, <1>5 DEF EventSize, EvSiz
<1>7. first + d <= written + 1 /\ (first + d < written + 1 => first + d \in DOMAIN evlen)
  <2>1. first + d \in DOMAIN evlen => first + d \in 1..written
    BY DEF Events
  <2> QED
    BY <1>6, <2>1 DEF TypeOK
<1>8. d \in 1..Pending(i)
  BY <1>1, <1>6, <1>7 DEF first, TypeOK
<1>9. EventInside(i, d)
  BY <1>1, <1>8 DEF EventInside, Pending, Ahead, TypeOK, Offset
<1> QED
  BY <1>1, <1>6, <1>7, <1>8, <1>9 DEF first, TypeOK

-----------------------------------------------------------------------------
LEMMA SamplerInit == Init => SamplerInv
<1> SUFFICES ASSUME Init PROVE SamplerInv
  OBVIOUS
<1>1. TypeOK
  BY InitInv DEF IInv
<1>2. DOMAIN evlen = {} /\ nsampler = 0
  BY DEF Init
<1> QED
  BY <1>1, <1>2 DEF SamplerInv, Events, SamplerView, Slot

(* Steps that leave the words and a sampler alone leave its view alone.    *)
LEMMA Untouched ==
  ASSUME SamplerInv, TypeOK', UNCHANGED <<mem, offsetWR, written, evlen>>,
         \A i \in Slot : i < nsampler' /\ synced'[i] =>
           \/ i < nsampler /\ synced[i] /\ offsetSM'[i] = offsetSM[i] /\ monspace'[i] = monspace[i]
           \/ offsetSM'[i] = offsetWR /\ monspace'[i] = "EMPTY"
  PROVE  SamplerInv'
<1>1. Events'
  BY DEF SamplerInv, Events
<1>2. SamplerView'
  <2> SUFFICES ASSUME NEW i \in Slot, i < nsampler', synced'[i]
               PROVE  /\ Pending(i)' > 0 => written + 1 - Pending(i)' \in DOMAIN evlen
                      /\ \A k \in 0..(Pending(i)' - 1) :
                           mem[Wrap(offsetSM'[i] + k)] = (written + 1 - Pending(i)') + k
    BY DEF SamplerView
  <2>1. CASE i < nsampler /\ synced[i] /\ offsetSM'[i] = offsetSM[i] /\ monspace'[i] = monspace[i]
    <3>1. Pending(i)' = Pending(i)
      BY <2>1 DEF Pending
    <3> QED
      BY <2>1, <3>1 DEF SamplerInv, SamplerView
  <2>2. CASE offsetSM'[i] = offsetWR /\ monspace'[i] = "EMPTY"
    <3>1. Pending(i)' = 0
      BY <2>2 DEF Pending
    <3> QED
      BY <3>1
  <2> QED
    BY <2>1, <2>2
<1> QED
  BY <1>1, <1>2 DEF SamplerInv

(* write() puts a new event behind the last.                               *)
LEMMA WriteView ==
  ASSUME SamplerInv, TypeOK', NEW d \in EventSize, Write(d)
  PROVE  SamplerInv'
<1> USE RingAssumption DEF SamplerInv
<1>1. /\ written' = written + d /\ offsetWR' = Wrap(offsetWR + d)
      /\ nsampler' = nsampler /\ synced' = synced
      /\ DOMAIN evlen' = DOMAIN evlen \cup {written + 1}
      /\ evlen'[written + 1] = d
      /\ \A n \in DOMAIN evlen : n # written + 1 => evlen'[n] = evlen[n]
  BY DEF Write
<1>2. written \in Nat /\ d \in Nat /\ d <= Size /\ d > 0
  BY DEF TypeOK, EventSize, EvSiz
<1>3. \A n \in DOMAIN evlen : n # written + 1
  BY <1>2 DEF Events
<1>4. Events'
  <2> SUFFICES ASSUME NEW n \in DOMAIN evlen'
               PROVE  /\ n \in 1..(written + d) /\ evlen'[n] \in EventSize
                      /\ n + evlen'[n] \in DOMAIN evlen' \cup {written + d + 1}
    BY <1>1 DEF Events
  <2>1. CASE n = written + 1
    BY <1>1, <1>2, <2>1
  <2>2. CASE n \in DOMAIN evlen
    <3>1. evlen'[n] = evlen[n]
      BY <1>1, <1>3, <2>2
    <3> QED
      BY <1>1, <1>2, <2>2, <3>1 DEF Events
  <2> QED
    BY <1>1, <2>1, <2>2
<1>5. SamplerView'
  <2> SUFFICES ASSUME NEW i \in Slot, i < nsampler, synced[i]
               PROVE  /\ Pending(i)' > 0 => written + d + 1 - Pending(i)' \in DOMAIN evlen'
                      /\ \A k \in 0..(Pending(i)' - 1) :
                           mem'[Wrap(offsetSM'[i] + k)] = (written + d + 1 - Pending(i)') + k
    BY <1>1 DEF SamplerView
  <2>0. ~ (i >= nsampler)
    BY DEF TypeOK, Slot
  <2>1. CASE Overtakes(offsetSM[i], d)
    <3>1. offsetSM'[i] = offsetWR' /\ monspace'[i] = "EMPTY"
      BY <1>1, <2>0, <2>1 DEF Write
    <3>2. Pending(i)' = 0
      BY <3>1 DEF Pending
    <3> QED
      BY <3>2
  <2>2. CASE ~ Overtakes(offsetSM[i], d)
    <3> DEFINE s == offsetSM[i]
               p == IF s = offsetWR THEN 0 ELSE Pending(i)
    <3>1. offsetSM'[i] = s /\ monspace'[i] = "FREE"
      BY <2>0, <2>2 DEF Write
    <3>2. /\ s \in Offset /\ offsetWR \in Offset /\ Pending(i) \in 0..Size
          /\ p \in 0..(Size - d) /\ (p = 0 <=> s = offsetWR) /\ (p > 0 => p = Pending(i))
      BY <2>2, <1>2, PendingType, OvertakenExact DEF NothingFor, EventSize, EvSiz
    <3>3. p = IF s <= offsetWR THEN offsetWR - s ELSE offsetWR + Size - s
      BY <3>2 DEF Pending, Ahead, Offset
    <3>4. Pending(i)' = p + d
      <4>1. Pending(i)' = IF s = offsetWR' THEN Size ELSE Ahead(s, offsetWR')
        BY <3>1 DEF Pending
      <4> HIDE DEF s, p
      <4> QED
        BY <1>1, <1>2, <3>2, <3>3, <4>1 DEF Ahead, Wrap, Offset
    <3> HIDE DEF s, p
    <3>5. written + d + 1 - (p + d) \in DOMAIN evlen'
      <4>1. CASE p = 0
        BY <1>1, <1>2, <4>1
      <4>2. CASE p > 0
        <5>1. written + 1 - p \in DOMAIN evlen
          BY <3>2, <4>2 DEF SamplerView
        <5>2. written + d + 1 - (p + d) = written + 1 - p
          BY <1>2, <3>2
        <5> QED
          BY <1>1, <5>1, <5>2
      <4> QED
        BY <3>2, <4>1, <4>2
    <3>6. ASSUME NEW k \in 0..(p + d - 1)
          PROVE  mem'[Wrap(s + k)] = (written + d + 1 - (p + d)) + k
      <4> DEFINE a == Wrap(s + k)
      <4>1. a \in Offset
        BY <1>2, <3>2 DEF Wrap, Offset
      <4>2. mem'[a] = IF Ahead(offsetWR, a) < d THEN written + 1 + Ahead(offsetWR, a) ELSE mem[a]
        BY <4>1 DEF Write
      <4>3. CASE k < p
        <5>1. Ahead(offsetWR, a) >= d /\ Ahead(offsetWR, a) \in Int
          BY <1>2, <3>2, <3>3, <4>3 DEF Wrap, Ahead, Offset
        <5>2. mem[a] = (written + 1 - p) + k
          BY <3>2, <4>3 DEF SamplerView, s
        <5> QED
          BY <1>2, <3>2, <4>2, <5>1, <5>2
      <4>4. CASE k >= p
        <5>1. Ahead(offsetWR, a) = k - p
          BY <1>2, <3>2, <3>3, <4>4 DEF Wrap, Ahead, Offset
        <5> QED
          BY <1>2, <3>2, <4>2, <4>4, <5>1
      <4> QED
        BY <3>2, <4>3, <4>4
    <3> QED
      BY <1>2, <3>1, <3>2, <3>4, <3>5, <3>6 DEF s
  <2> QED
    BY <2>1, <2>2
<1> QED
  BY <1>4, <1>5

(* read() takes the event at the sampler's offset away from what it has to *)
(* see.                                                                    *)
LEMMA SampleView ==
  ASSUME SamplerInv, TypeOK', NEW i \in Slot, NEW d \in 0..(2 * Size), SampleEvent(i, d)
  PROVE  SamplerInv'
<1> USE RingAssumption DEF SamplerInv
<1>1. /\ UNCHANGED <<mem, offsetWR, written, evlen, nsampler>>
      /\ ~ NothingFor(i) /\ d \in HeaderSize(i)
      /\ \A m \in Slot \ {i} : /\ offsetSM'[m] = offsetSM[m] /\ monspace'[m] = monspace[m]
                              /\ synced'[m] = synced[m]
      /\ synced'[i] = (synced[i] /\ ~ HeaderSplit(i))
  BY DEF SampleEvent, ringVars, TypeOK
<1>2. CASE ~ (i < nsampler /\ synced[i] /\ ~ HeaderSplit(i))
  BY <1>1, <1>2, Untouched
<1>3. CASE i < nsampler /\ synced[i] /\ ~ HeaderSplit(i)
  <2>1. /\ d \in 1..Pending(i) /\ Pending(i) \in 1..Size
        /\ Pending(i) > d => written + 1 - (Pending(i) - d) \in DOMAIN evlen
    BY <1>1, <1>3, MeetsEvent, PendingType
  <2>2. /\ offsetSM'[i] = Wrap(offsetSM[i] + d)
        /\ monspace'[i] = IF ~ (offsetSM[i] >= offsetWR /\ offsetSM[i] + d < Size)
                             /\ Wrap(offsetSM[i] + d) = offsetWR THEN "EMPTY" ELSE "FREE"
    BY DEF SampleEvent, TypeOK
  <2>3. offsetSM[i] \in Offset /\ offsetWR \in Offset /\ written \in Nat
    BY DEF TypeOK
  <2>4. Pending(i)' = Pending(i) - d
    <3>1. Pending(i)' = IF offsetSM'[i] = offsetWR THEN IF monspace'[i] = "EMPTY" THEN 0 ELSE Size
                        ELSE Ahead(offsetSM'[i], offsetWR)
      BY <1>1 DEF Pending
    <3> QED
      BY <2>1, <2>2, <2>3, <3>1 DEF Pending, Ahead, Wrap, Offset
  <2>5. \A k \in 0..(Pending(i) - d - 1) :
           mem[Wrap(offsetSM'[i] + k)] = (written + 1 - (Pending(i) - d)) + k
    <3> SUFFICES ASSUME NEW k \in 0..(Pending(i) - d - 1)
                 PROVE  mem[Wrap(offsetSM'[i] + k)] = (written + 1 - (Pending(i) - d)) + k
      OBVIOUS
    <3>1. Wrap(offsetSM'[i] + k) = Wrap(offsetSM[i] + (d + k)) /\ d + k \in 0..(Pending(i) - 1)
      BY <2>1, <2>2, <2>3 DEF Wrap, Offset
    <3>2. mem[Wrap(offsetSM[i] + (d + k))] = (written + 1 - Pending(i)) + (d + k)
      BY <1>1, <1>3, <3>1 DEF SamplerView
    <3> QED
      BY <2>1, <2>3, <3>1, <3>2
  <2>6. SamplerView'
    <3> SUFFICES ASSUME NEW m \in Slot, m < nsampler, synced'[m]
                 PROVE  /\ Pending(m)' > 0 => written + 1 - Pending(m)' \in DOMAIN evlen
                        /\ \A k \in 0..(Pending(m)' - 1) :
                             mem[Wrap(offsetSM'[m] + k)] = (written + 1 - Pending(m)') + k
      BY <1>1 DEF SamplerView
    <3>1. CASE m = i
      BY <2>1, <2>4, <2>5, <3>1
    <3>2. CASE m # i
      <4>1. Pending(m)' = Pending(m) /\ offsetSM'[m] = offsetSM[m]
        BY <1>1, <3>2 DEF Pending
      <4> QED
        BY <1>1, <3>2, <4>1 DEF SamplerView
    <3> QED
      BY <3>1, <3>2
  <2>7. Events'
    BY <1>1 DEF Events
  <2> QED
    BY <2>6, <2>7
<1> QED
  BY <1>2, <1>3

LEMMA SamplerStep ==
  ASSUME SamplerInv, TypeOK', [Next]_vars
  PROVE  SamplerInv'
<1>1. ASSUME NEW d \in EventSize, Write(d) PROVE SamplerInv'
  BY <1>1, WriteView
<1>2. ASSUME NEW i \in Slot, NEW d \in 0..(2 * Size), SampleEvent(i, d) PROVE SamplerInv'
  BY <1>2, SampleView
<1>3. ASSUME NEW i \in Slot, NEW d \in 0..(2 * Size), SampleTorn(i, d) PROVE SamplerInv'
  <2>1. ~ (i < nsampler /\ synced[i])
    <3>1. ~ HeaderSplit(i)
      BY <1>3, RingAssumption DEF SampleTorn, HeaderSplit, EventSize, EvSiz
    <3> QED
      BY <1>3, <3>1, MeetsEvent DEF SampleTorn
  <2>2. \A m \in Slot \ {i} : offsetSM'[m] = offsetSM[m]
    BY <1>3 DEF SampleTorn, SamplerInv, TypeOK
  <2> QED
    BY <1>3, <2>1, <2>2, Untouched DEF SampleTorn, ringVars
<1>4. CASE UpdateSamplingPoint
  <2>1. \A i \in Slot : i < nsampler => offsetSM'[i] = offsetWR /\ monspace'[i] = "EMPTY"
    BY <1>4 DEF UpdateSamplingPoint
  <2> QED
    BY <1>4, <2>1, Untouched DEF UpdateSamplingPoint, ringVars
<1>5. ASSUME NEW p \in Samplers, Attach(p) PROVE SamplerInv'
  <2>1. \A i \in Slot : i < nsampler' /\ synced'[i] => i < nsampler /\ synced[i]
    BY <1>5 DEF Attach, SamplerInv, TypeOK, Slot
  <2> QED
    BY <1>5, <2>1, Untouched DEF Attach, ringVars
<1>6. ASSUME NEW p \in Samplers, Detach(p) PROVE SamplerInv'
  <2>1. \A i \in Slot : i < nsampler' => i < nsampler
    BY <1>6 DEF Detach, SamplerInv, TypeOK, Slot
  <2> QED
    BY <1>6, <2>1, Untouched DEF Detach, ringVars
<1>7. ASSUME UNCHANGED <<mem, offsetWR, samplerVars, written, evlen>> PROVE SamplerInv'
  BY <1>7, Untouched DEF samplerVars
<1>8. CASE DumpChunk \/ DumpAll
  BY <1>7, <1>8 DEF DumpChunk, DumpAll, DumpUpTo
<1>9. CASE (\E d \in EventSize : Refuse(d)) \/ \E k, m \in 0..(Chunk - 1) : ShortDump(k, m)
  BY <1>7, <1>9 DEF Refuse, ShortDump, ringVars
<1>10. CASE UNCHANGED vars
  BY <1>7, <1>10 DEF vars, ringVars
<1> QED
  BY <1>1, <1>2, <1>3, <1>4, <1>5, <1>6, <1>8, <1>9, <1>10 DEF Next

THEOREM SamplerInvariant == Spec => []SamplerInv
<1>1. SamplerInv /\ TypeOK' /\ [Next]_vars => SamplerInv'
  BY SamplerStep
<1> QED
  BY <1>1, SamplerInit, RingTypeCorrect, PTL DEF Spec

(* SamplerView: from updateSamplingPoint() on, a sampler has the latest    *)
(* words of the stream before it, whole events and no gap, although        *)
(* write() overtakes it (myFIFOWriter.cpp).                                *)
THEOREM SamplersSee == Spec => []SamplerView
<1>1. SamplerInv => SamplerView
  BY DEF SamplerInv
<1> QED
  BY <1>1, SamplerInvariant, PTL

(* SamplerNeverTorn: read() never answers "FIFO buh" or "FIFO bah" to it   *)
(* (myFIFOSampler.cpp).                                                    *)
THEOREM SamplersNotTorn == Spec => []SamplerNeverTorn
<1>1. SamplerInv => SamplerNeverTorn
  BY MeetsEvent DEF SamplerNeverTorn
<1> QED
  BY <1>1, SamplerInvariant, PTL

=============================================================================
