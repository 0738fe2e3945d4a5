------------------------------ MODULE FifoRing ------------------------------
(***************************************************************************)
(* The circular buffer of a FIFO: myFIFOWriter::write(), the two           *)
(* myFIFOReader::dumpData(), myFIFOSampler::read(), updateSamplingPoint()  *)
(* and the slots of samplers, each one step, because its caller holds the  *)
(* lock of FifoLock.  A word is its index in the stream of all words ever  *)
(* written (0: never written), so that a word lost, repeated or torn off   *)
(* its event shows.  Equal offsets mean empty or full, told apart by       *)
(* `space' (for a sampler by `monspace').                                  *)
(***************************************************************************)
EXTENDS Naturals, Sequences, FiniteSets

CONSTANTS Size,      \* myFIFOData.size, in words
          MaxEvent,  \* longest event, in words
          Chunk,     \* words dumpData(file, bytes) asks for
          MAXSM,     \* slots for samplers
          Samplers,  \* the programs that may attach as samplers
          MaxWords,  \* bound: words written in a behaviour
          MaxShort   \* bound: short fwrites in a behaviour

(* Where EventHeader has its evsiz, counted in words.                      *)
EvSiz == 2

(* Events have at least the header up to its evsiz.                        *)
EventSize == (EvSiz + 1)..MaxEvent

ASSUME RingAssumption == /\ Size \in Nat \ {0}
                         /\ MaxEvent \in 1..Size /\ EventSize # {}
                         /\ Chunk \in 1..Size
                         /\ MAXSM \in Nat \ {0} /\ IsFiniteSet(Samplers)
                         /\ MaxWords \in Nat
                         /\ MaxShort \in Nat

VARIABLES mem,       \* the words of the shared segment
          offsetRD, offsetWR, space,
          nsampler, offsetSM, monspace,
          sam_ind,   \* of the samplers that are attached
          \* history
          written,   \* words put into the FIFO
          consumed,  \* words the read offset has passed
          evlen,     \* evsiz of the header at each word that starts an event
          file,      \* the words in the data file
          short,     \* number of short fwrites
          synced     \* slots aligned by updateSamplingPoint() since they came
                     \* into use, and no split header met since then

ringVars == <<mem, offsetRD, offsetWR, space>>
samplerVars == <<nsampler, offsetSM, monspace, sam_ind, synced>>
fileVars == <<consumed, file, short>>
vars == <<ringVars, samplerVars, fileVars, written, evlen>>

Offset == 0..(Size - 1)
Slot == 0..(MAXSM - 1)
Space == {"EMPTY", "FREE", "FULL"}

(* The same with the end of the ring taken for a place in it.              *)
WrapOffByOne(o) == IF o <= Size THEN o ELSE o - Size

(* An offset below 2*Size brought back into the ring.                      *)
Wrap(o) == IF o < Size THEN o ELSE o - Size

(* Words from offset a up to offset b, going round the end if b < a.       *)
Ahead(a, b) == IF b >= a THEN b - a ELSE b + Size - a

Init == /\ mem = [a \in Offset |-> 0]
        /\ offsetRD = 0 /\ offsetWR = 0 /\ space = "EMPTY"
        /\ nsampler = 0 /\ sam_ind = << >>
        /\ offsetSM = [i \in Slot |-> 0]
        /\ monspace = [i \in Slot |-> "EMPTY"]
        /\ written = 0 /\ consumed = 0 /\ evlen = << >>
        /\ file = << >> /\ short = 0
        /\ synced = [i \in Slot |-> FALSE]

-----------------------------------------------------------------------------
(* myFIFOWriter                                                            *)

(* write() that lets the end of the event reach past the read offset.      *)
FitsOffByOne(d) ==
  LET end == offsetWR + d
  IN  /\ ~ (offsetWR = offsetRD /\ space = "FULL")
      /\ IF offsetWR >= offsetRD THEN end < Size \/ end - Size <= offsetRD + 1
                                 ELSE end <= offsetRD + 1

(* Whether write() finds room for d words.                                 *)
Fits(d) ==
  LET end == offsetWR + d
  IN  /\ ~ (offsetWR = offsetRD /\ space = "FULL")
      /\ IF offsetWR >= offsetRD THEN end < Size \/ end - Size <= offsetRD
                                 ELSE end <= offsetRD

(* The same test without the part that goes round the end of the ring.     *)
OvertakesNoWrap(sm, d) == offsetWR < sm /\ offsetWR + d > sm

(* Whether the new event lies over the word a sampler would read next.     *)
Overtakes(sm, d) ==
  IF offsetWR + d < Size
  THEN offsetWR < sm /\ offsetWR + d > sm
  ELSE offsetWR < sm \/ (offsetWR > sm /\ offsetWR + d - Size > sm)

(* write() that forgets to tell a full ring from an empty one.             *)
WriteNeverFull(d) ==
  /\ written + d <= MaxWords
  /\ Fits(d)
  /\ mem' = [a \in Offset |-> IF Ahead(offsetWR, a) < d
                              THEN written + 1 + Ahead(offsetWR, a) ELSE mem[a]]
  /\ offsetWR' = Wrap(offsetWR + d)
  /\ space' = "FREE"
  /\ offsetSM' = [i \in Slot |-> IF i < nsampler /\ Overtakes(offsetSM[i], d)
                                 THEN Wrap(offsetWR + d) ELSE offsetSM[i]]
  /\ monspace' = [i \in Slot |-> IF i >= nsampler THEN monspace[i]
                                 ELSE IF Overtakes(offsetSM[i], d) THEN "EMPTY" ELSE "FREE"]
  /\ written' = written + d
  /\ evlen' = [n \in DOMAIN evlen \cup {written + 1} |->
                 IF n = written + 1 THEN d ELSE evlen[n]]
  /\ UNCHANGED <<offsetRD, nsampler, sam_ind, synced, fileVars>>

(* write() of an event of d words that fits.  A sampler whose next word is *)
(* overwritten is moved to the end of the new event.                       *)
Write(d) ==
  /\ written + d <= MaxWords
  /\ Fits(d)
  /\ mem' = [a \in Offset |-> IF Ahead(offsetWR, a) < d
                              THEN written + 1 + Ahead(offsetWR, a) ELSE mem[a]]
  /\ offsetWR' = Wrap(offsetWR + d)
  /\ space' = IF Wrap(offsetWR + d) = offsetRD THEN "FULL" ELSE "FREE"
  /\ offsetSM' = [i \in Slot |-> IF i < nsampler /\ Overtakes(offsetSM[i], d)
                                 THEN Wrap(offsetWR + d) ELSE offsetSM[i]]
  /\ monspace' = [i \in Slot |-> IF i >= nsampler THEN monspace[i]
                                 ELSE IF Overtakes(offsetSM[i], d) THEN "EMPTY" ELSE "FREE"]
  /\ written' = written + d
  /\ evlen' = [n \in DOMAIN evlen \cup {written + 1} |->
                 IF n = written + 1 THEN d ELSE evlen[n]]
  /\ UNCHANGED <<offsetRD, nsampler, sam_ind, synced, fileVars>>

(* write() that answers FIFOFULL marks the ring full, data in it or not.   *)
Refuse(d) ==
  /\ ~ Fits(d)
  /\ space' = "FULL"
  /\ UNCHANGED <<mem, offsetRD, offsetWR, samplerVars, fileVars, written, evlen>>

(* updateSamplingPoint(), at the start of every spill.                     *)
UpdateSamplingPoint ==
  /\ offsetSM' = [i \in Slot |-> IF i < nsampler THEN offsetWR ELSE offsetSM[i]]
  /\ monspace' = [i \in Slot |-> IF i < nsampler THEN "EMPTY" ELSE monspace[i]]
  /\ synced' = [i \in Slot |-> i < nsampler \/ synced[i]]
  /\ UNCHANGED <<ringVars, nsampler, sam_ind, fileVars, written, evlen>>

(* bufferOccupancy(), in words.                                            *)
Occupancy == IF offsetRD = offsetWR
             THEN IF space = "FULL" THEN Size ELSE 0
             ELSE Ahead(offsetRD, offsetWR)

-----------------------------------------------------------------------------
(* myFIFOReader                                                            *)

Empty == offsetRD = offsetWR /\ space = "EMPTY"

(* dumpData() that reads up to the end of the ring past the write offset.  *)
DumpEndPastWR(n) ==
  IF offsetRD + n < Size THEN offsetRD + n ELSE
    IF offsetRD + n - Size < offsetWR THEN offsetRD + n - Size ELSE offsetWR

(* The offset dumpData() stops at when it asks for n words.                *)
DumpEnd(n) ==
  LET end == offsetRD + n
  IN  IF offsetRD >= offsetWR
      THEN IF end < Size THEN end
           ELSE IF end - Size < offsetWR THEN end - Size ELSE offsetWR
      ELSE IF end < offsetWR THEN end ELSE offsetWR

(* Whether the words dumped go round the end of the ring.                  *)
DumpWraps(n) == offsetRD >= offsetWR /\ offsetRD + n >= Size

(* How many words dumpData() hands to fwrite.                              *)
DumpCount(n) == IF DumpWraps(n) THEN DumpEnd(n) + Size - offsetRD
                                ELSE DumpEnd(n) - offsetRD

RingWords(from, n) == [k \in 1..n |-> mem[Wrap(from + k - 1)]]

(* `space' after dumpData(): EMPTY whenever it goes round the end, even if *)
(* words are left.                                                         *)
DumpSpace(n) ==
  IF DumpWraps(n) THEN "EMPTY"
  ELSE IF offsetRD < offsetWR /\ offsetRD + n >= offsetWR THEN "EMPTY" ELSE "FREE"

DumpUpTo(n) ==
  /\ ~ Empty
  /\ file' = file \o RingWords(offsetRD, DumpCount(n))
  /\ consumed' = consumed + DumpCount(n)
  /\ offsetRD' = DumpEnd(n)
  /\ space' = DumpSpace(n)
  /\ UNCHANGED <<mem, offsetWR, samplerVars, short, written, evlen>>

(* dumpData(file, bytes)                                                   *)
DumpChunk == DumpUpTo(Chunk)

(* dumpData(file): everything that is in the ring (no program calls it).   *)
DumpAll == DumpUpTo(Size)

(* The words of the first of the two fwrites of a dump that goes round.    *)
FirstPart(n) == IF DumpWraps(n) THEN Size - offsetRD ELSE DumpCount(n)

(* fwrite writes k words up to the end of the ring, j from its start, and  *)
(* not all that was asked.                                                 *)
ShortWrite(k, j) ==
  /\ ~ Empty
  /\ short < MaxShort
  /\ k <= FirstPart(Chunk) /\ j <= DumpCount(Chunk) - FirstPart(Chunk)
  /\ k + j < DumpCount(Chunk)
  /\ file' = file \o (RingWords(offsetRD, k) \o RingWords(0, j))
  /\ short' = short + 1

(* dumpData() that moves on although fwrite failed.                        *)
ShortDumpAdvances(k, j) ==
  /\ ShortWrite(k, j)
  /\ consumed' = consumed + DumpCount(Chunk)
  /\ offsetRD' = DumpEnd(Chunk)
  /\ space' = DumpSpace(Chunk)
  /\ UNCHANGED <<mem, offsetWR, samplerVars, written, evlen>>

(* dumpData(file, bytes) answers FAILED and leaves the read offset, so     *)
(* that the next call starts with the same words.                          *)
ShortDump(k, j) ==
  /\ ShortWrite(k, j)
  /\ UNCHANGED <<ringVars, samplerVars, consumed, written, evlen>>

-----------------------------------------------------------------------------
(* myFIFOSampler.  A sampler attaches in slot nsampler; the offset left    *)
(* there by an earlier one, or by the initialisation, stays until the next *)
(* updateSamplingPoint() or until the writer overtakes it.                 *)

Attach(p) ==
  /\ p \notin DOMAIN sam_ind
  /\ nsampler < MAXSM
  /\ sam_ind' = [q \in DOMAIN sam_ind \cup {p} |-> IF q = p THEN nsampler ELSE sam_ind[q]]
  /\ nsampler' = nsampler + 1
  /\ synced' = [synced EXCEPT ![nsampler] = FALSE]
  /\ UNCHANGED <<ringVars, offsetSM, monspace, fileVars, written, evlen>>

(* The destructor counts nsampler down, whichever slot gets free: the      *)
(* slots are not compacted, so that the sampler of the highest one is not  *)
(* looked after any more, and the next one to attach shares its slot.      *)
Detach(p) ==
  /\ p \in DOMAIN sam_ind
  /\ sam_ind' = [q \in DOMAIN sam_ind \ {p} |-> sam_ind[q]]
  /\ nsampler' = nsampler - 1
  /\ UNCHANGED <<ringVars, offsetSM, monspace, synced, fileVars, written, evlen>>

(* A sampler reads through slot i.                                         *)
Used(i) == \E p \in DOMAIN sam_ind : sam_ind[p] = i

NothingFor(i) == offsetSM[i] = offsetWR /\ monspace[i] = "EMPTY"

(* The evsiz of the header at the sampler's offset lies past the end of   *)
(* the ring: read() does not go round it for the header.                   *)
HeaderSplit(i) == offsetSM[i] + EvSiz >= Size

(* What the size field at the sampler's offset may hold: past the end of   *)
(* the ring anything; else the size of an event if it is the size field of *)
(* one, or anything when it is another word.                               *)
HeaderSize(i) ==
  IF ~ HeaderSplit(i) /\ mem[offsetSM[i] + EvSiz] - EvSiz \in DOMAIN evlen
  THEN {evlen[mem[offsetSM[i] + EvSiz] - EvSiz]}
  ELSE 0..(2 * Size)

(* The tests of read() that tell a whole event from a torn one.            *)
EventInside(i, d) ==
  LET end == offsetSM[i] + d
  IN  IF offsetSM[i] >= offsetWR THEN end < Size \/ end - Size <= offsetWR
                                 ELSE end <= offsetWR

(* read() answers SUCCESS.                                                 *)
SampleEvent(i, d) ==
  /\ Used(i) /\ ~ NothingFor(i) /\ space # "FULL"
  /\ d \in HeaderSize(i) /\ EventInside(i, d)
  /\ LET end == offsetSM[i] + d
         straight == offsetSM[i] >= offsetWR /\ end < Size
     IN  /\ offsetSM' = [offsetSM EXCEPT ![i] = Wrap(end)]
         /\ monspace' = [monspace EXCEPT ![i] =
                           IF ~ straight /\ Wrap(end) = offsetWR THEN "EMPTY" ELSE "FREE"]
  /\ synced' = [synced EXCEPT ![i] = synced[i] /\ ~ HeaderSplit(i)]
  /\ UNCHANGED <<ringVars, nsampler, sam_ind, fileVars, written, evlen>>

(* read() finds an event that ends past the write offset ("FIFO bah"): a   *)
(* sampler at offset 0 is moved to the write offset.                       *)
SampleTorn(i, d) ==
  /\ Used(i) /\ ~ NothingFor(i) /\ space # "FULL"
  /\ d \in HeaderSize(i) /\ ~ EventInside(i, d)
  /\ offsetSM[i] = 0 /\ offsetWR > 0
  /\ offsetSM' = [offsetSM EXCEPT ![i] = offsetWR]
  /\ UNCHANGED <<ringVars, nsampler, sam_ind, monspace, synced, fileVars, written, evlen>>

-----------------------------------------------------------------------------
Next == \/ \E d \in EventSize : Write(d) \/ Refuse(d)
        \/ UpdateSamplingPoint
        \/ DumpChunk
        \/ DumpAll
        \/ \E k, j \in 0..(Chunk - 1) : ShortDump(k, j)
        \/ \E p \in Samplers : Attach(p) \/ Detach(p)
        \/ \E i \in Slot, d \in 0..(2 * Size) : SampleEvent(i, d) \/ SampleTorn(i, d)

Spec == Init /\ [][Next]_vars

-----------------------------------------------------------------------------
SlotsOK == /\ sam_ind \in [DOMAIN sam_ind -> Slot] /\ DOMAIN sam_ind \subseteq Samplers
           /\ nsampler = Cardinality(DOMAIN sam_ind)

TypeOK == /\ mem \in [Offset -> Nat]
          /\ offsetRD \in Offset /\ offsetWR \in Offset /\ space \in Space
          /\ nsampler \in 0..MAXSM /\ SlotsOK
          /\ offsetSM \in [Slot -> Offset] /\ monspace \in [Slot -> Space]
          /\ written \in Nat /\ consumed \in Nat /\ short \in Nat
          /\ file \in Seq(Nat)
          /\ synced \in [Slot -> BOOLEAN]

(* The two offsets and `space' always tell the true number of unread       *)
(* words: bufferOccupancy() is exact, the reader's emptiness test never    *)
(* hides data, and write() accepts an event exactly when it fits.          *)
SpaceExact == /\ Occupancy = written - consumed
              /\ Empty <=> consumed = written
              /\ \A d \in EventSize : Fits(d) <=> written + d <= consumed + Size

(* No unread word is overwritten, however often the ring was gone round.   *)
UnreadIntact == \A k \in 1..(written - consumed) :
                  mem[Wrap(offsetRD + k - 1)] = consumed + k

(* Without a short fwrite the data file is the stream up to the read       *)
(* offset: nothing lost, repeated or out of order.                         *)
FileIsStream == short = 0 => /\ Len(file) = consumed
                             /\ \A k \in 1..Len(file) : file[k] = k

(* Even with short fwrites no word the reader has passed is missing from   *)
(* the file (some may be there twice).                                     *)
FileKeepsAll == \A n \in 1..consumed : \E k \in 1..Len(file) : file[k] = n

(* The words a sampler has still to see.                                   *)
Pending(i) == IF offsetSM[i] = offsetWR
              THEN IF monspace[i] = "EMPTY" THEN 0 ELSE Size
              ELSE Ahead(offsetSM[i], offsetWR)

(* A slot in use that was aligned at a spill start sees, from then on and  *)
(* until it meets a split header, the latest words of the stream, unbroken *)
(* and beginning with the header of an event, although it never holds the  *)
(* writer back and is overtaken by it.                                     *)
SamplerView == \A i \in Slot : i < nsampler /\ synced[i] =>
  LET first == written + 1 - Pending(i)
  IN  /\ Pending(i) > 0 => first \in DOMAIN evlen
      /\ \A k \in 0..(Pending(i) - 1) : mem[Wrap(offsetSM[i] + k)] = first + k

(* Through such a slot read() never answers "FIFO buh", "FIFO bah" or, in  *)
(* sampler.cpp, "Alignment error", unless the header is split.             *)
SamplerNeverTorn ==
  \A i \in Slot : i < nsampler /\ synced[i] /\ ~ NothingFor(i) /\ ~ HeaderSplit(i) =>
    \A d \in HeaderSize(i) : EventInside(i, d)

(* The ring implements the bounded stream.                                 *)
Stream == INSTANCE BoundedStream WITH Chunk <- Size

ImplementsStream == Stream!Spec

=============================================================================
