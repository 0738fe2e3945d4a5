# A TLA+ model of the DreamDaq data acquisition

DreamDaq reads out the VME electronics of a calorimeter in a test beam.  Its
programs are processes on one computer that share memory: a *readout* puts
events into FIFOs in System V shared memory, *data writers* take them out into
files, *samplers* look at them on the way, and an operator's scripts start and
stop everything.  Nothing but two semaphores, a lock word and the order of
single reads and writes keeps these processes apart, and that is what these
modules are about.

Paths are relative to `src/`.

## Inventory

| part | state | operations | hard because |
|---|---|---|---|
| FIFO lock, `FIFOlib/myFIFO.cpp` | `status`, `sam_locker`, semaphore 1 | `waitlock`, `unlock` | up to 18 processes poll one word; owners lock again; samplers may share a slot; SIGINT cuts waits short; any of them may be killed |
| FIFO ring, `FIFOlib/myFIFO{Writer,Reader,Sampler}.cpp` | offsets of writer, reader and 16 samplers, `space`, `monspace` | `write`, `dumpData`, `read`, `updateSamplingPoint`, `bufferOccupancy` | equal offsets are empty or full; samplers are overtaken, and leave in any order; `fwrite` may fail half way |
| FIFO attach, `FIFOlib/myFIFO.cpp` constructor and destructor | presence flags, `nsampler`, two segments, a set of semaphores | create, join, reject, leave, remove | semaphore 0 guards only one half of it; identifiers die while others hold them; no result of a system call is looked at |
| FIFO pair, `FIFOlib/myFIFO-IO.cpp` | the two writers | `myOpenRun`, `myFIFOlock`, `myWriteEvent`, `myCloseRun` | full FIFO given up in mid-spill; unlocks twice |
| Readout, `myReadOut.cpp` | `events`, `pedevents`, vetoes | daq loop, spill gap, closing | limits, spill signal, SIGINT and locks at once |
| Data writer, `myDataWriter.cpp` | open file, `nevtsaved` | dump, roll over, end | decides that the run is over from outside |
| Trigger handshake, `daqLogic.cpp`, `daqReadout.cpp`, `DAQcommonlib/` | seven shared words, a semaphore | start, trigger, answer, stop | no lock at all |
| Readout without stops, `myReadOutNoStopV2718.cpp` | `trignum`, counters of every module, DAQ_VETO, the latch | read, compare, mark, reset, add a fake event, pause | gates that are no triggers, triggers that are missed, blocks that do not come, counters that go round; the file must stay in step with another system |
| its scripts, `scripts/*SPS2024nos.sh`, `stopGracely.cpp` | a semaphore, the list of processes | run, stop after the spill, SIGINT, SIGKILL | the semaphore outlives a killed run; the spill is sampled before it is used |
| Samplers, `sampler.cpp`, `reader.cpp` | alignment counters | read, complain | unaligned until the next spill |
| Offline, `decode`, `dream_to_offline`, `macro_root`, `myFileChecker.cpp`, `realign.cpp` ... | files | convert | sequential |
| GUI, FSM, Threads, scripts, VMElib | widgets, threads, registers | | outside the run's own logic, or hardware |

How they interact: the readout creates the FIFOs or joins them, holds both
during a spill, and gives them back between spills (`myFIFOunlock`, then
`myFIFOlock` when the next spill is seen).  A data writer polls its FIFO for
the lock, dumps a chunk, gives the lock back; when the FIFO is empty and the
readout has marked itself MISSING it closes its file.  A sampler locks in the
same way but only moves its own offset.  `daqLogic`/`daqReadout` are the newer
pair: `daqLogic` owns the trigger hardware and a segment of seven words,
`daqReadout` answers in it, `stopGracely` and `incDaqSem` raise a semaphore.  The readout
without stops shares no FIFO: it writes its file itself, and the only things it
shares are the semaphore, signals and the trigger hardware, which a second
system with a file of its own (FERS) counts along with it.

What makes each part correct: the lock excludes and is always given back; the
ring is a bounded stream that loses and repeats nothing; samplers see whole
events; a run's files hold its events and say how many; triggers are handed
over one at a time, none lost, each under its own number; a line of the file
without error mark holds one trigger, and lines count triggers as FERS does;
everybody who is in a FIFO is in the same one; everybody ends when the run is
stopped, and only then.

## Modules

| module | what it is |
|---|---|
| `RoleLock` | abstract lock: taken when free, entered and left by its holder |
| `FifoLock` | `waitlock()`/`unlock()`, one step per semaphore operation and per access to the lock word |
| `BoundedStream` | abstract FIFO: words go in and come out in order, at most `Size` inside |
| `FifoRing` | the ring, one step per call (its callers hold the lock) |
| `Rendezvous` | abstract hand-over of one trigger at a time |
| `DaqHandshake` | `daqLogic` and `daqReadout`, one step per access to a shared word |
| `DaqRun` | readout and two data writers composed over two FIFOs |
| `FifoAttach` | constructor and destructor of `myFIFO`, one step per system call, with the life of segments and semaphores |
| `NoStopReadout` | the loop of `myReadOutNoStopV2718.cpp`, its modules and the trigger logic |
| `NoStopRun` | composes it with its start, semaphore, signals and scripts, over several runs |
| `FifoLockProofs`, `FifoAttachProofs`, `FifoRingProofs`, `FifoSamplerProofs`, `DaqHandshakeProofs`, `DaqRunProofs`, `DaqRunEndProofs`, `NoStopRunProofs` | theorems |
| `MC*` | instances for TLC |

**FifoLock.**  `sem` is semaphore 1, `status` and `sam_locker` the fields of
`myFIFOData`, `sam_ind` the slot of each sampler, any assignment, since two
samplers that are attached may have the same (`myFIFO.cpp:188` and `212`); `pc`
is the place of each process inside the two functions, `owns` the processes that
got the lock and have not asked to give it back.  The two operations of one
`semop` are one atomic step, as the kernel makes them; the test and the assignment
of `status` are two, so that the semaphore is needed.  `SemTakeCutShort` is a wait
that ends with EINTR: SIGINT has a handler in every program, and no result of a
`semop` is looked at, so the process goes on without the semaphore; the -1 that
comes later finds 0 then, and waits (`SemGive`).  The history `cut` remembers
this.  A process may call `waitlock()` while it owns the lock, as `myFIFOlock()`
does after `myOpenRun()`, and the writer may call `unlock()` without owning it, as
`myCloseRun()` does after `myFIFOunlock()`.  The sampler's `&&` in `unlock()`
(line 387) is kept as it is: it is harmless only because `unlock()` is called
by owners.  Processes killed stay where they are; nothing undoes their semops.

**FifoRing.**  A word is its index in the stream of all words, which makes any
loss, repetition or tearing visible, and `evlen` remembers the size in the header
of each event.  A sampler takes the size from the third word at its offset,
without going round the end of the ring for it (`myFIFOSampler.cpp:32,43`):
`HeaderSize` is the size of an event if that word is the size field of one,
and anything if it is another word or lies beyond the end (`HeaderSplit`).
Samplers attach in slot `nsampler` and leave in any order, so that slots are
shared, or forgotten by the writer.  `Overtakes` is the writer's test of the three
layouts of the ring.  `DumpUpTo` is `dumpData()` with the quirk that `space`
becomes EMPTY whenever the dump goes round the end, words left or not; `Refuse`
likewise marks the ring FULL.  `ShortDump` lets each of the two `fwrite` calls of
a dump write less than it was asked.

**DaqHandshake.**  `shm` is the seven words in the order of `daqShm.h`; both
programs zero them one by one.  `waitReady`, `spin` and `waitIdle` are the
polling loops of `daqLogic`; `LogicSetSem` is the initialisation of the
semaphore after its creation; destructors run in reverse order.  SIGINT and the
semaphore stop `daqLogic` at any step.

**DaqRun.**  `ro` walks through `main()` of `myReadOut.cpp`, with the calls of
`myFIFO-IO.cpp` expanded to one `waitlock()` or `unlock()` per step; `stage`
says which of the three calls of `check_and_handle_event()` it is in; `pedVeto`
is bit 14 of the I/O register.  `dw[f]` walks through the loop of
`myDataWriter.cpp` for FIFO f; the unlock, the test of the size and the test of
the writer's presence are separate steps.  A FIFO is a pair of counts, which
`FifoRing` justifies, and its lock one variable, which `FifoLock` justifies for
as long as no wait on the semaphore is cut short.  `MaxPedEvts` is `maxevts`
over `phypedratio`, rounded, and may be 0; the ratio, a `double`, is a quotient of
two naturals.

**FifoAttach.**  `semKey`, `dataKey` and `fifoKey` are what `semget` and
`shmget` find under the keys, numbered in the order of creation; `data` holds
the contents of every data segment ever made; `my[p]` is what process p has in
its object and what it maps.  A segment exists while its key or a mapping leads
to it, a removed set of semaphores is gone at once.  The constructor is ten
steps (`Start` to `Bump`), the destructor nine (`Leave` to `RemoveSems`); the
unlocked `nsampler++` and `nsampler--` are a read and a write.  What the code does
with a failed call is modelled as it is: `semop` on a removed set goes on without
waiting, and so does one that SIGINT cuts short (`SemopCutShort`); without
semaphores or data segment the destructor ends in a segmentation fault
(`StartFails`, `ArriveFails`, where `shmat` also fails because the segment was
removed); without FIFO segment the object is invalid and the data segment stays
uninitialised (`InitialiseFails`, `Attach`); `IPC_STAT` that fails leaves the test
to what was in the structure.  A sampler whose index lies beyond the array ends
there too.  `Die` is SIGKILL, or `exit(1)`.

Anybody may start while somebody leaves, and get SIGINT in any wait.  The history
`harm` remembers which of the four things have happened that undo the protection:
`"overlap"`, `"cut"`, `"refused"` (a reader or writer that was refused has left)
and `"died"`.  The properties say up to which of them they hold: `Orderly` is
neither of the first two, `RolesKept` none of the first three.

**NoStopReadout.**  `pc` walks through the loop of `main()`: spill and latch,
`readEvent()` in three parts (the counter of each module, one after the other;
the comparison; the data), the line, the reset, the unlock of the latch, the
test for the end.  Gates arrive between any two of these steps.  `seen`, `ofs`
and `stored` are the counter, the software offset and the multi-event buffer of
each module (QDCs 0 to NQDC-1, then the TDC); an event in a buffer is the number
of the trigger it belongs to, 0 for a spurious gate.  `retcode` is what
`readEvent()` returns: 0, an error, or 0xff for one gate more; `marked` is the
error bit of the event's header.  The blocks of some QDCs may fail to come
(`Failing`): an event without any ends the run, asked or not (`NoBlocks`, line
566), an event without some is marked.  The reset goes module by module, and gates
arrive in between.  The index in `nevqdc[0]`, used for every QDC
(`myReadOutNoStopV2718.cpp:247-250`), is kept as it is.

**NoStopRun.**  `sem` is the semaphore, -1 when there is none; its constructor
is two steps.  `script` is where `stopSPS2024nos.sh` is: waiting in
`stopGracely` for the spill's end, about to raise the semaphore, about to look
whether the readout still runs, about to look again after its SIGINT.  `Kill`
is SIGKILL at any step, by that script or `hkillSPS2024nos.sh`; it leaves the
semaphore behind for the next run.

## What the runs check

| run | bounds | shows |
|---|---|---|
| `fifo_lock` | writer, reader, two samplers on two slots or on one; all but the reader killable, all may get SIGINT; samplers symmetric | while samplers have different slots and no wait was cut short: exclusion, re-entry without polling, refinement of `RoleLock`, and, if nobody was killed inside, a living process that will unlock |
| `fifo_lock_live` | writer, reader, one sampler, nobody killed or interrupted | somebody waiting implies somebody gets in; no deadlock |
| `fifo_ring` | ring of 5 words, events of 3 to 5 words, chunks of 3, 12 words written, two samplers for two slots, one short `fwrite` | exact emptiness and fullness, no overwriting, file = stream, samplers see whole events until they meet a split header, refinement of `BoundedStream` |
| `handshake` | 3 triggers, 2 spills | no trigger lost or mislabelled, segment outlives its user, every trigger answered, both programs end |
| `daq_run` | FIFOs of one event, files of 2, 3 physics events and 2 pedestals wanted at a ratio of 3/2, 2 spills, readout and one data writer interrupted | locks respected, limits, headers add up |
| `daq_run_live` | the same with 2 physics events wanted at a ratio of 5, so no pedestals, one spill, only the readout interrupted | an interrupted readout closes the run; data writers end |
| `daq_run_gap` | no SIGINT, no roll-over | **violated**: a file may miss its last spill |
| `daq_run_roll` | no SIGINT, files of one event | **violated**: header of a rolled-over file is short |
| `fifo_attach` | two writers, and two samplers for one slot, one of which may be killed anywhere while calls may fail for the other; all start and leave when they like, and may get SIGINT in the wait | a reader or writer is refused only by one who is in; while orderly: constructors one at a time, nobody initialises a FIFO in use, all users in one FIFO with one semaphore, flags true and roles exclusive until a refused one leaves, nothing left at the end unless one died |
| `fifo_attach_second` | a writer and three readers that may ask for a taken role; no signals, deaths or failures | **violated**: two readers at once, without overlap |
| `nostop` | two runs, two QDCs, counters modulo 3, 4 FERS triggers and a spurious gate in a run; QDC 1 may miss triggers, its block or both blocks may fail to come; the gate reaches everything, QDC 0 alone, or the TDC alone | a line without mark is one trigger; lines in step with FERS over resets; a run ends only when asked, or after an event without data, whose trigger has no line; the stop script ends it without SIGKILL |
| `nostop_fake` | a spurious gate that misses QDC 1 | **violated**: a fake event for a gate that not all modules saw |

The bounds are chosen for the cases: five words are enough for each of the
three layouts of the ring with a sampler before, between and behind the two
offsets, for events as long as the ring, for headers split at its end and for
headers that fit, and twelve words take the offsets round it more than twice.  Two
samplers for two slots are enough for a live sampler above `nsampler` and for a
slot shared by two.  Three lock roles interact pairwise, and a second sampler
adds the two things a second process of a role can do, share the role and share
the slot.  FIFOs of one event make every event meet a full FIFO, two spills give
one gap between spills in the middle of the run, and files of two events roll over
while the run goes on.  Three triggers in two spills include a trigger in a spill
that is not the first, and the stop at every place between two triggers.  Two
writers are enough for the first refusal, a refused one that leaves before the
other, one that comes while the other leaves, and two in the constructor at once;
one slot for two samplers makes the second a refusal, and the one that may be
killed can die in the constructor, with semaphore 0 up, while the others wait.
(`VIEW` identifies states that differ only in what nobody reads again, and in what
else went wrong after `Orderly` was lost, of which no property speaks: the comment
in `MCFifoAttach` lists it.)  A counter modulo 3 goes round at the fourth gate
since a reset, that is once in a run with four triggers that have no reset among
them and at every place with respect to a spurious gate; two runs are what it
takes for a killed run to leave its semaphore to another.

### Where the code and the checker disagree

`myFileChecker.cpp:144-150` calls a file OK when its header counts the events
inside.  Two runs end in files for which that is not so although nothing went
wrong: the data writer tests the presence of the readout after it has unlocked
the FIFO it found empty (`myDataWriter.cpp:193` and `209`), and a whole spill
fits in between; and `numevt` counts whole spills only, while a full FIFO is
emptied, and its file possibly rolled over, in the middle of one
(`myDataWriter.cpp:200`).  What does hold is that the headers of a run add up
to the events written (`HeadersCountRun`).

A run stopped before its first trigger may leave both programs of the handshake
waiting for each other: `askDaqToRun` is 1 only during one pass of `daqLogic`'s
loop, and `daqReadout` polls it (`daqReadout.cpp:78`).  `Terminates` therefore
speaks of runs with a trigger.

The destructor of an object that was refused marks its role MISSING all the
same (`myFIFO.cpp:203-208`), so that the next reader is admitted next to the
first, although the constructor says "A reader is already present"
(`myFIFO.cpp:121`): `fifo_attach_second`.

`readEvent()` compares `nevqdc[0]` for every QDC
(`myReadOutNoStopV2718.cpp:247-250`): `nostop_fake` shows the fake event, which
line 610 explains by a "spurious trigger to all elx", added for a gate that
QDC 1, and with it FERS, may not have had.

More came out while modelling and proving and is no run, because no line of the
repository says otherwise.  Where it is the reason for a condition of a property,
the condition is named:

* `nsampler` is counted down whichever sampler leaves (`myFIFO.cpp:212`) and is the
  slot of the next that comes (`188`), so that two live samplers may have one slot.
  Either then takes the other's lock for its own (`254-255`) and frees it (`387`):
  `SlotsApart`.  A sampler left above `nsampler` is no longer moved by the writer
  (`myFIFOWriter.cpp:41,80`): `i < nsampler` in the properties of samplers.
* Nothing looks at the result of a `semop`.  A wait for semaphore 1 that SIGINT cuts
  short leads two processes to the lock word at once, and a -1 too many makes a
  third wait: `~ cut`.  A wait for semaphore 0 cut short (`myFIFO.cpp:50`) leads
  two processes into the constructor: `"cut"`.
* The destructor removes the semaphores without holding semaphore 0
  (`myFIFO.cpp:215-226`).  A process that starts meanwhile may wait on a set that
  disappears, and go on without waiting, beside one that works with a new set; or
  find a data segment that is about to be removed: `"overlap"`.
* The writer puts the header of an event round the end of the ring like any other
  word, but `read()` looks for the size straight ahead (`myFIFOSampler.cpp:32,43`),
  beyond the ring when fewer than three words are left: `HeaderSplit`.  The sampler is
  out of step from there until the next spill.
* `lrint(maxevts/phypedratio)` may be 0 (`myReadOut.cpp:661-662`).  The first
  pedestal is taken before the veto is set, so that a run may have one pedestal above
  its limit: `PedShare`.
* An event whose QDC data are all missing ends the run without message
  (`myReadOutNoStopV2718.cpp:566`); its trigger stays in the latch and has no
  line, while FERS has counted it: `EndsOnlyIfAsked`.
* A sampler that is refused was never counted, and counts itself out all the same
  when it leaves (`myFIFO.cpp:209-212`): a third sampler is then given the slot of
  one that is in and overwrites its address of the FIFO segment (`167`), the first
  leaves without unmapping it (`211`), and who asks for the users of the segment
  (`215`) always finds one.  `NothingLeft` therefore speaks of the FIFO segment only when
  there were at most two samplers: `FewSamplers`.
* A reset lifts DAQ_VETO even if the run has been paused meanwhile
  (`myReadOutNoStopV2718.cpp:633`): triggers come in during the pause.
* A QDC other than QDC 0 that is one event ahead gives, from then on, the data of
  the trigger before, under counters that agree.  `OneTriggerPerLine` therefore
  speaks of QDC 0 and the TDC.
* `(i-readwords)*sizeof(uint32_t)` in `myFileChecker.cpp:129` is negative when an
  event straddles a block; as a 64-bit seek it is large and positive.

### Fairness

* `FifoLock`: weak fairness of the steps inside a call (a process that is not
  waiting is scheduled), strong fairness of taking the semaphore (the kernel
  queues blocked `semop`s, and a poller comes back every 10 microseconds), weak
  fairness of the owner's `unlock()`, which every caller in the repository
  reaches.  Nobody has to call `waitlock()`.
* `DaqHandshake`: weak fairness of each program.  Triggers, spills and stops
  are up to the environment.
* `DaqRun`: weak fairness of each program's own steps, strong fairness of
  getting a lock that is free again and again: the poll period is 10
  microseconds, a spill gap or a data writer's pause 1 millisecond and more.
  Spills and signals are up to the environment.
* `NoStopRun`: weak fairness of the readout, of the script's steps and of the
  spill signal, which changes for as long as the accelerator runs; strong
  fairness of `stopGracely` seeing the end of a spill, which it samples every 10
  ms.  None for SIGKILL: the SIGINT has to do.  Triggers, spurious gates, pauses
  and the operator are up to the environment.
* `FifoAttach` has no liveness property: a process killed in the constructor
  leaves semaphore 0 up, and everybody who comes next waits until the operator
  runs `scripts/ipcclean`.

## What is proved

The theorems hold for every value of the constants.

* **FifoLockProofs** (any set of samplers and slots, any sets of processes that may
  be killed or interrupted; from `ProcsAssumption`: the three kinds of process are
  disjoint).  The invariant adds to the types that, while the lock is `Intact` (slots
  apart, no wait cut short), at most one process is in the semaphore region, and only
  when `sem` is 1; that a process at `take` sees the FIFO unlocked and an owner sees
  its own name in the lock word; and that a locked FIFO has a process that has not
  unlocked it (`WordOwner`).  It is needed because exclusion of owners says nothing of
  a process between its test and its assignment.  From it: `LockExcludes`,
  `OwnerReenters`, `LockRefines` step by step, and `LockNotOrphaned`: if the killed
  processes were outside when they died, the process of `WordOwner` is a living one.
* **FifoRingProofs** (any ring size, event length, chunk, number of samplers;
  from `RingAssumption`).  The invariant `OffsetInv` says that the write offset
  is the read offset advanced by the number of unread words, and that `space`
  is right when the offsets are equal; `UnreadIntact`, `FileIsStream` and
  `FileKeepsAll` complete it.  `TestsExact` and `DumpExact` say what the tests
  of `write()` and `dumpData()` compute, and everything rests on them.
* **DaqHandshakeProofs** (any number of triggers and spills).  The invariant
  relates the places of the two programs: what daqLogic does while the readout
  zeroes, when the counters differ by one, who may write `triggerMask`.
* **DaqRunProofs** (any capacity, file size, `maxevts`, `maxpedevts`, pedestal
  ratio and number of spills, any set of programs that may be interrupted; from
  `RunAssumption`: `maxevts` is positive, `maxpedevts` may be 0, the ratio is a
  quotient of naturals).  The invariant is the conjunction
  of: which FIFOs the readout holds at each place of `main()`, and which a data
  writer holds (`LockInv`), without which nothing ties the step that writes or
  dumps an event to the lock taken several steps before; that no FIFO gives out
  events it never got (`CountInv`); how many physics events there may be at each
  place of each of the three passes through the event block (`StageInv`); and
  that the pedestal veto is off only while one more pedestal is due, and before the
  first one (`PedInv`).  The two locks are atomic here; `FifoLockProofs` is what
  justifies that, for as long as no wait is cut short.

* **FifoSamplerProofs** (any ring, any finite set of samplers that come and go in any
  order; on top of `FifoRingProofs`).  The invariant is the types, `Events` (events
  follow one another in the stream without a gap) and `SamplerView` itself, which
  speaks of the slots below `nsampler`, shared or not, from the spill start that
  aligned them until they meet a split header.  `OvertakenExact` says that the
  three-layout test of `write()` moves exactly the samplers whose next word it is
  about to overwrite, and `MeetsEvent` that an aligned sampler finds the size of a
  whole event where it reads one, unless that header is split; `SamplersSee` and
  `SamplersNotTorn` follow.
* **DaqRunEndProofs** (on top of `DaqRunProofs`): `HeadersAddUp`.  `EndInv` says
  that the writer's flag is up exactly from attaching to deleting
  (`PresenceInv`), that nothing is written after the last count (`CountedInv`),
  that a data writer that was not interrupted ends only after the readout has
  deleted its FIFO and has then saved all (`WriterInv`), and that the headers so
  far add up to `nevtsaved` (`SumInv`).  The first three tie the data writer's
  last `getNevt()`, read without a lock, to the readout's last
  `myFIFOUpdateEvtNr()`.  The sum is a recursive function over the files;
  `SumExists` and `SumsAgree` prove it by induction, in the form of a least
  counterexample that does not exist (`LeastOf`), which needs no instance of an
  induction theorem.
* **FifoAttachProofs** (any processes, roles, slots, deaths, failures and signals).
  `AttachTypeCorrect` gives the types, and `RefusedByOneWhoIsIn` holds whatever
  happens, if only samplers die (the flag of a killed reader says PRESENT for ever):
  `PresentInv` says that behind every flag that says PRESENT, of any segment, there is
  a process of that role that was admitted and has not begun to leave.

  The others speak of what holds until `harm` is done.  `OneConstructor` rests on
  `SemInv`: while all is orderly, who is in the constructor waits on, or acts on, the
  set the key leads to, semaphore 0 is 1 while one is past the wait, and nobody
  constructs while somebody destroys; the last conjunct is what the code does not
  enforce and `"overlap"` remembers.  `AllInOneFifo` and `InitialisedAlone` need
  `SegInv` on top of it: at each place of constructor and destructor, which data
  segment the process knows and maps, whether that segment is initialised, and that
  nobody is about to remove it while somebody is inside.  Both hold with refused
  second users, failed calls and deaths.  `FlagsTrue` needs `RolesKept`: `RoleInv`
  says that a reader's or writer's slot is nobody else's, `FlagInv` that it reads
  PRESENT.

  What remains at the end: `SegmentRemoved` (data segment and semaphores, any number
  of samplers, refused second users and failed calls too) and `AllRemoved`
  (`NothingLeft`, the FIFO segment as well).  The property speaks of a state in which
  nobody is left, and the invariant has to say who will remove what while they are
  still there.  `HomeInv`: the segment that a process maps is the one the key leads
  to, and nobody is about to remove it; who has unmapped it knows the set of
  semaphores.  `HeldInv`: as long as a key leads to a segment or to a set, somebody is
  on the way to the place where it is removed, and a constructor that could run past
  the end of the array of samplers is not the only one (`Company`).  `FifoHeld` says
  the same of the FIFO segment, but this one is unmapped by the address in the slot,
  so that the slots come in: `AddressInv` says that each process finds its own address
  there.  That holds for reader and writer because nobody shares their slots
  (`RoleInv`), and for two samplers because the second is given the slot after that of
  the one that is in (`LastSlot`).
* **NoStopRunProofs** (any number of QDCs, counter width, triggers, gates and
  runs).  `NoStopTypeCorrect` has no assumption but those on the constants.
  `EndsAsked` from `AskInv`: from the end of the semaphore's constructor
  on, a raised semaphore or `abort_run` is a request made to this run; the one other
  way to the end is the event without data.
  `KeepsStep` from `AlignInv`, which relates, at each place of the loop, the
  counters read so far with `trignum`, the gates since the last reset and the
  FERS triggers; it assumes that QDC 0 and the TDC miss no trigger, the two
  modules that the code compares.  `LinesOfOneTrigger` makes the same assumption,
  and that a run has fewer spurious gates than a counter has values
  (`MaxNoise < W`): counters that are wrong by a multiple of the width agree.  The
  counters of V792 and V775N have 24 bits.  Spurious gates may be of any kind,
  foreseen or not.  `PairInv` says, of each of the two modules, that the gates it
  has counted since the last reset are the lines written since and the events it
  still has, that these are the trigger in the latch and spurious gates of this
  run, and that the trigger is the oldest of them if the counter was read and
  fits `trignum`; `AheadDiffers` (a counter that is ahead by some but not by a whole
  width differs from `trignum`) and `FitsAlone` (one that fits has that one event
  alone) are where the arithmetic is.  `FakeIfForeseen` assumes that no module
  misses a trigger, and shows `FakeOnlyIfAll` for as long as `clean` holds: the
  run `nostop_fake` needs a gate that `readEvent()` does not know.

Only model-checked: liveness (`Progress`, `Answered`, `Terminates`,
`InterruptCloses`, `WritersFinish`, `Stops`), which rests on fairness and so on
ENABLED, which the prover cannot do.  Every other property of a passing run is
stated by a theorem, for every value of the constants that meets the theorem's
assumptions; where a theorem assumes something of the constants (only samplers die,
no deaf module among those compared), the runs have the same values, and the
paragraphs above say what happens otherwise.  Where a property has a condition on the
state (`Intact`, `Orderly`, `RolesKept`, `synced`, `clean`), the behaviours in which it
fails are in the model and in the run; the property says nothing of what follows.

## Bounds and abstractions

* `MaxWords`, `MaxShort`, `MaxEvents`, `MaxSpills`, `MaxRuns` end behaviours; the proofs
  do not depend on their values.
* Offsets and counters are natural numbers: the FIFOs hold 2^28 and 2^25 words,
  offsets plus an event stay far below 2^32.
* An event is not longer than the FIFO (`RingAssumption`): the event buffer
  `mybuff` has 10^6 words.
* Events have at least the three words up to `evsiz` (`EventSize`): every event begins
  with an `EventHeader`.
* In `DaqRun` a lock is taken in one step and no wait is cut short (both are in
  `FifoLock`), a dump takes whole events, a short `fwrite` does not happen (both
  are in `FifoRing`), and a run starts with fresh FIFOs, which the scripts that
  start a run make sure of by their pauses.
* Each program of the handshake runs once, from no segment and no semaphore.
* In `FifoAttach` every process comes and goes once.
* In `NoStopReadout` a data block comes whole or not at all; header and trailer
  errors, the scalers, the pedestal veto and the run number are left out.  `MaxFers`,
  `MaxNoise` and `MaxRuns` end behaviours, and of these only `MaxNoise < W` matters
  to a proof.  `clean` is a history variable: `FersAligned` is only stated while every spurious gate was
  of the kind `readEvent()` knows (`Foreseen`): it reaches all modules and FERS,
  is the only one since the last event, comes before the first counter is read,
  and no counter goes round with it.  Others do put the file out of step.
* In `NoStopRun` nobody starts a run in the second between the stop script's
  SIGINT and its last look, and one readout runs at a time: both scripts test
  the list of processes, and the test and the start are not atomic.

Not modelled: the VME library (what the registers do is not in the repository),
the file checker and the offline tools (sequential conversions of files), the
GUI, the FSM prototype and the thread library that no DAQ program links, and the
monitoring clients beyond the FIFO calls they make.  The dated copies under
`codeBackup/` and the older readouts next to `myReadOut.cpp` are two thirds of
the repository's lines; they are earlier versions of programs modelled here in
their current form, and a module for them would say the same thing again.

## Plan

Done: the lock, the ring, the handshake and the run, then attaching, the readout
without stops and the sampler theorems; a theorem for every safety property that a
passing run checks.  Left, in this order:

1. Restart of one program of the handshake on a segment that survived.
2. The file checker and `realign.cpp` as operators on a file, against the file
   that `DaqRun` and `NoStopReadout` produce.
