# ddcutil in TLA+

ddcutil is a C library and a command that read and change monitor settings with
DDC/CI, over I2C (`src/src/`, about 98,000 lines).  This directory models the parts
of it where several threads, several processes, an unreliable monitor and timeouts
meet.  TLC checks the models on small instances; TLAPS proves the safety properties
of eight of the nine models that TLC checks for every value of their constants: any
number of threads, processes, displays, buses, tries and changes.  Paths below are
relative to `src/src/`.

## 1. The system

```
 client / command line
        |                                  callback threads <---+
   libmain/  C API, gate (quiesce)                              | events
        |                                                       |
   ddc/      detection, initial checks, VCP get/set, <---  dw/  watch thread
        |    multi part I/O, write/read with retries             recheck thread
        |              |
   i2c/      buses     +-- base/  per display data, dynamic sleep, packets
        |
   base/     display locks (threads) ---- flock (processes) ---- /dev/i2c-n
```

| component | state it keeps | operations | what is hard | what makes it correct |
|---|---|---|---|---|
| display locks, `base/display_lock.c` | a record per display: mutex, owner | lock (with or without waiting), unlock, unlock all of a thread | three kinds of mutex; the owner field is written after its mutex is released | one thread has a display at a time; an answer was true at a moment of the call; no self deadlock |
| cross process lock, `base/flock.c` | the kernel's file locks | poll for the lock, unlock | other processes, which die | one process uses a bus at a time |
| open and close, `ddc/ddc_packet_io.c`, `i2c/i2c_bus_core.c` | display lock, descriptor, file lock, two tables of open displays | open with tries, close, close all of a thread | each of three stages fails or times out; callbacks end with displays open; processes die | one usable handle per display; a failed open leaves nothing |
| write/read, `ddc/ddc_packet_io.c` | the loop's statuses | one exchange with retries | two limits, Null Responses with two meanings, a bus that dies | the status tells the truth; the loop ends |
| dynamic sleep, `base/dsa2.c`, `base/per_display_data.c` | a table per bus: step, step of the loop, history; the stats file | next step of a loop, record the result, reset, save, restore | asserted order of fields across operations and processes, integer division, boundary cases | slower after trouble, faster only when earned |
| API gate, `libmain/api_base.c` | two flags, a counter, two mutexes | call in, call out, quiesce, unquiesce | redetection during calls, calls that never return | no call starts in a redetection; the counter is exact; redetection ends |
| watching, `dw/dw_poll.c`, `dw_common.c`, `dw_dref.c` | known buses, display references, bus information | a pass: compare, stabilize, remove, add | monitors change between any two steps | every loss of a working display is reported, none falsely |
| recheck, `dw/dw_recheck.c` | a queue of references | retry, enable, drop | shares references with the watch thread, mostly without a lock | every entry leaves the queue; no event twice |
| events, `dw/dw_status_events.c` | - | one thread per event and callback | their order; what a callback leaves open | see open and close |
| start/stop of watching, `dw/dw_main.c` | thread handles, a stop flag, the queue variable | start, stop with and without waiting, redetect, end of the program | one flag and one queue variable for all pairs of threads, references freed by redetection | one pair of threads; none uses freed references; a stop that waits returns |
| detection, `ddc/ddc_displays.c`, `ddc_initial_checks.c`, `ddc_phantom_displays.c` | the published references, flags, display numbers | detect on demand, check each display (in threads), number, find phantoms, discard | threads that end in any order, tests repeated without dynamic sleep, displays that vanish in between | numbers follow the buses; the list is seen only when complete; one way of saying "unsupported"; a display lost in its checks has no number |
| multi part I/O, values, `ddc/ddc_multi_part_io.c`, `ddc/ddc_vcp.c` | an accumulator, an offset, counters of tries | read, write, set, read back | fragments lost, repeated or cut; errors for what arrived; a process killed in between | all or nothing; success means set |
| packets, `base/ddc_packets.c` | - | build a request, change its offset, interpret an answer | damaged, doubled and late bytes | what is understood is what was said |
| caches, USB, feature tables, sysfs, command line, reports | files, tables | - | little | data, not control |

`PROJECT.json` lists every component with its status and every hazard with the line
where it bites.

**Interaction.**  A client's call passes the gate, opens its display (display lock, then
descriptor, then file lock), runs exchanges, each of which reads the sleep step of the
display and updates it, and closes.  The watch thread polls; it creates and discards
references and starts a callback thread per event; a new reference whose DDC does not
work goes to the recheck thread at the end of the pass.  `ddca_redetect_displays` closes
the gate, stops watching, replaces the references and starts again.

## 2. The modules

| module | models | abstract specification / composition |
|---|---|---|
| `ExclusiveUse` | nothing in the code: what the display locks promise, a holder per display | implemented by `DisplayLock` |
| `DisplayLock` | `base/display_lock.c` | refinement mapping in `ImplementsExclusiveUse` |
| `DisplayLockProofs`, `ApiQuiesceProofs`, `WriteReadProofs`, `DisplayWatchProofs`, `OpenCloseProofs`, `WatchThreadsProofs`, `VcpAccessProofs`, `DetectionProofs` | - | theorems about the module each is named after, section 4; `WriteReadProofs` also has those about `Packets` |
| `ApiQuiesce` | the gate of `libmain/api_base.c`, its macros, `ddca_redetect_displays` | - |
| `Dsa2` | `base/dsa2.c` as operators on a results table | used by `WriteRead` |
| `WriteRead` | `ddc_write_read_with_retry` and the per loop fields of `base/per_display_data.c` | composes the loop with `Dsa2` |
| `DisplayWatch` | watch thread, recheck thread, the initial checks and lookups they call | composes the two threads with the environment |
| `OpenClose` | `ddc_open_display`, `ddc_close_display`, `i2c_open_bus`, `i2c_close_bus`, end of a callback thread | takes the display lock as one step, which `DisplayLock` justifies |
| `WatchThreads` | `dw/dw_main.c` with the life of the two threads and their queue | `DisplayWatch` looks inside one pair of its threads; takes the gate of `ApiQuiesce` as a flag |
| `VcpAccess` | `ddc/ddc_multi_part_io.c`, `ddc_write_only_with_retry`, `ddc/ddc_vcp.c` | takes an exchange as one step, with the statuses `WriteRead` returns |
| `Detection` | `ddc_ensure_displays_detected`, `ddc/ddc_initial_checks.c`, `ddc/ddc_phantom_displays.c` | as above |
| `Packets` | `base/ddc_packets.c`, byte for byte | what `DATA` and `NULL` stand for in `WriteRead` |
| `MCOpenClose`, `MCVcpAccess`, `MCDetection`, `MCPackets` | - | constants for TLC |

Operators whose name has a suffix (`SetOwner_forgotten`) and whose comment begins with
"Fault:" are no part of a specification.  Each is a plausible bug in the definition it is
named after; with it in place the property `PROJECT.json` names is violated.

### How state and actions correspond to the code

**DisplayLock.**  A step is one mutex operation with the unguarded code up to the next
one.  `lock_records`, `io_path` are the record table; `mutex[r]` is who has locked the
record's GMutex and `owner[r]` is `display_mutex_thread`, which `SetOwner` writes one
step after `Acquire`, as the code does.  `descriptors` and `master` are the two global
mutexes.  `held` and `answer` are history: what a thread was told.  The trylock loop
counts its sleeps up to `MaxTries`.  It sleeps after every failed try, the last included
(`LastTrylockFails`), and answers DDCRC_LOCKED only then (`LockFails`): by that time
the holder may have released.

**ApiQuiesce.**  `quiesce_api` keeps `active_calls_mutex` from its first look at the counter
to its return (`TestCalls`, `Poll`, `CloseGate`).  `FailPrecondition` is the precondition macro that
returns without counting out.  `ddca_redetect_active` is tested (`Redetect`) and set (`Claim`)
in two steps, since no mutex guards it.

**Dsa2, WriteRead.**  A results table is a record; the multipliers are left out and so are
reported totals.  One try of the loop is `Retry` (it goes on), `Finish` (it ends) or
`Abandon` (the bus is dead, and `goto bye` skips the recording).  What a try brings is the
monitor's choice among the statuses the loop tells apart.  `SetMultiplier` frees the table
in use, as the code does; since what an operation does with freed memory is undefined, the
model starts none after it.  `Restart` ends the process anywhere, also in the middle of a loop,
and begins the next: the table is the one that `dsa2_restore_persistent_stats` reads from the
file, or a new one when there is no file, a bad line in it or another monitor on the bus.

**DisplayWatch.**  `wpc` and `rpc` are the positions of the two threads; a pass is `StartPass`,
`Stable` after any number of `StillChanging`, then a step per bus removed and two per bus
added.  `businfo` is what the last check of a bus found, which may be stale.  `drefs` are
the references in order of creation with the flags and events that matter.  `Plug` and
`Unplug` happen between any two steps.

**OpenClose.**  A handle is its thread and bus.  `holder` is the display lock per process,
`fds` the open descriptors, `flock` the file locks, and the two tables are as in the code.
`EndCallback`, `CloseNext` and `UnlockAll` are the end of `dw_execute_callback_func`: the
loop counts up while each close shortens the list, and the last close frees it.  `Die` is
what the kernel does with a process that ended: `Crash` may happen at any time, for any
reason, a failed assertion on `close()` included.

**WatchThreads.**  Threads come in pairs, in the order they were started.  `watch_thread` is the
pair that `dw_main.c` has on record, `terminate_watch_thread` the flag all pairs read,
`recheck_queue` the pair whose recheck thread made the queue (`InitQueue`); the queues of the
pairs before are leaked, and stay in `queues`.  `wpc` and `rpc` are where the two threads of a
pair are.  `StopAndWait`, `JoinWatch` and `JoinRecheck` are a stop that waits, with
`watch_thread_mutex` locked until the last; `StopOnly` is one that does not.  A redetection is
`Quiesce`, `GetActive`, the stop, `Discard`, `Detect`, `Restart` and `Unquiesce`; if a client
stops watching between `GetActive` and the stop, the assertion on its status ends the
program (`aborted`).  References are their generation: `Discard` frees one, `Detect` makes
the next.

**VcpAccess.**  `pc` is "read" or "write" within a call and `ofs`, `accumulator`, `tries` and
`packet_tries` are the variables of the two loops.  A fragment that arrives is
`ReadFragmentArrives`, an old one `StaleFragmentArrives`, none `ReadExchangeFails`; a packet is
`WriteSucceeds`, `WriteFails` (with or without effect on the monitor) or `WriteBusy`, which
trips the assertion of `ddc_write_only_with_retry` unless it is the first try.  The monitor
keeps what it was sent by offset in `buffer` and takes the table as its own when the empty
fragment comes; or ignores it, which `refused` remembers.

**Detection.**  A display is the index of its bus, and `socket` what that bus is connected to.
`caller` is where each thread that needs the list is; from `StartDetection` to `EndDetection`
`check[d]` is the step of the initial checks of display d: supported (`x10`), the features that
should not exist (`xdd`, `x41`, `x00`), the version query (`xdf`), done.  `again` is set while
a test is repeated without dynamic sleep.  Any exchange may find that the display is gone or
silent; `Left` is the flags that `ddc_get_nontable_vcp_value` then leaves, and its connector
may be reported disconnected from then on (`PulledOut`).  `CheckDisplay`
is a step of any display when they are checked by threads, else of the first that is not
done (`ItsTurn`).  Numbers and phantoms are given in `EndDetection`, after all were joined.

**Packets.**  A request is a record, `packet` its bytes.  `Understood` is how a monitor reads the
bytes, written from the layout the code builds and not by calling the builders backwards; an
answer is what the monitor says (`AnswerBytes`), sometimes to an earlier request
(`AnswerStale`), sometimes with one byte damaged (`DamageByte`) or the first one doubled.
`Interpret` is `create_ddc_typed_response_packet` with the functions above and below it.  The
exclusive or of `ddc_checksum` is taken bit by bit (`XorAll`): a bit of it tells whether that
bit is set in an odd number of the bytes, and is named by its weight, 1 to 128.

## 3. The runs

| run | instance | distinct states | what it shows |
|---|---|---|---|
| `display_lock` | 2 threads, 2 displays, 2 tries | 90,000 | exclusive use is implemented in every interleaving; unlocks are defined; calls return |
| `api_quiesce` | 2 clients, 1 redetector, 3 polls, 1 lost call | 680 | the count is exact, the gate is closed exactly during redetection, redetection ends |
| `write_read` | 3 steps, 5 tries, history of 2 | 265,000 | true results, resets, slow down and speed up as intended, also after a restart |
| `display_watch` | 2 buses, 2 changes, 1 recheck interval | 388,000 | losses are reported, no false ones, no event twice, passes and rechecks end |
| `open_close` | 2 threads and 1 in another process, 2 displays, 2 tries | 313,000 | one usable handle, nothing left behind, every open returns |
| `watch_threads` | 1 client, 1 redetection, 2 pairs of threads | 491,000 | one pair, no stale use, entries reach a living queue, stops return |
| `vcp_access` | tables of up to 5 bytes, fragments of 2, 2 tries at each of 3 levels | 544,000 | reads and writes are whole or an error, verified means set, calls end |
| `detection` | 3 buses, 7 layouts, 2 callers | 248,000 | numbers, phantoms and flags come out right in any order of the checks, also of displays lost in them; callers get the list |
| `packets` | every kind of request, 13 kinds of damage, doubled and late answers | 579,000 | nothing is misunderstood in either direction |

Three more runs (`missed_display`, `stop_undone`, `table_offset`) each expect one property to
be violated.  The property is a sentence of the repository's documentation, a comment or an
assertion; section 6 gives them, and others that have a configuration but no run.

A name that joins two properties states them together: `LoopState` is `StepOrder` and
`LoopStateReset`, `NobodyIsLeftWaiting` is `RedetectionEnds` and `CallsAreAnswered`, `LoopsEnd` is
`PassEnds` and `RecheckEnds`, `FlagsFitTogether` is `OneMethod` and `LostIsNotNumbered`,
`SetTellsTheTruth` is `SuccessMeansSet` and `VerifiedTable`.  Each
module has a type invariant, `TypeOK`; TLC checked it on the instances above, by adding it to
the configuration, and the runs are kept for what could be wrong with the code.

### The bounds, and why they are enough

- *Threads and displays.*  The lock records interact only through a thread that uses two of
  them and through the two global mutexes; two threads and two displays have a thread
  holding one lock while it waits for, gives up on, or scans the other's.  The proofs cover
  any number.
- *Tries and polls* are the clock limits divided by the interval.  What a loop does in its
  middle iterations is all the same, so first, middle and last are enough (`MaxTries` 2 in
  `DisplayLock`; 1, that is two tries, in `OpenClose`, where each try also goes through all
  stages).  In `WriteRead` five tries keep the limit on Null Responses (3) and the one on
  tries apart, and leave enough tries over three steps for the division to hit its
  boundary cases.
- *Dsa2.*  Three steps have an initial one with a faster and a slower neighbour.  The
  history is 2 deep, the code's 10, so both "too few entries" and a full window occur.
  The constants that compare averages keep the code's values.
- *Monitors.*  Two changes on two buses have a monitor that goes during a pass, that comes
  back while the set stabilizes, and a change on either bus.  With three changes the safety
  properties were checked as well (2.3 million states); the liveness ones take too long there.
  `MaxAge` 1 lets a queue entry be tried, requeued and expire.
- *OpenClose.*  One process has two threads, so that both kinds of exclusion count; one of
  these opens twice, so that it can end with no, one or two displays left open.  A file lock
  is held across processes by the third.
- *WatchThreads.*  Two pairs are the least that can exist side by side; one redetection has
  references freed while a client starts and stops.  One client, the redetecting thread
  and the end of the program make three who contend for the threads.
- *VcpAccess.*  Fragments of 2 bytes and a table of 5 have a first, a middle and a cut last
  fragment; two tables differ in the middle one only, so that a part of one in the other
  shows; nothing is longer than `MaxLength`, and the buffer of the monitor may begin with any
  of the bytes.  A byte of an offset has 6 values in place of 256: all offsets fit in one
  byte, as they do in practice.  `VcpAccessOffset.cfg` gives it 3, and the last fragment needs two bytes.
  Two tries at each level have a retry of a packet within a retry of the write.
- *Detection.*  `MCDetection` lists the layouts: no display, one, a phantom found by an MST hub,
  one by its connector, both, a phantom and a disabled display in the middle, two displays
  with one EDID.  The display that is alone may give every answer there is, the others
  the few that tell their numbers apart; for all of them the first check and the version
  query end in any way.  With the threshold at 2 both ways of checking occur.  USB monitors, the
  displays cache and displays that sleep are left out.
- *Packets.*  A behaviour is one request and one answer, for nothing is kept between two.
  Damage is a byte combined with one of 13 values: every single bit, all bits, and what turns
  the length byte of an answer into the 0x6e that is taken for a doubled first byte.  The
  length of a table fragment is excepted in `NothingMisread`: the checksum is taken over as
  many bytes as that length says, so that a damaged length can find a valid checksum.
  Table writes are at offsets of one byte, for the reason in section 6.  The theorems need
  no other of these bounds: they have any features, fragments of up to 32 bytes and any
  damage to one byte.
- *Restart.*  The newest values of the history stand for the 100 the file holds.  The step floor
  is the same for every process.
- *API.*  One lost call tells the counter apart from the calls inside; two clients can be
  on both sides of the gate at once.

### Fairness

Nobody is ever obliged to call the API, plug a monitor, die or end a callback.  Assumed is:

- a thread that runs keeps running (weak fairness of its steps), the scheduler's promise.
  In `OpenClose` the display lock and the file lock are polled, so a waiting thread is
  enabled: it fails and counts;
- `DisplayLock` and `ApiQuiesce`: a thread that waits for a GMutex which is released again and
  again gets it (strong fairness of the locking steps).  glib's mutexes are the futex ones of
  Linux; they are not queues, but starvation for ever is not a behaviour they have in
  practice.  Nothing is assumed of the body of an API call: it may never return;
- `WriteRead`: a try ends.  The I2C system calls time out in the kernel driver;
- `DisplayWatch`: each of the two threads goes on.  That `PassEnds` holds needs no promise from
  the monitors beyond the bound on changes: a set that changes for ever keeps the pass going
  for ever, with `process_event_mutex` locked;
- `WatchThreads`: the threads of each pair, the joins of a stop and the steps of a redetection
  go on; a client need neither start nor stop;
- `VcpAccess`: an exchange ends (`Transfer`), in whatever way.  The process may be killed;
- `Detection`: the checks and the callers go on, and a caller that waits for
  `all_display_refs_mutex` gets it (strong fairness, as for the other mutexes).  Cables need
  not be moved, nor references discarded.

`Packets` states no fairness: it has only safety properties.

Deadlock is checked except where a thread may really stop: `DisplayWatch` (watching is
stopped, or the process aborts), `OpenClose` (callbacks end, processes die), `WatchThreads` (the
program ends or aborts) and `Packets` (a behaviour is one exchange).

## 4. What is proved

Each theorem is about the specification TLC runs, for every value of the constants that the
assumption of the module allows.  `PROJECT.json` lists the results with the property each
one states.  A proof has the same three parts everywhere: an inductive invariant, whose
conjuncts are named; that each action keeps it, one lemma or case per action; and what
follows from it.  Where many actions do the same sort of thing, a lemma says once what such
a step may do, and each action is shown to be one.  TLC checked every inductive invariant on
an instance before it was proved.

**DisplayLock.**  Proved, for any sets of threads, displays and records and any limit of
tries:

- `TypeCorrect`, `ExclusionHolds`, `LocksMatchAnswersHolds`, `UnlockIsDefinedHolds`,
  `NoSelfDeadlockHolds`: the type invariant and those run `display_lock` checks, and
  `OneRecordPerDisplayHolds`, that a display never has two mutexes;
- `Refinement`: `DisplayLock` implements `ExclusiveUse`, so that a caller need know nothing of
  records, the late owner field or the three mutexes.

`Exclusion` is not inductive: that two threads do not both hold a display
follows only from what each knows of the record it works on.  `IInv` adds

- who is in the critical sections of the two global mutexes (`CriticalSections`);
- that a thread past the lookup has a record of the table, for its display (`RecordFound`,
  `OnlyRecordsLocked`), and that there is only one such (`OneRecordPerDisplay`);
- the heart of it, that **the owner field is never wrong, only late**: an owner has the mutex
  (`OwnerHasMutex`), and a locked mutex has its owner recorded but for one thread between
  two known steps (`MutexHasOwner`);
- what each step knows (`AtStep`), and that a thread was granted exactly what it has locked,
  except inside a call (`HeldIsLocked`, `GivenUp`, `LockedIsHeld`).

The refinement maps the holder of a display to the thread that has locked the mutex of its
record; `StepRefines` shows each action to be a lock, an unlock, a refusal, an answer or a
stutter of `ExclusiveUse`.  Every answer is thereby true at a moment between call and return.
For a grant and an unlock that moment is the return; DDCRC_LOCKED was true when the last
try failed (`Refuse`), and the display may be free again when the caller reads it.

**ApiQuiesce.**  `CallsAreCounted` is proved of every program: `active_calls` is the calls in
progress and those lost in a failed precondition, as sets whose sizes add up.  What the gate
promises is proved under the hypothesis `[]AtMostOneRedetection`: `DrainedBeforeRedetection` and
`NoCallStarts`.  The code does not see to it, since `ddca_redetect_active` is tested
and set without a mutex, and run `ApiQuiesceTwice` of section 6 shows what becomes of it.
`OneRedetectorSuffices` discharges the hypothesis for every program in which one thread
redetects.  The invariant ties the closed gate to the one thread inside a redetection, and
each of the two mutexes to the steps at which it is held.

**OpenClose.**  `DisplaysAreExclusive`, `FailedOpensBackOut`, `DescriptorsAreCovered`.  The
invariant is a table: which of display lock, descriptor and file lock a thread has of a
display at each step of opening and closing it.  `OneOpenHandle` then follows across
processes from there being one holder of a file lock.  A process that dies empties
its rows of the table, and so keeps it right.  `CleanupIsNeverWhole` says what becomes of
what a callback left open: a thread that ended has given everything back if it left nothing
open, and else still has the descriptor and file lock of a display without its display
lock.  It needs that a thread's list has all handles it has open (`Listed`) and that the
loop never ends with an empty list after it closed something (`LoopLeft`).

**WatchThreads.**  `OnePairRuns`, `ReferencesAreLive`, `QueuedReferencesAreLive`.  The invariant
says where the recorded pair can be while a stop waits for it (`StopHoldsMutex`), that the
queue variable names the queue of the pair that runs as long as every stop waits
(`OneQueue`), that no client starts threads within a redetection that did not give up
(`Shut`), and that whatever a running thread can reach is then of the present generation
(`Fresh`): its own pass, the entry in its hand, and every entry of its queue.

**WriteRead and Dsa2.**  `LoopStateHolds`, `StatusTellsTheTruth`, `TroubleIsHeeded`,
`SpeedUpsAreEarned`, `SlowestStepIsTried`.  Two lemmas on the operators of `Dsa2` carry them:
`NextRetryStepBounds` (never back, never past the end, all steps left on the last try) and
`RecordFinalLearns` (what recording a result does to any table).  The invariant says that a
loop goes on only over statuses that are retried (`LoopGoesOn`), that the per loop state is
as the last recording left it until a try fails (`ResetUntilFailure`), with the one way out,
`goto bye` on a dead bus, named; and that the last try is at the slowest step
(`SlowestStepLast`).  `TroubleIsHeeded` excepts the operations whose Null Responses meant
"unsupported": these should not slow down, and do (section 6).

**VcpAccess.**  `ReadsAreWhole` needs no hypothesis: every answer the monitor can repeat is a
true piece of what it reports (`AnswerIsTrue`), so the accumulator is always the beginning of
that (`ReadSoFar`), and the empty fragment comes at its end only.  `SetsTellTheTruth` and
`TablesAreSetWhole` assume `ShortTables`, that each offset of a table that is set fits in one
byte: beyond that they are false, as run `table_offset` shows.  Then what the
monitor has got so far is the beginning of the value (`WrittenSoFar`), also when packets are
sent twice.  `VerificationHolds` needs no such hypothesis: also a table that was set
wrong is read back right, and verification says so.

**Detection.**  `NumbersGoUp`, `ListsAreComplete`, `FlagsFit`, which is
`OneMethodFound` and `LostDisplaysAreNotNumbered`.
The invariant speaks of one display at a time: which flags it can have at the point its own
checks are at (`ChecksSound`), losing some of them at any exchange (`LeftKeeps`).  A display
with which DDC works is always one that is there (`Coherent`), and a phantom only ever stands
for such a display (`ActualDisplaysWork`).  Therefore the order in which the checks of different displays end does
not matter, and no number of displays is too many.  Display numbers are ranks
in a set of buses; the lemmas on ranks show that they keep the order of buses and
never exceed the size of the set.  `GapsAreExplained` confines the gap of section 6: ranks
in a set are all the numbers from 1 to its size (`RanksFill`), so there is none unless every
display of the list had got a number and one was then found to be a phantom.

**Packets.**  `RequestUnderstoodHolds`, `AnswerUnderstoodHolds`, `NothingMisreadHolds`, for any
features, values, fragments and offsets, any fill and any damage to one byte.  The first one
assumes that tables are written at offsets of one byte; `RequestUnderstoodIfOffsetFits`
says for every other request that it needs no such thing.  The inductive invariant `PacketsInv`
has three parts:

- `RequestInv`: the packet is the one of the request with its present offset, although only
  two bytes and the checksum of it were changed (`PatchedPacket`, on where the offset lies);
- `AnswerInv`: the buffer is the frame of the answer, whole or with a doubled first byte,
  with at most one byte another than it was;
- `ToldInv`: what the caller was told is `TypedResponse` of such a buffer.

The argument starts from two facts: bytes and their checksum have exclusive or 0
(`SealedIsZero`), and two sequences that differ in one byte have different ones
(`OneByteDiffers`).  So a damaged byte of the data, or of the checksum, is noticed
(`WrongChecksum`).  A damaged length may go with a valid checksum, but then the data are
still the monitor's as far as they go (`WrongCount`), and a value has a fixed length; an answer
without data cannot pass for one, for its first byte would be its checksum, 0xbe.  A length
damaged into 0x6e, which looks like a doubled first byte, leaves a length above the maximum
or data of no known type (`OnceDamaged`), and so does damage to one of two first bytes, or the
first byte is no 0x6e (`TwiceDamaged`).  A late answer is one of the wrong type or feature, or a
fragment with its own offset.

**DisplayWatch.**  `GoneDisplaysAreReported`, `PresentIsNotReportedGone`, `EventsMakeSense`,
`RemovedIsFinal`.  The two threads write to the same references, mostly without a lock; what
keeps them apart is that the watch thread looks only for references with a display number,
and one that waits for the recheck thread has none.  So `IInv` says

- that a reference is at one place on its way to the recheck thread, on its queue or in
  its hands, and there once (`AtOnePlace`);
- which flags and events it has there (`RefsByPlace`): five sequences of events are possible
  in all (`Histories`), and one that waits has only been announced;
- that a reference of a display that worked is removed only with an event for it or for
  a later one of its bus (`RemovedWithEvent`, since the lookup discards older ones silently);
- how far a pass has come: what it removes was known and is not in the present reading
  (`PassAt`), and what it has removed leaves no such reference behind (`RemovedSoFar`).

`RefsGrow` sums up what any step does to references: none is lost, and no mark and no report
is taken back.  That dw_recheck_dref clears every flag is harmless for that one reason, that
a waiting reference has no mark yet.

## 5. What is only model-checked

- *Liveness*: `CallsReturn`, `NobodyIsLeftWaiting`, `OperationsReturn`, `LoopsEnd`, `OpenReturns`,
  `StopReturns`, `CallsEnd`, `CallersGetList`.  The proof system has no rules for fairness, nor
  for ENABLED (`OutstandingCallsCanComplete`).
- What a recursive function computes: `TotalTries` of `Dsa2` sums the recent tries with one, and
  a proof about the sum would need induction the provers cannot instantiate.  The theorems
  hold whatever it returns.  `CountOf` of `WriteRead` is the size of a set, about which the
  library has theorems.  No module declares a recursive operator.

Every invariant and every action property of the passing runs is a theorem, those whose
hypotheses are named above under these.

The properties of section 6 that the code does not have are refuted by TLC; where a theorem
would need one of them, it is a hypothesis and named above, and of `NoGap` a theorem says in
which one case it fails.

## 6. Where the code disagrees

A property that the repository states and the code does not have is a definition of its own,
under "Contradicted by the code" in its module.  Three have a run:

| run | what the repository says | what the code does |
|---|---|---|
| `missed_display` | a reference is created for each bus added | the buses added during stabilization go to a variable that shadows the one used (`dw/dw_poll.c`) |
| `stop_undone` | `dw_stop_watch_displays` "halts threads that watch for changes" | the next start clears the flag before the threads have looked at it (`dw/dw_main.c`) |
| `table_offset` | the offset has two bytes | the high one is made with `>> 16`: from 256 on a fragment goes to the start of the table (`base/ddc_packets.c:447`) |

Nine more have a configuration: `tlc -config X.cfg M` ends with the property violated.

| configuration, module | property | what the repository says | what the code does |
|---|---|---|---|
| `ApiQuiesceOutstanding`, `ApiQuiesce` | `OutstandingCallsCanComplete` | `quiesce_api` waits for outstanding calls to complete | it waits with the mutex locked that they need to complete (`libmain/api_base.c:260`, 273 and 239) |
| `ApiQuiesceTwice`, `ApiQuiesce` | `AtMostOneRedetection` | redetection blocks if already executing (CHANGELOG) | test and set of the flag are unguarded; two run at once (`libmain/api_displays.c:432`) |
| `WriteReadMultiplier`, `WriteRead` | `MultiplierTakesEffect` | a multiplier set takes precedence (`ddcutil_c_api.h`) | it goes to a new table, while the display keeps a pointer to the freed one (`base/per_display_data.c:799`) |
| `WriteReadUnsupported`, `WriteRead` | `UnsupportedDoesNotSlowDown` | DDCRC_ALL_RESPONSES_NULL "may mean unsupported" and is no reason to slow down (`base/dsa2.c:964`); "don't pollute the stats with try counts that don't reflect real errors" (`ddc/ddc_packet_io.c:978`) | the final status is recorded while it still is DDCRC_NULL_RESPONSE (`ddc/ddc_packet_io.c:981`), before it becomes that one or DDCRC_DETERMINED_UNSUPPORTED: a display is slowed down for each feature it does not have |
| `DisplayWatchTwo`, `DisplayWatch` | `OneLiveDref` | at most one reference not removed (`base/displays.c`) | the lookup ignores references whose DDC never worked, and a recheck brings one back (`dw/dw_dref.c:187`) |
| `DisplayWatchEnabled`, `DisplayWatch` | `EnabledMeansWorking` | DDC_ENABLED when DDC is working (CHANGELOG) | no error is taken for success, also when nothing was asked (`dw/dw_recheck.c:186`) |
| `DisplayWatchAssert`, `DisplayWatch` | `NoAssertFails` | `assert(dref->flags & DREF_REMOVED)` (`dw/dw_dref.c:145`) | the flag is not set when opening finds the connector disconnected |
| `VcpAccessVerified`, `MCVcpAccess` | `VerifiedValueReturned` | with verification, the value read back is returned (`ddcutil_c_api.h`) | only tables are: values that are not go by `ddc_set_verified_vcp_value_with_retry` (`ddc/ddc_vcp.c:860`) to a function that never does |
| `DetectionGap`, `MCDetection` | `NoGap` | numbers are given anew "in case a display other than the last was marked phantom" | the filter says so only by the displays that were invalid before it ran: a number found to be a phantom's leaves a gap (`ddc/ddc_phantom_displays.c:247`, `ddc/ddc_displays.c:575`) |

More that is in the models, with no property of its own:

- `OpenClose`, `CloseNext`: `ddc_close_all_displays_for_current_thread`, called at the end of every
  callback "in case client left some open", reads a NULL pointer after it closes the last
  handle (one left open: the program crashes) and skips every second handle (two left
  open: the second stays open with its file lock, and its display lock is released).
  `CleanupIsNeverWhole` proves that it is so for any number of displays.
- `WriteRead`: a Null Response on the last try ends as RETRIES.
- `Dsa2`: `next_step = rtable->cur_step++` (`base/dsa2.c:813`) hands back the old step, so a raise
  wanted by the recent history has no effect.  The stats file keeps no trace of the step at
  which Null Responses were overcome, so a display may be sped up past it after a restart;
  a step is clamped to the last when it is read, a step in the saved history is not, and the
  assertion on it (`base/dsa2.c:802`) would then end the program.
- `VcpAccess`, `WriteBusy`: `assert(tryctr == 1)` on EBUSY fails after an earlier failure that was
  retried, in the middle of a write.  Verification compares the low byte (SL) of a value only.
- `WatchThreads`: `_ddca_terminate` frees the references before it stops the threads that use
  them; the assertions of `dw_redetect_displays` fail when a client stops watching in between;
  entries put before the recheck thread has made its queue are lost.
- `Detection`: the display a phantom is said to stand for can be a phantom itself.  A display
  lost in the version query keeps the way it said "unsupported" with DDC no longer working,
  and DDC counts as checked again (`ddc/ddc_initial_checks.c:599`); one lost at the first
  check is marked removed instead.

And of code that is not modelled, met while reading: a redetection restores the stats file
into new results tables (`dw/dw_main.c:396`) while each `Per_Display_Data` goes on with its old
one, so nothing learned after it is saved; `get_persistent_capabilities`
(`vcp/persistent_capabilities.c`) unlocks its mutex on a path that never locked it, and
returns a string that the hash table owns and another thread can replace;
`ddc_store_displays_cache` (`ddc/ddc_serialize.c`) compares the 1 that `fwrite` returns with the
length of the text, and so always reports an error; a capabilities string longer than the
2048 byte buffer, which does not grow, is not expected; `++dispno_max` (`dw/dw_recheck.c:190`) in
two threads without a lock can give two displays one number, and phantoms found later do
not lower it; polling compares sets of bus numbers only (`dw/dw_poll.c:101`), so that a monitor
replaced by another between two polls is not noticed; DDC_ENABLED waits for
`process_event_mutex` after the reference became valid (`dw/dw_recheck.c:192`).

## 7. Not modelled, and the plan

Done, most important first: exclusive use of a display, the API gate, the exchange and its
sleep, watching, opening and closing, start and stop of watching, reads and writes in
fragments, detection, packets, the stats file.  What is left, in this order:

1. Proofs that go further: that `OpenClose` may take the display lock as one step, from the
   refinement of `ExclusiveUse`; that `WatchThreads` may take the gate as a flag, from the
   theorems about `ApiQuiesce`.
2. The cache of capabilities (`vcp/persistent_capabilities.c`), with the mutex it unlocks
   without having locked it, and the cache of displays.
3. The hash of published references and their validation by id (`base/displays.c`), with
   their staleness.
4. The circular buffer of `base/dsa2.c` against the sequence `Dsa2` takes for it, the polling
   loop of `flock_lock_by_fd`, and the second copy of the results tables after a redetection.

Left out for good: feature tables, the parsing of capabilities, formatting and reports,
option parsing, sysfs and DRM reading (the environment of `DisplayWatch` and `Detection`), USB
monitors (no retries, no locks), statistics, tracing, and everything that was compiled out.
These are most of the lines of the repository and keep no state that two actors share.  The
flag that stops operations on one display while one on all displays runs
(`pdd_cross_display_operation_block`, a test and a sleep) guards statistics only.  Closing a
handle from another thread than the one that opened it is allowed by the API and not
modelled: `i2c_close_bus` then cannot release the display lock, and only logs that.  The order
in which callback threads run is the scheduler's, and nothing promises one.
