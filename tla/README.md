# VirtualMemoryManager: models, checks and proofs

VirtualMemoryManager is a user-mode demand-paging system in C on top of Windows
AWE pages. This directory holds TLA+ models of it, TLC configurations that check
them on small instances, and theorems about them that TLAPS proves for every
instance. All source paths below are relative to the repository.

## 1. The system

### Components, their state and operations

| component | source | state | operations |
|---|---|---|---|
| user threads | `components/threads/userThread.c` | locals: address, PTE copy, frame | store, `resolvePageFault`, end |
| trim thread | `components/threads/trimThread.c`, `pages.c` | batch of frames to evict | wait, `evictFrame`, signal |
| disk thread | `components/threads/diskThread.c`, `disk.c` | batch of slots and frames | wait, `swapToDisk`, signal |
| page table and PTE locks | `utilities.{c,h}` | a 64-bit PTE per page, a lock per region of PTEs | read and write under the lock |
| frames and lists | `utilities.c`, `pages.c` | `pfnArray`; free, active, modified, standby list, a lock each | add at head, add at tail, pop, remove |
| disk | `disk.c` | `totalDiskSpace`, `diskSlotBitmap`, search index | find and reserve, test, release a slot |
| transfer addresses | `utilities.c` | 512 addresses per thread, next index | acquire, flush |
| start and end | `initialize.c`, `vm.c` | events, thread handles, `numActiveUserThreads` | create, wait for the end, clean up, repeat |
| access pattern | `userThread.c`, `utilities.c` | last address | random or sequential address; its entry and lock |
| thread sweep | `vm.c` | thread count, run | arguments, privilege, one run after the other |

`threadsExamples.c` is a stand-alone example that the build leaves out;
`malloc_test` and `commit_at_fault_time_test` in `vm.c` are earlier exercises that
nothing calls.

### How they interact

The user threads, one trim thread and one disk thread share everything.

* *Calls.* A store to an unmapped page raises an exception whose handler is
  `resolvePageFault`. It runs in the user thread that faulted.
* *Shared state.* Frames travel from list to list: free -> active (mapped) ->
  trim's batch -> modified -> disk's batch -> standby -> a user thread -> active. A
  page in transition can be *rescued* from any of the last stages. Disk slots are
  reserved by the disk thread and released by whoever reads the page back or
  rescues the frame.
* *Events.* `trimEvent` (user -> trim) and `modWriteEvent` (trim -> disk) reset
  automatically; `finishedModWriteEvent` (disk -> users) and
  `shutdownProgramEvent` (last user -> all) are reset by hand or never.
* *Private state.* Each user thread fills frames through transfer addresses of its
  own, the disk thread writes batches through others. They stay mapped after use,
  so a frame may be reachable from threads that no longer have it.
* *Runs.* `main` makes one run, or a sweep of runs that must leave nothing behind.
* *Locks.* PTE locks come before list locks (`utilities.h:207-214`). No list lock
  is held while another lock is awaited.

### What is hard

Interleavings of three kinds of threads on one frame; a PTE lock dropped in the
middle of a fault; a slot that is free before it has been read; bit fields of one
word written under different locks or none; events set, reset and awaited in
separate calls; the end of the threads while requests are under way; disk index 0,
which makes a PTE equal to one that was never used; system calls that fail halfway
through a fault or a start-up; threads that end while others are being created.
`PROJECT.json` lists each with its line ("hazards").

### What makes each component correct

* frames and lists: a frame is in exactly one place; flags agree with lists
  (`FrameInOnePlace`);
* disk: a used slot has exactly one owner, a free slot none (`SlotHasOneOwner`);
  no ASSERT on slots fails (`NoAssertFails`);
* page table: PTE, frame and hardware mapping agree (`MappingAgrees`), and of two
  threads that fault on one page only one maps it (`MapOnlyUnmapped`);
* memory as the program sees it: a page holds what was stored there
  (`ContentsRight`, `ImplementsPagedMemory`);
* threads: they agree with what they hold (`ControlOK`), and the run ends
  (`ProgramEnds`);
* linked lists: the links are the sequence, whatever calls were made
  (`Represents`, `ImplementsFrameQueues`), and the program makes no other calls
  than the lists can bear (`UsesFrameQueues`);
* slot search: no free slot is passed over, none is taken twice
  (`NoFreeSlotMissed`, `SlotsReservedOnce`), and it ends (`SearchEnds`);
* transfer addresses: what a thread fills its frame with is there when the page is
  mapped (`FillReachesFrame`), and a batch is written from its own frames
  (`BatchReachesItsFrames`);
* access pattern: no store outside the address space (`StoresInBounds`);
* runs: threads are outlived, all that was acquired is released and nothing else, the
  sweep is complete (`ThreadsAreOutlived`, `NothingIsKept`, `OnlyHeldIsReleased`,
  `SweepIsComplete`).

## 2. The modules

| module | what it is |
|---|---|
| `FrameLists` | the list operations of `utilities.c`, on sequences |
| `VirtualMemory` | the system: all threads, tables, lists, slots, locks, events |
| `VirtualMemoryProperties` | types, invariants, action properties, refinements, liveness |
| `PagedMemory` | abstract specification: independent pages |
| `FrameQueues` | abstract specification: how the four lists are used |
| `DocumentedClaims` | what comments and assertions claim and the code breaks |
| `LinkedFrameLists`, `...Properties` | the lists in memory: links, heads, tails, lengths, flags |
| `DiskSlots`, `...Properties` | the slot bitmap and its search |
| `TransferAddresses`, `...Properties` | the addresses through which frames are filled and written |
| `AccessPattern`, `...Properties` | the addresses a thread goes to |
| `ProgramRuns`, `...Properties` | `main`, the sweep, start-up, threads, clean-up |
| `MC...` | constants and bounds for TLC, one for each group |
| `FrameListProofs` | what the list operations return, preserve and bound (TLAPS) |
| `VirtualMemoryProofs` | the system's types and control, and where each frame is (TLAPS) |
| `PagedMemoryProofs` | mappings, slots, contents, and the refinement of `PagedMemory` (TLAPS) |
| `LinkedFrameListProofs` | links, flags, lengths, walks, and the refinement of `FrameQueues` (TLAPS) |
| `DiskSlotsProofs` | the search, the reservations and the batch (TLAPS) |
| `TransferAddressProofs` | which frame is filled through which address (TLAPS) |
| `AccessPatternProofs` | the addresses a thread reaches (TLAPS) |
| `ProgramRunsProofs` | threads, resources and the sweep (TLAPS) |

Section 4 names the theorems of each.

### How the modules fit together

`VirtualMemory` is the centre. It takes four things for granted that modules of
their own examine, each with the interface at which the two meet:

* its lists are sequences; `LinkedFrameLists` has the links. Both are shown to
  implement `FrameQueues`: `UsesFrameQueues` says that the threads make only calls
  that `FrameQueues` has, `ImplementsFrameQueues` that the links then do what it
  says. Both are proved, so what holds of the sequences holds of the links. To
  unlink a frame that is in no list changes no queue, and would be a step that
  cannot be told from none; `FrameQueues` therefore remembers it (`astray`) and
  allows it only when the flags can no longer be trusted (`trusted`), which
  `VirtualMemory` says of a torn word and `LinkedFrameLists`, which has no other
  threads, always.
* the disk thread reserves a batch of slots in one step; `DiskSlots` searches the
  bitmap word by word while user threads release slots, and `BatchAsIfAtOnce` says
  that the batch is one that a single step could have taken (proved).
* a thread fills a frame and the disk thread reads one without further ado;
  `TransferAddresses` has the mappings they need for that (`FillReachesFrame`,
  `BatchReachesItsFrames`).
* a thread goes to any page; `AccessPattern` has the addresses, and shows that the
  entry and the lock of a fault are those of the page (`FaultFindsItsPage`).

`ProgramRuns` is around it: it has the runs, and of the threads only that they may
wait for each other and end. `VirtualMemory` starts where all threads are created.

### State of `VirtualMemory`

Variables have the names of the code: `pageTable`, `pfnArray`, `totalDiskSpace`,
`diskSlotBitmap`, the four lists, `pteLockTable`, `numActiveUserThreads`. `mapped`
is what `MapUserPhysicalPages` did last to each page, `ram` the words each frame
holds. The locals of a thread that live across a step are variables too
(`pteContents`, `currentFrame`; `evictFrames`; `diskSlots`, `swapFrames`). `pc`,
`trimPC` and `diskPC` say where each thread is. `memory` and `races` are history
variables; `halted` records that a `DebugBreak` ended the process.

A word of memory is the address last stored in it (the program stores each
address at itself); a page is a set of such words, empty when all zeros. A
PTE is three fields, valid bit, transition bit and number, and its format is
told from these bits only, as in the union of the code. `INVALID_DISK_SLOT` is
what 40 bits hold of it, so it is not equal to the 64-bit constant, and a
frame that carries it fails the ASSERT as it does in the code.

### Steps of `VirtualMemory`

One action is one critical section of a list lock, one interlocked operation, one
copy of a page, one call on an event, or one access to a frame outside every
lock. Why nothing finer is needed:

* *List locks.* Within such a critical section no other lock is awaited, and
  everything it changes (links, lengths, the frame's flags) is changed only under
  that lock, but for the frame word below.
* *PTE locks* are held over several steps and are explicit. A thread that waits
  for one is disabled, and so is trim while a fault that finds a valid PTE has the
  lock (`FaultOnValid`, `ReleaseValid`), although it changes nothing under it.
* *Reserving slots.* Only the disk thread reserves and a free slot stays free
  while it does, so the loop of `findFreeDiskSlot` calls is one step (checked by
  `BatchAsIfAtOnce`). Which slots it finds is left open.
* *Unused slots* go back in the same step as the frames are collected: no other
  thread knows them.
* *Mapping* (`MapPage`): the PTE and the frame's back pointer are read only under
  the PTE lock the thread holds, or through the active list, to which the frame is
  added last. A store by another thread between the mapping and that moment
  commutes with the rest.
* *The copy of a page* is one step. `swapFromDisk` is two, the release of the
  slot and the copy, because the disk thread can come between.
* *The frame word.* The flags and `diskIndex` are bit fields of one 64-bit word
  (`utilities.h:112-115`), so each assignment is a load and a store. Under the list
  locks two such pairs never meet on one frame: the frame is in one list and the
  lock of that list is held. The one assignment outside every lock, `disk.c:191`,
  is two actions, `ReadFrameWord` and `WriteFrameWord`.
* *removeFromFrameList on a frame that is not in the list* corrupts the links; the
  model stops there (`halted = "unlink"`) and promises nothing after it.
* *A failing system call.* With `TransferMapFails` the mapping of a transfer address
  in `swapFromDisk` may fail: the function returns and its caller goes on
  (`SwapFromDiskFails`). The other failures end in `DebugBreak` or `exit`, which
  stop the process.

Left out of it: validation and printing, and `GetPTELock` returning NULL, which
`AddressesInBounds` excludes.

### Windows, and how properties speak of them

The code has three windows that break it, and an error path that does (section 5).
`races` records that a behaviour has gone through one: `slotReused` (a slot was
written while a thread was about to read it), `wordTorn` (the unlocked store
changed a flag), `staleFrame` (a PTE was found valid or in transition after its
lock was taken again) and `unfilled` (a swap-in failed). The model goes on after
each. A property names the ones it needs closed and claims everything else of the
code as it is, and both the runs and the proofs take it at its word:

| property | claimed until |
|---|---|
| `TypeOK`, `ControlOK` | the process ends |
| `FrameInOnePlace`, `UsesFrameQueues` | a frame is unlinked from a list it is not in |
| `NoAssertFails` | a stale frame; the unlinking it excludes, a torn word |
| `SlotHasOneOwner`, `MappingAgrees`, `MapOnlyUnmapped` | a stale frame |
| `ContentsRight`, exactness in `PagedMemory` | any window but the torn word |

So a reused slot, a stale PTE or a failed swap-in never loses or doubles a frame, a
reused slot never harms slots or mappings, and a torn word by itself harms nothing
but the list it ends at.

### The other modules

* `LinkedFrameLists`: one action is one call of a list function, which runs under
  the list's lock; calls on different lists touch different frames, so they
  commute. Assignments through a pointer that may be NULL are `SetLink`. The free
  list is built frame by frame without tail and way back. `contents` is the history
  against which the links are judged; no action reads it but to choose which call
  is made. `RemoveAbsent` is the call for a frame that is in no list, after the
  frame word was torn; one for a frame in another list is not modelled, as
  `VirtualMemory` does not go on after it. `Walk` is the loop of `validateFrameList`
  and `listContains`.
* `DiskSlots`: one action reads a word, sets a bit or clears a bit. `stored` is
  what pages and frames keep; any of it may be released at any moment.
* `TransferAddresses`: the way of a frame from thread to thread without lists,
  pages and slots. One action is one call of `MapUserPhysicalPages`, which may fail
  in `swapFromDisk` (`MapTransferVAFails`), one fill, one page written, or one
  hand-over, that of a frame back to the standby list included (`PutBack`).
* `AccessPattern`: addresses and sizes are numbers, and the pointer arithmetic of
  the code is done on them (a pointer to words plus `PAGE_SIZE` is eight pages on).
* `ProgramRuns`: `main` and the threads. `numActiveUserThreads++` in `createThreads`
  is a load and a store; the decrement is under `threadCountLock`, which `main`
  does not take. Each call of the start-up whose result is checked may fail.
  `allocated` is what a run really has, `pointers`,
  `perThreadTransferVAs`, `handles` and `totalThreads` what the program knows of it:
  `CleanUp` releases by the latter, test by test. The three `CloseHandle` and
  `DeleteCriticalSection` groups of the events and locks, each under its own flag,
  are one piece each. `endedEarly` and `notCreated` record that a thread ended
  before `main` had counted all, or could not be created: after either a run may hang,
  and after the second it may free what its threads use. `ShutdownComesLast` and
  `ProgramReturns` make no claim after either, `ThreadsAreOutlived` none after the
  second; the other properties claim all runs.

## 3. The runs

In the runs of `MCVirtualMemory` the number of slots is the number of pages, as in
the code (`utilities.h:29`). There are more pages than frames in each, so frames
must be reused; the batch is 2.

| run of `MCVirtualMemory` | instance | shows | states |
|---|---|---|---|
| `TwoThreads` | 2 users, 2 pages, 1 frame, one lock per page, any number of accesses | all invariants, `UsesFrameQueues`, implements `PagedMemory` | 934,472 |
| `TwoFrames` | 2 users, 3 pages, 2 frames, 2 accesses each, lowest slots first, swap-ins may fail; continued after a window | what the windows spare: the invariants above, `MapOnlyUnmapped` | 235,274 |
| `Termination` | 2 users, 3 pages, 2 frames, 2 accesses each, lowest slots first, two lock regions, fairness | `ProgramEnds` | 488,488 |
| `SlotZero` | 1 user, 3 pages, 2 frames | violated: `UsedSlotHasAnOwner` | |
| `SlotReuse` | 2 users, 3 pages, 2 frames, one lock | violated: `CheckVa` | |
| `StaleFrame` | 2 users, 3 pages, 2 frames, one lock per page | violated: `SlotsAreInUse` | |
| `TornWord` | 2 users, 2 pages, 1 frame | violated: `RemovedFrameIsListed` | |

| other runs | instance | shows | states |
|---|---|---|---|
| `FrameLinks` | 4 frames, one absent removal per list, any number of runs | the links are the sequences; `ImplementsFrameQueues` | 3,261 |
| `SlotSearch` | 8 slots in words of 3, batches of 2, fairness | nothing missed, nothing taken twice, `BatchAsIfAtOnce`, `SearchEnds` | 880,785 |
| `Sweep` | up to 3 users, 11 kinds of arguments, every checked call may fail, fairness | order of the end, what is released, sweep, `ProgramReturns` | 1,154,632 |
| `TransferWindows` | 2 users, 3 frames, 2 addresses each | fills and batches reach their frames | 1,925,854 |
| `Addresses` | 24 pages of 16 words, 4 locks, 4 accesses | stores in bounds, entries and locks | 4,955 |

Bounds and why they are enough for what they are used for:

* *`MCVirtualMemory`, users 2.* Every hazard listed is between a user thread and the
  trim or disk thread, or between two user threads.
* *Frames 1 or 2, pages one more.* With one frame and two pages each access to the
  other page takes a frame through all its stations, and both lock arrangements
  occur (victim under the same lock, under another lock). Two frames add batches
  of two, a frame in flight next to another on a list, and reuse of the slot of
  one page by another.
* *`NoRace`* stops at a window in the runs whose properties promise nothing
  after it. *`TestIterations = None`* lets threads run on and end at any time;
  a number is used where the state space would otherwise be too large.
* *`LowestSlots`* makes the disk thread take the lowest free slots in order (in
  `TwoFrames` and `Termination`); the other runs leave the choice open.
* *`Termination`, `OwnAndShared`*: pages p1 and p2 are under one lock, p3 under its
  own. One thread goes to p1 and p3, the other to p2 and p3, so that a thread's
  victim is under its own lock in some faults and under another in others, both
  threads fault on one page, and each may be the other's victim. It takes the place
  of the symmetry of users and pages, which TLC cannot use for a liveness property.
  A constraint on what threads choose leaves all behaviours with these choices.
* *Symmetry* is over users and pages, which no property or bound tells apart in
  the runs that use it. Frames and slots are numbers and are not permuted.
* *`FrameLinks`, 4 frames*: a first, a last and a middle one on a list while another
  frame is elsewhere. Lengths are numbers modulo `LengthModulus`, here 8; one removal
  of an absent frame per list (`MaxAbsentRemovals`) takes an empty list's below zero.
* *`SlotSearch`*: a search can start, skip and wrap at the edge of a word and in its
  middle; eight slots fill two words and leave the third partly empty.
* *`TransferWindows`*: two addresses per thread bring the flush every second fill,
  at any moment of the others; three frames leave one stale mapping per thread
  and one frame in between, and make a batch of two with a third frame elsewhere.
* *`Addresses`*: a stride is a third of the address space, so that sequential steps
  pass over it and wrap after each random word; every random word occurs.
* *`Sweep`*: three users so that a thread ends while one runs and one is created;
  `ULONG64Modulus` is 8, so a count below zero wraps to 7. All argument kinds
  `main` tells apart occur, -1 included, which `_strtoui64` accepts and wraps.
* Deadlock is checked in every run: the only states without a further step are
  those in which all threads have ended, the process has been halted, or, in
  `ProgramRuns`, a run has been disturbed; these stutter explicitly (`Stopped`,
  `Ended`).

Some operators have a wrong variant next to them (`OffStandbyFlagKept`,
`FillStepNoWipe`, `ReleaseDiskSlotsNever`, ...). Each property is violated when the
wrong variant replaces the right one; `PROJECT.json` pairs them ("mutants").

### Fairness

`FairSpec` asks weak fairness of each user thread's next step, of the trim thread's and
of the disk thread's: the scheduler runs every thread that can run. For the PTE
locks that is not enough, and `EnterWithFrames` asks for more: of the threads that
wait for a PTE lock and have frames in their hands (trim with its batch, a user
thread with the frame it took off the standby list), again and again one gets its
lock. The code relies on it in two places, and the run fails without either:

* Trim has unmapped a page and waits for the lock of its PTE (`pages.c:82`). A thread
  that stores to the page faults, finds the PTE valid, releases the lock
  (`userThread.c:129`, `320`) and faults again, for as long as trim has not had it.
* A thread has taken a frame and waits to update the PTE of its victim, or for its own
  PTE again (`userThread.c:241`, `249`). Another repeats the fault on the victim, whose
  PTE still says "in transition", taking and dropping that lock each time.

Windows gives critical sections no order, so this is an assumption about the system,
not a fact of the code. It is one strong fairness condition for all these threads
together, because only one of them has to get on for the others to find frames again.
Weaker ones were tried and are not enough: of trim alone, or of all but the update of
the victim.

`ProgramEnds` is claimed of behaviours with `TestIterations` finite, at least as many
frames as user threads (two of each in the run), and none of whose swap-ins fails. The
second matters, and the code meets it (524,288 frames, at most 8 user threads): with
one frame and two users it is false even with locks that are fair to every thread,
since each takes the frame of the other before the other's store succeeds, for
ever; and slot 0, once forgotten, leaves one slot less than pages, so that the disk
thread may find none.

`DiskSlots`: weak fairness of the search's steps, that is, the disk thread runs.

`ProgramRuns`: weak fairness of `main`, of the service of waiting threads and of the
end of the trim and the disk thread. A user thread's way to its end needs strong
fairness: between its accesses it may wait for frames again and again, each time
disabling that step, but it makes a finite number of accesses
(`TEST_ITERATIONS`), so it cannot do so for ever; and a thread that wants
`threadCountLock` gets it, because each holder takes it once.

## 4. The proofs

Assumed of the constants of `VirtualMemory`: `ConstantsAssumption` (a finite nonempty
set of users, distinct natural numbers as frames, at least one slot, a positive batch,
`INVALID_DISK_SLOT` not a slot, `None` nothing else). Nothing is assumed of the numbers
of pages and regions. The other modules have assumptions of their own, given below.

* **`FrameListProofs`**: each operation keeps a list of frames a list of frames;
  `PopProperties`, `PopFirstProperties`, `AddToFrameListProperties`,
  `AddToFrameListTailProperties` and `RemoveFromFrameListProperties` say which
  frames are in the result and that no frame is linked twice if none was before.
* **`TypeCorrect`, `ControlCorrect`** (`VirtualMemoryProofs`):
  `Spec => []TypeOK` and `Spec => []ControlOK`. The inductive invariant is
  `TypeOK /\ ControlOK`. The types alone are not inductive: to map a page a thread
  must have a frame, which is what `UsersControlled` says; to pop slot 1 for frame 1
  the two batches must be as long as each other, which is what `DiskControlled`
  says; the count stays a natural number because it counts threads
  (`CountControlled`). There is one lemma per action and one step in it per part
  of the invariant the action can disturb.
* **`OneFrameOnePlace`** (`VirtualMemoryProofs`): `Spec => []FrameInOnePlace`. A
  frame is never lost and never in two hands, and its flags tell where it is, for
  any number of threads, frames and pages. The proof works with `Apart`, the
  pairwise statement of "in exactly one place", which is inductive together with the
  absence of duplicates, `TypeOK` and `ControlOK` until a frame is unlinked from a
  list it is not in (`OwnedUntilUnlink`). The flags are needed because a rescue
  trusts them: it removes the frame from the list whose flag is set. A torn word
  may bring back the flag of the modified list, and no other; the invariant lets it,
  and shows that it does harm only at that unlinking, where the promise ends.
  `BatchApart` says why no other: a frame of the disk thread's batch has not come by
  way of the standby list, so the word written back has neither that flag nor the mark.
* **`ListsAreQueues`** (`VirtualMemoryProofs`): `Spec => UsesFrameQueues`, by the same
  invariant. It has two points. `HeldIsLoose`: a frame in a hand, in the trim's batch or
  marked in the disk thread's batch is in no list, so it may be added to one. And
  a rescue that goes by a flag finds its frame in the list unless a word was torn
  before, so the step that unlinks an absent frame is one that `FrameQueues` allows
  at that time only.
* **`MappingsAgree`, `MapsOnlyUnmapped`, `OneSlotOneOwner`, `AssertsHold`,
  `PagesKeepContents`** (`PagedMemoryProofs`): `Spec => []MappingAgrees`,
  `Spec => MapOnlyUnmapped`, `Spec => []SlotHasOneOwner`, `Spec => []NoAssertFails` and
  `Spec => []ContentsRight`. The invariant (`MemoryInvariant`) adds three layers to
  the ownership of frames, each inductive given those below it:
    * `PagesRight`: for each frame and each page what PTE, frame and hardware say of
      each other, by where the frame is; and for each thread what its copy of the
      PTE still tells it about, given the lock it holds. It holds until a frame is
      stale, which is exactly when a thread acts on a copy that no lock protects.
    * `SlotsRight`: who owns each slot: a page on disk, a frame with a copy, a place
      in the disk thread's batch, or a thread on its way from one to the other. A
      slot is released by the step that ends its ownership, so no `ASSERT` fails.
    * `ContentsKnown`: what each frame in use, each frame with a copy and each
      owned slot holds, compared with the history `memory`. A frame in a hand holds
      anything, and becomes known when it is wiped or read in.
* **`RefinesPagedMemory`** (`PagedMemoryProofs`): `Spec => ImplementsPagedMemory`. With
  the invariant, `StepsOfMemory` shows of each action which step of `PagedMemory` it is,
  or that it changes nothing the program can read: a store is a store, the step that
  gives away a frame whose copy is in slot 0 forgets that page (`LosesOnePage`; that
  it happens once in a run is because slot 0 is never free again, `SlotsKept`), and
  what ends exactness ends it for good (`ExactMemory`).
* **`LinksRepresent`, `FlagsAreRight`** (`LinkedFrameListProofs`): `Spec =>
  []Represents` and `Spec => []FlagsSayWhere`, from `ListAssumption` (the frames are
  distinct numbers and fewer than `LengthModulus`). One lemma per list function
  says what it does to the links of one list (`AddLinks`, `PopLinks`,
  `RemoveLinks`, ...), one (`OneListChanges`) that the other lists do not notice,
  because frames of different lists are different. The invariant adds that while
  the free list is being built the others are empty (`Building`), without which a
  frame could be linked twice. `RemoveAbsentStep` shows that removing a frame that
  is in no list leaves all links alone: it has none, which is part of `Represents`.
  `LinksTyped` (`Spec => []TypeOK`) comes with it.
* **`LengthsCount`** (`LinkedFrameListProofs`): `Spec => []LengthCounts`. The modulus is
  a constant, so the arithmetic is in lemmas about remainders: a remainder is
  unique (`RemainderUnique`), and counting up or down may be done before or after
  it is taken (`CountUp`, `CountDown`).
* **`ListsValidate`** (`LinkedFrameListProofs`): `Spec => []ValidationPasses`. `Walk` is a
  recursive function whose base and step are given; that it visits the list and
  stops (`WalkVisits`) is shown by its first wrong place, which exists because the
  natural numbers are well-founded (`LeastElement`): the place before it is right,
  and the links lead from there to the right one. `PlacesCounted` says that the
  bound of the walk, one more than the frames, is never what ends it.
* **`LinksAreQueues`** (`LinkedFrameListProofs`): `Spec => ImplementsFrameQueues`, where
  the lists are what a walk along the links finds (`chains`). `ChainsAreContents` says
  that it finds `contents`; then each call is the step of `FrameQueues` of its
  name (`CallIsQueueStep`). The removal of an absent frame leaves all chains as they
  are.
* **`SearchTyped`, `SearchMissesNothing`, `NoSlotReservedTwice`** (`DiskSlotsProofs`):
  `Spec => []TypeOK`, `Spec => []NoFreeSlotMissed` and `Spec => []SlotsReservedOnce`, for
  any number of slots and any word size. The invariant says that the slots passed were in use when the
  search began (`PassedSlotsWereUsed`), counting from the start of the search with
  the wrap; a skipped word is full, and a skip never goes past its end.
* **`BatchIsReservedAtOnce`** (`DiskSlotsProofs`): `Spec => []BatchAsIfAtOnce`. `BatchFits`
  says that a batch ends full or with a search at whose start every slot was in use,
  which is `NoFreeSlotMissed`. A full batch is one step at its end: its slots are not
  in use by others, and counting them (`ElementsCounted`) there are as many as fit.
  The other is one step at the start of its last search: what was in use then and
  is not in the batch was in use by others, so the batch is all that was free.
* **`AccessTyped`, `AddressesInBounds`, `FaultsFindTheirPages`** (`AccessPatternProofs`):
  `Spec => []TypeOK`, `Spec => []StoresInBounds` and `Spec => []FaultFindsItsPage`, for any page size that is a
  multiple of eight words, any number of pages that the locks divide, and any
  time stamps. The invariant says that an address is a multiple of eight words
  from the start, so that one below the end leaves room for its word.
* **`WindowsTyped`, `MappingsAreFresh`, `FillsReachTheirFrames`, `BatchIsCopied`**
  (`TransferAddressProofs`): `Spec => []TypeOK`, `Spec => []AddressesAreFresh`, `Spec =>
  []FillReachesFrame` and `Spec => []BatchReachesItsFrames`, from `TransferAssumption`.
  The invariant: the mapped addresses of a thread are among those before its index,
  fewer when mappings failed; a frame a thread works on is taken, and by one thread
  only; the address it fills through is mapped to it; the addresses of the disk
  thread are mapped to its batch while it writes and to nothing otherwise; and a frame
  of the batch that is not yet written is in its hand, mapped for a page or on the
  modified list, so no thread takes it. The first makes the flush safe, the others
  make stale mappings harmless.
* **`LastThreadShutsDown`, `ThreadsOutlived`** (`ProgramRunsProofs`):
  `Spec => []ShutdownComesLast` and `Spec => []ThreadsAreOutlived`, from
  `RunsAssumption`. `ThreadInv` says where there are
  threads at all (`NoThreads`), that handles are set in order and a thread that
  exists has one (`HandlesInOrder`), so that a wait for all handles is a wait for all
  threads. `CountInv` has the count in its two phases: while `main` counts it is what
  `main` has counted (`StillCounting`), afterwards the number of threads that have not
  counted themselves out (`CountedAll`); the lock makes the decrement whole
  (`LockKnown`) and the start-up resets event and count (`StartsClean`).
  A run outlives its threads also when the event comes too early, because `main` waits
  for the handles after it.
* **`RunsKeepNothing`, `RunsReleaseTheirOwn`** (`ProgramRunsProofs`): `Spec =>
  []NothingIsKept` and `Spec => []OnlyHeldIsReleased`. `HoldingInv` says that what a run
  has is what the program knows of it, by name of the piece and by thread
  (`HeldKnown`): within a run the two agree, and between runs only the pointers
  among the local variables may be left, which the next run sets anew. The clean-up
  tests that knowledge, so it releases what there is when its tests are not too
  narrow: the physical pages are never there without the array and the section that
  release them, whichever step of the start-up fails (`AcquiredInOrder`), and
  at the clean-up either no entry of `threadInfoArray` is in use or `totalThreads`
  covers all that are, threads that could not be created included
  (`EntriesKnown`).
* **`SweepRunsAll`, `ProgramTyped`** (`ProgramRunsProofs`): `Spec => []SweepIsComplete` and
  `Spec => []TypeOK`. `SweepInv` adds that within a sweep there is a run left to do with
  the thread count of the moment, that `main` starts none without one, and that a
  program without arguments starts at the largest count. Text that `main` takes is a
  number of either sign, so it wraps to a `ULONG64` (`MainPlans`). The types rest on
  all four invariants: that `numCreated` stays within `threadInfoArray` is not
  compared anywhere in the code and follows from the order of the handles.

Every invariant, action property and refinement that a run checks is so proved for
every value of the constants. Only model-checked are `ProgramEnds`, `SearchEnds` and
`ProgramReturns`: liveness under fairness, which is out of the reach of the proof
system.

## 5. Findings

1. **Slot 0** (`SlotZero`). A page whose copy is in slot 0 and whose frame is
   given away gets the PTE 0, that is "never touched": its contents read as
   zeros and slot 0 is never released (`userThread.c:242-246`, `264-269`, `280`).
   `PagedMemory` states the damage exactly: one page of a run, once.
2. **Slot released before it is read** (`SlotReuse`), `disk.c:284-288`.
3. **Stale PTE after the lock was dropped** (`StaleFrame`), `userThread.c:236-261`:
   a page in transition is taken for one on disk.
4. **Unlocked store into the flag word** (`TornWord`), `disk.c:191`.

These four are errors of the code that its own comments and assertions deny;
`PROJECT.json` quotes the lines. 1 happens with one user thread, the others were
found with two.

Two more errors are part of the models, and properties are stated so as to spare them;
no run is spent on showing them:

* *A page mapped unfilled.* `swapFromDisk` returns when its mapping fails, and its
  caller maps the page all the same (`disk.c:274-279`, `userThread.c:294-312`):
  the page shows the words of the frame's last page, and its slot is never released.
  Action `SwapFromDiskFails`, `"unfilled"` in `races`; in `SlotReuse.cfg` with one
  user, two pages, one frame, two slots and `TransferMapFails = TRUE` it breaks
  `CheckVa`, and with `FALSE` nothing does.
* *Finished too early.* User threads are counted after they were created and without
  the lock (`initialize.c:173-175`), so one that ends early takes itself for the last
  one and sets the shutdown event: `endedEarly` in `ProgramRuns`. It needs a thread
  that makes all its accesses before the next one is counted.

And comments that do not fit the code, without harm: `diskThread.c:31-32` promises
an order of `SetEvent` and `ResetEvent` that the standby lock does not give, because
the user thread resets the event after it has released the lock, which costs another
round of trimming, not progress (`Termination`); multiple mappings of a frame are
wanted "if/when we start using reference counts" (`vm.c:20-25`) and relied on
without any; the "read of the next VA" (`userThread.c:69`) is a store eight pages on;
`pages.h` says that the modified-page writer moves a page "from the active list to
the free list"; and of `isOnModifiedList` "If this is 1, we are on the modified list,
otherwise on the standby list" (`utilities.h:111`), but a frame with that flag 0 may be
on the free or the active list or on none, and `isOnStandbyList` says the rest
(`FlagsSayWhere`).

## 6. Not modelled

* The durations, averages and results file of the sweep, and all printing: they
  are written and never read.
* Failures of calls the code does not check (`malloc` of the disk, `VirtualAlloc2` of
  the transfer addresses, `CreateEvent`) or answers with `DebugBreak` or `exit`.
* The lifetime of the token when a privilege is refused is modelled, and kept out of
  `NothingIsKept`: the code leaves it open.
* `tryAcquireLock`, which nothing calls; `malloc_test` and
  `commit_at_fault_time_test` in `vm.c`, dead code; `threadsExamples.c`, not part of
  the build.
* What the operating system does: `MapUserPhysicalPages`, events, critical sections
  and threads are modelled from how the code uses them.

## 7. Plan

*Done*: all modules of section 2; all safety properties of the runs proved.

*Next*: what the proofs of the system show of its parts and no property says yet, such as
the step from `ThreadsAreOutlived` to the state in which `VirtualMemory` starts, and
measures that decrease on the way of a search or of a run, as safety lemmas behind
the liveness properties.
