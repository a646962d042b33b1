# GuardRails in TLA+

GuardRails (`GuardRails.c`, `DelayFree.c`) is a malloc replacement for debugging.
It puts a guard page behind every allocation, keeps freed memory inaccessible in a
*delayed free list*, and reports leaks.  This directory holds TLA+ models of it, the
TLC configurations that check them, and proofs that TLAPS checks.  Line numbers are
those of `src/`.

## Inventory

| part | state | operations | what is hard | what makes it correct |
|---|---|---|---|---|
| delayed free list (`DelayFree.c`) | ring `elms`, `head`, `tail`, `numDelayed`, `bytesDelayed` per slot; page protection | `delayPut`, `delayFreeBatch`, `circPut`, `circGet` | wrap-around, batches at half and quarter, counters kept apart from indices, blocks of several sizes | no assertion fails; delayed = protected; first freed is first recycled; counters exact |
| slots and bins (`getBuf`, `replenishBin`, `putBuf`) | per slot a recursive lock, byte counters, per bin `headFree`, `headInUse`, `numFree`, `allocs`, `frees` | take, carve, put | threads meet at the slot's lock and at `gMutex`; magic words are tested outside the lock; replenishing may fail half way | a block is in one place and has one owner; counters agree with lists; no assertion fails |
| allocation calls (`malloc` ... `free`) | the caller's blocks, header `magic`, `usrDataSize` | `memalignInt`, `realloc`, `free` | header is written after the lock is released; failing `realloc` | a caller's block is never touched; a failed `realloc` leaves the old block |
| report (`onExitHelper`) | none of its own; reads all slots | exit, SIGUSR2, `-D`, `-M`, `-a` | takes all slots' locks, also from inside `getBuf` and `getFromPool` | ends; prints what is in use |
| pools (`getFromPool`, `addNewMemPool`) | `memPools`, `currMemPool` | carve, grow | growth under `gMutex`, rounding, the table's end | blocks do not overlap; growth always suffices |
| initialization (`initialize`, `parseArgs`) | `isInit`, `grArgs`, `argStr` | constructor or first call | double-checked flag; options parsed before the mutex | runs once, before any block is handed out |
| layout (`memalignInt`, slop bytes) | `usrData`, `usrDataSize`, `misalignment`, the bytes of a block | `malloc` ... `posix_memalign`, `calloc`, `realloc`, `free` | alignment, header and traces share the block; sizes near `SIZE_MAX`; a first call before the options are read | the parts of a block do not overlap, data survive, a write into the slop is noticed, nothing else is |
| intrusive lists (`insertElmHead`, `rmElm`) | `next`, `prev`, two heads per bin | insert, remove | reports inside calls, and the signal handler, read and change them | lists stay doubly linked; no write cuts a list; a report misses nothing |
| gdb commands (`grgdb.py`) | none; read a stopped process | search of heap and ring | index arithmetic repeated in Python | find what is there |
| `grdump.py`, `test.c`, scripts | none of the heap's | | | not modelled |

How they interact: calls run in any number of threads.  A call picks a slot, takes its
lock, lets `replenishBin` take memory from the pools under `gMutex`, takes a block and
gives the lock back; `memalignInt` then fills in the header without a lock.  `free`
tests and changes the magic word without a lock, then takes the lock of the slot that
the header names and hands the block to the bin or, with `-d`, to the delayed list.
The report takes the locks of all slots in turn; the C library allocates for it, so that
calls run inside reports, and reports (`-D`, `-M`, `-a`, SIGUSR2) inside calls.

## Modules

| module | what it is |
|---|---|
| `DelayQueue` | what the delayed list promises: a first-in first-out quarantine that releases only while `Hold` younger blocks wait and never holds more than `Capacity` |
| `DelayFree` | `DelayFree.c`, one slot's ring with page protection; implements `DelayQueue` |
| `DelayFree_proofs` | theorems about `DelayFree` |
| `SlotHeap` | the heap under concurrent calls; its delayed list is the abstract sequence that `DelayFree` implements |
| `SlotHeap_proofs` | theorems about the blocks, owners and headers of `SlotHeap` |
| `SlotCounts_proofs` | theorems about the counters and the delayed lists of `SlotHeap` |
| `Pool` | the memory pools, from the first mapping at the start to the table's end |
| `Pool_proofs` | theorems about `Pool` |
| `GdbDelayList` | the search of `gr-find-delay-list`, a function of the state of `DelayFree` |
| `BlockLists` | what the two lists of a bin promise, as sequences |
| `ElmLists` | the lists pointer by pointer, with reports inside calls and calls inside reports; implements `BlockLists` |
| `Layout` | the bytes of a block |
| `ElmLists_proofs` | lemmas on linked lists and on the stack of calls; how reports of `ElmLists` nest |
| `BinLists_proofs` | theorems about the lists of `ElmLists` |
| `Layout_proofs` | theorems about `Layout` |
| `Sums` | lemmas on sums over finite sets, used by the proofs that count |
| `MCDelayFree`, `MCSlotHeap`, `MCPool`, `MCGdbDelayList`, `MCElmLists`, `MCLayout` | the instances that TLC checks |

### DelayFree

`delayPut` runs under the slot's lock, so one slot's ring is sequential.  `DelayPut`
is its entry and the choice at line 99, `delayFreeBatch` one iteration of the loop at
lines 76-93, `EndBatch` the loop's end, `Put` is `circPut` and the final `mprotect`.
`Alloc` is the one thing the allocator does to these blocks (`getBuf` 362-369).  The
assertions of `circCount`, `circPut` and `circGet` are guards (where one fails the
process is gone), and `AssertionsHold` says that they never fail.  A block's bytes are
two pages, the header's and the rest; `circGet` opens the first, the batch the second
(`OpenedPages`).  The ring keeps stale pointers outside `tail..head`, as in the code.
`MemFreeDelay.head` never reaches a value that `size_t` could not hold, and is not
reduced further.

### SlotHeap

State: the header words `home` (slotNum, binNum), `magic` and `usrDataSize` of every
block; per bin `headFree`, `headInUse` and counters; per slot lock, delayed list and
statistics; `fresh` is the memory the pools still have, `live` what callers hold.
A thread's call is `pc` and the locals `bin`, `size`, `blk` (new block), `old` (block
being freed), `dumpAt`, `after` (where the report stands and returns to).

| action | code |
|---|---|
| `Malloc`, `Realloc`, `Free`, `Report` | entry of the call; choice of a slot at 344-347 |
| `LockSlot` | 352, and the test of `replenishBin` at 255 |
| `Carve`, `CarveFails`, `CarveAborts` | one iteration of 258-269 with `getFromPool`; `mmap` fails at 163, with `-a` at 170-175 |
| `Take` | 362-382: block from free to in use, statistics, dump of `-D` |
| `Check` | 384-388: `-M`, unlock |
| `Publish` | 616-671: assertion on the magic, header, return to the caller or, in `realloc`, to `free` |
| `Mark` | 719-746, 399-404: magic word, without the lock |
| `LockFree` | 407 |
| `PutFree` | 412-430 without `-d` |
| `PutDelay`, `Batch`, `Delay` | 412-430 with `-d`: `delayPut`, one iteration of `delayFreeBatch`, `circPut` |
| `DumpSlot`, `DumpDone` | 857-901, and the return to 382 or `abort()` |

`racySlotRr` is read and written without a lock on purpose; any slot may come out, so
`PickSlot` offers them all.  Between two lock operations a thread's writes to data that
the lock protects are one step; writes without the lock (`Publish`, `Mark`) are steps
of their own.  `getFromPool`'s section under `gMutex` is one step, except when it dumps.
After `abort()` nothing moves (`Gone`).

Abstractions: free lists are sets (which free block is taken matters to no property);
fresh memory is a set that any bin may draw on, so a pool of bytes becomes a number of
blocks; `mmap` may fail at any iteration, for one bin and not for the next, whether or not
memory is left, and must fail when none is; the limit that `-a` compares with is left open
(`CarveFails` and `CarveAborts` are both possible with `-a`); `mlock` failing with `-m` behaves as `CarveAborts` does.  Reports allocate nothing
here; the allocations that the C library makes for them are in `ElmLists`.  Contents
beyond the header are in `Layout`.  A misuse by the program (double free, overrun) is not a step:
the model is of programs that use the heap as documented.

### Pool

State: the table `memPools` with `currMemPool`, the blocks handed out (`carved`) and the
pages mapped `PROT_NONE` (`guards`); `left` and `numFree` say how far the start has got.
`Initialize` is `initBinsMeta` and the first `addNewMemPool` (559-567); `Request` a call
of `getFromPool` by `replenishBin` (259), for the bins of `replenishSlots` in their order
until `left` is empty and for any bin afterwards.  `Grow` is 207-216 with `addNewMemPool`,
`Carve` 218-242 and `replenishBin`'s loop around it.  `GrowFails` is `mmap` failing
where the caller gets a null pointer; `InitializeAborts`, `GrowAborts` and `CarveAborts`
are the ways a failing `mmap`, `mlock` or `mprotect`, or a full table, ends the process.
All of it is under `gMutex` or in the constructor, so the module is sequential; the
threads that meet at `gMutex`, and the dump under it, are in `SlotHeap`.

An address is a pool's number and an offset in it, since `mmap` starts each pool on a
page and gives no memory out twice.  Guard pages are one page (`NUM_GP` is 1); sizes that
come near 2^64 are not reached by the bins that `replenishBin` asks for.  Low water marks
are left to `SlotHeap`: here any bin may be asked for at any time.

### GdbDelayList

`gr-find-delay-list` reads a stopped process and changes nothing, so the module adds no
action to `DelayFree`: `Examined` is the set of entries the command looks at in a given
state.  The command ends with an error at a null entry, and at one whose magic is not
`MAGIC_FREE`, since 84 formats a string as a number (`Readable`).  It is evaluated between
calls of `delayPut` only.

### ElmLists

One thread, one slot, one bin: the slot's lock keeps other threads off the lists, but it
is recursive, and lets in whatever its holder calls.  The thread's `stack` is a sequence of
frames (`malloc`, `free`, `report`), the last one running; a frame has a label, the block it
works on, and, for a report, what it has printed.

| action | code |
|---|---|
| `Malloc`, `Free`, `Report` | the program calls, or `sigUsr2Handler` (432-438) or the destructor does |
| `Replenish`, `Pool`, `Filled` | `replenishBin` 255-269 with `getFromPool`; with `-a` the report at 172 runs while `gMutex` is held |
| `Load`, `Remove1` ... `Remove5`, `Insert1` ... `Insert4` | 362-366 and 417-422: `rmElm` and `insertElmHead`, one assignment each |
| `Count`, `Limit`, `Publish` | 367-388 (statistics, reports of `-D` and `-M`), 393 and the magic of `memalignInt` |
| `Mark`, `Put` | `putBuf` |
| `Open`, `Close`, `LibraryFails` | `dumpOffsets`: `fopen` allocates, `fclose` frees, 803 asserts |
| `SetLocale`, `Keep` | 845-850: `setlocale` may allocate, and keeps it |
| `Walk`, `PrintElm`, `PrintElmAllocates`, `Printed`, `Advance`, `End` | 857-930: the walk of `headInUse`; a `dprintf` may allocate |

Abstractions: requests have one size, one unit; what the C library allocates is one block
at a time; `printf`, which allocates its buffer once, is covered by `dprintf`.  A report
always writes a file (`-t`); the delayed list is off.  A frame changes the magic word where
`memalignInt` does, and the rest of the header is in `Layout`.

### Layout

A block is a function from offsets to what wrote the byte last (`"trace"`, `"slop"`,
`"self"` for the pointer to the header, `"poison"`, `"zero"`, `"x"` for the program).
Sizes have `WordBits` bits, and sums and `calloc`'s product wrap.  `memalignInt` is 600-671
with what `getBuf` contributes (the bin, the end of the block, the assertions on the
magic and on the size); `Malloc`, `Memalign`, `PosixMemalign`, `Calloc` (`CallocSize`),
`Realloc` (`Copied`, then `free`'s checks) and `Free` are the calls.  `Store` and
`Overrun` are the program: the one writes its data, the other any single byte of the
`MaxOverrun` behind them, where the guard page may stop it (`ended = "fault"`).  `overrun`
remembers which.  With an alignment above `MAX_SLOP` such a byte may lie between the slop and
the guard page: there the code notices nothing, as its comments at 644-655 say, and
`OverrunCaught` promises nothing.  Failing assertions
are endings, not guards: `SizeAborts` is the one at 370.

Abstractions: which of a bin's free blocks is taken is left open, and none is reserved, so
calls are one step (threads are in `SlotHeap`).  The bytes of a free block are forgotten.
What the program writes behind its data differs from the slop value, and it writes nothing
in front of its data: `free` finds the header through the word there and could not tell.
The model has no bins beyond `MaxAllocPower` (`InReach`): there the code indexes past
`memBins` (341, 362).  `-p` is always on: without it the data of a new block are stale.

## What is checked

| run | instance | properties |
|---|---|---|
| `delay_free` | ring of 6 (batch above 3, down to 1), 6 blocks of 1, 2 and 4 pages | `TypeOK`, `AssertionsHold`, `Protection`, `BytesExact`, `BinsExact`, `ImplementsQueue` |
| `heap_slots` | 2 threads, 2 slots, 5 blocks, a bin with watermarks 1/2 and one carved on demand, sizes 1 and 2 | `TypeOK`, `OnePlace`, `Exclusive`, `AssertionsHold`, `BinCounters`, `SlotCounters`, `HeaderUntouched` |
| `heap_delay` | the same with 1 slot, sizes 1 to 3 of which 1 and 2 share a bin, `-d` (list of 4), `-A -a -M` | these but `TypeOK`, and `EverySlotQuarantines` |
| `heap_live` | 1 slot, 4 blocks, `-d -D 1` | `CallsReturn` |
| `pools` | pages of 2 bytes, bins of 1, 2, 4 pages, 2 slots with high water 2, table of 3 pools, `-a` | `TypeOK`, `Separate`, `AssertionsHold`, `FullAtStart` |
| `lists` | 5 blocks, watermarks 1/2, `-D 1`, at most 6 requests from the program | `TypeOK`, `Linked`, `ReportComplete`, `ReportsNest`, `ListsKept`, `CallsEnd` |
| `layout` | pages of 16 bytes, words of 2, sizes of 8 bits, a block of 16 and one of 64 bytes, traces of 1 and 1, slop up to 2, writes up to 4 bytes behind the data | `TypeOK`, `RegionsApart`, `DataKept`, `OverrunCaught`, `NoFalseAlarm` |

* `OnePlace`: no block is lost or on two lists, and it is on the lists of the bin its
  header names, where `free` looks for it.
* `Exclusive`: memory that somebody owns is never handed out; a block in use has
  exactly one owner; a failing `realloc` leaves its block with the caller.
* `AssertionsHold`: the magic tests made without the lock, the unguarded dereference of
  `headFree` (364-365) and the lock discipline, for the thread itself, where the code's
  `verifyLocked` only sees that *some* thread holds the lock.
* `BinCounters`, `SlotCounters`: `numFree`, `allocs - frees`, `requested - freed` and
  the histograms, from which leaks are reported, equal what the lists hold.  A size is
  added before the header holds it and subtracted from the header.
* `HeaderUntouched`: no step changes the header of a block its caller keeps.
* `EverySlotQuarantines`: under concurrent calls the list is still `DelayQueue`.
* `Separate`: over any sequence of sizes and growths no block shares a byte with another
  block or with a guard page, and each has its guard page behind it in its own pool.
* `AssertionsHold` of `Pool`: a pool made for a block of `size` has room for its guard
  page as well, though 210 asks for `size` only, since 158 always adds a page.
* `FullAtStart`: `replenishSlots` ignores failures (291), but the first pool is large
  enough that none occurs.
* `CallsReturn`: once callers stop, every call returns (or the process has aborted).
* `Linked`: whenever no list is being changed both lists can be walked from either end, and
  hold exactly what is free and what somebody holds.
* `ListsKept`: at every single write the walk along `next` sees either the lists before
  or the lists after: `ElmLists` implements `BlockLists`.
* `ReportComplete`: a report that allocates and frees while it walks still prints every
  block the program holds.  `ReportsNest`: a report of `-D` never starts another, because
  380 notes the mark first.  `CallsEnd`: all of it ends.
* `RegionsApart`: header, traces, pointer, data and slop do not overlap, and data are
  aligned and end against the guard page, for every size that gets a block.
* `DataKept`: data survive the library's writes, `realloc` copies the right bytes, and the
  pointer to the header survives what a program writes inside or behind its data.
* `OverrunCaught`: a block with any byte of its slop overwritten is never freed; alignments of
  4, 16 and 32 leave gaps behind the 2 bytes of slop, and writes there are let through.
* `NoFalseAlarm`: `free` and the assertions of `memalignInt` stop only the free of a block
  whose own slop was written.

Bounds: `RequestBound` limits the bytes a slot hands out in a behaviour (2 in `heap_slots`, 7
in `heap_delay`, 4 in `heap_live`, 1 in `dump_ends`); the counters only grow, so without it the state space is infinite.  Two threads are enough
to hold each lock against a waiting thread, and two slots for a thread to hold one lock
and want another; with three to five blocks memory runs out and the delayed list is
drained.  In `heap_delay` two sizes share a bin, so that a block is used again with another size;
in the other runs of `SlotHeap` each size has a bin of its own.  Six ring entries let the indices wrap in every
phase of a batch.  The pools need a first pool with room left after the start, a request
larger and one smaller than `MinExpandSize`, and a second growth so that a pool is
followed by another: three pools do.
`lists` needs a bin that runs empty inside a report that runs inside a call, four frames deep;
`MaxFrames` 7 is never reached (TLC would report a deadlock).  `layout` has sizes that just fill
either bin with and without alignment, sizes whose sum wraps and sizes beyond the largest bin;
alignments below and above a page and, since `memalign` accepts them, 0 and 3.  Threads and blocks are symmetric in the runs without liveness.

Fairness: `FairSpec` assumes weak fairness of each thread's steps inside a call: a
thread that can run is scheduled.  Callers are not assumed to call.  With weak fairness
alone a mutex could pass over a waiting thread while others keep taking it;
`CallsReturn` therefore speaks of behaviours in which new calls stop.  `Spec` of `ElmLists`
assumes weak fairness of the steps inside a call: the one thread runs.

### Disagreements between code and documents

Each has a run in which TLC finds the documented property violated.

* `oom_report`: with `-a` the report (172) runs under `gMutex` and allocates; when the bin
  is below its low water mark that allocation locks `gMutex` again (205), which is not
  recursive.  A single thread hangs and never aborts.
* `signal_report`: SIGUSR2 runs the report in the thread it interrupts (435); between two
  writes of `rmElm` or `insertElmHead` it misses blocks in use (README.md:309-310).
* `first_call`: a call before the constructor computes its size (610) before `-t` and `-T`
  are read (614): the traces overlap the user's data, where 608-609 says that the header's
  needs are added.
* `dump_ends`: two threads that dump for `-D` at once hold one slot's lock each and wait
  for the other's (381, 858).
* `gdb_delay_list`: `gr-find-delay-list` starts at `elms[head]`, the entry that `circPut`
  writes next, so it misses the oldest delayed block, and stops with an error at a null
  entry while the ring has not wrapped (grgdb.py:73; README.md:153 says it finds an
  address on the list).

`CHECK_DEADLOCK FALSE` is set only in those runs that are to show the property violated
rather than the deadlock; the passing runs all check deadlock.  `heap_live` has one slot
because of `dump_ends`, and neither `-a` nor `-M`, because `SlotHeap`'s reports do not
allocate: with those options it would show too much.

Noted, without a run of their own: `-M` compares the sum of all requests a slot ever served
(384), not a request as README.md:386 says, and since the sum stays above the limit the
allocations of its report start that report again, without end; `-D` dumps only
when the growth exceeds the interval (378), README.md:380 says "or greater"; a report
between `getBuf`'s unlock and `memalignInt`'s writes (390, 635) prints the size and trace
of a block's previous use; with two slots the dump of `-a` can also wait for a slot
whose holder waits for `gMutex`; the assertions on `ELM_HDR_SZ` (547-548) come before `-t`
and `-T` are read, so they say nothing about them.

## What is proved

`DelayFree_proofs`, for every ring size of at least 3 (`DelayAssumption`; below 3 half
the ring and one block do not fit), every finite set of blocks and every assignment of
bins:

* `TypeCorrect`, `NeverAborts`, `DelayedIsProtected`, `BinsAreExact`: `Spec => []P` for
  `TypeOK`, `AssertionsHold`, `Protection`, `BinsExact`; that the counters stay natural numbers
  needs more than types: `numDelayed` and `numFree` are lengths of what they count, and
  `bytesDelayed` is a sum of sizes, which `PowersAssumption` makes natural (the provers do not
  know that 2^n is);
* `BytesAreExact`: `Spec => []BytesExact`;
* `RingImplementsQueue`: `Spec => ImplementsQueue`.

None of these is inductive alone.  The inductive invariant adds that the distance from
tail to head (mod the ring) is `numDelayed`, that it is at most half the ring plus one
while idle and at most half the ring before `Put`, that entries of the occupied part
are distinct blocks outside all bins, and that the block in hand is in neither.  The
refinement needs that advancing `tail` removes the first element of the sequence
`Held` and that `circPut` appends one, which the lemmas on `Wrap` establish.  `BytesExact` holds
at every step of a call because a block's size is added and subtracted in the step that moves it.

`BytesExact` and the counters below are sums over sets, in the recursion of the community
modules.  The library's induction theorems take an operator as a parameter, which the
provers cannot instantiate; `Sums` argues by the least number instead (`LeastNumber`, from
the well-foundedness of `<`): if a statement fails for some subset, it fails for one of least
size, and the statement for one element less contradicts that.  So it proves that the
order of summing does not matter, what one more or one less element or one changed value
does to a sum, and that sums over disjoint sets add up.

`SlotHeap_proofs`, for any set of threads, any finite set of blocks, any number of slots
and bins and any options (`HeapAssumption`):

* `NothingLost`, `SingleOwner`, `NoAssertionFails`: `Spec => []P` for `OnePlace`, `Exclusive`,
  `AssertionsHold`;
* `HeadersSafe`: `Spec => HeaderUntouched`.

They follow from one inductive invariant, `Inv`, with five parts:

* `TypeInv`, the types, with `numFree` only an integer;
* `PcInv`, what a call's locals hold at each point: a bin once it has been chosen, a new
  block from `Take` to the return, an old block from `Mark` on, whose header names the bin;
* `LockInv`: between taking and giving back its slot's lock a thread is its holder, so
  two threads inside the same slot are the same thread (lemma `Alone`);
* `BlockInv`, for each block on its own: where it is (`PlaceOf`), who owns it (`OwnOf`) and
  what its magic word says in each of these cases (`MagicOf`), and that no delayed list
  holds a block twice (`OnceInv`);
* `TakeInv`: a bin that `LockSlot` found nonempty, or `Carve` filled, is nonempty until
  its finder takes a block.

`OnePlace` and `Exclusive` are not inductive alone.  That a batch frees no block in use
needs `OnceInv`; that `Mark` finds its block unmarked needs the link between owner and
magic word; that `Take` finds a block needs the lock.  A step of a thread touches the
locals of no other thread (`StepIsLocal`), and for each action one lemma shows that all
blocks but the one or two it moves keep their facts (`SameBlock`) and treats those by
themselves.

`SlotCounts_proofs` builds on it, under the same assumption:

* `BinsAreCounted`, `SlotsAreCounted`: `Spec => []P` for `BinCounters`, `SlotCounters`;
* `TypeCorrect`: `Spec => []TypeOK`, where `numFree`, which `getBuf` decreases without a test
  (367), is a natural number because it is the length of its list;
* `SlotsQuarantine`: with `-d`, `Spec => EverySlotQuarantines`.

The counters agree with the lists only while nobody is inside the slot's lock.  `BinCount`
says what holds otherwise: `allocs - frees` is the length of `headInUse` plus the number of
threads that have a block of this bin in hand, taken off the list and not yet counted.
Only the lock's holder can have one (lemma `HandsAlone`).  `SlotCount` says of each slot that
its sums and its histogram run over the blocks in use with `AllocSize`, which is the size of
the call until `Publish` has written the header and the header's from then on: `Take` adds a
size, `Publish` writes the same one, `PutFree` and `PutDelay` subtract what they read.
`SlotsQuarantine` shows that each step of any thread is a step of `DelayQueue` for one slot
and changes nothing for the others, whose locks it does not hold (`QueueStep`); that
`circPut` finds room needs `RoomInv`, at most half the list at `"delay"`.

`Pool_proofs`, for any page size, bins that are whole pages, slots, watermarks, table and
limits (`PoolAssumption`):

* `TypeCorrect`, `BlocksSeparate`, `GrowthSuffices`, `FullWhenStarted`: `Spec => []P` for
  `TypeOK`, `Separate`, `AssertionsHold`, `FullAtStart`.

The inductive invariant says that each pool is cut up to `startFree`, on a page boundary,
with `startFree` and `remainingSizeBytes` adding up to its size; that each block and its
guard page end at or before the `startFree` of their pool, pairwise apart; and that there
is room at `"carve"`.  `Separate` alone says nothing of where the next block goes.  That
`Grow` leaves room is arithmetic on `PoolSizeOf` (lemma `PoolHolds`): rounding *up past* a whole
number of pages is what makes it true.  For `FullAtStart` the invariant `StartInv` says that
until the start is over there is one pool, and that it still has at least what all missing
blocks need: the sum over `left`, the bins not yet full, of what each lacks (`Missing`).  So a
request of the start always fits (lemma `FillingFits`), and taking a block lowers both sides by
as much.

`Layout_proofs`, for any page size, word, header, depth of traces, blocks, sizes and
alignments, when calls come after the constructor (`EarlyCalls = FALSE`; `first_call` shows
why):

* `TypeCorrect`, `NoOverlap`, `DataSafe`, `OverrunsCaught`, `NoFalseAlarms`:
  `Spec => []P` for `TypeOK`, `RegionsApart`, `DataKept`, `OverrunCaught`, `NoFalseAlarm`.

The heart is lemma `Room`: if the sum at 610 names a bin that exists and the size passes
370, the sum has not wrapped and the bin holds it.  It rests on `Log2Covers` (`log2fast`
rounds up) and on two assumptions: `AlignmentAssumption`, no alignment comes within
2^(MAX_ALLOC_POWER - 1) of the address space (`memalign` does not test it; one that does
can make the sum wrap), and `PowersAssumption`, the recursion 2^(n+1) = 2 * 2^n up to the
width of a word.  That is how `^` is defined, of which the provers know only 2^0; that powers
of two grow is derived from it.  The inductive invariant says of each block of the program that its
header fits (`Space`), its data and pointer are there (`DataOf`), and each byte behind its data
is as it must be (`OverrunInv`): those that the program wrote lie in front of the guard page
and hold what it wrote, all others of the slop are whole.  So the comparison in `free` finds
exactly the blocks whose slop was written (lemma `SlopTells`), and says nothing of bytes beyond
`MaxSlop`; `OverrunsCaught` and `NoFalseAlarms` are its two directions.  Lemmas `GoodPoison`, `GoodZero` and `GoodCopy` say that each way of
filling a block leaves slop, pointer and data as the invariant wants them.

`ElmLists_proofs` and `BinLists_proofs`, for every finite set of blocks, every water marks and
options (`ListsAssumption`), unless a signal arrives inside a call (`~Signals`; `signal_report`
shows why: its report finds lists half written):

* `TypesHold`, `ListsLinked`, `ReportsComplete`: `Spec => []P` for `TypeOK`, `Linked`,
  `ReportComplete`;
* `LinksImplementLists`: `Spec => ListsKept`, the refinement of `BlockLists`;
* `ReportsStayFlat`: `Spec => [](Unlimited => ReportsNest)` when `DumpInterval > 0`.  With
  `-D 0` every allocation of a report starts the next one, and the reports of `-M`, once its
  limit is passed, start themselves again; `Unlimited` says that none of these is on the stack.

`ShapeInv` gives the types, the locals of each frame at each label and which function calls
which where.  `NestInv` is what `ReportsStayFlat` needs: of a report of `-D` and the frames
above it only the running one holds a block, and that block alone is in use beyond the mark that
was noted.  The other theorems follow from `BinInv`, which adds four statements about `Walked`, the
two lists as sequences of blocks:

* `LinkInv`: while nobody writes, `next` and `prev` are paths along both sequences, which share
  no block; while a call writes, it says for each label which pointers have been written
  already (`MovesElm`, with `Mid`);
* `CountInv`: `numFree` is the length of the free list, but for one while a block is moved (`Lag`);
* `OwnInv`: each block in use, but the one a call is writing, has exactly one owner: the
  program, the C library or one frame of the stack;
* `ReportInv`: the cursor of each report is at a block that is owned *below* that report, so
  that nothing the report calls can take it away, and what the report has not printed of
  the program's blocks is from the cursor on.

The last is the reason that a report which allocates and frees while it walks misses nothing:
blocks are inserted at the head, behind the cursor, and what is freed above the cursor's frame
was allocated there.  `Linked` and `ReportComplete` are not inductive alone: the one says
nothing between two writes, the other nothing before the end of the walk.  The proof treats an
arbitrary pair of sequences first: a write changes none of them, or removes a block from one,
or puts one at the head of one, and each of these is a step of `BlockLists`.  Then it shows that the
walk along `next`, a recursive function over the number of blocks, computes these sequences
(lemma `WalkIs`, by the least number for which it would not).

Only model-checked: the liveness properties `CallsReturn` and `CallsEnd`, which rest on
fairness and so on `ENABLED`, out of this prover's reach; and the properties of the five runs
in which TLC finds a violation.  Nothing is proved about `ElmLists` when signals arrive inside a call.

## Not modelled, and the plan

Proofs to add: for `signal_report`, which part of the lists a report inside a write still
prints; a variant that bounds the depth of `ElmLists`' stack, towards `CallsEnd`.

Not modelled so far: the sums that a report prints, `parseArgs` itself, whose results are
constants here, the signal handler and the limit that `initialize` sets last, and the other
gdb commands.

Left out because it cannot happen: two first callers that run `parseArgs` at once (550).
The C library allocates in the creating thread when it starts another (the new thread's
table of thread-local storage), so the first call, and with it `initialize`, is over before
there is a second thread; `initMutex` is never contended. Nor does a report divide by
zero (910): the lines that start it have allocated by then.

Not modelled for good: formatting and file output of the report, libunwind traces,
`grdump.py`, `test.c` and the scripts, which keep no state of the heap; `valloc`,
`pvalloc` and `aligned_alloc`, which only abort.
