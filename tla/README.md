# Verification of FsdFilter

TLA+ models, model-checking runs and proofs for FsdFilter, a Mac OS X kernel
extension that filters file system requests. The extension overwrites slots of
the operation vectors ("v_op") that the vnodes of a file system share, puts its
own functions there, and forwards every call to the function it replaced. All
paths below are relative to the repository (`src/` here); line numbers refer to
`src/FsdFilter/`.

## The system

| component | files | state | operations |
|---|---|---|---|
| Vnode operation hooks | `VNodeHook.cpp`, `VNodeHook.h` | the slots of the vectors; a hash table vector -> `FltVnodeHookEntry`; per entry a reference count, `vNodeCounter` and the saved functions `origVop`; one `IORWLock` | `FltHookVnodeVop`, `FltUnHookVnodeVop`, their `...AndParent` forms, `FltGetOriginalVnodeOp`, `AddEntry`, `RemoveEntry`, `RetrieveEntry` |
| Hook functions | `VFSHooks.cpp` | none | eleven hooks find the original and forward; `FltFsdReclaimHook` finds the original, unhooks, forwards |
| Kauth listener | `Kauth.cpp` | the registered listener | `VnodeAuthorizeCallback` hooks the vector of the vnode and of its parent |
| Life cycle | `FsdFilter.cpp` | `gVnodeGate`, the static table, `Instance` | `start`, `stop`, `free` |
| Hash table | `CommonHashTable.cpp`, `.h` | buckets (doubly linked), a list from oldest to newest, counters, flags | insert, get, replace, remove, iterate, rehash, finalize |
| Fake file system | `FltFakeFSD.cpp`, `.h` | the offset of `v_op` in a vnode, the offset of each operation in a vector, the offset of the VFS operations in a mount | register a file system, create two vnodes, search their memory for the layout, unregister |
| Physical memory access | `VmPmap.cpp` | none | translate an address, copy between wired pages regardless of protection |
| Version dependent data | `VersionDependent.cpp` | constant tables | not compiled into the project |
| diStorm | `distorm/` | none that outlives a call | vendored disassembler; the search runs its decoder on a hundred bytes of unknown memory |

How they interact: the kernel calls the kauth listener in the thread that
accesses a vnode; the listener hooks (shared lock, then exclusive lock if the
vector is new). From then on the kernel's jumps through the vector arrive in
hook functions, which look the original up under the shared lock. A reclaim, in
the thread that recycles the vnode, looks the original up and then unhooks: it
uncounts the vnode and its parent, and the decrement from one removes the entry
and restores the slots under the exclusive lock. Hooking and unhooking read the
offsets that the fake file system's search found at start, and write the slots
through `FltWriteWiredSrcToWiredDst`. `start` runs that search in its own thread,
creates the table and registers the listener last; the search asks the decoder
whether the words it meets point to functions.

What is hard about it: the three kinds of calls run concurrently in any kernel
threads; the slots are written under the lock but read by the kernel without
it; the counter is decremented outside the lock and tested again inside; an
entry is used after the unlock on the strength of a reference; a hook may run
when its vector is being unhooked, is unhooked, or is hooked again; the error
paths (no memory, no offset) leave locked sections in the middle. PROJECT.json
lists these hazards line by line with the properties that cover them.

What makes it correct:

- hooks: a call always reaches the original, the vector and the table agree,
  references are exact, the lock is always given back, reclaim is hooked first;
- hash table: it is a map; the pointers of the buckets and of the age list are
  consistent after every operation, in particular after eviction and rehash;
- fake file system: the offsets found are those of the real layout, or the
  search fails; a failed candidate leaves nothing behind;
- memory access: every byte is copied once, or the count says where it stopped;
- life cycle: what start has done is undone when it fails, and nothing leads
  into a driver that is gone;
- decoder: it reads within the code and writes within the room it is given,
  whatever the bytes are, and loses none of them.

## Modules

| module | what it is |
|---|---|
| `VNodeHook` | state and actions of the hooks, the listener callback and the VFS calls; its properties |
| `VNodeHookInvariants` | the inductive invariant `Inv`, in named parts |
| `VNodeHookClaims` | what comments and assertions say and the code does not keep |
| `MCVNodeHook` | instances for TLC: one volume, two volumes, the whole array of hooks |
| `TransparentFilter` | abstract specification: a filter that no caller can notice |
| `VNodeHookRefinement` | the refinement mapping from `VNodeHook` to `TransparentFilter` |
| `MCTransparent` | instance for TLC, without symmetry because it checks liveness |
| `VNodeHookLife` | the refinement mapping from `VNodeHook` to the listener and the hooks of `Lifecycle` |
| `VNodeHookProofs` | `Inv` is inductive; type correctness, the safety properties and the range of the counters follow; every step is a step of `TransparentFilter` and of `Lifecycle` or none; calls are short |
| `LinkedList` | the operations of the hash table on its two kinds of lists, pointer by pointer |
| `HashTable` | the hash table: cells, pointers, counters, memory; one action per function |
| `Dictionary` | abstract specification: a map that remembers the order of insertion |
| `HashTableRefinement`, `MCHashTable` | the refinement mapping to `Dictionary`; the instance |
| `HashTableProofs` | the lists, counters, memory and iterations of the table are sound, and the table implements `Dictionary`, and a rehash ends, for any keys, cells and sizes |
| `Progress` | the order in which what is left of a loop descends |
| `KernelMemory` | pages and `FltVirtToPhys` |
| `WiredCopy`, `MCWiredCopy`, `WiredCopyProofs` | the copy loop, its instance, its theorems |
| `PageLemmas` | arithmetic of pages, for the proofs |
| `VnodeLayout`, `MCVnodeLayout` | the search for the layout of vnode, vector and mount; small kernels |
| `VnodeLayoutClaims` | what a comment says of the search and the code does not do |
| `VnodeLayoutProofs` | the search keeps its types, reads mapped memory only, cleans up, is bounded, and finds the kernel's layout where it is marked |
| `Lifecycle`, `LifecycleProofs` | start, stop, free, IOKit's references, the listener, the hooks as users of the table; its invariant and theorems |
| `Driver`, `MCDriver`, `DriverProofs` | `VnodeLayout` and `Lifecycle` composed; that it implements both, and hooks with offsets that are the kernel's |
| `Prefixes`, `Instructions`, `Operands` | `prefix.c`, `instructions.c`, `operands.c` of diStorm as operators |
| `Decoder`, `MCDecoder` | `decoder.c`: the loop over the code, step by step; the instance |
| `DecoderProofs` | the decoder reads within the code, writes within the room and accounts for every prefix and is bounded, for every trie and code |

### VNodeHook and the code

A thread has a position `pc[t]` and the locals of the functions it is in:
`ent` is `existingEntry`, `new` is `newEntry`, `idx` the loop counter, `fn` is
`origVnop`; `vn` and `cur` are the vnode of the outer call and the one being
processed (itself or its parent). The names of the positions say which function
they belong to: `hook...` is `FltHookVnodeVop` (233-491), `get...` is
`FltGetOriginalVnodeOp` (133-229), `unhook...` is `FltUnHookVnodeVop` (496-641).

An action is a section of code without a visible interleaving point inside: a
section under the lock is one step up to its unlock, except that the loops that
write the slots take one step per slot, since callers read the slots without
the lock; an atomic operation on the counter outside the lock is a step; the
allocation and every release after an unlock is a step. A shared section that
retrieves an entry and increments its counter is one step: the only thing that
can happen in between is a decrement by another thread, and the two commute.

`slot[w][o]` is a slot of a vector: `Original(w, o)` or `Hook(o)`.
`hash[w]` is what `ght_get` returns for the vector. `refs` is the `OSObject`
count; a cell of `Entries` with 0 references is free memory, and an allocation
may return any free cell, in particular the one just freed. `KnownOps` are the
operations with an offset in `gFltVnodeOpvOffsetDesc`; `exchange` is in the
array of hooks and has none, which the short array keeps.

The kernel around the code is modelled by what the code relies on: a vnode
passed to a callback or an operation holds an iocount, a reclaim starts only
when no call holds one on the vnode (`Drained`), `vnode_getparent` returns a
parent that is not being reclaimed. Vnodes are terminated in any order. A vnode
stands for one incarnation.

The model follows the release build: an assertion that fails does not stop the
code. Logging, the arguments of the operations other than the vnode, and the
hooks' comments "add your filter code here" have no counterpart.

### HashTable and the code

The entries are cells with the pointers of `ght_hash_entry_t`; `Chain` and
`Aged` walk them as `search_in_bucket` and the iterator do, so that a wrong
pointer has the effect it has in the code. `used` is what is allocated: freed
cells lose their contents, and an allocation gives a free cell or none. A call is
one step, because the callers hold a lock around it; `ght_rehash`, which fills a
second table, takes a step per entry, each of which may be denied memory, and an
insertion that rehashes on its own waits with its new entry. An insertion during
an iteration, and the removal of an entry the iteration has not reached, are
restricted to what `CommonHashTable.h:442-449` allows (`MayInsert`, `MayRemove`).
The automatic rehash and the eviction free entries during an insertion: both
would leave a caller's iterator dangling, so `MayInsert` excludes them too, which
the header does not say.

`HashTable` and `VNodeHook` meet in `Dictionary`: `hash[w]` of `VNodeHook` is the
dictionary's `map` for the key `w`, used through insert, get and remove under the
lock. The driver leaves the settings as a table is created with them: no limit,
no heuristic, no automatic rehash.

### VnodeLayout, Lifecycle, Driver and the code

`VnodeLayout` has one step per turn of a loop of `FltGetVnodeLayout` and
`FltGetMountLayoutForMountStructure`. `kernel` is what is in memory: the page
table, the words, the vnodes, the mounts. `read` is the set of addresses that
the last step has read; `DdIsFunctionAtKernelAddress` reads the bytes it passes
to the decoder (`CodeOf`), which `DecoderReadsInside` justifies: the decoder
reads nothing behind them. All that is assumed of memory is that the first words
of a vnode and of a mount are mapped.

`Lifecycle` has a phase per step of `start` that can fail, and the kernel: IOKit
releases its references in any order after a failure or a stop, threads call
the listener from the moment it is registered and jump through hooked slots as
long as there are any. Of the listener and the hooks it has what uses the things
that `start` creates: a callback (`Authorize` to `Defer`) that goes through
`FltHookVnodeVop` for a vnode and then for its parent, with the check for the table
(`Check`) apart from the hooking (`HookVop`); a hook function (`EnterHook` to
`LeaveHook`) that uses the table to the end, also after the reclaim's part of it has
unhooked the last vector (`UnHookVop`). `VNodeHook` has them in full, in a driver
that has been started, and `VNodeHookLife` maps it to these steps: a vector is
`hooked` from the entry in the table on until its last slot is restored (`Led`), and
the position of a thread says which of the places of `Lifecycle` it is in. `Driver`
is `VnodeLayout` and `Lifecycle` at once, with the result of the search as the one
`start` goes on with.

### Decoder and the code

A step of `Decoder` is a phase of `decode_internal` or `decode_inst`: a prefix,
the walk through the tables, ModR/M, an operand, a suffix, the result.
`Prefixes`, `Instructions` and `Operands` are the functions it calls. A byte is a
number, a set of flags a set of names; `ps` is `_PrefixState`, `ci` the
`_CodeInfo` inside `decode_inst`, where the byte that was taken off the length
last stays under the cursor, as in the code. `Byte` returns 0 for what lies
behind the code; `read` collects the positions the code dereferences. The trie
is a constant; `MCDecoder` has an excerpt with every type of node, of operand
size and of prefix. The definitions were also compared with the compiled library
on several thousand random codes, made from the excerpt and, with the whole of
`insts.c` as the trie, around mandatory prefixes: first bytes, lengths and unused
prefixes of all results agree.

## Runs

All bounds are in the `.cfg` files.

| run | instance | states | what it shows |
|---|---|---|---|
| `core` | 2 threads, 3 vnodes of one vector (a directory, two files), 3 entries, 3 authorisations | about 614 000 | types, exact references, agreement of slots and table, forwarding, reclaim first, the range of the counters |
| `volumes` | 3 threads, 2 vectors, a directory, a symbolic link in it and the root of another volume, 2 authorisations | about 319 000 | the inductive invariant, for two vectors at once; the listener and the hooks do no more than `Lifecycle` has |
| `transparent` | 2 threads, 2 vnodes, 2 entries, 2 authorisations, fairness | about 77 500 | the refinement, and that every call is short and ends |
| `table` | 3 keys, 6 cells, one or two buckets, three settings | about 14 700 | lists, counters, memory, iteration; the refinement of `Dictionary`; a rehash ends |
| `copy` | pages of 4 bytes, all offsets, lengths up to two pages, five memories | about 1 500 | a prefix is copied, the result is its length, a word is written at once, chunks are as long as pages allow |
| `start` | the kernels of `MCVnodeLayout`, 2 threads, 2 vectors, 2 references of IOKit, fairness | about 28 500 | the search is safe and ends; nothing outlives the driver |
| `decode` | the codes of `MCDecoder` in three modes, with room for 0 to 30 results | about 93 500 | reads and results stay inside; results tile the code; prefixes are accounted for; the decoder ends |
| `removed`, `uncount`, `counter`, `order` | as `core`; `counter` with one vnode, `order` with the whole array | until violated | the first four disagreements below |
| `candidate` | kernels whose two vnodes have a pointer of their own | until violated | the fifth disagreement below |

Why the bounds are enough: two threads give each pair of functions all their
interleavings; three vnodes of one vector allow an authorisation after a
removal while an old entry is still held; three authorisations make a vector be
hooked, unhooked and hooked again under a running hook; three entries let a
freed cell and two live ones coexist. `MaxAuth` is the only cap on a counter.
The array of hooks is cut to its first, a middle and its last element: first for
the order, last because it has no offset. What two threads cannot show is the
subject of the proofs, which have no bound.

- `table`: three entries of one bucket are the first, a middle and the last one
  of a list, which are the cases of `transpose`, `move_to_front` and
  `remove_from_chain`; one or two buckets make a rehash separate and merge
  chains; six cells are two tables of three entries, as a rehash needs at its
  peak. `Load` is 1 where the code has 2, so that three keys can exceed it.
- `copy`: pages of four bytes allow every pair of offsets; two pages of each
  give up to four chunks.
- `start`: pages of four words; between v_op and v_data there may be a stray
  value of each kind (no address, an address in the vector, not aligned, at the
  end of a page, in a page without mapping, before the vector, from where all
  functions are met and the search is misled, and, in fewer kernels, the second
  vnode's data, which ends the walk over both vnodes early); vectors that end
  in the page or in the next one; mounts with and without a table of functions.
  The limits (5 slots, 3, 2 functions, 3 bytes of code) are 100, 50, 4 and 100 in
  the code, and the page is 4096 bytes; they stand in the same order.
- `decode`: each instruction of the excerpt with each prefix, pairs of prefixes
  that meet in the code (66 with REX, F2 with F3, two segments, two of one
  type), 9, 14, 15 and 17 prefixes around the limit of 15 bytes, and each code
  cut off after each byte.

Symmetry is used in runs that check safety only: for threads and entries, and in
`table` for the two cells of each key, of which a free one is as good as the other.
Deadlock is checked in the runs of the hooks and of the table; a behaviour of
the hooks ends only when all vnodes have been reclaimed and all threads are idle
(`Finished`). In `copy`, `decode`, `candidate` and `start` the function returns,
or the driver is freed, and nothing is left to do.

Properties:

- `RefsExact`: the reference count of an entry is the number of its owners
  (the table, threads that retrieved it, the thread that made it).
- `SlotsMatchTable`: outside the two loops a vector with an entry has all its
  hooks and the entry has all originals; a vector without one has none.
- `ForwardsToOriginal`: a call is forwarded to what the file system put there.
- `ReclaimHookedFirst`: no slot of a vector is hooked before its reclaim.
- `CounterInRange`: the counter of a vector is at most two for each callback so
  far, one for the vnode and one for its parent, and at least minus two for each
  vnode reclaimed so far.
- `Inv`: the above with the ownership of the lock and of the entries.
- `UsesLife`: the refinement of what `Lifecycle` has of the listener and the hooks.
- `Transparent`: the refinement of `TransparentFilter`, with its fairness.
- `CallsAreShort`: a call takes no more steps of its thread than its position
  allows (`StepsLeft`), whatever other threads do. `CallsComplete`: every call
  comes to an end.
- `ListsSound`: each list of each table is a chain of allocated entries, from its
  head to its end, with inverse pointers both ways; each entry is in the bucket of
  its key and on the list by age. `CountsExact`: the counters are the lengths.
  `MemoryExact`: what is allocated is what the tables and a pending insertion own.
  `IterationComplete`: an iteration returns each entry it has to once.
  `ImplementsDictionary`: the refinement, in which a removal or an eviction may come
  at any time, and with it which steps of the table may take an entry
  (`MayTake`): a removal of its key, an insertion into its own full bucket, the end
  of a rehash that had no memory for it, the end of the table. `RehashAdvances`: each turn of a rehash leaves one entry less
  to copy, copied or not, and it ends when none is left.
- `CopiesAPrefix`, `ShortOnlyIfUnmapped`, `WordAtOnce`: see the run `copy`; the
  third one is what makes a slot written by the hooks either old or new to the
  kernel that jumps through it, as `VNodeHook` takes it. `ChunksAreLong`: each turn
  of the loop copies something, and up to the end of a page unless that is all.
- `ReadsMapped`: the search reads no address that is not mapped. `FakeFsdGone`:
  its vnodes and the fake file system are gone when it ends. `HooksFindTheSlots`:
  when something may be hooked, the offsets are those of the kernel, if the kernel
  marks what the search looks for: no word of the page searched but v_op, which
  points to the vector, leads to as many fake functions as there are (`VopMarked`),
  and no word of a mount but the pointer to the vfsops to as many functions as the
  search wants (`VfsMarked`). The code relies on both and can check neither: a pointer
  shortly before the vector, found between v_op and v_data, misleads it, and the
  run has kernels with one.
  `SearchAdvances`: each step of the search leaves less to search (`SearchLeft`).
  `StartEnds`: start returns; beyond `SearchAdvances` it says that neither the search
  nor the rest of start comes to a dead end.
- `TableOutlivesUse`: wherever a thread may come into the driver it finds the
  layout and the complete table. `FreedForGood`: a driver that was freed leaves
  nothing, neither memory nor a listener nor a hook. `StaysLoaded`: a driver that
  has started is not freed.
- `ReadsInside`, `RoomKept`: no byte behind the code is read, no result behind
  the array written. `EntriesTile`: the results are consecutive pieces of the
  code. `WholeInstructions`: an instruction is decoded in full or not at all,
  judged by the assembled ones of the instance. `PrefixesAccounted`: a prefix that
  is not reported unused is used or belongs to the opcode; the converse is not
  claimed, since the code reports some used ones as unused (see `prefix.c:102`
  below). `DecoderAdvances`: each step leaves less to decode
  (`DecodeLeft`). `Decodes`: the decoder ends, and not in a dead end.

Each property of a passing run has a mutant of the model, a plausible bug in
the code, that violates it: an entry not referenced by the table, the second
look-up skipped or not locked, an insertion whose failure goes unnoticed, an
exit that skips the unlock, and so on. The mutants are the operators marked so
in the modules; no action uses them.

### Fairness

`WF(Step(t))`: a kernel thread inside the driver is scheduled, it does not block
except on the lock. `SF(LockExclusive(t))`: a waiting writer gets the lock
although readers come and go, since `IORWLock` holds new readers back while a
writer waits. Nothing is assumed of the kernel: it need not call anything.

`Driver`: `WF` of the thread of `start` (`Searching`, `Searched`, `Starting`), which
IOKit schedules; none of stop, free, IOKit or the listener. `Decoder`: `WF(Next)`,
a function that runs to its end in one thread. The other modules have neither
fairness nor liveness properties.

## Disagreements between the code and what it says of itself

1. `removed`: the entry that `FltUnHookVnodeVop` removes may count vnodes
   (assertion at `VNodeHook.cpp:568`). The comment before it foresees that the
   table's entry has gone, not that another has taken its place.
2. `uncount`: the counter goes below zero (assertion at `VNodeHook.h:210`), since
   a reclaim uncounts vnodes that no authorisation has counted.
3. `counter`: the counter counts authorisations, not vnodes (comment at
   `VNodeHook.h:109`).
4. `order`: four operations are hooked after lookup and create (comment at
   `VNodeHook.cpp:46`).

5. `candidate`: the search compares the word before v_data of the first vnode
   with itself (`FltFakeFSD.cpp:2028`), where the comment has both vnodes. A
   private pointer of the first vnode is taken for a candidate; it does harm only
   if all fake functions are found from there.

None of the first three breaks forwarding: a vector unhooked too early is only
not filtered until the next authorisation, one unhooked too late stays hooked.

Others that no run shows, since no property depends on them:

- `CommonHashTable.cpp:582` says that an evicted entry is unlinked first so that
  the callback can insert it again, and `CommonHashTable.h:320-322` that the
  callback may return -1 to spare the entry; its type returns nothing, and the
  entry is freed after it. `ght_rehash` promises to retain all elements
  (`CommonHashTable.h:558`), drops those it has no memory for with a message only,
  and ignores the bucket limit.
- `FltFakeFSD.cpp:1578` says that DECRES_MEMORYERR means that the buffer ends
  inside an instruction: it means that there is no room for more results.
- `prefix.c:102` says that only one prefix of each type can be set in the flags:
  they are accumulated, so that with two segment overrides an operand uses both
  or neither, and a LOCK that is used counts as unused after a REP
  (`prefixes_use_segment`, `prefixes_set_unused_mask`).
- Three assertions of a debug build do not hold in `VnodeLayout`: that both vnodes
  have their data where the walk stops (`FltFakeFSD.cpp:2003`; the loop at 1954 stops
  at the first match), that an offset is unknown before it is found (2054; an
  earlier candidate may have left one), and that two vnodes were made when the
  search gives up (2108; with the first alone there is one). The release build goes
  on, and the properties hold all the same.
- A REX that does not come last is dropped but for its letters
  (`decoder.c:463`, `In64`).
- `start` releases the driver when it fails (`FsdFilter.cpp:87`), a reference that
  IOKit releases as well. `Lifecycle` has it: the references run out early, and
  `FreedForGood` shows that what was created is freed once all the same.

## Proofs

Assumptions: the named ASSUMEs of `VNodeHook` (the sentinels are distinct, the
vector and the parent of a vnode are given, operations are hooked once each and
reclaim is among them, threads and vectors are finite sets).
`ReclaimIsHookedFirst` also assumes that reclaim is the first element of the
array and has an offset, which the code's array satisfies. The other modules
name theirs in the same way; what they say is given below with the proofs that
use it.

`VNodeHookProofs` proves `Spec => []Inv`. None of the properties is inductive by
itself. `ForwardsToOriginal` needs to know, at the time the original is read
from an entry, that the entry still has it although it may have left the table
(`CallsOK`); that needs `SlotsMatchTable` when the entry was retrieved under the
shared lock, which needs that no one is in a loop then (`LockOK`), and that no
one will write to the saved functions of an entry a reader holds: only the
thread that allocated an entry writes to them, and nobody else has it before its
slots are written (`OwnersOK`). `SlotsMatchTable` needs to be known in the middle
of the loops as well: `Hooking` and `Unhooking` say what has been rewritten up to
`idx[t]`. That an allocation cannot return a cell in use follows from
`RefsExact`. The proof is laid out in that order: types (`StepTypeOK`, per part
of the state), the lock, the references, the owners, the slots, the calls; each
part first reduces the actions to the few ways in which they can move the
variables concerned, and then proves the part once per way. `InvInductive`
combines them.

`VNodeHookProofs` also proves (`HooksAreTransparent`) that each step of the hooks, from a state
that satisfies `Inv`, is a step of `TransparentFilter` or changes nothing there:
only the addition and the removal of an entry, the jump, the discovery of the
original and the return are visible.

The range of the counters is `CountersStayInRange`. Since the code tests its counter
after it has let go of the lock, and takes off what was never put on (`uncount`), a
counter has no bound in the vnodes of its vector; it has one in the calls. The
invariant (`CountOK`) adds to the counter what callbacks under way may still count
(`ToCount`), which is at most two per callback, and bounds it from below by the
pairs of a reclaimed vnode and itself or its parent whose uncounting is past
(`Uncounted`); that no pair is passed twice needs that a vnode is reclaimed by one
thread, once (`ReclaimedOnce`). `CounterNeverWraps` draws the conclusion for the code's
32 bits: with fewer than 2^30 callbacks and at most 2^30 vnodes no counter wraps.
It is a bound on the calls, and the code keeps none: a vector whose vnodes are
authorised 2^31 times between two reclaims would wrap. `HooksLeakNothing` is what is
left when all calls have ended: the allocated entries are those in the table, each
once, with the table's reference alone.

`HooksUseTheDriver` connects the hooks with the life of the driver: each step of
`VNodeHook` is a step of the listener or of a hook of `Lifecycle`, or none, which
needs that a slot is hooked where the kernel enters a hook function, and that a
vector comes into use and goes out of it only under the lock (`Inv`). The steps are
first reduced to moves between places (`FollowPlaces`), then to what they do to the
vectors in use (`StepLed`). `UseIsLife`, in `LifecycleProofs`, says that a driver on
which only such steps work is in the middle of a life as `LifeInv` describes it, where
the table outlives its users. With both, what `Lifecycle` takes the code in
`VNodeHook.cpp` and `Kauth.cpp` to do is shown of the model that has it in full.

`HashTableProofs` proves of the table, for any keys, cells, hash function, sizes
and settings, all that the run `table` checks. The assumptions are those of
`HashTable`: the sentinels are no key, no datum and no cell, and the sizes within
the bound stay within it when they are rounded up (`MaxSizeAssumption`). The
inductive invariant is `HInv`. None of the properties is inductive alone. A
relinking keeps a list only where all pointers agree both ways; a counter is
right only where no cell is in two buckets; an eviction or the end of a rehash
frees what is in no list only if every cell is accounted for (`MemoryExact`);
`CallInv` says what is known while an insertion waits for its rehash, and
`IterInv` what an iteration has seen and still owes.

- A walk along the pointers (`Reach`) is an induction over data, which the prover
  does not do. The proofs go around it: a list is a set of cells with inverse
  pointers, closed under them, in which no proper part that contains the head is
  closed. From that the set that a walk meets is known without counting its
  steps, and what an insertion at either end, a removal, a transposition or a
  move to the front does to it can be proved once per operation.
- From one list the argument goes to the lists of one table (`IsTable`: the
  chains are disjoint, hold what hashes to them and make up the list by age),
  from there to the two tables of a rehash (`TablesInv`), and from those to the
  calls, each by what it does to a table.

`TableIsADictionary` is the refinement in full, since `Dictionary` has no
fairness: `Spec => ImplementsDictionary`. The order of age is a relation between
cells there (`Follows`: a walk from the one meets the other), from which the
dictionary's order between keys is read off. Each call has an effect on the list
by age and on what its cells hold: an entry is added, leaves (`Leaves`), is put
out by a new one (`Evicts`), is copied (`CopiesTo`), or the copy becomes the
table (`TakesOver`). `EntriesHeld` turns what the cells hold into what a search
finds. Linking is then `Insert`, `Replace` and `Remove` are what they are called,
finalizing is `Clear`, an entry without memory is `Deny` and the end of a rehash
`Forget`; everything else is a stutter. The same lemmas say which key goes and that
the step may take it (`TakesRightly`): an entry put out has the bucket of the new
one (`Evicts`). `HInv` does not suffice for the end of a rehash: `DInv` adds that the copy so far has the data and the order of what was
copied, and that what was neither copied nor denied is still to come (`Copies`).
Both invariants were checked on the instance of `table` before they were proved.

`LifecycleProofs` proves `LifeInv`: what is allocated (`HeapOfPhase`), which flags
are set (`FlagsOfPhase`) and how many references there are (`RefsOfPhase`) in each
phase. `StaysLoaded` needs the count of references: start's own retain is the one
that IOKit does not give back. `TableOutlivesUse` and `FreedForGood` follow from
the phases in which the listener is registered. It assumes that IOKit holds more
than one reference (`KernelRefsAssumption`), as it does while it starts a driver:
with one only, the release on failure would free the driver inside start.

`VnodeLayoutProofs` proves `TypeOK`, `ReadsMapped` and `FakeFsdGone` for any memory. The
invariant of the first (`ReadInv`) says of each pointer that walks how it relates
to the address from which the walk started: at most a page further, on the page
of the start or on the next one, which was tested when the walk crossed into it.
It uses `KernelsAssumption` (the first words of vnodes and mounts are mapped) and
`WordAssumption` (a word and the code fit into a page). `PageLemmas` has the
arithmetic. That the pointers of the walks and the offsets they yield are natural
numbers needs more (`Together`): both pointers are as far from their vnodes as the
candidate says, so that a walk backwards stops at the vnode, and the search in a
mount never leaves it downwards.

`LayoutFound` is what the search is for: when it succeeds, the layout is that of the
kernel, for any memory that marks it. Nothing is assumed of the memory besides:
the marks are the premise of the property (`LayoutRight`), each for what it is the
mark of. The invariant (`LayoutInv`) says that `hits` is the number of slots with a
fake function since the candidate was taken, and that the offsets of all
functions met there are right, although earlier candidates may have left some.
At the end there have been as many such slots as there are functions; in a marked
kernel that candidate is v_op, and since no function is in two slots of the vector,
as many slots are all functions. It uses that the functions of the fake file system
differ and that there are finitely many (`ImplAssumption`), and that the limits are
natural numbers (`WordAssumption`).

`WiredCopyProofs` proves the types and all three properties of the copy for any page size and
memory, from `RequestsAssumption`: no physical byte is twice in the destination
or in both ranges. The invariant adds to `CopiesAPrefix` where the pointers stand
and that the source is still as it was.

`DriverProofs` proves that `Driver` implements both `Lifecycle` and the safety
part of `VnodeLayout`, so that the theorems above hold of the driver as a whole
(`DriverLife`, `DriverSearch`, `DriverTypes`). `HooksFind` needs both halves at once: a thread
hooks only while the layout is known (`TableOutlivesUse`), that is known only after
a search that succeeded (`LayoutKnown`), and such a search found the kernel's.

`DecoderProofs` proves `TypeOK`, `ReadsInside`, `RoomKept`, `EntriesTile` and
`PrefixesAccounted` for any trie of instructions, any limit of an instruction's length and any calls of the
form that `CallsAssumption` states. `insts.c` need not be trusted for them: nothing
is assumed of a node, not even that its lists are complete. The invariant
(`DecoderInv`) says where the prefixes, the cursor and the last result stand in
each phase: at least one byte is left for the opcode (`PrefixesPlaced`), the cursor
and the length name the same end of the code, up to the byte that stays under the
cursor (`CursorPlaced`), a result's worth of room is left (`RoomForOne`), and the
results end where the instruction's prefixes start (`ResultsTile`). Each look-up
has an `Outcome`: how many bytes it takes off the length, how many it reads, that
it leaves the prefixes where they are. A look-up that runs out of code takes the
byte it misses off the length and does not read it; only one with a VEX prefix
can take none, and then the cursor stands before the opcode for a moment.

`PrefixesAccounted` speaks of a step, the look-up, and of the bytes before it: each
byte taken for a prefix is afterwards reported unused, used, or part of the
opcode. The invariant (`PrefixesFollowed`) says that up to the result all bytes
from the first prefix to the opcode are known by their places (`Complete`), that
each place that is known has the byte of its type (`Accounted`), and that a
prefix becomes mandatory only in the look-up. Each function of `instructions.c`
and `operands.c` keeps what is known and only adds to what is unused (`Kept`).

No loop goes on for ever: that part of liveness is proved, without fairness and
for any number of threads, any memory, any code and trie. Each loop has something
that every turn makes smaller.

- `CallsTakeFewSteps`: `StepsLeft` is a number of steps in the length of the array
  of hooks, and a step of a thread lowers its own and no other's. It uses that no
  vnode is its own parent (`FileSystemAssumption`), as a call would otherwise hook
  the parent again and again. `LockComesFree` adds that no thread waits for one
  that waits; so what `CallsComplete` needs besides is only that the lock is
  granted, which is the fairness it assumes.
- `SearchIsBounded`, and `DriverAdvances` of the search as start runs it:
  `SearchLeft` is a tuple of numbers, the stage first, that descends (`Descends`).
  The walk forwards stays within a page, the one backwards stops at the vnode,
  those over slots, words of a mount and its table end with their limits
  (`LimitsKept`); a step back into an outer loop leaves less of that one.
- `DecodingIsBounded`: `DecodeLeft` is the code from the next instruction on, then
  the phases of an instruction, with its prefixes and operands. A way round that
  takes no byte would violate it: dropped prefixes are at least one, an
  undecodable byte is one. An instruction has four operands at most, since the
  loop of `decode_inst` (`decoder.c:178`) tries no more.
- `RehashIsBounded`: what `ght_rehash` has yet to copy (`ToCopy`, the walk from where it
  is on the old list by age) loses one entry with each turn. It uses that the copies
  are cells of their own, so that relinking them leaves the old list's order alone
  (`HInv`).
- `CopyIsBounded`: each chunk is at least a byte, and all but the last end at the
  end of a page of the source or the destination, which bounds the turns by the
  number of pages.

Only model-checked:

- liveness (`CallsComplete`, `StartEnds`, `Decodes`, the fairness part of
  `Transparent`): that a step which can be taken is taken needs fairness and
  ENABLED, which are beyond the prover; that the steps come to an end is proved;
- `WholeInstructions`, which is about the instructions of the excerpt;
- the five violated claims.

## Plan

| order | module | contents | status |
|---|---|---|---|
| 1 | `VNodeHook` and its companions | the core: hooks, listener, VFS calls | done |
| 2 | `TransparentFilter`, `VNodeHookRefinement` | the abstract promise and the refinement | done |
| 3 | `VNodeHookProofs` | invariant, safety, step simulation | done |
| 4 | `LinkedList`, `HashTable`, `Dictionary`, `HashTableRefinement` | buckets and age list at the level of pointers; heuristics, eviction, rehash, iterator; refines a map | done |
| 5 | `Lifecycle`, `LifecycleProofs` | start, failing at every step, the callback before start returns, free; invariant proved | done |
| 6 | `KernelMemory`, `WiredCopy`, `WiredCopyProofs` | the copy loop over pages against its definition, proved | done |
| 7 | `VnodeLayout`, `VnodeLayoutProofs` | the search for `v_data`, then backwards for `v_op`; the search in a mount; types and safety proved | done |
| 8 | `Driver`, `DriverProofs` | search and life cycle composed; implements both | done |
| 9 | `Prefixes`, `Instructions`, `Operands`, `Decoder` | the decoder that the search runs on unknown memory | done |
| 10 | `DecoderProofs` | types, reads, room, tiling and prefixes for every trie and code | done |
| 11 | `HashTableProofs` | `HInv`; types, lists, counters, memory, iteration; the refinement of `Dictionary` | done |
| 12 | `VnodeLayoutProofs`, `DriverProofs` | the layout found is the kernel's, and the hooks use it | done |
| 13 | the proof modules | what is left descends: calls, search, decoder, copy, rehash | done |
| 14 | `VNodeHookInvariants`, `VNodeHookProofs` | the range of the counters; calls leave nothing behind | done |
| 15 | `VNodeHookLife`, `VNodeHookProofs`, `LifecycleProofs` | the hooks implement what the life cycle has of them | done |

## Not modelled, and why

- `VersionDependent.cpp`: not compiled in; constant tables.
- `distorm3/src/insts.c`: a table that a program generated; it is a parameter.
- `distorm3`: registers, sizes and values of operands, opcode numbers, and the
  text interface, on which no control depends. The search compares the opcode
  numbers of two results: that is `IsFunction`, a set of addresses.
- The stubs of the fake file system's operations: they return errors or zero.
- The values of the hash functions and the debug fields of the table.
- The wrap of the 32-bit counter itself: it is an integer in the model, and
  `CounterNeverWraps` says up to which number of callbacks and vnodes it is one in the
  code as well.
