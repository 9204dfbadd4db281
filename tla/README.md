# Models, model checks and proofs for the verified NrOS components

The repository holds two systems written in Rust with Verus specifications:

* `page-table/` - a page table for an x86-64 kernel, the operating system state
  machine around it (system calls, kernel lock, TLB shootdown) and the
  specification a user process sees;
* `verified-node-replication/` - node replication (NR): a sequential data
  structure is copied to every NUMA node, updates go through one shared log, the
  threads of a node hand their updates to a flat combiner.

The two do not call each other. Verus proves the code step by step, with ghost
tokens that travel along the atomic accesses. This directory looks at the same
code from the outside: as interleaved steps of cores, threads and combiners that
TLC explores completely on small instances, with theorems that TLAPS proves for
every instance.

Paths below are relative to `src/`; `nr/` stands for
`verified-node-replication/verified-node-replication/src/`, `pt/` for
`page-table/`.

## 1. Inventory

| Component | Source | State | Operations |
|---|---|---|---|
| OS state machine | `pt/spec_t/os.rs` | a system call per core, shootdown request, ghost flag `sound` | map and unmap in several steps each, shootdown and acknowledgement, hardware steps |
| Hardware | `pt/spec_t/hardware.rs`, `mem.rs` | physical memory, a TLB per core, page table memory | load and store, page fault, TLB fill and evict |
| Page table specification | `pt/impl_u/spec_pt.rs`, `definitions_t.rs` | the mappings | map start/end, unmap start/end, stutter |
| Process-level specification | `pt/spec_t/hlspec.rs`, `impl_u/os_refinement.rs` | mappings, virtual memory, a call per thread | the same calls, without cores, lock and TLBs |
| Page table implementation | `pt/impl_u/l2_impl.rs`, `l1.rs`, `l0.rs`, `l2_refinement.rs` | tree of page directories in memory | `map_frame`, `unmap`, `resolve` |
| Memory model of page table accesses | `pt/spec_t/atomic_mmu.rs` | store buffers, paging-structure caches | work in progress in the source |
| Traces and client layer | `pt/os_trace.rs`, `hlspec_user.rs`, `extra.rs` | - | experiments above `hlspec.rs` |
| Reader-writer lock | `nr/exec/rwlock.rs`, `nr/spec/rwlock.rs` | writer flag, reference counts, the cell | acquire and release, for reading and writing |
| Shared log | `nr/exec/log.rs` | cyclic buffer with alive bits, head, tail, version per replica, upper bound | `append`, `advance_head`, `execute`, read-side queries |
| Circular buffer tokens | `nr/spec/cyclicbuffer.rs` | the permissions to the cells, reader and combiner state machines | 15 transitions |
| Replica and contexts | `nr/exec/replica.rs`, `context.rs`, `mod.rs` | combiner lock, contexts, buffers | `register`, `execute_mut`, `execute`, `try_combine`, `combine` |
| Simple log | `nr/spec/simple_log.rs` | the log of updates, requests in flight | the promise to clients: start, take effect, end |
| Unbounded log tokens | `nr/spec/unbounded_log.rs`, `..._refines_simplelog.rs` | log, replicas, versions, reads and updates in flight, a state per combiner | 14 transitions, ticket in and stub out |
| Flat combiner tokens | `nr/spec/flat_combiner.rs` | client and slot per thread, the combiner's list | 8 transitions |
| Linearizability | `nr/spec/linearization.rs` | - | definitions over behaviours |
| Counter, embedding, constants | `nr/counter.rs`, `extra.rs`, `constants.rs`, `lib.rs` | - | an instance of `Dispatch` |

Not part of the inventory: `verified-node-replication/benchmarks`, `tools`,
`notes`, `relatedwork` and the empty submodule directories: no logic of the
verified components lives there.

How they interact:

* A system call runs on the core its thread is pinned to. Cores share the kernel
  lock (implicit: some core is in a state that holds it), the page table memory
  and one shootdown request. The MMU of every core reads the page table at any
  moment and caches what it finds.
* Threads of a replica share contexts and the combiner lock; whoever gets it
  collects the updates of all, takes the reader-writer lock for writing and works
  on the shared log, which the combiners of all replicas access with atomics only.
  Reads take the reader-writer lock for reading after comparing two versions.

* The page table implementation runs inside the map and unmap steps of the system
  call that holds the kernel lock, one call at a time. It shares the memory of its
  directories with the MMUs, which walk it between any two of its accesses, and
  takes directories from an allocator.

What is hard about them: the TLB refill races with unmap, the order of eviction,
acknowledgement and return; operations of different page sizes that overlap;
directories that are linked, emptied and freed while the MMU walks through them;
the reader/writer handshake with two flags and many counters; entries that are
reserved before they are filled; values (head, tail, versions, counts) that are
loaded in one step and used several steps later; the alive bit whose meaning
flips every round; progress that depends on somebody else's step. The list with
lines and the properties that cover each point is `hazards` in `PROJECT.json`.

## 2. Modules

### Page table and operating system

| Module | Models | Correspondence |
|---|---|---|
| `Definitions` | `definitions_t.rs`, `mem.rs` | regions, `overlap`, `aligned`, entries, flags, `candidate_mapping_*` |
| `Hardware` | `hardware.rs`, `spec_pt.rs` | `mem`, `tlb`, `pt` (= `interp_pt_mem`), `free_pages` (= `alloc_available_pages`); the memory steps and the page table operations inside OS steps |
| `OS` | `os.rs` | `core_states`, `TLB_Shootdown`, `sound`; an action per `step_*`, same names |
| `OSProperties` | invariants named in `os.rs`, and more | fairness and progress too |
| `HLSpec` | `hlspec.rs` | an action per `step_*` of the process-level specification |
| `OSRefinement` | abstraction function of `os.rs` | `RefinesHLSpec`, and what loads observe |
| `OSProofs` | - | theorems about the lock, shootdown, stale translations, overlapping mappings and calls, loads, and the refinement of `HLSpec` |
| `MCOS` | - | instances |
| `Arch` | layers of `definitions_t.rs`, `definitions_u.rs` | entry sizes, `index_for_vaddr`, `entry_base`; 4096 and 512 are constants |
| `PageTableMemory` | `mem.rs` | `regions`, `region_view`; allocation, deallocation, read and write of a word |
| `PageTableWalk` | `hardware.rs` | `PageDirectoryEntry::view`, the walk, `interp_pt_mem` |
| `PageTableSpec` | `spec_pt.rs` | an action per `step_*` |
| `PageTableContents` | `impl_u/l0.rs` | the page table as a map: `map_frame`, `unmap`, `resolve` |
| `Directory` | `impl_u/l1.rs` | the page table as a tree: the same operations, written as what a function does in one directory and unrolled over the four layers |
| `DirectoryProofs` | - | theorems about all trees: layer 1 refines layer 0 |
| `PageDirectory` | `impl_u/l2_impl.rs` | `map_frame_aux` and `unmap_aux`: an action per branch and per access of the memory |
| `PageDirectoryRefinement` | `PT::inv` and the ghost tree of `l2_impl.rs` | `PageTableInv`, the mapping to `PageTableSpec` |
| `PageDirectoryProofs` | - | theorems: the tree in memory, what the MMU sees of it, and the refinements between the layers |
| `PageDirectoryProperties`, `MCPageDirectory` | `PT::interp` and the postconditions of `l2_impl.rs` | the refinements between the layers; instance |

`Core { NUMA_id, core_id }` is one element of the set `Core`. `OS` sees
the page table memory as the mappings a walk finds, `interp_pt_mem`, and changes
them in one step; that the words of four levels of directories provide this is
`RefinesPageTableSpec`, below. The core whose TLB serves an access is a parameter of the hardware
step of its own, as in the source, which does not tie it to the core of the
thread. Loads carry the value they observe through `LoadsRefineHLSpec`: what a
load returns from physical memory through a TLB is what `HLSpec` says.
`step_Map_Start` and `step_Unmap_Start` keep the precedence of the source:
`s2.sound == s1.sound && step_Map_sound(..)` is a guard, not an assignment.

The recursion of `map_frame_aux` and `unmap_aux` is a stack of activations
(directory, first address). A word is the record of the bits that translation and
the implementation look at; bits 12 to 51 stay one number, so that address masks,
reserved bits and the PAT bit of large pages are arithmetic on it. The ghost tree
`PTDir` is a function of the memory and is computed from it, in
`PageDirectoryRefinement` as the set of directories of each layer and in
`PageDirectoryProperties` as the tree that `PT::interp` makes of it. What
`l1.rs`, `PT::interp` and `resolve` do by recursion in the layer (`inv`, `interp`,
`map_frame`, `unmap`, `resolve`) is an operator for one directory (`map_frame_at`),
given what the function returns for the directory below, and four instances of it
(`map_frame3` up to `map_frame` for the root). A page that is not
allocated is filled with present entries that refer back to it: the source leaves
its contents open, and this is the worst of them for a walk that gets there.
`mappings`, `dir` and `old` are history variables for the properties: what the MMU
finds in the memory, the tree it holds, and the tree at the start of the call.

`spec_pt.rs` as it stands has a step at the start and one at the end of a call.
The entry of an unmap goes in `step_Unmap_Start`, the one of a map comes in
`step_Map_End`; the refinement puts these at the write of the page's entry and
everything else of the call in between is a stutter. `UnmapCall` is the beginning
of an unmap call that has not written yet.

### Node replication

| Module | Models | Correspondence |
|---|---|---|
| `Dispatch` | the trait `Dispatch` of `lib.rs`, external | a data structure that remembers all updates, so that two orders of updates never look alike |
| `RwLock` | `exec/rwlock.rs` | an action per atomic access and per access of the cell |
| `RwLockSpec` | `spec/rwlock.rs` | an action per transition; tokens that occur several times are bags |
| `RwLockRefinement` | the tokens each access takes and returns in `exec/rwlock.rs` | the tokens as a function of the lock, `RefinesRwLockSpec` |
| `RwLockProofs`, `MCRwLock` | - | theorems; instance |
| `CyclicBuffer` | `spec/cyclicbuffer.rs` | an action per transition; the permission of a cell is known by the logical index under which it was deposited |
| `CyclicBufferProofs` | - | theorems |
| `NrLog` | `exec/log.rs` | an action per atomic access and per access of a cell; locals of `append`, `advance_head`/`find_min_local_version` and `execute` in `ap`, `ah`, `ex` |
| `NrLogProperties` | the tokens each access takes and returns in `exec/log.rs` | properties, mapping to `CyclicBuffer` |
| `NrLogProofs`, `MCNrLog` | - | theorems; instance |
| `SimpleLog` | `spec/simple_log.rs` | an action per transition, with the label a client sees |
| `UnboundedLog` | `spec/unbounded_log.rs`, `add_ticket` and `consume_stub` of `lib.rs` | an action per transition, with the label a client sees; `BatchSpec` adds the two steps in which the implementation does several transitions at once |
| `UnboundedLogRefinement` | invariants of `unbounded_log.rs`, `spec/unbounded_log_refines_simplelog.rs` | same names; the interpretation as a simple log |
| `UnboundedLogProofs`, `MCUnboundedLog` | - | theorems; instance |
| `FlatCombiner` | `spec/flat_combiner.rs` | an action per transition |
| `NodeReplication` | `exec/replica.rs`, `exec/context.rs` | threads, contexts, flat combining and reads on top of `NrLog` |
| `NodeReplicationRefinement` | the tokens that `exec/replica.rs`, `exec/context.rs` and `exec/log.rs` take and return | mappings to `SimpleLog`, `UnboundedLog` and `FlatCombiner` |
| `NodeReplicationProofs`, `MCNodeReplication` | - | theorems; progress and instances |

The levels form a chain, as the ghost code of the repository does: every step of
`NodeReplication` is a step of `UnboundedLog` or none, every step of
`UnboundedLog` is one of `SimpleLog`; below, every step of `NrLog` is one of
`CyclicBuffer` or none, and beside it every step of the contexts is one of
`FlatCombiner`. Two things take one step in the code and several transitions in
`UnboundedLog`: a compare-and-exchange that puts a batch into the log, and a read
with its return. `BatchSpec` of `UnboundedLog` and of `SimpleLog` say so.
A request of `NodeReplication` is named by its replica and thread. Its combiner
is in the state `Placed` of the token machine from the moment its batch is in the
log, whatever the code does in between (fill the cells, advance the head).

`NrLog` has as ghost `log` every entry ever reserved. A replica has one combiner
at a time, therefore its control state is kept per replica and not per thread;
`NodeReplication` models the combiner lock that makes this true.

`NodeReplication` composes with `NrLog` by extending it: the phase `"log"` of a
combiner is exactly the time between taking and releasing the reader-writer lock
for writing. The lock itself is replaced by what `RwLock` is shown to provide
(exclusion); a read touches the copy once and is one step, possible when no
combiner of the replica is in that phase. `register` borrows the whole
structure mutably, so that it is a step that happens while no call is running.

Definitions that carry a suffix and the comment "Fault:" or "Mutant:" are
deliberately wrong variants of the definition below them. No specification uses
them; each property has at least one that breaks it, listed under `mutants`.

## 3. Runs

| Run | Instance | Shows |
|---|---|---|
| `MCOS_tlb` | 2 cores, 3 threads, addresses {0,2,6}, three small frames and a large one over two of them; 761,184 states | the lock, the shootdown protocol, no stale translation, no overlapping mappings or calls, a cached frame is not reused, a returned unmap has left no trace |
| `MCOS_refine` | 2 cores, 3 threads, addresses {0,1,2}, two values, two words of memory, entries with different flags and two that reach past the end of memory; 82,140 states | `OS` implements `HLSpec`; loads through TLBs return what `HLSpec` returns; the lock is always released |
| `MCOS_tlbinv` | addresses {0,2}, one value | finding 1 |
| `MCOS_sound` | as `MCOS_tlbinv` | finding 2 |
| `page_table` | 2 entries per directory, 4 layers, a page table entry of every page size with flags of its own, 8 pages for directories; 81,755 states up to the names of pages | the directories form a tree that no call leaks from; allocation never fails inside a call; the MMU sees old or new mappings between any two accesses; memory, tree and map agree; the implementation implements `PageTableSpec` |
| `MCRwLock` | 4 threads, 2 slots, three threads share one whose limit is 2; 111,758 states | no lost counts, exclusion, stable guards, refinement of the token machine, no deadlock |
| `MCCyclicBuffer` | 2 replicas, buffer of 3, indices to 7; 82,470 states | order of head, versions and tail; one owner per cell; what alive bits mean |
| `MCNrLog` | 2 replicas, buffer of 3, batches of up to 2, indices to 6; 627,740 states | every access is a transition of `CyclicBuffer`; no data race on a cell; replicas apply prefixes of the log; one answer per operation, in order; `execute` ends |
| `MCNrLog_gc` | 2 replicas, buffer of 3, one operation per batch | finding 3 |
| `MCUnboundedLog` | 2 replicas, 2 requests at a time, log of 3; 2,245,907 states up to symmetry | the invariants of the token machine, and that it implements `SimpleLog` |
| `MCNodeReplication_log` | 2 replicas with a thread each, buffer of 2; 187,796 states | node replication implements `UnboundedLog`, with a buffer that wraps and is collected, and answers every request, also a read on a replica nobody else brings up to date |
| `MCNodeReplication_batch` | 1 replica with 2 threads, buffer of 4; 95,002 states | batches are linearizable (`SimpleLog`), contexts implement `FlatCombiner`, every request is answered |

The simple log is reached in two ways: directly in `MCNodeReplication_batch`, and
for two replicas through `RefinesUnboundedLog` and `MCUnboundedLog`.

### Bounds and why they are enough

* Cores, threads. Shootdown needs an initiator and a core that answers late; the
  third thread shares a core with another one so that "this core is busy" and
  "this thread is busy" differ. For more cores and threads there are the theorems.
* Addresses. A word is 2 bytes, page sizes are 2 and 6. In virtual memory the large
  page at 0 covers the small ones at 0 and 2, and a small page at 6 lies beside it
  (the check against the end of the address space, 10, is strict). In physical
  memory the large frame covers two of the small frames of `MCOS_tlb`; the third one
  lies apart. The two kinds of overlap meet independently of each other: a small page
  on the third frame at 0 or 2 passes every check of frames, so that only the checks
  of virtual memory keep it apart from the large page, those between calls in flight
  and the one at the end of a map; at 6 it is mapped, cached and unmapped together
  with the large page. `overlapping_vmem_inv` has a mutant for each of
  the two checks. In `MCOS_refine` a map of the large page fails on a
  small page in its way, and address 1 is aligned to nothing and exercises the
  guards; its address space, 8, is too small for pages of both sizes at once.
  `MCOS_tlb` is about who maps and caches what, and one word of memory with
  one value is enough; `MCOS_refine` is about what loads and stores see.
* Page table. With two entries per directory every directory has a sibling, and
  the 16 small pages take the place of 2^36. The addresses {0,2,4,6,8,16,24} put
  small pages beside each other in one directory, in sibling directories and below
  different entries of the root, and lie on and inside large and huge pages. Eight
  pages are fewer than the eleven directories these addresses can need and let the
  allocator come down to the three pages a call asks for. The code does not
  compare page addresses, so the view `PageRenamingView` names a page by the
  positions a walk reaches it at and keeps everything else, shared, dangling and
  leaked pages included.
* The lock. Three readers on one slot reach the limit; the fourth thread's slot
  is one the writer passes later than the first.
* Buffer. The alive bit repeats after two rounds. Indices to 7 with a buffer of 3
  reach the third round in `MCCyclicBuffer`; `MCNrLog` uses the buffer twice.
  `MAX_IDX` is the bound of the code itself (a constant there, huge), so that the
  endless loop behind it, the state `"panic"`, is a state of the program.
* `MAX_REQUESTS` bounds a batch, `GC_FROM_HEAD >= MAX_REQUESTS` and
  `GC_FROM_HEAD <= LOG_SIZE` as `constants.rs` has it.
* Two replicas with two threads each are out of TLC's reach; batches (one
  replica, two threads) and replication (two replicas) are checked apart. They
  meet in the batches of `MCNrLog`, which have both.
* The unbounded log. Three entries let a combiner find an entry of its own, one
  of the other node and one more of its own in one pass, with two requests in one
  queue or in two; a request id is used again as soon as it is free.
* In `MCNodeReplication_log` the threads register one after the other or while
  the other one is between two calls.
* Symmetry is used for the three threads of one slot in `MCRwLock` and for the
  request ids in `MCUnboundedLog`, where only safety is checked.
* `Dispatch` has the state after a prefix of a log in closed form; the source
  computes it update by update. `ReplayIsClosedForm` in `MCUnboundedLog` compares
  the two for all logs of up to three entries.

Deadlock is checked in every run. In `MCRwLock` a thread that panicked stays
there, the others go on.

### Fairness and progress

* `OS.FairSpec`: weak fairness of the steps of the core that holds the lock and,
  for each core, of handling the shootdown interrupt (evict, then answer). Both
  run whenever they can: the holder runs in the kernel, the interrupt is taken
  in any state of the core. Nothing is assumed of waiting cores. `LockReleased`
  then says that no core waits for an answer that a waiting core has to give.
* `NrLog.FairSpec`: a combiner inside `append`, `advance_head` or `execute` keeps
  running (weak fairness of its steps). `compare_exchange_weak` may fail for ever.
* `NRFairSpec`: a combiner and a thread with a request keep running (weak
  fairness), and `compare_exchange_weak` succeeds if it could again and again
  (strong fairness of `CasTail`). No fairness is assumed of starting requests.
* `RequestsAnswered` excepts behaviours in which the log is full again and again
  (`LogIsFull`): `advance_head` waits for the slowest replica, and a replica
  without clients never executes (its own comment says so), and see finding 3. In
  all others every request is answered. The exception is wider than appends that
  wait: a read that starves because writers of other replicas fill the log for ever
  is excepted too, and nothing is claimed of it.
* No fairness is assumed of the page table implementation: its calls are
  sequential and end by the depth of the recursion.
* No liveness is claimed for `RwLock`: a stream of readers may keep a writer at a
  count for ever and readers may back out for ever.

## 4. Findings

1. **`TLB_dom_subset_of_pt_and_inflight_unmap_vaddr` is not preserved**
   (`pt/spec_t/os.rs:250`, run `MCOS_tlbinv`). `os_invariant.rs` states that every
   step preserves `tlb_inv`; the case `UnmapOpStart` is closed by `assume(false)`.
   `Unmap_vaddr` leaves out the cores in `UnmapOpExecuting`, so the conjunct fails
   right after an unmap has taken a cached translation out of the page table.
   `NoStaleTranslation` is the statement that does hold, and it is proved.
2. **`sound` is not just recorded** (`os.rs:622`, run `MCOS_sound`). The comment
   on the field says it does not affect behaviour; because of operator precedence
   an overlapping call is disabled instead of started with the flag dropped.
3. **The head may go backwards and appends wait for ever** (`exec/log.rs:1182`,
   run `MCNrLog_gc`). `append` relies on somebody advancing the head whenever the
   log is too full. A slow combiner can store an older minimum over a newer head
   and leave `advance_head` on account of the tail it loaded earlier; afterwards
   nobody is on the way into `advance_head` and every append waits.

## 5. Theorems

All proofs are checked by TLAPS with no step left open.

| Level | Theorem | Says | Proved in |
|---|---|---|---|
| OS | `RefinesHLSpecCorrect` | `OS` implements `HLSpec` | `OSProofs` |
| page table | `RefinesPageTableSpecCorrect` | `PageDirectory`, seen through the MMU's walk, implements `PageTableSpec` | `PageDirectoryProofs` |
| page table | `OperationsRefineL1Correct` | `PageDirectory` implements layer 1: every call leaves the tree and returns the result of `Directory` | `PageDirectoryProofs` |
| page table | `WalkMatchesTreeCorrect` | what the MMU finds is the map of that tree, at any moment | `PageDirectoryProofs` |
| page table | `L1RefinesL0Correct` | the tree in memory has `Directory::inv`, and layer 1 does on it what layer 0 does on its map | `PageDirectoryProofs` |
| page table | `TreeHasMap`, `TreeMapFrame`, `TreeUnmap`, `TreeResolve` | layer 1 implements layer 0, for every tree with `Directory::inv` | `DirectoryProofs` |
| lock | `RefinesRwLockSpecCorrect` | `RwLock` implements `RwLockSpec` | `RwLockProofs` |
| log | `RefinesCyclicBufferCorrect` | `NrLog` implements `CyclicBuffer` | `NrLogProofs` |
| replicas | `RefinesSimpleLogCorrect` | `NodeReplication` implements `SimpleLog`: it is linearizable | `NodeReplicationProofs` |
| replicas | `UsesTheLog` | `NodeReplication` is a user of `NrLog`: every theorem about the log holds of it | `NodeReplicationProofs` |
| replicas | `RefinesUnboundedLogCorrect` | `NodeReplication` implements `UnboundedLog`, whose updates may enter the log a batch at a time | `NodeReplicationProofs` |
| replicas | `RefinesFlatCombinerCorrect` | the contexts and the combiner of each replica of `NodeReplication` implement `FlatCombiner` | `NodeReplicationProofs` |
| tokens | `RefinesSimpleLogCorrect` | `UnboundedLog` implements `SimpleLog` | `UnboundedLogProofs` |
| tokens | `BatchesRefineSimpleLog` | the same when updates may enter the log a batch at a time | `UnboundedLogProofs` |

**`OSProofs`** - for every set of cores, threads, addresses and entries, under
`SizesAssumption`, `HardwareAssumption` and `OSAssumption` (sizes are numbers,
threads are pinned to cores, an error is not an entry). The invariant is
`TypeOK /\ LockExclusive /\ successful_unmaps /\ ShootdownOwned /\
successful_IPI /\ NoStaleTranslation`; the third and the fourth together are
`UnmapOwnsAddress`. No conjunct past the lock is inductive by
itself: an answered shootdown stays answered because the TLB cannot be refilled,
which is because the address stays out of the page table (`successful_unmaps`),
which is because no other core has the lock; and the request vector means what
the waiting core thinks (`ShootdownOwned`) for the same reason.
`UnmapReturnsCleanCorrect` is the action property that follows: when `unmap`
returns every core has answered.

`overlapping_vmem_inv` and `CachedFrameNotReused` are in the second half of the
module. The checks at the start of a call compare it with what is mapped and in
flight at that moment only, so the invariant `OverlapInv` has to say what stays
apart until the call ends: calls from calls (`CallsApart`), mappings
from mappings (`MappingsApart`), what an unmap has removed from what is mapped
since (`RemovedApart`), and the same three for the frames (`FramesApart`,
`TakenApart`, `MapFramesApart`). An unmap that waits for the lock has the size of
whatever its address maps to later, and what it removes is in no table any more,
which is why `CallSize` follows a call through its states. It stands on the
first invariant: a frame that a TLB still caches is in the table or
belongs to the unmap that holds the lock.

The last part of the module shows that the OS implements the process-level
specification, under the same assumptions. The invariant is `OverlapInv` and
`sound = TRUE` (finding 2 is the reason that a conjunct about a ghost flag holds).
What a process sees depends on the effective mappings, those of the page table
without the ones being unmapped. Three questions make up the proof: two words of
virtual memory never share one of physical memory (`ProcessNoAliasing`); a store
through a translation that only a TLB still has reaches no memory the process
sees, and a load through one is allowed to return anything (`LoadsRefineHLSpec`);
and the checks of `os.rs`, made against page table and cores, agree with those of
`hlspec.rs`, made against effective mappings and threads. Word addresses
need a little arithmetic of remainders, stated as lemmas first.

**`RwLockProofs`** - for every finite set of threads, number of slots and limit.
The invariant adds to the stated properties `RoomSeen` (a count that is about to
be exchanged was below the limit when it was loaded) and `CellEmpty` (the cell is
empty exactly while a writer has taken the data out). `MutualExclusion` rests on
`exc_inv`: the slots a waiting writer has passed hold no read guard, because a
reader that counts itself there later finds the flag. `CountsAgree` argues about
cardinalities of the sets of counted readers.
`RefinesRwLockSpecCorrect` takes the lock to its tokens. Those that occur several
times are bags over threads, and one lemma, `BagStep`, says what a thread that
joins or leaves adds or takes; `exc_inv` says that there is one writer's token,
no count falls below zero when a reader backs out (`NoUnderflow`), and
`CellEmpty` that the writer returns what it took.

**`CyclicBufferProofs`** - for every number of replicas and size of the buffer:
`head <= local_versions[r] <= tail <= local_versions[r] + LOG_SIZE`. The invariant
adds `LoadedValid`: what each combiner has loaded (head for an append, minimum so
far for an advance) is still a lower bound of what it stands for, although the
head itself is stored plainly and may fall. It shows that finding 3 is a matter
of progress, never of overwriting entries in use.
`all_combiner_valid`, `OneHolderPerCell` and `alive_bits_inv` follow from
`EntriesInv`: the last `LOG_SIZE` indices are split between the buffer and the
combiners that append (`CellsSplit`); whether an index is in the buffer can be
told from the bit of its cell (`BitsTell`), although nobody ever resets a bit,
because the meaning flips every round and two indices of the window never have
the same cell (`SlotsDiffer`, a lemma on remainders); and what a reader has
passed is present and stays so until its version moves (`PassedPresent`).

**`NrLogProofs`** - the log itself, under `NrLogAssumption`: any number of replicas,
any size of the buffer and of a batch. `ControlInv` says where a combiner is and
what its locals can be, and includes the two invariants of `CyclicBuffer` by
`INSTANCE`: every access of the log is a transition of the token machine or changes
none of its tokens (`RefinesCyclicBufferCorrect`), so that what is proved of the
tokens holds of the log's. `NoCellRaceCorrect` follows, because who accesses a
cell holds its permission. `LogInv` adds what the cells hold: the entries of
the log at the indices that are in the buffer (`AliveEntriesAreTheLogCorrect`).
`AnswersOK` adds what replicas hold: a copy is the prefix of the log at its
version, and for each point of `execute` it says where in the log the combiner's
batch is and how many of it have been applied and answered. `NrLogCorrect`: one
answer per operation, in the order of the batch, each that of the log
up to the operation.

**`NodeReplicationProofs`** - for every number of replicas and threads, under
`NrLogAssumption` and `NodeReplicationAssumption`. `ThreadInv` relates the threads
of a replica, their contexts and the buffers of its combiner: who holds the lock
is inside a call; a marked context belongs to a thread that waits; what has been
collected and not been answered is marked. It is needed because threads enqueue
updates while the combiner is between its two passes over the contexts: only the
buffer `num_ops` of the first pass tells which marked contexts the second one may
answer. `CollectedOK` says that a batch holds operations of its own replica, at
most one of each thread, and so fits an append (`UsesTheLog`). The two go together
with `ControlInv` of the log, which says that `version_upper_bound`, copied into the
bound of a read, is a number. `RefinesFlatCombinerCorrect` then takes every step of
a replica to a transition of its flat combiner and shows that the other replicas do
nothing to it.

`RefinesUnboundedLogCorrect` joins the invariants of threads and log into `NodeInv`,
with what no single part says: while a combiner works, its operations are those it
has collected, in the order of the threads (`CombinersOK`), so that the `k`-th
answer it hands out goes to the thread whose update is the `k`-th of the batch; the
batch lies in the log in one piece and nothing else of the replica's is left to
apply (`AnswersOK`); an update that its thread still waits for has been applied
exactly if its place is below the version of its replica; and no replica is ahead
of `version_upper_bound` (`VersionsOK`), so that the version a read is given covers
whatever any replica has answered. Position and answer of an update are read off
this invariant (`PositionIs`, `NextAnswer`), and one lemma `View...` per action names
the transition of the unbounded log that it is, or that it is none.

`RefinesSimpleLogCorrect` is the promise to the clients, for every number of
replicas, threads and entries: the threads' accesses implement the simple log. It
composes `RefinesUnboundedLogCorrect` with `BatchesRefineSimpleLog` of
`UnboundedLogProofs`, instantiated with the tokens of the implementation; the link
is `SimpleSeen`: the simple log, read off the tokens, is the simple log that
`NodeReplicationRefinement` reads off the implementation's state directly.

**`UnboundedLogProofs`** - for every set of nodes and of request ids. The invariant
restates the one of `unbounded_log.rs` (`wf_combiner_for_node_id` and the rest) with
the state it speaks of as parameters, so that one lemma covers one way in which
log, updates or version move, whoever moves them. `Matches` is the
heart of it: between a combiner's position and the tail of the log, the entries of
its own node are, in order, the part of its queue that it has not done.
`RefinesSimpleLogCorrect` follows the labels: an update takes
effect in the simple log when it gets into the log, a read when its version is
loaded, and the answers are those of the log at that place. `BatchesRefineSimpleLog`
adds the two steps of the implementation that are several transitions of the source:
a batch that enters the log at once keeps the invariant (`AppendStep`: nothing of
the node was left to apply, so its queue is the batch) and is the same batch of the
simple log (`AppendMaps`), and a read that answers and returns at once takes effect
at the version of its replica (`ReadAndReturnMaps`).

**`PageDirectoryProofs`** - for every even number of entries per directory (512 in
the code: the PAT bit is the lowest of the frame number, and clear because a large
frame is aligned), every finite set of pages and whatever the memory holds.

`map_frame` never asks the allocator in vain (`AllocationSucceeds`). `EnoughPages`
is the reason: in layer `d` there are at least `3 - d` free pages left, because a
call allocates at most one page for each layer it goes down, and a call never gets
below the layer of its page size, which is 3 at most.

`PageTableInv` speaks of what is reached from the root, which no step can be shown
to keep by itself: an induction over paths would have to be redone for every
write. `TreeInv` gives every page of the tree its place instead, its layer, its
parent, the slot of its parent that refers to it and the first address it
translates, and says all of it locally: a directory entry leads to a page one layer
below that has this entry for its place, and every page but the root is referred
to by the entry at its place. It also says where the running call is. Its
activations are the path of the tree to the directory it works in, all on the way
to the address of the call; the allocated pages are the pages of the tree, and one
more between an allocation and the write that links it and between the write that
unlinks a page and its deallocation; only the page the call is about to fill or to
remove may be empty. A write then changes one entry and at most the place of one
page (`WriteLeaf`, `AddChild`, `RemoveChild`).

`RefinesPageTableSpecCorrect` follows from the same invariant. A walk of the MMU
follows the places of the tree, so that it finds its leaves and nothing else
(`WalkFinds`), and leaves overlap nowhere (`LeafUnique`). Allocating,
linking, unlinking and freeing a directory change no leaf (`AllocInvisible`,
`InsertInvisible`, `UnlinkInvisible`, `DeallocInvisible`), although a freed page is
filled with junk that refers to itself: no walk gets there any more. The one write of a page entry
adds or removes exactly the leaf of the call (`MapWritePageInserts`,
`UnmapPageRemoves`). The results are right because a directory in the way of a
page is not empty, so a page below it is a conflict (`MapConflicts` by
`PageBelow`), and because there is no mapping at the address if the path to
it ends early (`UnmapNothingThere`).

The other half of the module is about the tree that `PT::interp` makes of the memory.
`Dir(mem, t, p)` is the directory of `Directory` that the words of page `p` stand
for, and while the pages are a tree, `interp` of the memory is `Dir` of the root.
`WalkMatchesTreeCorrect` compares its map with the leaves, and what `resolve` reads
along a path with the entries on it. For `L1RefinesL0Correct` the tree
has to satisfy `Directory::inv` (no empty directory between calls; pages aligned for
their layer); the rest is `DirectoryProofs`.

`OperationsRefineL1Correct` spans a whole call. A step that changes the tree
changes one word of one directory on the path to the address (`Edit`); in every directory above it is the
entry for the address that changes, and nothing off the path (`EditAt`, `Above`). So
what `map_frame` or `unmap` of layer 1 does with the tree before and after the step
is decided in the directory of the step and carried up to the root (`InsertUp`,
`WriteUp`, `UnmapUp`, `UnlinkUp`, `KeepUp` and the rest). The invariant `HInv` says
for every point of a call what layer 1 would do from there: while `map_frame`
descends, mapping into the present tree and into the one at the start give the same
result and the same tree (`CallIsMap`: linking an empty directory and going on there
is what `new_empty_dir` stands for), and if it has written, it is in a directory it
has made itself and cannot fail any more (`WroteIsNew`); when `unmap` comes back with
a failure nothing has changed (`UnmapFailed`); when it comes back with success, `Rest`
is the part of the call that layer 1 still has to do from the layer it is in, which
is to remove the directories that have become empty (`UnmapSucceeded`, which also
holds between unlinking a directory and freeing it).

**`DirectoryProofs`** - for every even number of entries per directory and every tree
that satisfies `Directory::inv`, whether some memory holds it or not. Each fact is
proved for one directory of any layer, from the same fact about what the function
returned for the directory below, and then put together layer by layer: the map of a
directory lies between its bounds, is aligned and has no overlaps (`Fits`), and is
split by the entries, so that only the part of the entry for an address matters to a
call with that address. This is what makes a walk down one path enough:
`map_frame` on the tree fails exactly if the new page overlaps some mapping of the
whole map (`TreeMapFrame`), `unmap` on the tree exactly if no mapping begins at the
address (`TreeUnmap`). `directories_are_nonempty` is needed for the first: a
directory where a large page should go is a conflict only because there is a
page in it.

Only model-checked is liveness: `LockReleased`, `ExecuteTerminates` and
`RequestsAnswered`. Liveness under fairness and `ENABLED` (used in the statement
behind finding 2) are out of the prover's reach. Every safety property that a
passing run checks, refinements included, is also a theorem.

## 6. What is not modelled, and the plan

The order was chosen by weight: (1) OS, hardware and shootdown with the
refinement to `HLSpec`; (2) the reader-writer lock; (3) the shared log and its
buffer; (4) node replication with the refinement to `SimpleLog`; (5) the token
machines in between, `UnboundedLog` and `FlatCombiner`; (6) the page table
implementation with its three layers under the MMU's walk; (7) the theorems of
section 5. These are done.

Not modelled:

* `atomic_mmu.rs`: the source does not settle it. `pt_walk` and the read and write
  of the memory have no body, `init` is `arbitrary()`, `step_Invlpg` forgets the
  writes on `arbitrary()`, the result of `step_Walk` is left open, and nothing
  uses the module. A model would be an invention.
* `impl_spec::InterfaceSpec`, which `l2_refinement.rs` implements: its module is
  commented out in `spec_t/mod.rs` and not part of the repository.
* The write-through and cache-disable bits of directory entries, which are always
  zero, and the global, accessed and dirty bits, which nobody reads.
* `linearization.rs` quantifies over behaviours and argues by induction;
  `SimpleLog` is its checkable form.
* `counter.rs`, `extra.rs` are an instance and lemmas; `os_trace.rs`,
  `hlspec_user.rs` are experiments. `indexing.rs` holds lemmas about the
  arithmetic of `Arch`.
