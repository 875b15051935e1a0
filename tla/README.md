# mpipin: verification development

`mpipin` starts the processes of an MPI job on a node pinned to CPUs:
`mpirun ... mpipin -p P app` runs `mpipin` once per process. The P instances of
one node meet in a shared memory region named after their common parent
(`/mpipin.PPID.shm`), line up in the order of their PIDs, the first of them
partitions the CPUs of the node among all, and then each in its turn pins itself
and calls `exec`. There is no server and no leader chosen beforehand: everything
is a protocol between processes that start, stop and die independently.

This directory holds TLA+ modules translated from that code (`src/mpipin.c`,
`src/bitmap.c`, `src/bitops.c` and their headers), TLC configurations that check them on small
instances, and proofs that TLAPS checks for every instance. Line numbers below
and in the comments of the modules are those of `src/mpipin.c` unless another
file is named.

## 1. Inventory

| Component | Code | State | Operations | What makes it correct |
|---|---|---|---|---|
| Life of the shared memory object | `main()` 1289-1362, 1405-1457 | the name, the object, its size, `flock()` | open, lock, size, map, initialize, attach, unlock, unlink | one initialization before any use; one region per job; nothing left behind that harms a later job |
| Attaching and CPU discovery | `main()` 1329-1403 | `nr_processes_left_in_init`, `cpus_available`, `cpus_to_assign` | initialize, attach, discover | the CPU set is complete before it is partitioned, whatever masks the MPI runtime set per process |
| Shared region protocol | `pin_process()` 747-948, 1077-1121 | `struct part_exec`: mutex, counters, list by PID, per-process `ready`, `timeout`, condition variable | register, insert by PID, wake the first, wait, time out and abort, pass the turn, pin | a barrier: nobody is pinned before all are there; PID order, own rank, disjoint CPUs; everybody returns |
| CPU partitioning | `pin_process()` 970-1075 | `cpus_available`, `affinities`, locals | first unused CPU, same cache, same node, any, commit | no CPU twice, full shares, ranks packed |
| Topology collection | 187-745 | `cpu_topology_list`, `node_topology_list` | read CPUs, their caches, nodes from sysfs | complete or failed; caches from the inside out |
| CPU lists | `src/bitmap.c` 532-694, `src/bitops.c` | a mask, a text | `bitmap_parselist()`, `bitmap_scnlistprintf()`, `find_*_bit()` | the mask is what the list says, and printing and parsing agree |
| Hexadecimal masks | `src/bitmap.c` 382-508 | a mask, a text, the chunk being read | `bitmap_parse()`, `bitmap_scnprintf()` | the mask is what the digits say, and printing and parsing agree |
| Command line | `main()` 96-185, 1130-1218 | `ppn`, `tpp`, `verbose`, `cpus_excluded` | the options, the sanity checks | runs exactly what was asked for last, or not at all |
| Other bitmap operations | `src/bitmap.c` 65-374, 725-1181, `src/bitops.c`, `src/include/bitmap.h`, `bitops.h` | a bitmap: words, with unused bits in the last | set algebra, shifts, ranges, searches, maps, regions | a bitmap is a set, whatever its unused bits |
| Linked lists, architecture | `src/include/list.h`, `src/include/arch/*` | - | lists, word operations | - |

How they interact: `main()` prepares the region under `flock()` and then calls
`pin_process()`, which uses the mutex *inside* the region: two locks, taken one
after the other and never together, order the two halves. Processes signal each
other through the condition variable of each list item. The process of rank 0
calls `collect_topology()` and runs the partitioning with the mutex held; the
result is left in `affinities`, where the others find it at `process_rank`.

What is hard about it: registration, timeouts and hand-overs of the turn
interleave; a wait is not in a loop over its predicate, so spurious wakeups,
late timeouts and signals to processes that already gave up all matter; items of
processes that failed or died stay in the list; the mutex is not robust; errors
half way leave the region to the next group; the name of the region outlives
killed jobs, also when they die between two stores of its initialization; a late
process adds CPUs under one lock that others hand out under the other; CPUs go
offline while sysfs is read, and some errors of these reads are passed over. `PROJECT.json`
lists each of these hazards at its line with the properties that are aimed at it.

## 2. Modules

    PinBarrier  <--implements--  PartExecBarrier --extends--> PartExec
    CpuShares   <--implements--  CpuPartition
    BitSet      <--implements--  Bitmap
    Placement   = Topology, then CpuPartition on what it has found
    HexMask     extends Bitmap (shifts it, prints it)
    CommandLine extends CpuList (runs its parser for --exclude-cpus)
    ShmRegion   uses what PartExec shows

Proofs, each module extending the one before the arrow:

    PartExec, PartExecBarrier -> PartExecProofs
    CpuPartition -> CpuPartitionProofs
    ShmRegion    -> ShmRegionProofs
    Topology, Placement, an instance of CpuPartitionProofs -> PlacementProofs
    CpuList, CommandLine -> CommandLineProofs
    Bitmap       -> BitmapProofs
    HexMask, BitmapProofs -> HexMaskProofs

`Numbers` has the lemmas about natural numbers that several of them use.

### PartExec: the region and its protocol

A process is its PID. The variables are the fields of `struct part_exec` and of
its list items, under their own names, plus for each process a control point
`pc`, its locals `my_i`, `i`, `prev_i`, `ret`, and `mask`, its CPU affinity. What
runs under the mutex is cut where the code takes, drops or waits for it, and at
every iteration of its loops, so that a kill can hit in the middle.

| Action | Code |
|---|---|
| `Create`, `Attach`, `Discover` | `main()` under `flock()`, 1329-1403: one step each, since nobody looks at the region in between (`ShmRegion` takes it apart) |
| `Lock`, `Mismatch`, `Register`, `Walk`, `Insert`, `WakeFirst` | 788-880 |
| `Wait`, `TimeOut`, `SpuriousWakeup`, `Reacquire`, `Resume` | 882-945; a signalled or timed-out process has to get the mutex back first |
| `AbortNext`, `AbortDone` | `abort_all`, 899-924 |
| `TakeTurn`, `Collect`, `PartitionRank`, `PartitionFails`, `PartitionDone` | 947-1075; a share is any set of available CPUs of the right size |
| `EndGroup`, `WakeNext`, `Bind`, `Unlock` | 1077-1121 |
| `Kill` | a process dies at any point and keeps the mutex if it has it |

A hand-over on the empty list (1087) reads and writes `processes[-1]`. In the
layout of the struct, which is the same on x86_64 and aarch64, that item lies
over the fields before the array: its `next_process_ind` is `cpus_to_assign`, its
`ready` is the word of `cpus_available` for the CPUs 384 to 415, and its `wait_cv`
is the rest of that mask, where nobody waits. `WakeNext` does exactly this, with
`StrayCpu` for the bit that `ready = 1` sets; it assumes a node of at most 384
CPUs, so that the bits of the condition variable are 0 and no CPU is `StrayCpu`.

`PinBarrier` is what a job is promised: processes arrive; when all have, they are
pinned in PID order, each with its position as rank and a full, disjoint share;
anyone may fail, and then those behind it are not pinned. `PartExecBarrier` maps
the region to it (arrived = has a slot, outcome = how it left `pin_process()`).

### CpuPartition: who gets which CPU

One step is one iteration of the inner loop. `machine` is what
`collect_topology()` found. `NoCpu` is `CPU_SETSIZE`, what `cpuset_first()`
returns for an empty mask; the macros `CPU_CLR` and `CPU_SET` ignore it, and so do
`Without` and `With`. `Again` is the second partitioning that a refused first
process causes. `CpuShares` is the assumption that `PartExec` makes about the
partitioning (`PartitionRank`), and `CpuPartition` implements it.

### ShmRegion: the object behind the name

Jobs of one parent use the same name one after the other. `bound` is the object
the name refers to; objects are `sized` by `ftruncate()` (1315) and `initialized`
later, both under `flock()`, and a process that finds a size other than 0 takes
the region for an initialized one. The initialization is several stores (`stores`):
`MakeLock` (1331-1347), `Store` twice (`nr_processes`, `first_process_ind`) and
`Initialize`; a kill can fall between any two. `pin_process()` is abstracted: processes wait
in `group` until it is full, then those before the first dead one in PID order
get the turn (`Served`); when the turn has stopped at a dead process (`broken`),
those still inside, or to come, may be pinned or may time out, which is more than
`PartExec` allows. `slots` are the processes that ever registered in a region: no
slot is given back. A region whose `nr_processes` was not set rejects everybody
(`Mismatch`): it is 0, neither -1 nor any legal `ppn`. If not even its mutex was
initialized, who finds it held by another process may sleep for ever (`MissWakeup`),
as a mutex of zeros is private to a process. If `nr_processes` was set and
`first_process_ind` was not, the list begins with slot 0, and the process that takes this
slot is linked to itself (`knot`): the next walk past it (`Loop`), or the next
`abort_all` (`AbortLoops`), never ends and never drops the mutex.

### Topology: what is read from sysfs

Reads that the code treats alike are one step. `Plug` takes a CPU offline, which
removes its files, or brings it back; `CallFails` lets an allocation or `open()`
fail. The lookup of a CPU's node is a step of its own: `FindNode` takes the first number
whose directory is there, `MissNode` is the `continue` for every one (654-656), which no
error tells from a CPU of node 0. `SkipCache` is the early return for a `level` file
that cannot be opened (490-494), `ReadCacheFails` the `break` whose error is overwritten at
671.

### Placement: the turn of the first process

Collecting and partitioning in sequence (950-1075). `Found` is how the partitioning
looks at the lists of `Topology`; `P` is `CpuPartition` over it, with the actions
unchanged. The CPUs to partition are any: they were discovered by the processes of
the group among themselves before, and may have gone offline since.

### CpuList and CommandLine: lists and options

One character or one bit a step. A text is any sequence of characters, or what
the printer has left. Masks are sets of bits; `find_next_bit()` is written over
words of `BITS_PER_LONG` bits. `unsigned` has the width `Unsigned`, and the parser
computes modulo it; the reference definitions (`Bottom`, `Top`) know the true numbers.
`ParsesLists` is about texts that are `Readable`: the numbers are there and fit an
`unsigned`.

`CommandLine` extends `CpuList`: its actions are the cases of the `switch` (1155-1190),
with the name of an option mapped to what `getopt_long()` returns for it by the table
(96-166), 0 for the ones with a `flag`. `ExcludeCpus` starts the parser of `CpuList` on
the argument and `Excluded` takes up its return value. A number is what `strtol()`
makes of it, a `long`; `int()` keeps the lower half, of width `IntSpan`. `RunsAsAsked` is
about command lines of `Plain` options, which leaves out the four that the usage text has and
the code refuses.

### Bitmap, BitSet and HexMask: words and sets

A bitmap is an array of words and a word a set of bit numbers, so that the bits beyond
the size of the bitmap, which may be set or not, are explicit. The operators are those of
`bitmap.c` and `bitops.c`, word by word and in the order in which words are written
where an operation works in place; an action calls one of them with some arguments.
`BitSet` says what each operation is on sets, and is independent of words.

`HexMask` adds the parser of hexadecimal masks, one character a step, with
`__bitmap_shift_left()` of `Bitmap` in place, and `bitmap_scnprintf()`. `CHUNKSZ` is 32
in the code and a digit has 4 bits (`DIGITSZ`).

## 3. Runs

| Run | Instance | Shows |
|---|---|---|
| `job` | 3 processes, 7 CPUs, one excluded, each process bound to one CPU before, one of them to the excluded CPU; no faults; deadlock checked | everybody is pinned (`AllPinned`) with a full share of the usable CPUs (`FairShare`), the hand-over always finds someone (`SomeoneToWake`) |
| `faults` | the same on 4 CPUs; timeouts, spurious wakeups, no topology, no memory, one kill | the list stays sorted, so no walk loops (`SortedList`); waiting processes stay in it (`NobodyLost`); rank = position (`RankIsPosition`) and CPUs of one's own (`DisjointPins`); nobody has the turn before the discovery (`PartitionAfterDiscovery`); the barrier is implemented (`ImplementsBarrier`); everybody returns (`EveryoneReturns`) |
| `mixed` | processes with `ppn` 2, 2, 3, one bound to a CPU that another may use; the kernel refuses CPUs to one; timeouts | groups that fail and start again in one region lose nobody (`NobodyLost`) and keep ranks in PID order (`RanksFollowPids`) |
| `readded` (violation) | the processes of `mixed` without faults | a process that attaches late puts back a CPU in use, which a second process is then given (`DisjointPins`) |
| `refused` (violation) | 2 processes, one is refused its CPUs | the second process partitions again |
| `extra` (violation) | 3 processes with `ppn` 2, timeouts | a timeout after a wakeup was sent empties the list under the woken process; after its hand-over on the empty list a process may loop for ever |
| `partition` | 8 CPUs, 4 machines (caches that nest, with nodes numbered in a row or in turn; none; caches that cross each other and the nodes), all sets of available CPUs, 2 and 3 ranks, twice | `NoneTwice`, `Packed`, `FailsForCause`, and full shares of even size (`ImplementsShares`) |
| `placement` | 4 CPUs, 3 caches, 6 machines (one node, two, a gap, a node without memory; caches that nest and that do not), 2 ranks, one hotplug, one failing call, any discovered CPUs | what the collection finds (`NodesApart`, `InnermostFirst`, `CachesComplete`, `FailsForCause`) is enough: the partitioning fails only for a CPU that was offline (`PlacedUnlessUnplugged`) and packs ranks on the caches and nodes of the hardware itself (`PackedOnHardware`) |
| `jobs` | 3 jobs of 2 processes, the first slow, killed (also between two stores) or unable to map | `InitializedFirst`, `NothingLeft`, `WaitsUnlessKilled`, `Recovers`; a region is entered by no more processes than one job has, once more for each job that was hit by a kill (`SlotsSuffice`) |
| `stale` (violation) | 2 jobs of 2 processes, the first is killed | a process is pinned in the dead job's region without its peer |
| `options` | all command lines of up to 3 of 27 options; all texts of up to 5 of the characters `0 1 2 , - blank x`; all masks of 12 bits | `RunsAsAsked`, `ParsesLists`, `RoundTripNonEmpty` |
| `masks` | 9 bits in 3 words of 4: all bitmaps, unused bits clear or set, under every operation and back; all texts of up to 6 of the characters `0 1 , blank x`, and up to 6 chunks | `ImplementsBitSet`, `StaysClean`, `ParsesMasks`, `MaskRoundTrip` |

`CHECK_DEADLOCK FALSE` is given where the system may stop: a program that ends
(`partition`, `placement`, `options`, `masks`, `jobs`, `stale`), or processes that wait for a
mutex a killed process holds, or a wait that nothing ends without faults (`faults`,
`mixed`, `readded`, `extra`).

**Bounds, and why they are enough.** Three processes are the smallest number with
a first, a middle and a last in the list, one that is woken while another times
out and a third joins; their slots are in any order, since they attach in any
order. `MaxProcesses` is larger than the number of processes, because
`first_process_ind` can come to hold `cpus_to_assign`, which must be a slot.
`MaxKills = 1`: one dead process is what every path that skips or waits for one
needs; more of them only shorten the list. CPUs: enough for a share larger than
one and for CPUs left over. Processes are not symmetric (PIDs are compared), so no
symmetry is used. `jobs`: a faulty job, the one that cleans up after it, and the
one that must be unaffected. `partition`: eight CPUs give two ranks a share larger
than a cache and three ranks one that is not a multiple of it. `placement`: two ranks
of two CPUs can be packed in a cache or scattered over two; CPUs start online or
offline in any combination, so that one hotplug (`MaxPlugs`) is enough for each read
to be followed by a change, and one failing call (`MaxFaults`) for each error path;
three cache indices stand for ten; the caches of some machines nest, on one node and on two, and
those of others do not. `options`: 12 bits in words of 4 and numbers of two
digits put the edge of the mask inside a number; `Unsigned = 64` makes three digits wrap
round as eleven do in the code; three options are an earlier one, a later one of the
same kind and one between them; `IntSpan = 16` puts the numbers 9 and 18 beyond an `int`,
one of which comes back as a negative number and one as a legal one. `masks`: three words
are a first, a middle and a last one, partly used; chunks of two binary digits put two
chunks in a word, as on a 64-bit machine, and leave one bit for the first chunk.

**Fairness.** `PartExec!FairSpec`: every live process that can take a step
eventually takes one (the scheduler runs every process; `pthread_mutex_lock()` is
treated the same way, and each process takes the mutex only a bounded number of
times, so nothing stronger than weak fairness is needed), and the deadline of a
wait is reached eventually if timeouts are among the faults (the code computes one
for every wait). Spurious wakeups, failures and kills have no fairness. In the run
`job` nothing times out: the processes are meant to be quicker than 10 seconds.
`ShmRegion!FairSpec` is the same for its processes.

**Findings.** The four violation runs are disagreements of the code with its own
comments; `PROJECT.json` quotes them.

* `extra`: a process that was woken is no longer in the list and so is out of reach of
  `abort_all`, and 1087 does not test for the end of the list. The hand-over on the empty list
  needs a timeout only (`SomeoneToWake` is false as soon as there are timeouts); the cycle
  needs a process more than `ppn`.
* `refused`: the turn is passed before the rank is advanced, so that a process that is refused its
  CPUs leaves its rank to the next.
* `readded`: `cpus_available` is what may be used for who attaches (under `flock()`) and
  what is not in use for who partitions (under the mutex).
* `stale`: that an object has a size does not say whose it is.

Other disagreements have no run of their own and are stated in the comments of the property
that allows for them:

* Nor does the size say that the region was initialized. If its first process is killed between the
  stores of 1349 and 1351, the next job loops in the list, in spite of its timeout (889);
  if it is killed before 1338, a process may sleep at the mutex for ever (`Recovers`, whose two
  exceptions these are).
* `stat()` failing for whatever reason makes a CPU one of node 0 (654-656, `NodesApart`).
* A number is compared with the size of the mask after it was computed modulo the width of
  `unsigned`, so that 4294967296 is accepted as CPU 0 (`src/bitmap.c`:664 against 615); and
  nothing asks whether there was a number, so that an empty text, an empty item and `0-` are
  (`src/bitmap.c`:670 against 606-611; `ParsesLists`).
* `--compact` and `--scatter` are in the usage text (175-176), but make `getopt_long()` return 0,
  which leads to the usage text and the exit (1187). `--threads-per-processes` and
  `--cores-per-processes` (179) are not in the table, where they are spelled
  `--threads-per-process` and `--cores-per-process` (`RunsAsAsked`).
* The empty mask is printed as the empty list, which is parsed as CPU 0
  (`src/bitmap.c`:565-566 against 670); no process has an empty mask
  (`RoundTripNonEmpty`).
* `__bitmap_and()` and `__bitmap_andnot()` count unused bits in what they return
  (`src/bitmap.c`:45-52 against 214 and 249); nobody uses these answers (`Answer` of
  `Bitmap`).

## 4. Proofs

Everything is proved for any number of processes, slots, jobs, CPUs, nodes and caches,
any texts and masks, and all the faults of the model at any moment, from the `ASSUME`s of the
modules (PIDs are positive; at most `MaxProcesses` processes ever attach; `main()` has
checked `2 <= ppn <= MAX_PROCESSES`; a mask has no more than `CPU_SETSIZE` =
`MAX_PROCESSES` bits; processes, CPUs and cache indices are finite; jobs of one parent have
the same size, in `ShmRegion`; a mask has fewer bits than an `unsigned` has values; texts are
sequences of strings, of which ten different ones are digits and none of these is a blank, a
comma or a dash; an option comes with an argument of its kind, which `getopt_long()` sees to;
the bits of a word are a power of two, and digits divide chunks and those words). Where a theorem
needs more, it says so as a hypothesis:

| Hypothesis | Says | Why the code justifies it |
|---|---|---|
| `SamePpn`, `OneJob` | all processes were given the same `ppn`, and they are that many | `mpirun` starts one command line `ppn` times on a node. Otherwise `PinsAreDisjoint` is false, as the run `readded` shows; `mixed` checks what is left then |
| `Readable`, `Plain` options | in the statements of `ParsesLists` and `RunsAsAsked`: numbers are there and fit an `unsigned`, and no option is one of the four that are refused in spite of the usage text | see the findings: there the code does not do what its comments and its usage text say |
| `UniformJob` | also the same CPUs to exclude; the kernel accepts the usable CPUs for everyone; there is a CPU for each | the command line again; the run `refused` shows what a refusal does |
| `"timeout" \notin Faults` | nobody waits for more than 10 seconds | only of `SomeoneIsThere`; it is false with timeouts, as the trace of the run `extra` shows |
| `Nested`, `Plain` | caches nest: those further out hold those inside, and the CPUs of a cache see it at the same place and are on one node; `Plain`: and nodes are numbered without gaps | inner and outer caches of the processors this runs on, and how sysfs shows them. Without it the theorem is false: if {0,1}, {2,3} share inner caches and {0,2}, {1,3} outer ones, a rank of 0 and 1 meets any other in both outer ones. The runs have machines of both kinds |
| `ContiguousCaches` | sysfs numbers the caches of a CPU without gaps | the kernel numbers them from 0 in a loop; a gap would look like a cache that cannot be looked up (490-494) |

### PartExec

* `TypeCorrect`: `TypeOK` is not inductive. That `my_i` is a
  slot when it is dereferenced needs that the search for an empty slot succeeds,
  which needs that slots belong to different processes (`SlotInv`, with
  `FreeSlotExists` by counting), which in turn needs mutual exclusion between the
  search and the write (`LockInv`); that the last arrival finds a slot in
  `first_process_ind` needs `FirstInv`; and that `cpus_to_assign`, which a stray
  hand-over puts into `first_process_ind`, is a slot number needs `ppn >= 2`
  (`HalfFits`). `TypeInv` is their conjunction, `TypeInvariance` its theorem.
* `MutualExclusion`: two processes are never both under the mutex.
* `DiscoveryBeforePartition` (`PartitionAfterDiscovery`; `SamePpn`). The two locks do not
  order this by themselves; it is a matter of counting. `CommitInv` says that
  `nr_processes_left_in_init` is at most N minus the processes that registered,
  as each attached before; `GroupInv` that a group is always one of N;
  `EarlyInv` that as long as fewer than N processes have registered, the list
  counter is above what is missing and nobody was given the turn.
* `ListStaysSorted`, `RanksInPidOrder`, `PinsAreDisjoint`, `OneTurnAtATime`
  (`OneJob`). The inductive invariant `OrderInv` has four parts. The turn
  is not a variable of the code: it passes by a flag, a wakeup and the mutex, so
  `HasTurn` defines who has it, and `TurnInv` says that this is one process, behind all that
  are pinned and before all in the list, and nobody while somebody is still to come
  (`Open`). `ListInv` needs the positions of a walk, `prev_i` and `i`, and holds of the
  insertions only: once the turn goes round nobody inserts any more, and that is why the
  write to `processes[-1]` does no harm to the order. `RankInv` follows the turn:
  `process_rank` is at most the position of who has it and above all ranks given.
  `DisjointInv` says that what was handed to a rank is neither available nor any other rank's,
  also when a group whose list was lost partitions for a second time.
* `SomeoneIsThere` (`SomeoneToWake`; `OneJob`, no timeouts) and `NobodyIsLost`
  (`NobodyLost`; `OneJob`). `GatherInv`: while the group gathers and
  nobody has left it, the list skips nobody and begins with the smallest PID. A group that
  somebody has left never wakes its first process, as its counter wants more processes than
  there are; so (`ChainInv`) where the turn is, the list is that of the whole job, and the
  position in it and `nr_processes_left` are the same number. `UndisturbedInv` adds what
  holds without timeouts: the list is emptied by who has the turn or not at all. `QueueInv`
  is about the list when others have left it: who waits untold is in `Queue`, and who
  walks is behind an item of it. `Queue` is the least set that has the first item and is closed
  under `next_process_ind`, so that both directions can be argued without recursion.
* `RanksArePositions` (`RankIsPosition`), `SharesAreFair` (`FairShare`) and
  `PinBarrierImplemented` (`ImplementsBarrier`; `UniformJob`).
  They need each other: only who has a full share is sure to be bound, and only the first in
  PID order partitions because `process_rank` is the position of who has the turn.
  `SetInv`: the CPU set collects masks until the last process attaches and is `Usable` from
  then on. `ShareInv`: the partitioning starts from `Usable`, happens once, and the loop never
  runs out of CPUs (`nr_processes * cpus_to_assign` is at most their number); or the group
  was aborted before, and then nobody gets the turn after that. `PositionInv`:
  `process_rank` is the position of who has the turn, or one less while its predecessor
  is still being bound. The refinement is then a case per action: `Create` and `Attach` stutter,
  `Register` is an arrival, the `Unlock` of a bound process is `Pin`, every other `Unlock` and
  `Kill` is a failure, and the rest stutters.

### CpuPartition

* `NoCpuTwice` (`NoneTwice`): the strengthening (`CopiesInv`) is that while a rank is being
  served, `use` and `avail` are the parts of what is still available in the region.
* `PartitionTypes` (`TypeOK`), `PartitionFailsForCause` (`FailsForCause`). That `CPU_SETSIZE`
  from an empty mask is never looked up the first time needs that CPUs suffice for the ranks
  to come (`EnoughInv`), which is a product, and that a rank has as many as were counted
  (`CountInv`).
* `SharesImplemented` (`ImplementsShares`): a commit hands out a share of exactly the size
  that `PartExec` assumes, whatever the topology; everything else stutters or starts again.
* `RanksArePacked` (`Packed`; `Nested`). For one level at a time, be it the caches at one place
  or the nodes, `Packing` says: a set of the level that the rank in the making has CPUs of, and
  that still has available ones, is where the last CPU came from (`NextPacked`), as the search
  looks there first; so a rank leaves at most one of its sets to the others (`RankPacked`), and
  two ranks meet in at most one (`PairPacked`). That the search for the next
  CPU looks at inner levels first does it no harm, as what is inside lies inside (`AsCache`,
  `AsNode`). The levels are a parameter, and so is the set of CPUs that count, for the use
  that `PlacementProofs` makes of these lemmas.

### ShmRegion

All from `RegionInv`, without hypotheses: `RegionTypes` (`TypeOK`), `FirstInitializes`
(`InitializedFirst`), `NameIsRemoved` (`NothingLeft`), `PinnedTogether` (`WaitsUnlessKilled`),
`SlotsAreEnough` (`SlotsSuffice`). `FlockInv`, `SizeInv` and `FreshInv` are the argument that who
gives the object its size initializes it, as nobody passes the test of the size in between;
`StoresInv` that a region stays half initialized only where somebody was killed, and `KnotInv`
that a process is linked to itself only after `nr_processes` was set.
`NameInv` and `JobsInv` say that who ended in order has taken the name away from its
object, so that processes of two jobs share an object only if those of the
earlier one were killed. `LeftInv` counts who attached against `left`, and
`TurnInv` is the barrier across jobs. `SlotsAreEnough` then counts jobs: a region has
processes of one job besides those of jobs with a killed process.

### Topology

The first half of `PlacementProofs`. All from `TopoInv`, on any machine: `CollectionTypes`
(`TypeOK`), `CollectionFailsForCause` (`FailsForCause`), `CachesAreComplete`
(`CachesComplete`), `NodesAreApart` (`NodesApart`).
`Complete` says of the CPU being collected that it has the caches below the loop, counted, unless
there is an excuse that can be seen (a failed call, a CPU that was offline): `LoopInv` has
it that a CPU of the loop whose files are gone is in `unplugged`. `NodeRead` says the same of the
node of a CPU: without an excuse it is what the lookup comes to if every `stat()` tells the
truth (`LookedUp`), and the statement of `NodesApart` has these excuses too. `CachesInOrder`
(`InnermostFirst`; `ContiguousCaches`) adds that without an excuse caches stand at their
places (`InPlaceInv`); their order needs no hypothesis (`Ordered`). `ReadInv` says what
was read: an entry is a true image of the hardware, but for CPUs that were offline at some time
since (`Genuine`, `AllRead`), and a CPU that stayed online is listed.

### Placement

`PlacementProofs` has the steps of `P` satisfy the step lemmas of `CpuPartitionProofs`, of which
`PP` is an instance over `Found`, what the collection left. `PlacedInv` is the seam: before the
partitioning its variables are untouched, and after the collection `PP!PartInv` holds.

* `FailsOnlyIfUnplugged` (`PlacedUnlessUnplugged`): from `ReadInv`, a CPU that is not listed was
  offline; from `PP!PartInv`, it is a discovered one that the partitioning failed for.
* `RanksPackedOnHardware` (`PackedOnHardware`; `Plain`). The lists as they were found need not
  nest, as a CPU that was offline is missing in the caches of some and not of others. But the CPUs that
  stayed online see each other truly (`ReadOfHardware`), so the caches and nodes of the *hardware*
  are respected among these, and `PP!Packing` of them is an invariant (`HardwareInv`).

### CommandLine and CpuList

All from `ProgramInv`, of which `ListInv`, `PrintInv` and `RoundInv` are about lists, and
`AskedInv` about options.

* `ListsAreParsed` (`ParsesLists`), for texts of any length. The reference definitions look at a
  whole text, `Items` being its pieces between commas, and the parser at one character.
  `ParseInv` joins them: at every character the locals are what the reference
  definitions find in the text up to there (`Reading`: the item that is being read, a number or
  a range, is well-formed so far, `a` and `b` are its numbers modulo `Unsigned`, and `maskp`
  has the bits of the items before it), and no blank was followed by something else. An error
  names a place that makes the whole text malformed, whatever follows. The invariant is
  about numbers modulo `Unsigned` (`NumberMod`, `FitsMod`, `MaskMod`), which is what the parser
  computes of any text; `ReadableReads` joins it to the true numbers of a `Readable` one.
* `PrintedListsAreParsed` (`RoundTripNonEmpty`), for masks of any size. `PrintInv` says that the
  text written so far is a list of the bits below `rbot` (`Shows`); it is stated
  about the items of the text and not its characters, so `ParsesLists` reads it back.
  `FindNextBit` is that the search over words finds the next bit.
* `OptionsAreObeyed` (`RunsAsAsked`), for any options. `AskedInv` says that the options before
  `optind` were all understood and `ppn` and the mask are what the last of them say
  (`PpnBefore`, `ExcludedBefore`), again with lists modulo `Unsigned`; `PlainAsked` makes
  them what was asked for.
* `CommandTypes` (`CommandTypeOK`).

Numbers are written and read by recursive functions (`Decimal`, `NumberUpTo`). The induction
theorems of the library take an operator as parameter, which the backends cannot
instantiate; `Induction` and `Recursion` (of `Numbers`) are stated for a set of numbers and for
a function of functions instead, and `DecimalIsRead` follows from them: what is written of a
number of any length is read as that number.

### Bitmap

* `ActsOnSets` (`ImplementsBitSet`), for bitmaps of any size, words of any width that is a power
  of two, and any unused bits. The mapping takes words to the set of their bits (`SetOf`), so a
  step lemma per kind of call says that result and answer are those of `BitSet`, and behind
  each there is a lemma that computes what the words hold.
  `LeftIs` and `RightIs`: a shift writes into the words that it reads, but each is read before it
  is written; `LeftShifted` and `RightShifted` put the two halves of a word together.
  `NextBitIs`: the masks of the first and the last word are those of a range (`SearchMask`), and
  what is found is the first bit of the set. Searches one after the other list the set in order
  (`SeesAll`), which gives the maps (`OrdIs`, `PosIs`, `MapsAre`), and each word counts once
  (`WeightIs`). `AreaStep`: what the search for an area steps over is no area. `InRegion`: the
  one mask that `__reg_op()` uses for all words of a region is right since the size of a region
  and that of a word divide each other, which is where the power of two is needed.
  For `bitmap_and()` and `bitmap_andnot()` see `Answer`: with unused bits set, what they
  return is not what the set says, and it is the result that is compared then.
* `OutputsStayClean` (`StaysClean`): of every operation whose arguments have no unused bits set,
  the result has none. The last word is masked (`Algebraic`, `ShiftTypes`), or
  all bits that are set are below the size (`RangesAre`, `SetBits`, `RegionIs`).

### HexMask

All for texts of any length, bitmaps of any size, and digits, chunks and words of any widths that
divide each other.

* `HexTypes` (`HexTypeOK`).
* `MasksAreParsed` (`ParsesMasks`). The parser shifts what it has read with every digit and every
  comma, while the reference definitions count the digits and commas to the right of a digit.
  `ReadInv` joins them: the digits after the last comma of what was read have the
  bits of `chunk`, the others those of `maskp` shifted by a chunk; `BlankGrows`, `CommaGrows` and
  `DigitGrows` say how a character more changes both. `MaskInv` says that the highest bit of
  `maskp` is `nbits - 1`: this is why a text that is refused as too long has a digit that does
  not fit, also behind leading zeros, which are not counted.
* `MasksRoundTrip` (`MaskRoundTrip`). `PrintedFrom` says that the chunks written so far are those
  of the bits from some place up, in the terms in which texts are read; with
  `ReadInv` the mask is the same set, and `BeginningFits` that no error comes in between.
* `MasksActOnSets` and `MasksStayClean` are the theorems about `Bitmap` for `HexSpec`, which the
  run checks: steps of `HexMask` are steps of `Bitmap` or leave its variables.

They assume of the constants that texts are sequences of strings, that digits are neither
commas nor blanks, and that there is one for every combination of bits (`TextAssumption`,
`DigitAssumption`).

Each step lemma has one case per action of `Next`. Before they were proved, `OrderInv`,
the invariants of the chain and of the barrier, `PartInv`, `Packing`, `RegionInv`, `TopoInv`,
`InPlaceInv`, `ReadInv` of the topology, `PlacedInv`, `HardwareInv`, and `ParseInv`, `PrintInv`
and `AskedInv` of the command line were checked by TLC on the instances of section 3.

### What is only model-checked

* Liveness: `AllPinned`, `EveryoneReturns`, `Recovers`. Fairness and `ENABLED` are beyond the
  prover.
* `WaitsForAll`, and the other properties of the violation runs, which are false where they run
    (`DisjointPins` is a theorem about one job).
* `PartExec` with processes of different `ppn` (`mixed`).

Every invariant, action property and refinement of the other runs is a theorem.

## 5. Not modelled

* Fields of the topology that are read and never used, except that they are read.
  `Topology` takes the masks and lists it reads as sets: `HexMask` and `CommandLine`
  show that texts are parsed to the sets they stand for.
* The end of the print buffer: `scnprintf` is `snprintf` here (`src/bitmap.c`:18),
  so that `len` is what would have been written; the model prints without a bound.
* Of the command line, the abbreviations that `getopt_long()` accepts, and what `--tpp`,
  `--compact` and `--scatter` are for: the variables they set are never read.
* The inline shortcuts of `bitmap.h` for bitmaps whose size is a constant of at most
  one word (`small_const_nbits`), which this program does not use; the shortcut of
  `bitmap_shift_right()` lets unused bits in. `bitmap_parse_user()` and
  `bitmap_parselist_user()` only pass on their arguments. `hweight` is `Cardinality`.
* Upper-case hexadecimal digits, and a text that fills its buffer (the buffers are a
  page, and are terminated).
* `list.h`: `list_add_tail()` and `list_for_each_entry()` are `Append` and the domain of
  a sequence; the rest is not called. Of the architectures, `__ffs()`, `ffz()`, `fls()`
  and `set_bit()` of x86_64 are what `Bitmap` and `HexMask` use; the versions for aarch64
  compute the same.
* `goto cleanup_shm` before `shm_path` is set (1232-1236).
* Wall-clock time: a timeout may strike any wait at any moment.
* Reuse of a PID within the life of a region.
* In `PartExec`, an `Attach` or `Discover` between the copy of `cpus_available` (974) and its
  commit (1067): the two are one step (`PartitionRank`). The commit would undo what the process
  has added, and who partitions next would be given the CPUs it would be given if that process
  had added none; or, after a lost `Discover`, fewer than `cpus_to_assign` counts on, which
  ends in the error of 999-1004. Within one job this cannot happen
  (`PartitionAfterDiscovery`).
* In `ShmRegion`, `cpus_available`, which the last store of the initialization writes (1354): a
  job in a region that lacks it has the CPUs that its processes add.

## 6. What is left

All modules of the plan are written and every safety property is proved, but for one hypothesis:
the theorems about the order of the list are about one job, whose processes were all given the
same `--processes-per-node`. `DisjointPins` is false without it (`readded`). Which parts of
`OrderInv` hold all the same, as the run `mixed` suggests for `RanksFollowPids` and `NobodyLost`,
is left to prove.
