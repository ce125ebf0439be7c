# A TLA+ model of the daphne kernel

daphne is a small x86-64 kernel written in C (`src/src/kernel`), with a memory
manager, a scheduler for several cores, a file system and a handful of drivers.
This directory holds TLA+ modules that model its core, the TLC configurations
that check them on small instances, and theorems about them that TLAPS proves
for all instances. Paths below are relative to `src/src/kernel` unless they
start with `tests/` or `src/`.

The modules are read with the code beside them: `PROJECT.json` names, for every
definition that models code, the file, the lines and the function (`map`), for
every property a mutated definition that violates it (`mutants`), and the places
where the code is hard to test (`hazards`).

    tlc -config MCLock.cfg MCLock      # one run; every MC*.cfg works the same way
    tlapm LockProofs.tla               # one module of proofs; there are eight, *Proofs.tla and Induction.tla

## The system

| component | state | operations | module |
|---|---|---|---|
| spin locks (`lib/lock.c`), interrupts around them (`arch/x86_64/idt`) | one word per mutex, the interrupt flag and the in-service bit of each core | `lock`, `unlock`, timer interrupt and its return | `Lock`, `LockProofs` |
| slab allocator (`generic/malloc/malloc.c`) over a growing heap (`mmu.c`) | chain of slabs, each with a page list, a length, a size and a realloc flag; the watermark `ap` | `kmalloc`, `kfree`, `krealloc`, `pool_create`, `pool_alloc`, `pool_free`, `pool_realloc` | `Slab`, `SlabRace`, `SlabProofs` |
| scheduler (`generic/sched/task.c`), driven by `exec` (`generic/binfmt/binfmt.c`) and the timer | a task list and a `running_task` per processor structure, `pid`, `_tasks_distributed`, `added_task_idx` | `sched_init`, `sched_create_task`, `sched_queue`, `assign_tasks_to_cpus`, `copy_task_to_cpu`, `switch_task` | `Sched`, `SchedProofs` |
| start of the application processors (`arch/x86_64/smp.c`, `smp.asm`, `ap_startup` in `main.c`) | `smp_cores`, `current_ap`, `_ap_is_ok`, the stack mailbox at `SMP_STACK` | `smp_init`, `smp_signal_ap`, `ap_startup`, `smp_next_ap` | `SmpBoot`, `LockProofs` |
| physical memory (`arch/x86_64/pmm.c`, `generic/memory/bitmap.c`) | the memory map, the bitmap, `pmm_lock` | `pmm_init`, `pmm_alloc`, `pmm_alloc_page`, `pmm_free` | `Pmm`, `MemoryProofs` |
| virtual memory (`arch/x86_64/vmm.c`, with `context.c` and `mmu.c`) | page tables, the kernel's own `pml4`, the root each core has loaded | `vmm_init`, `map_page`, `user_virt_map`, `copy_page`, `vmalloc`, `vfree`, `mmap_current`, `swap_page_directory` | `Vmm`, `AddressSpaces`, `MemoryProofs` |
| file system (`generic/fs/vfs.c`) over `lib/tree.c`, `lib/list.c`, `lib/hashmap.c` | a tree of nodes with lists of children, the `ref` flag and operations of each file | `vfs_init`, `vfs_mount`, `vfs_unmount`, `vfs_open`, `vfs_close`, `fread`, `fstat` | `Vfs`, `Namespace`, `VfsProofs` |
| ramdisk and executables (`modules/ramdisk.c`, `lib/tar.c`, `lib/elf.c`, `generic/binfmt`) | files of the archive, `binfmt_lock` | `ramdisk_init`, `binfmt_load` (`Vfs`), segments of `elf_load` (`Vmm`), `exec` (`Sched`) | in part, in these three |
| clock (`generic/time`, `modules/apic`, `modules/pit`) | list of hooks, `jiffies`, the timers that run | `clock_hook`, `time_source_tick`, `clock_run_hooks`, `delay`, `apic_init` | `Clock`, `ClockProofs` |
| real time clock (`arch/x86_64/cmos.c`, `generic/time/time.c`) | the registers of the clock, the time stamp of the start | `cmos_time`, `cmos_to_unix`, `time_init` | `Rtc`, `ClockProofs` |
| log and terminal (`lib/printk.c`, `generic/shrimp/shrimp.c`) on the frame buffer (`generic/shrimp/lfb.c`) | `printf_lock`, the cursor, `impl_newln`, `saved_index`, what is on the screen | `printk`, `shrimp_print`, `shrimp_update`, `ansi_parse`, `shrimp_putc` | `Console`, `Terminal`, `ConsoleProofs` |
| time stamp counter (`arch/x86_64/tsc.c`) | its frequency | `tsc_init`, `tsc_delay` | not modelled: reads of a hardware counter |
| interrupt and descriptor tables, ACPI, PCI, font, keyboard, speaker, string library | tables, device registers | set-up, port I/O, formatting | not modelled, see the end |

How they interact. `kernel_main` runs on the boot processor (BSP): it sets up
interrupts, the heap, the scheduler, the file system, starts the application
processors (APs) one at a time with `smp_init`, and then has the API `exec` to
queue user tasks (nothing in the repository calls `exec` yet; `Sched` has kernel
main call it any number of times). Each AP runs `ap_startup` and then idles.
The timer interrupts every core; its handler ends in `switch_task`, which
changes the task list of that core and, the first time it selects a user task,
leaves the handler for user mode and does not come back. All of this shares the
slab allocator, under spin locks.

What is hard in it:

* **Interrupts inside critical sections.** `unlock` executes `sti` before the
  store that frees the mutex and restores no earlier flag. A nested pair of
  `lock` and `unlock` opens interrupts in the middle of the outer section.
* **Dropped contexts.** A switch to a user task abandons the interrupted kernel
  code, with whatever it holds and had still to do, and skips `lapic_eoi`.
* **Sharing by convention.** A page of a slab is owned because it was taken off
  a list; the list operations have exceptions for first and last elements.
* **Numbers of different kinds used for one another.** Processor ids, LAPIC ids,
  indices and counters (`smp.c`), bits and bytes and addresses (`pmm.c`), sizes
  with and without a header (`malloc.c`), pids and list positions (`task.c`).
* **A hand-over between processors** through one mailbox and one flag.
* **One list under two locks.** `kmalloc` holds `malloc_lock` and `kfree`
  `free_lock`, and both change the same list of pages.
* **Answers nobody looks at.** `pmm_alloc_page` has no page and answers 0, a
  pointer of fresh memory is used as if it was cleared, a list insertion is
  counted but not found.
* **State that outlives its call.** The static place of `ansi_parse`, the static
  flag of `tree_free_node`, a count of characters that goes on over messages.
* **Hardware that goes on** while its registers are read one by one.

What makes each component correct: a mutex has one holder, and nobody waits for
ever; a block or a page has one owner and the size it claims; a task is on one
core and runs there; a processor has a stack and a structure of its own; memory
a user may touch belongs to one address space, and the kernel is in all of them;
a path stands for one node and an open file for one thread; a message appears
whole and inside the screen; the time is one the clock showed.

## Modules

### Lock

State: `mutex` (the words), and for each core `iflag`, `inService` and the
context `cur` it executes. A core has two contexts, its kernel thread and the
timer handler, each with a program counter `pc`, the mutexes it holds and the
one it spins for. `CallLock` is `cli` and the entry to the loop, `Acquire` the
compare-and-swap, `CallUnlock` the `sti`, `Release` the store. The kernel is
built with `-O2`, where `unlock` is inlined as `sti` and a store next to each
other; the processor takes no interrupt after an `sti` that found the flag
clear (`pc = "shadow"`), and may take one after an `sti` that found it set
(`pc = "release"`). `Tick` is the delivery through an interrupt gate,
`IrqReturn` is `lapic_eoi` and `iretq`, `SwitchToUser` is
`arch_switch_to_user`. Which mutex may be taken inside which section is the
constant `Calls`; `Rank` is the order along which the kernel's calls descend
(`exec_lock` > `sched_lock` > `malloc_lock`, `free_lock`, `pmm_lock`; the timer
handler takes only `task_switch_lock`, and inside it no other).

### Slab

`heap` is the chain of slabs, the pages ever created with the size of the block
behind each, and the watermark. A page list is the sequence of page numbers from
`slab->pages` on. Every entry point is one action and carries out the whole
call: `Kmalloc` includes the creation of the small slabs at the first call, the
creation of a large slab and its new role as the head of the chain,
`slab_pick_and_allocate` and `slab_pop_page` with its refill; `Krealloc` includes
the allocation and the free; `PoolRealloc` the change of the pool's size and the
emptying of its list. `status` stops the model at the panic of `mmu_alloc`
(which is `for (;;)`) and at a NULL dereference. Callers own the blocks in
`live` and free a block once. `krealloc` with size 0 is `kfree`, and a NULL
argument is not passed. `MaxPools`, `MaxLive`, `Requests` and `PoolSizes` bound
the callers; the heap bounds the pages.

`TestLoop` is the specification of `tests/cases/malloc/malloc_test.c`.

### Sched

`list[k]` and `running[k]` are the processor structures. The BSP never calls
`cpu_set_current_core`, so its `this_core` is the structure at address 0
(`Boot`), and entry 0 of `smp_cores`, to which `assign_tasks_to_cpus` gives
tasks, is used by nobody. `exec` is a sequence of steps, `Exec` (create a task
and load the executable or fail), `SchedQueue` (link it, decide about the
distribution), and one step for every task that is copied (`ShareTask`,
`LeftoverTask`, `AddTask`), with `at` as its program counter. `Tick(c)` is the
timer interrupt with all of `switch_task`, on any core between any two of these
steps; it includes the states of both tasks, `running_task`, the departure to
user mode and the missing `lapic_eoi`. Two facts of the code shape `Tick`:
pool memory is not cleared, so `running_task` of an AP's structure is NULL or
anything (`Wild`, after which the core is `Lost`), and a core leaves for a user
task at most once, so saved registers are written but never restored and are
left out. A switch on an AP executes `sysret` without `EFER.SCE`, an invalid
opcode: the core is `Panicked`. The branch of `sched_queue` for a single core is
unreachable (it is inside a test of more than one core, `task.c:133`).

`copy_task_to_cpu` leaves the original where it is, in the list the BSP executes
from. `OriginalAndCopy` says exactly what that makes of the distribution: at every
moment a queued task has its original there and at most one copy, on the structure
that `assigned_to_cpu` names. A task that is given to another core is in two
lists that are executed; one that is given to `smp_cores->cpus[0]` is in the BSP's
own alone, since nobody executes from that structure.

### SmpBoot

The BSP's walk over the processors of the MADT, `bsp` being its place in
`smp_init`, and for every processor `mode`, its stack and its structure. INIT,
SIPI, the load of the stack by the trampoline, the choice of the structure by
`current_ap` and `smp_next_ap` are separate steps of the two sides. Delivery of
INIT and SIPI and the presence of listed processors are assumed. An INIT sent to
the BSP by itself stops it (`mode[Bsp]`).

### Pmm

`pmm_init` makes the first usable region the bitmap (`Init`, all of it: the set
bits and the shrunk region). `pmm_alloc` is `AllocLock`, `AllocFind` (which also
releases the lock, as the code does), `AllocLoad`, `AllocStore`: `bitmap_set` is
a load and a store of one byte, so that two cores can lose each other's update.
`AllocStore` includes the walk of `pmm_add` and the rounding of
`pmm_alloc_page`. `pmm_free` is `FreeLock`, `FreeLoad`, `FreeStore`. Addresses
are integers and the page size is scaled down from 4096 to 4. An access
beyond the memory map or the bitmap stops the model (`status = "overrun"`).
No AP allocates pages today: the run with two cores asks what `pmm_lock`
promises, not what the kernel does at present.

### Clock

`nodes` is the list of hooks, its first node the static one. `clock_hook` is
`HookAlloc` and its three stores, which `HookStore` executes in any order: they
are independent and the compiler orders them as it likes (gcc stores the
function first). The handler of a timer interrupt on each core is `irq`:
`TickLoad` and `TickStore` are `++jiffies`, `RunHooks` one turn of the loop of
`clock_run_hooks`, `Eoi` its end. A delay is its first and its last read of
`jiffies`; the reads between change nothing. An AP delays once, in `apic_init`
with interrupts off; `DelayEnd` is then also the start of its own timer, and the
BSP can do the same once (it calls `apic_init` after `smp_init`). The PIT, which
nobody stops, interrupts the BSP only. All readers truncate `jiffies` to 32 bits;
`Word` is the number of values of that word. The argument of `delay` has 64
bits: a negative result of `msec_to_jiffies` or `usec_to_jiffies` is more than
any difference of two words, and the delay never ends (`nanosleep`, always).
`elapsed` is a history variable, the PIT interrupts since a delay began. Hooks
return in this module; the one that may not is the subject of `Sched`.

### SlabRace

`Slab` takes a call as one step; `SlabRace` has one access of the page list per
step, for calls of `kmalloc` and `kfree` of one slab on several cores, under
their two locks. `next` are the next pointers. A page keeps the pointer it had
when it was taken off the list until `Clear`, the last store of
`slab_push_page`. `PopPage` reads the first page and tests the length, `AppendPage`
and `Appended` are the refill page by page, `RemoveTest`, `Search`, `Unlink` and `Got` take the
page out: `Search` is one turn of the loop of `slab_remove_page` from the head to the
next pointer that leads to the page, without a test for the end of the list, and
`Unlink` stores there the next pointer as it was read before, or reads it
again, as the compiler likes. The loop does leave the list: a `kfree` whose `Walk`
has found it empty may link its page to the head after a `kmalloc` has refilled the
list and read its first page; what follows is undefined (`outcome`), and
`CallsReturn` does not speak of such a call. `Walk` is one turn of the loop to the last page,
`Link` and `Clear` append. The first page is `SlabHead`, `Wild` what a fresh page
holds.

### Vmm, AddressSpaces

`mem` is physical memory as far as it holds page tables: a frame is a function
from indices to entries with a frame, a present and a user bit, and `Index` takes
the index of a page at each of the four levels. `NextLevel` is
`next_level_or_alloc`, `MapPage` is `map_page`; both work on a record `w` of
memory, the free frames, the table the walk has come to, and whether an
allocation failed (`short`). A call is one step, because only the BSP makes any:
`Vmalloc` (a new root with `map_spec`, the heap copied by `copy_page` and the
user's stack and heap), `MmapCurrent`, `LoadSegment` (`user_virt_map` and the
copy of a segment at its virtual address), `Vfree`, and `Switch`, the departure
for a task with `swap_page_directory`, on any core. `VmmInit` is `vmm_init`. The
loops of the code are recursive functions of the number of turns: `MapRange`
(`user_virt_map`, and the heap in `map_kernel`), `MapLow` and `MapKern` (the two
loops of `map_spec`), `CopyHeap` ("Copy heap over"); `Booted` and `Created` put
them together for `vmm_init` and `vmalloc`.

`VmmLayout` is the layout of `vmm.h` and `mem.h`: the kernel's heap lies above the
identity mapping, heap, stack, the task's heap and its segments (with the extra
pages `elf_load` maps) lie below the view of physical memory, and that below
the kernel, which ends where the address space does.

Facts of the code that shape it. The recursive entry is stored without flags.
`pmm_alloc_page` answers 0 when no page is left, and nobody tests it: frame 0
is a frame of `mem` like the others, filled with `Dirty` entries at first.
`user_virt_map` takes a number of pages, and `elf_load` passes bytes. `pmm_free`
frees nothing (see `Pmm`): it takes the offset of a frame in bytes, 4096 a frame,
for the number of its bit. The byte of that bit is 512 bytes a frame behind the start
of the bitmap, so for frame `k` of the region it is in frame `k \div 8` from there on
(`FrameOfBit`), at the start of entry 64 * (`k % 8`) of it (`EntryOfBit`), and the bit is the
lowest of it. Inside the bitmap (`BitmapFrame`, `BitmapPages`) that takes another page out of
use; behind it the byte is in the first frames that were handed out, the kernel's own
tables, and the store clears a present bit (`ClearPresent`). `vfree`, which nothing calls
yet (`context.c:31`), is the only way to `pmm_free`. `swap_page_directory` loads `cr3` only where `is_bsp`
is set, which in the structures of the APs is whatever pool memory held, and in the
BSP's too on a machine with one core, where `smp_init` returns before it sets it (`smp.c:226`). `outcome`
is `"starved"` from the first failed allocation on, `"overwritten"` after a
segment was copied over a page table, and `"overrun"` after `pmm_free` has written
behind the bitmap; after the last two nothing more happens, and the properties are about
`"ok"`, the time before all three.

`AddressSpaces` is what the callers count on: every root is a function from pages to
mappings, a call adds a space, changes one, or removes one, the kernel's pages
are in all of them, and no frame a user may touch is in two. `Vmm` implements it
with `space <- Spaces`, the translation of every page from every root, while
memory lasts.

### Vfs, Namespace

`tree` are the nodes of the tree with their lists of children, as a walk from the head
of a list finds them. `Mount` is `vfs_mount` with a node, all of it under
`vfs_lock`: directories on the way are created or found (`CreateOrTraverse`),
the node is inserted, and the file system's `mount` stores the operations.
`RamdiskEntry` is a turn of the loop of `ramdisk_init`. `vfs_canonicalise` allocates one
byte less than it needs and puts a slash in the place of the last 0, so that the walk
goes on in the memory behind: with the names `Behind`, any that the memory may spell (none
when it begins with a 0 byte), or over the end of the buffer for a name (`"undefined"`).

An unmount, which does not lock, is two steps. `Unmount` is the look-up and
all that happens until `list_remove` begins to shift: `tree_free_node` unlinks the node
of its first call only, as its flag is static, and of the last cell of a list
`list_remove` uses a pointer it has never set. `Removed` is the end: the list is one cell
shorter and the node and what is below it are freed. In between (`removing`)
the cells of the list have the data of the next one, or not yet, and any walk
(`Answers`) may step over a child behind the removed one, or get the sibling behind the one
it has matched; it may find nothing, go wrong (`Meets`), or create a directory that
exists; and what joins the list may be lost with its last cell. The steps of `Mount`,
`RamdiskEntry` and `Exec` use such walks. `list_remove` leaves the tail of the list
outside of it (`cut`), after which an insertion is counted but not found.

An `exec` is a thread with the steps `Exec` (`binfmt_lock`, look-up under
`vfs_lock`), `FindData` (the tree node is read after that), `OpenTest` and
`OpenSet` (`ref` is tested and set without a lock of its own), `Stat`, `Read` and
`Close`. `ref` and `ops` of fresh nodes are anything (`"wild"` operations are
called at the reader's risk). `status` stops the model where the code goes on
with memory it should not use: `"undefined"`, `"lost"` after an insertion that is
not found, `"freed"` after a node was freed but not unlinked.

`Namespace` is the promise: a path stands for one mounted node; a mount adds names
along one path and changes none; an unmount takes away what was at or below one
path. `Vfs` implements it with `names <- Names`, what a look-up of every path
answers when no `list_remove` overtakes it: `Unmount` is a step that leaves the names as they
are, and `Removed` the one that takes them away. During a removal a look-up of
another name in the same directory may miss it; that no look-up does is
`LookupsFindNames`, which does not hold. So the refinement says what is true of mounts
at any time and of unmounts once they have ended, and not that an unmount is one step for
those who look on.

Three choices of this model: nobody unmounts during an unmount (no code of the
kernel calls `vfs_unmount`; two at once would shift one list under two pointers);
`Overtaken` takes every child behind the removed one for one that may be stepped
over; and nodes are freed when the removal ends, with those that were
mounted below it meanwhile. A thread that has found a freed node fails at `FindData`
(`"undefined"`).

### Rtc

`now` are the six registers of the clock, `uip` its bit for an update in
progress; `UpdateBegins` and `Update` are the hardware, which counts on between
any two reads, and `Advance` is a second (external: it is modelled from how
`cmos.c` uses it). `time_init` is the process: a dump is `DumpBegins` (the bit is
clear), six times `Read`, and its end, `CmosTime` for `cmos_time`, `CmosUpdated`
and `Compare` for `cmos_to_unix`, which dumps until two dumps in a row agree.
`UnixTimestamps` is the conversion, with the leap years of `cmos.c`; in January
it reads in front of `days_of_month`, so that it is a set of results. `Quiet` is
the number of dumps for which there is time between two updates: the hardware
updates once a second and a dump takes some microseconds. `seen` is a history
variable: what the clock showed since `cmos_to_unix` began.

### Console, Terminal

A message is a sequence of characters and escapes, as `vfprintf` has formatted
it. One turn of the loop of `shrimp_update` is `Parse` (an escape is skipped and
`ansi_parse` called), `Break` (the row is full) and `PutChar` (a space after a
line break is skipped, a newline or a glyph put). The screen is a set of cells
`<<row, column, character, colour>>`, in which scrolling moves all rows up. `saved_index` is
the static place of `ansi_parse`: a colour moves it on, a reset does not, the end
of the message sets it back. `Limit` compares a number of columns with one less
a number of pixels, as the code does. All cores print; `printf_lock` is taken by
`Printk`.

`Terminal` promises that messages appear whole, one after the other, each glyph
in its colour, and that only what scrolls out is lost; line breaks and spaces
are its own affair, and tabs are left out, for `shrimp_update` counts them and draws
nothing. `Console` implements it with `lines` read off the cells and
`rest` what is missing of the message.

## Runs

| run | instance | what it shows |
|---|---|---|
| `lock` | 3 cores, 4 mutexes nested up to 3 deep, symmetric cores | exclusion, no self-deadlock, leaf sections run with interrupts off, no circle of waiting cores, with interrupts in every window the code opens |
| `slab` | 2 pages a batch, small slabs of 64, 128 and 256 bytes, a heap for the small slabs and two more refills or a pool; 3 live blocks | lists are never cyclic and never mixed, a promised page exists, the first page is never owned, the recorded size is true also after `pool_realloc`, and only one page per slab ever has two owners |
| `slab_race` | 2 threads, 2 pages a batch, 5 pages, 6 calls of `kmalloc`, fair | whatever `kmalloc` and `kfree` do to one another, the list ends, the length stays in range, and every call returns |
| `sched` | 1 to 3 cores, up to 8 calls of `exec`, a threshold of 2 tasks | every queued task is on one core, once, for good; what a core executes is its running task; the load of the cores differs by a bounded number |
| `sched_runs` | 1 core, 3 calls, fair | *violated*: `EveryTaskRuns`. After the first user task the core takes no timer interrupt |
| `smp_boot` | MADTs of 1 to 8, 10 and 11 processors, one with gaps in the ids; 8 structures, fair | own stack, own structure, one processor at a time, and all come online |
| `pmm` | 1 core, 4 memory maps, 8 allocations, pages of 4 bytes | pages in use are disjoint and never overlap the bitmap, over exhaustion, frees and the end of the map |
| `vmm` | 2 cores, tables of 6 entries, 7 low pages, 77 frames, 5 calls | the kernel's half is in every space, the tables of the spaces are disjoint trees of allocated frames, and `Vmm` implements `AddressSpaces` |
| `vfs` | 2 threads, 3 files, 2 names, 7 nodes | a file is open for one thread at a time, and closed after use; the tree and its lists agree; `Vfs` implements `Namespace`, with mounts and look-ups of executables in the middle of a removal |
| `rtc` | starts before midnight: before a leap day, at the end of February, at the end of a year, on an ordinary day; 2 quiet dumps, fair | the time that is converted is one the clock showed during the call, the conversion is exact in February, and the call returns |
| `console` | 2 cores, 2 rows of 2 or 3 columns, 3 messages, 4 prints | no glyph leaves the width of the screen, and `Console` implements `Terminal` |
| `clock` | 1 and 2 cores, 2 hooks, a word of 4 values, delays of 1 and 2 jiffies and one whose conversion fails, fair | an interrupt calls every hook there is, in order, and only an unfinished `clock_hook` can make it fault; with the PIT alone delays last as long as asked for, across the wrap; on one core they end |

Why the bounds are enough. *Lock*: a circle needs two cores, a third shows that
a bystander changes nothing; three nested mutexes are the deepest chain of the
kernel, and the theorems below cover all numbers. *Slab*: 2 pages a batch is the
smallest batch in which the first, a middle and the last page differ; two
refills are needed for a page that was left in the list to be cut off, and three
blocks for a page with two owners beside another. The heap is large enough for
kmalloc's slabs, two refills, or a pool in use and one refill. *Sched*: three
cores have a first, a last and one between; the threshold 2 (4 in the code)
leaves room for eight tasks on both sides of the distribution, and shares of 0
to 2 tasks a core. *SmpBoot*: `SMP_MAX_CPUS` has its real value; the counts go
to it and beyond. *Pmm*: the maps have the shapes that matter to the walk of
`pmm_add` (a gap, an unaligned reserved region, adjacent regions, a bitmap with
more bits than pages); eight allocations exhaust each but one.

*SlabRace*: a batch of two pages has one that is refilled first
and one that is last (the invariant of the proof was also checked with batches of three); five pages allow two refills, and six calls take each page
off the list again; two threads are all that the two locks let in. *Vmm*: six
entries leave room for the identity mapping, stack, heap, kernel heap, the view
of physical memory and the kernel in different tables of the top level, as on the
machine; the low pages, the user's heap and the second segment cross the end of a table;
five calls create a space, use up memory, load and free; the first space's root has its wrong bit
inside the bitmap of five pages, the second's behind it. *Vfs*: two names give
paths of two levels, a name that is mounted twice and a file where a directory
is needed; seven nodes hold the root, both archive entries with their
directories, and mounts during the first unmount and after it; the memory behind a path
is empty or spells a name there is. *Rtc*: the starts cover a carry
through every register; two quiet dumps are the fewest with which the loop must
end. *Console*: two rows scroll at the second line, rows are shorter than the
messages, and four prints end in every column.

*Clock*: two cores are the BSP, which the PIT
interrupts, and one that it does not; a second hook finds a list that is not
empty; four values of the word let a delay begin right before and last beyond
the wrap.

Deadlock is not checked (`CHECK_DEADLOCK FALSE`), because every one of these
systems may really stop: cores leave for user mode and take no more interrupts,
`smp_init` returns, the heap panics, a model reaches its bound on calls.
`NoWaitCycle` and the liveness properties say what may not stop.

Fairness. `SlabRace!RaceFairSpec` and `Rtc!RtcFairSpec` are weak fairness of the steps of
each thread and of the processor: it executes its instructions. `Rtc` adds
that an update the clock has announced happens. `Lock!FairSpec` is the same for
the cores of `Lock`; it promises neither that a spinning core ever wins a race
nor that ticks come. `Sched!FairSpec` is weak fairness of the
steps of `exec` after its entry, and of every core's timer, which is periodic.
`SmpBoot!BootFairSpec` is weak fairness of the BSP and of each processor that was
started. `Clock!FairSpec` has the PIT tick and handlers on the BSP end, and is
strongly fair to the end of a delay: its loop reads `jiffies` thousands of times
in a period, so it does not miss its end again and again. `DelayReturns` is
about one core: on two, the store of an AP's `++jiffies` may be late by any
number of ticks and set the counter back.

### Properties that hold of no instance

Some definitions state what a comment of the code says, or what its callers count
on, and are violated, but have no run of their own. To see one, name it as the
INVARIANT (or PROPERTY) of the configuration.

| property | configuration | what happens |
|---|---|---|
| `Lock!UnlockReleases` | `MCLock.cfg` with `SPECIFICATION FairSpec`, `Core = {c1, c2}`, without `SYMMETRY`, as PROPERTY | a section whose inner `unlock` opened interrupts loses its thread between the `sti` and the store of the outer one (`lock.c:31`); the mutex stays taken |
| `Slab!OneOwner` | `MCSlab.cfg` | `slab_remove_page` leaves the last page linked, and the next pop returns it again (`malloc.c:123`) |
| `Slab!TestLoopSurvives` | `MCSlab.cfg` with `SPECIFICATION TestLoop`, `Requests = {4}`, `MaxPools = 0`, `MaxLive = 1`, `HeapBytes = 4000` | a freed page does not raise `length` (`malloc.c:232`), so alternating `kmalloc` and `kfree`, as the unit test does, exhausts the heap |
| `Slab!EveryRequestServed` | `MCSlab.cfg` with `Requests = {60, 200}` | `kmalloc` passes `KMALLOC_SLABS - 1` to `slab_pick_and_allocate` (`malloc.c:349`): a request that only the largest small slab can serve gets no page, and `kmalloc` dereferences NULL |
| `Slab!RoomForRequest` | `MCSlab.cfg` with `Requests = {60, 90}` | `krealloc` compares with `true_size`, which includes the header of 32 bytes (`malloc.c:376`) |
| `SlabRace!NoFault`, `SlabRace!OnlyLastShared` | `MCSlabRace.cfg` | `kfree` links a page behind one that `kmalloc` takes off the list (`malloc.c:400`): pages are lost while the length still counts them, or handed out twice, and the search of `slab_remove_page` (`malloc.c:124`) for a page that was cut off runs off the list |
| `Sched!EvenDistribution` | `MCSched.cfg` with `CpuCounts = {5}`, `SingleCoreMax = 4`, `MaxTasks = 5` | the share of a core is computed from `pid` (`task.c:106`), which counts failed executables too, and leftovers start at core 0, which can get all tasks |
| `Sched!SwitchReachesTask` | `MCSched.cfg` | an AP executes `sysret` without `arch_features_enable` (`main.c:183`) |
| `SmpBoot!TableFits` | `MCSmpBoot.cfg` with `Madts <- MCOneMore` | nine processors pass the limit of eight (`smp.c:198`) |
| `SmpBoot!BspNotReset` | `MCSmpBoot.cfg` with `Madts <- MCFromOne` | the BSP compares its LAPIC id with a processor id (`smp.c:241`) and sends itself an INIT |
| `SmpBoot!OwnStructure` | `MCSmpBoot.cfg` with `Madts <- MCLast` | with the BSP listed last, `current_ap` is not the index of the MADT entry, and the structure an AP takes (`main.c:110`) is another's |
| `Pmm!PagesDisjoint` | `MCPmm.cfg` with `Core = {0, 1}` | the bit is cleared after the unlock (`pmm.c:81`) |
| `Pmm!FreeMakesRoom` | `MCPmm.cfg` | `pmm_free` clears the bit instead of setting it, and takes the byte offset for the number of the page (`pmm.c:115`) |
| `Pmm!PagesUsable` | `MCPmm.cfg` | `pmm_add` returns the page behind a region (`pmm.c:62`) |
| `Vmm!HeapShared` | `MCVmm.cfg` | `copy_page` takes the index of the last level for one of the first (`vmm.c:48`) |
| `Vmm!UserReaches` | `MCVmm.cfg` | tables keep the flags of the mapping they were created for (`vmm.c:31`): below the identity mapping no page is the user's |
| `Vmm!KernelSurvivesExhaustion` | `MCVmm.cfg` | frame 0 becomes a page table (`pmm.c:128`) |
| `Vmm!FreeStaysInBitmap` | `MCVmm.cfg` | `pmm_free` clears a bit behind the bitmap (`pmm.c:115`, `bitmap.c:33`): in this instance one in the kernel's top-level table |
| `Vmm!SegmentsOverwriteNothing` | `MCVmm.cfg` | segments are written in the space of the caller (`elf.c:57`), where the address may be a page table |
| `Vmm!RunsInOwnSpace` | `MCVmm.cfg` | on an AP `swap_page_directory` loads nothing (`vmm.c:180`) |
| `Vfs!MountsAreFound` | `MCVfs.cfg` | after a removal the tail of the list is outside of it (`list.c:80`) |
| `Vfs!FreedIsInaccessible` | `MCVfs.cfg` | from the second unmount on the node is freed and stays linked (`tree.c:47`) |
| `Vfs!LookupsFindNames` | `MCVfs.cfg` | `vfs_unmount` shifts the cells of a list without `vfs_lock` (`vfs.c:168`, `list.c:79`): a look-up of another name in that list may miss it, or get the sibling behind it |
| `Vfs!RamdiskPathsFound` | `MCVfs.cfg` | a file mounted under the name of a directory hides it (`ramdisk.c:108`, `vfs.c:51`), and a file without a directory is mounted in one of its own name (`ramdisk.c:99`) |
| `Rtc!UnixExact` | `MCRtc.cfg` | the conversion adds one month, not all that are over (`cmos.c:112`) |
| `Rtc!TmWasTime` | `MCRtc.cfg`, as PROPERTY | `cmos_time` dumps once (`cmos.c:162`), an update in the middle included |
| `Console!GlyphsInsideHeight` | `MCConsole.cfg` | the last row lies partly below the height (`lfb.c:84`) |
| `Console!ImplementsTerminal` | `MCConsole.cfg` with `Messages <- MCResets` | after a reset `ansi_parse` does not move on (`shrimp.c:89`): the next colour is lost |
| `Clock!JiffieIsPeriod` | `MCClock.cfg`, as PROPERTY | `apic_init` starts a second timer on the BSP and one on every AP and does not stop the PIT (`apic.c:30`): a jiffie is a fraction of 1/HZ, and delays are that much shorter |

## Proofs

`LockProofs` proves, for any number of cores and mutexes, from `LockAssumption`
alone (the calls descend along a rank, and `task_switch_lock` neither nests in
another section nor has one nested in it):

| theorem | statement |
|---|---|
| `TypeCorrect` | `Spec => []TypeOK` |
| `MutexSafe` | `Spec => []MutualExclusion` |
| `SelfDeadlockFree` | `Spec => []NoSelfDeadlock` |
| `LeafSafe` | `Spec => []LeafSectionsUninterrupted` |
| `DeadlockFree` | `Spec => []NoWaitCycle` |
| `Inductive` | `Spec => []IInv`, which the others rest on |

None of the properties is inductive alone. `IInv` adds to `TypeOK` and
`MutualExclusion`:

* `NestInv`: of two mutexes a context holds, one has the smaller rank, and the
  other is not a leaf (a mutex inside which no other is taken);
* `SpinInv`: what a context spins for has a smaller rank than all it holds, and
  none of that is a leaf;
* `IrqInv`: a thread neither holds nor wants `task_switch_lock`; a handler holds
  nothing else, and nothing while it enters, while it spins, or while the core
  executes its thread;
* `FlagInv`: a thread that spins is the current context of its core and has
  interrupts off, and so has a thread in the section of a leaf, up to the `sti`
  of the `unlock` of that leaf and the instruction behind it.

`IrqInv` and `FlagInv` exclude self-deadlock: the handler cannot find
`task_switch_lock` held by the thread below it, and a thread is not interrupted
while it spins.

`DeadlockFree` takes, of a set of cores that all wait for one another, the core
whose mutex has the least rank (`LeastNat`, by well-founded induction on the
naturals): a core of the set holds that mutex, so it waits for one of smaller
rank (`NestInv`), which contradicts the choice. The interesting case is a core
that holds the mutex in its thread and spins in its handler: it waits for
`task_switch_lock`, whose holder is in a handler and spins for nothing.

`SchedProofs`, for any number of cores and tasks: `TypeCorrect`, `OneOriginalOneCopy`
(`Spec => []OriginalAndCopy`), `Executes` (`Spec => []ExecutesRunning`),
`Assigned` (`Spec => NeverReassigned`) and `GapBounded` (`Spec => []LoadGapBounded`). The invariant follows the BSP's list,
which is in the order of the pids (`BootInv`): which of its tasks still have no
core depends on where the distribution is, in the first loop, in the second, or
done (`AssignInv`); an assigned task is in the BSP's list (`KnownInv`) and
exactly once in the list of its core (`CopiesInv`). `ExecInv` says that only the
BSP ever executes a task, that it is then inside the handler it left, and
otherwise no task but the root is RUNNING there. Timer interrupts of
any core between the steps change states and `running`, never the order of a list.
For `GapBounded`, the tasks that the round robin has added are the same number `r` for
every core, but for one more on those in front of `added_task_idx`, and what the
distribution gave a core before is at most `SCHED_SINGLE_CORE_MAX_TASKS` + 1
tasks, because it is done while all pids are that small (`GapInv`).

The second part of `LockProofs` is about `SmpBoot`: `BootTypeCorrect` for every MADT,
whatever it lists; `Separate` (`BootSpec => []StartsSeparately`) for every MADT that lists the BSP first under one
number, without which it is false (see above). The invariant: the number
that `current_ap` will have when an AP takes it is the index of the entry that is
being started (`NumberInv`); only the processor the BSP waits for is on its way
(`StartingInv`), and until it has loaded its stack the mailbox holds a newer one
than anybody has (`MailboxInv`).

`MemoryProofs`, first part, about `Pmm`, for every memory map and page size: `TypeCorrect`, for any number of
cores; `Apart` (`Spec => []PagesApart`) as long as one core allocates, which is
what the kernel does and without which it is false. Its invariant: the map ascends,
and all memory that is handed out lies behind the bitmap (`MapInv`); the bit that
was found stays set until the store, and the byte that was loaded is still what
is stored (`BitInv`); a page in use has a cleared bit it comes from (`LiveInv`).
`Places` is the arithmetic of `pmm_add`: different bits give disjoint pages, also
where the walk runs over a gap or the rounding adds a page.

The second part of `MemoryProofs` is about `Vmm`, for any sizes of tables, memory, heap
and segments and any number of calls, from `VmmAssumption` and `VmmLayout`:

| theorem | statement |
|---|---|
| `VmmTypes` | `VmmSpec => []VmmTypeOK` |
| `KernelMapped` | `VmmSpec => []KernelStaysMapped` |
| `TablesTrees` | `VmmSpec => []TablesAreTrees` |
| `TablesImplementSpaces` | `VmmSpec => ImplementsSpaces` |

`KernelStaysMapped` is not inductive: nothing in it keeps two entries from leading to
one table, and then a mapping of one page moves another. `VmmInv` adds, as long as
`outcome` is `"ok"` (`Sound`):

* `Treed`: every table has a level from 4 to 1, a space it belongs to, and the one
  entry that leads to it, and every entry that is present leads to a table one
  level down, of the same space, whose entry it is; frames that are free, and frame
  0, have no level. That is stated by three functions that exist, so that no
  definition has to follow the tables down;
* `Owned`: a page of a user is in a frame that was allocated, and in one no other page of
  a user has;
* every space has the kernel's half (`HasKernel`); the kernel's own has the identity
  mapping too (`HasLow`) and nothing for a user in its first table.

`IndexUnique` says that a page is determined by its four indices, by which
`MapPageMaps` shows what `map_page` does: the page it is asked for is mapped, every
other page of every space is as it was, and the tables stay trees. `WriteTree` is the
last store of it and `NextLevelTree` the step down, whether the table is found or
allocated. The loops are walks one after the other (`MapRangeRun` and its like),
and `Grown` is what any number of calls of `map_page` on one space leaves alone.
`NewRootGrows` is the root of a new space, where the recursive entry without flags
leads nowhere, and `CopyHeapGrows` the copy of the kernel's heap: the entry that
`copy_page` takes from the top-level table of the kernel may lead to a table, and what
keeps it harmless is that it has no user bit and is stored in a table of the
last level, from which no walk goes on.

For the refinement every step of `Vmm` is one of `AddressSpaces` or a stutter:
`Vmalloc` creates a space, `LoadSegment` maps pages for the user, `Vfree` frees, the
others change no mapping that is looked at, and a call that fails, overwrites a table or
frees a bit behind the bitmap ends the promises.
`ViewPrivate` turns `Owned` into the count of frames and pages that `Private` compares,
by a bijection, and `TablesOf` the trees into the one of `TablesAreTrees`: each table but the root
has one link that leads to it.

`ClockProofs`, for any number of cores and hooks and any size of the word:
`TypeCorrect`, `Complete` (`Spec => []HooksComplete`), `Faults`
(`Spec => FaultsOnlyInsideHook`), `LongEnough` (`Spec => DelayAtLeast`).
`ListInv` says what of the list is stored at each point of `clock_hook`, whatever
the order of its stores; `WalkInv` what a handler has called when it is at a
node; `DelayInv` that, with the PIT as the only timer, a delay has seen as many
ticks as `jiffies` has moved on since, around the wrap.

The second part of `ClockProofs` is about `Rtc`: `SnapshotCorrect`
(`RtcSpec => []SnapshotWasTime`), whatever the registers count, from one assumption: at least one whole dump fits between two
updates. The invariant follows the dump that is going on and the one before it:
a dump that no update came into holds what the clock shows; of two that agree
one is such a dump, or both hold what the clock showed before the update.
`FebruaryExact` (`RtcSpec => []ExactInFebruary`) adds the conversion: the loop over
the years sums up to the days of the Gregorian calendar for each of the hundred
years (`AllYears`, by induction over them), the clock advances from dates to dates
(`DateInv`), and with one month over, the one that is added is all there are.

`ConsoleProofs`: `Inductive`, `TypeCorrect`, `InsideWidth`
(`Spec => []GlyphsInsideWidth`) and `ShowsMessages`
(`Spec => ImplementsTerminal`), for any number of cores, messages and prints, from
`ConsoleAssumption`: glyphs of two pixels at least, a margin of two at least
that fits the width, a height of one row at least, and messages in which a
character follows every escape. `CursorInv` relates the count to the cursor: the
count is never behind the column, so that the break comes in time. `ShowsMessages`
has one more hypothesis, `ResetsLast`: no message has a colour after a reset, without
which it is false (see above). Its invariant: the cells are exactly those of a list
of lines whose last one ends at the cursor, without a gap or a second glyph in a
cell (`ScreenInv`), and nothing but resets lies between `saved_index` and the next
character, whose colour is the current one (`ColourInv`). From there every step is
one of `Terminal` or a stutter: `printk` begins a text, `PutChar` shows, leaves out or
begins a line, `Break` wraps. `LinesShown` reads the lines back off the cells, and
`TextSteps` takes one character off the recursive text.

`SlabProofs`, for any requests and any number of slabs, pages and callers:
`TypeCorrect`, `ListsStaySound` (`Spec => []ListsSound`), `HeadersHonest`
(`Spec => []HeaderHonest`) and `SecondOwners` (`Spec => []OneOwnerButLast`). None
is inductive, because `length` and the list of a slab drift apart: a free
puts a page on the list and leaves `length` alone, the last page of the list
is handed out and stays. The invariant is a budget (`Budget`): a page of the list
that a caller owns, or that has the size its pool had before `pool_realloc`, is so
far from the head that `length` is used up, and the list rebuilt, before it is
popped; the one exception is the last page of the first batch, which may be
handed out once more. `Taking` and `Freeing` are the steps that spend it, and
`Served` what a caller receives.

The second part of `SlabProofs` is about `SlabRace`: `RaceListSound`
(`RaceSpec => []ListSound`), for any number of threads, pages and calls. Two locks
let in one `kmalloc` and one `kfree` (`CallInv`), and there is always a numbering of
the pages that decreases along every next pointer (`Falls`), except that
of the page which `slab_push_page` has linked and is about to clear: it may point
back into the list. `HeadPoints`, `EndPointedTo` and `RowPointedTo` renumber the pages
after the stores that add a pointer. The last is for a `slab_remove_page` that has found
its page behind another one than the head, as it may in a batch of three. `OrderInv` says when: a `kfree` was
about to link its page to the head (`AtHead`) while the list was what `kmalloc` had left
of a batch (`Batch`, with `slab->length` at most the number of its pages), so that the page and the
rest of its batch are cut off (`Cut`), were never handed out, and nothing that the list
leads to since then (`Island`) is behind them. A chain of more steps than there are pages would have as
many different numbers (`ChainEnds`).

`VfsProofs`, for every archive, whatever is in memory behind its paths, any paths and
any number of threads: `TypeCorrect`, `OneReader` (`Spec => []OpenForOne`), `Closed`
(`Spec => []ClosedAfterUse`) and `TreeImplementsNamespace` (`Spec => ImplementsNamespace`).
All rest on the tree staying a tree while directories are created, mounts removed and
nodes left behind by `tree_free_node` (`TreeInv`: a node is in the list of its
parent, once, until it is freed, and is younger than its parent; what is being removed is a
node that has not been freed, `RemovingInv`), on a file
having at most one node, and on what the thread in `exec` has found
(`ThreadInv`, with `binfmt_lock`): `ref` is tested and set by two steps without a lock
of its own, and only `binfmt_lock` keeps the two together. A walk may go astray during
a removal, but a thread it leads to a wrong node opens and closes that one.

For the refinement, a look-up is followed level by level (`IsLevels`), and so is any
walk that `vfs_mount` may make (`WalksAre`): either goes from a node to a child of it, so
that both are a `Trail`, and there is one trail to a node (`OneTrail`), as every node is the child
of its parent; as it has one name, there is one path to it (`OnePath`). A
mount lets the tree grow behind what there is (`Grows`), so that what was
found is found again, also when the walk missed a directory and created it once more; and the
nodes it adds lie on the walk it made (`Passes`): the new
names lie along one path, the longest of which is the name of the mount. When a removal
ends it has cut one
node out of a list whose order stays (`Cuts`): a path that finds something else
afterwards passed that node, and so has the path of the unmount as a prefix. The
invariant of this, `NamesInv`: every directory has a name, what is not freed has no
child that is, `vfs_ptr` leads to the node of its file or to the root, and what is being
removed still has the name that the unmount gave, whatever was mounted since. That the root
is among the paths of `VfsAssumption` is used for the mount that adds no name, whose
name may be any there is.

`Induction` holds what these proofs share: least elements of sets of naturals,
induction over a set of numbers, and the existence of a function that is
defined by iteration, which gives the recursive functions of the models
(`Lookup`, `Reached`, `TextFrom`, `SecsSinceEpoch`) their values.

Only model-checked: liveness (`CallsReturn`, `CallReturns`, `AllOnline`, `DelayReturns`),
which TLAPS does not reason about under fairness.

## Plan

What could come next:

1. The composition of `Vmm` with `Pmm`, in which a `pmm_free` that works would show
   what a space still shares when it is freed.

## Not modelled

* **Tables and registers** (`gdt.c`, `idt` set-up, `pic.c`, `irq.c`, I/O APIC,
  MSRs, `cpu.c`): they are written once, at start, and read by the processor. What
  the kernel sees of interrupts is in `Lock`, `Sched` and `Clock`.
* **ACPI and MADT parsing, tar and ELF headers**: sequential readers of an image
  that somebody else wrote. `SmpBoot`, `Vfs` and `Vmm` start from what they return.
* **PCI** (`pci.c`): reads configuration space at start and keeps nothing; a bus
  behind several functions is scanned several times.
* **Keyboard and speaker**: port I/O; the keyboard's characters have no reader.
* **Time stamp counter**: `tsc_delay` waits for a difference of a hardware
  counter. Before `tsc_init` it does not wait, which is why `SmpBoot` assumes that INIT
  and SIPI arrive.
* **Strings and conversions** (`lib/string.c`, `lib/stdlib.c`, `vfprintf`):
  functions without state. Their edges were read and belong to unit tests
  (`itoa` of the least integer, `printk` of 64-bit numbers, `memset` of fewer
  bytes than an unaligned start needs).
* **Hash map** (`lib/hashmap.c`): holds one entry, which is inserted once; `Vfs`
  has its content, whether a file belongs to "ramfs".
* **Font, boot protocol, headers**: `font.c` is a table of 5897 lines, 40 % of the
  source, and `stivale2.h` with the other headers declares structures and
  constants. They hold no behaviour, and are the reason that the modules' `map`
  names a small share of all lines.
* **User land**: the headers of `src/libc` and a sample program.

Memory ordering is the processor's (x86-TSO): the shared words of the models are
written with locked instructions, or by one writer at a time, or their race is
modelled as a load and a store.
