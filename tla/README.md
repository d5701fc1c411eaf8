# Verification of leeos

leeos is a small 32-bit x86 kernel: it boots from a hard disk, runs kernel threads and
user processes on one CPU under a preemptive round-robin scheduler, allocates memory in
pages and in small blocks, drives the clock, the keyboard and IDE disks, and has the
beginnings of a file system. This directory models its core in TLA+, checks the models
with TLC and proves the main results with TLAPS. Source paths below are relative to
`src/`. The `map` in `PROJECT.json` gives the lines behind every definition.

## 1. Inventory

| Part | State | Operations | Interacts with |
|---|---|---|---|
| list (`lib/kernel/list.c`) | head and tail sentinels, prev/next pointers | init, insert_before, append, push, pop, remove, elem_find, traversal | used by everything that queues |
| threads (`thread/thread.c`, `switch.asm`) | `ready_thread_list`, `all_thread_list`, the pcbs, `next_pid` | thread_start, schedule, thread_lock, thread_unlock, thread_yield, idle, allocate_next_pid | called by the clock handler and by sync.c; calls process_activate |
| semaphores, locks (`thread/sync.c`) | value, waiter list, holder, holder_repeat_num | sem_down/up, lock_acquire/release | thread_lock and thread_unlock |
| interrupts (`kernel/interrupt.c`, `kernel.asm`) | EFLAGS.IF, handler table | enable, disable, set_status, entry and exit | all code that must be atomic saves and restores IF |
| processes (`userprog/process.c`, `tss.c`) | pgdir, user address bitmap, cr3, tss.esp0 | process_execute, process_activate | the scheduler at every switch |
| bitmaps (`lib/bitmap.c`) | bits | scan, set, test | page pools, file system |
| pages (`kernel/memory.c`) | two physical pools, virtual pools, page tables, a lock per pool | vaddr_get_pages, palloc, page_table_add, malloc_pages, free_pages, get_a_page | block allocator, thread creation |
| blocks (`kernel/memory.c`) | block descriptors with free lists, arenas | sys_malloc, sys_free | pages |
| clock (`device/timer.c`) | ticks, pcb->ticks | the handler, mtime_sleep, frequency_set | schedule, busy_wait |
| ioqueue (`device/ioqueue.c`) | ring buffer, head, tail, producer, consumer, io_lock | getchar, putchar | thread_lock/unlock; filled by the keyboard handler |
| keyboard (`device/keyboard.c`) | ctrl, shift, alt, caps lock, ext_scancode | the handler | ioqueue |
| console (`device/console.c`) | console_lock | put_str, putChar, put_int | lock, print |
| IDE (`device/ide.c`) | per channel: lock, expection_interrupt, disk_done_sem; partition list | ide_read, ide_write, the handler, identify_disk, partition_scan | lock, semaphore, mtime_sleep, the disk |
| file system (`fs/*.c`) | super block, bitmaps, open inodes, file tables | format, mount, inode open/close/sync, directory entries, block allocation | disk, memory |
| system calls (`lib/user`, `userprog/syscall-init.c`) | a table | write, malloc, free, getpid | memory, console |
| start-up (`boot`, `kernel/init.c`, `main.c`), strings and printing | | | |

What is hard here: the clock interrupt preempts any thread wherever IF is set; a thread
that calls schedule() continues arbitrarily later with the interrupt flag it saved; several
pieces of kernel code share state without a lock; the disk's interrupts come before the
thread waits for them, or too late, or too often; allocation can fail in the middle; and
on disk, writes are neither atomic nor ordered with care. `hazards` in `PROJECT.json`
lists each at its line.

What makes the parts correct: a pcb is in one list and its status says which; a lock has
one owner and no wake-up is lost; the interrupt flag and the address space belong to the
running thread; ready threads run; no page, frame or byte is handed out twice and all of
them come back; the ioqueue is a queue; what is typed arrives in order; a disk call moves
its own data and returns; the partitions found are those of the disk, a
formatted partition stays as it was formatted through any power cut, an inode is in memory
once and on disk as it was last stored, and storing it disturbs no neighbour.

## 2. Modules

| Module | Models | Uses |
|---|---|---|
| `List` | list.c as operators on sequences | |
| `Sched` | thread.c, sync.c, the clock handler, IF, process_activate | `List`, `Mutex` |
| `Mutex` | what a re-entrant lock promises (abstract) | |
| `MCSched` | the scheduler's constants for TLC; `SchedProofs` its theorems | `Sched` |
| `Bitmap` | bitmap.c as operators; `LibProofs` has the lemmas on lists and bitmaps | |
| `Memory` | the kernel's pages and frames, used by several threads | `Bitmap` |
| `UserMemory` | the processes' pages, page tables and shared pool of frames; `MemoryProofs` the theorems on both | `Memory` |
| `Arena` | sys_malloc and sys_free: blocks, arenas, free lists; `ArenaProofs` its theorems | `List` |
| `Fifo` | a bounded queue (abstract) | |
| `IoQueue` | ioqueue.c; `IoQueueProofs` its refinement, and the keyboard's theorems | `Fifo` |
| `Keyboard` | intr_keyboard_handler writing into an ioqueue | `IoQueue` |
| `Ide` | one IDE channel, its threads, its handler and two disks; `MCIde` its traffic for TLC, `IdeProofs` its theorems | |
| `Layout` | the arithmetic of fs.c and inode.c as operators | |
| `FsBoot` | partition_scan, filesys_init, partition_format, mount_partition and power cuts; `MCFsBoot` the disks for TLC | `Layout` |
| `FileStore` | a mounted partition: inode.c, dir.c, the bitmaps of file.c, and power cuts; `FsProofs` the theorems on it, on `FsBoot` and on `Layout` | `Layout`, `List`, `Bitmap` |

**Grain of the actions.** There is one CPU. Code between intr_disable and the matching
intr_set_status is one action, unless it calls schedule(): then the action ends at
switch_to, and a later action of that thread continues after it. Code with interrupts on is
split wherever an interrupt between two accesses to shared state could matter. A definition
has the name of the function it models; a function in several actions has its later parts
named after it (`sem_down`, `sem_down_again`; `lock_acquire`, `lock_acquired`).

**Locks above the scheduler.** `Sched` is shown to implement `Mutex`. `Memory` and `Ide`
use a lock as one variable `holder`, which is what `Mutex` allows them to do.

**Sched.** `running`, `intr`, `cr3`, `esp0` are the CPU. A thread's `pc` says where it is
in a kernel operation, `frame` that the clock interrupted it, `old_status` what
its operation will restore, and `caller_intr` the interrupt state its own program asked for
(a history variable, only used in properties). A thread's program is any sequence of calls:
acquire, release of what it holds, yield, starting a thread, switching interrupts off and
on. `thread_start` and `process_execute` are one step each; their interleavings are a listed hazard and planned.

**Memory.** sys_malloc and sys_free hold kernel_pool.lock; malloc_kernel_pages (thread_start,
process_execute) and the page tables that get_a_page needs use the same bitmaps without it.
Every bitmap scan and the set that follows are two steps. The constant `Overlap` says
whether calls without the lock may overlap with others: they do not while main is the only
thread, and they do as soon as another one runs. `tables` holds the frames used as page
tables, and NULL when the unchecked palloc in page_table_add returned 0. bitmap_scan can
read the bit after the bitmap, another variable's: it is in use in the steps, and `FirstFit`
looks at a scan with either value.

**UserMemory.** A process's calls hold user_pool.lock throughout, so each is one step; only
their page tables come from the kernel's pool (the race about those is in `Memory`). Pages are
numbered from vaddr_start, a `uint32_t *` to which vaddr_get_pages adds a number of bytes without the cast
that the kernel's branch has (`kernel/memory.c:136` and `:110`): the block found at bit s is at page 4 s
(`vaddr_page`), up to the ASSERT that it is below the stack, which fails from a quarter of the bitmap on.
get_a_page and vaddr_remove_pages do cast, so a free clears the bits with the numbers of its pages, which are
another block's or nobody's, and the block's own stay set. pfree
takes the pool's first frame for one of the kernel's and clears a bit at an index past the
kernel's bitmap, where the user pool's bitmap begins: `KernelRest` is the bit it hits. A page table
without a frame is put at frame 0 and cleared, with the GDT in it, and a page fault in the kernel
ends in an endless loop: both stop the machine, like the ASSERTs (`halted` says which). `FirstEntry` is where
vaddr_start (0x8048000) is in its page table. The kernel's and the processes' calls
are checked in behaviours of their own (`Callers`), as they share nothing but the kernel pool's frames;
where a behaviour has both and `Overlap` is false, a process's call waits until no kernel call is under way.

**Arena.** The kernel's sys_malloc and sys_free; both are one step, as they hold the pool's lock throughout.
(A process runs the same code on descriptors of its own, over the addresses of `UserMemory`.) `taken` is the
address bitmap. malloc_pages takes the lowest run of free addresses; it fails when there is none, and, as the
frames are shared with page tables and thread stacks, it may fail any time for want of a frame: then the
addresses stay marked (`kernel/memory.c:229`), and `lost` remembers them. Its ASSERT on the number of pages
(`kernel/memory.c:213`) stops the machine. The loop in sys_free that unlinks a
complete arena's blocks is one `list_remove` of all of them.

**IoQueue.** Readers and writers call with interrupts off, as the code asserts. The wake-up
passes the pcb instead of the address of the field, so thread_unlock gets the first word
of the pcb, the saved stack pointer (`unlocked`); nothing happens after that (`Alive`), as the
ASSERT on the status read through that pointer stops the machine.

**Ide.** External and modelled from how the driver uses it: the disk takes a command when
idle, is busy for a while, and raises an interrupt before each sector it offers and after
each sector it accepts, at any later time. mtime_sleep inside busy_wait is only a delay.
A sector count is an 8-bit register, here modulo `max_op`. The constant `Traffics` says
which calls are made, how many sectors a command may have, and whether the disk can be slow:
busy_wait then gives up after its polls and exception_report stops the machine.

**Keyboard.** External: the scan codes a keyboard sends for any sequence of key presses
and releases (make, break, with 0xe0 before the keys of the right-hand side). A make code has 7 bits, and no key has 0x60,
whose break code would be 0xe0. Characters are places in keymap, and every key's character is
one of its own, so `TypedInOrder` can ask that they be the keys pressed, one by one.

**Layout.** A partition is its first sector and its length. `block_bitmap_bit` is the bitmap
that partition_format builds with its two loops, bit by bit; `inode_locate` is the function of
that name.

**FsBoot.** Main alone runs this, before any other thread uses a disk, so the only other actor
is the power. ide_init looks at the second disk of each channel: disks are numbered by
their channel, and sdb1, the partition that filesys_init mounts, is `<<0, 1>>`. The recursive
partition_scan is a stack of calls, one loop turn per step. partition_format's ide_writes are
taken sector by sector, each written whole or not at all; a power cut may come between any two
and loses memory only. That an ide_write of several sectors returns before the disk has written them all,
which `Ide` shows, is not carried over: here it returns when they are. A sector never written reads as zero.
`inode_sync_root` stands for whatever stores the root directory's inode while the machine is in use; as the
code is, sync_dir_entry stops at an ASSERT before it comes to that (`FirstEntryOnly`). The mounted partition's own
directory entries, and the buffers these functions never free, are left out.

**FileStore.** The inode table is modelled byte by byte, so that inodes that share a
sector, cross into the next one or end with it are what they are on disk. An inode has three
fields of a byte; the others are reset or constant. Nothing locks these functions and
nothing calls them concurrently, so calls come one after the other; a call that writes several
sectors is cut by a power failure between any two. Only inodes that were stored are opened, as
a directory entry is the only way to a number. dir_close passes its struct dir where
inode_close expects an inode (`fs/dir.c:75`), so a directory's inode is never closed. A directory's blocks
are sectors of the disk counted from data_start_lba (`fs/fs.c:40`, `fs/file.c:63`); `BlocksAssumption` says
that those handed out are not in the partition's metadata, so that they are a variable of their own. In a
partition that starts after sector 1216 enough allocations end up there.

## 3. Runs

Passing runs:

| Run | Question | Bounds |
|---|---|---|
| `sched_contention` | mutual exclusion, lost wake-ups, one list per pcb, interrupt flag, address space, refinement of `Mutex` | main, idle, a thread, a process; two locks, nested twice, so that everybody can sleep and idle runs; the locks are symmetric |
| `sched_liveness` | every ready thread runs, every waiter is woken | main, idle, a process; one lock, not nested |
| `memory_pages` | kernel: no page and no frame is used twice, blocks stay mapped and a scan finds the first free run, if calls without the lock do not overlap with others; processes: frames are not shared, what was handed out stays mapped, a free returns the block's own frames and never fails free_pages' ASSERT, although it clears the wrong address bits | kernel bitmaps of 2 bytes with 5 pages and 4 frames free, in two groups: across the bytes' border and at the bitmap's end; requests of 1 and 3 pages, so that frames run out first, half way through a request. Two threads; two processes with 23 heap pages, of which every fourth can be the first of a block, 5 to a page table, up to 3 blocks each and 8 frames for both, so that frames and page tables run out and each of the ASSERTs of `UserMemory` but free_pages' is reached. Threads and processes are symmetric |
| `arena_blocks` | free lists, arena counts, live blocks, return of pages | 3 pages, any of which may be lost to a failing call; two small block sizes, large blocks of one and two pages, one of them of exactly a page, and a request of 3 pages, one more than malloc_pages' ASSERT allows here |
| `keyboard_order` | what is queued is what was typed, in order; the ring refines `Fifo` with the handler writing and a thread reading | 3 key presses over 6 keys of every kind, 3 slots, so that it fills up and wraps |
| `ide_traffic` | own data, one credit, no error, every call returns or the machine has reported a slow disk | main identifies two disks, then three threads; commands of one sector, read and write, with up to 2 commands a call; reads of 1 to 3 sectors, 2 per command, so that the count register wraps to 0; each with a disk that is fast and one that may be slow |
| `fs_boot` | partitions are found where they are; formatting survives power cuts and other partitions' formatting; the mounted one is described correctly; the machine comes up | two power cuts; disks with gaps and without, chains of logical partitions longer than what is kept, extended partitions on both disks or as the first entry, a full table, no sdb1; partitions of 64 and 65 blocks, so that the block bitmap ends with a sector and one bit after it |
| `file_store` | the inode table, the list of open inodes, the openers' count and the directories' blocks, after any calls and a power cut | sectors of 5 bytes, inodes of 3: one inside a sector, one across two, one that ends with the table; two openers (symmetric), two blocks, one power cut |

Runs that show a disagreement between the code and what it says of itself; each has an entry
under `findings`, with the line quoted:

| Run | What happens |
|---|---|
| `memory_unlocked` | thread creation and sys_malloc can get the same page; page_table_add's ASSERT then stops the machine |
| `user_malloc_scaled` | a process gets blocks of 1, 3 and 1 pages at bits 0, 1 and 4, which are pages 0, 4 and 16; freeing the second clears bits 4 to 6, so the next malloc finds bit 4 free and page 16 present, and page_table_add's ASSERT stops the machine |
| `ioqueue_wakeup` | the wake-up of a waiting reader or writer is applied to something that is not a pcb |
| `ide_multi_sector_write` | ide_write returns while the disk is still busy |

Some properties are as strong as the code allows, and their statement says where it stops:

* `FirstFit`: for runs of several bits, bitmap_scan also tests the bit after the bitmap
  (`lib/bitmap.c:46`).
* `Disjoint`: a large block of a whole number of pages reaches past its last page, since the
  header is not counted (`kernel/memory.c:354`); only the other blocks are claimed disjoint.
* `TypedInOrder` is about keys, not about the column of keymap: shift_status is only ever
  cleared, by a break code (`device/keyboard.c:136`).
* `NoDiskError`: a disk that is slow stops the machine, even though it would still answer
  (`device/ide.c:197` counts polls, not time).
* `ScanExact`: the logical partitions of a disk after the first one with an extended
  partition can be missed, since extra_lba_base is never reset (`device/ide.c:406`).
* `ComesUp` takes the halt at a disk's fourth primary partition for an end of the boot: the ASSERT
  at `device/ide.c:428` comes after primary_idx++, so it fails for the fourth, although its comment says
  0,1,2,3 and prim_parts has four places (`device/ide.h:30`).
* `AllReturned`: the addresses of a call that found no frame are never given back (`kernel/memory.c:229`).
* `MountSound` is about the numbers of bits: no bit from the partition's number of blocks on is clear. The
  sector that block_bitmap_alloc returns for a bit is data_start_lba + bit (`fs/file.c:63`), and
  data_start_lba is 1216 on every partition (`fs/fs.c:40`), where `fs/super_block.h:22` calls it the data area's
  first sector: so a free bit may name a sector before the partition, in its metadata or past its end. Also, a partition whose formatting was cut has its super block already, so it counts
  as formatted and is mounted with whatever bitmap is there (`fs/fs.c:49`). And it is stated for
  64 blocks and more: for a shorter partition the byte that the tail correction clears lies in the
  wrong place (`fs/fs.c:62`, and `TailUsed` below).
* `FormattedWhole` and `KeepsFormatted` cover root directories that all go to the same sector
  of a disk, since data_start_lba is not relative to the partition: they have the same
  content when they are written. `GeometryAssumption` excludes partitions smaller than their metadata,
  for which free_sects wraps, and disks where that sector lies in a partition's metadata, which
  the root directory would then overwrite (`fs/fs.c:40`). It also excludes disks on which the address that
  an earlier disk's extra_lba_base leads the scan to (`strays`) is a table or lies in a partition: the scan would
  then take that for its extended table (`device/ide.c:406`).
* `EntryKept` stops at the first power cut: bitmap_sync stores the inode bitmap's bits in place
  of the block bitmap's, and blocks are handed out again after the next mount.
* `FirstEntryOnly` says that sync_dir_entry never gets past its first entry: the size of a
  directory with entries is no multiple of DIR_SIZE, and the ASSERT stops the machine.
* `FreeAsserts` and `FreesOwn` hold although pfree and free_pages compare with > (`kernel/memory.c:436`):
  the first process to start takes the user pool's first frame for its stack, and stacks are not freed.
  `FramesApart` leaves out stacks for which there was no frame: get_a_page maps them to frame 0.
  And a free faults if the page after the block has no page table (`kernel/memory.c:501`).
* `LiveMapped` and `Backed` say nothing of addresses that are marked used and not mapped:
  a malloc_pages that runs out of frames keeps them (`kernel/memory.c:229`).

Deadlock is checked except in `IoQueue_wakeup.cfg`, `Keyboard.cfg` and `FileStore.cfg`: there
the system really stops (the machine at the failed ASSERT, everybody waiting on an empty or a
full queue, no key left to press, or nobody who still has to call the file system).

Every property of a passing run has a mutant: a definition of the model with a plausible
mistake under which TLC finds that property violated.

### Fairness

Three runs have liveness properties.

`Sched!Fairness`: the interrupt controller keeps a clock interrupt pending while IF
is 0, so the handler is strongly fair. A thread that has the CPU executes its next
instruction, so what runs with interrupts off is weakly fair; what the clock can
interrupt is enabled again and again rather than continuously, so it is strongly fair. A thread
that has switched interrupts off switches them on, and one that holds a lock
releases it: finite code, which the kernel's own callers satisfy. Nobody is obliged to
acquire, yield or start anything.

`Ide!FairSpec`: a thread inside a call, the handler of a pending interrupt and the busy disk
each make progress. No thread is obliged to call.

`FsBoot!FairBootSpec`: main runs on (`WF_boot_vars(Boot)`). The power need not fail, and fails at most
`MaxCuts` times; `ComesUp` is about what follows the last failure.

## 4. Proofs

| Theorem | Statement |
|---|---|
| `SchedProofs!Invariance` | `Spec => []IInv` |
| `TypeCorrect`, `OneListSafe`, `MutualExclusionSafe`, `NoLostWakeupSafe`, `IntrPreservedSafe`, `AddressSpaceSafe` | the parts of `IInv` that matter |
| `SchedProofs!MutexImplemented` | `Spec => Mutex!Spec` |
| `LibProofs!ScanFirstFit` | bitmap_scan returns the first run that is long enough, or -1 if there is none |
| `MemoryProofs!KernelInvariance` | `~Overlap` implies `AllSpec => []KernelInv` |
| `TypeSafe`, `PteAbsentSafe`, `BackedSafe`, `LiveMappedSafe`, `FirstFitSafe` | the kernel's invariants of `memory_pages`, under `~Overlap` |
| `MemoryProofs!UserInvariance` | `AllSpec => []UserInv`, with or without `Overlap` |
| `FreeAssertsSafe`, `FramesApartSafe`, `FreesOwnSafe` | the processes' invariants of `memory_pages`, and the action property |
| `ArenaProofs!ArenaInvariance` | `Spec => []ArenaInv` |
| `PartitionSafe`, `NoDanglingSafe`, `AllReturnedSafe`, `DisjointSafe` | the invariants of `arena_blocks` |
| `IdeProofs!Invariance` | `Spec => []IdeInv` |
| `OneCreditSafe`, `OwnDataSafe` | those invariants of `ide_traffic`, for all traffic |
| `NoDiskErrorSafe`, `DiskDoneSafe` | if every command that writes has one sector: `[]NoDiskError`, and `[]DiskDone`, which `ide_multi_sector_write` refutes without that assumption |
| `IoQueueProofs!FifoImplemented` | `Spec => ImplementsFifo`, threads at both ends |
| `IoQueueProofs!KeyboardInvariance` | `KSpec => []KInv` |
| `TypedInOrderSafe`, `KeyboardFifo` | the properties of `keyboard_order`: `KSpec => []TypedInOrder`, `KSpec => ImplementsFifo` |
| `FsProofs!RegionsFit` | the regions of a formatted partition follow each other, do not overlap and end inside it |
| `TailUsed` | in a bitmap of 64 blocks or more no bit from the partition's number of blocks on is clear |
| `RootBlockUsed` | the root directory's block is marked used exactly if the number of blocks is no multiple of 8 |
| `InodeReached` | inode_locate names a sector of the table and the inode's offset in it, and the one or two sectors read contain all of the inode |
| `FsProofs!StoreInvariance` | `Spec => []StoreInv` |
| `DiskCurrentSafe`, `CacheCoherentSafe`, `HandlesLiveSafe`, `FirstEntryOnlySafe` | those invariants of `file_store` |
| `EntryKeptSafe` | if block 0 is not free at first, `Spec => []EntryKept` |
| `FsProofs!BootInvariance` | `BootSpec => []BootInv` |
| `FormattedWholeSafe`, `KeepsFormattedSafe` | `BootSpec => []FormattedWhole`, and the action property of `fs_boot` |
| `MountSoundSafe` | if every partition has 64 blocks or more, `BootSpec => []MountSound` |

They hold for any sets of threads, processes and locks, any time slices up to 255 (a
uint8_t), any nesting bound, any buffer size, any partition, any sizes of the memory pools,
any page, header and block sizes, any traffic on a channel, any keys, any sector size, inodes and openers,
any disks with any partitions on them and any number of power cuts, under the assumptions
`ThreadsAssumption`, `NullAssumption`, `BoundsAssumption` of `Sched` and those of
`IoQueue`, `Keyboard`, `Layout`, `FsBoot`, `FileStore`, `Memory`, `UserMemory`, `Arena` and
`Ide`, which TLC evaluates in every run.
Four groups of theorems have a hypothesis of their own, visible in the table. For the pages and the
disk it is what separates the passing run from the run that shows the disagreement; for
`EntryKept` and `MountSound` it is what partition_format's bitmap owes and does not always deliver (see below).

**Scheduler.** None of the named invariants is inductive alone. Mutual exclusion needs to
know that a thread inside `own` or `up` still has its lock in `arg` (`PcOK`).
`OneList` needs it to know which waiter list a blocked thread is in. `IntrPreserved` needs
`SwitchOK`: every thread off the CPU left through schedule(), interrupts stay off until it
has resumed, and what it will restore is what its program asked for. `NoLostWakeup` is kept
because sem_up raises the value and makes a waiter ready in one step, and because a woken
thread that finds the value taken goes back to sleep only while the value is 0. schedule()
has lemmas of its own, as four actions end in it; the list operators' lemmas are
in `LibProofs`. The refinement maps holder to holder and holder_repeat_num to depth: only
lock_acquired, a nested lock_acquire and lock_release take a step of `Mutex`.

**IoQueue.** The queue's content is the segment of the ring from tail to head, as a
function of three variables. The lemmas say what a write at head, a read at tail and no change
do to that segment; from them every step is a `Put`, a `Get` or a stutter.

**Keyboard.** `TypedInOrder` speaks of the moments when nothing is on the wire. `KInv` is its
form for all the others: the characters queued, followed by the bytes on the wire that will become
characters (not behind 0xe0, not a break code, a printable key), are the printable keys
pressed, in order (`Tracked`, by two increasing functions into the keys and into the bytes).
Pressing such a key extends both functions at the end; handling its byte moves one
from the bytes to the characters; any other byte leaves the functions alone or shifts them. `Complete`,
that the last byte sent is never 0xe0, is needed for the first of these.

**Layout.** `LayoutAssumption` only says that an inode and an entry fit into a sector. The
lemmas bound quotients and remainders by products (`DIV_ROUND_UP` is the least multiple that is
enough), so that the theorems themselves are linear. `TailUsed` needs 64 blocks: the odd bits are
cleared in byte `bit_len % 8`, at most 7, which from 64 blocks on is before the tail.

**Inode store.** `FileStoreAssumption` fixes an inode to the three bytes the model keeps of it, and
says that a directory entry is smaller than a struct dir and that two of them are no multiple of it
(24 and 520 in the code); sectors have any size from there, so an inode lies anywhere in one sector or
across two. `StoreInv` adds to the checked invariants what is true between the steps of a call.
`SyncOK`: the buffer of an inode_sync equals the table except for the inode's own bytes, and those of its bytes
that lie in sectors already written are on disk; so writing a sector, or being cut before the next one,
changes no other inode, and an inode that fits into a sector is whole after the first (`WriteLemma`,
`HalfLemma`). `OpenOK`: what is linked is what is in memory, no number twice, since a search that finds
nothing has seen every open inode. `HandlesOK` needs the cardinality of an inode's openers: with
i_open_cnts 1 and one opener, the one that closes is the only one. `EmptyOK`, for
`FirstEntryOnly`: a directory that looks empty has no block, in memory and on disk and in every mixture of the two
that a power cut can leave, since i_size lies before i_sectors in the inode. `EntryKept`
needs `BlockOK` as well: what is free in the bitmap holds nothing. That is where the hypothesis comes from: for a partition
whose number of blocks is a multiple of 8, partition_format's second loop clears the bit of the root
directory's block again (`fs/fs.c:62`, theorem `RootBlockUsed`), and with `FreeBlocks` containing 0 TLC finds the
root directory's block given to another directory.

**Boot of the file system.** `GeometryAssumption` says of a disk that its partitions are disjoint and
have room for their metadata and a block, and that the one sector to which every partition_format writes its root directory
is in no partition's metadata, and neither a table nor a stray (below); it may lie in a gap or among
somebody's data. Tables are in no partition
either, and neither are strays, the sum of two disks' extended addresses where partition_scan looks for
a table when extra_lba_base is an earlier disk's; a stray is no table. `partition_table` says nothing of a
sector that is neither a table nor zeros, so the proof has to show that the scan reads no such
sector. `BootInv` has to carry
these facts through the tables to the writes. A sector with a table holds entries of partitions that
exist (`DisksOK`), so what the calls of partition_scan still have to see does (`StackOK`), and so what they have recorded does
(`PartsOK`). `CallsOK` follows extra_lba_base through the recursion: the first table's call has it from
an earlier disk, or 0, as long as it has not come to its one extended entry, and every call further in
that meets another has it from this disk. Every address the scan reads is then a table or a stray. `FormatOK`: the
writes still to do are the rest of partition_format's, the ones before are on disk, and no partition in the same
place is whole already, since that one would have shown its super block. Two partitions then share no
sector but the root directories' (`WrittenApart`), where both write the same: that is `FormattedWhole` and,
with the data included, `KeepsFormatted`. For `MountSound`, `PassedOK`: once filesys_init has passed sdb's first
partition it has a super block, which can only be its own, and if no power cut came it was formatted to the
end; the list's only sdb1 is that partition. Its bitmap is the one `TailUsed` is about, hence the 64 blocks.
The proof showed that partition_scan's guards in the model were a CASE with overlapping
alternatives, of which TLA+ may choose any; they are an IF, as in the code.

**Lists and bitmaps.** `LibProofs` says of each list operation which elements are linked
after it and that none is linked twice. list_remove is defined by rank (the k-th of the elements
that stay), and its lemma rests on ranks being a bijection. bitmap_scan's second loop is a
recursive function: `ScanWalk` takes the function that maps a position of the loop to the
lowest run it can still find, shows that it satisfies the recursive equation, and that two
functions that do are equal, by looking at the last position where they differ.

**Pages.** `KernelInv` adds to the checked invariants who owns what during a call: one call is
under way (`Exclusive`, which needs `~Overlap`); a page between the set of its bit and
its mapping, and a frame between palloc and page_table_add, is the call's own and nobody else's
(`Progress`); and a free has unmapped exactly the pages it has passed. With that, every failure
half way leaves `Backed` and `LiveMapped` as they were, and the page to be mapped has no entry.
`UserInv` needs, beside frames with one page each, the fact that makes the comparison with > in
pfree harmless: the pool's first frame is the stack of the process that started first (`Stacks`).
It says nothing of the address bitmaps but that a stack's bit stays set: which bits are set and which pages are mapped
is unrelated after a few calls. What keeps frames apart is page_table_add's ASSERT: a page that is
present is not mapped again, and the machine stops instead.

**Blocks.** `ArenaInv` is a conjunction over pages (`Local`), types, free lists without
repetitions, arenas that do not overlap, and the marked pages being those of the arenas and the lost
ones, never both. An operation changes the arena at one page;
`StepLemma` says that then only that page's `Local` has to be shown, and that the pages marked and unmarked are that
arena's; a call that fails changes no arena and loses pages that were nobody's (`SameArena`). The strengthening that
`Partition` lacks is that cnt is below blocks_per_arena: an arena with no block in use has been
given back, which is `AllReturned`. When the last block is freed, free blocks and the freed one
are as many as the arena's blocks, hence all of them: nobody holds another, and the ASSERT on
elem_find holds. `Disjoint` is arithmetic on top: blocks fit behind the header, pages of
different arenas differ, indexes in one arena differ.

**Disk.** `IdeInv`: one thread uses the channel; expection_interrupt and disk_done_sem add up
to one from cmd_out to the sem_down that takes it, and to none otherwise; sectors that the disk
still has to move belong to the thread that is waiting or moving. That gives `OneCredit` and
`OwnData` for every traffic, with late and superfluous interrupts. `Turn` is the part that needs writes of one
sector: then the disk's only interrupt is about the command that waits for it, so the disk is idle when the
thread goes on.

**Only model-checked.** Liveness (the prover handles neither fairness nor ENABLED): `ReadyRuns`,
`WaiterWoken`, `CallReturns`, `ComesUp`. And `ScanExact`, for the disks of `MCFsBoot`: that the scan
misses no partition and records none twice speaks of a selection from a list and of its length, and needs
induction along the chain of tables. (`BootInvariance` has the other half: what is recorded is a partition.)

## 5. Not modelled

The component list in `PROJECT.json` gives the reason for each. In short: boot code, IDT and
8259A set-up, descriptor tables, strings and printing keep no state that later steps
depend on; the console is one lock around one print; system calls are a table lookup; main's
threads are demonstrations. Of the file system: path_parse, path_deepth_cnt and search_file
take strings apart and have no caller yet; search_dir_entry reads blocks through 8-bit addresses
and has none either; inode_bitmap_alloc and the slots of the file table are a scan and a set
that nothing calls; file_create is empty. Overlapping calls of inode_open are a listed hazard
without a property, since no caller makes them yet.

## 6. Plan

In this order:

1. **Address space** (`Sched` with the pgdir that inode_open and inode_close borrow): cr3 and
   esp0 after a switch inside the borrowed section.
2. **Thread creation** and the pointer-level list: walks with interrupts on against
   relinking by the clock handler; refinement of `List`.
3. **Overlapping inode calls** in `FileStore`, once the code has callers that make them.
