# Verification of the xv6 BFS scheduler kernel

TLA+ models of the kernel in `src/`, checked with TLC on small instances and,
for the properties that matter most, proved with TLAPS for every value of the
constants. `PROJECT.json` maps each definition to the lines it models.

## The system

The kernel is xv6 (x86, 32 bit) with its round-robin scheduler replaced by BFS:
one run queue, a skip list ordered by *virtual deadline*. A process gets its
deadline from the time and its nice value (`computevd`), the scheduler takes
the head of the list, a running process stays listed, and it gets a new
deadline when it yields or its quantum is used up.

| Part | State | Operations | Interacts with |
|---|---|---|---|
| BFS policy (`bfs.h`, `proc.c`) | constants | `computevd` | run queue, scheduler |
| Run queue (`proc.c`) | `ptable.skiplist` | `pinit`, `insert`, `delete` | every change of a process state |
| Processes, scheduler (`proc.c`, `trap.c`, `sysproc.c`) | `ptable`, `cpu`, `ticks` | fork, nicefork, exit, wait, kill, yield, sleep, wakeup, timer | everything that sleeps |
| Locks (`spinlock.c`, `sleeplock.c`) | `locked`, `ncli` | acquire, release | interrupts, scheduler |
| Log (`log.c`) | header on disk and in memory, `outstanding`, `committing` | `begin_op`, `log_write`, `end_op`, commit, recovery | file system calls, buffers |
| Buffers, disk (`bio.c`, `ide.c`) | LRU list, request queue | `bread`, `bwrite`, `iderw`, `ideintr` | log, inodes |
| Inodes, directories (`fs.c`) | inode cache, bitmap | `iget`, `iput`, `balloc`, `writei`, `dirlink` | log, buffers |
| Files, pipes (`file.c`, `sysfile.c`, `pipe.c`) | file table, ring buffer | open, dup, close, read, write | inodes, sleep and wakeup |
| Memory (`kalloc.c`, `vm.c`, `exec.c`) | free list, page tables | `kalloc`, `copyuvm`, `exec` | fork, exit |
| Console (`console.c`) | line buffer | `consoleintr`, `consoleread` | sleep and wakeup |
| User library (`umalloc.c`) | free list | `malloc`, `free` | `sbrk` |

The first three rows and the log are modelled now, about 930 lines of `src/`;
the others are in the plan below.

What makes the code hard: a process gives up `ptable.lock` in the middle of
fork and of exit; sleep and wakeup meet timers, kills and exits in any order;
the run queue is changed on a dozen paths that must agree with the state of the
process; a crash may come between any two disk writes of a commit or of the
recovery from an earlier crash. The `hazards` of `PROJECT.json` list these
line by line, with the properties that watch them.

## Modules

**`Bfs`**: the constants of `bfs.h`, `computevd`, and the set of processes with
the earliest deadline.

**`RunQueue`**: what the run queue promises. A sequence of processes sorted by
deadline; a newcomer goes in front of its equals, because the descent of
`insert` passes only strictly smaller deadlines.

**`SkipList`**: `insert` and `delete` node by node: the descent per level, the
scan for an unallocated node, the links, the tower of a process and its
removal. The height of a tower, drawn by `random()`, is a free choice. The
search of `delete` tests `curr->proc` before it has loaded its first placement
(`proc.c:77`), so it looks at what the descent left behind: the null pointer,
or `level[-1]` when no listed deadline is earlier. The second address lies in
`cpus`, in a word nobody writes, and never matches; the first is the beginning
of the running program's memory. The constant `Stray` says how that read may go
wrong ("match", "fault"). It implements `RunQueue`, with `queue` mapped to
level 0, when `Stray` is empty.

**`Sched`**: `proc.c` with the timer and exit paths of `trap.c` and the process
system calls. `pc[p]` says where the kernel thread of `p` is between two steps.
The Makefile configures one CPU, and a spin lock is held with interrupts off,
so code between `acquire` and `release` is one step; between steps a timer or a
device interrupt may come. `lock` is `ptable.lock` handed across a context
switch. fork is four steps and exit three, as interrupts may come in between
their parts. The run queue is the set of listed processes and the scheduler may
take any one with the earliest deadline: this allows at least what the list
does, since `QueueOrdered` says the head of the list is such a process. The
subsystems that are not modelled appear as channels on which a system call may
sleep and which anyone may wake. Of the four panics of `sched`, "sched running"
is modelled in `exit`, which sets its state in an earlier step than the one
that switches; sleep and yield set it in the same step. The other three (lock
not held, other locks held, interrupts on) are about `ncli` and the interrupt
flag, which belong to the spin locks below.

**`AtomicDisk`**: what the log promises. Operations that overlap form a group;
a group reaches the disk as a whole or not at all.

**`Log`**: `log.c` with one disk write per step, a crash at any moment
(also during recovery, also after a panic) and the recovery of the next boot.
`log_write` is two steps, since it tests the size before it takes `log.lock`.
The buffer cache is a function from blocks to contents; a block in use by one
operation is locked (`bread` returns a locked buffer). The disk starts as
`mkfs` leaves it. `boot` is the loss of memory; of `initlog` what matters is
that operations start after the recovery (`Running`), its comparison of the
header's size with `BSIZE` is one of constants. `Log` implements `AtomicDisk`:
the stable contents are what a recovery would produce now.

**`MCSkipList`, `MCSched`, `MCLog`** give TLC its constants and symmetry sets.
**`RunQueueProofs`, `SchedProofs`, `LogProofs`** hold the theorems. Definitions
with a comment that starts with "Mutant" are wrong versions of the definition
after them, used to see that a property notices the mistake.

## Runs

| Run | Instance | Shows |
|---|---|---|
| `skiplist` | 3 processes, 3 levels, 3 deadlines; 33 thousand states | the list is linked consistently, levels are nested, no node is lost, no panic is reached, and it implements `RunQueue`, for `Stray = {}` |
| `lifecycle` | 3 slots, 3 forks after the first process, 1 channel, 1 tick; 1.6 million states | `QueueExact`, `RunsOnOwnStack`, `ThreadsConsistent`, `ForkOwnsSlot`, `StacksAccounted`, `PidsUnique`, `ReapedByParent` |
| `family` | 4 slots, 4 forks, no timer; 436 thousand states | `NoOrphan`, `ParentsLive`, `NoLostExit` |
| `time` | 2 slots, quantum 2, 4 ticks; 290 thousand states | `NoLostTick`, `QuantumBounded` |
| `log` | 2 operations, 4 blocks, 2 contents, log of 6; 591 thousand states | `CrashAtomic`, `Durable` |
| `log_room` | 3 operations, 6 blocks, log of 6; 832 states | `LogFits`, `NoPanic`, `SleepJustified`, `WakerExists` |
| `skiplist_stray` | as `skiplist`, any word at address 0 | violated: `delete` tests a pointer that is no placement |
| `nice_range` | 2 slots | violated: a nice value out of range reaches the panic of `nicefork` |
| `born_killed` | 2 slots | violated: `kill` marks a free slot |
| `log_full` | 2 operations that use all of `MAXOPBLOCKS` | violated: the log is one block smaller than `begin_op` assumes |

The bounds. Three processes in the skip list give ties, a process before, at
and behind another one and towers of every relative height; the same run with
four processes was made once (20 minutes) and passes. Three slots and three
forks make every slot be used again after a reap or a failed fork, and make one
process kill, wait for or outlive another; the hand-over of a zombie to init
while init waits for someone else needs a grandchild and a fourth slot, hence
`family`, where the timer is left out. `time` needs sleepers with different due
times, a quantum longer than one tick and time to use it up twice. With three
slots two forks are never in progress at once, and `family` has no timer to
interrupt a fork or an exit half way: that two forks keep their slots apart,
and that `exit` hands over a child that is being forked or is exiting, rests on
the theorems `ForkSlotKept` and `NobodyOrphaned`, which hold for any table.

In `log` two operations of two blocks each overlap, absorb each other's blocks
and are cut short by a crash after any disk write. `log_room` asks whether
transactions fit: there are six blocks and three operations that want to write
two each, while the log holds five. What keeps them within it is `begin_op`'s
reservation; `log_write`'s own test comes before the lock and without
absorption in mind, and never decides. Three operations are also what it takes
for one to leave, another to go on and a third to sleep, so that the wakeup of
`log.c:161` matters; contents do not, hence one value. The scheduler runs do
not check deadlock: the bounds on pids and ticks end their behaviours, and a
kernel whose processes all sleep is waiting for an interrupt. The other runs
do.

`log` and `log_room` let an operation write fewer blocks than `MAXOPBLOCKS`.
This is an assumption about the callers: it holds for a chunk of `filewrite`
(at most four data blocks, the inode, the indirect block and the one bitmap
block, of ten), and is not established call by call until the file system is
modelled. `log_full` lets it write all of them, which is what `param.h` calls
the maximum.

No liveness is claimed and no fairness assumed. Under BFS a process that wakes
keeps its old deadline and gets a whole quantum again, so processes that sleep
and wake can keep one with a later deadline from ever running: even weak
fairness of a process's steps is not guaranteed. Lost wakeups are stated as
invariants instead: whoever sleeps has a reason that still holds
(`SleepJustified`, `NoLostExit`, `NoLostTick`), and in the log someone other
than the sleepers has the next wakeup to call (`WakerExists`).

## Findings

- `sysproc.c:110` compares the status that `argint` returns with the nice
  range, not the argument, so every value reaches `nicefork`, which panics on
  an invalid one (`nice_range`).
- `proc.c:742` compares the pid with free slots too. `kill(0)`, or the pid of a
  failed fork, marks a free slot, and `allocproc` does not clear the mark
  (`born_killed`).
- `proc.c:77` tests `curr->proc` before the loop has set `curr` to a placement,
  contrary to the comment at `proc.c:74`. When the leftover pointer is null the
  outcome depends on the first word of the running program, which may equal
  the pointer it is compared with or be unmapped (`skiplist_stray`).
- `log.c:132` reserves space against `LOGSIZE`, while a log of `LOGSIZE` blocks
  holds a header and `LOGSIZE - 1` data blocks, contrary to the comment at
  `param.h:13` (`log_full`).

## Theorems

All are proved for every value of the constants that satisfies the named
assumptions (`BfsAssumption`, `SchedAssumption`, `LogAssumption`).

- `QueueOrdered`: the abstract run queue has no duplicates, is sorted and has
  an earliest process at its head. The invariant is duplicate-freedom with
  sortedness; the lemmas say what `InsertAt` and `RemoveAt` do to a sequence.
- `TypeCorrect`: the type invariant of `Sched`. It is inductive once
  it also says that nicefork's `np` names a slot while fork uses it (`NpSet`).
- `RunQueueExact`, `StackOwned`, `ThreadsWhereStateSays`, `ForkSlotKept`,
  `StacksNeverLeaked`, `NobodyOrphaned`: the invariants `QueueExact`,
  `RunsOnOwnStack`, `ThreadsConsistent`, `ForkOwnsSlot`, `StacksAccounted` and
  `NoOrphan`. None of them is inductive alone. The run queue is exact because a
  thread is only where its state allows; a zombie is not reaped on its own
  stack because it is the current process until it leaves; no process is
  orphaned because the slot of an unfinished fork belongs to a live process
  (`ForkOwnsSlot`, `ParentsLive`). Their conjunction, `SafeInv`, is inductive;
  there is one lemma per group of actions.
- `ExitNeverLost`: whoever sleeps in `wait` has a child, none of them a zombie,
  and has not been killed. It rests on `SafeInv` and on the fact that no
  process is its own parent and init has none (`ParentsProper`).
- `TickNeverLost`, `QuantumCounted`, `PidsNeverShared`,
  `ZombiesReapedByParent`: the properties of `sys_sleep`, the quantum, pids and
  `wait`, each with the types and `SafeInv`; pids need that the 0 which `wait`
  leaves in a free slot is nobody's (`PidsPositive`).
- `TransactionsFit`, `CommitsDurable`, `BeginOpNeverMissed`, `SomeoneWakes` and
  `LogAtomic`, all under `OpsFit`: an operation writes at most `MAXOPBLOCKS`
  blocks, and `LOGSIZE - MAXOPBLOCKS` plus what one operation writes fits the
  log on disk (with the values of `param.h` and `mkfs.c`, at most 9 blocks).
  `LogInv` counts the operations, which shows that no one writes during a
  commit, and says for each phase of a commit and of a recovery which copies of
  a block agree. `write_head` maps to the abstract commit, every other disk
  write to a stutter. That transactions fit is a counting argument
  (`FitsInv`): the blocks listed and the part of their reservations that the
  open operations have not used never exceed `LOGSIZE`, where a block already
  listed is charged to nobody a second time. `WaitInv` says why a sleeper of
  `begin_op` sleeps and who commits.
- `LogNeverPanics`, under `OpsRoom`: with one block to spare (at most 8) none of
  the panics of `log.c` is reached. The test of `log_write` also counts a block
  it would absorb, hence the spare one.

Only model-checked: the skip list and that it implements `RunQueue` (its
operators recurse over levels and nodes). `ParentsLive` has no theorem of its
own; it is a conjunct of `SafeInv`.

## Not modelled, and the plan

Machine-level code is left out: boot, assembly stubs, interrupt controllers,
page-table bits, device registers, string functions. `int` deadlines are
unbounded integers so far. User programs are clients that may make any call at
any time. The rest follows in this order:

1. `Spinlock` (pushcli nesting, an interrupt inside a critical section) and
   `SleepLock`, over sleep and wakeup.
2. `Pipe` against a bounded FIFO, with close, kill and the wrap of its
   counters; `Console`, its ring of three indices.
3. `Bcache` and `Ide` against one copy per block; composed with `Log`.
4. `FileTable` and `Inode`: reference counts, the window in `iput`, block
   allocation, the size estimate of `filewrite` against `LogFits`.
5. `Kalloc` and `Vm`: pages given back exactly once on the failure paths of
   fork, exec and pipe.
6. `computevd` and `sys_sleep` with wrapping integers, the conditions under
   which BFS reaches every process, two CPUs, `umalloc` as a pure algorithm.
7. Proofs of the invariants of the new modules.
