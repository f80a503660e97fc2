# TLA+ models of OS-Linux

The repository is a collection of operating-systems programs in C that share no
code: a multi-threaded CPU scheduling simulator, a file system in user space, a
directory synchronisation daemon, a stopwatch library, an archiver and a
keyboard LED driver. This directory holds TLA+ specifications of them, the TLC
configurations that check them on small instances, and TLAPS proofs. The
simulator is the largest program and the only multi-threaded one; it comes first.

## 1. Inventory

### Planificacion/schedsim: the CPU scheduling simulator

| part | state | operations | interacts with |
|---|---|---|---|
| `sched.c`, main thread (`sched_start`) | the task list, one event per task | enter tasks, create and join one thread per CPU | event lists before the threads exist |
| `sched.c`, simulation threads (`sched_cpu`) | a local step counter; per CPU a run queue with its lock, current task, `need_resched`, `nr_runnable`, `next_load_balancing`; a sorted event list; task descriptors | `scheduler_tick`, `process_sched_events`, `load_balance`, `schedule`, `synchronize_cpus` | other CPUs' run queues (locks), `cpus_completed`, two barriers |
| `sched_*.c`, seven scheduling classes | per task a slice or ticket counter | `task_new`, `enqueue_task`, `pick_next_task`, `task_tick`, `steal_task` | called by `sched.c` under the run queue lock |
| `slist.c` | a list with its size | insert, sorted insert, remove, head, tail | run queues and event lists |
| `barrier.c` | a pthread barrier | init, wait, destroy | `synchronize_cpus` |

Hard behaviour: `load_balance` reads the loads of other CPUs without their locks
and gives its own lock up to take a remote one; the loop condition reads
`cpus_completed` without a lock; the first pick is not behind a barrier; events
and balancing periods are compared with the step for equality; real time is
charged in pieces from `last_time_enqueued`. Correctness: no task is lost,
duplicated or left waiting, times are exact, no preemption is forgotten, locks
never deadlock, migrations improve the balance, all threads stop together and
only when the work is done.

### myFUSE: a file system in one file

`myFS.c` keeps superblock, bitmap, directory and i-nodes in memory and writes
each of them through to the virtual disk; `fuseLib.c` implements the FUSE
callbacks (`mknod`, `mkdir`, `write`, `read`, `truncate`, `unlink`, ...) on
them; `MyFileSystem.c` formats or mounts. Hard behaviour: one operation is
several disk writes with crashes in between, a directory index is used where an
i-node index is meant (`my_unlink`), a free i-node is recognised by a NULL
pointer in memory but by `freeNode` on disk, a write resizes the file to
`offset + size`. Correctness: bitmap, free-block counter and the blocks of the
i-nodes agree; no block has two owners; memory equals disk between operations;
a remount finds what was there.

### Demonio: the directory synchronisation daemon (and Inotify, its predecessor)

`inotify_test.c` configures, daemonises, takes a lock file and sets signal
handlers; `inotify_utils.c` reads kernel events into a queue
(`event_queue.c`) and replays them on the destination directory (`copia.c`).
Hard behaviour: the state of the source directory when an event is handled is
not the state when it was sent; handlers of SIGTERM and SIGHUP run in the middle
of anything; the process can exit at several places with the lock file left.
Correctness: when everything is handled the destination equals the source, the
lock file belongs to a running daemon, a reconfiguration takes effect.

### Temporizacion, myTAR, DriverLED

| part | state | operations | hard behaviour |
|---|---|---|---|
| `tiempo.c`, a stopwatch | `started`, `paused`, `accumulated`, `t_ini`, the clock that `reloj.conf` names | `start`, `stop`, `pause`, `resume` | calls out of turn; `start` reads `reloj.conf` again on a running watch |
| `mytar_routines.c`, an archiver | the archive, the header in memory, the position in the archive | `createTar`, `extractTar` | room for the header is reserved by its size in memory; a byte 255 looks like EOF; a file to pack is missing |
| `ledsa.c`, a character device | `Device_Open`, the message with its pointer, the module's reference count | open, read, write, release, load, unload | test-then-increment of `Device_Open` without a lock, a message buffer shared by all processes, references taken inside `device_open` |

Correctness: the stopwatch shows exactly the time for which it was let run; what is
unpacked is what was packed, and packing that fails leaves nothing; one process has the
device at a time, reads its own message in order and pins the module.

## 2. Plan

1. `SList`, `SchedClass`, `SyncCpus`, `SchedSim`: the simulator, its abstract
   barrier protocol and the refinement between the two. *Done.*
2. Proofs about it: type correctness, the locking protocol, migrations, load
   balancing periods, the refinement; the place of every task and what follows from
   it; slices, preemption, the times and the work of the tasks. *Done.*
3. `MyFS`: the in-memory structures and the backup file, one action per
   callback, restarts between callbacks, over the abstract `FileStore` (names to
   contents). *Done, with its proofs: blocks and counters, contents, the refinement.*
4. `Sincro`: the daemon of `Demonio`: lock file, signals, event queue and
   handlers over directories that change. *Done, with its proofs.*
5. `Stopwatch`, `LedDriver` and `MyTar`: the three small programs. *Done, with their
   proofs.*

Every invariant that a passing run checks, and every action property and refinement, is
a theorem now. Liveness stays with TLC (section 6). What is left of the plan is modelling
that section 7 leaves out, first of all a crash inside a callback of myFUSE.

## 3. Modules

| module | models | |
|---|---|---|
| `SList` | `slist.c` | lists as sequences; the two sorted insertions as "insert where the search rests" |
| `SimParams` | globals of `sched.c` | `NrCpus`, `MaxSteps` |
| `SchedClass` | the seven `sched_*.c` | where a task is queued, when it preempts, its counter |
| `SyncCpus` | the loop of `sched_cpu`, `synchronize_cpus` | abstract: the work of a step and the votes are arbitrary |
| `SchedSim` | `sched.c` | everything, with `SchedClass` inside and `SyncCpus` refined |
| `MCSched` | | the command lines and input files of the runs |
| `FileStore` | what `fuseLib.c` promises to its users | abstract: a content for each name |
| `MyFS` | `fuseLib.c`, `myFS.c`, `MyFileSystem.c` | one action per callback that changes something, `my_read`, mkfs and the remount; refines `FileStore` |
| `MCFS` | | symmetry of the file names |
| `Sincro` | `Demonio/*.c` | daemons, their kernel event queues, signals and the users of the source directory |
| `Stopwatch` | `tiempo.c` | the four calls over clocks that advance and a `reloj.conf` that users edit |
| `LedDriver` | `ledsa.c` | processes in the driver's functions, one action per load or store of `Device_Open`, `counter` and `msg_Ptr` |
| `MyTar` | `mytar_routines.c` | packing and unpacking, file by file |
| `MCTools` | | the last three side by side: a behaviour is one of one of them |
| `SListProofs`, `SyncCpusProofs`, `SchedSimTypes`, `SchedSimProofs`, `SchedSimPlaces`, `MyFSProofs`, `SincroProofs`, `ToolsProofs` | | theorems |

State of `SchedSim`. `conf` is the command line and input file (never changes).
Per thread: `pc` (where in `sched_cpu` it stands), `step`, and the locals of
`load_balance` (`trials`, `scan`, `load`, `peer`, `stolen`). Per CPU, the fields of
`runqueue_t`: `queue`, `cur`, `resched`, `nrun`, `nextLb`, `lock`; and
`events`. Per task, the fields of `task_t`: `state`, `phase`, `ticks`, `onRq`,
`lastCpu`, `lastEnq`, `front` (TF_INSERT_FRONT), `counter` (tcs_data), the three
times, and `timeout` of its pending event.

Granularity. A critical section under one run queue lock is one action that is
enabled while the lock is free: other threads cannot observe its middle, apart
from `nr_runnable`, which the critical sections change once. `load_balance` does
read other CPUs' state without locks and holds its lock across steps, so it is
split: start (`LbSkip`, `LbStart`), one action per load read (`LbScan`), the decision
(`LbBalanced`, `LbNeither`, `LbChoose`), one action per lock operation of
`double_lock_rq` (`LockLower`, `UnlockOwn`, `LockHigher`, `LockOwn`), the second
look at the loads (`LbStale`, `Steal`) and the second half of `move_one_task`
(`Move`). `synchronize_cpus` is split at its barriers. The three "Critical error"
exits and the NULL dereference in `move_one_task` lead to the place "abort".

The scheduler's modules compose with each other; `MyFS` and the others stand alone,
as their programs do.

Left out of `SchedSim`: log registers, statistics, `tick_delay`, memory
management, and the statistics fields of the idle task.

State of `MyFS`. The variables are the fields of `MyFileSystem`: `superBlock`
(`numOfFreeBlocks`), `bitMap` (the blocks marked), `directory` (the entries in use by
index), `nodes` (the i-nodes that are not NULL by index), `numFreeNodes`; `tipo`, kept
apart because `copyNode` does not bring it back; `fh`, the i-node in the handle of
an open file; `block`, the data blocks, which exist on disk only; and `backup`, what
the structures look like there. The program is run with `-s`, as its usage text
says, so callbacks do not overlap and each is one action, with all of its writes to
the backup file. What the kernel does before it calls (a lookup, which is
`my_getattr`) is in the guards. `my_getattr` and `my_unlink` dereference an i-node
that may be NULL: `Segfault` stops the program until `Remount`, which can also
happen at any other time between callbacks. `resizeNode`, the core of the program,
is split into the operators for its pieces (`ClearedTail`, `FirstFree`, `Grown`,
`FreedBlocks`, `Shrunk`). `my_read` is an operator: the content that a reader gets who
asks for a whole file at once. After each block the code adds the position it has reached in the
block to `offset`, instead of the number of bytes read (`fuseLib.c:535`), so a read that begins
inside a block begins every later block at the same position; the operator says so, and
`ReadFiles`, like the page requests of the kernel, begins at a multiple of the block size, where
it makes no difference.

State of `Sincro`. Per daemon: `pc`, `keepRunning`, `watched` (`watched_items`),
`kernel` (events not read yet), `queue`, `event` (the one being handled), `fdOri` and
`pos` (the copy). Shared: `lockFile`, the source directory (`srcDir`, `src` from names to
i-nodes, `data`) and the destination (`dst`). Every system call by which a daemon
looks at or changes a directory is an action (`Stat`, `Creat`, `OpenDst`, `OpenSrc`,
`Copia` per block), so that users change files between any two of them. The test of
the loop (`Check`) and the call of `poll` (`Poll`) are two actions, because a signal may
come between them. `Sigint` sets a flag, and wakes a daemon that waits; `Sigterm`
replaces whatever the daemon does by its handler, also while it is ending; `Alarm` interrupts
`poll`. The end has four places: before main's own `unlink` ("cleanup") or the handler's
("unlink"), and past main's own, where main still closes its files ("closing") or the handler,
come late, is about to unlink once more ("late"). Users,
inotify and signals are modelled from how the code uses them: an event is
appended to the queue of every watcher unless it equals the last one there.
`unrepaired` is a ghost: the files that were cut short, moved away or moved in since they were
last created or deleted. `robbed` is another: a late handler has removed the lock file of a
daemon that worked. They guard nothing.

State of `Stopwatch`: the static variables of `tiempo.c` (`started`, `paused`,
`accumulated`, `tIni`, `clock`), `conf` (what `reloj.conf` names), `now` (the time of
each clock) and `exited`. Ghosts: `asked`, what the caller has asked for so far, as a
caller understands it; `ran`, the time that passed on the clock in use while the watch
was to run; `again`, whether it was started anew after its first run; `begunOn` and `mixed`, the
clock of the open interval and whether one has been closed on another.

State of `LedDriver`: `Device_Open`, `counter`, `msg`, `msg_Ptr`, `leds`, the module (`module`,
`refs`), and where each process is (`at`), with what it has loaded (`loaded`) and
copied (`taking`). Each load and each store of `Device_Open`, `counter` and `msg_Ptr` is an action
of its own, for `++`, `--` and `+=` are not atomic. A read loads `msg_Ptr` for its first test
(`ReadBegins`), for each of its two `strlen` (`ReadCompares`, `ReadLimits`), for the copy
(`ReadCopies`) and for the move (`LoadPointer`, then `StorePointer`). The bytes of the message are
the exception: `sprintf` writes, and `strlen` and `copy_to_user` read, all of them in one action. A
pointer past the end of the array is not repaired by the model: `strlen` may then be
anything up to `MaxRead`. Getting and putting the reference is apart from the return, so that a
process can still run the module's code without one ("leave"). Ghosts: `raced` (two processes
were between test and increment), `exposed` (processes that had no reference when the
module began to go, or came later), `own` and `got` (the message a process has printed, and what
it has read).

State of `MyTar`: the command line (`fileNames`), the header in memory, the position in
`archive`, the archive (whether it exists, what its header says, its bytes) and the
files on disk. Bytes of the header and holes are two values of their own, and
lengths in bytes are constants. The ghost `original` remembers the files as they were when packed.

## 4. Runs

| run | instance | checks |
|---|---|---|
| `sched_one_cpu` | 1 CPU, 3 tasks, 14 steps, quantum 2, all classes | `OnePlace`, `RealTimeExact`, `WorkConserved`, `NoLostPreemption`, `QuantumRespected`, `NoOverdueEvent` |
| `sched_two_cpus` | 2 CPUs, 4 tasks, 14 steps, RR and SJF preemptive | `RunnableCount`, `NoAbort`, `BalancingNeverMissed`, `LockOrder`, `MigrationImproves`, `RealTimeExact`, `NoLostPreemption`, `StopsWhenDone`; refinement `SyncSpec`; liveness `AllTasksComplete`, `Termination` |
| `sched_three_cpus` | 3 CPUs, 7 tasks, 4 steps, 2 trials | `TypeOK`, `OnePlace`, `LockOrder`, `MigrationImproves` |
| `sched_early_arrival` | 2 CPUs, tasks that arrive at step 0 | violates `RealTimeExact` |
| `sched_stale_front` | 1 CPU, PRIO preemptive | violates `WakesBehindEquals` |
| `sched_zero_io` | 1 CPU, an I/O phase of length 0 | violates `NoTaskLost` |
| `myfs_pass` | 2 names, 3 i-nodes, 2 entries, 2 data blocks of 2 bytes | `TypeOK`, `BlocksExclusive`, `QuotaExact`, `WriteThrough`, `WritesExact`; refinement `ImplementsFileStore` |
| `myfs_unlink` | the same | violates `UnlinkRemovesOneFile` |
| `myfs_overwrite` | the same | violates `WriteNeverShrinks` |
| `sincro_pass` | 2 daemons, 1 file of up to 2 blocks, 4 acts of users | `TypeOK`, `OneDaemon`, `NoDifferenceForgotten`; liveness `EndsWhenAsked` |
| `sincro_exit` | the same | violates `EndsOnlyWhenAsked` |
| `tools_pass` | a stopwatch on 2 clocks to time 2; 2 processes, a message of 2 bytes in 4; archives of up to 2 files of up to 2 bytes | `WatchTypeOK`, `MeasuresFirstRun`, `LedTypeOK`, `OneOpener`, `MessageInOrder`, `UsersPinModule`, `TarTypeOK`, `RoundTrip`, `NoHalfArchive` |

Bounds. One CPU: three tasks are enough for a queue of two behind a current one;
bursts of 1, 2 and 3 lie below, at and above the quantum, with profiles that end in
CPU and in I/O and arrivals that coincide and that do not; 14 steps let every such
file finish. Two CPUs: tasks are dealt out in turn, and the files leave one CPU
idle while the other has work, in both directions, so that both CPUs balance at
once; arrivals start at step 2 because of the first finding. Three CPUs: loads
3, 1, 0 make two CPUs migrate while the third reads their loads; four steps and two
trials keep the instance small, the longer behaviours being those of the
two-CPU run. `MaxSteps` is the program's own `-m`.

File system: a file of 3 bytes covers a full block, a partial one and both
boundaries; two data blocks make the disk full after one file of two blocks, so that
`-ENOSPC` and the reuse of freed blocks occur; three i-nodes for two entries let indices of
entries and i-nodes come apart and i-nodes run out (they are not reused before a
remount). `MaxSize`, `MaxWrite` (bytes of one write) and `MaxOpen` (one file at a time
is open) bound what users ask for; the bytes written are all different and
not zero, so that a byte in the wrong place shows.

Daemon: two daemons give every order of start, end, kill and start again, and a
late SIGTERM to the first that takes the lock file of the second away (`OneDaemon` ends there, by
`robbed`); one file
with two i-nodes over its life gives deletion and creation anew under a name the
handlers still work on; two blocks allow a change before and behind the
position of a copy; four changes (`MaxChanges`) are enough to create, write,
delete and create again during one handler, or to move away, and the start of a second daemon counts
as one of them. `NoDifferenceForgotten` leaves out the files in `unrepaired`: MODIFY opens
the destination without O_TRUNC (`inotify_utils.c:86`) and the handlers of MOVED
events only print (line 220), so those keep a wrong copy; that the next creation or
deletion repairs them is checked. The source directory changes
only while a daemon watches it: what is there before is never copied. The timer
is armed with a number of seconds other than 0. Daemons are numbered in the order in which they start.
`CHECK_DEADLOCK FALSE`: daemons end and users need not do anything.

`ImplementsFileStore` says of every step of `MyFS` that it is a step of `FileStore` or none
for the readers, whatever became of blocks and i-nodes below, in every state in which
entries and i-nodes have the same indices (`IndicesAgree`). Without this condition it
is false, by the finding of `myfs_unlink`. The abstract write ends the file where the
buffer ends, which is what the code does and `myfs_overwrite` reports.

Small programs: two clocks let `start` change the clock of a running watch; time 2 gives
intervals of length 0, 1 and 2, and sums of several. Two processes at every point of open,
read and release are enough for the race on `Device_Open` and for a process that is
refused while the other reads in two pieces. A message of 2 bytes in an array of 4 leaves one byte behind
its terminator and an end to run over; `MaxRead` bounds what a read asks for (below, at and above the
message) and what `strlen` finds past the array, `MaxPtr` where a read may begin, and `MaxCount` (no
process opens the device once `counter` has reached it) the opens between two loads of
the module. `reloj.conf` is not edited any more once an interval is mixed, as each edit could add the
difference of two clocks again. Entry
sizes and name lengths are chosen so that the header of two files ends before, exactly at
and behind the beginning of the data; a file may be packed twice, be missing, contain
the byte that counts as EOF in the first place or the second, and change or disappear between
packing and unpacking. `CHECK_DEADLOCK FALSE`: these programs end.

Fairness (`FairSpec`): weak fairness of the main thread, of each simulation thread
and of the release of each barrier. POSIX threads are preempted and scheduled by
the system, so a thread that can go on does; a thread that waits for a mutex
finds it free at the latest when the others have reached the barrier of the
step, where they stay until it arrives, so strong fairness of mutexes is not
needed.

Fairness of the daemon (`FairSpec` of `Sincro`): weak fairness of each daemon that has
been started, its timer included: the process is scheduled by the system, `setitimer`
repeats, and after each expiry `poll` returns with EINTR (it is never restarted). Users
and signals are not fair. A copy ends because users make finitely many changes.
The instances of `MyFS` use safety only, so no fairness is stated.

## 5. Findings

* `sched_early_arrival`: a task may run, and be charged real time, before it has
  arrived in the sense of its own accounting, because the first pick of a CPU is
  not separated by a barrier from step 0 of another.
* `sched_stale_front`: the flag that keeps a preempted task in front of its
  equals is set on tasks that have just gone to sleep, and makes them overtake
  equals when they wake up (PRIO and LOT; in SJF the key changes meanwhile).
* `sched_zero_io`: an I/O phase of length zero makes the simulator lose the task.
* `myfs_unlink`: `my_unlink` uses an index of the directory as an i-node number; after
  the first deletion it empties another file than the one deleted.
* `myfs_overwrite`: a write that ends inside a file cuts the file off there.
* `sincro_exit`: a file that is deleted before its CREATE or ATTRIB event is handled
  makes the daemon exit with its lock file left behind, so that it cannot be
  started again.

Seen while modelling, without a run of their own; the properties are stated so that they do not
claim any of this:

* The two longest-first classes preempt in favour of the *shorter* task (`sched_tjf.c:39`); a CPU
  phase of length zero never ends (`sched.c:495`); `-n` and `-l` are not range-checked.
* `my_unlink` leaks blocks as a consequence of its finding. `my_read` adds the wrong amount to its
  offset (`fuseLib.c:535`), which shows only in reads that begin inside a block.
* A file that is moved or cut short stays different from its copy, with the daemon idle: MOVED
  events are only printed (`inotify_utils.c:220`) and MODIFY does not truncate (line 86), where the
  repository's README promises that directories are synchronised. `NoDifferenceForgotten` leaves out
  `unrepaired`. A reconfiguration by SIGHUP has no effect (the loop goes on with its parameters).
* A SIGTERM that reaches a daemon after main's own `unlink` (`inotify_test.c:245`) unlinks once more
  (line 104) and removes the lock of whoever has started since, so that a further daemon can work
  beside it. `OneDaemon` holds until then (`robbed`).
* In `tiempo.c` the first `stop` leaves `paused` set and `start` does not clear it, so a second
  `start`, `stop` measures nothing, where the comment at line 73 promises the time since `start`; a
  `start` of a running watch after an edit of `reloj.conf` switches the clock of the open interval (line
  51). `MeasuresFirstRun` excludes both (`again`, `mixed`).
* Two processes that open the device at the same moment both get it, although `Device_Open` is
  "used to prevent multiple access" (`ledsa.c:69`), and a lost update of it can leave the device busy
  until the module is loaded again. With two inside, the pointer moves between `strlen` and
  `copy_to_user` of a read, which then copies more than "those remaining to read" (lines 205 to 215), and can
  get past the array. `OneOpener` and `MessageInOrder` hold until they have raced.
* The result of `try_module_get` is not looked at (`ledsa.c:163`), and `device_write` does not compare
  the length of a command with its buffer (lines 236 to 240); the second is not modelled.
* A byte 255 ends the copy of a file where `char` is signed (`mytar_routines.c:27`), although "todo el
  contenido" is to be copied (line 25). Room for the header is reserved with `sizeof` (line 182)
  although the comment at line 156 says that this does not work: names of average length above that
  room make the header overwrite data. `RoundTrip` is about files without such a byte and names that fit.

## 6. Proofs

The theorems hold for every value of the constants that the named assumptions allow
(`NrCpusAssumption`, `MaxStepsAssumption`, `QuantumAssumption`, `SchedSimAssumption` and
`ConfigurationsAssumption` of the simulator: 1..8 CPUs, any tasks, steps, classes and
input files; `FSAssumption`, `SincroAssumption`, `WatchAssumption`, `LedAssumption`,
`TarAssumption` of the other programs). The bounds named in section 4 are such
constants, so the theorems hold for every larger bound too.

### Lists and barriers

* `SListProofs!SortedInsertSorted`: both sorted insertions keep a list sorted.
  The recursion of the search is replaced by "the first position whose element
  does not go before the new one"; `RestProperties` states what that gives.
* `SyncCpusProofs!ExitAgreementHolds`, `LockstepHolds`: the invariant says which
  places the threads can be in together, that all threads of a round test the same
  value of `cpus_completed` (CPU 0 resets it only when a thread has gone on, so
  the value was below `nr_cpus` for everyone) and that steps differ by
  at most the place.

### The simulator

* `SchedSimTypes!TypeCorrect`: `TypeOK` is not inductive. `TypeInv` adds that no
  thread exists while tasks are entered (`ThreadsAfterTasks`), that a starting task is
  in its first phase (`StartsAtFirstPhase`), that a scanning CPU has loads left to
  read (`ScanInRange`) and that a CPU past the decision has a peer
  (`PeerChosen`).
* `SchedSimProofs!ImplementsSync`: every action maps to a step of `SyncCpus` or
  to a stutter, which makes `NoThreadLeftBehind` a corollary for the simulator and gives
  the proofs below the invariant of `SyncCpus` about its threads (`ThreadsFollowSync`).
* `SchedSimProofs!LocksInOrder`: with `LocksHeld` (which locks a thread holds at each
  place) and `PeerIsAnother` (the peer is a different CPU, because the loads of
  the two differ), a waiting thread only waits downwards.
* `SchedSimProofs!MigrationsImprove`: between the second look at the loads and the
  arrival of the task both locks are held, so nobody else changes either counter.
* `SchedSimProofs!BalancingComesAgain`: `PeriodInv` relates `nextLb` to the step
  at every place.

The theorems of `SchedSimPlaces` have the hypothesis `IoTakesTime`: no I/O phase of an input
file is empty. It cannot be dropped: `sched_zero_io` is the counterexample. One
inductive invariant, `PlaceInv`, carries the others. Its parts are about a CPU's lists (`ListsKept`:
nothing is on a list twice, events are in order), about a thread (`ThreadKept`: what is in
its hand or on its processor at each place, no event of its list before the step it looks
at next, `nr_runnable` is the queue plus the task on the processor) and about a task
(`TaskKept`: it is on one list, processor or hand, and its state says which).

* `TasksHaveOnePlace`, `NoTaskIsLost`, `RunnableTasksCounted`, `NeverAborts`,
  `EventsFire` follow from `PlaceInv`. The invariant is inductive only as a whole: that the
  counter is right needs that a task is queued once, that needs its state, the
  state needs that its event is in one list, and the event that it has not been passed over.
* `StopsOnlyWhenDone`: `VoteInv` says that `cpus_completed` is the number of CPUs that have voted
  in this round and that those still have nothing to do. That votes of two rounds
  do not mix and why a thread leaves the loop (`VotesTogether`, `ExitReason`) come from the
  refinement of `SyncCpus`.
* `QuantumIsRespected`: `SliceInv`, a queued task has its whole slice, and one whose slice is used
  up has a reschedule pending that comes before the next tick.
* `PreemptionsHappen`: `RankInv`, the queue is sorted by the field the class compares, and
  its first is no better than the current task unless a reschedule is pending.
* `RealTimeIsExact`: `RealInv` gives the real time of a task in every state, up to the step
  of its CPU; a migration keeps it because all threads are in one step
  (`StepsTogether`). It has a second hypothesis, `ArrivesInTime` (no arrival before step
  2, or one CPU), without which it is false: `sched_early_arrival`.
* `WorkIsConserved`: `WorkInv`, the times charged are the sums of the phases behind the task and the
  used part of the present one. The sums are a recursive function; that it exists and
  obeys its equation is proved with the smallest counterexample (`SmallestExists`,
  `EveryNatural`, `SumsExist`), as the library's theorem on definitions by recursion is out of
  the provers' reach.

### The file system

* `ResizedSound`: what `resizeNode` returns, for any i-node and size. The blocks
  of `FirstFree` are characterised by how many unmarked ones lie before each, from
  which it follows that the search, which has no bound of its own, stays inside the disk as
  long as the counter of free blocks is right.
* `TypesHold`, `BlocksStayExclusive`, `QuotaStaysExact`, `BackupFollows` follow from `FSInv`, which
  adds to the four that the system's blocks are marked (`SystemBlocksMarked`), that `numFiles` and the
  counter of i-nodes are right (`FilesCounted`, `NodesCounted`), that open handles lead to
  i-nodes (`HandlesLive`) and what the backup file can look like (`BackupShape`).
* `ResizedContents`: byte by byte, a file that `resizeNode` has made shorter or longer keeps what it
  had up to the smaller size, the rest reads as zero, and no other file changes. The
  last block is where this can go wrong (`TailBytes`, `TailCleared`); `WritesAreExact`
  adds the copy of the buffer, block by block (`StoredBytes`). The theorem is about `WritesExact` as
  stated, with the cut at the end of the buffer that `myfs_overwrite` reports.
* `FileStoreImplemented`: `ImplementsFileStore`, callback by callback. `StoreInv` says that no
  two entries share a name, that an open file keeps its entry and that `my_unlink`
  has not freed an i-node under an entry of its own index. Opening, releasing and a remount are
  stutters; that a remount is one rests on `BackupFollows`.

### The daemon

* `LockExcludes`: `OneDaemon`, for any number of daemons, files and
  changes. It is inductive with `PlacesOK` (where a daemon can be): a step either takes
  the lock when no daemon works (`Lock`), gives it up (`UnlinkLock`), or moves a daemon
  that works already (lemma `MovesKeepLock`). The one step that gives up a lock that is not the
  daemon's own, the `unlink` of a late handler, sets `robbed` if somebody works (`UnlinkKeepsLock`), and
  then the theorem claims nothing.
* `DaemonTyped`: `TypeInv` adds what a handler has in its hands at each place (`HandlerTyped`)
  and that at most one IGNORED event is ever on its way (`IgnoredOnce`), without which
  `watched_items` could go below zero.
* `DifferencesKept`: `NoDifferenceForgotten`. `Synced` says, for each file that is not
  in `unrepaired` and the daemon that works, that the destination agrees with the source, or
  that an event that will make it agree is in the kernel's queue, in the program's, or in the
  hands of a handler that has still to look at the file; a copy under way is right up to
  its position, unless a MODIFY is to come. `Quiet` says that nothing has happened before a daemon
  watches.

### The small programs

* `WatchMeasures`, `WatchTyped`: for any clocks and bound on time. `WatchInv`
  adds to the types that the flags follow what was asked for (`Follows`: `paused`
  is set while paused or stopped, `started` while running or paused) and that the
  reading equals the time run while the intervals close on their own clock (`Counts`). An
  interval that closes on its own clock did not begin in the future (`BegunInPast`): hence the sum is not
  negative unless one was `mixed`. What happens in a later run, or across an edit, is
  not claimed: there the code does not measure (section 5).
* `DriverExcludes`: `OneOpener`, for any number of processes. `LedInv` ties
  `Device_Open` and the value each process has loaded to the set of processes that were
  counted, as long as none have raced.
* `ReaderGetsItsMessage`: with exclusion, `Following` says how far the pointer is ahead of what its
  owner has received at each place. `ModuleStaysForUsers`: `Pinned`, the count of the
  module is at least the number of processes at the places that hold a reference, without those in
  `exposed`; a process that returns past `module_put` holds none, and is in `exposed` if the unloading begins
  then. `LedTypesHold`: the types, in particular that `msg_Ptr` and `counter` stay
  natural numbers however processes race. There is no theorem that a read stays in the buffer: it need
  not, once two processes have raced in (section 5).
* `ArchiveTyped`, `NothingHalfPacked`: `ListInv`, the header in memory lists the files packed so far
  (`Listed`) and the position is at most where files of full size would have ended (`Within`).
* `FilesComeBack`: `RoundTrip`. `DataInv` gives the place of every file in the archive (`Laid`),
  disjoint from the header under the condition `Fits`, and says that what has been unpacked is
  what was packed, cut at a byte that reads as EOF (`Restored`); for a file without such a byte, the
  one `RoundTrip` is about, that is its whole content (`KeptWhole`). That the cut of one file does not
  harm the next is part of it.

### Only model-checked

The liveness properties `AllTasksComplete`, `Termination` and `EndsWhenAsked`: the proof system
has no rules for fairness and ENABLED. The properties of the runs that expect a
violation are not theorems; where one is true under a condition (`RealTimeExact`, `NoTaskLost`),
the theorem says which.

The theorems about recursive definitions use their defining equation only. What the searches of
`slist.c` do is proved through the position where they rest, not by induction on the list.

## 7. Not modelled

* Simulator: option and input-file parsing, log files and the Gantt chart scripts, the
  empty barrier stub for systems without pthread barriers.
* myFUSE: I/O errors of the backup file, a crash in the middle of a callback (nothing
  orders or repairs its writes), files larger than `MAX_BLOCKS_PER_FILE` blocks (the code
  writes past an array), the multi-threaded mode of libfuse, time stamps and
  `my_readdir`, which changes nothing.
* Demonio: modes, subdirectories, SIGHUP, the event counter and the system log, the
  overflow of the kernel's queue, the configuration file, what the signal handlers may
  break inside the C library (SIGTERM's frees the queue from any point of the loop). Inotify is an earlier version of the same code without lock
  file, alarm and SIGTERM.
* Stopwatch: clocks that are set back, clock calls that fail, and a `reloj.conf` that is empty or names no clock.
* Archiver: the options of `main`, archives that `createTar` has not written, a full
  disk, and an archive that is listed among its own inputs.
* Driver: commands longer than `MAX_LEN_COMMAND`, which run over the buffer of `device_write`;
  messages that differ in length; failures in `init_module`; `Modleds/modleds.c` is a demonstration module that
  sets the leds when it is loaded and unloaded. The LED demo program is a loop without
  state.
* `list.h` is the Linux kernel's list, used as it is.
