# A TLA+ model of LibMWR

LibMWR (`src/`) is the library of types and utilities shared by the MachineWare
projects: a watchdog, asynchronous I/O, sockets, subprocesses, terminals,
logging, a loader of libraries, an interval tree, readers of executable formats,
options, atomics, and helpers for bits, numbers and strings.  This directory holds
TLA+ modules for what keeps state or computes, TLC configurations that check
them on small instances, and TLAPS proofs for every instance.  Paths below are
relative to the repository.

## 1. Inventory

### Components with state and concurrency

| component | state | operations | interacts with |
|---|---|---|---|
| `watchdog` (`include/mwr/utils/watchdog.h`) | priority queue of tasks, `m_terminate`, worker thread, mutex and condition variable | `schedule`, `cancel_all`, destructor; the worker's loop | tasks are user callbacks that call `schedule` and `cancel_all` from the worker |
| `aio` (`src/mwr/utils/aio_posix.cpp`, `aio_win32.cpp`) | map descriptor → handler, generation counter, polling thread with private copies | `aio_notify`, `aio_cancel`, destructor; the thread's loop | handlers are user callbacks; descriptors are opened and closed behind its back |
| `server_socket` (`socket_posix.cpp`, `socket.h`) | listening socket, map of clients, two callbacks, one mutex | `listen`, `unlisten`, `poll` (which accepts), `send`, `recv`, `peek`, `disconnect`, `disconnect_all` | peers; `on_connect` runs with the lock released in the middle of an accept |
| `socket` (same files) | connection, peer, host, port, one mutex | `connect`, `disconnect`, `send`, `recv`, `peek` | `send` and `recv` tear the connection down without the lock |
| `publisher`, `logger` (`src/mwr/logging`) | static registry per level, filters, the static `print_source` | construct, destroy, `set_level`, `filter`, three kinds of `publish` | every thread that logs walks the registry |
| `subprocess` (`subprocess_posix.cpp`) | child pid, three pipe ends | `run`, `is_running`, `terminate`, `read`, `write`, `peek` | the child, children of other objects that inherit its descriptors, other processes that get its pid |
| `terminal` (`terminal.cpp`) | per descriptor a stack of settings | `tty_push`, `tty_pop`, `tty_setup_vt100`, static destructor | the terminal the descriptor belongs to |
| `atomics` (`include/mwr/core/atomics.h`) | plain memory | reads, writes, read-modify-write, compare-and-swap and loops over it | all threads |
| `library` (`library_posix.cpp`) | loaded handle, name of its copy; static list of copies and their numbers | `open`, `mopen`, `close`, move, destructor, cleanup at exit | the files on disk, the loader |
| `memory` (`memory_posix.cpp`) | address, size, size in pages | `alloc`, `free`, move, destructor | `mmap` and `munmap` |
| `fd_open`, `fd_read`, `fd_write`, … (`core/utils.cpp`) | descriptor and position in the kernel | open, close, loops of reads and writes | other processes on the same file |
| per-thread values, modules, licensing | maps and counters | access, registration | all threads |

### Sequential data structures and algorithms

`interval_tree` (AVL tree with augmented minima and maxima); `options`; the
readers `ihex`, `srec`, `elf`, `uimage` and the reader and writer `fdt`; bit
operations, bit fields, saturating and multiply-divide arithmetic; strings and
containers.

### What is hard, and what makes each component correct

* **watchdog** – lost wake-ups (a notification between the check and the wait),
  tasks that schedule tasks, spurious wake-ups, a destructor racing a sleep.
  Correct: never early, never twice, in order of deadlines, never once
  cancelled; everything due is run before the destructor returns; it returns.
* **aio** – the generation is compared without the lock, events of an earlier
  `poll` meet handlers that have changed, numbers of closed descriptors are
  reused.  Correct: no registration is missed, a removed handler is called at
  most once more, readable descriptors get their call, closed ones are dropped.
  On Windows: handles are waited for in chunks, and closed ones stay in the list.
  Correct: a handler is called only when there is data, or once to be told of the end.
* **server_socket** – the accept that gives its lock away, the limit of
  clients, several threads that find a client dead, connection numbers used
  after the lock is released, `::accept` blocking with the lock held.
  Correct: no connection leaks or is confused with another, one notification per
  client, the limit overrun by no more than the races allow, the lock is always released.
* **socket** – unlocked writes; the error paths of a connect over several
  addresses; connections that are replaced under a transfer.  Correct: the fields agree
  between calls, no socket leaks, no transfer works on an open connection that was forgotten.
* **publisher** – sequences of level changes; a static flag that is saved,
  forced and restored.  Correct: each message reaches exactly the publishers
  that want it; reports carry their source.
* **subprocess** – a pid that was reaped and belongs to another process; pipe ends
  inherited by other children; `run` on an object that has a child.  Correct: the pid of an
  object is that of the child it holds the pipes of, unless it was told that the child is gone;
  what a reader waits for is the own child, or one whose `run` overlapped with that of the own.
* **terminal** – pushes and pops in any nesting, what is left at exit.
  Correct: the terminal has its first settings back.
* **atomics** – values that change between a load and a swap, operands narrower
  than the location, sizes without an instruction.  Correct: every operation takes
  effect at once.
* **library** – copies numbered by a counter while objects are moved, closed,
  reopened and fail to load.  Correct: no two objects share an instance, no copy stays behind.
* **memory** – moved-from objects and failed allocations.  Correct: every mapping has
  one owner that knows its length.
* **files** – transfers cut short, interrupted or failing half way.  Correct: no byte
  lost, repeated or out of order.
* **interval_tree** – rebalancing over several levels, stale augmented data,
  equal starts.  Correct: a valid AVL tree after any sequence, exact queries.
* **words, readers, options, strings** – width and sign at the boundaries,
  state carried from one record to the next, guessing of types, files that end early,
  two passes that must agree.  Correct: equal to a reference definition on
  integers, what was written is read back, and damage to one record stays where it is, except
  that a lost offset record moves the data behind it.

The hazards, one by one and at their lines, are in `PROJECT.json`.

## 2. Modules

### Watchdog.tla, DeferredCalls.tla

One action is one critical section of `m_mtx`; where the worker runs without the
lock there is a program point (`wait`, `wait_until`, `spin`, `popped`, `task`).
`m_cv` is the Boolean `woken`: `notify_one` is heard only by a worker that waits,
and `SpuriousWakeup` sets it for no reason.  The priority queue is a set of
tasks with their timeouts, and `IsTop` allows any of the earliest ones, since a
heap does not order equal deadlines.  A task calls back into the object while
`pc = "task"`.  The clock is discrete; `Threshold` is the 10 ms up to which the
worker spins.  The history variable `slow` records that the clock advanced while the
worker could have run; it separates lateness that the code causes from a slow
scheduler or a long task.

`DeferredCalls` is the service without worker, condition variable and queue.
`Watchdog` implements it under the mapping in `Calls`.

### Aio.tla, AioWin32.tla

In `Aio` a handler is identified by the value of `m_gen` that its registration
produced.  The thread's private `curgen`, `polls`, `revents` and `scheduled` are
variables, so users can change the shared map between any two of its steps.  What
`poll` would report of a descriptor (`ready`) is part of the state; the numbers in
`ReusedFDs` may come back after they were closed, and `Polite` says whether users
cancel a closed descriptor before its number comes back.

`AioWin32` has the chunks of `MAXIMUM_WAIT_OBJECTS` handles, the index that
`WaitForMultipleObjects` returns and that the code looks up from the start of the
whole list, and the failed wait, after which every closed handle is dropped although
`m_gen` stays, so that the list keeps it.

### ServerSocket.tla

Any thread may call any operation; those in `Pollers` call `poll`.  Operations
that hold the lock throughout are single actions; `accept_new_client` is split
where it blocks in `::accept` (lock held) and where the callback runs (lock
released).  `close_socket` on Linux only shuts down, so numbers are not reused
(`ReuseFDs = FALSE`).  A peer that gives up, a failing `setsockopt`, a refusing or
throwing callback and a `listen` that fails at any step are alternatives.  A
failing `::accept` takes its peer off the queue: failures that leave it there (`EINTR`,
`EMFILE`) are left out.  The rounds of the `while` loops of `poll`, `send` and `recv` are separate calls in the
model: between two rounds the code keeps no state but the count of bytes and the
remaining time.

### Socket.tla

`disconnect_locked` is a step per write, because `send` and `recv` call it
without `m_mtx`.  `connect` holds the lock over its loop of addresses.
All calls overlap in any way: a connection is replaced while a transfer uses it, and the
transfer then fails and tears down the new one.  Only one overlap makes the object's
state arbitrary, a `disconnect_locked` without the lock while another thread is in
`connect`; the history variable `clash` records it, and the properties speak of behaviours
up to then.  That it happens is the finding of `socket_race`.

### Publisher.tla

The registry is a sequence of publishers per level; `register_publisher`,
`unregister_publisher` and the `stl_` helpers are operators on it.  A filter is the
set of messages it accepts.  A thread walks the registry one publisher per step,
and `saved` is its copy of `print_source`.  The registry changes only while no
thread logs: it has no lock, and changing it meanwhile is undefined.  Filters and
publishers return: an exception out of one would leave `print_source` forced
(`publisher.cpp:163`), and is left out.

### Subprocess.tla

The n-th call of `run` makes the n-th set of pipes, one pipe per step, so that a descriptor of
an object is the number of the child it was made for; the call is made whatever the object
has already, and may fail at any pipe or at `fork`.  In `terminate` the `waitpid` may return
without having waited (`EINTR`).  A pid is a member of a small set, and a
number comes back once its process is reaped; `strangers` are processes the objects know
nothing of.  `writers` holds, per pipe, the processes that have its write end open:
`fork` gives a child every end its parent has at that moment, also those of
other objects, and `exec` closes its own only.  What goes through a pipe is counted.

### Terminal.tla

Settings are sets of flags and belong to the terminal; stacks belong to the number
of a descriptor, as in the code.  `Exit` starts the static destructor, which walks
the stacks in any order (they are in a hash map), each from its newest entry.

### AtomicMemory.tla, Atomics.tla

`Atomics` has a location of several bytes and threads that are in the middle of an
operation: a compare-and-swap loop is a load, a computation and a swap that may
fail, and a plain access of a size without an instruction goes byte by byte.
`AtomicMemory` is the location on which every operation takes effect in one step;
`Atomics` implements it (`Abstract`), with operands narrower than the location.

### Library.tla

A copy of a library stands for its number.  `close` and `Reopened` are operators on
the four variables that closing changes, because `open`, `mopen` and the destructor all
call it first; loads and the copying of a file fail at any time.  The history variable
`own` holds the objects whose handle came from `mopen`.

### Memory.tla

Objects with `m_data`, `m_size` and `m_total_size`, and the kernel's record of
mappings.  `mmap` fails at any time, which leaves `MAP_FAILED` in the object; a move
leaves the sizes of the source behind.

### FileIo.tla

Processes with a descriptor each on one file.  A byte is named after its writer and
its place in what that process wrote, so that loss, repetition and order can be told.
A transfer moves any part of what is missing, or fails.

### Words.tla, BitOps.tla, BitFields.tla, Arithmetic.tla

A word of width w is the set of its bits that are one; `Words` has the arithmetic of C++
on them, which wraps around.  A type is a width and a sign, and the conversions the
code makes are applied where it makes them.  Each function is followed by what it
should compute, stated with sums, remainders and integers of any size.  The value of a word
(`UInt`) is a recursive function over its bits, so that it can be reasoned about by induction.

### Fdt.tla, Elf.tla, HexRecords.tla, Uimage.tla

`Fdt` writes a tree to the flattened format and reads it back, with the offsets
and the padding, and with the guessing of types, which not every value survives:
`SurvivesFlattening` says which do.  `Elf` has segments and symbols after their
headers were decoded, and the memory that results when all segments are loaded.
`HexRecords` has both readers of text formats on lines whose digits are bytes already.
`SpoiltHexLine` and `SpoiltSLine` say what becomes of a file of which one line lost its mark, has
one byte increased or is cut off at any place: nothing is refused.  The hex reader skips the
line, so without an offset record the data up to the next one is read to the base before;
the S-record reader looks at neither count nor checksum and takes the damaged record.  `Uimage` is the constructor and
`read` on a file that may be cut off; its two checksums are not looked at.

Where these define their own writer (hex files, boot images, ELF), it is part of the
reference and not of the code.

### Options.tla, Strings.tla

`Options` has the registry, each option's pass over the command line and the pass
that collects the words that are left.  `Strings` has `trim`, `escape`, `unescape`, `split`
and `replace` on sequences of characters.

### IntervalTree.tla

A heap of nodes with parent, left and right pointers.  What C++ passes as
`ivtnode*&` is a place (the root or a child field), so each assignment of the
code has its counterpart.  The functions are operators from heap to heap, some of
them `RECURSIVE` as in the code, so this module is for TLC only.

### Modules for TLC and proofs

`MCWatchdog`, `MCAio`, `MCServerSocket`, `MCSocket` and `MCPublisher` add constants
and symmetry to one module each.

`MCSystem` is the disjoint sum of nine modules: the variable `part` says which one
a behaviour is of, the part's variables are the first of `s1`, `s2`, …, and `Next` has one
disjunct per part.  The parts share no state in the code either, so nothing
is gained by interleaving them.  Its properties are the parts' own, under their names; its
bounds are constants, so that theorems about it are not about the instance that TLC checks.

`MCData` adds to the interval tree an input for the pure functions: a behaviour is
one of the tree, or one that picks an input in two steps and stops.

`WatchdogProofs`, `AioProofs`, `ServerSocketProofs`, `SocketProofs`, `SubprocessProofs` and
`PublisherProofs` hold the proofs about their component.  `WordProofs` has what holds of words
of every width, and with it the proofs about `Arithmetic`, `BitOps`, `BitFields` and `Atomics`.
`SystemProofs` holds the theorems about the properties of `MCSystem`: those of `Socket`,
`Subprocess`, `Publisher` and `Atomics` it takes over from their modules, and those of `Library`,
`Memory`, `AioWin32`, `FileIo` and `Terminal` it proves itself (section 5).

Definitions whose comment begins with "A wrong ..." are deliberately broken
variants of the definition that follows them.  They are used only to see that the
properties notice the mistake (`mutants` in `PROJECT.json`).

## 3. Runs

Passing runs:

| run | bounds | what it shows |
|---|---|---|
| `watchdog` | 2 tasks, delays 0, 1, 3 around a threshold of 1, clock to 6 | no lost wake-up, the destructor drains what is due, every task is served, the destructor returns, a task is late only behind a sleep, refinement of `DeferredCalls` |
| `aio` | 2 descriptors, one of them reused at will, 3 calls | the unlocked generation check misses nothing; at most one late call; readable descriptors are called, closed ones dropped; the destructor returns |
| `server_socket` | 2 pollers, limit 1, 3 peers, 2 listening sockets | clients overrun the limit by one at most, no leaks, own connection, one notification, port reported only if live |
| `server_socket_live` | 1 poller, 1 other thread, 2 peers | the lock is released, waiting peers are served |
| `system` | the instances of the next table | fifteen properties of nine components |
| `data` | 9 nodes over 7 points, one of them with either of 2 intervals; up to 4 removals from trees of 12 nodes; all inputs of the sets in `MCData` | AVL validity, order and queries, stable iterators; the pure functions against their references |

The instances of `system`:

| part | bounds | properties |
|---|---|---|
| `Socket` | 3 threads, 2 addresses, 2 sockets | `ConsistentWhenQuiescent` (fields that agree, no socket leaked), `TransfersOnPresentConnection`: any overlap of calls, until a transfer tears down while `connect` runs |
| `Publisher` | 1 thread, 2 publishers, 3 levels, 2 messages, 2 filters each | `RegistryMatchesLevels`, `DeliveredOnce`, `ReportsPrintSource` (and its flag restored) |
| `Subprocess` | 2 objects, 2 children, 2 pids, pipes of 1 and reads of 1 byte | `PidsMatchChildren`, `ReadOfStdoutEnds` |
| `Terminal` | 2 descriptors, 2 terminals, stacks of 2 | `RestoredAtExit` |
| `AioWin32` | 3 handles, chunks of 2 | `CalledForAReason` |
| `Atomics` | 2 threads, 2 bytes of 2 bits, 17 operations | `ImplementsAtomicMemory` |
| `Library` | 3 objects, 2 paths, 3 copies | `SeparateInstances`, `NoCopyLeftBehind` |
| `Memory` | 3 objects, 3 addresses, pages of 2, sizes 0 to 3 | `OneOwnerPerMapping` |
| `FileIo` | 2 processes, 3 modes, buffers and bytes up to 2 | `TransfersAreWhole` |

`TypesOK` is the type invariant of all of them.

The inputs of `data`: words of 4 and 8 bits of either sign, of 64 for reversals and of
4 for the arithmetic, with every field of 8 bits; trees of up to 2 properties
and a child; files of 1 to 3 chunks in both text formats, whole and with one line spoilt; boot images cut off in header or payload;
2 or 3 segments over 8 addresses and 8 symbols; command lines of up to 3 words for
2 options; 2 texts of up to 2 characters out of 5.

Runs in which the code disagrees with what a comment or a test says of it (each
is a finding in `PROJECT.json`):

| run | what it shows |
|---|---|
| `watchdog_late` | a task for 10 ms has not run after 100 ms, because `wait_until` keeps sleeping for a later deadline it read before |
| `aio_reuse` | `POLLNVAL` of a closed descriptor removes the handler registered for the reused number |
| `server_socket_stuck` | `::accept` blocks with `m_mtx` held, so `unlisten` cannot end it |
| `socket_race` | `disconnect_locked` runs without the lock |
| `publisher_reports` | two reports at once: one loses its source location |
| `elf_padding` | a segment that lies in the padding of another one is overwritten with zeros, although the comment says such padding is left out |

Modelling met more that is worth knowing, where no document claims otherwise: the parent
keeps the write end of a child's stderr, so reading it never ends
(`subprocess_posix.cpp:89`; `ReadOfStdoutEnds` is about stdout for this reason);
after `is_running` has reaped a child its pid is still used (`:103`), and a
`waitpid` with it may take the child of another object, which `PidsMatchChildren` allows
for that case only; `run` on an object with a child forgets it (`:95`); a damaged offset
record of a hex file moves data without a report (`ihex.cpp:131`); the constructor of `memory` that moves leaves the
sizes of the source (`memory_posix.cpp:26`; harmless, as the address is checked
first); the Windows thread looks up the index of a later chunk in the first one
(`aio_win32.cpp:87`; data is then missed, never invented); `server_socket` lets
as many clients in as pollers pass the check together (below).

**Why the bounds are enough.**  *Watchdog*: two tasks are one that the worker waits
for and one put in front of it or behind it; the delays lie on both sides of the
threshold, and the clock covers a sleep followed by another.  The safety properties
are proved for any number of tasks (section 5), as are those of the other components
with state, so the runs matter most for liveness.  *Aio*: two descriptors and three generations give a registration, its
removal and a new one while another is polled; the safety properties are proved for
any number of them.  *ServerSocket*: two pollers and a limit of one make every race for
the last place happen; three peers allow one client to go and two to follow; two
listening sockets let one be replaced between a poll and its accept.  *Socket*:
three threads let a sender and a receiver fail together while the third connects or
peeks; two sockets are an address that fails and one that works, or a connection and the
one that replaces it under a transfer; both properties are proved for any number.  *Publisher*: two publishers on three
levels reach every order in a registry, with duplicates if there were any.
*Subprocess*: the second child can inherit the pipes of the first, and each of two pids
can be an own child's, another object's or a stranger's; longer reads, which take several rounds,
are left to the proof, since neither property depends on how much was read.  *Terminal*: two descriptors
may be of one terminal or of two, and numbers come back.  *AioWin32*: three handles
make a full chunk and one that is not.  *Atomics*: two threads interleave in every loop, and
the location has a byte that the narrow operations must not touch.  *Library* and *Memory*: three
objects allow a move between two of which the third knows nothing; both are proved
for any number.  *FileIo*: two bytes are the least that can be swapped or torn.
*IntervalTree*: nine nodes make trees of height four with every kind of rotation; the
nodes' intervals are fixed but for one, which keeps the state space to the shapes of the
trees, and are chosen so that they nest, touch, coincide and lie apart.  A removal
rotates at two levels in trees of height five only, which have twelve nodes at least: three of
these, leaning to different sides, are initial states of their own, built by twelve
insertions, from which nodes are removed in any order.  *Words*: the functions take their width as a
parameter, and the boundaries (sign bit, carries out of both halves, fields that begin or
end at an end of the word) all exist at 8 and at 4 bits; all but reversals and checksums are
proved at every width.  *Readers*: a second
and third record meets the state the first one left, and segments lie before, in, behind
and across each other.

**The limit of clients.**  `server_socket` compares the number of clients with
`m_max_clients` before it releases the lock for `on_connect`, and does not compare
again: two threads in `poll` can enter two clients where one is allowed.
`ClientsBounded` states the bound that does hold, one more per further poller.

**Deadlock** is checked in `system`, where only a part whose object is destroyed, whose
program has ended or whose bound on children or copies is reached may stop.  Elsewhere the
object is destroyed, the clock stops at its bound, the bound on calls is reached or the
input is used up, and the configurations say so.

The configuration of `system` does not go on behind a `clash` of a socket (constraint `UntilClash`),
after which its properties say nothing.

**Symmetry** is used in safety runs only, over threads, objects, publishers and the
like, none of which the specifications tell apart.

## 4. Fairness

* *Watchdog*: weak fairness of the worker (a runnable thread runs, tasks
  return), of the clock, and of the join once the worker has ended.  None for
  users or spurious wake-ups.
* *Aio*: weak fairness of the thread (handlers return).  `poll` has a timeout in
  the code, so the thread always gets on.  None for users, data, closing, errors.
* *ServerSocket*: weak fairness of calls that have begun; strong fairness of the
  poller's `poll` and of its return, because the poller shares the lock with
  other threads and not every one of its polls is interrupted.  A blocked `::accept`
  is a disabled step and gets no help from fairness.

The other components are checked for safety only.  What should end there is
stated as a state in which it can (`ReadOfStdoutEnds`: which processes, all of them alive, a
reader waits for), or ends by itself, as compare-and-swap loops that
fail only because another thread has succeeded.

## 5. Proofs

TLAPS proves the following for every value of the constants that satisfies the named
assumptions of the modules (`WatchdogAssumption`, `AioAssumption`, `ServerSocketAssumption`,
`SocketAssumption`, `SubprocessAssumption`, `PublisherAssumption`, `TerminalAssumption`,
`LibraryAssumption`, `MemoryAssumption`, `FileIoAssumption`, `AioWin32Assumption`,
`AtomicsAssumption`, `ArithmeticAssumption`, `BitOpsAssumption`).  They say that bounds, delays and
sizes are natural numbers, that a page and a chunk of handles have room for one, that there is a level of
logging, that null values and names of threads are told apart, that operands are words of the size of their
call and those with an instruction fit into a long, that a u64 has the bits of two u32, and that a long long has the
bits of eight of the narrowest type.  TLC evaluates them for the constants of the runs.  Bounds on counters
(`MaxTime`, `MaxGen`, `MaxCopies`, `MaxSockets`, ...) are constants of the theorems.

| property of a run | theorem | for |
|---|---|---|
| `Watchdog`: `NoLostWakeup` | `WakeupsAreNotLost` | any tasks and delays |
| `DueTasksRunBeforeDestroyed` | `DueTasksAreDrained` | |
| `LateOnlyBehindSleep` | `OnlyTheSleepDelays` | |
| `ImplementsDeferredCalls` | `WatchdogImplementsDeferredCalls` | |
| `Aio`: `PollSetInSync` | `NoRegistrationIsMissed` | any descriptors, reused or not |
| `AtMostOneLateCall` | `CancelledHandlersStop` | |
| `ServerSocket`: `TypeOK` | `TypeCorrect` | any callers, pollers, peers, limit |
| `ClientsBounded` | `LimitOverrunIsBounded` | |
| `OnlyLivePortReported` | `PortIsLive` | |
| `NoConnectionLeaks` | `ConnectionsAccounted` | |
| `OwnConnection` | `TransfersKeepTheirConnection` | `~ReuseFDs` only |
| `DisconnectNotifiedOnce` | `NotifiedOnce` | |
| `MCSystem`: `ConsistentWhenQuiescent` | `SocketsAreConsistent` | any threads, addresses and sockets, any overlap |
| `TransfersOnPresentConnection` | `TransfersArePresent` | |
| `RegistryMatchesLevels` | `RegistryIsExact` | any publishers, levels, threads |
| `DeliveredOnce` | `MessagesAreDelivered` | |
| `ReportsPrintSource` | `ReportsHaveSources` | one logging thread at a time |
| `PidsMatchChildren` | `PidsAreOfChildren` | any objects, children, pids |
| `ReadOfStdoutEnds` | `ReadingStdoutEnds` | |
| `RestoredAtExit` | `SettingsAreRestored` | any descriptors, terminals, flags |
| `CalledForAReason` | `HandlersAreCalledForAReason` | any handles and size of chunks |
| `SeparateInstances` | `InstancesAreSeparate` | any objects, paths and copies |
| `NoCopyLeftBehind` | `CopiesAreRemoved` | |
| `OneOwnerPerMapping` | `MappingsAreOwned` | any objects, sizes, page size |
| `TransfersAreWhole` | `TransfersKeepEveryByte` | any processes, buffers, lengths |
| `ImplementsAtomicMemory` | `AtomicsImplementMemory` | any calls, threads and widths |
| `TypesOK` | `AllPartsKeepTheirTypes` | all of these constants |

The pure functions have theorems of their own, in `WordProofs`; the run `data` checks the same
formulas, as parts of `WordsAreExact`, on words of 4 and 8 bits.

| formula | theorem | for |
|---|---|---|
| `Arithmetic`: `SaturationIsExact` | `SaturationIsAlwaysExact` | any width |
| `MultiplyDivideIsExact` | `MultiplyDivideIsAlwaysExact` | any even width of u64 |
| `BitFields`: `FieldsAreIndependent` | `FieldsAreAlwaysIndependent` | any width up to that of long long, any field |
| `ArrayBitsAreIndependent` | `ArrayBitsAreAlwaysIndependent` | any width, arrays of two words |
| `BitOps`: `QueriesAreExactFor` | `QueriesAreAlwaysExact` | any width, either sign |
| `MasksAndSizesAreExact` | `MasksAndSizesAreAlwaysExact` | any width of long long, the four types up to it |

Each component has an `Inductive`, stated in its own module and checked by TLC before it was
proved, that is the conjunction of named parts; what it adds to the properties is as follows.

*Watchdog.*  `NoLostWakeup` does not survive a step by itself: one has to know that
`m_terminate` is set exactly by the destructor, that only then the worker enters its final
loop, and that the destructor is left only after the worker.  `DueTasksRunBeforeDestroyed`
needs in addition that what the worker leaves in the queue has a deadline after the time the
destructor was entered, which follows from the clock never running backwards.
`LateOnlyBehindSleep` needs `OnTimeOutsideSleep`: where the worker is about to look at the
queue, or sleeps without a deadline, no task is late at all.  For the refinement every action is
matched with an action of `DeferredCalls` or a stutter; `Inductive` supplies that
nobody calls in after the worker has ended, and `TypeOK` the rest.

*Aio.*  `PollSetInSync` needs that the thread's generation is
never ahead of the shared one.  `AtMostOneLateCall` needs that a handler belongs to
one descriptor, and that a handler that is stored, scheduled, or not handed out
yet has had no late call: so each handler has one to spend, and spends it when it
leaves `scheduled`.

*ServerSocket.*  `LockAndPollers` says who holds the lock across `::accept` and that whoever
accepts is one of `Pollers`: the overrun of the limit counts those at their callback.  `Numbering` says that clients have numbers below the counter and that no more
descriptors are used than were accepted, `Distinct` that no connection is in two hands (of
two clients, of two callers at their callback, or of one each).  `NotifiedOfGone` says that only what has left the map was notified.  `Owners` ties a
descriptor to its connection; it needs that numbers do not come back, hence the hypothesis of
`TransfersKeepTheirConnection`, which is what Linux does, where `close_socket` only shuts down.

*Socket.*  `Locked` says that `connect` and `disconnect` hold the lock, `Connecting` which of
the sockets are open at each point of a `connect`, and `TearDown` what is left of the fields
at each point of `disconnect_locked`, when several transfers and a `disconnect` are in it at
once: each has a part of it to undo that another may have undone before.  The last two hold until `clash`;
with it there is a data race (`socket_race`).

*Publisher.*  `Registered` is `RegistryMatchesLevels` without counting: no duplicates, and
whoever is registered wants the level and the other way round; `Walking` says that a thread that has come to place `pos` of the registry has printed
to exactly those publishers before `pos` that want the message (`Delivered`).
`stl_remove` is a recursive function over the length of a sequence.  `RemoveKeepsTheOthers`,
what it keeps, is proved by taking a least counterexample among the natural numbers
(`Induction`, from `NatLessThanWellFounded`), so no theorem with an operator parameter is
needed.  `ReportsHaveSources` has the hypothesis `OneLogger`: no two threads log
at a time, which is what the code needs, as `publisher_reports` shows.

*Subprocess.*  `PidsAreUnique` says that no two children that can be waited for share a pid, `PipesAreOwn`
that no two objects share pipes, also those `run` is about to hand over, `NotReapedTwice` that `terminate`
waits with a pid the object was not told is gone unless a pid was used again, and `WritersLive` that whoever
has the write end of a stdout is alive, and is the own child, a child in `during`, or the parent while the
`run` of that child lasts.

*Terminal.*  `LeadsBack` says that the oldest entry of a stack that will be restored, and all
below it, hold the first settings, or that the terminal has them when none will be.  It holds
where a terminal is used through one descriptor only (`UsedAlone`, the condition of the property),
and `StacksHaveUsers` says that what is on a stack was pushed through its descriptor.

*AioWin32.*  What is scheduled is either the handle whose data the wait has found, alone, or
closed handles that are stored no more and were not told yet.

*Library.*  The invariant `Inv` says who has which copy: a copy
that an object remembers has a number below the counter and no second object that remembers it
(so closing one object takes no file from another), an object opened by `mopen` has the first
instance or the copy it remembers, and every copy on disk is on the list.  The
lemma `CloseIsLocal` says what `close` may touch, and `ClosedForOthers` that an
object that is closed and maybe opened again leaves the others as they are; all
operations but `mopen` and the move are instances of it.

*Memory.*  `OneOwnerPerMapping` is inductive together with the types of the variables, since a
move empties its source and `mmap` returns an address that is not in use.

*FileIo.*  `Calls` says what a transfer has done so far and how much is missing, `Appended` that what
a process acknowledged is in the file in order, and `Filled` that a reader's buffer is the
part of the file that ends at its position.  Files are opened for reading or appending
(`r`, `a`, `a+`).

*Words.*  A word is a set of bits and its value a recursive function over them, so all that
links operations on bits with arithmetic on values is induction.  `LeastNatural` and `Induction`
(from `NatLessThanWellFounded`: the least counterexample among the natural numbers) replace a
theorem with an operator as parameter.  The lemmas they carry are few: powers of two
(`PowerOfSum`), that the bits of a number do not depend on higher powers (`HigherPowersKeepBits`),
that words of a width and numbers below 2^w correspond (`ValueOfWord`, `WordOfValue`), and what
cutting, shifting, widening and joining disjoint bits do to values (`LowerBits`, `UpperBits`,
`ShiftedBits`, `SignExtension`, `DisjointSum`).

*Arithmetic.*  Saturation: the sign bit decides between the half of the values that is negative and
the other (`SignBit`), and a sum or difference of two numbers misses the range by less than 2^w, so
the test of the code is the test for one case of a wrap-around; for three numbers the pair that
is added first has different signs and cannot saturate, if there is one.  `umul64_slow` is long
multiplication in base 2^(w/2) (`LongProduct`), where no intermediate sum overflows
(`DigitProduct`); `imul64_slow` corrects it modulo 2^(2w) (`SignedProduct`); quotients rest on
the remainder having the sign of the dividend (`DivisionRoundsToZero`).

*Bits.*  `MaskIsExact` says which bits `bitmask` has, at the borders where the code tests for
shifts by the whole width too; `DepositedBits` and `ExtractedBits` are writing and reading of a
field bit by bit, and the rest follows from them.  `OneLess` (subtracting one clears the lowest
bit and sets those below) is what the test for powers of two rests on, `FitsIsExact` (a conversion
there and back keeps what the type can hold) what `encode_size` does.

*Atomics.*  The mapping of the refinement is the identity on the location, the calls and the results.  A step
maps to the operation of `AtomicMemory` where it stores or returns, and to a stutter before.  `ResultsOfBits` and
`ResultsOfNumbers` say that what the code computes in a native long and cuts down is what the
promise computes in numbers; for this, `ThereAndBack` says that a narrower operand survives the way through the
long of either sign.  The loops of `atomic_min` and `atomic_max` need no assumption about other threads:
the swap compares with what was loaded, so where it succeeds the comparison holds of the present
value, even if it changed and changed back.  `WordProofs` proves it for any set of calls;
`SystemProofs` takes it over for `AtomicCalls`.

*From a component to `MCSystem`.*  A behaviour of `MCSystem` is one of a single part, so
`part = "X" => X!Inductive` is an invariant of it: `SystemProofs` has for each part one lemma for
the initial states, one for a step of the part, and one that the properties follow.

*Only model-checked.*
* Liveness (`EveryTaskIsServed`, `DestructorReturns`, `ReadableIsCalled`, `ClosedIsReported`,
  `LockIsReleased`, `ConnectionsAreAccepted`): it rests on fairness, and so on `ENABLED`.
* `Validates`, `QueriesAreExact` and `IteratorsStayValid` of `IntervalTree`, whose functions are
  recursive operators on a heap.
* Of `WordsAreExact`, the reversals and the checksums: tables of 256 entries, and folds over the bytes of
  a message.  The property as a whole is about the inputs of `MCData`; its other parts are
  proved (above).
* `FilesAreReadBack` and `TextIsUnderstood` of `MCData`: folds and recursive functions over sequences, compared
  with a reference on all inputs of a set.

## 6. Plan

Done: the modules of section 2, in the order `Watchdog` with `DeferredCalls`, `Aio`,
`ServerSocket`, `Socket`, `Publisher`, `IntervalTree`, `Subprocess`, `Terminal`, `AioWin32`,
`Atomics` with `AtomicMemory`, `Library`, `Memory`, `FileIo`, the words, the readers,
`Options` and `Strings`; the theorems of section 5, that is every safety property of the
components with state, and the arithmetic and the operations on bits at every width.

Next, in order of importance:

1. `IntervalTree` with recursive functions in place of recursive operators, and by the induction
   of `WordProofs` that the tree stays ordered; the rotations first, which do not recurse.
2. Per-thread values: the map from threads to values and the cache in front of it.
3. The chain of handlers behind a segmentation fault in `report.cpp`.
4. The Windows sockets, as far as their protocol differs.
5. Abstract specifications: an atomic registry of handlers for `Aio`, a set of
   sessions for `ServerSocket`.

## 7. Not modelled

* `socket_win32.cpp`, `subprocess_win32.cpp`, `memory_win32.cpp`, `library_win32.cpp`: the
  same protocols as their POSIX variants, on another API.
* Per-thread values, the fault handlers of `report.cpp`: planned (section 6).
* `modules`, `licensing`, `locale`: a registry filled once by static constructors,
  a reference count around an external library, and a guard around one call.
* The logger and the publishers to files, streams and terminals: they format and
  print; the logger's check of levels is `can_publish` of `Publisher`.
* Types, compiler macros, type traits, naming of threads: nothing that keeps state.
* In modelled components: formatting, message texts, colours, the layout of log
  lines; host name resolution, address families and socket options except where they
  can fail; the decoding of ELF headers; names of architectures and systems in boot images;
  conversions of option values; queries of the operating system in `core/utils.cpp`;
  backtraces; the move constructors of `socket` and `interval_tree`.
* Destructors that race with calls of the same object are undefined in C++ and
  are left out, except where the code joins a thread of its own.  So is a registry of
  publishers that changes while threads log.

`PROJECT.json` lists every component with its status.
