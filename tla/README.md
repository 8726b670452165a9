# Xeros in TLA+

A model of the Xeros teaching kernel (`src/c`, `src/h`): a single processor, 32
bit, preemptive kernel with processes, a sleep device, signals, three devices
and a heap. The modules here model its process manager, its devices, its memory
manager and the message passing that waits for its system calls; the plan at the
end says what follows.

## The system

| part | state | operations | what makes it correct |
|---|---|---|---|
| dispatcher and ready list (`disp.c`) | `p`, `head`, `tail`; per pcb `state`, `next`, `ret`, `waitpid`, `cpuTime` | `ready`, `next`, `findPCB`, `removeFromReady`, `kill`, `getCPUtimes`, one case per system call | one process runs; the runnable ones form a FIFO queue; nobody else is on it; each gets the cpu |
| process creation (`create.c`) | `proctab`, `nextpid` | `create` | a live pid names one process; a free slot is found |
| sleep device (`sleep.c`) | `sleepQ`, per pcb `sleepdiff` and the same `next` | `sleep`, `tick`, `killInSleep`, `removeFromSleep` | a process sleeps for the ticks it asked for, whoever sleeps beside it |
| signals (`signal.c`, `disp.c`) | per pcb `sigtab`, `sigmask`, `currSigLvl`; frames on the stack | `signal`, `sigtramp`, `SYS_SIGHANDLER`, `SYS_SIGRETURN` | handlers nest by priority; an interrupted call returns what it should |
| context switcher (`ctsw.c`) | `saveESP`, `rc`, `args` | `contextswitch` | an interrupted process keeps its registers |
| system call stubs (`syscall.c`) | none | one stub per call | arguments checked where the kernel does not |
| initialisation (`init.c`) | `devtable` | `initproc`, `idleproc` | the idle process is created first |
| memory manager (`mem.c`) | `memSlot`, the headers in memory | `kmeminit`, `kmalloc`, `kfree` | blocks in use never overlap and lie in their region; every call returns (the code does not keep any of the three once something is released) |
| devices (`di_calls.c`, `kbd.c`, `zerorand.c`) | `devtable`, per pcb `fdt`, keyboard buffer, `eof`, `echo` | open, close, read, write, ioctl, `kbdHandler` | a descriptor leads to its device; a reader gets what was typed |
| messages (`msg.c`) | per pcb `waitingPid`, `buffer`, `senderQueue`, `senderNext` | `send`, `recv`, `recvAny` | a queue holds the senders blocked on its owner; a message reaches the process it was sent to (no system call leads here yet, and the pcb of this version lacks the fields) |
| programs (`user.c`) | their own | any sequence of calls | |

A trap (system call, timer, keyboard) enters `dispatch` through `contextswitch`;
the kernel runs with interrupts off until it switches back. So the concurrency
is between programs, at the granularity of traps, and it is hard where several
programs' traps meet in shared fields: `next` belongs to two lists at once,
`ret` is both the answer of a call and the saved `eax` of an interrupted
process, a slot is reused with most of its fields as they were, and keys and
pids are 32 bit words that wrap. `kmalloc`, `kfree` and `create` are also called
by programs, in user mode, where the timer may interrupt them anywhere.

## The modules

**Kernel.tla** is the process manager. `p` is the dispatcher's `p`, `rq` holds
the fields the list operations work on (`state`, `next`, `head`, `tail`), so
that `Ready`, `Dispatch` (`next()`), `RemoveFromReady` and `ReadyAll` (the
wake-up loop of `kill()`) are operators on such a record and a handler that
calls several of them composes them. The links are the model's, not an abstract
sequence: a process readied while it is on the sleep list corrupts both lists
here as in the code, and a search that runs in a cycle or an empty ready list
ends in `mode = "hung"`.

| action | code |
|---|---|
| `SysCreate(gotStack)` | `SYS_CREATE`, `create`; `gotStack` is kmalloc's answer |
| `SysYield`, `SysStop`, `SysWait(n)` | the cases of that name |
| `SysGetpid`, `SysPuts`, `SysCpuTimes` | the calls that only answer |
| `SysSleep(ms)` | `SYS_SLEEP`, `sleep`: no wait, empty list, front, middle or end, endless search |
| `SysTimer`, `TickWake`, `TimerDone` | `SYS_TIMER`: the decrement, each iteration of `tick`'s loop, the rest; no other step is enabled in between |
| `SysKill(n, sig)` | `SYS_KILL`, `kill`, `signal`: the three early answers and `Post` |
| `SysSighandler(sig, h)`, `SysSigreturn` | the cases of that name, with `syssignal`'s check and the values `sigtramp` passes |

Abstractions: a stack is its signal frames; a handler is a number, 0 is none,
`BadHandlers` are the addresses the dispatcher refuses; what a call prints is
left out; `EAX` stands for the register of an interrupted process and `LOWMEM`
for the word `killInSleep` reads through a NULL `sleepQ`. `prev` is written and
never read. `removeFromSleep` cannot be reached: `kill()` readies a sleeping
target before it asks for `STATE_SLEEP`.

**Devices.tla** puts the devices on top of `Kernel`: `fdt` holds the device of
every descriptor of every pcb, `irq` is the keyboard's line at the interrupt
controller, `kbdbuff`, `kbdstate`, `eof` and `echo` are the statics of `kbd.c`.
`DevNext` is a step of `Kernel`, which leaves all of these alone (`create()` and
`SYS_STOP` do not touch descriptors), or a device call or keyboard interrupt.

| action | code |
|---|---|
| `SysOpen(d)`, `SysClose(fd)` | `di_open`, `di_close` with the three devices' operations |
| `SysRead(fd, inside, n)`, `SysWrite(fd, inside, n)` | `di_read`, `di_write`; `inside` is the outcome of the address check; `KbdRead` readies or blocks the caller |
| `SysIoctl(fd, c)` | `di_ioctl`, `kbdIoctl`, `randIoctl`; `ArgAddrs` are the addresses `sysioctl` passes instead of the argument |
| `SysKeyboard(key, up)`, `SpuriousKeyboard` | `SYS_KEYBOARD`, `kbdHandler` with and without data at the controller |

The bytes copied are left out, except that `kbdbuff` holds its characters and
the conversion of `eof` to a signed char is kept. The tables of `kbtoa` are cut
down to the key that Ctrl turns into the end of file and to tab. Two branches
cannot be reached and have no counterpart: the escape of extended keys (0xe0 has
the bit of a released key) and a carriage return in `kbdRead` (the buffer only
ever holds the low byte of `eof`).

**MCDevices.tla** puts `Devices` beside that claim about the kernel for TLC.
**DevicesProofs.tla** holds its theorems.

**Scheduler.tla** is what the process manager promises: one running process, a
queue, a countdown for every sleeper, a name for every waiter.
**KernelScheduler.tla** maps the kernel to it: the queue is read off the links,
a countdown is the sum of the keys up to the sleeper.

**KernelClaims.tla** holds what a message of the dispatcher says and the code
does not do.

**MCKernel.tla** instantiates for TLC and checks, as an assumption, that
`ReadyAll` is the loop of `kill()` on all lists over three slots, the broken
ones included.

**KernelProofs.tla** holds the theorems that do not depend on the shape of the
lists, **KernelListsProofs.tla** those that do, **KernelSchedulerProofs.tla**
the refinement of `Scheduler`. **Threads.tla** is the theory of linked lists the
latter and `MessagesProofs` share: a link field that threads a finite set in the
order of a rank, walking along it, appending, pushing, unlinking, inserting and
concatenating.

**Memory.tla** is the memory manager. Addresses are byte addresses; a header
fills one aligned 16 byte cell, so `hdr`, what the cells hold when read as
headers, is all there is to the heap's structure. `call` is what each caller is
doing: a call is entered in one step and then takes one step per iteration of
its loop, so that several callers interleave as user processes do under the
timer and a single one behaves as the kernel, which runs with interrupts off.
Which cases of `kfree` fall together in an action follows from the code: A and B
are `KfreeFront`, C, E and F `KfreeLeft`, G `KfreeRight`, D and H `KfreeInsert`.

| action | code |
|---|---|
| `Kmalloc(q, size)` | the alignment of the request and the first tests |
| `KmallocSplit`, `KmallocTake`, `KmallocNext`, `KmallocFails` | an iteration that splits the chunk, takes it whole, goes on, and the answers 0 |
| `KfreeRefuses(q, ptr)`, `KfreeFails(q, b)` | the checks of address, alignment and sanity, and the last line |
| `KfreeFront(q, b)`, `KfreeEnter(q, b)` | a block before `memSlot`, and the way into the loop |
| `KfreeNext`, `KfreeLeft`, `KfreeRight`, `KfreeInsert` | the iterations of the loop |

The unsigned sums of `kmalloc` are taken modulo `WORD`, and `CurrEnd` keeps the
pointer arithmetic of `curr + curr->size + sizeof(struct memHeader)`, which
counts in headers. Two flags say how far the model follows the program. `lost`
becomes true when a split puts a header into the hole or beyond `maxaddr`: what
is read back there is not known, and no step follows. `overgrown` becomes true
at the first split of a chunk with something behind it in its region (`Inner`)
and at the first merge to the left: both make a chunk that reaches into its
neighbour. Nothing stops there. `BlocksDisjoint` is stated without the flag, and
of programs that release memory it is false; `DisjointUntilOvergrown` and
`ReturnsUntilOvergrown` say how far blocks do stay apart and calls do return.
`AllocSpec` is the heap as this repository uses it: `kmalloc` only, as nothing
in it calls `kfree`. There nothing is ever overgrown and `BlocksDisjoint` holds.
In `MemSpec` programs release only what they were given, once, besides the
`StrayPtrs` that the checks must refuse.

**MemoryProofs.tla** holds its theorems.

**Messages.tla** is `msg.c`: the pcb fields it uses, a ready list and the
running process. `Send`, `Recv` and `RecvAny` are the three handlers, each with
its two branches; a message is the name of the process it was written for, and
copying it (`MemCpy`) records that name at the receiver. The dispatcher around
them is external: it stores a handler's answer in the caller's `ret`, runs the
next ready process, and never passes a process its own pid as a partner. `stale`
becomes true at the first send that is misled by a field nobody resets: to a
process that has left `recvAny` and still has `waitingPid` -1, or by a process
whose `senderNext` still points into an old queue. The model takes that send and
no step after it: `SendersQueued` and `MeantForReader` are about what comes
before; what happens then is under the observations.

**MCMessages.tla** adds the symmetry of the processes for TLC.
**MessagesProofs.tla** holds its theorems.

## The runs

`Workload` names the calls that programs make in a run; `killSleeping` (a signal
to a sleeping process) and `killIdle` (signal 31 to pid 1) are named apart,
because they break the lists.

| run | checks | shows |
|---|---|---|
| RefineSleep | `ImplementsScheduler`, `SleepsAsAsked` | create, sleep, yield and the timer with four slots and sleeps of 2 and 3 ticks: the delta list, ties included, gives each sleeper its own countdown, which starts at the ticks it asked for, and the queue is FIFO |
| RefineKill | `ImplementsScheduler`, `WaitEnds` | create, wait and kill with an interrupting signal and the kill signal: unlinking from front, middle and end; release of exactly the waiters; nothing else ends a wait |
| Lists | `ListsSound`, `ReadyMeansQueued`, `SleepersListed`, `LiveFound`, `CreateFindsFree`, `ReturnKept`, `ReadyRuns`, `SleeperWakes` | all blocking calls and the calls that only answer together with the timer, three slots, fair timer, creation across wraps of `nextpid` with a full table and a failing kmalloc; waits and signals name pid 3, the second program's, or pid 0, and the interrupted `eax` differs from every answer. No kill signal is sent |
| Signals | `SignalNesting` | install, post, return, stop and create with three levels, refused handlers and signal numbers |
| Wild | `TypeOK`, `PointersFilled` | kills of any pid, 0 (which an empty pcb has) and the idle process' included, signals to sleepers, four slots: no pointer ever leads to a pcb that `create()` has not filled, whose stack `next()` would switch to. The kernel may hang, so deadlock is not checked |
| Devices | `IrqMeansOpen` | opens, closes, reads, writes and keys with create and the timer, two descriptors: no interrupts from a keyboard that nobody has open, also when it is open at a descriptor other than the one the handler closes. Requeued readers break the ready list and the kernel may hang, so deadlock is not checked |
| Memory | `DisjointUntilOvergrown`, `ReturnsUntilOvergrown` | one caller, every order of requests of four sizes and releases: splits, whole chunks, all merges, refused pointers, an exhausted heap and headers that run into the hole; the calls may be used up, so deadlock is not checked |
| Messages | `SendersQueued`, `MeantForReader` | four processes, every order of the three calls and of timer interrupts; all processes may be blocked, so deadlock is not checked |

Runs that refute a claim, each with the one property it is about:

| run | claim | what the code does |
|---|---|---|
| ClaimKbdRead | the ready list always has the idle process (`disp.c:232`) | `kbdRead` queues the running process; when it has stopped and its slot is used again, the list is cut behind it and the idle process lost |
| ClaimSleepers | a SLEEP process is on the sleep list (`sleep.c:124`) | a signal readies a sleeper without unlinking it; those behind it are lost |
| ClaimRelease | `kmalloc` gives out free memory (`mem.c:121`) | the rest of a split is 16 bytes too long; with a released chunk inside a region it reaches into the block behind it, and the next request gets bytes of that block |
| ClaimUserMalloc | user processes may call `kmalloc` and `kfree` (`xeroskernel.h:192`) | two callers, one interrupted between choosing a chunk and splitting it, are given the same block |

Observed while modelling and without a run of their own. In the process manager
and the devices: signal 31 unlinks its target and leaves it READY, so that its
slot is never free again and a second kill meets what `disp.c:303` calls a
kernel bug (`ReadyMeansQueued` holds for programs without it); the loop that
should "flip signal bit back to 0" (`disp.c:119`) starts at a negative number
and never runs, so that the second signal of a number is dropped; a sleep of 1
to 9 ms has key 0 and, at the front of the list, the next tick wraps it,
although `sleep.c:24` says that a key that gets to 0 has expired; `SYS_STOP`
wakes no waiter and `syswait` accepts stopped processes and the idle process; a
signal at or below the current level is marked and never delivered, signal 0 at
any level; a process that signals itself saves the answer of an earlier call in
the frame; the time an interrupted `syssleep` reports adds the head's key only;
`nextpid` wraps to pid 0; `syskill(1, 31)` takes the idle process off the ready
list for good; a new process has the handlers of its slot's last process,
although `Testing_3.txt:85` speaks of them being set to NULL at creation; the
keyboard handler stores `eof` for every key, presses and releases alike, where
`kbd.c:152` says "add typed data into buffer"; command 53 makes `eof` the
address of the arguments of `sysioctl`, which no key equals, where `kbd.c:238`
says "new character specified by arg3"; a reader that meets any character but
`eof` is BLOCKED, a state nothing takes it out of; the end of file closes
descriptor 0 of whichever process runs, whatever device that is; `randRead`
reports a multiple of four bytes; a key that meets a full `kbdbuff` is dropped,
the end of file included; processes may wait for each other and nothing notices.

In the memory manager: a split gives the rest the bytes of its own header, so
that the last chunk of a region grows by 16 bytes past the region's end with
every split, also without any release, and blocks reach into the hole after a
few; a released chunk that is followed by a free one can be split so that the
new header lands on that free chunk, which then links to itself, and the next
`kmalloc` that comes there never returns (what `overgrown` in
`ReturnsUntilOvergrown` stands for); a split moves `memSlot` to the rest,
wherever that lies, and `kmalloc` then answers 0 although a chunk in front of
`memSlot` would do; a release in front of `memSlot` takes the chunks before it
off the list for good; case A writes through `curr->next` when that is NULL;
neighbours on the left are never merged, and a block that happens to start 16
times further away is; with no free chunk left nothing can be released any more;
a request within 16 bytes of 2^32 is granted by any chunk; the stacks of stopped
processes are never released.

In the messages: `waitingPid` -1 counts in any state and is never reset, so that
a later message is copied into a buffer nobody waits with and its receiver is
readied twice; a process taken off a queue keeps `senderNext`, and its next send
brings the rest of its old queue along, which gives misdelivered messages and
cycles that `send`'s search never leaves; `recvAny` assigns its parameter
`from_pid` instead of what it points to; nobody returns the announced -1 and -2
for a partner that terminates.

### Bounds

Three slots are the idle process and two programs, enough for a list with a
front and an end beside the running process. RefineSleep, RefineKill and Wild
have four: a list has a middle, and in Wild one pcb stays empty for long. `WORD`
is twice `MAX_PROC` (the code's 2^32 is a multiple of its 64): pids and keys
wrap within a few steps, more often than in the code and in the same way.
`MAX_SIG` is 2 to 4: the kill signal, signal 0 and up to two others, so that a
handler can interrupt a handler. `CPU_WRAP` is where `cpuTime` wraps; nothing
reads it but `getCPUtimes`, so 1 or 2 will do. `SleepLens` give sleeps that tie,
overtake and follow one another. The run Devices has two descriptors per process
and pays for them: one place in `kbdbuff`, which is empty or full, the control
key and the end of file key, one ioctl command, as none of them touches a
descriptor or the line, and no SYS_STOP. That a process inherits the descriptors
of a stopped one is in the theorem KeyboardMasked only. Nothing else is bounded
there: the runs explore the whole state space. Likewise a process that stops
while another waits for it, and the reuse of its slot, are not in RefineKill;
the theorems WaitsEnd and KernelImplementsScheduler cover them. Slots are not
symmetric: `create`, `findPCB` and the wake-up loop look at them in order.

In the run Memory the heap has a region of 576 bytes, a hole of 112 and a region
of 96. The sizes are one that splits, a larger one that leaves chunks a small
one fits into, one that takes nearly the whole first region, and 0; `freemem`
and the sizes are not aligned. `MaxMallocs` bounds the calls of `kmalloc` by
four: enough for three blocks with chunks between them, so that a release meets
neighbours on both sides, on one and on none. Releases are not bounded.
ClaimRelease has the same layout and two sizes, ClaimUserMalloc two callers and
small regions. `WORD` is 4096, more than any address; 2^32 in the code. Four
processes exchange messages, so that a queue has a front, a middle and an end
beside the receiver; no action tells one from another, which makes the symmetry
sound. One buffer length is enough, as lengths only decide the answer.

### Fairness

`Fairness` is weak fairness of the timer trap, of each iteration of `tick`'s
loop and of its end. `initPIT(100)` makes the timer interrupt recur and
`STARTING_EFLAGS` has interrupts on in every process; the other two are kernel
code that runs to its end once entered. Programs are not assumed to do anything.

`FairMemSpec` adds weak fairness of the steps inside a call of `kmalloc` or
`kfree`: with one caller this is the kernel, which nothing interrupts. Entering
a call is not assumed. `ReturnsUntilOvergrown` is checked under it. `Messages`
states no liveness.

## The proofs

`KernelProofs` is checked by TLAPS from the two named assumptions of `Kernel`
(`TableAssumption`: at least two slots and two signals, and `MAX_PROC` divides
`WORD`; `ArgumentAssumption`: the types of the arguments), for every value of
the constants and every `Workload`.

- **TypeCorrect** (`TypeOK`). Inductive as it stands, one lemma per action. It
  is the ground the others stand on. `Sound(L, C)` says that a list record leads
  only to slots of `C`, and every list operation keeps that whether its argument
  is a proper list or not, `removeFromReady` in a corrupt list and `sleep()`
  behind a corrupt `sleepQ` included.
- **HandlersNest** (`SignalNesting`). Induction on `Nested(s)`: every frame's
  saved level is below the next frame's and the last one's below `currSigLvl`.
  `signal()` pushes only above the level, `SYS_SIGRETURN` restores the popped
  frame's, `create()` starts with an empty stack and may therefore leave the old
  level.
- **PidsNameProcesses** (`LiveFound`). Not inductive: that two slots do not
  share a live pid depends on how pids were placed. `PidInv` says that the slots
  in use (`Made`) hold a pid congruent to their index, that `p`, the lists and
  `sleepQ` lead only there, and that the other slots still hold pid 0. The same
  `Sound` lemmas, now with `C = Made`, carry it through the list operations. Pid
  0 itself is then found in slot 0 because `findPCB` looks there first.
- **PointersStayFilled** (`PointersFilled`). The part of `PidInv` about
  pointers, a theorem of its own because it holds for programs that corrupt the
  lists: the kernel may hang, but it never runs a pcb without a stack.
- **CreateFills** (`CreateFindsFree`). A consequence of `TypeOK` and arithmetic:
  because `MAX_PROC` divides `WORD`, the `MAX_PROC` proposals after `nextpid`
  meet every residue also across the wrap.

`KernelListsProofs` uses the same assumptions and, in every theorem, the
hypothesis `Quiet`: no program signals a sleeping process (`killSleeping`) and
none sends signal 31 to the idle process (`killIdle`). Without it the theorems
are false, which is what the run ClaimSleepers and the observations show. Sleeps
shorter than a tick are not excluded: their keys wrap, but no list depends on a
key.

- **ListsStaySound** (`ListsSound`), **SleepersStayListed** (`SleepersListed`).
  Neither is inductive: that a list ends says nothing about where the next
  insertion or removal leaves it. The invariant `ListInv` says that there are a
  set `Q` and a rank `r` of the slots such that `next` leads from `head` through
  exactly the members of `Q` and from `sleepQ` through exactly the sleeping
  processes, each time to a higher rank (`Threads`), that `tail` is the member
  of `Q` whose link is NULL (`Shape`), that the running process is READY and on
  neither list, and that the idle process runs or is in `Q` (`Placed`). A rank
  instead of a sequence makes every operation a local argument: `ready()`
  appends with a rank above all others, `next()` drops the lowest,
  `removeFromReady` unlinks and keeps the ranks, `sleep()` inserts where its
  search stopped and moves the ranks behind it up, `tick` moves the front of one
  list to the end of the other, the wake-up loop of `kill()` threads a set in
  table order and concatenates. From the rank follows that a walk along `next`
  meets every member once and ends within `MAX_PROC` steps, which is what
  `OnList`, `Ends` and the searches of the code are about; from the idle process
  follows that `next()` never meets an empty list, so that the model never
  hangs.
- **ReadyStayQueued** (`ReadyMeansQueued`). `Placed` also says, for programs
  without signal 31 (`KILL \notin SigArgs`), that a READY process runs or is in
  `Q`; with it the property is false, as observed above.
- **ReturnsKept** (`ReturnKept`), **WaitsEnd** (`WaitEnds`). Action properties.
  `Moved`, proved for each action, collects what a step may do to `ret` of
  processes on the list and to waiting ones: only `SysKill` takes a process out
  of WAIT, either the target itself (`Signalled`) or, with the kill signal, the
  processes that wait for the pid it names (`AwaitedKilled`). `WaitInv` adds
  that a waiting process' answer is 0, so that releasing it without storing an
  answer returns 0.

`KernelSchedulerProofs` proves that the kernel implements the abstract
scheduler.

- **KernelImplementsScheduler** (`ImplementsScheduler`). Its hypotheses are
  `Quiet` and `WholeTicks`: a sleep of some milliseconds is a sleep of at least
  one tick. A shorter one has key 0, which the timer's decrement wraps (listed
  under the observations), and its countdown is then nobody's. The mapping is
  computed by recursive functions, the pcbs met along `next` and the sums of the
  keys met on the way, which no step of the kernel can be reasoned about with.
  The proof puts two relations in their place: `Line(next, start, q)`, the links
  lead from `start` along the sequence `q` and then end, and `Counts(next,
  start, diff, C, c)`, along the list `c` grows by the keys. Given the ranks of
  `ListInv` each has exactly one solution and it is what the mapping computes
  (`LineRead`, `CountsRead`, by induction along the walk, carried out on sets of
  naturals). Every operation on a list then is an operation on `q` and `c`:
  `ready()` appends, `next()` takes the head, `removeFromReady` takes out the
  member in the middle, the wake-up loop of `kill()` appends the woken in the
  order of their slots, `sleep()` adds a countdown of as many ticks as were
  asked for because what its search has left over and the countdown at the place
  it found always add up to them (`SearchCounts`), `tick` takes one off every
  countdown by taking it off the first key. The additional invariant `KeyInv`
  says that the first key is not 0 while a program runs, so that this
  subtraction, and the one behind an insertion, are exact in words. `TimerDone`
  is the abstract `Resume` because no countdown is shorter than the first
  (`CountsFloor`).
- **SleepersSleepAsAsked** (`SleepsAsAsked`), under the same hypotheses. The
  abstract `Sleep` takes any number of ticks; that the number is the caller's
  own `ms \div MILLISECONDS_TICK` is what the lemma about `sleep()` shows on the
  way.

`DevicesProofs` adds `DeviceAssumption` (at least one descriptor and one place
in the buffer, and the types of the arguments).

- **DevicesTypeCorrect** (`TypeOK`, now of `DevSpec`). The steps of `Kernel` are
  `StepType` of `KernelProofs`; a device call answers an int, requeues its
  caller or blocks it, and the lemmas about `Ready` and `Dispatch` do not ask
  for a proper list.
- **KeyboardMasked** (`IrqMeansOpen`). Inductive with the type of `fdt`: open
  fills a free descriptor and so overwrites no open keyboard, every close of a
  keyboard masks the line, a close of another device leaves the keyboard's
  descriptors as they are, and the handler that closes a descriptor it did not
  open masks the line in the same step.

`MemoryProofs` uses `LayoutAssumption` of `Memory` (regions that hold a header,
aligned hole, addresses below `WORD`) and `KernelUse(k)`: one caller `k`,
requests at least two headers short of `WORD`, a hole longer than `HDR *
MaxMallocs` and as much room above `maxaddr`, the bytes that splits do not pay
for.

- **KernelAllocsDisjoint** (`BlocksDisjoint`, of `AllocSpec`). With `kmalloc`
  alone blocks never overlap, although every split makes a header of bytes it
  does not have. They do grow out of their region, which is why the hypothesis
  about the hole is needed.
- **KernelDisjointUntilOvergrown** (`DisjointUntilOvergrown`, of `MemSpec`).
  With releases as well, up to the first step that sets `overgrown`.
  ClaimRelease shows that this is as far as it goes: `BlocksDisjoint` is false
  of `MemSpec`.

Neither property is inductive: whether a new block is apart depends on the
chunks, on a list that may be entered in its middle and on the call in progress.
The invariant `MemInv(k, use)` says that the model has stopped, or with releases
is overgrown, or that there is a set `F` of free headers such that `prev` and
`next` thread exactly `F` in the order of addresses and `memSlot` is a member or
NULL (`Linked`), no block in use is a member and its header still covers what
was handed out (`Held`), members and blocks end before the next one starts
(`Apart`), they reach past their region by at most one header per call so far
(`Bounded`), and the call in progress stands at a member (`CallSound`). `F` is a
witness: `memSlot` may stand anywhere in it, and a release in front of `memSlot`
cuts off what lay before. A split keeps `Apart` only when the chunk is the last
of its region; without releases every member is (`Open`), and with them the
other case sets `overgrown`.

`MessagesProofs` uses `ProcsAssumption` of `Messages` (finitely many processes,
none of them NULL or ANY).

- **SendersStayQueued** (`SendersQueued`), **MessagesArrive**
  (`MeantForReader`). The invariant `MsgInv` says that a send has been misled
  or: the ready list holds READY processes, each once, without the running one
  (`ReadyOK`); there is one rank by which `senderNext` threads, from each head
  in `senderQueue`, exactly the processes blocked in a send to its owner, and
  what such a process holds in its buffer was written for the owner
  (`QueuesOK`); and what has arrived was meant for its reader (`GotOK`). One
  rank for all queues is enough because the queues share no process: a process
  is blocked on one other. `recv` unlinks in the middle, `recvAny` at the front;
  a sender that leaves keeps its link, and the invariant survives that exactly
  as long as the sender's next send sees a NULL link, which `stale` watches.

Only model-checked: the liveness properties `ReadyRuns`, `SleeperWakes` and
`ReturnsUntilOvergrown`, as fairness is beyond the prover. `ReadyAll` is
compared with the recursive loop by TLC because a recursive definition cannot be
unfolded for every input.

## Plan

1. Proofs: the devices' effect on the lists, as far as no reader is requeued, so
   that the theorems about them hold of `DevSpec` too; the heap with several
   callers that take turns.
2. Return values: a history of what each interrupted call should answer, for
   frames, interrupted sleeps and waits.

## Not modelled

- The test programs of `user.c`: a program is any sequence of calls, and the
  shipped ones are instances. `create()` called from user mode (`user.c:349`) is
  only modelled as far as its `kmalloc` goes.
- The contents of blocks and buffers, the text formatting of the devices' output
  and the bytes `zeroRead` and `randRead` write.
- The register traffic of `contextswitch` and the interrupt vectors.
- `removeFromSleep`, which no call reaches, and the pid check in front of it.
- What the heap does with a header lost in the hole, and what the messages do
  after a stale field has misled a send.
