# A TLA+ model of the XEROS kernel

XEROS is a small teaching kernel for one i386 CPU: processes, blocking messages,
sleep, signals, a keyboard device, and a heap. This directory holds TLA+ modules
translated from its C code, TLC configurations that check them on small
instances, and TLAPS proofs about them for instances of every size.

## 1. The system

### Components, their state and operations

| component | source | state | operations |
|---|---|---|---|
| process table and queues | `c/pcb.c` | 32 pcbs plus the idle process; READY and STOPPED queues; three queues of blocked processes per pcb (SENDER, RECEIVER, WAITING), all through one pair of links per pcb | take and recycle a pcb, next process, find a pid, block in and leave a queue, terminate |
| process creation | `c/create.c` | - | `create`, with the failures of the heap and of the table; the first context of a process |
| dispatcher | `c/disp.c` | `currproc` | one handler per system call, timer and keyboard interrupt |
| context switch | `c/ctsw.c` | the user's registers | deliver a signal, run the process until it traps |
| messages | `c/msg.c` | (queues of the pcbs) | `send`, `recv`, `recv_any` |
| sleep | `c/sleep.c` | the delta list | `sleep`, `tick`, `wake` |
| signals | `c/signal.c`, `c/pcb.c` | handler table, pending set, enabled flag; contexts on the user's stack | mark and unblock, deliver, return |
| devices and keyboard | `c/di_calls.c`, `c/kbd.c` | descriptors per pcb; open count, interrupt mask, type-ahead buffer, one read task per pcb; state of SHIFT, CTRL and CAPS LOCK | open, close, read, write, ioctl, interrupt, translation of scan codes |
| heap | `c/mem.c` | free list through headers in memory | `kmalloc`, `kfree` |
| user pointers | `c/copyinout.c` | - | `verify_usrptr`, `verify_usrstr` |
| start-up, interrupts | `c/init.c`, `c/evec.c`, `c/i386.c`, `c/ctsw.c` | vectors, masks and requests of the interrupt controller, the interrupt flag, contexts on the stacks | the steps of start-up, the entry points, the switch, EOI |
| console and formatted output | `c/kprintf.c`, `lib/libxc/doprnt.c`, `sprintf.c` | the memory of the display and a pointer into it | `kbmputc`, `kprintf`, `sprintf` |
| system call stubs | `c/syscall.c` | `request_reg`, one for all processes | trap with arguments, return the result |
| login and shell | `c/user.c` | buffers, `g_arg`, `g_pid_to_kill` | login, parse a line, start a command; `t`, `ps`, `a`, `k`, `sudo` |
| boot loader, rest of the C library, tests | `boot/`, `lib/`, `c/tests/` | - | - |

Everything is called from the loop of `dispatch()`: switch to `currproc`, come
back with the reason it entered the kernel, handle it, repeat. The kernel itself
runs with interrupts off, so that **a handler is atomic** and interleaving
happens between handlers: which process runs is decided by the calls it makes,
by the timer and by who is unblocked. Components share the pcb: a signal
(`pcb.c`) takes a process out of a list that `msg.c`, `sleep.c` or `disp.c` put
it in; a key press (`kbd.c`) makes READY a process that `disp.c` blocked; the
`ret` field is the return value of a call and at the same time the delta of a
sleeper.

### What is hard, and what makes it correct

* All lists share one pair of links, so a pcb may be in one list only, whatever
  ends its call: the peer, a signal, the clock, the death of the peer, a key.
* A send and a receive come in either order and must find each other.
* A signal may arrive in any state: running, READY, blocked in any of six ways,
  inside a handler. It must end exactly one call, with the right return value,
  and be delivered exactly once without nesting.
* The delta list must behave like one timer per sleeper.
* Pids and pcbs are recycled while others hold the old pid.
* Round robin has to reach everybody, and the clock every sleeper.
* The driver's idea of who reads, and the kernel's, are two different pieces of
  state; signals, EOF, closing and death change one or both.
* The heap must survive any order of allocations and frees, and its callers must
  give back exactly what they got, whichever of the two allocations of a new
  process fails.
* Interrupts are armed until the `cli` of an entry point, so that entries nest;
  that the kernel is never interrupted, and the clock never shut out, is a
  matter of flags, masks and EOIs in the right order.
* All processes return from system calls through one static variable.
* Login, shell and commands share the keyboard, its echo flag, and globals.
* The state of the modifier keys is rebuilt from codes, some of which come while
  nobody listens.

The list of hazards, each at its line and with the properties aimed at it, is in
`PROJECT.json`.

## 2. The modules

| module | models | |
|---|---|---|
| `Pcb` | `pcb.c`, `create.c` | constants, state, queues, creation, termination |
| `Msg` | `msg.c`, send and receive handlers of `disp.c`, `strncpy` | extends `Pcb` |
| `Sleep` | `sleep.c`, sleep and timer handlers | extends `Pcb` |
| `Signal` | `signal.c`, `ctsw.c`, the signal half of `pcb.c`, its handlers | extends `Sleep` |
| `Disp` | the rest of `disp.c`; `Next` is the dispatcher's switch | extends `Msg`, `Signal`; states the properties |
| `Kbd` | `di_calls.c`, `kbd.c`, the device handlers | extends `Disp` and composes it with the driver |
| `Scancode` | `keyboard_process_scancode`, and the keyboard it listens to | ends where `Kbd` begins: with a character |
| `Mem` | `mem.c` | on its own |
| `CopyInOut` | `copyinout.c` | extends `Mem` for the memory layout |
| `ProcMem` | `create`, `cleanup_proc` and start-up as callers of the heap | extends `CopyInOut` and composes the two |
| `Intr` | start-up, `evec.c`, `i386.c`, the entry points of `ctsw.c`, what handlers do to interrupts and contexts | below `Disp`: shows what taking a handler for one step rests on |
| `Stub` | the stubs of `syscall.c`, by instruction | between a program and `Disp` |
| `Console`, `Kprintf` | `kprintf.c`; `doprnt.c`, `sprintf.c` | `Kprintf` extends `Console` |
| `Shell` | `user.c` | above the kernel, which it reduces to what programs see |
| `Rendezvous`, `Countdown`, `Heap`, `Teletype` | what messages, sleep, the heap and the console promise | abstract specifications |
| `DispProofs` | theorems about the process table, the dispatcher, signals and assertions | extends `Disp` |
| `CallProofs` | theorems about messages, sleep and what calls return | extends `DispProofs` |
| `KbdProofs` | theorems about devices | extends `Kbd`, `DispProofs` |
| `IntrProofs`, `MemProofs`, `ShellProofs`, `ScancodeProofs`, `ConsoleProofs` | theorems about `Intr`, `ProcMem` and what it extends, `Shell`, `Scancode`, `Kprintf` and `Console` | |
| `MCDisp`, `MCKbd`, `MCMem`, `MCKprintf`, `MCShell` | constants of the instances | |

### How state and actions correspond to the code

* A pcb is a number: `1..PCB_TABLE_SIZE`, and one more for `g_idle_proc`. Every
  pcb field is a function on these numbers, under its C name. `currproc` is the
  dispatcher's variable.
* A linked list is a sequence. This is exact only while no pcb is in two lists,
  which is `QueueIntegrity`. (`verify_pcb_queues` asserts a part of it.)
* `mode` says who has the CPU. In "kernel" the only step is
  `ctsw_contextswitch`; in "user" the running process makes a call, or an
  interrupt comes. Each of these steps is a whole handler of `disp.c`, the choice
  of the next process included.
* The user's part of a call is a choice among constants: `PidArgs`, `Messages`,
  `RecvLens`, `SleepTimes`, `Handlers`, and the set `Syscalls` of calls that
  processes make. A user pointer is good or bad by choice, which is an early
  return of the handler. Lengths are those `verify_usrptr` accepts (it asserts on
  others).
* `ret` holds the user's eax between the switch and the next call
  (`Registers`), because the code saves it there and restores it from there.
* `frames[p]` are the contexts that signal delivery pushes on the user's stack,
  with the return value each saves; `buffer` and `from_pid` are the user memory
  that `msg.c` writes to.
* A failed ASSERT makes the kernel spin: `halted` becomes true and nothing
  happens any more (`Asserting`).
* `kmalloc` does not clear memory: the entries of a new signal table are chosen
  from `HeapResidue`, except the first (the code's `memset` clears 4 bytes).
* In `Kbd`, `task[p]` is the entry of `g_kbd_task_list` for pcb p (`buf` the
  characters written so far, its length the field `i`); `kernel_step` is any step
  of `Disp`, in which a dying process's descriptors are closed by
  `cleanup_proc`. The ring buffer is a sequence.
* In `Mem`, `header` maps block addresses to headers, with `prev` and `next` as
  pointers; a pointer to anything but a header makes TLC fail. In `ProcMem` a
  handler is a sequence of steps, one for each call to the heap; `step` is "user"
  between handlers.
* In `Intr`, `cpu` is where the CPU is, and `stack[p]` the contexts that entries
  have pushed on the stack of p, each with the place it goes on at and its
  interrupt flag. The 8259 is its three registers. Which process runs next, and
  when a signal is delivered, are free choices there: `Disp` decides them.
* In `Stub`, a step is an instruction of a stub. The build does not optimise, so
  that the `return` reads `request_reg` again.
* In `Kprintf`, a character is put in one step, and a call is a sequence of
  items, from which both the format that is parsed and the text that it should
  print are made. Words have `W` bits; `WordAssumption` holds for 32 bits and 10
  digits as it does for the 16 bits and 5 digits of the run.
* In `Scancode`, a key stands for all keys with the same pattern of characters in
  the tables `lower`, `upper` and `ctrl`. `held` and `since` are the truth that
  the driver's `keystate` is compared with.
* In `Shell`, a step is a system call with the computation up to the next one. A
  line goes to every process that reads, as `keyboard_isr` does it. `typed`,
  `own` and `disturbed` only record what happened, for the properties.

## 3. The runs

Every run names in `PROJECT.json` what it checks. Bounds: `PidBound` limits how
many pcbs are (re)used, `TaskBound` how far the driver's count of reads may
drift.

| run | instance | shows |
|---|---|---|
| `Ipc` | 3 pcbs, recycled until pids pass INT_MAX (4 to 7, then 1 and 4 again, and 0 for the last pcb) | sends, receives and deaths in every order: `QueueIntegrity`, `NoMissedRendezvous`, `NoOrphans`, that message passing implements `Rendezvous`, and `HaltsOnlyWhen`: the kernel stops only on two assertions, section 6, both of which are reached |
| `Signal` | 3 pcbs, 2 used, one signal | signals racing sends, receives, waits and handlers: `NoSignalLeftBehind`, `HandlersNeverNest`, `CallsEndForAReason` |
| `Sleep` | 3 pcbs, sleeps of 1 and 2 ticks, signals to one of the processes, which may wait for itself | the type invariant; `QueueIntegrity`; the delta list implements `Countdown`, and every timer interrupt is one of its ticks; `CallsEndForAReason` with the delta that a signalled sleeper is told; `ReadyRuns` and `SleepersWake` under fairness |
| `Kbd` | 2 pcbs, 1 descriptor each, 1 place of type-ahead, letter, newline and EOF | `OpenCount`, `EnabledWhileOpen`, `TypedAheadOnlyIfUnread`, `BlockedReadersListen` |
| `KbdSignal` | the same with signals and deaths, letter and newline | `QueueIntegrity` (nobody sleeps), `OnlyHoldersWait`, `RoomToWrite`: reads left behind by signals never write to a process that gave the keyboard up or died |
| `Mem` | 3 pcbs; 14 paragraphs before the hole, 8 less one byte after; stacks that are the default, larger, and too large | `FreeListSound`, `PointersGood`; `OwnedOnce`: nothing leaks or is freed twice; `StacksPass`; and that the free list implements `Heap` |
| `Intr` | 2 processes and the idle process, 3 interrupt lines, any state of the controller at power-on | `KernelUninterrupted`, `NoStrayInterrupt`, `ClockGetsThrough`, `KeyboardServed`, `ContextsKept` |
| `Kprintf` | a display of 3 lines of 4 characters; 11 boundary values of 16 bits in fields of every kind; texts with control characters; 6 first cursor positions, the two at and past the end included | `WritesStayOnScreen`, `PrintsWhatIsMeant`, and that the display implements `Teletype` |
| `Scancode` | a letter, a keypad key, both SHIFT keys, CTRL, CAPS LOCK; 3 codes on the line | `TypedAsHeld` |
| `Shell` | 4 processes, 10 lines and EOF | `ShellNeedsPassword`, `ShellHasKeyboard`, `PasswordHidden`, `EchoComesBack` |
| `StaleRead` | 2 pcbs | violation, section 6 |
| `SharedReturn` | 2 processes | violation, section 6 |

`Ipc`, `Intr`, `Kprintf`: deadlock is not checked. A kernel whose assertion failed
spins, a machine in `trap()` loops for ever, and `CallBound` ends the calls.

Why these bounds are enough to be interesting: three processes are a sender, a
receiver and a third that competes, dies or is waited for; a list of two has a
head, a tail and no middle, of three a middle; a second life of a pcb needs one
pid more than there are pcbs. Two sleep times give equal, earlier and later
wake-ups and zero deltas, and of two sleepers the third process can signal the first
or the second. INT_MAX of `Ipc` is one less than a multiple of its 3 pcbs, as 2^31 - 1
is of the code's 32. One signal suffices for nesting (it comes again while
its handler runs). The two regions of the heap hold up to five blocks, and the
last region ends one byte before a paragraph as real memory does, so that a free
block shorter than a header occurs; there is too little memory for the whole
table, so that both allocations of `create` fail at times. Four processes are
login, a shell and two commands, which is what two sudos, or a sudo and the `k`
that kills it, need; slots are used again by the next shell. One entry that is
interrupted before its `cli` is the deepest nesting that the priorities of the
controller allow for the keyboard; a clock entry or a system call may be
interrupted as well.

### Fairness

`FairSpec` assumes weak fairness of `ctsw_contextswitch`: the kernel has no
loops that wait, so it always gets back to a process. And strong fairness of
`timer_handler`: processes may re-enter the kernel so often that the timer is
never *continuously* enabled, but an interrupt that arrives while the kernel
runs with interrupts off is held by the interrupt controller and is taken as
soon as a process runs; the PIT never stops. That nothing but the kernel's own
flag can hold it up is checked separately (`ClockGetsThrough` of `Intr`: whenever
a process runs, interrupts are armed, the line of the clock is not masked and
its last interrupt has had its EOI). Nothing is assumed of processes: a
process may never make a call. `SleepersWake` and `ReadyRuns` therefore rest on
the clock alone.

## 4. What is proved

Everything here holds for every size of the tables, every set of calls, arguments,
messages, lines, keys, displays and devices, under the ASSUMEs of the modules (sizes
are positive, pids are integers, a line ends at its newline and so on), which TLC
evaluates in the runs. Most theorems are invariants; each has an inductive invariant, shown to
hold at first and to be kept by every action. `PROJECT.json` lists them all.

### The process table (`DispProofs`)

`Structure`: `Spec => []IInv`, and with it `QueueIntegrity`, `NoOrphans` and
`BlockersMatchStates`. `QueueIntegrity` is not inductive alone. That a process can
be appended to READY needs that it is in no other list, which its state tells
(`QueueIntegrity` itself) only if the process that runs is the only RUNNING one
(`OneRunning`) and if what a blocked process says it is blocked on is right
(`BlockersMatchStates`). That `cleanup_proc` empties the queues of a dying
process without leaving anybody in them, and that a recycled pcb begins with
empty queues, needs that nobody is blocked on a STOPPED process (`NoOrphans`).
`IInv` is the conjunction of these four with the types of the queues and pcb
fields.

Every handler does the same two things in the end: it moves some processes
between lists, and lets `get_next_proc` pick the next one. The proof follows
this: a handler is shown to reach a "prepared" state in which the running
process has been put where it belongs, and one lemma shows that `get_next_proc`
turns any prepared state into one that satisfies `IInv`. The module
begins with the facts about sequences without repetitions that the steps rest on
(`Lists`), and what later proofs need of least elements and of induction over a set
of naturals.

### Signals and assertions (`DispProofs`)

`NoSignalLeftBehind` and `HandlersNeverNest` follow from `SigInv`: a signal that a
process may take is never pending while the process is blocked, and signals are
enabled exactly while there is no handler's context on the process's stack, of
which there is at most one. The proof of the first is an argument about all
handlers at once (`BlockedAfter`): whoever is BLOCKED after a step either was
before, with the same blocker and no new signal, or is the running process.

`TwoAssertions` (`HaltsOnlyWhen`): of all the assertions in the modelled code only two
can fail, each exactly in the situation that section 6 describes (`KnownFailure`). The
condition on the pid is stated of pids and INT_MAX, not of what `next_pid` computes, so
that the proof needs that pids are natural numbers (`PidsAreNat`). Therefore
`KernelNeverHalts`: no assertion fails (`NeverHalts`) in any instance in which pids stay
below INT_MAX and the table is never full when times are asked for (`Sparing`, a
condition on the constants).

### Messages (`CallProofs`)

`MessagesRendezvous` is the refinement of `Rendezvous` by the queues, states and
return values of `msg.c`, `pcb.c` and `disp.c`: every step of the dispatcher is
shown to be one of its steps, or to leave calls and user memory alone. It needs,
besides `IInv`, that a blocked sender or receiver already has in `ret` what the
death of its peer will tell it (`FailureChosen`), and that a receiver from one
process has that process's pid in user memory (`PeerNamed`). That calls never miss
each other (`NoMissedRendezvous`) is then proved of `Rendezvous`, where it is short:
whoever posts a call has looked for its match; the refinement mapping carries it
back to the queues.

### Sleep and return values (`CallProofs`)

`ValuesHaveTheirTypes` is the type invariant of the run `Sleep`. It is more than
bookkeeping for `ret`, which is a return value, the saved eax, a message length and a
delta by turns. `DeltasStayPositive`: along the delta list `ret` is a delta (`Deltas`:
none negative, the first at least one). With it `SleepsCountDown`, the refinement of
`Countdown`. What a sleeper has left is the running sum of the deltas up to it, a
recursive function (`ticks_until`); its facts are a lemma for the start, one for the
step, and one that two lists with the same deltas have the same sums. Then one lemma
says what inserting does to the sums (the new sleeper gets the time it asked for, since
`sleep` subtracts the deltas it walks past and takes the rest from the next; nobody
else's sum changes), one what removing does (the next inherits the delta), one what a
tick does (one less for all; those whose sum becomes 0 are exactly the prefix that `wake`
takes). Every other handler leaves the list and the deltas of those in it alone: `ret` is
written only of processes that are not asleep, which is `QueueIntegrity`.
`TicksCountForAll` (`EveryTickCounts`) says that no timer interrupt is a stutter of
`Countdown`: each one is a tick for everybody.

`CallsReturnTheirReason` (`CallsEndForAReason`) joins all of this: its invariant
(`ReasonInv`) is that of types, sleep and messages, with the 0 that a waiting process
already has in `ret` (`WaitChosen`). Every handler is shown to end only calls that its
reason covers, and to leave in `ret` what that reason returns. For a sleep that a signal
ends this is the exact delta. The property states it without `ret`, by the times that are
left (`beyond`: what the sleeper has left, less what the one before it has left), and the
lemma `BeyondIs` says that the two agree because the times are the sums of the deltas.

### Interrupts (`IntrProofs`)

`IntrInv` relates where the CPU is (with its interrupt flag), what the controller
has masked, requested and in service, and the contexts on the stacks of all
processes: an interrupt is in service exactly while its entry is being handled or
is interrupted before its `cli`, in a context on some stack. From it follow
`KernelUninterrupted`, which is what makes a handler one step everywhere else,
`NoStrayInterrupt`, `ClockGetsThrough`, on which the fairness of the dispatcher's
clock rests, `ContextsKept` and `KeyboardServed`.

### Devices (`KbdProofs`)

`DriverStaysRight` is unconditional: the driver's own state, and with it
`EnabledWhileOpen` and `RoomToWrite`, is right even after stale reads have corrupted
the kernel's lists. What joins driver and kernel (`OpenCount`, `OnlyHoldersWait`,
`TypedAheadOnlyIfUnread`, `BlockedReadersListen`, and `QueueIntegrity` with devices in use) is not: the
run `StaleRead` shows it broken. `DevicesStayRight` proves `KInv`, of which they are
parts, for all behaviours in which no process blocks elsewhere while the driver still
has a read of its (`StaleReadsQuiet`); `QuietDevicesStayRight` and the five theorems
after it prove them outright for every instance without signals, and for every
instance in which reads are the only calls that block (`Quiet`). The runs `Kbd` and
`KbdSignal` are of these two kinds. `BlockedReadersListen` says when a blocked read can
still be woken: its task waits, the driver counts it and so looks for it, the interrupt is
enabled, and no EOF was seen. It needs that a read that blocks was not ended while its
process was still running (`ReadersHear`), which is false in one case only, the line that
was typed ahead: then the task has ended with a newline and less than a full buffer
(`LineTypedAhead`), and no key will ever wake the process (section 6). A key that comes
goes through `keyboard_flush_buffer`'s loop, a fold in the model; what it keeps is proved
by induction over the set of positions left in the buffer.

### Programs (`ShellProofs`)

`ShellInv` is the inductive invariant of login, shell and commands. The properties of
the run, and `ArgumentKept`, need these facts together: there is one shell, which login waits for; one of
the two keyboard devices is open at a time, without echo for login alone; what login has
in its buffers is what was typed; while two sudos run, `disturbed` is set; an
undisturbed sudo that has turned the echo off remembers that it was on, and still has
the keyboard; a command in the foreground is the child that the shell waits for, and
`g_arg` is not written meanwhile.

### Memory (`MemProofs`)

`MemInv` is the inductive invariant of `mem.c`: the blocks tile the two regions in
paragraphs (`Tiled`), the free list is the blocks that are not handed out in the order
of their addresses (`Linked`), no two of them touch (`Touching`), and each pointer has
the room that was asked for (`Grants`). Splitting a block, merging two, taking one out
of the list and putting one in are a lemma each, about any tiling and any list; that
the walk along the list meets each free block once is proved by induction over its
length (a set of naturals that has 0 and all successors). `kfree` breaks `Touching` for
the freed block and its two neighbours and mends it in two calls of `coalesce_blocks`;
the proof keeps account of the pairs that may still touch.

From it follow `FreeListSound` and `PointersGood`, for any caller (`MemSound`) and for
the kernel's, and `MemIsHeap` and `CallersSeeHeap`: the free list implements `Heap`,
where a request gets the start of the lowest gap that is large enough. The gaps between
what is handed out are exactly the free blocks *because* no two of these touch. The
hypothesis of both, that 0 is not a size, is needed: `kmalloc(0)` returns NULL although
there is room. No caller in the kernel asks for 0 bytes.

`NoLeakNoDoubleFree` (`OwnedOnce`) follows from who owns which pointer in the middle of
a handler (`Owners`): start-up, `create`'s `stack_bottom`, a pcb's stack, or its signal
table; `StacksAlwaysPass` (`StacksPass`) from the regions. `OnlyEndsMatter`: a buffer
whose ends pass `verify_usrptr` has no byte in the hole or in the kernel's stack, for
every layout in which the hole is at least as large as the kernel's stack. (Addresses
whose end an `int` cannot hold are outside the theorem.) The assumptions are those of
`Mem`, `CopyInOut` and `ProcMem` on the layout and on the sizes that are asked for.

### Scan codes (`ScancodeProofs`)

`CharactersAsHeld` (`TypedAsHeld`): the character that a code gives is the one its key
has for the modifiers that are held. The driver sees a key later than the user pressed
it, so nothing can be said of `keystate` itself while codes wait. `ModInv` speaks of what
a bit *will* be when they have been read (`WillBe`): what the last code that matters to it
says, or what it is if none does. A bit will be set if a key of its modifier is down and
its code could be heard, and clear if none is down (`Tells`). Reading a code does not
change what will be; a key changes both sides in the same way; opening the keyboard
clears the bits, and with them what may be expected. The theorem is for every set of keys
that are struck and every length of the line.

### The console (`ConsoleProofs`)

`ConsoleStaysOnScreen` (`WritesStayOnScreen`), for every size of the display, every
distance of tab stops that divides the lines (`DisplayAssumption`) and every text. The
cursor's first place is any natural number (`CursorAssumption`: it is read as two bytes
from the display controller's ports). `ConsoleIsTeletype` (`ImplementsTeletype`): a
pointer into one array of cells behaves like rows and columns on a roll of paper. That
rests on the arithmetic of rows and columns (quotient and remainder exist, are unique, and
count whole lines), on the tab stop after a cell never being past the end of its line
(`TabStops`), and on `tabulate`'s loop, a fold in the model, writing exactly the blanks up to
it (`TabWrites`, by induction over the set of steps that do what is claimed). Copying every
line up and blanking the last is the paper moving by one line.

### Only model-checked

* Liveness (`SleepersWake`, `ReadyRuns`): temporal reasoning with fairness, and with it
  ENABLED, is out of TLAPS's reach here.
* `PrintsWhatIsMeant` of `Kprintf`: the digits of a number, the reading of a format and
  the text that it should give are defined by recursion over words, formats and texts of
  any length; that the two agree needs induction over them with an induction hypothesis
  about an operator, which the installed provers cannot instantiate.
* `Stub`: its one run shows a violation.

## 5. What is not modelled, and why

* The contents of registers and stacks, the GDT, the sizing of memory, the boot
  loader (third-party 16-bit code, a decompressor included): hardware and
  assembly below the level at which the properties are stated. Of a context,
  `Intr` has the place it returns to and its interrupt flag.
* `cpu_time`, and the rest of what `sysgetcputimes` copies out: counted at each
  tick and printed.
* The echo of the keyboard on the screen, and output in general, except in
  `Kprintf` and `Console`.
* `%b` of `_doprnt`: nothing uses it, and its 32 digits do not fit in `string[20]`.
* Programs that print for themselves: `sudo` calls `kprintf` outside the kernel,
  where the kernel's own output may come between. `Console` has one caller at a
  time.
* The sizes of the shell's buffers: a word may be longer than `command[50]` and
  `arg[50]`. Words have no length in `Shell`.
* Liveness of the shell: the state space of `Shell` is too large for it.
* 32-bit wrap-around of `milliseconds` and of `ret * 10` in `sleep.c`.
* The rest of the C library, which is vendored.

## 6. Where the code does not do what it says

Two deviations have a run whose counterexample shows them.

* `StaleRead`: a signal ends a read but not the driver's task; a later newline
  makes READY a process that is asleep, which corrupts both lists.
* `SharedReturn`: a stub moves its result to the static `request_reg` and reads
  it again to return it; in between the timer lets another process's stub use
  the variable, and the first one returns what that stub left there. In TLC's
  trace this is the request id which the other stub popped before its own result
  came; it may be that result as well.

Four are the exceptions that a property names, so that it would fail if there
were others:

* `sysgetcputimes` with a full table fails an assertion: 33 entries, the idle
  process among them, for 32 slots (`pcb.c:250`); and a pid past INT_MAX becomes 0
  for the last pcb, which fails another (`pcb.c:151`), although "its probably fine to
  reuse a pid" (`pcb.c:146`). `HaltsOnlyWhen` says that nothing else in the handlers of
  `Disp` stops the kernel, and the run `Ipc` reaches both. (Lengths of zero, on which
  `verify_usrptr` asserts, are left out; `syswrite` is below.)
* A signalled sleeper is told its delta (`sleep.c:58`), not the time that was left,
  as `syssleep` promises: "abs((time requested to sleep for) - (time actually
  slept))" (`syscall.c:174`). Of two sleepers with 10 and 20 ms left each has a delta
  of one tick, and the second is told 10. `CallsEndForAReason` states the delta, and
  no other value.
* A newline typed before the read ends the read, and the process blocks for ever
  with its line in its buffer (`kbd.c:164` to `176`). An EOF does not wake it either,
  although `keyboard_handle_eof` is there for "waking all blocked processes"
  (`kbd.c:332`). `BlockedReadersListen` says that every other blocked reader can be
  woken; the run `Kbd` reaches the exception.
* The release of CTRL, and of either SHIFT key, clears the one bit for SHIFT.
  `TypedAsHeld` excepts exactly this, so it is no check of that line: it shows that no
  other order of codes loses a modifier.

Others were met while modelling. The models have the behaviour unless it says
otherwise, and no property claims the contrary:

* a new process's signal table holds what the heap block held before, except in
  the first entry (`pcb.c:135` clears four bytes; `HeapResidue`);
* a read after EOF leaves the driver's count of waiting reads one too high, after
  which keys are dropped (`TypedAheadOnlyIfUnread` states what still holds);
* messages with NUL bytes are cut, because they are copied with `strncpy`
  (`Rendezvous` is stated with the copy that is made);
* `syswrite` goes on after it found its buffer bad, so that NULL fails an
  assertion (`NullBuffers`);
* a handler that is replaced by NULL while its signal is pending is called all the
  same, at address 0 (`signal.c:54` reads the table again), although NULL is to mean
  "ignore" (`pcb.c:210`);
* a process stopped while an entry of the keyboard waits on its stack takes the
  EOI with it, and the keyboard stays silent (`lost` in `KeyboardServed`);
* the console accepts a first cursor one cell past the display, and backspaces
  above it (`WritesStayOnScreen` excepts both); `%-0` fills with zeros on the
  right, which changes the number (`Sound` in `PrintsWhatIsMeant`);
* a third way off the screen is outside the models, which have one caller of the
  console: a program that prints for itself, as `sudo` does, may be interrupted
  between the move of the pointer (`kprintf.c:156`) and the test for a scroll
  (161), and the kernel then prints below the display;
* a `sudo` in the background prints the argument of a later command: no run claims
  the contrary, and `ArgumentKept`, a theorem, speaks only of the command that the
  shell waits for;
* two sudos at once or a killed one leave the echo wrong (`disturbed` in the
  properties of the run `Shell`), and all commands close a device number instead of
  their descriptor;
* a `sigreturn` without a handler takes its context from wherever the user's
  pointer leads; `Signal` has `sigreturn` only for processes that are in a handler.

## 7. Plan

Every safety invariant, action property and refinement that a run checks is now a
theorem, but for `PrintsWhatIsMeant`. Left are:

1. `PrintsWhatIsMeant` for any number, from a statement by single digits that no longer
   needs recursion over the whole text.
2. Liveness: `SleepersWake` from `TicksCountForAll`, the number of ticks that are left
   being its measure, and `ReadyRuns` from the place in the READY queue.
3. The echo of the keyboard, which would join `Kbd` and `Console`.
