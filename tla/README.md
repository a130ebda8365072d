# BrowOS in TLA+

BrowOS is a RISC-V (RV32IM, Sv32) computer emulated in JavaScript, with a
Unix-like kernel written in RISC-V assembly, a small on-disk file system, a
user library and shell, and a terminal, all running in a browser page.  This
directory models the parts of it whose correctness depends on the order in
which things happen, checks the models with TLC, and proves the main results
for every value of the parameters with TLAPS.

Every definition is translated from the code (the `map` of `PROJECT.json` gives
the lines).  Where code and comments disagree the model follows the code, and a
run shows the disagreement.

## The system

| component | state | operations | talks to |
|---|---|---|---|
| CPU emulator (`tools/cpu.js`) | registers, CSRs, privilege, TLB | fetch/execute, traps and delegation, xRET, address translation, fence | bus, devices, CLINT |
| bus and CLINT (`tools/mem.js`) | RAM, `mtime`, `mtimecmp`, `msip` | loads, stores, MMIO dispatch, tick | CPU interrupt lines |
| devices (`tools/devices.js`) | UART queues and registers, disk sectors, GPU buffers | register reads and writes, DMA, GPU commands | bus, terminal, canvas |
| trap layer (`kernel/trap.s`) | trapframes, `sscratch`, delegation | trap entry and return, dispatch, context switch | all of the kernel |
| processes (`kernel/proc.s`) | `proc_table`, `current_proc`, `next_pid` | alloc, create, exit, fork, waitpid | scheduler, memory, open files |
| scheduler (`kernel/sched.s`) | `sched_current_idx` | tick, schedule, yield | processes, trap return, `kmain` |
| signals (`kernel/signal.s`) | pending bits in the PCB's sleep word | send, check on trap return, kill | processes, scheduler |
| pipes (`kernel/pipe.s`) | `pipe_table`, `pipe_buffers` | pipe, read, write, close | system calls |
| system calls, open files (`kernel/syscall.s`) | `ofiles`, per-process `cwd` | 22 calls | everything below |
| file system (`kernel/fs.s`) | super block, bitmap, inode table, directory and data blocks on disk; one block buffer, one inode buffer in memory | block and inode allocation, lookup, create, read, write, truncate, unlink, path resolution | block driver |
| memory (`kernel/pmm.s`, `heap.s`, `vmm.s`) | frame bitmap, reference counts, heap list, page tables | frame and heap allocation, map, unmap, switch | processes, exec |
| exec (`kernel/exec.s`) | scratch headers | ELF load, exec | file system, memory |
| drivers (`kernel/driver_*.s`) | none | register sequences | devices |
| user library, shell, globe (`user/`) | line buffer, heap, command state | readline, printf, shell commands | system calls |
| terminal (`web/terminal.js`) | cell buffer, cursor, CSI parser, scrollback | writeChar, scroll, render | UART output, keyboard |
| application (`web/app.js`) | run loop, current machine | boot, pause, reset, key input | terminal, CPU, devices |
| build tools (`tools/asm.js`, `elf.js`, `mkfs.js`, `bundle.js`, `validate.js`) | symbols and sections; bitmap and inodes of an image | assemble, write and read ELF, build the disk image and the page | the machine and the kernel's file system, through their files |

How they interact.  There is one hart.  User code runs until an `ecall`, a
fault or an interrupt; the kernel handles it with `sstatus.SIE` clear, from
`trap_entry` to `sret`, so two handlers never interleave and a handler is
atomic with respect to all other software.  What does interleave is user
processes, at the boundaries of handlers, in an order that the scheduler, the
timer and the programs decide.  The kernel keeps no kernel context: a handler
that calls `schedule` and is switched away never continues, its process resumes
in user mode from its trapframe.  `waitpid` therefore blocks by moving its
saved program counter back to the `ecall` and running again.  A user pointer
that faults inside a handler takes a nested trap which ends in `proc_exit(-2)`,
so a handler can stop in the middle, with what it had stored so far.

What is hard here, and hence what the properties are about:

* the bookkeeping shared by six paths that change PCB states, the current
  pointer and the scan index; a mistake shows up only several switches later;
* `waitpid`'s retry racing deaths, kills, signals and slot reuse;
* one PCB word that is both a sleep countdown and a set of pending signals;
* code that must not be reached: the instructions after a `schedule` that found
  nothing to run;
* starvation, lost wake-ups, and the path that hands the processor back to
  `kmain`;
* ring buffers whose offsets move in different calls, reuse of pipe slots and
  calls cut short by a fault;
* file system calls that change bitmap, inode and directory one after the other
  and stop half way on a full disk or at a fault; blocks and inodes that are
  reused at once; an inode buffer that every call shares;
* below the kernel: handlers of two privilege levels that interrupt each other,
  TLB entries against page-table changes, timer registers in two halves;
* in the page: a loop that pauses, reboots and exceptions can double or lose,
  keys against clears of the FIFO, output under a user who reads the history,
  DMA that throws in the middle, clipping against registers that change;
* before boot: addresses split over two instructions, two computations of where
  a section is, and an image whose bitmap, count and inodes are kept by hand for
  a kernel that trusts them;
* for parts not yet modelled: the block buffer at the indirect block; frames
  whose allocation is never undone when a later step fails; open descriptors
  and working directories that outlive what they name; the line editor's idea
  of the screen.

`PROJECT.json` lists these as `hazards`, each at its line, with the properties
that watch it or the reason none does yet.

## Modules

    Proc  <- MCProc (TLC instances), ProcProofs (theorems)
    Channel  (what pipes promise)
    Pipe, which instances Channel  <- MCPipe, PipeProofs
    Tree  (what the file system promises)
    BrFS, which instances Tree  <- MCBrFS, BrFSProofs
    Hart  <- MCHart, HartProofs
    Loops  (counted loops of the code)  <- LoopTheorems
    Terminal, Devices, which use Loops  <- Console  <- MCConsole, ConsoleProofs
    Devices  <- DeviceProofs  <- ConsoleProofs
    Asm, Mkfs  <- Build, which instances BrFS on the image  <- MCBuild, BuildProofs

### Proc: processes, scheduler, signals, waitpid

| variable | code |
|---|---|
| `proc_table[s]` | PCB `s`: `state`, `pid`, `ppid`, `exitcode`, and `word` = `PCB_SLEEPTICKS`, a pair of the low half (`ticks`) and the set bits of the high half (`sigs`) |
| `tf[s]` | the one thing about a trapframe that matters here: whether the resumed process first repeats a `waitpid` ecall, and with which argument |
| `current_proc`, `sched_current_idx`, `next_pid`, `kmain_saved_sp` | the kernel's variables (pointers as slot numbers, the saved stack pointer as a flag) |
| `cpu` | where the hart is: booting, in user code, back in `kmain`, halted by a program, stopped by an undelegated trap, or `wedged`: going on after a `schedule` that was not meant to return |

One action is one handler with everything it calls: the system call, `schedule`
and `context_switch` where the code calls them, and `sig_check_deliver` on the
way out (`TrapReturn`), which may itself end in `proc_exit`.  `Switch`,
`ResumeKmain` and `ScheduleReturns` are the three ways out of `schedule`.
`KmainBoot` stands for the start of the shell; the kernel's self-test before it
leaves its two processes as zombies, which `Init` has.  `SysOther` is any call
that touches none of this state.

Bounds: `MaxPid` bounds the pids handed out (fork stops being enabled beyond
it; the code's counter is unbounded), `MaxTicks` is the largest low half of the
word (65535 in the code).  All else is a parameter with the code's value in a
comment.

### Channel and Pipe

`Pipe` has the code's `pipe_table` and `pipe_buffers`, and `reply`, what the
last call returned and copied out.  Its four actions are the system calls; a
copy loop that faults after `k` bytes leaves those bytes in the buffer and the
offsets as they were (`PipeWriteFaults`, `PipeReadFaults`, `Killed`).  Two
descriptors beyond the table are included.  `Channel` is the abstract promise:
queues, two flags, an answer to every call.  `ChanBar` is the refinement
mapping: a taken slot is the `count` bytes from `tail` on, a free one is dead,
whatever stale offsets or flags it still holds.

### Tree and BrFS: the file system

| variable | code |
|---|---|
| `bitmap`, `inodes`, `blocks` | what is on disk: block 1, blocks 2 to 5, the data blocks |
| `fs_free_blocks` | the kernel's count |
| `fs_inode_buf` | the one inode buffer: what it holds matters to `WriteNothing`, where it lies to `CreateAcross` |
| `ret` | how the last call ended: 0, -1, or -2 if its process was killed in the middle |
| `damaged` | history: a call has stored over what is not its caller's |

The unit of offsets and sizes is 32 bytes, the size of a directory entry, so
that a block holds `UnitsPerBlock` entries or pieces of text.  One action is one
call of `fs.s` with all it calls (`Create` includes `fs_alloc_inode`,
`fs_dir_add` and the rollback; `Unlink` includes `fs_dir_empty` and
`fs_free_inode_blocks`).  Its disjuncts are the ways it ends: done, refused, full
disk, killed.  `WriteFaults` is a write whose source faults while a block is
filled.  Blocks are handed out lowest first (`Allocations`), zeroed when
`fs_bmap` takes them.  The parent that a path leads to is `Named`: an inode with
an entry in a directory, since `fs_resolve` walks directories only.

A file need not end at a unit: sizes are rounded up, and whether the last unit of
a file is full is left open.  So a create under a regular file (`fs_dir_add`
takes any parent) has two cases.  Where the entry fits the block, it is appended
to the text.  Where the file ends in the last 31 bytes of a block, the entry runs
over the end of `fs_block_buf` into `fs_inode_buf`, which is then stored as the
parent's inode: `CreateAcross`, with `Tails` the words that fall there.

That is one of three kinds of call (`Damages`) which store over what the kernel
keeps itself.  The others are a write of nothing while the buffer holds another
inode, and a write through a descriptor of what is no regular file (`open` looks
at no type), or no longer one.  They are actions like all calls and set
`damaged`; what a disk does after one of them depends on bytes the model does
not have, so it is followed no further, and the properties speak of disks that
are not damaged.  `brfs_empty_write` shows the first at work.

Boundaries of the model, each named in the module: sizes stay below `MaxSize`
(no indirect block), names have at most 27 bytes, counts of a write are not
negative, nobody creates anything in a working directory that has been removed,
and the disk at start is the one `mkfs.js` makes of no files.

`Tree` is the promise: kinds, sizes, texts and names, no blocks, no order of
entries.  Its weaknesses are the code's: entries appended to a regular file,
inodes without a name and half-stored text after a call that died.

### Hart: the processor and the CLINT

| variable | code |
|---|---|
| `pc`, `priv`, `mstatus`, `satp`, `halted` | the fields and CSRs of `Cpu`; an `mstatus` is a record of its bits |
| `csr` | the other CSRs that steer control; `mie`, `mip`, `medeleg`, `mideleg` as sets of numbers |
| `tlb` | per page number nothing or one entry |
| `ram` | RAM as page table entries, the only words whose value matters |
| `user` | the CSRs of user level |
| `clint` | `msip` and the halves of `mtime` and `mtimecmp` |
| `guest` | the program: instructions, boot CSRs, tables |
| `stale`, `ctx` | history: pages whose walk has changed since a fence, contexts that open traps have saved |

A step of `step()` is one action: it ticks the CLINT, then takes the interrupt
`PendingInterrupt` selects (`TakeInterrupt`), or fails to fetch (`FetchFaults`),
or executes (`Execute`).  `IsInst` says what an instruction may carry: operands of
their type, and a privilege that exists where `mstatus` is written (the code
would keep the reserved value 2).  An instruction carries the operand it would read from
a register, so that arithmetic is left out and every order of instructions is a
behaviour.  `Translate` answers from the TLB where it hits and from `Walk`
otherwise, `Filled` is the TLB afterwards.  A bus error is a JavaScript
exception that leaves the step half done (`BusError`): a fetch, a load or store,
or a walk through a table, outside RAM.  A physical address keeps 32 bits: of a frame
number in a PTE the low 20 bits count (`Frame`).  `CsrLevel` has the three levels
of `csrLevel`; `user` holds the CSRs of the lowest, which U code may write: the
floating-point ones and `cycle` and `instret`, of which only what was last
written is kept, not that they count.  Left out: sub-word accesses, `tval`, the
scratch CSRs of S and M.

`stale` makes `TranslationIsWalk` a statement about software that fences: a
store to a table disturbs the pages whose walk it changes; `sfence.vma`,
`satp`, `mstatus` and `sstatus` writes settle those they cover, as the
privileged architecture has it.  `ctx` makes `ContextSafe` one about handlers:
an exception inside a handler replaces what was saved (as in any RISC-V), a
write of the CSR that holds the context disowns it, an interrupt must not touch
it.

### Terminal, Devices and Console: the page

`Terminal` and `Devices` are operators on one record each, `t` for a `Terminal`
(cells, history, offset, cursor, escape parser, colours) and `m` for RAM, UART,
block device and GPU.  `Console` is the state machine around them:

| variable | code |
|---|---|
| `running`, `animFrameId` | the fields of the application |
| `pending` | the frames the browser has been asked for |
| `inBatch`, `left` | whether `_loop` is on the stack, and the steps left in its batch |
| `m`, `term` | machine and terminal; a reboot makes a new machine and clears the terminal |
| `sending` | the rest of the text the guest is printing, a character a step |
| `crashed`, `typed`, `got`, `outs`, `keys`, `boots` | history, and how much of the scenario is used up |

JavaScript runs a callback to its end, so host events (`Pause`, `Resume`,
`Reset`, `KeyDown`, `CommandButton`, `WheelTurn`, `Frame`) are taken between
batches only; inside a batch the guest makes its accesses one by one.  An access
that throws ends the batch without asking for a frame (`After`).  A block
command is carried out word by word inside the store that starts it
(`Transfer`), a command buffer command by command (`Submit`, `Command`).  Words
that a transfer puts into a device window go nowhere and those it takes from
there are 0: what the registers would do with them is left out.  A store to FCR
clears the FIFO if its bit 1 is set (`Clears`).
The counted loops of the code (a sector's words, the rows and pixels of a
picture, the commands of a buffer, the codes of a colour sequence) are `Loop`,
a recursive function of the number of passes.
A printable character is any member of `Chars` the parser has no case for; a picture of a
compute kernel is one colour, `Art`.

`clear` resets neither the parser nor the colours, so a machine that reboots in
the middle of an escape sequence loses its first characters; the label of the
pause button is not updated by a reboot.  Neither contradicts anything the
repository says, the model follows them (`Clear`) or leaves them out (labels).

### Asm, Mkfs and Build: from source to a mounted image

`Asm` are operators on the variables `a` of one call of `assemble`: sections as
rows of pieces (what one directive or instruction emits), symbols, sizes.  An
expression is a symbol plus a number; `Eval` gives what JavaScript computes,
with the `undefined` of a label that has no value in pass 1 and its conversion
to 0 where it is added to.  `.byte` and `.word` evaluate token by token, so that a
sum or a signed number is an error there (`OneToken`).  Encoders return the bit fields of an immediate, the
decoders of `cpu.js` put them together again (`BImm`, `JImm`, ...), both at
their real widths.  `BuildElf`, `ReadElf` and `LoadSegments` take the pieces to
memory.  `Mkfs` are operators on a `BrfsBuilder`; `Build` runs them: one action
is one line of source, pass 2, the loader, or one file of the image.  The first
file of an image is the program just built, as `bundle.js` does.

`ImageSound` instances `BrFS` on the finished image and asks for the kernel's
own invariants there: the initial state of `BrFS` is not the only image the
kernel mounts.

## Runs

| run | instance | checks |
|---|---|---|
| `proc_safety` | 5 slots (two of them boot zombies), pids to 5, one fatal, one lost (17) and one rejected (32) signal, plain and negative sleeps, all faults, timer | `TypeOK`, `CurrentIsRunning`, `NeverWedged`, `UniquePids`, `WaiterHasChild`, `KmainOnlyWhenIdle`, `ZombieReapedByParent`, `OrphanStaysForever` |
| `proc_fair` | 5 slots, kill, a sleep whose countdown borrows from the signal bits, timer, fairness | `NoStarvation`, `SleeperWakes`, `WaiterReturns` |
| `proc_no_timer` | 4 slots, `TimerFires = FALSE` | `NoStarvation` is violated |
| `proc_idle` | 4 slots | `KmainOnlyWhenComplete` is violated |
| `proc_sleep_word` | 4 slots, a negative sleep | `NoSpuriousKill` is violated |
| `pipe_channels` | 2 pipes of 2 bytes, writes of 0, 1 and 3 bytes, reads of -1, 1 and 3, faulting pointers | `TypeOK`, `RingConsistent`, `TakenWhileOpen`, `ImplementsChannels` |
| `pipe_closed_end` | the same | `ClosedEndTakesNothing` is violated |
| `brfs_tree` | 3 inodes, 3 blocks of 3 units, 2 direct pointers, 2 names, writes of 0 and 2 units at 2 and 4, tails of four zeros and of four other words | `TypeOK`, `BlocksHaveOneOwner`, `FreeCountMatchesBitmap`, `DirectoriesHoldEntries`, `EntriesNameOnce`, `OnlyFaultsLeak`, `OnlyFaultsOrphan`, `ImplementsTree` |
| `brfs_empty_write` | the same | `WriteUpdatesSizeOnly` is violated |
| `hart` | four guests; 2 entries to a table, 3 frames, timer halves of 4 values, 6 steps | `TypeOK`, `TranslationIsWalk`, `ContextSafe`, `NoEscalation`, `TimerPreempts`, `UserConfined` |
| `console` | seven scenarios; 3 rows of 5 cells, 2 rows of history, batches of 2 steps, 16 words of RAM, 2 sectors of 2 words, 9 pixels | `TypeOK`, `OneLoop`, `KeysInOrder`, `CursorOnItsRow`, `GpuPaints`, `ViewStays`, `TransferWhole` |
| `build` | seven groups of lines, programs of up to six; images of up to four files on six blocks of 5 units, 2 pointers | `TypeOK`, `ProgramMeansSource`, `SegmentHoldsSections`, `ImageSound` |

Why the bounds are enough.  Three live processes beside the two boot zombies
give parent, child, and a stranger or grandchild, slot reuse, pid scans that
pass over dead slots, a full table, and orphans; the fairness run needs a third
process that competes.  One tick tells a countdown that expires from one that
borrows.  Two-byte rings make every wrap, full and empty case occur within a
few calls, two pipes make slot reuse and stale descriptors meet.  The proofs
below remove the bounds for all safety properties of `Proc` and `Pipe`, and for
the state invariants of `BrFS`, for `hart`, `console` and `build`.

In `brfs_tree` a block has room for one entry beyond `.` and `..`, so the second
entry of a directory needs a second block: directories grow, an unlink moves an
entry across blocks, and the block a directory shrank out of is still its own.
A write at 2 crosses from one block into the next, one at 4 leaves a hole.
Three blocks, one of them the root's, are fewer than the callers want: the disk
fills in the middle of writes, of directory growth and of the making of a
directory; the three inodes run out as well, and both are reused.  Two names
and one value do because names are only compared, and text of one file is told
from another's by `Zero`, `Hole` and where it lies.

`hart`.  Each guest concentrates on one thing, since its instructions occur in
every order.  `delegating` has calls, illegal instructions and a supervisor
interrupt delegated beside a machine one: S handlers interrupted by M handlers
and returns in every order.  `timed` moves the deadline in both halves around
`mtime`, whose low half wraps; `unhandled` traps to a level without a handler
and halts.  `paging` starts with a code page, the leaf table mapped into itself,
a free page and a data page, and rewrites tables (superpages, aligned and not,
frames and tables outside RAM, missing U, W, D) with and without fences, under two address
spaces.  Two entries to a table give four pages: enough to tell the two levels,
the page, the neighbour and the superpage apart.  Some frame numbers of its PTEs
lie beyond 32-bit addresses and come back to RAM, some to nothing.  User code of
`delegating` writes `fcsr` and tries a counter under its machine name.  The step bound is `run`'s
limit.

`console`.  Nine characters fill the screen, scroll, and push the oldest row out
of a full history while the user scrolls; escape sequences are cut between any
two guest steps.  Three keys and two reboots meet pauses, halts, exceptions and
FIFO clears in every order.  Sectors 0 to 2 of 2 and DMA at 0, at the last word
of RAM and at a device window give complete, torn and refused transfers.  The
framebuffer is 2 by 2 at start and takes sizes with no pixels, with some and
with more than the host can allocate; command lists clip at all four sides.

`build`.  Fillers of 4090 bytes and of 2^20 - 8 bring branches and jumps to
their limits and beyond; fillers of 2044 bring the halves of addresses to both
signs, for code, data and .bss; `numbers` holds the edges of 12, 20 and 32 bits.
`ProgramMeansSource` is for .text of whole words (the assembler aligns nothing
by itself) and leaves out values that pass 1 computes from a label, which the
code makes 0 (`Early`).  `SegmentHoldsSections` says exactly by how much the
segment misses the end of .bss when .text or .data are not whole words.
`ImageSound` is for files within their pointers; a longer one is stored without
its end.

`CHECK_DEADLOCK FALSE` in the `Proc` runs: the machine really may stop (halt, an
undelegated trap, `kmain` resumed); in `hart`, `console` and `build` a halted
guest, a used-up scenario or a finished image ends a behaviour.  `Pipe` and `BrFS` never deadlock and are checked for it.

Fairness (`Proc!Fairness`).  `KmainBoot` and `Tick` are weakly fair: the
emulator's loop keeps stepping the hart, and a periodic timer that is pending is
taken as soon as user code runs.  The repeated `waitpid` (`Retry`) is strongly
fair: a process that is switched in with its program counter at the `ecall`
executes it in one of its time slices, since a slice is many instructions and
the `ecall` is the first one.  No other action of a program is fair: programs
may compute for ever.  That the timer fires at all is a constant, `TimerFires`,
because the shipped platform never raises the supervisor timer interrupt (see
findings); the fair run answers what the kernel does if it does.

## What is proved

All proofs are for arbitrary constants under `ConstantsAssumption` (at least
three slots, `MaxPid >= 3`, the rest only typed), `PipeAssumption`,
`BrFSAssumption` (a block holds at least three entries; a call starts below
`MaxSize`), `TailsAssumption` (one to eight words run over the buffer), `ValueAssumption` (something can be written, and the mark of a hole
is nothing a block holds), `HartAssumption` (the run ends before `mtime` does, which in the code
has 64 bits), `GuestsAssumption` (operands are typed), `TerminalAssumption`,
`DevicesAssumption` and `ConsoleAssumption` (no size is zero but that of the
history; the first framebuffer can be allocated), `CharsAssumption` (the blank is
a character), `ScenariosAssumption` (what a guest stores is typed, a list
of GPU commands fits above the pictures it reads; keyboards, lines and numbers of
events are arbitrary), and, for `build`, `MkfsAssumption`
(a block holds at least three entries; there is a data block, an inode and a
pointer), `BuildAssumption` (sizes are numbers) and `LinesAssumption` (a line is
one of those the assembler knows, its operands integers).

`ProcProofs`.  The inductive invariant `IInv` is the conjunction of the six
state invariants of `proc_safety` with `BeforeBoot` (what the table and the
variables are while `cpu = "boot"`).  They are proved together because none
stands alone: that `schedule` cannot return in `proc_exit` (`NeverWedged`) needs
`kmain_saved_sp`, which comes from `CurrentIsRunning`; that a waiter keeps a
child (`WaiterHasChild`) needs `UniquePids`, since only the parent's own reap
frees the child and pids are what identifies the parent.  All handlers share
the three ways out of `schedule` and `TrapReturn`; the lemmas say once what a
handler must leave behind for these (`Table`, `Same`) and what they then
preserve, and each action is one step that shows its table to be of that kind.
From `Invariance` follow `TypeCorrect`, `SchedulerConsistent`, `NoWedge`,
`PidsUnique`, `WaitersKeepChildren`, `KmainWaitsForIdle`, and, with the same
invariant, the action properties `ZombiesAreReapedByParents` and `OrphansStay`.

`PipeProofs`.  Lemmas on `Wrap`, `Put` and `Take` say what a run of the ring
contains after bytes are stored behind it or taken from its front; `Inv` is
`TypeOK /\ RingConsistent /\ TakenWhileOpen`, which is inductive.
`PipesImplementChannels` maps every step of `Pipe` to a step of `Channel`: a
call that faults in the middle of a write leaves the abstract queue alone
because the bytes it stored lie outside the `count` bytes from `tail`.

`BrFSProofs`.  The theorems are about every call, those that damage a disk
included, and promise what the properties say: until one does.  Each of these
calls takes the step to `damaged`, after which nothing is left to show; each of
the others is shown to keep, or to do, what is promised.  `IInv` is the conjunction of the five state
invariants of `brfs_tree` with `FilesHaveBlocks` (a regular file has no failed
block, so truncating it frees real blocks) and `RootIsADirectory` (it stays one,
and its `..` is itself).  None stands alone.  A directory keeps its entries when
another call stores something because the block stored into is free or that
call's own (`BlocksHaveOneOwner`; the lemmas `KeepsOthers` and
`KeptDirectories`).  `fs_unlink` seeks the entry by inode, not by name; that it
finds the entry it looked up, and not `.` or `..`, is `UnlinkFinds`: `.` is the
parent, which the child is not, and `..` is the directory that names the parent
(`EntriesNameOnce`), which cannot be the child since the child is empty.  What
it then frees nobody else names.  A new directory that got no block is why
`DirectoriesHoldEntries` has a second case: such a directory never takes an
entry (`GrowingIsWhole`), so every entry there is lies in a whole one.  Each
call is one lemma (`ReadStep` to `UnlinkStep`), the successful create and unlink
apart (`CreateSucceeds`, `UnlinkSucceeds`), and so is the create that fails
(`CreateFailsStep`), whatever its parent.

The same lemmas say what a call leaves behind: `Unchanged`, `Writes` and
`WriteEnds`, `Created`, `Unlinked`, and `Keeps` of every inode it is not about.
From these alone follow, for each call (`UnchangedKeeps` to `UnlinkKeeps`), the
two action properties and the step of `Tree` it is.  `BrFS` maps to `Tree` by
what a caller can see: the type of each inode (`Kinds`), the size of a file
(`Sizes`), what is stored at each of its places, or a hole (`Texts`), and the
pairs of a directory beyond its dots (`NameSets`).  A call that writes maps to
`Tree!Write` up to the place where the disk was full; that its new blocks show
zeros and nothing of their former owner is `WrittenBlocks`, which needs that no
two pointers are the same block.  A write cut short leaves its inode unwritten,
so only what it stored over blocks the file already had can be seen.  Unlink maps
to `Tree!Unlink` because what it removes is empty (`EmptyNamesNothing`) and the
moved entry is still there (`UnlinkedNames`).  That no block is lost when an inode is taken into use needs
one more invariant, that an inode not in use has no blocks (`FreeInodesBlank`).

`HartProofs` proves the six properties of `hart` for every guest: any number of
entries, frames and timer values, any instructions in any order.  `TypeOK` is
inductive.  `TranslationIsWalk` follows from `TlbAgrees`: an entry of the current
address space (or a global one) whose page is not stale is the leaf the walk
finds now.  `FilledAgrees` says that a fill keeps this, `FenceAgrees` that
`sfence.vma` may take pages out of `stale` because `FlushTlb` has dropped exactly
the entries that could disagree, `Mixed` that a page translated in a step that
also stores keeps its entry.  `ContextSafe` needs `HandlersHold`: while a context
of M is open the hart is in M with interrupts off, and while one of S is open it
is not in U and its interrupts are off, since only then can no interrupt of the
same level come between; M contexts opened from S return to it.  `NoEscalation`
is a case split of every instruction into "the privilege does not rise" and "it
traps" (`StepTraps`); `TimerPreempts` rests on the arithmetic of the two halves
(`Halves`, `TickAddsOne`) and on the priority of MTI among what can be pending
when it alone is enabled; `UserConfined` on `StoreGranted`.

`ConsoleProofs` proves the seven properties of `console`, for any screen, history,
memory, disk, framebuffer, guest and user.  `IInv` has two
halves.  `LoopInv` is `OneLoop` with what it needs: inside a batch no exception
has happened, since the one that happens ends the batch.  `DataInv` is the types
of machine and terminal with `KeysInOrder`.  That the type of the machine is
kept is the work of `DeviceProofs`: all that a guest's access does to what other
parts rely on is said by `Alike` (the FIFO, the transfer in progress and the size
of the framebuffer stay), one lemma per operation, so that drawing, blitting,
presenting and command buffers are runs of steps that leave the machine alike.
`ViewStays` splits by what a character does to the history (`HistoryStays`): a
row leaves the screen while the history has room, and the view moves along; it
is full, and the view either moves along or starts at the row that is dropped;
or nothing moves.  `CommandsAreWhole` is an induction over the words of the
sector (`ReadWhole`, `WriteWhole`): after `k` words the first `k` have moved and
no other, provided none threw, which needs that the words of a sector are
different words of the disk (`SectorWord`) and that the window lies in RAM.
`CommandsPaint` (`GpuPaints`) is three inductions.  Over the pixels of a picture
(`BlitPaints`): after `k` of them those before the `k`-th are drawn and no other,
because column and line of a pixel and its number determine one another
(`PixelCell`, `CellPixel`), on the screen as in the picture.  Over the commands of
a list (`SubmitCommands`): the loop stands at the word where the next command
begins (`CommandAt`, from what `FlattenSeq` makes of a list), and what remains of
its passes does nothing.  And over the same commands as the guest means them, whose
colours are those of the first induction.

The induction over natural numbers that loops need is `LoopTheorems`: `Least`
and `Induct` speak of sets of numbers instead of properties, `RunsExist` of
steps that are functions on a set, since no prover here can instantiate an
operator.  A loop is used through the sequence of its states (`Runs`).

`BuildProofs` proves the four invariants of `build`, for any source and any
files.

* Numbers.  `Built`, the inductive invariant behind the first two theorems, says
  that the pieces of a section lie in a row without gaps, that its size is the
  end of the last one and a label the end of a piece before it, and that the
  image builder has counted inodes and blocks as far as it has come (`Counted`).
  `FileHolds` and `MemoryHolds` take the pieces through the ELF file to memory;
  `PiecesApart` and the two paddings give `SegmentIsWhole`.
* Meaning.  Each encoder is undone by the decoder of `cpu.js` for every number in
  its range (`CodeI`, `CodeS`, `CodeB`, `CodeJ`), and the two halves of `la`,
  `li` or `call` with the carry between them make the number or the address for
  every integer (`PairMakesWord`, `PairMakesAddress`).  `ProgramIsSource` also
  needs the invariant `Meant`: an `li` that pass 1 made one instruction still has
  in pass 2 the value it had then, and the halves of a pair stay neighbours that
  share one expression.
* Image.  The image is finished by one step at the end, so the invariant `Filled`
  says of the builder while it works, and of the one an image was made from,
  that it is `Formatted`: the inode of each file has the size of the file
  (`Described`), points to as many blocks as it needs, which hold its text
  (`PointsTo`) and are no other pointer's (`Apart`), the blocks below
  `nextFreeBlock` are all somebody's (`Covering`), and the directory lists the
  files in their order (`Rooted`).  `MountedIs` says what the kernel finds when it
  mounts such an image; each conjunct of `ImageSound` is then a lemma of its own
  (`ImageTyped` to `ImageTexts`), so that `ImageIsFileSystem` also shows that the
  state invariants of `BrFS` can be met from outside of `BrFS`.

Every safety invariant and action property of the passing runs is a theorem.
Only model-checked: the liveness properties, and that the violations exist.
`hart`, `console` and `build` have no liveness
properties: a guest may stop at any time, and no fairness of the browser's
frames is promised anywhere.

## Findings

* `proc_no_timer`: README.md:14 and README.md:116 promise preemption by the
  CLINT timer; nothing ever raises the interrupt `scheduler_tick` waits for.
* `proc_idle`: "Check if kmain is waiting for all processes to complete"
  (sched.s:101) also fires when processes are merely asleep; the machine then
  reports success and halts.
* `proc_sleep_word`: a sleep argument whose high half has bit 2, 9 or 15 set is
  taken for a pending fatal signal.
* `pipe_closed_end`: `pipe_write` never looks at `write_open`.
* `brfs_empty_write`: `fs_write` of no bytes skips `fs_read_inode` (fs.s:1156)
  and stores whatever inode the shared buffer holds over the file's.

Two more the models contain, but no run singles out:

* `fs_dir_add` takes a regular file for a parent; one of 4080 bytes makes the
  entry run from `fs_block_buf` into `fs_inode_buf` (fs.s:889), and the file's
  type, size and first block are replaced by what was in the name
  (`CreateAcross`).  No property of `BrFS` survives that call.
* `sig_send` accepts signals 16 to 31, `SIGCHLD` among them, and shifts their bit
  out of the word (signal.s:25): `kill` returns 0, wakes a sleeper, and nothing is
  pending (`SignalPending`, `SigBit`).

## What is not modelled, and the plan

In this order:

1. `FileMap`: one file's pointers through the indirect block, with the block
   buffer that the bitmap overwrites there, and the format path of `fs_init`.
2. `OpenFiles`: descriptors and working directories of several processes over
   an abstract file system and `Channel`: inheritance at fork, reuse of slots,
   unlink of what is open.
3. `Frames`: frame bitmap, fork and exec as sequences of allocations that can
   fail; no frame in two address spaces, nothing RUNNABLE without memory.
   Theorem: frames have one owner.
4. `readline` on top of `Console`: what the screen shows against the line
   buffer.

Left out for good: the arithmetic of RV32IM and the pixels of the two compute
kernels (pure functions of their inputs, the former covered by the repository's
compliance tests), lexing and the operators of assembler expressions, opcodes,
the HTML the bundler writes, `validate.js` (it runs binaries under a `tohost`
convention of its own), the page's styling and telemetry.
