# Verification of the Glyph ISA

TLA+ models of the Glyph machine and of the kernels that run on it (`tools/`),
checked with TLC and, where it matters most, proved with TLAPS. Paths below are
relative to the repository; `glyph_isa_v2.py` is in `tools/`, every other source
named here in `tools/glyph_gpt/`.

## The system

A Glyph program is an image: four pixels hold one instruction, and the pixels
are also data. The parts, the state each keeps and what makes each correct:

| Part | State | Operations | Hard behaviour | Correct when |
|---|---|---|---|---|
| CPU (`GlyphCPUv2`) | pc, mode, registers, word RAM with an MMIO block, image, running and faulted flags, one register snapshot | `step`, `run`, host syscalls | a timer tick between any two steps; faults in mid-instruction; paging from a table that lives in RAM and pixels | a USER task writes only what the kernel granted, leaves USER mode only through a trap, and resumes exactly |
| Preemptive kernels (GH-16, GH-17) | one slot of saved context, a flag, exit words | tick, switch, resume | where the tick falls; registers the handler does not save | both tasks end, and with their own results |
| Syscall ABI kernel (GH-18; GH-21 POSIX, GH-23 libc) | the syscall table in pixels, SYS words, exit and result words | trap, select, dispatch, tile, resume | numbers that alias, tiles relocated for another image, slots that come and go between runs | a call is one atomic step; unknown numbers are marked |
| File-system and ticket kernels (GH-8, GH-14) | file table, data and receipts in pixels; mailbox in RAM | create, read, delete, seed, send, receive | a drive that is cut anywhere; two sessions | what was stored is read back; receipts cross sessions |
| File system v2 (GH-20) | file table in pixels, table and tile rect | append, rename, unlink as admitted tiles | every drive changes the table, the oracle never sees that | recipes verify and keep their promise |
| Loader and ingest (GH-9, `autoatlas.ingest`) | patch window, mailbox, atlas | draft, register, inject, drive, unregister, redraft | a tile that diverges, hangs or raises on the die | an admitted tile is served, a diverged one is not registered |
| Driver microkernel (GH-22) | boxes of app and driver, mailbox, device registers | request, check, transfer, reply | corrupted requests, a faulting driver | the device sees only intact requests, in order |
| Admission (`emit_admit`, `admit_syscall`) | table, tile rect, receipts | gates, stamp, verify, roll back | a verification that diverges, faults, hangs or raises after the stamp | only code that passed the oracle is in the image; receipts are true |
| Escalation (`escalate.py`) | attempt counter, feedback | draft, check, retry | a model's malformed candidates | gives up in bounded time, returns only a passing candidate |
| Oracle (`oracle.py`), runner (`runner.py`) | a CPU and an image | run to stop, compare; drive | a stop that is not a halt; only pixels survive a drive | passes only clean halts |
| IR and verifier, assembler, opcode map, Hilbert curve, RV64I decoder and transpiler, DSL, glyphc, ASCII bridge, WGSL twin | none, or pure | translation | bit-level boundaries | round trips |

Components meet in three places. A task and its kernel share the CPU's MMIO
words and its trap rules. The host and the kernels share the image: an
admission writes a table word and the tile rect and the dispatcher jumps where
the table word says; an injection writes the mailbox and the loader writes the
window. The escalation loop and the admission gates share the oracle, which is a
CPU of its own driven by a loop of its own, and which sees neither the image nor
what earlier drives did to it.

`PROJECT.json` lists every component, also those not modelled, and the hazards
at their lines.

## Modules

| Module | Models |
|---|---|
| `GlyphCPU` | `GlyphCPUv2.step` and the loops that call it |
| `TrapContract` | `GlyphCPU` with history, and what a task may rely on |
| `Preempt` | the GH-16 kernel (plain, context-saving, faulting) and GH-17's context switch |
| `SyscallAbi` | the GH-18 kernel in eight modes, with the tiles of `posix_shim.py` and `libc_runtime.py` |
| `SyscallService` | abstract: a call is one step; `SyscallAbi` implements it |
| `PixelFs` | the GH-8 and GH-14 kernels over drives that may be cut |
| `FsAdmission` | admission and drives of GH-20's file-system tiles |
| `Loader` | the GH-9 kernel over the drives of one image |
| `Ingest` | `autoatlas.ingest`, composed with `Loader` |
| `DriverAbi` | the GH-22 image |
| `Admission` | `emit_admit`, `admit_syscall`, `escalate`, the oracle's decision, `_admit_verified_tile` |
| `MC...` | instances for TLC |
| `GlyphCPU_proofs` | theorems about `GlyphCPU` and `TrapContract` |
| `Preempt_proofs`, `SyscallAbi_proofs`, `FsAdmission_proofs`, `Admission_proofs`, `Ingest_proofs`, `DriverAbi_proofs`, `PixelFs_proofs` | theorems about the module they are named for |

### GlyphCPU

One action is one call of `step()` for one opcode; it includes the timer and the
commit of the pc that end every step (`Retire`). Choices of representation:

- A position (row, x) is its row-major pixel number. The fall-through with its
  wrap is then an addition, and a packed `(row << 16) | col` word, a cell
  number; `Target` and `PackCell` convert. RET uses the pixel number as it is,
  because PUSH and CALL store x and not a column: the code has both packings.
- Words are `0 .. MaxWord`; `Mask` is `& 0xFFFFFFFF`. PUSH, POP and the SIMD
  instructions do not mask their registers, and neither does the model.
- A text cell may hold several instructions: a run covers every combination.
  Program pixels and data pixels are kept apart.
- AND to ROTR are the constant operator `BitOp`; the proofs hold for any.
  `Bitwise`, `ParallelLanes` and `ParallelReduceSum` carry their result's type
  as a conjunct, which is always true; no finite evaluation of an assumption
  could state it, and the recursion's type is out of the prover's reach.
- `StackFloor` is the one bound in a guard: PUSH and CALL keep r31 above it.
  `HilbFrame` is the Hilbert curve as a table.
- `Driver` selects the loop: `run()` loops on `running`; the oracle loops on the
  value `step()` returned, and so can step a machine that is not running.
- Left out: register numbers past r31 (an IndexError of Python), the text PRT
  and PRINT collect, and the contents of host files.

### TrapContract

Adds two history variables: `left`, the registers and where the task must go on
when it last left USER mode by a call or a tick; and `ran`, its steps since
the last tick. After a call that is the next cell. After a tick it is `Sequel`, the
places where an instruction of the cell goes on (`SequelOf`): the target of a JMP, a
CALL or a RET and never the cell behind it, for a JZ the one its flag selects. A cell
with one instruction has one; a cell that stands for several has one for each. The kernel of `MCTrapContract` follows GH-16's protocol: a tick
handler that re-arms the mode latch and returns with KJMP, a dispatcher that
writes SYS_A0 and returns with SYSRET. `ran` counts the steps that the CPU
completed (`Retired`); a step that stops the machine or leaves it without an
instruction is none. `KeepsTimer` is what the CPU's promise to the task asks of
its kernel: to arm the timer before it enters a task, to leave the timer's words
alone until the next tick, and to grant them to nobody. `KeepsContext` is the same
for `ResumesExactly`: the kernel answers a call by SYSRET and a tick by a KJMP to
TICK_PC, until then does not trap itself, leaves both resume words alone and
works on a tick in its scratch registers; the task executes no SYSRET or KJMP,
leaves the vectors (which differ) alone and goes on only at cells a word can name,
for TICK_PC and SYSCALL_PC hold a cell and not a pixel. The run checks the two as one,
`KeepsContract`.

### Preempt

The text that runs in USER mode is one step per instruction, for a tick may fall
between any two; the text that runs in SUPER mode is one action per handler, for
the timer does not count there. `mem` holds the words that the kernel and the
tasks share; a word is a pair of halves, as the tasks build them with SHL and
ADD. `torn` is a history variable: a tick fell where a register that the handler
does not save (`r14`, `r15`, and before the switch also what task B loads) was
still needed. It is computed from the text (`Needed`, `Clobbered`), not assumed.

### SyscallAbi and SyscallService

One action per block of the dispatcher (`ksys`, the slices, the table test, the
load, the tile, the refusal, `ksys_done`, SYSRET), the tasks call by call, the
host's admissions and roll backs between runs. The dispatcher's index keeps four
bits of `n - 6`, as the code does, so far numbers alias a slot. `Admitting` tells
the modes in which task A reads the slot before it calls. `SyscallService` is
what a task is promised: an action `Call` that does in one step what the number
names. The mapping shows the service the words as they were at the trap
(`before`, a history variable) until the call has been answered.

### PixelFs

Words 1024 to 1049 are pixels and outlive the drive. The pixel stores of a block
are a list in program order of which each step makes one; everything else is RAM
and dies with the drive. `EndDrive` may end a drive anywhere. `boot` remembers what the
drive found.

### FsAdmission

The file table (`fstab`) is what drives leave on pixels; the oracle's plane is
the baked table (`admit_syscall`) or none (`emit_admit`). A drive probes the
three numbers that task A issues, in order; every lit number leads to the one
tile rect, so the last stamped tile runs once for each of them. The tiles are
the three recipes of the tile contract and three drafts that the contract allows
as well: one that reads the stored name, one that returns the new length, one
that gives up references. The gates before the oracle are in `Admission`.

### Loader and Ingest

`Loader` is the GH-9 kernel: mailbox test, the patch loop pixel by pixel (`left`
is r13, `done` how far r14 and r15 have moved), the jump into the window, the
end of the program there, the tail. A program is a model value with its pixel
words and its fate on the die. The machine is deterministic, so the fate is a
function of all that the program finds: its words, the argv that the host seeds,
and the leg that enters it. A load of the whole window leaves r0 = r1 = r4 = 1, and
the mailbox in RAM; the leg without a mailbox r0 = r1 = 0 and r4 = 9. A load of
only some words leaves yet other registers, after which anything may happen. A
program is taken to leave its window's pixels alone (a PARALLEL_ST or the stack
could change them; the words are those that the loader put there).
`PatchIsExact` says what the loop does, a count of 1 included, where it copies
nothing (`Copied`). `ServedOffline` has three parts: the window keeps the admitted
tile through every drive, whatever its argv; a drive without a mailbox does what the
tile does when *that* leg enters it; and of the admitted argv this is the admitted
result, for the tiles that end alike by both legs (`IgnoresEntry`, which the drafting
prompt asks for and nothing checks). For the other tiles the promise is broken (below). `Ingest` extends it: the call's steps are
interleaved with the kernel's, and other hosts may drive the same image between
calls, with or without a program of their own.

### DriverAbi

One action per block of app and driver, one per store into a device register,
one per copy the kernel makes. The device does not answer: the reply is the
driver's own statement about the request and the transfer.

### Admission

One action per gate or image write. `table`, `rect` and `proof` are the live
image (and what the last drive said of the rect); `stage`, `req` and `drafts`
the call in progress; `decision` and `note` its outcome. A tile is a model value
with four tables: the verifier's decision on it (`Ir`), whether its retargeted
text fits (`Home`), what the oracle's run leaves in r2 (`Oracle`), and what it
does in the image (`Die`). The oracle is deterministic and its machine fresh, so
its decision is a function of tile and argument; a drive boots a fresh CPU, so
its outcome is a function of the image (the tiles for which it is not are those
of `FsAdmission`). Code that reads a register which the oracle zeroes and the
kernel leaves dirty is a tile whose `Oracle` and `Die` differ. The image's baked
task issues the numbers of `Issued`: a slot that the task never calls verifies
as a drive that leaves the result word 0.

Left out: an `abi` that does not match the image, and images of another layout.
An exception of a drive reaches `_admit_verified_tile` as a receipt without
"memory"; the KeyError that follows ends the call with the slot lit, which is
`Verify`'s last disjunct.

## Runs

| Run | Expect | Distinct states | Shows |
|---|---|---|---|
| `machine` | pass | 17,276 | `UserConfined`, `TrapEntry`, `KernelUnpreempted` |
| `trap` | pass | 44,813 | `ResumesExactly`, `PreemptionBound`, `KernelReturns`, `KeepsContract` |
| `preempt` | pass | 17,962 | `SliceKeepsSlot`, `ContextSurvives`, `Finishes` |
| `syscall_abi` | pass | 7,062 | `ProbedNeverRefused`, `CallsAreAtomic` (refinement), `Answered` |
| `pixel_fs` | pass | 2,383 | `ReadsBack`, `DeleteFrees`, `NamedBeforeUse`, `Delivered`, `Contained` |
| `fs_admission` | pass | 55,184 | `AdmittedServes`, `RecipesVerify` |
| `ingest` | pass | 450,667 | `PatchIsExact`, `ServedOffline`, `DivergedUnregistered`, `CallEnds` |
| `driver` | pass | 370 | `OnlyIntactRequests`, `TransferOrder`, `ReplyTellsDevice` |
| `admission` | pass | 93,838 | `OracleGuardsImage`, `DivergedSlotDark`, `AdmissionPersists`, `AuditTrail`, `CallReturns` |
| `oracle_loop` | violation | | `StopIsFinal`: the oracle's loop steps a stopped machine |
| `shared_rect` | violation | | `BrokenTileNeverLive`: rollback leaves the shared rect |
| `vectors_lost` | violation | | `VectorsRequired`: a redraft skips the caller's extra proofs |

Every passing run but `trap` also checks its module's `TypeOK`.

Bounds and why they are enough:

- `machine`: 41 cells with three programs. *Bare* has 8 words of RAM and no MMIO
  block (host services, stores past the RAM, SIMD, every way to stop). *Box* has
  32 words, a kernel, a task with three ranges and a tile, and addresses at
  both sides of each edge, timer reloads of 2, 3 and 9. *Paging* has 4-word
  pages with each combination of flags, an entry that lives in the image only, a
  Hilbert frame, and a frame past the RAM that makes it grow. The word width is
  10 bits, so that a byte address can exceed it. Deadlock is not checked: a
  machine that stopped has no step.
- `trap`: 23 cells, reloads 1 to 4, a task of six cells, so that ticks fall before,
  after and between calls, loads and stores. JZ, CALL, JMP and RET have a cell each,
  where the place to go on after a tick is a single one and seldom the next cell. Deadlock as in `machine`.
- `preempt`: every leg, every quantum from 1 to 75, which is beyond the longest
  task; a larger one ticks as late. Deadlock is checked: the machine that
  stopped stutters by an explicit action.
- `syscall_abi`: eight modes, words of 12 bits (the smallest width that holds the
  addresses the kernel passes), eleven calls a C program may make (its shim's own,
  dark ones, aliases of lit slots, both ends of a word), three calls in a run,
  admissions into five slots. `MaxCalls` bounds only the C program; three calls
  let a call find what an earlier one left, and be the last.
- `pixel_fs`: all five images; blank, or with one file or pair of tickets kept
  from before; any number of drives, each cut anywhere.
- `fs_admission`: two numbers the task issues and one it does not, the task's
  arguments and others, all results a tile can give on a baked or empty table,
  and `MaxLen` 8: six appends, so that several drives of several lit numbers
  follow each other.
- `ingest`: a window of three words tells counts of 1, of all and in between
  apart; one program for each way to diverge, one that is right on one vector
  only, one that is right by the load leg only, one that is right and never halts,
  one too long, one the verifier rejects; the calls' argv and another; two attempts,
  two programs that other hosts load.
- `driver`: four legs, five requests (the baked one, one whose sum is 0, one
  whose sum wraps the byte, odd and even checksums).
- `admission`: eleven kinds of tile (one for each combination of decisions that
  the code treats differently), three slots of which the task issues one, one
  number outside the table, two arguments, three result words, two drafts.

Fairness. `FairSpec` of `GlyphCPU` and of `Preempt` is weak fairness of `Next`:
`run()` is a loop that calls `step()` until the machine stops (the budget
`max_instructions` is not modelled there, so liveness is about runs that are given
enough steps). `SyscallAbi` has weak fairness of the kernel's steps only: a task
that does not call need not, but the dispatcher's loop is the CPU's. `Admission`
and `Ingest` have weak fairness of the steps of a call, which is one Python
thread's run to its end, a model that always replies assumed; `Ingest` also of
the kernel that `drive` steps. None of them is fair to the start of a call, for
nobody has to call again. `PixelFs`, `FsAdmission` and `DriverAbi` state no
liveness and no fairness.

## Proofs

`GlyphCPU_proofs` proves, for every program, memory size, loader image and
driver, that `TypeOK` is inductive and from it `UserConfined`, `TrapEntry` and
`KernelUnpreempted`. `TypeOK` is more than types: `WholeRam` (the RAM is an
array from 0 that holds the MMIO block whole or not at all) and "USER implies
the block exists" are what every access of an MMIO word relies on. The proofs
go action by action; the facts about `Retire`, which ends every step, are
lemmas stated once. Assumed: sizes are naturals and positive where the code
divides by them, `Text` holds instructions, every loader image is a `WholeRam`.

For the trap contract it proves `TimerBoundsTask`: `TSpec /\ KeepsTimer` implies
`[]PreemptionBound`, for every program and every reload. The bound is a promise of
CPU and kernel together, so the theorem has a rely; without it the bound is
false, for a kernel may store any TIMER_COUNT and a granted word may be any word.
The run `trap` checks that its kernel meets the rely. The invariant is
arithmetic: in USER mode, and in the kernel once the task has taken a step since
the last tick, `ran + TIMER_COUNT <= TIMER_RELOAD` with a count of at least 1;
each completed step moves one from the count to `ran`, and the kernel's steps
change neither. `TaskResumesExactly` is `TSpec /\ KeepsContext => ResumesExactly`.
The rely says what a kernel does at each of its steps; that this adds up to an
exact return is the proof. Its invariant (`ContextInv`) says where the context is
while the kernel works: after a call in the snapshot and SYSCALL_PC, after a tick in
the registers and TICK_PC. What the proof shows of the CPU is that every
instruction of a task, a branch, a RET or a call through a register included, hands
the timer a place where the task may really go on (`TaskGoesOn`: a jump its target, and never the cell behind it), that no fault is
taken for a call or a tick, and that only SYSRET spends the snapshot
(`KernelStep`). The run `trap` checks that its kernel and task meet the rely.

`Preempt_proofs` proves `TypeOK`, `SliceKeepsSlot` and `ContextSurvives` for every
quantum and every leg. The tasks are texts of up to 41 instructions. For the first
two theorems the proof does not step through them: `Legs4` derives once, from how the texts are put together
(`Layout`), that each instruction is straight, a jump inside task A, or half of a
way out (`Way`), and that r15 is only ever loaded with a word that is not the
saved pc. From there each instruction is an instance of two lemmas (`Retiring`
for whatever is committed, `Assigning` for a register that is set) and each
handler one of `Entering` and `Settling`. The invariant `Inv` adds to the types where
the machine may be in SUPER mode, what a KJMP finds in r30 (its way out, or its
own place when a tick came in between, which is the one loop the kernel cannot
leave), that task B runs only after a context was saved, and `Kept`, the reason
for `SliceKeepsSlot`: on task B's way to its flag the count is the quantum less
the instructions of the way, so with a quantum of at least `Slice` a tick in task
B finds the flag set and goes to `TickResume`, which saves nothing. The
conjuncts of `Inv` were checked with TLC at all quanta up to 75 before they were
proved.

`ContextSurvives` is about values, so its invariant goes instruction by instruction.
`Sound` says, while no tick has torn a register, where the computation is: in
task A, with `Context`, that is, each register and word as A has made it at that
place (`Own` for what it computes with, `Five` and `Scratch` for what it holds
between a few instructions); in task B, with A `Parked`, that is, the same
of the saved r1, r2 and pc in place of the registers' own; at the resume; or on the
way to the halt, with `Closing`. One lemma family
(`SaveRun`, `PagedRun`, `BRun`, `DoneRun`) shows that each instruction brings about
what the next place needs. The other (`SaveTears`, `PagedTears`, `LastTears`) shows
that a tick at a place of `Five` or `Scratch` does tear, by the text's own
`Needed` and `Clobbered`; so a parked place is one where only saved registers
matter. The property speaks of the two legs that save a context (`Saving`). `Sound`
was checked with TLC on all four legs at the quanta 1 to 75 before it was proved.

`SyscallAbi_proofs` proves, for every word width of at least 12 bits, every C
program that gives a resident slice its own buffer, and every set of admitted
slots, `TypeOK`, `ProbedNeverRefused` and that the kernel implements
`SyscallService`: the initial states map to initial states and each step to a
step or a stutter. The invariant (`CallInv`) says what the registers stand for
at each label of the dispatcher: the selected service is the one that the number
names, and from the service on, the words and SYS_A0 are that service's effect on
the words at the trap. `ProbeInv` adds that a task which reads its slot first
traps only with numbers whose slot is lit; admissions happen between runs, which
is why the probe is not stale when the dispatcher reads the slot again.

`FsAdmission_proofs` proves `AdmittedServes` and `RecipesVerify` for every set of
numbers, arguments and promises. The invariant says what word 754 holds at each
point of a drive (`Served`: the tile's reply to the table *as it is now*, once a
lit number has been passed), which is inductive because a steady tile replies
after its own run as it did before (`SteadyReply`), and that references stay two
while only recipes are stamped (`Plainly`), which makes their replies those of
the baked table (`RecipeReply`). `TypeOK` needs `Room`: what the numbers that a
drive has still to serve may append fits below `MaxLen`, by the bound under which
the drive was started.

`Admission_proofs` proves that `IInv` is inductive and implies `TypeOK`,
`OracleGuardsImage`, `DivergedSlotDark`, `AdmissionPersists` and `AuditTrail`, for
every set of tiles, slots, arguments and drafts. `IInv` adds what each stage
knows of the earlier gates (a call that is about to stamp has passed them), that
the rect of a call in its last stages is its own request, and that the receipt
list is empty until the call ends. `AdmissionPersists` needs a step of its own:
later calls that are turned down before they stamp change nothing a drive reads.

`Ingest_proofs` proves `TypeOK`, `PatchIsExact`, `ServedOffline` and
`DivergedUnregistered` for every set of programs, every window of at least two
words, every set of argvs and every number of attempts. For the loader the invariant
says how far the copy is (`CopiedTo(done)`) and that the loop's compare register is 1
only on entry; for `ingest`, that the tile in flight is the one under the call's name,
in the mailbox and, once the loop is over, in the window. `FateAssumption`, that
programs of the same words, entered by the same leg with the same argv, end the same
way, turns what the receipt shows into a fact about the tile *entered by the load
leg*. That a boot without a mailbox shows the same is not assumed: `ServedOffline`
asks it of the tile.

`DriverAbi_proofs` proves the four invariants of `DriverAbi` for every set of
images and requests: at each label the invariant names what mailbox, device and
reply hold, where a label of the kernel counts with the call it serves. The
arithmetic is one lemma (`BuiltChecks`): a packet passes the checksum exactly when
its lowest bit was not flipped.

`PixelFs_proofs` proves all invariants of `PixelFs` for every data an image may
bring along. A cut can come between any two stores, so the invariant behind
`NamedBeforeUse` is about the list still to be made: it raises the flag only behind
name, start and length (`FlagLast`), whatever of it has been made already.
`ReadsBack`, `DeleteFrees`, `Delivered` and `Contained` are about whole drives;
their invariant (`Stories`) tells, at each label of each leg, what the drive has
put into RAM, what its stores will have left of the pixels it booted on once the
list is empty, and what it will still do.

Only model-checked:

- `KeepsContract` (`KeepsTimer` and `KeepsContext`), a statement about the kernel and the
  task of `MCTrapContract`: the two proofs above start from them.
- All liveness (the provers have no ENABLED), and everything about what a fold or
  a recursive function computes (`Lanes`, `ReduceSum`), for which they have no
  induction.

## What the code does otherwise than it says

The three violation runs are disagreements of the code with its own comments or
docstrings; `PROJECT.json` quotes each line under `findings`. Three more are about
what a docstring says of a protocol; there the properties state what the code does:

- A mailbox of one word is not copied. `baker.py:1495` says that the launch leg will
  "copy n_px pixel words"; the loop's first test (`baker.py:1617`) finds the count
  equal to the 1 that the flag's CMP left in r0. Driving the repository's image with
  `n_px` 1 changes no pixel, with 2 it changes two.
- An admitted tile need not persist offline (`autoatlas.py:9`): gate 3 runs it after
  a load only, and the other leg enters it with other registers. A tile that passes
  verifier and oracle, and adds half of an r4 that it never set, gave 5 when it was
  injected into the repository's image and 9 when it was run again from the window.
- SYS 4 of GH-14 reads A's receipt in the pixels (word 1048). Four places say that it
  reads the mailbox, "the ONLY cross-agent channel" (`baker.py:2402`; also 2321, 2529
  and 2572); the comment at the code (2469) has it right. `Delivered` is about the
  receipt.

Further observations, met while modelling and visible in the models:

- Docstrings say that `:__ksys_done` writes 0 to SYS_A0 before it returns
  (`baker.py:3806-3808`, `3929-3931`, `4043-4045`; `autoatlas.py:922`). It is a bare
  SYSRET, and the comment at the code (`baker.py:4295-4304`) says why. The run
  `syscall_abi` shows that the documented form would lose brk's answer.
- The docstring of the loader's kernel also says that the launch leg copies an argv
  pair from the mailbox (`baker.py:1497-1498`); the code does not, as its comment at
  1593-1597 says. And the huge number of GH-18's legs is 0x7FFF0000 (slot 10), where
  the docstring (`baker.py:3793`) has 0x7FFFFFFF (slot 9); both slots are dark.
- The green check of `ingest` (`autoatlas.py:381`) does not ask whether the machine
  halted: a tile that writes both words and then loops is admitted (`spin`).
- A USER store outside the box vectors to KFAULT_PC without asking whether it is
  0 (`glyph_isa_v2.py:744`); line 41 says "0 = disabled". The page faults do stop.
- The timer runs only while the sticky flag `faulted` is clear
  (`glyph_isa_v2.py:988`), so preemption ends with the first handled fault.
  `PreemptionBound` and `KernelReturns` are about tasks that never fault.
- The size check of `_admit_verified_tile` (`autoatlas.py:816`) writes no receipt.
- The guard around the oracle in `escalate.py:298` does not name
  `SpatialMisalignmentFault`, so a RET into the middle of an instruction ends the
  escalation with an exception (a disjunct of `Escalate`).
- GH-16's tick handler saves whoever it interrupts as task A (`baker.py:2900`). At
  the default quantum of 20, one below the 21 steps task B takes, it interrupts
  B, and the run restarts B for ever. `SliceKeepsSlot` states the quanta at which
  this cannot happen. The repository's kernel, driven with every quantum from 1
  to 75, does what `Preempt` says for each.
- A drive cut between GH-8's in_use store (`baker.py:1111`) and the payload leaves
  a file that reads as zeros and that no later create repairs. Driving the
  repository's kernel with a budget that ends there shows the same.
- `ingest` registers a tile before its length is checked, and returns
  (`autoatlas.py:363-368`); a tile whose drive raises stays registered too. And
  the pop that unregisters a diverged tile drops the name, also when an earlier
  call had registered a good one under it.
- `paged_dispatch` builds its page table with a register it never clears
  (`baker.py:4241`): a drive of that image leaves the status word 0.
- After a rename, a GH-20 draft that compares the stored name, as the tile
  contract explains how to read it, passes the oracle and diverges on the die:
  the oracle is seeded with the table as baked (`autoatlas.py:659`), of which the
  comment above it says "so the drafter's oracle run sees the SAME bytes the
  on-die tile will". A rejected admission leaves what its drive did to the table.
  Both were confirmed by driving the repository's image.
- `gh22_driver_abi.py` says that the kernel never touches words 733 and 734; its
  prologue zeroes them (356-363). The request's reserved byte is outside the
  checksum.

## Not modelled

- The modes `reentrancy`, `fault` and `paged_dispatch` of GH-18: the first two
  add the timer and the fault vector that `Preempt` and `GlyphCPU` cover; the
  third does not run (above).
- The kernels GH-2, GH-3, GH-6, GH-7, GH-10 and GH-13: demonstrations of one
  feature each, whose traps, dispatch and round robin are in the models above.
- The IR and its verifier, the assembler, the RV64I decoder and transpiler, the
  DSL and the splicing of C programs: text or bit patterns in, text out, without
  state; the repository's differential tests enumerate them, and 32-bit patterns
  are beyond what TLC can hold. The Hilbert curve likewise: `GlyphCPU` takes it as
  a constant.
- The WGSL twin needs a GPU; the ASCII bridge, glyphc and the drafting prompts
  are wording and layout.
- A stack that grows into program pixels: the models keep text and data apart.

## Plan

1. The modes `reentrancy` and `fault` of GH-18 in `SyscallAbi`.
2. `KeepsContext` of the kernels in the repository, which save a context in RAM
   words rather than keep it in registers: an exact return for two tasks.
