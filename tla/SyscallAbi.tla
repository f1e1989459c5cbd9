------------------------------- MODULE SyscallAbi ------------------------------
(***************************************************************************)
(* The syscall ABI kernel of GH-18 (tools/glyph_gpt/baker.py) with the     *)
(* tiles of its POSIX and libc images (posix_shim.py, libc_runtime.py):    *)
(* the tasks of each mode, the trap, the dispatcher block by block, the    *)
(* tiles, the round robin and the done tail, over the runs of one image.   *)
(* A run starts from zeroed RAM; the pixel-mapped table outlives it.       *)
(***************************************************************************)
EXTENDS Integers, Sequences

CONSTANTS Modes,     \* modes of syscall_abi_kernel_image that are baked
          WordMod,   \* number of values of a word, 2^32 in the engine
          Programs,  \* what a C program may ask for: records [n, a0, a1]
          MaxCalls,  \* bound on the calls of a C program in one run
          Admitted   \* the slots that the host admits tiles into

AllModes == {"baseline", "unknown", "neg", "huge", "admit", "fs_v2", "posix", "libc"}
ASSUME ModesAssumption == Modes \subseteq AllModes
ASSUME AdmittedAssumption == Admitted \subseteq 2 .. 15 /\ MaxCalls \in Nat
ASSUME WordAssumption == WordMod \in Nat /\ WordMod >= 4096 /\ WordMod % 16 = 0
\* A program gives a resident slice only its own buffer.
ASSUME ProgramsAssumption ==
    \A c \in Programs :
        /\ c \in [n : 0 .. WordMod - 1, a0 : 0 .. WordMod - 1, a1 : 0 .. WordMod - 1]
        /\ c.n # 7 /\ (c.n = 6 => c.a0 = 713)

VARIABLES
    modeOf,          \* the mode of the image
    table,           \* pixels: what each slot of the syscall table leads to
    pc,              \* "off" between runs, else the label reached
    at, calls,       \* next call of task A's script; calls of a C program
    r5, r6,          \* registers of the dispatcher
    sysn, sysA0, sysA1,  \* SYS_N, SYS_A0 and SYS_A1
    a0,              \* r10 of the task
    words, status,
    before           \* history: the words when the call trapped

run == <<at, calls, r5, r6, sysn, sysA0, sysA1, a0, words, status, before>>
vars == <<modeOf, table, pc, run>>

-------------------------------------------------------------------------------
Word == 0 .. WordMod - 1
Slots == 0 .. 15
Dark == "dark"
Tile == {"triple", "fs", "write", "exit", "brk"}
N_A == 6
N_B == 7
ARGV == 750
BUF_A == 713
BUF_B == 727
HEAP_BASE == 2560
KERNEL_OK == "0xCAFE00xx"   \* 0xCAFE0018, 14, 19 or 1A by mode
NoStatus == "none"

\* The words that the prologue zeroes, and the program break of libc.
BootWords(m) ==
    [bufA |-> 0, bufB |-> 0, argv |-> 0, uartA |-> 0, uartB |-> 0, badsys |-> 0,
     result |-> 0, stdout |-> 0, code |-> 0, brk |-> IF m = "libc" THEN HEAP_BASE ELSE 0]

\* A slot is lit by admission, or in the C images when they are baked.
Admitting(m) == m \in {"admit", "fs_v2"}
Tasks(m) == IF m \in {"posix", "libc"} THEN "C" ELSE "text"
AllDark == [i \in Slots |-> Dark]
BakedTables(m) ==
    CASE m = "posix" -> {AllDark, [AllDark EXCEPT ![10] = "write", ![7] = "exit"]}
      [] m = "libc"  -> {[AllDark EXCEPT ![10] = "write", ![7] = "exit", ![0] = "brk"]}
      [] OTHER       -> {AllDark}

\* 0x7FFF0000 at the engine's width.
Huge == WordMod \div 2 - 16 * (WordMod \div 1048576)
Ask(n, x, probe) == [n |-> n, a0 |-> x, a1 |-> 4, probe |-> probe]
\* The calls of task A.  A probed call is skipped when its slot reads 0.
Script(m) ==
    CASE m = "unknown" -> <<Ask(9, BUF_A, FALSE)>>
      [] m = "neg"     -> <<Ask(WordMod - 1, BUF_A, FALSE)>>
      [] m = "huge"    -> <<Ask(Huge, BUF_A, FALSE)>>
      [] m = "admit"   -> <<Ask(N_A, BUF_A, FALSE), Ask(8, ARGV, TRUE)>>
      [] m = "fs_v2"   -> <<Ask(N_A, BUF_A, FALSE), Ask(10, ARGV, TRUE),
                            Ask(11, ARGV, TRUE), Ask(12, ARGV, TRUE)>>
      [] OTHER         -> <<Ask(N_A, BUF_A, FALSE)>>
Staged(c) == IF c.a0 = BUF_A THEN [words EXCEPT !.bufA = 65]
             ELSE [words EXCEPT !.argv = IF c.n = 8 THEN N_A ELSE 65]

-------------------------------------------------------------------------------
(* The host: admission between runs, and the runs.                         *)
HostFrame == UNCHANGED <<modeOf, run>>

\* admit stamps the one tile rect, so every lit slot leads to the new tile.
Stamped(i, t) == [j \in Slots |-> IF j = i \/ table[j] # Dark THEN t ELSE table[j]]
Admit(i, t) ==
    /\ pc = "off" /\ Admitting(modeOf)
    /\ table' = Stamped(i, t)
    /\ UNCHANGED pc /\ HostFrame
RollBack(i) ==
    /\ pc = "off" /\ Admitting(modeOf) /\ table[i] # Dark
    /\ table' = [table EXCEPT ![i] = Dark]
    /\ UNCHANGED pc /\ HostFrame
\* The prologue, up to the KJMP into task A.
Drive == pc = "off" /\ pc' = "taskA" /\ UNCHANGED <<modeOf, table, run>>

ColdRun(m) == /\ at' = 1 /\ calls' = 0 /\ r5' = 0 /\ r6' = Dark
              /\ sysn' = 0 /\ sysA0' = 0 /\ sysA1' = 0 /\ a0' = 0
              /\ words' = BootWords(m) /\ before' = BootWords(m) /\ status' = NoStatus
\* The run has halted, or max_instructions are spent.
EndRun ==
    /\ pc # "off" /\ pc' = "off" /\ ColdRun(modeOf)
    /\ UNCHANGED <<modeOf, table>>

-------------------------------------------------------------------------------
(* The tasks.                                                              *)
\* SYSCALL marshals r17, r10 and r11 and enters the dispatcher.
Trap(n, x, y) ==
    /\ sysn' = n /\ sysA0' = x /\ sysA1' = y
    /\ a0' = x /\ before' = words /\ pc' = "ksys"
    /\ UNCHANGED <<modeOf, table, r5, r6, words, status>>

Next6 == Script(modeOf)[at]
\* Stage the buffer of the next call, unless its slot reads 0 or nothing is staged.
StageA ==
    /\ pc = "taskA" /\ Tasks(modeOf) = "text" /\ at <= Len(Script(modeOf))
    /\ IF Next6.probe /\ table[Next6.n - N_A] = Dark
       THEN at' = at + 1 /\ UNCHANGED <<pc, words>>
       ELSE /\ pc' = "callA" /\ UNCHANGED at
            /\ words' = IF modeOf \in {"unknown", "neg", "huge"} THEN words ELSE Staged(Next6)
    /\ UNCHANGED <<modeOf, table, calls, r5, r6, sysn, sysA0, sysA1, a0, status, before>>
CallA ==
    /\ pc = "callA" /\ at' = at + 1 /\ UNCHANGED calls
    /\ Trap(Next6.n, Next6.a0, Next6.a1)
\* The C program that the POSIX and libc images splice in for task A.
CallC ==
    /\ pc = "taskA" /\ Tasks(modeOf) = "C" /\ calls < MaxCalls
    /\ calls' = calls + 1 /\ UNCHANGED at
    /\ \E c \in Programs : Trap(c.n, c.a0, c.a1)
Jump(from, to) ==
    /\ pc = from /\ pc' = to
    /\ UNCHANGED <<modeOf, table, run>>
\* Task A's KJMP to the round robin; the C program's last RET, or a store out of
\* its boxes, which KFAULT_PC vectors to the done tail.
LeaveA == Tasks(modeOf) = "text" /\ at > Len(Script(modeOf)) /\ Jump("taskA", "dispatch")
LeaveC == Tasks(modeOf) = "C" /\ Jump("taskA", "done")
Dispatch ==
    /\ pc = "dispatch" /\ pc' = "taskB" /\ words' = [words EXCEPT !.bufB = 66]
    /\ UNCHANGED <<modeOf, table, at, calls, r5, r6, sysn, sysA0, sysA1, a0, status, before>>
CallB == pc = "taskB" /\ Trap(N_B, BUF_B, 4) /\ UNCHANGED <<at, calls>>
LeaveB == Jump("endB", "done")

-------------------------------------------------------------------------------
(* The dispatcher, in SUPER mode.                                          *)
Handler == UNCHANGED <<modeOf, table, at, calls, sysn, sysA1, a0, status, before>>
\* r5 = SYS_N against the numbers of the resident slices.
Select ==
    /\ pc = "ksys" /\ r5' = sysn
    /\ pc' = CASE sysn = N_A -> "slice6" [] sysn = N_B -> "slice7" [] OTHER -> "tbl"
    /\ UNCHANGED <<r6, sysA0, words>> /\ Handler
\* SUB r5 r4 wraps at the width of a word.
Minus(n, k) == IF n >= k THEN n - k ELSE n + WordMod - k
\* Seeded fault: the table is counted from the first number after the slices' first.
IndexFromSeven(n) == Minus(n, N_B) % 16
\* The dispatcher keeps four bits of the difference.
Index(n) == Minus(n, N_A) % 16
Reduce ==
    /\ pc = "tbl" /\ pc' = "load" /\ r5' = Index(r5)
    /\ UNCHANGED <<r6, sysA0, words>> /\ Handler
Lookup ==
    /\ pc = "load" /\ r6' = table[r5]
    /\ pc' = IF r6' = Dark THEN "unknown" ELSE "tile"
    /\ UNCHANGED <<r5, sysA0, words>> /\ Handler
Slice6 ==
    /\ pc = "slice6" /\ pc' = "sysret" /\ sysA0' = 4
    /\ words' = [words EXCEPT !.uartA = words.bufA]
    /\ UNCHANGED <<r5, r6>> /\ Handler
Slice7 ==
    /\ pc = "slice7" /\ pc' = "sysret" /\ sysA0' = 4
    /\ words' = [words EXCEPT !.uartB = words.bufB]
    /\ UNCHANGED <<r5, r6>> /\ Handler
UnknownMark ==
    /\ pc = "unknown" /\ pc' = "refuse" /\ words' = [words EXCEPT !.badsys = 69]
    /\ UNCHANGED <<r5, r6, sysA0>> /\ Handler
UnknownReply ==
    /\ pc = "refuse" /\ pc' = "sysret" /\ sysA0' = 0
    /\ UNCHANGED <<r5, r6, words>> /\ Handler

\* The tiles.  An argv tile leaves its result in word 754, a file tile (append or
\* rename) its verdict: 0, or 69 for another name than the 'A' of slot 0.  What it
\* does to the file table is FsAdmission's.  write sends the text at a1,
\* brk hands out the old break in SYS_A0, exit jumps to the done tail.
TileTriple == r6 = "triple" /\ words' = [words EXCEPT !.result = (3 * words.argv) % WordMod]
TileFs == r6 = "fs" /\ words' = [words EXCEPT !.result = IF words.argv = 65 THEN 0 ELSE 69]
TileWrite == r6 = "write" /\ words' = [words EXCEPT !.stdout = sysA1]
\* Seeded fault: the break does not wrap at the width of a word.
TileBrkWide ==
    r6 = "brk" /\ words' = [words EXCEPT !.brk = words.brk + sysA0] /\ sysA0' = words.brk
TileBrk ==
    /\ r6 = "brk" /\ words' = [words EXCEPT !.brk = (words.brk + sysA0) % WordMod]
    /\ sysA0' = words.brk
TileExit == r6 = "exit" /\ words' = [words EXCEPT !.code = sysA0]
RunTile ==
    /\ pc = "tile"
    /\ \/ (TileTriple \/ TileFs \/ TileWrite) /\ UNCHANGED sysA0 /\ pc' = "ksys_done"
       \/ TileBrk /\ pc' = "ksys_done"
       \/ TileExit /\ UNCHANGED sysA0 /\ pc' = "done"
    /\ UNCHANGED <<r5, r6>> /\ Handler

\* Seeded fault: the resume point clears SYS_A0 before its SYSRET.
TileHomeClears == pc = "ksys_done" /\ pc' = "sysret" /\ sysA0' = 0
\* Seeded fault: the tile was relocated for another mode and lands on the table load.
TileHomeStale == pc = "ksys_done" /\ pc' = "load" /\ UNCHANGED sysA0
\* :__ksys_done is a bare SYSRET.
TileHome == pc = "ksys_done" /\ pc' = "sysret" /\ UNCHANGED sysA0
KsysDone == TileHome /\ UNCHANGED <<r5, r6, words>> /\ Handler
\* SYSRET restores the registers and delivers SYS_A0 in r10.
Sysret ==
    /\ pc = "sysret" /\ a0' = sysA0
    /\ pc' = IF sysn = N_B /\ Tasks(modeOf) = "text" THEN "endB" ELSE "taskA"
    /\ UNCHANGED <<modeOf, table, at, calls, r5, r6, sysn, sysA0, sysA1, words, status, before>>
\* The marshal words are cleared, the status is written, the CPU halts.
DoneTail ==
    /\ pc = "done" /\ pc' = "halted"
    /\ sysn' = 0 /\ sysA0' = 0 /\ status' = KERNEL_OK
    /\ UNCHANGED <<modeOf, table, at, calls, r5, r6, sysA1, a0, words, before>>

-------------------------------------------------------------------------------
Init ==
    /\ modeOf \in Modes /\ table \in BakedTables(modeOf) /\ pc = "off"
    /\ at = 1 /\ calls = 0 /\ r5 = 0 /\ r6 = Dark /\ sysn = 0 /\ sysA0 = 0 /\ sysA1 = 0
    /\ a0 = 0 /\ words = BootWords(modeOf) /\ before = BootWords(modeOf) /\ status = NoStatus

Host == \/ \E i \in Admitted, t \in {"triple", "fs"} : Admit(i, t)
        \/ \E i \in Admitted : RollBack(i)
        \/ Drive \/ EndRun
Task == StageA \/ CallA \/ CallC \/ LeaveA \/ LeaveC \/ Dispatch \/ CallB \/ LeaveB
Kernel == \/ Select \/ Reduce \/ Lookup \/ Slice6 \/ Slice7 \/ UnknownMark \/ UnknownReply
          \/ RunTile \/ KsysDone \/ Sysret \/ DoneTail
Next == Host \/ Task \/ Kernel
Spec == Init /\ [][Next]_vars
\* drive() steps the CPU on until it stops or the budget is spent.
FairSpec == Spec /\ WF_vars(Kernel)

-------------------------------------------------------------------------------
Serving == {"ksys", "slice6", "slice7", "tbl", "load", "tile", "ksys_done", "unknown", "refuse",
            "sysret"}
InCall == pc \in Serving
Labels == Serving \cup
    {"off", "taskA", "callA", "dispatch", "taskB", "endB", "done", "halted"}
WordNames == DOMAIN BootWords("admit")
TypeOK ==
    /\ modeOf \in Modes /\ table \in [Slots -> Tile \cup {Dark}] /\ pc \in Labels
    /\ at \in 1 .. 5 /\ calls \in 0 .. MaxCalls
    /\ r5 \in Word /\ r6 \in Tile \cup {Dark} /\ sysn \in Word /\ sysA0 \in Word /\ sysA1 \in Word
    /\ a0 \in Word /\ words \in [WordNames -> Word] /\ before \in [WordNames -> Word]
    /\ status \in {NoStatus, KERNEL_OK} /\ (pc = "load" => r5 \in Slots)

(* A task that asks the table before it calls ("probe-then-issue") is      *)
(* never refused, whatever slots are admitted or rolled back between runs: *)
(* the slot the task reads is the slot the dispatcher indexes.             *)
ProbedNeverRefused == Admitting(modeOf) => words.badsys = 0

(* Every call is answered, ends the run, or is cut off with it.            *)
Answered == InCall ~> ~InCall

(* The kernel implements SyscallService: a call is one atomic step.  While *)
(* it is served the task's view is the words as they were when it trapped. *)
PhaseAt(l) == CASE l = "off" -> "off" [] l \in Serving -> "call"
                [] l \in {"done", "halted"} -> "over" [] OTHER -> "task"
Service == INSTANCE SyscallService WITH
    InitTables <- UNION {BakedTables(m) : m \in Modes},
    Boots <- {BootWords(m) : m \in Modes},
    phase <- PhaseAt(pc),
    n <- IF InCall THEN sysn ELSE 0, a1 <- IF InCall THEN sysA1 ELSE 0,
    words <- IF InCall THEN before ELSE words
CallsAreAtomic == Service!Safe
===============================================================================
