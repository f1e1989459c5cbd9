------------------------------- MODULE GlyphCPU -------------------------------
(***************************************************************************)
(* The Glyph CPU (class GlyphCPUv2 of tools/glyph_isa_v2.py): a register   *)
(* machine whose program counter walks the pixels of an image.  One step   *)
(* of Next is one call of step(): it fetches the instruction under pc,     *)
(* executes it whole, lets the preemption timer run, and commits the new   *)
(* pc.  The module is parameterised by the program, by the sizes of the    *)
(* memories and by the loop that drives the machine.                       *)
(*                                                                         *)
(* A position (row, x) of the image is its row-major pixel number, so the  *)
(* fall-through advance with its wrap to the next row is an addition, and  *)
(* a packed (row << 16 | col) word is the number of the instruction cell.  *)
(***************************************************************************)
EXTENDS Integers

CONSTANTS
    Cells,       \* instruction cells of the image
    Text,        \* Text[c]: the instructions cell c may hold when it is fetched
    Reg,         \* register numbers (0..31 in the code)
    MaxWord,     \* the largest machine word (2^32 - 1)
    PixMod,      \* values of one pixel (2^24: three bytes)
    HighMod,     \* values of a pixel's last byte (2^8)
    Pixels,      \* pixels of the image read as data (width * height)
    Mmio,        \* word address of the MMIO block (BOX_MMIO_BASE >> 2)
    TileOff,     \* offset of the tile words in that block (0x160 >> 2)
    MmioSpan,    \* words of the block SUPER reaches past the page table (256)
    GridW,       \* W_MEM, words per grid row
    PageWords,   \* PAGE_WORDS, words per page and pages per table (256)
    FlagSpan,    \* values of a page table entry's flag byte (256)
    HilbFrame,   \* HilbFrame[f]: frame number of a packed Hilbert origin f
    BitOp(_, _, _), \* the result of AND, OR, XOR, SHL, SHR, ROTR on two registers
    FsPix,       \* fs_pix_enabled
    FsLo, FsHi,  \* the file-system window [FsLo, FsHi) of word addresses
    RamInit,     \* the memories a loader may hand to the machine
    StackFloor,  \* bound: PUSH and CALL keep r31 above this value
    Driver       \* "run" loops on running, "oracle" loops on step()'s result

INSTR_WIDTH == 4
SUPER == 0
USER == 1
SP == 31

Word == 0 .. MaxWord
Pixel == 0 .. PixMod - 1
Pix == 0 .. Pixels - 1
Cell == 0 .. Cells - 1

BitOps == {"AND", "OR", "XOR", "SHL", "SHR", "ROTR"}
Ops == BitOps \cup
       {"LDI", "ADD", "SUB", "CMP", "LD", "ST", "PUSH", "POP", "PRT", "CALL",
        "RET", "SYSCALL", "SYSRET", "JMP", "JZ", "JMPR", "KJMP", "CALLR",
        "PARALLEL_LD", "PARALLEL_ST", "PARALLEL_ADD", "PARALLEL_SUB",
        "PARALLEL_REDUCE_SUM", "HALT", "UNKNOWN"}
Instr == [op : Ops, rs1 : Reg, rs2 : Reg, rd : Reg, imm : Word]

MODE_LATCH   == Mmio
KFAULT_PC    == Mmio + 1
KSYS_PC      == Mmio + 2
BOX0_LO      == Mmio + 3
BOX0_HI      == Mmio + 4
BOX1_LO      == Mmio + 5
BOX1_HI      == Mmio + 6
FAULT_ADDR   == Mmio + 7
FAULT_PC     == Mmio + 8
SYSCALL_PC   == Mmio + 9
BOX2_LO      == Mmio + 10
BOX2_HI      == Mmio + 11
SYS_N        == Mmio + 12
SYS_A0       == Mmio + 13
SYS_A1       == Mmio + 14
KTICK_PC     == Mmio + 15
TIMER_COUNT  == Mmio + 16
TIMER_RELOAD == Mmio + 17
TICK_PC      == Mmio + 18
PAGE_TABLE   == Mmio + 19
TILE_ROW     == Mmio + TileOff
TILE_COL     == Mmio + TileOff + 1
TILE_H       == Mmio + TileOff + 2
TILE_W       == Mmio + TileOff + 3

ASSUME SizesAssumption ==
    /\ Cells \in Nat \ {0}
    /\ MaxWord \in Nat /\ PixMod \in Nat \ {0} /\ Pixels \in Nat \ {0}
    /\ HighMod \in Nat \ {0}
    /\ Mmio \in Nat /\ TileOff \in Nat /\ TileOff >= 20 /\ MmioSpan \in Nat
    /\ GridW \in Nat \ {0} /\ PageWords \in Nat \ {0} /\ FlagSpan \in Nat \ {0}
    /\ FsLo \in Nat /\ FsHi \in Nat /\ StackFloor \in Int
ASSUME RegAssumption == Reg \subseteq Nat /\ {0, 1, 2, 10, 11, 17, SP} \subseteq Reg
ASSUME TextAssumption == Text \in [Cell -> SUBSET Instr]
ASSUME HilbAssumption == HilbFrame \in [0 .. MaxWord -> Nat]
\* A RAM is a word array that starts at 0 and holds the MMIO block whole or
\* not at all (the harnesses size it to 1024 or to 16384 words).
WholeRam(ram) ==
    /\ ram \in [DOMAIN ram -> Word]
    /\ \A a \in DOMAIN ram : a \in Nat /\ 0 .. a \subseteq DOMAIN ram
    /\ \A a \in DOMAIN ram : a >= Mmio => TILE_W \in DOMAIN ram
ASSUME RamAssumption == \A ram \in RamInit : WholeRam(ram)
ASSUME FlagAssumption == FsPix \in BOOLEAN /\ Driver \in {"run", "oracle"}

VARIABLES
    pc,       \* pixel number of the next instruction
    mode,     \* SUPER or USER
    regs,     \* the register file; r31 and SIMD results are not masked
    mem,      \* word RAM, the MMIO block inside it when it is large enough
    img,      \* the image read and written as data
    running,  \* the running flag
    stepped,  \* what the last step() gave its caller: "true", "false", "raised"
    faulted,  \* the sticky fault flag
    fault,    \* the attributes fault_addr and fault_pc
    saved     \* _syscall_regs: <<>> for None, <<registers>> for a snapshot

vars == <<pc, mode, regs, mem, img, running, stepped, faulted, fault, saved>>

-------------------------------------------------------------------------------
(* Words, pixels and the file-system window.                               *)

Mask(v) == v % (MaxWord + 1)
Ram(a) == IF a \in DOMAIN mem THEN mem[a] ELSE 0

\* _iso_enabled: the isolation block exists when the RAM reaches its last word.
IsoEnabled == TILE_W \in DOMAIN mem

InFsWindow(a) == FsPix /\ FsLo <= a /\ a < FsHi
FsLowPix(w) == (2 * w) % Pixels
FsHighPix(w) == (2 * w + 1) % Pixels

\* _fs_pix_read: a window word is one whole pixel and the low byte of the next.
FsRead(w) == Mask(img[FsLowPix(w)] + PixMod * (img[FsHighPix(w)] % HighMod))

\* _fs_pix_write on the image, and its write-through copy in a RAM.
FsImage(w, v) == [img EXCEPT ![FsLowPix(w)] = Mask(v) % PixMod,
                             ![FsHighPix(w)] = ((Mask(v) \div PixMod) % HighMod) % PixMod]
FsMirror(w, v) == IF w \in DOMAIN mem THEN [mem EXCEPT ![w] = Mask(v)] ELSE mem

\* _mem_read and _mem_write: the image behind PUSH, POP, CALL, RET and paging.
MemRead(a) == IF InFsWindow(a) THEN FsRead(a) ELSE img[a % Pixels]
MemWriteImage(a, v) == IF InFsWindow(a) THEN FsImage(a, v)
                       ELSE [img EXCEPT ![a % Pixels] = v % PixMod]
MemWriteRam(a, v) == IF InFsWindow(a) THEN FsMirror(a, v) ELSE mem

-------------------------------------------------------------------------------
(* The privilege box (E-K1, GO-2).                                         *)

InRange(byte, lo, hi) == mem[hi] # 0 /\ mem[lo] <= byte /\ byte < mem[hi]

InTile(byte) ==
    LET row == (byte \div 4) \div GridW
        col == (byte \div 4) % GridW
    IN  /\ mem[TILE_H] # 0
        /\ mem[TILE_ROW] <= row /\ row < mem[TILE_ROW] + mem[TILE_H]
        /\ mem[TILE_COL] <= col /\ col < mem[TILE_COL] + mem[TILE_W]

AddrInBox(byte) ==
    \/ InRange(byte, BOX0_LO, BOX0_HI)
    \/ InRange(byte, BOX1_LO, BOX1_HI)
    \/ InRange(byte, BOX2_LO, BOX2_HI)
    \/ InTile(byte)

-------------------------------------------------------------------------------
(* Spatial paging (GH-17, GH-25).                                          *)

PageBase == Ram(PAGE_TABLE)
Paged(a) == /\ PageBase # 0
            /\ ~(mode = SUPER /\ Mmio <= a /\ a < Mmio + MmioSpan)

\* The entry of an address: the RAM's, and the image's when the RAM holds 0.
Pte(a) ==
    LET idx == PageBase + ((a \div PageWords) % PageWords)
    IN  IF 0 <= a /\ a < PageWords * PageWords /\ idx \in DOMAIN mem
        THEN IF mem[idx] # 0 THEN mem[idx]
             ELSE IF idx < Pixels THEN MemRead(idx) ELSE 0
        ELSE 0

Valid(e)    == e % 2 = 1
Writable(e) == (e \div 2) % 2 = 1
UserBit(e)  == (e \div 4) % 2 = 1
PixBit(e)   == (e \div 8) % 2 = 1
HilbBit(e)  == (e \div 16) % 2 = 1

Readable(e) == Valid(e) /\ (mode = USER => UserBit(e))
Storable(e) == Readable(e) /\ Writable(e)

InPixels(e) == PixBit(e) \/ HilbBit(e)
\* Where an address lands: the frame of its entry, its offset within the page.
Frame(e) == IF HilbBit(e) THEN HilbFrame[Mask(e \div FlagSpan)] ELSE e \div FlagSpan
Physical(e, a) == (Frame(e) * PageWords) + (a % PageWords)

\* The RAM grows to hold a page it does not reach yet.
Grown(a) == IF a \in DOMAIN mem THEN mem
            ELSE [w \in 0 .. (a + PageWords - 1) |-> Ram(w)]

-------------------------------------------------------------------------------
(* Fetching and retiring an instruction.                                   *)

Stepping == IF Driver = "run" THEN running /\ stepped # "raised"
            ELSE stepped = "true"

Aligned == pc % INSTR_WIDTH = 0
OnImage == pc \div INSTR_WIDTH \in Cell

Fetched == IF Stepping /\ Aligned /\ OnImage THEN Text[pc \div INSTR_WIDTH] ELSE {}
Fetch(op) == {i \in Fetched : i.op = op}

FallThrough == pc + INSTR_WIDTH
Target(packed) == INSTR_WIDTH * Mask(packed)   \* a packed cell number
PackCell(p) == Mask(p \div INSTR_WIDTH)

\* step() returns False: the machine stops where it is.
Stop == running' = FALSE /\ stepped' = "false" /\ UNCHANGED pc

(* The end of step(): the GH-16 timer, then the commit of the pc.  md, ram *)
(* and run are what the instruction leaves in mode, RAM and running; mode  *)
(* is still the mode the step began in (was_user).                         *)
\* Variants with a fault seeded: counts the step that enters USER; never
\* reaches the tick.
TimerRunsOnEntry(md, ram, run, flt) ==
    TILE_W \in DOMAIN ram /\ md = USER /\ run /\ ~flt
    /\ ram[KTICK_PC] # 0 /\ ram[TIMER_COUNT] > 0
TimerRunsLate(md, ram, run, flt) ==
    TILE_W \in DOMAIN ram /\ mode = USER /\ md = USER /\ run /\ ~flt
    /\ ram[KTICK_PC] # 0 /\ ram[TIMER_COUNT] > 1
TimerRuns(md, ram, run, flt) ==
    /\ TILE_W \in DOMAIN ram
    /\ mode = USER /\ md = USER /\ run /\ ~flt
    /\ ram[KTICK_PC] # 0 /\ ram[TIMER_COUNT] > 0

\* What the tick reports in TICK_PC.  Seeded fault: the next cell, also when the
\* instruction under the tick jumped.
TickWordFallThrough(next) == PackCell(FallThrough)
TickWord(next) == PackCell(next)

Retire(next, md, ram, run, flt) ==
    /\ stepped' = "true" /\ running' = run /\ faulted' = flt
    /\ \/ /\ ~TimerRuns(md, ram, run, flt)
          /\ pc' = next /\ mode' = md /\ mem' = ram
       \/ /\ TimerRuns(md, ram, run, flt) /\ ram[TIMER_COUNT] > 1
          /\ pc' = next /\ mode' = md
          /\ mem' = [ram EXCEPT ![TIMER_COUNT] = @ - 1]
       \/ /\ TimerRuns(md, ram, run, flt) /\ ram[TIMER_COUNT] = 1
          /\ pc' = Target(ram[KTICK_PC]) /\ mode' = SUPER
          /\ mem' = [ram EXCEPT ![TIMER_COUNT] = ram[TIMER_RELOAD],
                                ![TICK_PC] = TickWord(next)]

\* An instruction that goes on at `next` and leaves mode, RAM and flags alone.
GoTo(next) == Retire(next, mode, mem, running, faulted)

SetReg(r, v) == regs' = [regs EXCEPT ![r] = v]

-------------------------------------------------------------------------------
(* Register instructions and jumps.                                        *)

Ldi == \E i \in Fetch("LDI") :
    /\ SetReg(i.rd, Mask(i.imm))
    /\ GoTo(FallThrough) /\ UNCHANGED <<img, fault, saved>>

Add == \E i \in Fetch("ADD") :
    /\ SetReg(i.rd, Mask(regs[i.rd] + regs[i.rs2]))
    /\ GoTo(FallThrough) /\ UNCHANGED <<img, fault, saved>>

Sub == \E i \in Fetch("SUB") :
    /\ SetReg(i.rd, Mask(regs[i.rd] - regs[i.rs2]))
    /\ GoTo(FallThrough) /\ UNCHANGED <<img, fault, saved>>

\* BitOp is a constant; the first conjunct is its type, which no finite
\* evaluation of an assumption could state for every pair of integers.
Bitwise == \E op \in BitOps : \E i \in Fetch(op) :
    /\ BitOp(op, regs[i.rd], regs[i.rs2]) \in Int
    /\ SetReg(i.rd, BitOp(op, regs[i.rd], regs[i.rs2]))
    /\ GoTo(FallThrough) /\ UNCHANGED <<img, fault, saved>>

Cmp == \E i \in Fetch("CMP") :
    /\ SetReg(0, IF regs[i.rd] = regs[i.rs2] THEN 1 ELSE 0)
    /\ GoTo(FallThrough) /\ UNCHANGED <<img, fault, saved>>

Prt == \E i \in Fetch("PRT") :
    GoTo(FallThrough) /\ UNCHANGED <<regs, img, fault, saved>>

Jmp == \E i \in Fetch("JMP") :
    GoTo(Target(i.imm)) /\ UNCHANGED <<regs, img, fault, saved>>

Jz == \E i \in Fetch("JZ") :
    /\ GoTo(IF regs[0] # 0 THEN Target(i.imm) ELSE FallThrough)
    /\ UNCHANGED <<regs, img, fault, saved>>

Jmpr == \E i \in Fetch("JMPR") :
    GoTo(Target(regs[i.rd])) /\ UNCHANGED <<regs, img, fault, saved>>

-------------------------------------------------------------------------------
(* Loads and stores.                                                       *)

\* Seeded faults: an address not cut to a word; the pc of the next instruction.
FaultWordsUnmasked(addr) == [addr |-> 4 * addr, pc |-> Mask(pc)]
FaultWordsNext(addr) == [addr |-> Mask(4 * addr), pc |-> Mask(FallThrough)]
FaultWords(addr) == [addr |-> Mask(4 * addr), pc |-> Mask(pc)]
Recorded(f) == IF FAULT_PC \in DOMAIN mem
               THEN [mem EXCEPT ![FAULT_ADDR] = f.addr, ![FAULT_PC] = f.pc]
               ELSE mem

\* A page fault vectors to the kernel, or stops the machine without a vector.
PageFault(a) ==
    LET f == FaultWords(a) IN
    /\ fault' = f
    /\ \/ /\ Ram(KFAULT_PC) # 0
          /\ Retire(Target(mem[KFAULT_PC]), SUPER, Recorded(f), running, TRUE)
       \/ /\ Ram(KFAULT_PC) = 0
          /\ Stop /\ mem' = Recorded(f) /\ mode' = SUPER /\ faulted' = TRUE
    /\ UNCHANGED <<regs, img, saved>>

\* A box fault always vectors to the word in KFAULT_PC.
BoxFault(a) ==
    LET f == FaultWords(a) IN
    /\ fault' = f
    /\ Retire(Target(mem[KFAULT_PC]), SUPER, Recorded(f), running, TRUE)
    /\ UNCHANGED <<regs, img, saved>>

LdPaged == \E i \in Fetch("LD") :
    LET a == regs[i.rs2]
        e == Pte(a)
    IN  /\ Paged(a)
        /\ \/ ~Readable(e) /\ PageFault(a)
           \/ /\ Readable(e)
              /\ SetReg(i.rd, IF InPixels(e) THEN MemRead(Physical(e, a))
                              ELSE Ram(Physical(e, a)))
              /\ GoTo(FallThrough) /\ UNCHANGED <<img, fault, saved>>

Ld == \E i \in Fetch("LD") :
    LET a == regs[i.rs2] IN
    /\ ~Paged(a)
    /\ SetReg(i.rd, IF InFsWindow(a) THEN FsRead(a)
                    ELSE IF a \in DOMAIN mem THEN mem[a] ELSE regs[i.rd])
    /\ GoTo(FallThrough) /\ UNCHANGED <<img, fault, saved>>

StPaged == \E i \in Fetch("ST") :
    LET a == regs[i.rs1]
        v == regs[i.rs2]
        e == Pte(a)
        p == Physical(e, a)
    IN  /\ Paged(a)
        /\ \/ ~Storable(e) /\ PageFault(a)
           \/ /\ Storable(e) /\ InPixels(e)
              /\ img' = MemWriteImage(p, v)
              /\ Retire(FallThrough, mode, MemWriteRam(p, v), running, faulted)
              /\ UNCHANGED <<regs, fault, saved>>
           \/ /\ Storable(e) /\ ~InPixels(e)
              /\ Retire(FallThrough, mode, [Grown(p) EXCEPT ![p] = Mask(v)], running, faulted)
              /\ UNCHANGED <<regs, img, fault, saved>>

\* Without paging: a USER store outside the box faults; the others go to the
\* window, to the RAM, or (past the RAM) fault.
\* Seeded fault: a word address where the box wants bytes.
ConfinedByWord(a) == mode = USER => AddrInBox(a)
Confined(a) == mode = USER => AddrInBox(4 * a)

St == \E i \in Fetch("ST") :
    LET a == regs[i.rs1]
        v == regs[i.rs2]
    IN  /\ ~Paged(a)
        /\ \/ ~Confined(a) /\ BoxFault(a)
           \/ /\ Confined(a) /\ InFsWindow(a)
              /\ img' = FsImage(a, v)
              /\ Retire(FallThrough, mode, FsMirror(a, v), running, faulted)
              /\ UNCHANGED <<regs, fault, saved>>
           \/ /\ Confined(a) /\ ~InFsWindow(a) /\ a \in DOMAIN mem
              /\ Retire(FallThrough, mode, [mem EXCEPT ![a] = Mask(v)], running, faulted)
              /\ UNCHANGED <<regs, img, fault, saved>>
           \/ /\ Confined(a) /\ ~InFsWindow(a) /\ a \notin DOMAIN mem
              /\ \/ mode = USER /\ IsoEnabled /\ BoxFault(a)
                 \/ /\ ~(mode = USER /\ IsoEnabled)
                    /\ fault' = FaultWords(a)
                    /\ Retire(FallThrough, mode, mem, FALSE, TRUE)
                    /\ UNCHANGED <<regs, img, saved>>

-------------------------------------------------------------------------------
(* The stack: r31 indexes image pixels, and a return address is a pixel    *)
(* number where the other packed words are cell numbers.                   *)

Push == \E i \in Fetch("PUSH") :
    LET a == regs[SP] - 1
        v == IF i.rd = SP THEN a ELSE regs[i.rd]
    IN  /\ a >= StackFloor
        /\ SetReg(SP, a)
        /\ img' = MemWriteImage(a, v)
        /\ Retire(FallThrough, mode, MemWriteRam(a, v), running, faulted)
        /\ UNCHANGED <<fault, saved>>

Pop == \E i \in Fetch("POP") :
    LET v == MemRead(regs[SP]) IN
    /\ regs' = IF i.rd = SP THEN [regs EXCEPT ![SP] = v + 1]
               ELSE [regs EXCEPT ![i.rd] = v, ![SP] = @ + 1]
    /\ GoTo(FallThrough) /\ UNCHANGED <<img, fault, saved>>

\* CALL and CALLR: push the fall-through position, go to the target.
CallTo(packed) ==
    LET a == regs[SP] - 1 IN
    /\ a >= StackFloor
    /\ SetReg(SP, a)
    /\ img' = MemWriteImage(a, FallThrough)
    /\ Retire(Target(packed), mode, MemWriteRam(a, FallThrough), running, faulted)
    /\ UNCHANGED <<fault, saved>>

Call == \E i \in Fetch("CALL") : CallTo(i.imm)

Callr == \E i \in Fetch("CALLR") :
    CallTo(IF i.rd = SP THEN regs[SP] - 1 ELSE regs[i.rd])

\* A zero return address halts on the spot; step() still returns True.
Ret == \E i \in Fetch("RET") :
    LET p == MemRead(regs[SP]) IN
    /\ \/ /\ p = 0
          /\ Retire(pc, mode, mem, FALSE, faulted) /\ UNCHANGED regs
       \/ /\ p # 0
          /\ SetReg(SP, regs[SP] + 1) /\ GoTo(p)
    /\ UNCHANGED <<img, fault, saved>>

-------------------------------------------------------------------------------
(* Crossing the privilege boundary.                                        *)

KsysPc == IF IsoEnabled THEN mem[KSYS_PC] ELSE 0

\* E-K2: marshal the arguments, snapshot the registers, enter the dispatcher.
SyscallTrap == \E i \in Fetch("SYSCALL") :
    /\ KsysPc # 0
    /\ saved' = <<regs>>
    /\ Retire(Target(KsysPc), SUPER,
              [mem EXCEPT ![SYS_N] = Mask(regs[17]), ![SYS_A0] = Mask(regs[10]),
                          ![SYS_A1] = Mask(regs[11]),
                          ![SYSCALL_PC] = PackCell(FallThrough)],
              running, faulted)
    /\ UNCHANGED <<regs, img, fault>>

\* _handle_syscall, the host's services when no dispatcher is installed: the
\* result goes to rd; READ zeroes r2 words from r1 on, EXIT stops the machine.
HostKnown(n) == n \in 1 .. 6 \/ n \in 16 .. 255
ReadSpan == {a \in regs[1] .. (regs[1] + regs[2] - 1) : TRUE}
PixelsOf(a) == IF InFsWindow(a) THEN {FsLowPix(a), FsHighPix(a)} ELSE {a % Pixels}

SyscallHost == \E i \in Fetch("SYSCALL") :
    /\ KsysPc = 0
    /\ SetReg(i.rd, IF i.imm = 5 THEN regs[1] ELSE IF HostKnown(i.imm) THEN 0 ELSE -1)
    /\ img' = IF i.imm = 2
              THEN [p \in Pix |-> IF \E a \in ReadSpan : p \in PixelsOf(a)
                                  THEN 0 ELSE img[p]]
              ELSE img
    /\ Retire(FallThrough, mode,
              IF i.imm = 2
              THEN [w \in DOMAIN mem |-> IF w \in ReadSpan /\ InFsWindow(w)
                                         THEN 0 ELSE mem[w]]
              ELSE mem,
              running /\ i.imm # 5, faulted)
    /\ UNCHANGED <<fault, saved>>

\* Seeded fault: the snapshot is dropped, not restored.
SysretForgets == \E i \in Fetch("SYSRET") :
    /\ IsoEnabled
    /\ regs' = [regs EXCEPT ![10] = mem[SYS_A0]] /\ saved' = <<>>
    /\ Retire(Target(mem[SYSCALL_PC]), USER, mem, running, faulted)
    /\ UNCHANGED <<img, fault>>

\* The dispatcher's return: the snapshot, its result in r10, USER, the saved pc.
Sysret == \E i \in Fetch("SYSRET") :
    /\ IsoEnabled
    /\ regs' = [(IF saved = <<>> THEN regs ELSE saved[1]) EXCEPT ![10] = mem[SYS_A0]]
    /\ saved' = <<>>
    /\ Retire(Target(mem[SYSCALL_PC]), USER, mem, running, faulted)
    /\ UNCHANGED <<img, fault>>

\* switch_to's last jump: SUPER, or USER when the kernel armed the latch.
Kjmp == \E i \in Fetch("KJMP") :
    LET armed == IsoEnabled /\ mem[MODE_LATCH] = USER IN
    /\ Retire(Target(regs[i.rd]),
              IF armed THEN USER ELSE IF IsoEnabled THEN SUPER ELSE mode,
              IF armed THEN [mem EXCEPT ![MODE_LATCH] = 0] ELSE mem,
              running, faulted)
    /\ UNCHANGED <<regs, img, fault, saved>>

-------------------------------------------------------------------------------
(* Block transfers between RAM and consecutive registers.                  *)

ParallelLd == \E i \in Fetch("PARALLEL_LD") :
    LET addr == i.imm % PixMod
        count == IF i.rs2 > 0 THEN i.rs2 ELSE i.imm \div PixMod
    IN  /\ regs' = [r \in Reg |-> IF i.rd <= r /\ r < i.rd + count
                                  THEN Ram(addr + (r - i.rd)) ELSE regs[r]]
        /\ GoTo(FallThrough) /\ UNCHANGED <<img, fault, saved>>

\* The store reaches the RAM and, at the same number, the image's pixels.
ParallelSt == \E i \in Fetch("PARALLEL_ST") :
    LET addr == regs[i.rs1]
        count == IF i.imm > 0 THEN i.imm ELSE i.rs2
        Hit(a) == a \in DOMAIN mem /\ addr <= a /\ a < addr + count
        Val(a) == IF i.rd + (a - addr) \in Reg THEN Mask(regs[i.rd + (a - addr)]) ELSE 0
    IN  /\ img' = [p \in Pix |-> IF Hit(p) THEN Val(p) % PixMod ELSE img[p]]
        /\ Retire(FallThrough, mode,
                  [a \in DOMAIN mem |-> IF Hit(a) THEN Val(a) ELSE mem[a]],
                  running, faulted)
        /\ UNCHANGED <<regs, fault, saved>>

\* The lanes of an elementwise operation run in order: a lane reads what the
\* lanes before it wrote, and a lane with a register past the file is skipped.
Lanes(i) ==
    LET count == IF i.imm > 0 THEN i.imm ELSE 1
        Lane(n) == n < count /\ {i.rd + n, i.rs1 + n, i.rs2 + n} \subseteq Reg
        after[n \in 0 .. count] ==
            IF n = 0 THEN regs
            ELSE IF ~Lane(n - 1) THEN after[n - 1]
            ELSE LET a == after[n - 1][i.rs1 + n - 1]
                     b == after[n - 1][i.rs2 + n - 1]
                 IN  [after[n - 1] EXCEPT ![i.rd + n - 1] =
                          IF i.op = "PARALLEL_ADD" THEN a + b ELSE a - b]
    IN  after[count]

\* The results are not masked.  The first conjunct is the type of the
\* recursion's result, which the proofs cannot derive.
ParallelLanes == \E i \in Fetch("PARALLEL_ADD") \cup Fetch("PARALLEL_SUB") :
    /\ Lanes(i) \in [Reg -> Int]
    /\ regs' = Lanes(i)
    /\ GoTo(FallThrough) /\ UNCHANGED <<img, fault, saved>>

ReduceSum(addr, count) ==
    LET total[n \in 0 .. count] ==
            IF n = 0 THEN 0 ELSE total[n - 1] + Ram(addr + n - 1)
    IN  Mask(total[count])

ParallelReduceSum == \E i \in Fetch("PARALLEL_REDUCE_SUM") :
    LET sum == ReduceSum(i.imm % PixMod, IF i.rs2 > 0 THEN i.rs2 ELSE i.imm \div PixMod)
    IN  /\ sum \in Word
        /\ SetReg(i.rd, sum)
        /\ GoTo(FallThrough) /\ UNCHANGED <<img, fault, saved>>

-------------------------------------------------------------------------------
(* Stopping.                                                               *)

Unchanged == UNCHANGED <<mode, regs, mem, img, faulted, fault, saved>>

Halt == Fetch("HALT") # {} /\ Stop /\ Unchanged

\* An unknown color, or a position past the image.
Unknown == Fetch("UNKNOWN") # {} /\ Stop /\ Unchanged
OffImage == Stepping /\ Aligned /\ ~OnImage /\ Stop /\ Unchanged

\* An exception of step(): a misaligned pc, or SYSRET without the MMIO block.
Raise == stepped' = "raised" /\ UNCHANGED <<pc, running>> /\ Unchanged
Misaligned == Stepping /\ ~Aligned /\ Raise
SysretMissing == Fetch("SYSRET") # {} /\ ~IsoEnabled /\ Raise

-------------------------------------------------------------------------------
Init ==
    /\ pc = 0 /\ mode = SUPER
    /\ regs = [r \in Reg |-> 0]
    /\ mem \in RamInit
    /\ img = [p \in Pix |-> 0]
    /\ running = TRUE /\ stepped = "true"
    /\ faulted = FALSE /\ fault = [addr |-> 0, pc |-> 0]
    /\ saved = <<>>

Compute == Ldi \/ Add \/ Sub \/ Bitwise \/ Cmp \/ Prt
Branch == Jmp \/ Jz \/ Jmpr
Memory == Ld \/ LdPaged \/ St \/ StPaged
Parallel == ParallelLd \/ ParallelSt \/ ParallelLanes \/ ParallelReduceSum
Stack == Push \/ Pop \/ Call \/ Callr \/ Ret
Boundary == SyscallTrap \/ SyscallHost \/ Sysret \/ Kjmp
Ending == Halt \/ Unknown \/ OffImage \/ Misaligned \/ SysretMissing

Next == Compute \/ Branch \/ Memory \/ Parallel \/ Stack \/ Boundary \/ Ending

Spec == Init /\ [][Next]_vars
FairSpec == Spec /\ WF_vars(Next)

-------------------------------------------------------------------------------
(* The type invariant.  It carries what every step relies on: the RAM is   *)
(* an array that holds the MMIO block whole or not at all, and USER mode   *)
(* exists only where the block does.                                       *)
ControlOK ==
    /\ pc \in Nat
    /\ mode \in {SUPER, USER}
    /\ WholeRam(mem)
    /\ running \in BOOLEAN /\ stepped \in {"true", "false", "raised"}
    /\ faulted \in BOOLEAN
    /\ mode = USER => IsoEnabled

DataOK ==
    /\ regs \in [Reg -> Int]
    /\ img \in [Pix -> Pixel]
    /\ fault \in [addr : Word, pc : Word]
    /\ saved = <<>> \/ (saved = <<saved[1]>> /\ saved[1] \in [Reg -> Int])

TypeOK == ControlOK /\ DataOK

-------------------------------------------------------------------------------
(* Safety of the privilege boundary, for whatever program runs.            *)

\* The words the engine itself writes while a task runs.
EngineWords == {FAULT_ADDR, FAULT_PC, SYS_N, SYS_A0, SYS_A1, SYSCALL_PC,
                MODE_LATCH, TIMER_COUNT, TICK_PC}

\* What the kernel grants a task: its box, or, under paging, the words that a
\* user-writable entry of its page table maps.
Granted(a) ==
    IF PageBase = 0 THEN AddrInBox(4 * a)
    ELSE \E v \in 0 .. (PageWords * PageWords - 1) :
            LET e == Pte(v) IN Storable(e) /\ ~InPixels(e) /\ a = Physical(e, v)

(* While a task runs in USER mode, a RAM word changes only if the kernel   *)
(* granted it, or it is one of the words the engine reports to the kernel  *)
(* in, or it mirrors a pixel of the file-system window (PUSH and CALL      *)
(* write there unchecked): no sequence of stores, calls, traps and ticks   *)
(* lets a task write a kernel word.  PARALLEL_ST, which the engine does    *)
(* not check, is excluded.                                                 *)
UserConfined ==
    [][(mode = USER /\ Fetch("PARALLEL_ST") = {}) =>
          \A a \in DOMAIN mem :
             mem'[a] # mem[a] => Granted(a) \/ a \in EngineWords \/ InFsWindow(a)]_vars

\* Where the machine goes on after instruction i, read before the step: a jump,
\* a taken JZ, a call and a return go on at their target and nowhere else.
SequelOf(i) ==
    CASE i.op \in {"JMP", "CALL"} \/ (i.op = "JZ" /\ regs[0] # 0) -> Target(i.imm)
      [] i.op \in {"JMPR", "KJMP"} -> Target(regs[i.rd])
      [] i.op = "CALLR" -> Target(IF i.rd = SP THEN regs[SP] - 1 ELSE regs[i.rd])
      [] i.op = "RET" -> MemRead(regs[SP])
      [] i.op = "SYSRET" -> Target(Ram(SYSCALL_PC))
      [] OTHER -> FallThrough

\* One place when the cell under pc holds one instruction.
Sequel == {SequelOf(i) : i \in Fetched}

\* The four ways out of USER mode, each with what the kernel is told.
FaultEntry ==
    /\ faulted' /\ fault'.pc = Mask(pc)
    /\ pc' = pc \/ pc' = Target(mem[KFAULT_PC])
    /\ mem'[FAULT_PC] = Mask(pc)
    /\ \A a \in DOMAIN mem \ {FAULT_ADDR, FAULT_PC} : mem'[a] = mem[a]
    /\ UNCHANGED <<regs, img, saved>>
SyscallEntry ==
    /\ pc' = Target(mem[KSYS_PC]) /\ mem[KSYS_PC] # 0
    /\ mem'[SYSCALL_PC] = PackCell(FallThrough)
    /\ saved' = <<regs>> /\ regs' = regs
TickEntry ==
    /\ ~faulted' /\ running'
    /\ pc' = Target(mem'[KTICK_PC]) /\ mem'[KTICK_PC] # 0
    /\ mem'[TIMER_COUNT] = mem'[TIMER_RELOAD]
    /\ \E p \in Sequel : mem'[TICK_PC] = PackCell(p)
SwitchEntry ==
    /\ \E i \in Fetch("KJMP") : pc' = Target(regs[i.rd])
    /\ mem[MODE_LATCH] # USER /\ UNCHANGED <<regs, mem, img, saved>>

(* A task leaves USER mode only by a fault, a system call or a tick, each  *)
(* at the kernel's own vector, or by the KJMP of switch_to.  A call leaves *)
(* the next cell in SYSCALL_PC; a tick leaves in TICK_PC the place where   *)
(* the interrupted instruction goes on (the target, when it jumped); and a *)
(* fault is precise: the faulting access changed no register, no pixel and *)
(* no word but the two that report it.                                     *)
TrapEntry ==
    [][(mode = USER /\ mode' = SUPER) =>
          FaultEntry \/ SyscallEntry \/ TickEntry \/ SwitchEntry]_vars

(* The kernel is never preempted: a step begun in SUPER does not end at    *)
(* the tick vector by way of the timer, so it never rewrites TICK_PC or    *)
(* counts the timer down unless the kernel stores to those words itself.   *)
Storing == \E op \in {"ST", "PARALLEL_ST", "PUSH", "CALL", "CALLR", "SYSCALL"} :
               Fetch(op) # {}
KernelUnpreempted ==
    [][(mode = SUPER /\ ~Storing /\ IsoEnabled) =>
          /\ mem'[TICK_PC] = mem[TICK_PC]
          /\ mem'[TIMER_COUNT] = mem[TIMER_COUNT]]_vars

(* A cleared running flag ends the program: no later step changes the      *)
(* machine.  The loop of run() has it; the oracle's loop, which asks only  *)
(* what step() returned, does not.                                         *)
StopIsFinal == [][running]_vars
===============================================================================
