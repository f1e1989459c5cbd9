------------------------------ MODULE MCGlyphCPU ------------------------------
(***************************************************************************)
(* One image for GlyphCPU with three programs on it; cells 0..2 jump to    *)
(* the one whose first cell the loader left in RAM word 1.  A cell holds   *)
(* every instruction of a small set, so that a run covers many             *)
(* straight-line programs, each on every memory written for it.            *)
(***************************************************************************)
EXTENDS GlyphCPU, Sequences

CONSTANT KFaults   \* the fault vectors a loader may have seeded

I(o, a, b, d, n) == [op |-> o, rs1 |-> a, rs2 |-> b, rd |-> d, imm |-> n]
Ldi1(d, n) == I("LDI", 0, 0, d, n)
Op1(o) == I(o, 0, 0, 0, 0)

MCReg == {0, 1, 2, 10, 11, 17, 28, 30, 31}
MCHilbFrame == [f \in 0 .. 1023 |-> 3 - (f % 4)]
MCBitOp(op, a, b) == IF op = "AND" /\ a # b THEN 0 ELSE a
MCStackFloor == -2

\* Cells 3..8.  Host services, stores past the RAM, block transfers, the stack,
\* every way to stop; written for a RAM without the MMIO block.
BareText ==
    << {Ldi1(1, 7), Ldi1(1, 41)},
       {Ldi1(2, 1), I("SUB", 0, 1, 2, 0)},
       {I("ST", 1, 2, 0, 0), I("PUSH", 0, 0, 2, 0), I("CALL", 0, 0, 0, 7),
        I("CALLR", 0, 0, 31, 0), I("PARALLEL_ST", 1, 0, 1, 2), I("SYSCALL", 0, 0, 2, 2)},
       {I("POP", 0, 0, 10, 0), I("RET", 0, 0, 0, 0), I("LD", 0, 1, 2, 0),
        I("PARALLEL_LD", 0, 2, 10, 1), I("PARALLEL_ADD", 1, 0, 0, 3),
        I("PARALLEL_SUB", 1, 0, 10, 2), I("PARALLEL_REDUCE_SUM", 0, 0, 2, 256 * 3 + 5),
        I("AND", 0, 1, 2, 0), Op1("SYSRET"), I("KJMP", 0, 0, 1, 0)},
       {I("SYSCALL", 0, 0, 2, 1), I("SYSCALL", 0, 0, 2, 5), I("SYSCALL", 0, 0, 2, 9),
        Op1("UNKNOWN"), Op1("PRT"), I("RET", 0, 0, 0, 0), I("JMPR", 0, 0, 1, 0)},
       {Op1("HALT"), I("JMP", 0, 0, 0, 99)} >>

\* Cells 9..24.  A kernel that boots a task into its box and tile; the fault
\* handler is cell 22, the dispatcher cell 20, the tick handler cell 24.
BoxText ==
    << {Ldi1(28, 8)}, {Ldi1(1, 1)}, {I("ST", 28, 1, 0, 0)}, {Ldi1(30, 14)},
       {I("KJMP", 0, 0, 30, 0)},
       {Ldi1(1, n) : n \in {0, 2, 4, 6, 12, 40}},
       {Ldi1(31, 3), I("ADD", 0, 1, 2, 0), I("LD", 0, 1, 2, 0), I("CMP", 0, 1, 2, 0)},
       {I("ST", 1, 1, 0, 0), I("SYSCALL", 0, 0, 1, 0), I("CALLR", 0, 0, 28, 0),
        I("CALL", 0, 0, 0, 18), I("PUSH", 0, 0, 31, 0)},
       {I("JMP", 0, 0, 0, 19), I("KJMP", 0, 0, 28, 0)},
       {I("JZ", 0, 0, 0, 16), I("POP", 0, 0, 31, 0)},
       {Op1("HALT")},
       {I("PUSH", 0, 0, 1, 0), Op1("SYSRET")}, {Op1("SYSRET")},
       {Op1("HALT"), I("JMP", 0, 0, 0, 23)}, {Op1("HALT")},
       {I("JMP", 0, 0, 0, 23)} >>

\* Cells 25..40.  A kernel and a task under paging; the boot code leaves the
\* entry of words 12..15 in the image only, with PUSH, and turns paging on.
PageText ==
    << {Ldi1(31, 8)}, {Ldi1(1, 61), Ldi1(1, 59)}, {I("PUSH", 0, 0, 1, 0)},
       {Ldi1(28, 27)}, {Ldi1(2, 4)}, {I("ST", 28, 2, 0, 0)},
       {Ldi1(28, 8)}, {Ldi1(2, 1)}, {I("ST", 28, 2, 0, 0), Op1("PRT")},
       {Ldi1(30, 36)}, {I("KJMP", 0, 0, 30, 0)},
       {Ldi1(1, n) : n \in {1, 5, 9, 13, 300}},
       {I("LD", 0, 1, 2, 0), Ldi1(2, 70)},
       {I("ST", 1, 2, 0, 0), I("LD", 0, 1, 10, 0)},
       {Op1("HALT")}, {Op1("HALT")} >>

Program == <<{Ldi1(30, 1)}, {I("LD", 0, 30, 30, 0)}, {I("JMPR", 0, 0, 30, 0)}>>
           \o BareText \o BoxText \o PageText
MCText == [c \in 0 .. 40 |-> Program[c + 1]]

Seeded(F) == [a \in 0 .. 31 |-> IF a \in DOMAIN F THEN F[a] ELSE 0]
Vectors(entry, kf, rl) == [a \in {1, 9, 10, 23, 24, 25} |->
    CASE a = 1 -> entry [] a = 9 -> kf [] a = 10 -> 20 [] a = 23 -> 24 [] OTHER -> rl]
Merge(F, G) == [a \in DOMAIN F \cup DOMAIN G |-> IF a \in DOMAIN F THEN F[a] ELSE G[a]]

\* Box 0 is the word 0, box 1 the words 2 and 3, box 2 words past the RAM; the
\* tile is the word 6 (grid row 1, column 2).
BoxRam == {Seeded(Merge(Vectors(9, kf, rl),
    [a \in {11, 12, 13, 14, 18, 19, 28, 29, 30, 31} |->
        CASE a = 12 -> 4 [] a = 13 -> 8 [] a = 14 -> 16 [] a = 18 -> 128
          [] a = 19 -> 200 [] a = 28 -> 1 [] a = 29 -> 2 [] a \in {30, 31} -> 1
          [] OTHER -> 0])) : kf \in KFaults, rl \in {2, 3, 4, 9}}

\* The page table is at word 4 (entries of words 0..3, 4..7, 8..11, 12..15).
PageRam == {Seeded(Merge(Vectors(25, kf, 9), [a \in {4, 5, 6} |->
    CASE a = 4 -> 32 * 1 + 1 + 2 + 4 [] a = 5 -> 32 * b + 7 + t
      [] OTHER -> 32 * 2 + f])) :
    kf \in KFaults \cup {0}, b \in {0, 8}, t \in {0, 8}, f \in {1, 3, 5}}
BareRam == {[a \in 0 .. 7 |-> IF a = 1 THEN 3 ELSE 0]}
MCRamInit == BareRam \cup BoxRam \cup PageRam
===============================================================================
