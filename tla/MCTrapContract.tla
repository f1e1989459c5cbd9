---------------------------- MODULE MCTrapContract ----------------------------
(***************************************************************************)
(* A small kernel for TrapContract: one boot, one handler per vector, and  *)
(* a task of six cells, two of which may hold several instructions.  The   *)
(* RAM has 32 words, 0..7 for data and the MMIO block from word 8 on.      *)
(***************************************************************************)
EXTENDS TrapContract, Sequences

CONSTANTS TaskText, \* the six cells of the task
          Vectors   \* the kernel words a loader seeds

I(o, a, b, d, n) == [op |-> o, rs1 |-> a, rs2 |-> b, rd |-> d, imm |-> n]
LdiOf(d, n) == {I("LDI", 0, 0, d, n)}

MCReg == {0, 1, 2, 10, 11, 17, 28, 29, 30, 31}
MCStackFloor == -1
MCScratch == {28, 29, 30}
MCHilbFrame == [f \in 0 .. 255 |-> f]
MCBitOp(op, a, b) == IF a = b THEN a ELSE 0

\* Boot, tick handler, dispatcher (r10 becomes 7), fault handler, task.
BootText ==
    <<LdiOf(28, 8), LdiOf(29, 1), {I("ST", 28, 29, 0, 0)}, LdiOf(30, 17),
      {I("KJMP", 0, 0, 30, 0)}>>
TickText ==
    <<LdiOf(30, 26), {I("LD", 0, 30, 30, 0)}, LdiOf(28, 8), LdiOf(29, 1),
      {I("ST", 28, 29, 0, 0)}, {I("KJMP", 0, 0, 30, 0)}>>
SysText ==
    <<LdiOf(28, 21), LdiOf(1, 7), {I("ST", 28, 1, 0, 0)}, {I("SYSRET", 0, 0, 0, 0)}>>
FaultText ==
    <<LdiOf(30, 17), {I("JMP", 0, 0, 0, 7), I("HALT", 0, 0, 0, 0)}>>
KernelText == BootText \o TickText \o SysText \o FaultText

MCText == [c \in 0 .. 22 |-> IF c < 17 THEN KernelText[c + 1] ELSE TaskText[c - 16]]

\* A fault-free task: stores in its box, computes, calls, branches.
QuietTask ==
    << LdiOf(1, 2) \cup LdiOf(1, 3) \cup {I("SYSCALL", 0, 0, 10, 0)},
       {I("ST", 1, 1, 0, 0), I("LD", 0, 1, 2, 0), I("CMP", 0, 1, 2, 0),
        I("SYSCALL", 0, 0, 10, 0)},
       {I("JZ", 0, 0, 0, 17)}, {I("CALL", 0, 0, 0, 22)}, {I("JMP", 0, 0, 0, 17)},
       {I("RET", 0, 0, 0, 0)} >>

Ram0(kfault, reload) ==
    [a \in 0 .. 31 |->
        CASE a = 9 -> kfault  [] a = 10 -> 11
          [] a = 11 -> 0      [] a = 12 -> 16
          [] a = 23 -> 5      [] a = 24 -> reload [] a = 25 -> reload
          [] OTHER -> 0]
MCRamInit == {Ram0(v[1], v[2]) : v \in Vectors}
QuietVectors == {<<15, n>> : n \in 1 .. 4}
===============================================================================
