-------------------------------- MODULE Preempt --------------------------------
(***************************************************************************)
(* The preemptive kernel of GH-16 and the context_switch mode of GH-17     *)
(* (tools/glyph_gpt/baker.py): one step per instruction for the text that  *)
(* runs in USER mode, where a tick may fall between any two instructions,  *)
(* and one action per handler for the text that runs in SUPER mode, where  *)
(* the timer is quiet.  The tick handler saves r1, r2 and TICK_PC.         *)
(*                                                                         *)
(* A word is a pair <<high half, low half>>; a pc is an index into the     *)
(* text of the leg.  The UART of task A and the count of ticks are left    *)
(* out, and so is the sum that the spinning task of GH-16 computes.        *)
(***************************************************************************)
EXTENDS Integers, Sequences

CONSTANTS Legs,   \* kernels: "plain", "save" and "fault" (GH-16), "paged" (GH-17)
          Quanta  \* values of timer_quantum, the TIMER_RELOAD of the image

ASSUME LegAssumption == Legs \subseteq {"plain", "save", "fault", "paged"}
ASSUME QuantaAssumption == Quanta \subseteq Nat \ {0}

VARIABLES
    leg, quantum,  \* fixed when the image is baked
    pc, mode,      \* an index of the text or a SUPER entry; "USER" or "SUPER"
    regs, mem,
    count,         \* TIMER_COUNT
    running, faulted,
    slot,          \* history: the task whose context the save words hold
    torn           \* history: a tick hid a register that its victim still needed

fixed == <<leg, quantum>>
vars == <<fixed, pc, mode, regs, mem, count, running, faulted, slot, torn>>

-------------------------------------------------------------------------------
(* Words, registers and instructions.                                      *)
SAVE1 == 700
SAVE2 == 701
EXIT_A == 703
VERIFY == 704
TURN == 705
FLAG == 706
SAVED_PC == 708
UART_B == 720
UART_B_LEN == 722
EXIT_B == 723
FAULT_WORD == 731
STATUS == 950
HIGH_A == 2048
HIGH_B == 4096
LATCH == 8192
TIMER_COUNT == 8208
TICK_PC == 8210
Words == {SAVE1, SAVE2, EXIT_A, VERIFY, TURN, FLAG, SAVED_PC, UART_B, UART_B_LEN,
          EXIT_B, FAULT_WORD, STATUS, HIGH_A, HIGH_B, LATCH, TICK_PC}
Reg == {0, 1, 2, 3, 4, 5, 6, 7, 9, 13, 14, 15, 30}

W(n) == <<0, n>>
FEEDCAFE == <<65261, 51966>>
FEED0017 == <<65261, 23>>
StatusOk(l) == <<51966, IF l = "paged" THEN 23 ELSE 22>>

I(op, r, x) == [op |-> op, r |-> r, x |-> x]
Ldi(r, n) == I("LDI", r, n)
Ldi4 == <<Ldi(4, 16)>>
\* A constant of two halves: LDI, SHL by r4, LDI, OR (or ADD, on disjoint halves).
Load(r, t, v) == <<Ldi(r, v[1]), I("SHL", r, 4), Ldi(t, v[2]), I("OR", r, t)>>
\* The first one of a text sets r4 after its LDI.
LoadFirst(r, t, v) == <<Ldi(r, v[1])>> \o Ldi4 \o Tail(Load(r, t, v))
St(r) == <<I("ST", r, 15)>>
Store(w, n) == <<Ldi(15, w), Ldi(14, n)>> \o St(14)
Go(target) == <<Ldi(30, target), I("KJMP", 30, 0)>>

\* Entries of the SUPER text, and kdone, which heads the text: a task that gives
\* up jumps there and stays in USER mode.
KMain == -1
KTick == -2
KFault == -3
KResume == -4
KDone == 1
DoneText(l) == LoadFirst(3, 9, StatusOk(l)) \o <<Ldi(15, STATUS)>> \o St(3) \o <<I("HALT", 0, 0)>>

\* Compare at `here`; equal goes on after the JMP, unequal gives up.
Check(a, b, here) == <<I("CMP", a, b), I("JZ", 0, here + 3), I("JMP", 0, KDone)>>
Wait(here) == <<Ldi(15, FLAG), I("LD", 14, 15), I("XOR", 13, 13), I("CMP", 14, 13),
                I("JZ", 0, here)>>

TaskA == Len(DoneText("plain")) + 1
R1A == <<4386, 13124>>
R2A == <<21862, 30600>>
HighA == <<43690, 4369>>
SaveTaskA ==
    LET start == LoadFirst(1, 5, R1A) \o Load(2, 5, R2A)
        wait  == TaskA + Len(start)
        m1 == Ldi4 \o Load(6, 5, R1A)   c1 == wait + 5 + Len(m1)
        m2 == Load(7, 5, R2A)           c2 == c1 + 3 + Len(m2)
    IN  start \o Wait(wait) \o m1 \o Check(1, 6, c1) \o m2 \o Check(2, 7, c2)
        \o Load(14, 5, FEEDCAFE) \o <<Ldi(15, VERIFY)>> \o St(14)
        \o <<Ldi(15, EXIT_A), Ldi(14, FEEDCAFE[1]), I("SHL", 14, 4)>> \o St(14) \o Go(KDone)
PagedTaskA ==
    LET start == Ldi4 \o <<Ldi(15, HIGH_A)>> \o Load(14, 5, HighA) \o St(14)
        wait  == TaskA + Len(start)
        m == <<Ldi(15, HIGH_A), I("LD", 1, 15)>> \o Ldi4 \o Load(14, 5, HighA)
    IN  start \o Wait(wait) \o m \o Check(1, 14, wait + 5 + Len(m))
        \o <<Ldi(15, VERIFY)>> \o Load(14, 5, FEED0017) \o St(14) \o Go(KDone)
TaskAText(l) ==
    CASE l = "save"  -> SaveTaskA
      [] l = "paged" -> PagedTaskA
      [] l = "plain" -> <<I("XOR", 1, 1), Ldi(2, 1), I("SUM", 1, 2), I("JMP", 0, TaskA + 2)>>
      [] l = "fault" -> Store(TIMER_COUNT, 0) \o <<I("HALT", 0, 0)>>

PACK_B == 16962
R1B == <<57005, 48879>>
R2B == <<47789, 61453>>
HighB == <<48059, 8738>>
Junk1 == 9999
Junk2 == 8888
WriteB == Store(UART_B, PACK_B) \o Store(UART_B_LEN, 4) \o Store(EXIT_B, 7)
TaskBText(l) ==
    CASE l = "save"  -> LoadFirst(1, 5, R1B) \o Load(2, 5, R2B)
                          \o WriteB \o Store(FLAG, 1) \o Go(KResume)
      [] l = "paged" -> Ldi4 \o <<Ldi(15, HIGH_B)>> \o Load(14, 5, HighB)
                          \o St(14) \o <<Ldi(1, Junk1), Ldi(2, Junk2)>>
                          \o Store(FLAG, 1) \o Go(KResume)
      [] OTHER         -> WriteB \o Go(KDone)
Program == [l \in {"plain", "save", "fault", "paged"} |->
               DoneText(l) \o TaskAText(l) \o TaskBText(l)]
Text == Program[leg]
Saving == leg \in {"save", "paged"}   \* the legs that save a context
TaskB == TaskA + Len(TaskAText(leg))
InTaskB(p) == p \in TaskB .. Len(Text)
\* Task A's loop until the flag is set, after its first instruction.
WaitAt == TaskA + (IF leg = "save" THEN 9 ELSE 7)
InWait(p) == Saving /\ p \in WaitAt + 1 .. WaitAt + 4
\* The instructions after which task B's flag is set.
Slice == CASE leg = "save" -> 21 [] leg = "paged" -> 12 [] OTHER -> 11

-------------------------------------------------------------------------------
(* The words a task may store to, and those it may load from: the boxes of *)
(* GH-16, which confine stores only, and the pages of GH-17.               *)
Mapped(w) == w \div 256 \in {0, 1, 2, 3, 8, 16}
Storable(w) == IF leg = "paged" THEN Mapped(w) ELSE w \in (700 .. 716) \cup (718 .. 734)
Loadable(w) == leg = "paged" => Mapped(w)

\* The half that two ORed halves give; where both have bits it is neither's.
Mixed == 65536
OrHalf(a, b) == IF a = 0 \/ a = b THEN b ELSE IF b = 0 THEN a ELSE Mixed
Or(v, u) == <<OrHalf(v[1], u[1]), OrHalf(v[2], u[2])>>
Flag(b) == W(IF b THEN 1 ELSE 0)
\* Seeded fault: the handler asks for the turn, which only GH-16 keeps.
TurnTaken == mem[TURN] # W(0)
\* Seeded fault: the branch of the handler is inverted.
FlagClear == mem[FLAG] = W(0)
FlagSet == mem[FLAG] # W(0)

\* What a tick destroys of the context it cuts: the scratch of the handler, and
\* before the flag is set also what task B loads before A runs on.
Clobbered == {0, 13, 14, 15, 30} \cup (IF FlagSet THEN {} ELSE {5})
Reads(i) ==
    CASE i.op \in {"SHL", "OR", "CMP"} -> {i.r, i.x}
      [] i.op = "ST" -> {i.r, 15}      [] i.op = "LD" -> {15}
      [] i.op = "JZ" -> {0}            [] i.op = "KJMP" -> {30}
      [] OTHER -> {}
Writes(i) ==
    CASE i.op \in {"LDI", "SHL", "OR", "XOR", "LD"} -> {i.r}
      [] i.op = "CMP" -> {0}           [] OTHER -> {}
\* The registers that the text from p on reads before it writes them.
Live == [l \in DOMAIN Program |-> [p \in DOMAIN Program[l] |->
    {r \in Reg : \E j \in p .. Len(Program[l]) :
        /\ r \in Reads(Program[l][j])
        /\ \A k \in p .. j - 1 : r \notin Writes(Program[l][k])}]]

\* A cut inside the wait loop costs a turn of it: the flag is read again, or has
\* been set by the time task A goes on.  Only GH-17 minds the address (its load of
\* an unmapped word faults).
Needed(p) == Live[leg][p] \ (IF ~InWait(p) THEN {}
                             ELSE IF leg = "save" THEN {0, 13, 14, 15} ELSE {0, 13, 14})

-------------------------------------------------------------------------------
(* One instruction of the text.  In USER mode the timer counts it.         *)
\* Seeded fault: the tick does not reload the count.
TimedOnce(next) ==
    IF mode = "SUPER" THEN pc' = next /\ UNCHANGED <<mode, count>>
    ELSE IF count > 1 THEN pc' = next /\ count' = count - 1 /\ mode' = mode
    ELSE pc' = KTick /\ count' = count - 1 /\ mode' = "SUPER"
Timed(next) ==
    IF mode = "SUPER" THEN pc' = next /\ UNCHANGED <<mode, count>>
    ELSE IF count > 1 THEN pc' = next /\ count' = count - 1 /\ mode' = mode
    ELSE pc' = KTick /\ count' = quantum /\ mode' = "SUPER"
\* The RAM after the instruction; a tick also leaves its TICK_PC there.
Ticking == mode = "USER" /\ count = 1
Commit(next, ram) ==
    /\ Timed(next)
    /\ mem' = IF Ticking THEN [ram EXCEPT ![TICK_PC] = W(next)] ELSE ram
    /\ UNCHANGED <<fixed, running, faulted, slot, torn>>
Goto(next) == Commit(next, mem)
SetReg(r, v) == regs' = [regs EXCEPT ![r] = v] /\ Goto(pc + 1)

At(op) == running /\ pc > 0 /\ Text[pc].op = op
Op == Text[pc]

LDI == At("LDI") /\ SetReg(Op.r, W(Op.x))
SHL == At("SHL") /\ SetReg(Op.r, <<regs[Op.r][2], 0>>)
OR == At("OR")  /\ SetReg(Op.r, Or(regs[Op.r], regs[Op.x]))
XOR == At("XOR") /\ SetReg(Op.r, W(0))
CMP == At("CMP") /\ SetReg(0, Flag(regs[Op.r] = regs[Op.x]))
SUM == At("SUM") /\ Goto(pc + 1) /\ UNCHANGED regs
JMP == At("JMP") /\ Goto(Op.x) /\ UNCHANGED regs
JZ == At("JZ")  /\ Goto(IF regs[0] # W(0) THEN Op.x ELSE pc + 1) /\ UNCHANGED regs

\* A task never arms the latch, so its KJMP drops to SUPER, out of the timer's reach.
KJMP ==
    /\ At("KJMP") /\ pc' = regs[30][2] /\ mode' = "SUPER"
    /\ UNCHANGED <<fixed, regs, mem, count, running, faulted, slot, torn>>

\* GH-16 arms KFAULT_PC with kdone or its fault handler, GH-17 leaves it 0: stop.
Fault ==
    /\ faulted' = TRUE /\ mode' = "SUPER"
    /\ running' = (leg # "paged")
    /\ pc' = CASE leg = "paged" -> pc [] leg = "fault" -> KFault [] OTHER -> KDone
    /\ UNCHANGED <<fixed, regs, mem, count, slot, torn>>

Addr == regs[15][2]
LD ==
    /\ At("LD")
    /\ \/ (mode = "SUPER" \/ Loadable(Addr)) /\ SetReg(Op.r, mem[Addr])
       \/ mode = "USER" /\ ~Loadable(Addr) /\ Fault
ST ==
    /\ At("ST")
    /\ \/ /\ mode = "SUPER" \/ Storable(Addr)
          /\ Commit(pc + 1, [mem EXCEPT ![Addr] = regs[Op.r]]) /\ UNCHANGED regs
       \/ mode = "USER" /\ ~Storable(Addr) /\ Fault
HALT ==
    /\ At("HALT") /\ running' = FALSE
    /\ UNCHANGED <<fixed, pc, mode, regs, mem, count, faulted, slot, torn>>

-------------------------------------------------------------------------------
(* The SUPER text, one action for each entry.                              *)
Enter(entry) == running /\ pc = entry
\* The tail of every switch: latch, r30, KJMP.
SwitchTo(p, rest) ==
    /\ regs' = [rest EXCEPT ![15] = W(LATCH), ![14] = W(1), ![30] = W(p)]
    /\ pc' = p /\ mode' = "USER"
    /\ UNCHANGED <<fixed, count, running, faulted>>

KernelMain ==
    /\ Enter(KMain)
    /\ regs' = [regs EXCEPT ![15] = W(LATCH), ![14] = W(1), ![30] = W(TaskA)]
    /\ pc' = TaskA /\ mode' = "USER" /\ count' = quantum
    /\ mem' = [w \in Words |-> W(0)]
    /\ UNCHANGED <<fixed, running, faulted, slot, torn>>

Victim == mem[TICK_PC][2]
\* The test of flag or turn leaves r13 0 and its outcome in r0.
Tested(b) == [regs EXCEPT ![13] = W(0), ![0] = Flag(~b)]
Tear == torn' = (torn \/ Needed(Victim) \cap Clobbered # {})

\* Task B is still to run: save what is taken for task A's context, run B.
TickSwitch ==
    /\ Enter(KTick) /\ Saving /\ ~FlagSet
    /\ mem' = [mem EXCEPT ![SAVE1] = regs[1], ![SAVE2] = regs[2],
                          ![SAVED_PC] = mem[TICK_PC],
                          ![TURN] = IF leg = "save" THEN W(1) ELSE @]
    /\ slot' = IF InTaskB(Victim) THEN "B" ELSE "A"
    /\ Tear /\ SwitchTo(TaskB, Tested(FALSE))

\* Task B is done: go on where the tick fell.
TickResume ==
    /\ Enter(KTick) /\ Saving /\ FlagSet
    /\ Tear /\ SwitchTo(Victim, Tested(TRUE))
    /\ UNCHANGED <<mem, slot>>

\* Seeded fault: only r1 comes back.
RestoredHalf == [regs EXCEPT ![1] = mem[SAVE1]]
Restored == [regs EXCEPT ![1] = mem[SAVE1], ![2] = mem[SAVE2]]
\* Task B's KJMP comes back here, in SUPER mode.
ResumeTaskA ==
    /\ Enter(KResume)
    /\ mem' = [mem EXCEPT ![TURN] = W(0)]
    /\ SwitchTo(mem[SAVED_PC][2], Restored)
    /\ UNCHANGED <<slot, torn>>

\* Without context save, the first tick runs task B and the second ends the run.
TickTurn ==
    /\ Enter(KTick) /\ ~Saving
    /\ \/ /\ mem[TURN] = W(0)
          /\ mem' = [mem EXCEPT ![TURN] = W(1)]
          /\ SwitchTo(TaskB, Tested(FALSE))
       \/ /\ mem[TURN] # W(0)
          /\ pc' = KDone /\ regs' = [Tested(TRUE) EXCEPT ![14] = mem[TURN], ![15] = W(TURN)]
          /\ UNCHANGED <<fixed, mode, mem, count, running, faulted>>
    /\ UNCHANGED <<slot, torn>>

FaultHandler ==
    /\ Enter(KFault)
    /\ mem' = [mem EXCEPT ![FAULT_WORD] = W(1)]
    /\ pc' = KDone
    /\ UNCHANGED <<fixed, mode, regs, count, running, faulted, slot, torn>>

Init ==
    /\ leg \in Legs /\ quantum \in Quanta
    /\ pc = KMain /\ mode = "SUPER"
    /\ regs = [r \in Reg |-> W(0)] /\ mem = [w \in Words |-> W(0)]
    /\ count = 0 /\ running = TRUE /\ faulted = FALSE
    /\ slot = "none" /\ torn = FALSE

Step == \/ LDI \/ SHL \/ OR \/ XOR \/ CMP \/ SUM \/ JMP \/ JZ \/ KJMP \/ LD \/ ST \/ HALT
Kernel == \/ KernelMain \/ TickSwitch \/ TickResume \/ ResumeTaskA \/ TickTurn \/ FaultHandler
Stopped == ~running /\ UNCHANGED vars
Next == Step \/ Kernel \/ Stopped

Spec == Init /\ [][Next]_vars
\* drive() steps the CPU until it stops.
FairSpec == Spec /\ WF_vars(Next)

-------------------------------------------------------------------------------
HalfWords == 0 .. Mixed
TypeOK ==
    /\ leg \in Legs /\ quantum \in Quanta
    /\ pc \in KResume .. Len(Text) /\ mode \in {"USER", "SUPER"}
    /\ \A r \in Reg : regs[r][1] \in HalfWords /\ regs[r][2] \in KResume .. Mixed
    /\ \A w \in Words : mem[w][1] \in HalfWords /\ mem[w][2] \in KResume .. Mixed
    /\ count \in 0 .. quantum /\ (mode = "USER" => count > 0 /\ pc > 0)
    /\ running \in BOOLEAN /\ faulted \in BOOLEAN
    /\ slot \in {"none", "A", "B"} /\ torn \in BOOLEAN

(* "Save Task A registers r1, r2 and TICK_PC": the tick handler takes      *)
(* whoever it interrupts for task A.  It is right when the quantum lets    *)
(* task B set its flag before its first tick.                              *)
SlotHoldsTaskA == Saving => slot # "B"
SliceKeepsSlot == quantum >= Slice => SlotHoldsTaskA

(* Task A's computation survives preemption by a task that loads other     *)
(* values into the same registers: unless a tick fell where a register     *)
(* that the handler does not save was still needed, the run ends with A's  *)
(* context verified, no fault, and the status word written.                *)
ContextSurvives ==
    (~running /\ ~torn /\ Saving /\ quantum >= Slice) =>
        /\ mem[VERIFY] = IF leg = "save" THEN FEEDCAFE ELSE FEED0017
        /\ ~faulted /\ mem[STATUS] = StatusOk(leg)

(* The run ends: task A leaves its wait, or the second tick of the plain   *)
(* kernel ends its spin, unless task B never gets to set its flag or a     *)
(* tick tore a context.                                                    *)
Finishes == <>(~running \/ torn \/ (Saving /\ quantum < Slice))
===============================================================================
