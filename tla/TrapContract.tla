----------------------------- MODULE TrapContract -----------------------------
(***************************************************************************)
(* What a USER task may expect of the Glyph CPU and of a kernel that runs  *)
(* on it: system calls and ticks are invisible to the task but for the     *)
(* result register, and the timer bounds how long it runs.  The module     *)
(* adds history to GlyphCPU: the context in which the task left USER mode  *)
(* and the steps it ran since the last tick.                               *)
(***************************************************************************)
EXTENDS GlyphCPU

CONSTANT Scratch   \* registers reserved to the kernel (r28..r30)

ASSUME ScratchAssumption == Scratch \subseteq Reg

VARIABLES
    left,      \* <<>>, or the one context the task left USER mode in
    ran        \* USER steps since the last tick, counted up to TIMER_RELOAD

tvars == <<vars, left, ran>>

TInit == Init /\ left = <<>> /\ ran = 0

Leaves == mode = USER /\ mode' = SUPER
Enters == mode = SUPER /\ mode' = USER
\* The vector tells why the task left (a kernel keeps its handlers apart).
Called == Leaves /\ pc' = Target(KsysPc)
Ticked == Leaves /\ pc' = Target(mem[KTICK_PC])
\* The step was completed, and the machine goes on.
Retired == running' /\ stepped' = "true"

Note ==
    /\ left' = IF Called \/ Ticked
               THEN <<[regs |-> regs', called |-> Called,
                       at |-> IF Called THEN {FallThrough} ELSE Sequel]>>
               ELSE IF Leaves \/ Enters THEN <<>> ELSE left
    /\ ran' = IF Ticked THEN 0
              ELSE IF mode = USER /\ mode' = USER /\ Retired /\ ran < Ram(TIMER_RELOAD)
              THEN ran + 1
              ELSE ran

TNext == Next /\ Note
TSpec == TInit /\ [][TNext]_tvars
TFairSpec == TSpec /\ WF_tvars(TNext)

-------------------------------------------------------------------------------
(* A task that left USER mode by a system call re-enters it at the next    *)
(* cell; one that left by a tick re-enters it where its last instruction   *)
(* goes on, which is the target and not the next cell when it jumped.  It  *)
(* finds the registers it left with: all but the kernel's scratch, and r10 *)
(* after a system call.  The one snapshot slot _syscall_regs and the one   *)
(* word TICK_PC are enough for that only while the kernel is neither       *)
(* preempted nor re-entered.                                               *)
ResumesExactly ==
    [][(Enters /\ left # <<>>) =>
          /\ pc' \in left[1].at
          /\ \A r \in Reg \ (Scratch \cup (IF left[1].called THEN {10} ELSE {})) :
                regs'[r] = left[1].regs[r]]_tvars

(* The timer interrupts a running task: between two ticks it takes at most *)
(* TIMER_RELOAD - 1 steps that end in USER mode (the one that would be the *)
(* last ends in the tick handler), however it mixes them with system calls *)
(* and however long the kernel takes.                                      *)
PreemptionBound ==
    (IsoEnabled /\ mem[KTICK_PC] # 0 /\ mem[TIMER_RELOAD] > 0) => ran < mem[TIMER_RELOAD]

(* What the bound asks of a kernel: it enters a task with the timer armed, *)
(* leaves the timer's words alone from the first task step to the next     *)
(* tick, and grants them to no task; and its tasks do not fault, for the   *)
(* sticky flag stops the timer.                                            *)
TimerWords == {KTICK_PC, TIMER_COUNT, TIMER_RELOAD}
Armed == IsoEnabled /\ Ram(KTICK_PC) # 0 /\ Ram(TIMER_COUNT) \in 1 .. Ram(TIMER_RELOAD)
Ungranted == \A w \in TimerWords : ~Granted(w) /\ ~InFsWindow(w)
KeepsTimer ==
    [][/\ Enters => Armed'
       /\ mode = SUPER /\ ran # 0 => \A w \in TimerWords : Ram(w)' = Ram(w)
       /\ mode = USER => Ungranted /\ Fetch("PARALLEL_ST") = {}
       /\ mode' = USER => ~faulted']_tvars

(* What an exact return asks of a kernel: a call is answered by SYSRET and *)
(* a tick by a KJMP to TICK_PC; until then the kernel does not trap itself *)
(* (the one snapshot), stores to neither resume word, and works on a tick  *)
(* in its scratch registers alone.  And of a task: it goes on at cells     *)
(* that a word can name, executes no instruction of the kernel's, and      *)
(* reaches none of the vectors, which differ.                              *)
Handlers == {KFAULT_PC, KSYS_PC, KTICK_PC}
Answering ==
    /\ Fetch("SYSCALL") = {}
    /\ left[1].called =>
          /\ Enters => Fetch("KJMP") = {}
          /\ Ram(SYSCALL_PC)' = Ram(SYSCALL_PC)
    /\ ~left[1].called =>
          /\ Enters => Fetch("SYSRET") = {} /\ pc' = Target(Ram(TICK_PC))
          /\ Ram(TICK_PC)' = Ram(TICK_PC)
          /\ \A r \in Reg \ Scratch : regs'[r] = regs[r]
Behaving ==
    /\ Fetch("KJMP") \cup Fetch("SYSRET") = {}
    /\ \A p \in Sequel : Target(PackCell(p)) = p
    /\ \A v \in Handlers : Ram(v)' = Ram(v) /\ \A w \in Handlers \ {v} : Ram(v) # Ram(w)
KeepsContext ==
    [][/\ mode = SUPER /\ left # <<>> => Answering
       /\ mode = USER => Behaving]_tvars

(* What the two promises rely on, together.                                *)
KeepsContract == KeepsTimer /\ KeepsContext

(* A task never holds the machine for ever: the kernel runs again.         *)
KernelReturns == mode = USER ~> (mode = SUPER \/ ~running)
===============================================================================
