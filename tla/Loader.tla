--------------------------------- MODULE Loader --------------------------------
(***************************************************************************)
(* The program loader kernel of GH-9 (tools/glyph_gpt/baker.py) over the   *)
(* drives of one image.  The host may put a program into the mailbox; the  *)
(* kernel patches its own window with it, word by word, and enters it in   *)
(* USER mode; without a mailbox it enters what the window holds.  The two   *)
(* legs leave different registers behind, which the program may read.      *)
(***************************************************************************)
EXTENDS Integers, Sequences

CONSTANTS Programs,  \* programs that a host may load
          Px,        \* Px[p]: the pixel words of p, as many as the window has
          Argvs,     \* what hosts seed in the argv words
          Golden,    \* the argv whose result the callers know
          Fate,      \* Fate[p][leg][argv]: how p ends, entered by leg with argv
          Capacity   \* pixel words of the window, 96 in the code

\* A load of a whole window leaves r0, r1, r4 at 1; without a mailbox they are 0, 0, 9.
Legs == {"load", "resident"}
Fates == {"right", "spin", "wrong", "noexit", "fault", "raise", "hang"}
ASSUME CapacityAssumption == Capacity \in Nat \ {0, 1}
ASSUME ProgramAssumption == /\ Golden \in Argvs
                            /\ Fate \in [Programs -> [Legs -> [Argvs -> Fates]]]
                            /\ \A p \in Programs : Px[p] = [i \in 1 .. Capacity |-> Px[p][i]]
\* The machine is deterministic: the same words, entered alike, end alike.
ASSUME FateAssumption == \A p, q \in Programs : Px[p] = Px[q] => Fate[p] = Fate[q]

VARIABLES
    leg,        \* "plain", or "fault" for the image of the fault leg
    window,     \* pixels: the words of the patch window
    pc,         \* "off" between drives, else the label reached
    flag, npx, payload,   \* the mailbox
    argv,                 \* the argv words, which the kernel never writes
    r0, left, done,       \* r0, r13, and how far r14 and r15 have moved
    out,        \* the receipt's words: result, exit, fault, raised
    status,
    boot,       \* history: the window when the drive began
    fresh       \* history: the mailbox was armed when the drive began

mailbox == <<flag, npx, payload, argv>>
regs == <<r0, left, done>>
loaderVars == <<leg, window, pc, mailbox, regs, out, status, boot, fresh>>

-------------------------------------------------------------------------------
HALT == "HALT"
Empty == [i \in 1 .. Capacity |-> HALT]
NoStatus == "none"
KERNEL_OK == "0xCAFE0009"
NoOut == [result |-> "zero", exit |-> FALSE, fault |-> FALSE, raised |-> FALSE]
\* What the receipt shows of a program that ends this way: "spin" has written its
\* words and never halts, "hang" writes none.
OutOf(f) ==
    CASE f \in {"right", "spin"} -> [NoOut EXCEPT !.result = "right", !.exit = TRUE]
      [] f = "wrong"  -> [NoOut EXCEPT !.result = "other", !.exit = TRUE]
      [] f = "noexit" -> [NoOut EXCEPT !.result = "right"]
      [] f = "fault"  -> [NoOut EXCEPT !.fault = TRUE]
      [] f = "raise"  -> [NoOut EXCEPT !.raised = TRUE]
      [] f = "hang"   -> NoOut
\* How the window is entered.  A load of some of its words leaves yet other registers.
Entry == IF npx = 0 THEN "resident" ELSE IF npx = Capacity THEN "load" ELSE "partial"
\* A known program entered by a known leg ends as it does; an unpatched window, a
\* mixture of two programs and a partial load do anything.
FatesOf(w) ==
    IF Entry \in Legs /\ \E p \in Programs : w = Px[p]
    THEN {Fate[CHOOSE p \in Programs : w = Px[p]][Entry][argv]}
    ELSE Fates

-------------------------------------------------------------------------------
\* The host seeds RAM before the first step: n words of p, or nothing, and argv a.
Begin(p, n, a) ==
    /\ pc = "off" /\ pc' = "prologue" /\ npx' = n /\ payload' = IF n = 0 THEN Empty ELSE Px[p]
    /\ flag' = (n # 0) /\ fresh' = (n # 0) /\ boot' = window /\ argv' = a
    /\ UNCHANGED <<leg, window, regs, out, status>>
\* The receipt is read once the run has stopped or its budget is spent.
End ==
    /\ pc # "off" /\ pc' = "off" /\ flag' = FALSE /\ npx' = 0 /\ payload' = Empty
    /\ r0' = 0 /\ left' = 0 /\ done' = 0 /\ out' = NoOut /\ status' = NoStatus
    /\ boot' = window /\ fresh' = FALSE /\ argv' = Golden
    /\ UNCHANGED <<leg, window>>

Held == UNCHANGED <<leg, npx, payload, argv, boot, fresh>>
\* The status is written before the program is entered.
Prologue ==
    /\ pc = "prologue" /\ pc' = "launch" /\ status' = KERNEL_OK
    /\ UNCHANGED <<window, flag, regs, out>> /\ Held
\* Seeded fault: the count includes the word that the loop head fetches ahead.
CountAhead(n) == n + 1
Count(n) == n
\* The launch leg: the fault task, a fresh load, or the resident program.
Launch ==
    /\ pc = "launch"
    /\ IF leg = "fault" THEN pc' = "ftask" /\ UNCHANGED <<flag, regs>>
       ELSE IF flag
       THEN /\ pc' = "patch" /\ flag' = FALSE
            /\ r0' = 1 /\ left' = Count(npx) /\ done' = 0
       ELSE pc' = "window" /\ r0' = 0 /\ UNCHANGED <<flag, left, done>>
    /\ UNCHANGED <<window, out, status>> /\ Held
\* Seeded fault: the loop stops with one word left.
ExhaustedEarly(k, flagReg) == k = 1
\* CMP r13 r0: the count against what the last CMP left in r0, 1 on entry.
Exhausted(k, flagReg) == k = flagReg
Patch ==
    /\ pc = "patch" /\ ~Exhausted(left, r0)
    /\ window' = [window EXCEPT ![done + 1] = payload[done + 1]]
    /\ r0' = 0 /\ left' = left - 1 /\ done' = done + 1
    /\ UNCHANGED <<pc, flag, out, status>> /\ Held
PatchDone ==
    /\ pc = "patch" /\ Exhausted(left, r0) /\ r0' = 1 /\ pc' = "window"
    /\ UNCHANGED <<window, flag, left, done, out, status>> /\ Held
\* USER mode, until the program halts, faults or raises, or the budget is spent.
RunWindow ==
    /\ pc = "window"
    /\ \E f \in FatesOf(window) :
          /\ out' = OutOf(f)
          /\ pc' = IF f = "fault" THEN "done" ELSE IF f \in {"hang", "spin"} THEN "hung" ELSE "stopped"
    /\ UNCHANGED <<window, flag, regs, status>> /\ Held
\* The store at word 900 is outside the box; its handler leaves the mark.
FaultTask ==
    /\ pc = "ftask" /\ pc' = "done" /\ out' = [NoOut EXCEPT !.fault = TRUE]
    /\ UNCHANGED <<window, flag, regs, status>> /\ Held
DoneTail ==
    /\ pc = "done" /\ pc' = "stopped" /\ status' = KERNEL_OK
    /\ UNCHANGED <<window, flag, regs, out>> /\ Held

LoaderInit ==
    /\ leg \in {"plain", "fault"} /\ window = Empty /\ pc = "off"
    /\ flag = FALSE /\ npx = 0 /\ payload = Empty /\ argv = Golden /\ r0 = 0 /\ left = 0 /\ done = 0
    /\ out = NoOut /\ status = NoStatus /\ boot = window /\ fresh = FALSE
LoaderStep == Prologue \/ Launch \/ Patch \/ PatchDone \/ RunWindow \/ FaultTask \/ DoneTail

-------------------------------------------------------------------------------
\* The words that the loop copies.  At a count of 1 it ends before the first: its
\* CMP r13 r0 compares with the 1 that the flag's CMP left in r0.
Copied(n) == IF n = 1 THEN 0 ELSE n

(* When the program is entered the window holds the mailbox's words, as    *)
(* many as Copied says, and behind them what it held before; without a     *)
(* mailbox it holds what it held before.  The docstring has it that all    *)
(* "n_px pixel words" are copied: of a count of 1 that is not so.          *)
PatchIsExact ==
    pc \in {"window", "stopped", "hung"} /\ leg = "plain" =>
      \A i \in 1 .. Capacity :
        window[i] = IF fresh /\ i <= Copied(npx) THEN payload[i] ELSE boot[i]
===============================================================================
