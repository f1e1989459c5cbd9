---------------------------- MODULE SyscallService -----------------------------
(***************************************************************************)
(* What the syscall ABI of GH-18 promises a task (tools/glyph_gpt/         *)
(* baker.py): a call is one step that runs the service its number names, a *)
(* resident slice or the tile in its table slot, and gives back one reply. *)
(* A number whose slot is dark is refused and changes nothing but the mark *)
(* in BADSYS.  Lit slots are in the image and outlive the run; words are   *)
(* in RAM and do not.                                                      *)
(***************************************************************************)
EXTENDS Integers

CONSTANTS Tile,       \* the tiles that a slot can lead to
          InitTables, \* the tables that an image is baked with
          Boots,      \* the words that a prologue leaves
          WordMod     \* number of values of a word

VARIABLES table,      \* what each slot leads to
          phase,      \* "off", "task", "call" or "over"
          n, a0, a1,  \* the call being served and the task's r10
          words       \* the RAM words that calls work on

vars == <<table, phase, n, a0, a1, words>>

Slots == 0 .. 15
Dark == "dark"
SliceA == 6
SliceB == 7
TaskWords == {"bufA", "bufB", "argv"}

(* The service behind a number: the two resident slices, else the slot.    *)
Service == CASE n = SliceA -> "sliceA" [] n = SliceB -> "sliceB"
             [] OTHER -> table[(n - 6) % 16]

Effect(s) ==
    CASE s = "sliceA" -> [words EXCEPT !.uartA = words.bufA]
      [] s = "sliceB" -> [words EXCEPT !.uartB = words.bufB]
      [] s = Dark     -> [words EXCEPT !.badsys = 69]
      [] s = "triple" -> [words EXCEPT !.result = (3 * words.argv) % WordMod]
      [] s = "fs"     -> [words EXCEPT !.result = IF words.argv = 65 THEN 0 ELSE 69]
      [] s = "write"  -> [words EXCEPT !.stdout = a1]
      [] s = "exit"   -> [words EXCEPT !.code = a0]
      [] s = "brk"    -> [words EXCEPT !.brk = (words.brk + a0) % WordMod]
      [] OTHER        -> words
Reply(s) == CASE s \in {"sliceA", "sliceB"} -> 4 [] s = Dark -> 0
              [] s = "brk" -> words.brk           [] OTHER -> a0

Init == /\ table \in InitTables /\ phase = "off"
        /\ n = 0 /\ a0 = 0 /\ a1 = 0 /\ words \in Boots

\* The host lights and darkens slots between runs, and starts a run.
Light == phase = "off" /\ phase' = phase /\ table' \in [Slots -> Tile \cup {Dark}]
Begin == phase = "off" /\ phase' = "task" /\ UNCHANGED table
Host == (Light \/ Begin) /\ UNCHANGED <<n, a0, a1, words>>
Store == /\ phase = "task" /\ UNCHANGED <<table, phase, n, a0, a1>>
         /\ \E w \in TaskWords : words' = [words EXCEPT ![w] = words'[w]]
Ask == /\ phase = "task" /\ phase' = "call"
       /\ n' \in Nat /\ a0' \in Nat /\ a1' \in Nat
       /\ UNCHANGED <<table, words>>
Answer == /\ phase = "call" /\ n' = 0 /\ a1' = 0
          /\ phase' = IF Service = "exit" THEN "over" ELSE "task"
          /\ a0' = Reply(Service)
          /\ words' = Effect(Service) /\ UNCHANGED table
Finish == phase = "task" /\ phase' = "over" /\ UNCHANGED <<table, n, a0, a1, words>>
\* The run has ended, or its budget is spent: RAM is gone.
Stop == /\ phase # "off" /\ phase' = "off" /\ n' = 0 /\ a0' = 0 /\ a1' = 0
        /\ words' \in Boots /\ UNCHANGED table

Next == Host \/ Store \/ Ask \/ Answer \/ Finish \/ Stop
Safe == Init /\ [][Next]_vars
===============================================================================
