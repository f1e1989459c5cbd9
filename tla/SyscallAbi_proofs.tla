--------------------------- MODULE SyscallAbi_proofs ---------------------------
(***************************************************************************)
(* For every width of a word, every C program and every set of admitted    *)
(* slots, the kernel of SyscallAbi implements SyscallService: a call is    *)
(* one atomic step of the task's view.  And a task that reads its slot     *)
(* before it calls is never refused.                                       *)
(***************************************************************************)
EXTENDS SyscallAbi, TLAPS

(* What a call of SyscallService does, by the number, words and arguments. *)
Svc(t, k) == CASE k = 6 -> "sliceA" [] k = 7 -> "sliceB" [] OTHER -> t[(k - 6) % 16]
Eff(s, w, x, y) ==
    CASE s = "sliceA" -> [w EXCEPT !.uartA = w.bufA]
      [] s = "sliceB" -> [w EXCEPT !.uartB = w.bufB]
      [] s = Dark     -> [w EXCEPT !.badsys = 69]
      [] s = "triple" -> [w EXCEPT !.result = (3 * w.argv) % WordMod]
      [] s = "fs"     -> [w EXCEPT !.result = IF w.argv = 65 THEN 0 ELSE 69]
      [] s = "write"  -> [w EXCEPT !.stdout = y]
      [] s = "exit"   -> [w EXCEPT !.code = x]
      [] s = "brk"    -> [w EXCEPT !.brk = (w.brk + x) % WordMod]
      [] OTHER        -> w
Rep(s, w, x) == CASE s \in {"sliceA", "sliceB"} -> 4 [] s = Dark -> 0
                  [] s = "brk" -> w.brk [] OTHER -> x

(* What the registers and words of the kernel stand for at each label: the *)
(* dispatcher has selected the service that the number names, and what it  *)
(* leaves in the words and in SYS_A0 is that service's effect and reply.   *)
Fresh == {"ksys", "slice6", "slice7", "tbl", "load", "tile", "unknown"}
Untouched == pc \in Fresh => words = before /\ sysA0 = a0
Selected ==
    /\ pc = "slice6" => sysn = N_A
    /\ pc = "slice7" => sysn = N_B
    /\ pc \in {"tbl", "load", "tile", "unknown", "refuse"} => sysn \notin {N_A, N_B}
Indexed ==
    /\ pc = "tbl" => r5 = sysn
    /\ pc = "load" => r5 = Index(sysn)
    /\ pc = "tile" => r6 = table[Index(sysn)] /\ r6 # Dark
    /\ pc \in {"unknown", "refuse"} => table[Index(sysn)] = Dark
Served ==
    /\ pc = "refuse" => words = [before EXCEPT !.badsys = 69] /\ sysA0 = a0
    /\ pc \in {"ksys_done", "sysret"} =>
         /\ words = Eff(Svc(table, sysn), before, a0, sysA1)
         /\ sysA0 = Rep(Svc(table, sysn), before, a0)
         /\ Svc(table, sysn) # "exit"
CallInv == Untouched /\ Selected /\ Indexed /\ Served

(* A text task traps with a resident number or one whose slot is lit.      *)
Lit(k) == k \in {N_A, N_B} \/ (k \in {8, 10, 11, 12} /\ table[k - N_A] # Dark)
ProbeInv == Admitting(modeOf) =>
    /\ words.badsys = 0 /\ pc \notin {"unknown", "refuse"}
    /\ pc = "callA" => Lit(Next6.n)
    /\ InCall => Lit(sysn)

-------------------------------------------------------------------------------
LEMMA IndexOf ==
    ASSUME NEW k \in Word
    PROVE  Index(k) \in Slots /\ Index(k) = (k - 6) % 16
<1>1. WordMod \in Nat /\ WordMod >= 4096 /\ WordMod % 16 = 0
  BY WordAssumption
<1>2. CASE k >= 6
  BY <1>1, <1>2 DEF Index, Minus, Word, Slots, N_A
<1>3. CASE k < 6
  BY <1>1, <1>3 DEF Index, Minus, Word, Slots, N_A
<1> QED
  BY <1>2, <1>3 DEF Word

LEMMA Wraps ==
    ASSUME NEW k \in Nat
    PROVE  k % WordMod \in Word
BY WordAssumption DEF Word

LEMMA Words ==
    /\ 0 \in Word /\ 1 \in Word /\ 4 \in Word /\ 6 \in Word /\ 7 \in Word /\ 40 \in Word /\ 65 \in Word
    /\ 66 \in Word /\ 69 \in Word /\ 713 \in Word /\ 727 \in Word /\ 750 \in Word /\ 2560 \in Word
BY WordAssumption DEF Word

LEMMA Booted == \A m \in AllModes : BootWords(m) \in [WordNames -> Word]
BY Words DEF BootWords, WordNames, HEAP_BASE

\* What the proofs need of a call that a script holds.
Fair(m, c) ==
    /\ c.n \in Word /\ c.a0 \in Word /\ c.a1 \in Word /\ c.n # N_B
    /\ Admitting(m) => c.n \in {6, 8, 10, 11, 12} /\ (c.n # N_A => c.probe)

Fits(m, s) == Len(s) \in 1 .. 4 /\ \A i \in 1 .. Len(s) : Fair(m, s[i])

LEMMA One ==
    ASSUME NEW m, NEW c, Fair(m, c) PROVE Fits(m, <<c>>)
BY DEF Fits
LEMMA Two ==
    ASSUME NEW m, NEW c, NEW d, Fair(m, c), Fair(m, d) PROVE Fits(m, <<c, d>>)
BY DEF Fits
LEMMA Four ==
    ASSUME NEW m, NEW c, NEW d, NEW e, NEW f, Fair(m, c), Fair(m, d), Fair(m, e), Fair(m, f)
    PROVE  Fits(m, <<c, d, e, f>>)
<1> DEFINE s == <<c, d, e, f>>
<1>1. Len(s) = 4 /\ s[1] = c /\ s[2] = d /\ s[3] = e /\ s[4] = f
  OBVIOUS
<1> HIDE DEF s
<1>2. \A i \in 1 .. 4 : i = 1 \/ i = 2 \/ i = 3 \/ i = 4
  OBVIOUS
<1> QED
  BY <1>1, <1>2 DEF Fits, s

LEMMA Scripted ==
    ASSUME NEW m \in AllModes PROVE Fits(m, Script(m))
<1>1. 6 \in Word /\ 8 \in Word /\ 9 \in Word /\ 10 \in Word /\ 11 \in Word /\ 12 \in Word
      /\ 4 \in Word /\ 713 \in Word /\ 750 \in Word
      /\ WordMod - 1 \in Word /\ Huge \in Word
      /\ 9 # 7 /\ WordMod - 1 # 7 /\ Huge # 7
  BY WordAssumption DEF Word, Huge
<1>2. /\ Fair(m, Ask(N_A, BUF_A, FALSE)) /\ Fair(m, Ask(8, ARGV, TRUE))
      /\ Fair(m, Ask(10, ARGV, TRUE)) /\ Fair(m, Ask(11, ARGV, TRUE))
      /\ Fair(m, Ask(12, ARGV, TRUE))
  BY <1>1 DEF Fair, Ask, N_A, N_B, BUF_A, ARGV
<1>3. CASE m = "admit"
  <2>1. Script(m) = <<Ask(N_A, BUF_A, FALSE), Ask(8, ARGV, TRUE)>>
    BY <1>3, Zenon DEF Script
  <2> QED
    BY <1>2, <2>1, Two, Zenon
<1>4. CASE m = "fs_v2"
  <2>1. Script(m) = <<Ask(N_A, BUF_A, FALSE), Ask(10, ARGV, TRUE), Ask(11, ARGV, TRUE),
                      Ask(12, ARGV, TRUE)>>
    BY <1>4, Zenon DEF Script
  <2> QED
    BY <1>2, <2>1, Four, Zenon
<1>5. CASE m \notin {"admit", "fs_v2"}
  <2>1. \/ Script(m) = <<Ask(N_A, BUF_A, FALSE)>>
        \/ Script(m) = <<Ask(9, BUF_A, FALSE)>>
        \/ Script(m) = <<Ask(WordMod - 1, BUF_A, FALSE)>>
        \/ Script(m) = <<Ask(Huge, BUF_A, FALSE)>>
    BY <1>5, Zenon DEF Script
  <2>2. \A k \in Word : k # 7 => Fair(m, Ask(k, BUF_A, FALSE))
    BY <1>1, <1>5 DEF Fair, Ask, Admitting, N_B, BUF_A
  <2>3. /\ Fair(m, Ask(9, BUF_A, FALSE)) /\ Fair(m, Ask(WordMod - 1, BUF_A, FALSE))
        /\ Fair(m, Ask(Huge, BUF_A, FALSE))
    BY <1>1, <2>2, Zenon
  <2> QED
    BY <1>2, <2>1, <2>3, One, Zenon
<1> QED
  BY <1>3, <1>4, <1>5

LEMMA Names ==
    {"bufA", "bufB", "argv", "uartA", "uartB", "badsys", "result", "stdout", "code", "brk"}
    = WordNames
BY DEF WordNames, BootWords

\* Writing a word keeps the words typed.
LEMMA Written ==
    ASSUME NEW w \in [WordNames -> Word], NEW v \in Word
    PROVE  /\ [w EXCEPT !.bufA = v] \in [WordNames -> Word]
           /\ [w EXCEPT !.bufB = v] \in [WordNames -> Word]
           /\ [w EXCEPT !.argv = v] \in [WordNames -> Word]
           /\ [w EXCEPT !.uartA = v] \in [WordNames -> Word]
           /\ [w EXCEPT !.uartB = v] \in [WordNames -> Word]
           /\ [w EXCEPT !.badsys = v] \in [WordNames -> Word]
           /\ [w EXCEPT !.result = v] \in [WordNames -> Word]
           /\ [w EXCEPT !.stdout = v] \in [WordNames -> Word]
           /\ [w EXCEPT !.code = v] \in [WordNames -> Word]
           /\ [w EXCEPT !.brk = v] \in [WordNames -> Word]
OBVIOUS

LEMMA Baked ==
    ASSUME NEW m, NEW t \in BakedTables(m) PROVE t \in [Slots -> Tile \cup {Dark}]
<1>1. AllDark \in [Slots -> Tile \cup {Dark}]
  BY DEF AllDark
<1>2. {"write", "exit", "brk"} \subseteq Tile
  BY DEF Tile
<1>3. BakedTables(m) \subseteq
        {AllDark, [AllDark EXCEPT ![10] = "write", ![7] = "exit"],
         [AllDark EXCEPT ![10] = "write", ![7] = "exit", ![0] = "brk"]}
  BY Zenon DEF BakedTables
<1> QED
  BY <1>1, <1>2, <1>3

-------------------------------------------------------------------------------
LEMMA InitType == Init => TypeOK
<1> SUFFICES ASSUME Init PROVE TypeOK
  OBVIOUS
<1>1. modeOf \in AllModes
  BY ModesAssumption DEF Init
<1>2. table \in [Slots -> Tile \cup {Dark}]
  BY Baked DEF Init
<1>3. words \in [WordNames -> Word] /\ before \in [WordNames -> Word]
  BY <1>1, Booted DEF Init
<1> QED
  BY <1>2, <1>3, Words, AdmittedAssumption DEF Init, TypeOK, Labels, Serving

\* The host's steps and the end of a run.
LEMMA HostType == TypeOK /\ Host => TypeOK'
<1> SUFFICES ASSUME TypeOK, Host PROVE TypeOK'
  OBVIOUS
<1> USE DEF TypeOK
<1>1. ASSUME NEW i \in Admitted, NEW t \in {"triple", "fs"}, Admit(i, t) PROVE TypeOK'
  <2>1. table' \in [Slots -> Tile \cup {Dark}]
    BY <1>1 DEF Admit, Stamped, Tile
  <2> QED
    BY <1>1, <2>1 DEF Admit, HostFrame, run
<1>2. ASSUME NEW i \in Admitted, RollBack(i) PROVE TypeOK'
  <2>1. table' \in [Slots -> Tile \cup {Dark}]
    BY <1>2 DEF RollBack
  <2> QED
    BY <1>2, <2>1 DEF RollBack, HostFrame, run
<1>3. CASE Drive
  BY <1>3 DEF Drive, run, Labels, Serving
<1>4. CASE EndRun
  <2>1. words' \in [WordNames -> Word] /\ before' \in [WordNames -> Word]
    BY <1>4, Booted, ModesAssumption DEF EndRun, ColdRun
  <2> QED
    BY <1>4, <2>1, Words, AdmittedAssumption DEF EndRun, ColdRun, Labels, Serving
<1> QED
  BY <1>1, <1>2, <1>3, <1>4 DEF Host

\* A trap passes on whatever the call gives it.
LEMMA TrapType ==
    ASSUME TypeOK, NEW n \in Word, NEW x \in Word, NEW y \in Word, Trap(n, x, y),
           at' \in 1 .. 5, calls' \in 0 .. MaxCalls
    PROVE  TypeOK'
BY DEF TypeOK, Trap, Labels, Serving

\* The call that task A is about to make is one of its script's.
CallAt == pc = "callA" => at <= Len(Script(modeOf))

LEMMA TaskType == TypeOK /\ CallAt /\ Task => TypeOK'
<1> SUFFICES ASSUME TypeOK, CallAt, Task PROVE TypeOK'
  OBVIOUS
<1>1. modeOf \in AllModes
  BY ModesAssumption DEF TypeOK
<1>2. Fits(modeOf, Script(modeOf))
  BY <1>1, Scripted
<1>3. Len(Script(modeOf)) \in Nat /\ Len(Script(modeOf)) <= 4
  BY <1>2 DEF Fits
<1>4. CASE StageA
  <2>1. Staged(Next6) \in [WordNames -> Word]
    <3>1. [words EXCEPT !.bufA = 65] \in [WordNames -> Word]
      BY Words DEF TypeOK
    <3>2. /\ [words EXCEPT !.argv = 6] \in [WordNames -> Word]
          /\ [words EXCEPT !.argv = 65] \in [WordNames -> Word]
      BY Words DEF TypeOK
    <3> QED
      BY <3>1, <3>2 DEF Staged, N_A
  <2>2. words' \in [WordNames -> Word]
    BY <1>4, <2>1 DEF StageA, TypeOK
  <2>3. at' \in 1 .. 5 /\ pc' \in {"taskA", "callA"}
    BY <1>3, <1>4 DEF StageA, TypeOK
  <2> QED
    BY <1>4, <2>2, <2>3 DEF StageA, TypeOK, Labels, Serving
<1>5. CASE CallA
  <2>1. at \in 1 .. Len(Script(modeOf))
    BY <1>3, <1>5 DEF CallA, CallAt, TypeOK
  <2>2. Fair(modeOf, Next6)
    BY <1>2, <2>1 DEF Fits, Next6
  <2>3. at' \in 1 .. 5 /\ calls' \in 0 .. MaxCalls
    BY <1>3, <1>5, <2>1 DEF CallA, TypeOK
  <2> QED
    BY <1>5, <2>2, <2>3, TrapType DEF CallA, Fair
<1>6. CASE CallC
  <2>1. at' \in 1 .. 5 /\ calls' \in 0 .. MaxCalls
    BY <1>6, AdmittedAssumption DEF CallC, TypeOK
  <2>2. PICK c \in Programs : Trap(c.n, c.a0, c.a1)
    BY <1>6 DEF CallC
  <2>3. c.n \in Word /\ c.a0 \in Word /\ c.a1 \in Word
    BY ProgramsAssumption DEF Word
  <2> QED
    BY <2>1, <2>2, <2>3, TrapType
<1>7. CASE LeaveA \/ LeaveC \/ LeaveB
  BY <1>7 DEF LeaveA, LeaveC, LeaveB, Jump, run, TypeOK, Labels, Serving
<1>8. CASE Dispatch
  <2>1. words' \in [WordNames -> Word]
    BY <1>8, Words DEF Dispatch, TypeOK
  <2> QED
    BY <1>8, <2>1 DEF Dispatch, TypeOK, Labels, Serving
<1>9. CASE CallB
  <2>1. N_B \in Word /\ BUF_B \in Word /\ 4 \in Word
    BY Words DEF N_B, BUF_B
  <2> QED
    BY <1>9, <2>1, TrapType DEF CallB, TypeOK
<1> QED
  BY <1>4, <1>5, <1>6, <1>7, <1>8, <1>9 DEF Task

\* Every step of the kernel.
LEMMA KernelType == TypeOK /\ Kernel => TypeOK'
<1> SUFFICES ASSUME TypeOK, Kernel PROVE TypeOK'
  OBVIOUS
<1> USE DEF TypeOK, Handler, Labels, Serving
<1>1. CASE Select
  BY <1>1 DEF Select
<1>2. CASE Reduce
  <2>1. Index(r5) \in Slots /\ Slots \subseteq Word
    BY IndexOf, WordAssumption DEF Slots, Word
  <2> QED
    BY <1>2, <2>1 DEF Reduce
<1>3. CASE Lookup
  BY <1>3 DEF Lookup
<1>4. CASE Slice6 \/ Slice7
  <2>1. words.bufA \in Word /\ words.bufB \in Word
    BY Names
  <2>2. words' \in [WordNames -> Word]
    BY <1>4, <2>1, Written DEF Slice6, Slice7
  <2> QED
    BY <1>4, <2>2, Words DEF Slice6, Slice7
<1>5. CASE UnknownMark
  <2>1. words' \in [WordNames -> Word]
    BY <1>5, Words DEF UnknownMark
  <2> QED
    BY <1>5, <2>1 DEF UnknownMark
<1>6. CASE UnknownReply
  BY <1>6, Words DEF UnknownReply
<1>7. CASE RunTile
  <2>1. words.argv \in Nat /\ words.brk \in Word /\ words.brk + sysA0 \in Nat
    BY Names DEF Word
  <2>2. CASE TileBrk /\ pc' = "ksys_done"
    BY <1>7, <2>1, <2>2, Wraps, Written DEF RunTile, TileBrk
  <2>3. CASE /\ TileTriple \/ TileFs \/ TileWrite \/ TileExit
             /\ UNCHANGED sysA0 /\ pc' \in {"ksys_done", "done"}
    <3>1. (3 * words.argv) % WordMod \in Word
      BY <2>1, Wraps
    <3>2. words' \in [WordNames -> Word]
      <4>1. CASE TileFs
        <5>1. (IF words.argv = 65 THEN 0 ELSE 69) \in Word
          BY Words
        <5> QED
          BY <4>1, <5>1, Written DEF TileFs
      <4>2. CASE TileTriple
        BY <3>1, <4>2, Written DEF TileTriple
      <4>3. CASE TileWrite
        BY <4>3, Written DEF TileWrite
      <4>4. CASE TileExit
        BY <4>4, Written DEF TileExit
      <4> QED
        BY <2>3, <4>1, <4>2, <4>3, <4>4
    <3> QED
      BY <1>7, <2>3, <3>2 DEF RunTile
  <2> QED
    BY <1>7, <2>2, <2>3 DEF RunTile
<1>8. CASE KsysDone
  BY <1>8 DEF KsysDone, TileHome
<1>9. CASE Sysret
  BY <1>9 DEF Sysret
<1>10. CASE DoneTail
  BY <1>10, Words DEF DoneTail
<1> QED
  BY <1>1, <1>2, <1>3, <1>4, <1>5, <1>6, <1>7, <1>8, <1>9, <1>10 DEF Kernel

-------------------------------------------------------------------------------
LEMMA Effects ==
    ASSUME NEW w, NEW x, NEW y
    PROVE  /\ Eff("sliceA", w, x, y) = [w EXCEPT !.uartA = w.bufA]
           /\ Eff("sliceB", w, x, y) = [w EXCEPT !.uartB = w.bufB]
           /\ Eff(Dark, w, x, y) = [w EXCEPT !.badsys = 69]
           /\ Eff("triple", w, x, y) = [w EXCEPT !.result = (3 * w.argv) % WordMod]
           /\ Eff("write", w, x, y) = [w EXCEPT !.stdout = y]
           /\ Eff("exit", w, x, y) = [w EXCEPT !.code = x]
           /\ Eff("brk", w, x, y) = [w EXCEPT !.brk = (w.brk + x) % WordMod]
           /\ Eff("fs", w, x, y) = [w EXCEPT !.result = IF w.argv = 65 THEN 0 ELSE 69]
BY Zenon DEF Eff, Dark

LEMMA Replies ==
    ASSUME NEW w, NEW x
    PROVE  /\ Rep("sliceA", w, x) = 4 /\ Rep("sliceB", w, x) = 4 /\ Rep(Dark, w, x) = 0
           /\ Rep("brk", w, x) = w.brk
           /\ \A s \in {"triple", "fs", "write", "exit"} : Rep(s, w, x) = x
BY Zenon DEF Rep, Dark

LEMMA Maps ==
    /\ Service!Service = Svc(table, IF InCall THEN sysn ELSE 0)
    /\ \A s : /\ Service!Effect(s) = Eff(s, IF InCall THEN before ELSE words, a0,
                                         IF InCall THEN sysA1 ELSE 0)
              /\ Service!Reply(s) = Rep(s, IF InCall THEN before ELSE words, a0)
<1>1. Service!Service = Svc(table, IF InCall THEN sysn ELSE 0)
  BY Zenon DEF Service!Service, Service!SliceA, Service!SliceB, Svc
<1>2. ASSUME NEW s
      PROVE  Service!Effect(s) = Eff(s, IF InCall THEN before ELSE words, a0,
                                     IF InCall THEN sysA1 ELSE 0)
  BY Zenon DEF Service!Effect, Service!Dark, Eff, Dark
<1>3. ASSUME NEW s
      PROVE  Service!Reply(s) = Rep(s, IF InCall THEN before ELSE words, a0)
  BY Zenon DEF Service!Reply, Service!Dark, Rep, Dark
<1> QED
  BY <1>1, <1>2, <1>3

LEMMA SvcOf ==
    ASSUME NEW t, NEW k \in Word
    PROVE  /\ Svc(t, N_A) = "sliceA" /\ Svc(t, N_B) = "sliceB"
           /\ k \notin {N_A, N_B} => Svc(t, k) = t[Index(k)]
<1>2. 6 # 7 /\ Index(k) = (k - 6) % 16
  BY IndexOf
<1>1. Svc(t, 6) = "sliceA"
  BY <1>2, Zenon DEF Svc
<1>3. Svc(t, 7) = "sliceB"
  BY <1>2, Zenon DEF Svc
<1>4. k # 6 /\ k # 7 => Svc(t, k) = t[(k - 6) % 16]
  BY Zenon DEF Svc
<1> QED
  BY <1>1, <1>2, <1>3, <1>4 DEF N_A, N_B

\* A tile that a slot leads to is none of the resident services.
LEMMA TileNames ==
    Tile = {"triple", "fs", "write", "exit", "brk"} /\ Dark \notin Tile
BY DEF Tile, Dark

-------------------------------------------------------------------------------
LEMMA HostCalls == TypeOK /\ CallInv /\ Host => CallInv'
<1> SUFFICES ASSUME Host PROVE CallInv'
  OBVIOUS
<1>1. pc' \in {"off", "taskA"}
  BY DEF Host, Admit, RollBack, Drive, EndRun
<1> QED
  BY <1>1 DEF CallInv, Untouched, Selected, Indexed, Served, Fresh

LEMMA TaskCalls == TypeOK /\ CallInv /\ Task => CallInv'
<1> SUFFICES ASSUME Task PROVE CallInv'
  OBVIOUS
<1>1. CASE pc' = "ksys" /\ words' = words /\ before' = words /\ a0' = sysA0'
  BY <1>1 DEF CallInv, Untouched, Selected, Indexed, Served, Fresh
<1>2. CASE pc' \in {"taskA", "callA", "dispatch", "taskB", "endB", "done", "halted"}
  BY <1>2 DEF CallInv, Untouched, Selected, Indexed, Served, Fresh
<1>3. StageA \/ LeaveA \/ LeaveC \/ Dispatch \/ LeaveB
      => pc' \in {"taskA", "callA", "dispatch", "taskB", "endB", "done", "halted"}
  BY DEF StageA, LeaveA, LeaveC, Dispatch, LeaveB, Jump
<1>4. CallA \/ CallC \/ CallB => pc' = "ksys" /\ words' = words /\ before' = words /\ a0' = sysA0'
  BY DEF CallA, CallC, CallB, Trap
<1> QED
  BY <1>1, <1>2, <1>3, <1>4 DEF Task

LEMMA KernelCalls == TypeOK /\ CallInv /\ Kernel => CallInv'
<1> SUFFICES ASSUME TypeOK, CallInv, Kernel PROVE CallInv'
  OBVIOUS
<1> USE DEF CallInv, Untouched, Selected, Indexed, Served, Fresh, Handler
<1>1. sysn \in Word /\ table \in [Slots -> Tile \cup {Dark}] /\ Index(sysn) \in Slots
  BY IndexOf DEF TypeOK
<1>2. /\ Svc(table, N_A) = "sliceA" /\ Svc(table, N_B) = "sliceB"
      /\ sysn \notin {N_A, N_B} => Svc(table, sysn) = table[Index(sysn)]
  BY <1>1, SvcOf
<1>3. CASE Select
  BY <1>3 DEF Select
<1>4. CASE Reduce
  BY <1>4 DEF Reduce, Index, Minus
<1>5. CASE Lookup
  BY <1>5 DEF Lookup, Index, Minus
<1>6. CASE Slice6
  BY <1>2, <1>6, Effects, Replies DEF Slice6
<1>7. CASE Slice7
  BY <1>2, <1>7, Effects, Replies DEF Slice7
<1>8. CASE UnknownMark
  BY <1>8 DEF UnknownMark, Index, Minus
<1>9. CASE UnknownReply
  BY <1>1, <1>2, <1>9, Effects, Replies DEF UnknownReply, Dark
<1>10. CASE RunTile
  <2>1. CASE pc' = "done"
    BY <1>10, <2>1 DEF RunTile
  <2>2. CASE pc' = "ksys_done"
    <3>1. /\ words = before /\ sysA0 = a0 /\ r6 = Svc(table, sysn)
          /\ UNCHANGED <<table, sysn, sysA1, a0, before>>
      BY <1>2, <1>10 DEF RunTile
    <3>2. Eff(r6, before, a0, sysA1) = words' /\ Rep(r6, before, a0) = sysA0' /\ r6 # "exit"
      BY <1>10, <2>2, <3>1, Effects, Replies
         DEF RunTile, TileTriple, TileFs, TileWrite, TileBrk, TileExit
    <3> QED
      BY <2>2, <3>1, <3>2
  <2> QED
    BY <1>10, <2>1, <2>2 DEF RunTile
<1>11. CASE KsysDone
  BY <1>11 DEF KsysDone, TileHome
<1>12. CASE Sysret
  BY <1>12 DEF Sysret
<1>13. CASE DoneTail
  BY <1>13 DEF DoneTail
<1> QED
  BY <1>3, <1>4, <1>5, <1>6, <1>7, <1>8, <1>9, <1>10, <1>11, <1>12, <1>13 DEF Kernel

-------------------------------------------------------------------------------
(* The probe: what task A reads of the table is what the dispatcher loads. *)
LEMMA Booted0 == \A m \in AllModes : BootWords(m).badsys = 0
BY DEF BootWords

LEMMA HostProbe == TypeOK /\ ProbeInv /\ Host => ProbeInv'
<1> SUFFICES ASSUME TypeOK, ProbeInv, Host PROVE ProbeInv'
  OBVIOUS
<1>1. pc' \in {"off", "taskA"} /\ modeOf' = modeOf
  BY DEF Host, Admit, RollBack, Drive, EndRun, HostFrame
<1>2. words' = words \/ words' = BootWords(modeOf)
  BY DEF Host, Admit, RollBack, Drive, EndRun, HostFrame, run, ColdRun
<1> QED
  BY <1>1, <1>2, Booted0, ModesAssumption DEF ProbeInv, InCall, Serving, TypeOK, Admitting

LEMMA TaskProbe == TypeOK /\ CallAt /\ ProbeInv /\ Task => ProbeInv'
<1> SUFFICES ASSUME TypeOK, CallAt, ProbeInv, Task, Admitting(modeOf) PROVE ProbeInv'
  BY DEF ProbeInv, Task, StageA, CallA, CallC, LeaveA, LeaveC, Dispatch, CallB, LeaveB, Jump, Trap,
     Admitting
<1>1. Tasks(modeOf) = "text"
  BY DEF Admitting, Tasks
<1>2. CASE StageA
  <2>1. Staged(Next6).badsys = 0
    BY DEF Staged, ProbeInv, TypeOK
  <2>2. words'.badsys = 0 /\ pc' \in {"taskA", "callA"} /\ table' = table /\ modeOf' = modeOf
    BY <1>2, <2>1 DEF StageA, ProbeInv
  <2>3. pc' = "callA" => Next6' = Next6 /\ Lit(Next6.n)
    <3>1. at \in 1 .. Len(Script(modeOf)) /\ Fits(modeOf, Script(modeOf))
      BY <1>2, Scripted, ModesAssumption DEF StageA, TypeOK, Fits
    <3>2. Fair(modeOf, Next6)
      BY <3>1 DEF Fits, Next6
    <3>3. pc' = "callA" => ~(Next6.probe /\ table[Next6.n - N_A] = Dark) /\ Next6' = Next6
      BY <1>2, <2>2 DEF StageA, Next6
    <3> QED
      BY <3>2, <3>3 DEF Fair, Lit, N_A
  <2> QED
    BY <2>2, <2>3 DEF ProbeInv, InCall, Serving, Lit
<1>3. CASE CallA
  BY <1>3 DEF CallA, Trap, ProbeInv, InCall, Serving, Lit
<1>4. CASE CallB
  BY <1>4 DEF CallB, Trap, ProbeInv, InCall, Serving, Lit
<1>5. CASE Dispatch
  BY <1>5 DEF Dispatch, ProbeInv, InCall, Serving, TypeOK
<1>6. CASE LeaveA \/ LeaveB
  BY <1>6 DEF LeaveA, LeaveB, Jump, run, ProbeInv, InCall, Serving
<1> QED
  BY <1>1, <1>2, <1>3, <1>4, <1>5, <1>6 DEF Task, CallC, LeaveC

LEMMA KernelProbe == TypeOK /\ CallInv /\ ProbeInv /\ Kernel => ProbeInv'
<1> SUFFICES ASSUME TypeOK, CallInv, ProbeInv, Kernel, Admitting(modeOf) PROVE ProbeInv'
  BY DEF ProbeInv, Admitting, Kernel, Select, Reduce, Lookup, Slice6, Slice7, UnknownMark,
     UnknownReply, RunTile, KsysDone, Sysret, DoneTail, Handler
<1>1. words.badsys = 0 /\ pc \notin {"unknown", "refuse"} /\ (InCall => Lit(sysn))
  BY DEF ProbeInv
<1>2. table' = table /\ modeOf' = modeOf
  BY DEF Kernel, Select, Reduce, Lookup, Slice6, Slice7, UnknownMark, UnknownReply, RunTile,
     KsysDone, Sysret, DoneTail, Handler
<1>3. CASE Lookup
  <2>1. r5 = Index(sysn) /\ sysn \notin {N_A, N_B} /\ InCall
    BY <1>3 DEF Lookup, CallInv, Indexed, Selected, InCall, Serving
  <2>2. table[sysn - N_A] # Dark /\ sysn \in {8, 10, 11, 12}
    BY <1>1, <2>1 DEF Lit
  <2>3. Index(sysn) = sysn - N_A
    BY <2>2 DEF Index, Minus, N_A
  <2>4. pc' = "tile" /\ sysn' = sysn /\ words' = words
    BY <1>3, <2>1, <2>2, <2>3 DEF Lookup, Handler
  <2> QED
    BY <1>1, <1>2, <2>1, <2>4 DEF ProbeInv, Lit
<1>4. CASE RunTile
  <2>1. words'.badsys = 0
    BY <1>1, <1>4, Names DEF RunTile, TileTriple, TileFs, TileWrite, TileBrk, TileExit, TypeOK
  <2> QED
    BY <1>1, <1>2, <1>4, <2>1 DEF RunTile, Handler, ProbeInv, InCall, Serving, Lit
<1>5. CASE Slice6 \/ Slice7
  <2>1. words'.badsys = 0
    BY <1>1, <1>5, Names DEF Slice6, Slice7, TypeOK
  <2> QED
    BY <1>1, <1>2, <1>5, <2>1 DEF Slice6, Slice7, Handler, ProbeInv, InCall, Serving, Lit
<1>6. CASE Select \/ Reduce \/ KsysDone
  BY <1>1, <1>2, <1>6 DEF Select, Reduce, KsysDone, TileHome, Handler, ProbeInv, InCall, Serving, Lit
<1>7. CASE Sysret \/ DoneTail
  BY <1>1, <1>2, <1>7 DEF Sysret, DoneTail, ProbeInv, InCall, Serving
<1> QED
  BY <1>1, <1>3, <1>4, <1>5, <1>6, <1>7 DEF Kernel, UnknownMark, UnknownReply

LEMMA CallAtStep == TypeOK /\ CallAt /\ [Next]_vars => CallAt'
<1> SUFFICES ASSUME CallAt, [Next]_vars PROVE CallAt'
  OBVIOUS
<1>1. pc' = "callA" /\ pc # "callA" => StageA
  BY DEF Next, Host, Admit, RollBack, Drive, EndRun, Task, CallA, CallC, LeaveA, LeaveC, Dispatch,
     CallB, LeaveB, Jump, Trap, Kernel, Select, Reduce, Lookup, Slice6, Slice7, UnknownMark,
     UnknownReply, RunTile, KsysDone, TileHome, Sysret, DoneTail, vars
<1>2. pc' = "callA" /\ pc = "callA" => UNCHANGED <<modeOf, at>>
  BY DEF Next, Host, Admit, RollBack, Drive, EndRun, Task, StageA, CallA, CallC, LeaveA, LeaveC,
     Dispatch, CallB, LeaveB, Jump, Trap, Kernel, Select, Reduce, Lookup, Slice6, Slice7,
     UnknownMark, UnknownReply, RunTile, KsysDone, TileHome, Sysret, DoneTail, vars, run
<1>3. StageA /\ pc' = "callA" => at' <= Len(Script(modeOf)) /\ modeOf' = modeOf
  BY DEF StageA
<1> QED
  BY <1>1, <1>2, <1>3 DEF CallAt

-------------------------------------------------------------------------------
Inv == TypeOK /\ CallAt /\ CallInv /\ ProbeInv

LEMMA InitInv == Init => Inv
<1> SUFFICES ASSUME Init PROVE Inv
  OBVIOUS
<1>1. pc = "off" /\ words = BootWords(modeOf) /\ modeOf \in AllModes
  BY ModesAssumption DEF Init
<1> QED
  BY <1>1, InitType, Booted0 DEF Inv, CallAt, CallInv, Untouched, Selected, Indexed, Served, Fresh,
     ProbeInv, InCall, Serving

LEMMA StepInv == Inv /\ [Next]_vars => Inv'
<1> SUFFICES ASSUME Inv, [Next]_vars PROVE Inv'
  OBVIOUS
<1>1. CASE UNCHANGED vars
  <2>1. UNCHANGED <<modeOf, table, pc, at, calls, r5, r6, sysn, sysA0, sysA1, a0, words, status,
                    before>>
    BY <1>1 DEF vars, run
  <2>2. TypeOK' /\ CallAt'
    BY <2>1 DEF Inv, TypeOK, CallAt
  <2>3. CallInv'
    BY <2>1 DEF Inv, CallInv, Untouched, Selected, Indexed, Served
  <2>4. ProbeInv'
    BY <2>1 DEF Inv, ProbeInv, Lit, InCall, Serving, Next6
  <2> QED
    BY <2>2, <2>3, <2>4 DEF Inv
<1>2. CASE Next
  <2>1. TypeOK' /\ CallAt'
    BY <1>2, HostType, TaskType, KernelType, CallAtStep DEF Inv, Next
  <2>2. CallInv'
    BY <1>2, HostCalls, TaskCalls, KernelCalls DEF Inv, Next
  <2>3. ProbeInv'
    BY <1>2, HostProbe, TaskProbe, KernelProbe DEF Inv, Next
  <2> QED
    BY <2>1, <2>2, <2>3 DEF Inv
<1> QED
  BY <1>1, <1>2

THEOREM Invariance == Spec => []Inv
BY InitInv, StepInv, PTL DEF Spec

(* Every variable of the kernel keeps its type, whatever a C program asks. *)
THEOREM TypeCorrect == Spec => []TypeOK
<1>1. Inv => TypeOK
  BY DEF Inv
<1> QED
  BY <1>1, Invariance, PTL

(* A task that reads its slot of the table before it calls is not refused, *)
(* whatever the host admits or rolls back between the runs.                *)
THEOREM ProbesHold == Spec => []ProbedNeverRefused
<1>1. Inv => ProbedNeverRefused
  BY DEF Inv, ProbeInv, ProbedNeverRefused
<1> QED
  BY <1>1, Invariance, PTL

-------------------------------------------------------------------------------
(* The refinement: the label says which phase of SyscallService holds.     *)
LEMMA Phases ==
    /\ PhaseAt("off") = "off"
    /\ \A l \in Serving : PhaseAt(l) = "call"
    /\ \A l \in {"done", "halted"} : PhaseAt(l) = "over"
    /\ \A l \in {"taskA", "callA", "dispatch", "taskB", "endB"} : PhaseAt(l) = "task"
BY Zenon DEF PhaseAt, Serving

LEMMA InitService == Init => Service!Init
<1> SUFFICES ASSUME Init PROVE Service!Init
  OBVIOUS
<1>1. ~InCall /\ PhaseAt(pc) = "off"
  BY Phases DEF Init, InCall, Serving
<1> QED
  BY <1>1 DEF Init, Service!Init

LEMMA HostService == Inv /\ Inv' /\ Host => [Service!Next]_(Service!vars)
<1> SUFFICES ASSUME Inv, Inv', Host PROVE [Service!Next]_(Service!vars)
  OBVIOUS
<1>1. ASSUME pc = "off", pc' = "off", UNCHANGED run PROVE Service!Light /\ Service!Host
  <2>1. ~InCall /\ ~InCall' /\ PhaseAt(pc) = "off" /\ PhaseAt(pc') = "off"
    BY <1>1, Phases DEF InCall, Serving
  <2>2. table' \in [Slots -> Tile \cup {Dark}]
    BY DEF Inv, TypeOK
  <2> QED
    BY <1>1, <2>1, <2>2 DEF Service!Light, Service!Host, Service!Slots, Service!Dark, Slots, Dark, run
<1>2. CASE Drive
  <2>1. ~InCall /\ ~InCall' /\ PhaseAt(pc) = "off" /\ PhaseAt(pc') = "task"
    BY <1>2, Phases DEF Drive, InCall, Serving
  <2> QED
    BY <1>2, <2>1 DEF Drive, run, Service!Begin, Service!Host, Service!Next
<1>3. CASE EndRun
  <2>1. ~InCall' /\ PhaseAt(pc) # "off" /\ PhaseAt(pc') = "off"
    BY <1>3, Phases DEF EndRun, InCall, Serving, Inv, TypeOK, Labels
  <2>2. words' \in {BootWords(m) : m \in Modes} /\ a0' = 0 /\ table' = table
    BY <1>3 DEF EndRun, ColdRun, Inv, TypeOK
  <2> QED
    BY <2>1, <2>2 DEF Service!Stop, Service!Next
<1>4. CASE \/ \E i \in Admitted, t \in {"triple", "fs"} : Admit(i, t)
           \/ \E i \in Admitted : RollBack(i)
  BY <1>1, <1>4 DEF Admit, RollBack, HostFrame, Service!Next
<1> QED
  BY <1>2, <1>3, <1>4 DEF Host

\* A trap is the Ask of SyscallService, and the task's store is its Store.
LEMMA TrapService ==
    ASSUME Inv, NEW x \in Word, NEW y \in Word, NEW z \in Word, Trap(x, y, z),
           pc \in {"taskA", "callA", "taskB"}
    PROVE  Service!Next
<1>1. ~InCall /\ InCall' /\ PhaseAt(pc) = "task" /\ PhaseAt(pc') = "call"
  BY Phases DEF Trap, InCall, Serving
<1>2. sysn' \in Nat /\ a0' \in Nat /\ sysA1' \in Nat /\ before' = words /\ table' = table
  BY DEF Trap, Word
<1> QED
  BY <1>1, <1>2 DEF Service!Ask, Service!Next

LEMMA StoreService ==
    ASSUME pc \in {"taskA", "callA", "dispatch", "taskB", "endB"},
           pc' \in {"taskA", "callA", "dispatch", "taskB", "endB"},
           UNCHANGED <<table, a0>>, NEW v,
           \/ words' = words
           \/ words' = [words EXCEPT !.bufA = v] \/ words' = [words EXCEPT !.bufB = v]
           \/ words' = [words EXCEPT !.argv = v],
           words \in [WordNames -> Word]
    PROVE  [Service!Next]_(Service!vars)
<1>1. ~InCall /\ ~InCall' /\ PhaseAt(pc) = "task" /\ PhaseAt(pc') = "task"
  BY Phases DEF InCall, Serving
<1>2. CASE words' = words
  BY <1>1, <1>2 DEF Service!vars
<1>3. ASSUME NEW w \in {"bufA", "bufB", "argv"}, words' = [words EXCEPT ![w] = v]
      PROVE  Service!Next
  <2>1. w \in DOMAIN words
    BY Names
  <2>2. words' = [words EXCEPT ![w] = words'[w]]
    BY <1>3, <2>1
  <2> QED
    BY <1>1, <2>2 DEF Service!Store, Service!Next, Service!TaskWords
<1> QED
  BY <1>2, <1>3

LEMMA FinishService ==
    ASSUME pc \in {"taskA", "endB"}, pc' = "done", UNCHANGED <<table, a0, words>>
    PROVE  Service!Next
<1>1. ~InCall /\ ~InCall' /\ PhaseAt(pc) = "task" /\ PhaseAt(pc') = "over"
  BY Phases DEF InCall, Serving
<1> QED
  BY <1>1 DEF Service!Finish, Service!Next

LEMMA TaskService == Inv /\ Inv' /\ Task => [Service!Next]_(Service!vars)
<1> SUFFICES ASSUME Inv, Inv', Task PROVE [Service!Next]_(Service!vars)
  OBVIOUS
<1>1. words \in [WordNames -> Word] /\ modeOf \in AllModes
  BY ModesAssumption DEF Inv, TypeOK
<1>2. CASE StageA
  <2>1. \/ Staged(Next6) = [words EXCEPT !.bufA = 65]
        \/ Staged(Next6) = [words EXCEPT !.argv = N_A]
        \/ Staged(Next6) = [words EXCEPT !.argv = 65]
    BY DEF Staged
  <2>2. pc = "taskA" /\ pc' \in {"taskA", "callA"} /\ UNCHANGED <<table, a0>>
        /\ (words' = words \/ words' = Staged(Next6))
    BY <1>2 DEF StageA
  <2> QED
    BY <1>1, <2>1, <2>2, StoreService
<1>3. CASE CallA
  <2>1. at \in 1 .. Len(Script(modeOf)) /\ Fits(modeOf, Script(modeOf))
    BY <1>1, <1>3, Scripted DEF CallA, Inv, CallAt, TypeOK, Fits
  <2>2. Fair(modeOf, Next6)
    BY <2>1 DEF Fits, Next6
  <2> QED
    BY <1>3, <2>2, TrapService DEF CallA, Fair
<1>4. CASE CallC
  <2>1. PICK c \in Programs : Trap(c.n, c.a0, c.a1)
    BY <1>4 DEF CallC
  <2>2. c.n \in Word /\ c.a0 \in Word /\ c.a1 \in Word
    BY ProgramsAssumption DEF Word
  <2> QED
    BY <1>4, <2>1, <2>2, TrapService DEF CallC
<1>5. CASE CallB
  <2>1. N_B \in Word /\ BUF_B \in Word /\ 4 \in Word
    BY Words DEF N_B, BUF_B
  <2> QED
    BY <1>5, <2>1, TrapService DEF CallB
<1>6. CASE LeaveA
  BY <1>1, <1>6, StoreService DEF LeaveA, Jump, run
<1>7. CASE Dispatch
  BY <1>1, <1>7, StoreService DEF Dispatch
<1>8. CASE LeaveC \/ LeaveB
  BY <1>8, FinishService DEF LeaveC, LeaveB, Jump, run
<1> QED
  BY <1>2, <1>3, <1>4, <1>5, <1>6, <1>7, <1>8 DEF Task

LEMMA KernelService == Inv /\ Inv' /\ Kernel => [Service!Next]_(Service!vars)
<1> SUFFICES ASSUME Inv, Kernel PROVE [Service!Next]_(Service!vars)
  OBVIOUS
<1>1. ASSUME InCall, InCall', UNCHANGED <<table, sysn, sysA1, a0, before>>
      PROVE  UNCHANGED Service!vars
  BY <1>1, Phases DEF InCall, Service!vars
<1>2. CASE Select \/ Reduce \/ Lookup \/ Slice6 \/ Slice7 \/ UnknownMark \/ UnknownReply \/ KsysDone
  <2>1. InCall /\ InCall' /\ UNCHANGED <<table, sysn, sysA1, a0, before>>
    BY <1>2 DEF Select, Reduce, Lookup, Slice6, Slice7, UnknownMark, UnknownReply, KsysDone,
       TileHome, Handler, InCall, Serving
  <2> QED
    BY <1>1, <2>1
<1>3. CASE Sysret
  <2>1. InCall /\ ~InCall' /\ PhaseAt(pc) = "call" /\ PhaseAt(pc') = "task"
    BY <1>3, Phases DEF Sysret, InCall, Serving
  <2>2. /\ words = Eff(Svc(table, sysn), before, a0, sysA1)
        /\ sysA0 = Rep(Svc(table, sysn), before, a0) /\ Svc(table, sysn) # "exit"
    BY <1>3 DEF Sysret, Inv, CallInv, Served
  <2>3. /\ Service!Service = Svc(table, sysn)
        /\ Service!Effect(Service!Service) = words /\ Service!Reply(Service!Service) = sysA0
    BY <2>1, <2>2, Maps
  <2>4. a0' = sysA0 /\ words' = words /\ table' = table
    BY <1>3 DEF Sysret
  <2> QED
    BY <2>1, <2>2, <2>3, <2>4 DEF Service!Answer, Service!Next
<1>4. CASE RunTile
  <2>1. CASE pc' = "ksys_done"
    <3>1. InCall /\ InCall' /\ UNCHANGED <<table, sysn, sysA1, a0, before>>
      BY <1>4, <2>1 DEF RunTile, Handler, InCall, Serving
    <3> QED
      BY <1>1, <3>1
  <2>2. CASE pc' = "done"
    <3>1. /\ TileExit /\ pc = "tile" /\ UNCHANGED <<table, sysn, sysA0, sysA1, a0, before>>
      BY <1>4, <2>2 DEF RunTile, Handler
    <3>2. InCall /\ ~InCall' /\ PhaseAt(pc) = "call" /\ PhaseAt(pc') = "over"
      BY <2>2, <3>1, Phases DEF InCall, Serving
    <3>3. words = before /\ sysA0 = a0 /\ r6 = Svc(table, sysn) /\ r6 = "exit"
      BY <3>1, SvcOf DEF Inv, CallInv, Untouched, Indexed, Selected, Fresh, TileExit, TypeOK
    <3>4. /\ Service!Service = "exit"
          /\ Service!Effect("exit") = words' /\ Service!Reply("exit") = a0
      <4>1. Service!Service = "exit"
        BY <3>2, <3>3, Maps
      <4>2. Service!Effect("exit") = Eff("exit", before, a0, sysA1)
        BY <3>2, Maps
      <4>3. Service!Reply("exit") = a0
        BY <3>2, Maps, Replies
      <4>4. words' = [before EXCEPT !.code = a0]
        BY <3>1, <3>3 DEF TileExit
      <4> QED
        BY <4>1, <4>2, <4>3, <4>4, Effects
    <3> QED
      BY <3>1, <3>2, <3>4 DEF Service!Answer, Service!Next
  <2> QED
    BY <1>4, <2>1, <2>2 DEF RunTile
<1>5. CASE DoneTail
  <2>1. ~InCall /\ ~InCall' /\ PhaseAt(pc) = "over" /\ PhaseAt(pc') = "over"
    BY <1>5, Phases DEF DoneTail, InCall, Serving
  <2> QED
    BY <1>5, <2>1 DEF DoneTail, Service!vars
<1> QED
  BY <1>2, <1>3, <1>4, <1>5 DEF Kernel

(* The kernel implements SyscallService: whatever the dispatcher, the      *)
(* tiles and the host do, the tasks see calls of one step.                 *)
THEOREM Refinement == Spec => CallsAreAtomic
<1>1. Inv /\ Inv' /\ [Next]_vars => [Service!Next]_(Service!vars)
  <2> SUFFICES ASSUME Inv, Inv', [Next]_vars PROVE [Service!Next]_(Service!vars)
    OBVIOUS
  <2>1. CASE UNCHANGED vars
    BY <2>1 DEF vars, run, Service!vars, InCall
  <2> QED
    BY <2>1, HostService, TaskService, KernelService DEF Next
<1> QED
  BY <1>1, InitService, Invariance, PTL DEF Spec, CallsAreAtomic, Service!Safe
===============================================================================
