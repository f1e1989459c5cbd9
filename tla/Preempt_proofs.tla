---------------------------- MODULE Preempt_proofs -----------------------------
(***************************************************************************)
(* Proofs about the preemptive kernel, for every quantum: the types, that  *)
(* a slice as long as task B's way to its flag keeps the one slot for a    *)
(* context with task A, and that task A's computation then survives every  *)
(* tick that tears no context.                                             *)
(***************************************************************************)
EXTENDS Preempt, SequenceTheorems, TLAPS

-------------------------------------------------------------------------------
(* The text of a leg, as far as control goes.  Straight instructions go on *)
(* to the next one and leave r30 alone; r15 only ever takes a pointer.     *)
Data == {0, 1, 2, 3, 4, 5, 6, 7, 9, 13, 14}
Pointers(l) == {FLAG, VERIFY, EXIT_A, STATUS, UART_B, UART_B_LEN, EXIT_B, HIGH_A,
                HIGH_B, LATCH, TURN}
               \cup (IF l = "fault" THEN {TIMER_COUNT} ELSE {})
Straight(l) ==
    [op : {"LDI"}, r : Data, x : HalfWords]
    \cup [op : {"LDI"}, r : {15}, x : Pointers(l)]
    \cup [op : {"SHL", "OR", "XOR", "CMP", "SUM", "ST"}, r : Data, x : Data \cup {15}]
    \cup [op : IF l = "fault" THEN {} ELSE {"LD"}, r : Data, x : {15}]
Jumps(n) == [op : {"JMP", "JZ"}, r : {0}, x : 1 .. n]

\* Sequences of n members of S, and their concatenation.
Run(S, n) == {s \in Seq(S) : Len(s) = n}

LEMMA Chain ==
    ASSUME NEW S, NEW m, NEW n, NEW s \in Run(S, m), NEW t \in Run(S, n)
    PROVE  s \o t \in Run(S, m + n)
<1>1. s \in Seq(S) /\ t \in Seq(S) /\ Len(s) = m /\ Len(t) = n
  BY DEF Run
<1>2. s \o t \in Seq(S) /\ Len(s \o t) = Len(s) + Len(t)
  BY <1>1, ConcatProperties
<1> QED
  BY <1>1, <1>2 DEF Run

LEMMA Widen ==
    ASSUME NEW S, NEW R, S \subseteq R, NEW n
    PROVE  Run(S, n) \subseteq Run(R, n)
BY DEF Run

\* Which instructions are straight.
LEMMA Member ==
    ASSUME NEW l, NEW r \in Data
    PROVE  /\ \A q \in HalfWords : Ldi(r, q) \in Straight(l)
           /\ \A w \in Pointers(l) : Ldi(15, w) \in Straight(l)
           /\ \A op \in {"SHL", "OR", "XOR", "CMP", "SUM", "ST"} : \A x \in Data \cup {15} :
                 I(op, r, x) \in Straight(l)
           /\ l # "fault" => I("LD", r, 15) \in Straight(l)
<1>1. \A q \in HalfWords : Ldi(r, q) \in [op : {"LDI"}, r : Data, x : HalfWords]
  BY DEF Ldi, I
<1>2. \A w \in Pointers(l) : Ldi(15, w) \in [op : {"LDI"}, r : {15}, x : Pointers(l)]
  BY DEF Ldi, I
<1>3. \A op \in {"SHL", "OR", "XOR", "CMP", "SUM", "ST"} : \A x \in Data \cup {15} :
        I(op, r, x) \in [op : {"SHL", "OR", "XOR", "CMP", "SUM", "ST"}, r : Data,
                        x : Data \cup {15}]
  BY DEF I
<1>4. l # "fault" => I("LD", r, 15) \in [op : IF l = "fault" THEN {} ELSE {"LD"}, r : Data,
                                        x : {15}]
  BY DEF I
<1> QED
  BY <1>1, <1>2, <1>3, <1>4 DEF Straight

\* What the text loads are half words; no other proof looks at the values.
Numbers == {0, 1, 4, 7, 16, PACK_B, Junk1, Junk2}
Loaded == {StatusOk("save"), StatusOk("paged"), R1A, R2A, HighA, FEEDCAFE, FEED0017,
           R1B, R2B, HighB}
LEMMA Halves ==
    /\ HalfWords = 0 .. Mixed /\ Mixed \in Nat /\ 100 < Mixed
    /\ \A n \in Numbers : n \in HalfWords
    /\ \A v \in Loaded : v \in HalfWords \X HalfWords
<1>1. \A n \in Numbers : n \in HalfWords
  BY DEF Numbers, HalfWords, Mixed, PACK_B, Junk1, Junk2
<1>2. /\ 51966 \in HalfWords /\ 22 \in HalfWords /\ 23 \in HalfWords
      /\ 4386 \in HalfWords /\ 13124 \in HalfWords
      /\ 21862 \in HalfWords /\ 30600 \in HalfWords
      /\ 43690 \in HalfWords /\ 4369 \in HalfWords /\ 65261 \in HalfWords
      /\ 57005 \in HalfWords /\ 48879 \in HalfWords /\ 47789 \in HalfWords
      /\ 61453 \in HalfWords /\ 48059 \in HalfWords /\ 8738 \in HalfWords
  BY DEF HalfWords, Mixed
<1>3. /\ StatusOk("save") \in HalfWords \X HalfWords /\ StatusOk("paged") \in HalfWords \X HalfWords
      /\ R1A \in HalfWords \X HalfWords /\ R2A \in HalfWords \X HalfWords
      /\ HighA \in HalfWords \X HalfWords /\ FEEDCAFE \in HalfWords \X HalfWords
      /\ FEED0017 \in HalfWords \X HalfWords
      /\ R1B \in HalfWords \X HalfWords /\ R2B \in HalfWords \X HalfWords
      /\ HighB \in HalfWords \X HalfWords
  <2> HIDE DEF HalfWords
  <2> QED
    BY <1>2 DEF StatusOk, R1A, R2A, HighA, FEEDCAFE, FEED0017, R1B, R2B, HighB
<1>4. \A v \in Loaded : v \in HalfWords \X HalfWords
  BY <1>3, Zenon DEF Loaded
<1>5. HalfWords = 0 .. Mixed /\ Mixed \in Nat /\ 100 < Mixed
  BY DEF HalfWords, Mixed
<1> QED
  BY <1>1, <1>4, <1>5

LEMMA Named ==
    /\ PACK_B \in HalfWords /\ Junk1 \in HalfWords /\ Junk2 \in HalfWords
    /\ \A n \in {0, 1, 4, 7, 16} : n \in HalfWords
    /\ \A l : StatusOk(l) \in HalfWords \X HalfWords
    /\ R1A \in HalfWords \X HalfWords /\ R2A \in HalfWords \X HalfWords
    /\ HighA \in HalfWords \X HalfWords /\ FEEDCAFE \in HalfWords \X HalfWords
    /\ FEED0017 \in HalfWords \X HalfWords /\ FEEDCAFE[1] \in HalfWords
    /\ R1B \in HalfWords \X HalfWords /\ R2B \in HalfWords \X HalfWords
    /\ HighB \in HalfWords \X HalfWords
<1>1. ASSUME NEW l
      PROVE  StatusOk(l) \in {StatusOk("save"), StatusOk("paged")}
  <2>1. l # "paged" => StatusOk(l) = StatusOk("save")
    BY SMT DEF StatusOk
  <2> QED
    BY <2>1
<1> QED
  BY <1>1, Halves, Zenon DEF Numbers, Loaded

LEMMA DataReg == Reg = Data \cup {15, 30} /\ 15 \notin Data /\ 30 \notin Data
BY DEF Data, Reg

\* The pieces of a text, over any set S that holds the straight instructions.
LEMMA Pieces ==
    ASSUME NEW l, NEW S, Straight(l) \subseteq S
    PROVE  /\ Ldi4 \in Run(S, 1)
           /\ \A r \in Data : St(r) \in Run(S, 1)
           /\ \A w \in Pointers(l) : <<Ldi(15, w)>> \in Run(S, 1)
           /\ \A w \in Pointers(l) : \A n \in HalfWords : Store(w, n) \in Run(S, 3)
<1>1. 4 \in Data /\ 14 \in Data /\ 16 \in HalfWords
  BY Named DEF Data
<1>2. Ldi4 \in Run(S, 1)
  BY <1>1, Member DEF Run, Ldi4
<1>3. ASSUME NEW r \in Data PROVE St(r) \in Run(S, 1)
  <2>1. I("ST", r, 15) \in S
    BY Member
  <2> QED
    BY <2>1 DEF Run, St
<1>4. ASSUME NEW w \in Pointers(l) PROVE <<Ldi(15, w)>> \in Run(S, 1)
  <2>1. Ldi(15, w) \in S
    BY <1>1, Member
  <2> QED
    BY <2>1 DEF Run
<1>5. ASSUME NEW w \in Pointers(l), NEW n \in HalfWords PROVE Store(w, n) \in Run(S, 3)
  <2>1. Ldi(15, w) \in S /\ Ldi(14, n) \in S
    BY <1>1, Member
  <2>2. <<Ldi(15, w), Ldi(14, n)>> \in Run(S, 2)
    BY <2>1 DEF Run
  <2>3. Store(w, n) \in Run(S, 2 + 1)
    BY <1>1, <1>3, <2>2, Chain, Zenon DEF Store
  <2> QED
    BY <2>3
<1> QED
  BY <1>2, <1>3, <1>4, <1>5

LEMMA Loads ==
    ASSUME NEW l, NEW S, Straight(l) \subseteq S, NEW r \in Data, NEW t \in Data,
           NEW v \in HalfWords \X HalfWords
    PROVE  Load(r, t, v) \in Run(S, 4) /\ LoadFirst(r, t, v) \in Run(S, 5)
<1>1. /\ Ldi(r, v[1]) \in S /\ Ldi(t, v[2]) \in S
      /\ I("SHL", r, 4) \in S /\ I("OR", r, t) \in S
  <2>1. 4 \in Data
    BY DEF Data
  <2> QED
    BY <2>1, Member
<1>2. /\ Load(r, t, v) \in Run(S, 4) /\ Tail(Load(r, t, v)) \in Run(S, 3)
      /\ <<Ldi(r, v[1])>> \in Run(S, 1)
  BY <1>1 DEF Run, Load
<1>3. LoadFirst(r, t, v) \in Run(S, 1 + 1 + 3)
  BY <1>2, Pieces, Chain, Zenon DEF LoadFirst
<1> QED
  BY <1>2, <1>3

\* Task A's checks and its wait: straight but for their jumps.
LEMMA Turns ==
    ASSUME NEW l, l # "fault", NEW S, Straight(l) \subseteq S, NEW n \in Nat,
           Jumps(n) \subseteq S, NEW here \in 1 .. n, NEW a \in Data, NEW b \in Data
    PROVE  /\ Wait(here) \in Run(S, 5)
           /\ here + 3 <= n => Check(a, b, here) \in Run(S, 3)
<1>1. \A op \in {"JMP", "JZ"} : \A x \in 1 .. n : I(op, 0, x) \in S
  BY DEF Jumps, I
<1>2. /\ Ldi(15, FLAG) \in S /\ I("LD", 14, 15) \in S /\ I("XOR", 13, 13) \in S
      /\ I("CMP", 14, 13) \in S /\ I("CMP", a, b) \in S
  <2>1. FLAG \in Pointers(l) /\ 13 \in Data /\ 14 \in Data
    BY DEF Pointers, Data
  <2> QED
    BY <2>1, Member
<1>3. Wait(here) \in Run(S, 5)
  BY <1>1, <1>2 DEF Run, Wait
<1>4. ASSUME here + 3 <= n
      PROVE  Check(a, b, here) \in Run(S, 3)
  <2>1. here + 3 \in 1 .. n /\ KDone \in 1 .. n
    BY <1>4 DEF KDone
  <2> QED
    BY <1>1, <1>2, <2>1 DEF Run, Check
<1> QED
  BY <1>3, <1>4

HALTS == I("HALT", 0, 0)
LEMMA DoneShape ==
    ASSUME NEW l
    PROVE  \E d \in Run(Straight(l), 7) : DoneText(l) = d \o <<HALTS>>
<1> DEFINE S == Straight(l)
           d == LoadFirst(3, 9, StatusOk(l)) \o <<Ldi(15, STATUS)>> \o St(3)
<1>1. 3 \in Data /\ 9 \in Data /\ STATUS \in Pointers(l) /\ 1 \in HalfWords
  BY Halves DEF Data, Pointers, Numbers
<1>2. StatusOk(l) \in HalfWords \X HalfWords
  BY Named
<1>3. LoadFirst(3, 9, StatusOk(l)) \in Run(S, 5) /\ <<Ldi(15, STATUS)>> \in Run(S, 1)
      /\ St(3) \in Run(S, 1)
  BY <1>1, <1>2, Pieces, Loads
<1>4. d \in Run(S, 5 + 1 + 1)
  BY <1>3, Chain, Zenon
<1>5. DoneText(l) = d \o <<HALTS>>
  BY DEF DoneText, HALTS
<1> HIDE DEF d
<1>6. d \in Run(S, 7)
  BY <1>4
<1> QED
  BY <1>5, <1>6

LEMMA TaskAStart == TaskA = 9
<1>1. PICK d \in Run(Straight("plain"), 7) : DoneText("plain") = d \o <<HALTS>>
  BY DoneShape
<1> DEFINE S == Straight("plain") \cup {HALTS}
<1>2. d \in Run(S, 7) /\ <<HALTS>> \in Run(S, 1)
  BY Widen DEF Run
<1>3. DoneText("plain") \in Run(S, 7 + 1)
  BY <1>1, <1>2, Chain, Zenon
<1>4. Len(DoneText("plain")) = 8
  BY <1>3 DEF Run
<1>5. TaskA = 8 + 1
  BY <1>4, Zenon DEF TaskA
<1> QED
  BY <1>5

LEMMA SaveTexts ==
    /\ \E a \in Run(Straight("save") \cup Jumps(47), 39) :
          TaskAText("save") = a \o Go(KDone)
    /\ \E c \in Run(Straight("save"), 18) :
          TaskBText("save") = c \o Store(FLAG, 1) \o Go(KResume)
<1> DEFINE S == Straight("save")
           A == S \cup Jumps(47)
<1>1. /\ 1 \in Data /\ 2 \in Data /\ 4 \in Data /\ 5 \in Data /\ 6 \in Data
      /\ 7 \in Data /\ 13 \in Data /\ 14 \in Data
  BY DEF Data
<1>2. /\ FLAG \in Pointers("save") /\ VERIFY \in Pointers("save")
      /\ EXIT_A \in Pointers("save") /\ UART_B \in Pointers("save")
      /\ UART_B_LEN \in Pointers("save") /\ EXIT_B \in Pointers("save")
  BY Zenon DEF Pointers
<1>3. S \subseteq A /\ Jumps(47) \subseteq A
  OBVIOUS
<1> DEFINE start == LoadFirst(1, 5, R1A) \o Load(2, 5, R2A)
           m1 == Ldi4 \o Load(6, 5, R1A)
           m2 == Load(7, 5, R2A)
<1>4. start \in Run(A, 5 + 4) /\ m1 \in Run(A, 1 + 4) /\ m2 \in Run(A, 4)
  <2>1. /\ LoadFirst(1, 5, R1A) \in Run(A, 5) /\ Load(2, 5, R2A) \in Run(A, 4)
        /\ Ldi4 \in Run(A, 1) /\ Load(6, 5, R1A) \in Run(A, 4)
        /\ Load(7, 5, R2A) \in Run(A, 4)
    BY <1>1, <1>2, <1>3, Named, Pieces, Loads
  <2> QED
    BY <2>1, Chain, Zenon
<1> HIDE DEF start, m1, m2
<1>5. /\ TaskA + Len(start) = 18 /\ 18 + 5 + Len(m1) = 28 /\ 28 + 3 + Len(m2) = 35
  <2>1. Len(start) = 9 /\ Len(m1) = 5 /\ Len(m2) = 4
    BY <1>4 DEF Run
  <2> QED
    BY <2>1, TaskAStart
<1> DEFINE b == start \o Wait(18) \o m1 \o Check(1, 6, 28) \o m2 \o Check(2, 7, 35)
           a == b \o Load(14, 5, FEEDCAFE) \o <<Ldi(15, VERIFY)>> \o St(14)
                \o <<Ldi(15, EXIT_A), Ldi(14, FEEDCAFE[1]), I("SHL", 14, 4)>> \o St(14)
<1>6. TaskAText("save") = a \o Go(KDone)
  BY <1>5, Zenon DEF TaskAText, SaveTaskA, start, m1, m2
<1>7. a \in Run(A, 29 + 4 + 1 + 1 + 3 + 1)
  <2>1. /\ Wait(18) \in Run(A, 5) /\ Check(1, 6, 28) \in Run(A, 3)
        /\ Check(2, 7, 35) \in Run(A, 3)
    BY <1>1, <1>3, Turns
  <2>2. /\ Load(14, 5, FEEDCAFE) \in Run(A, 4) /\ <<Ldi(15, VERIFY)>> \in Run(A, 1)
        /\ St(14) \in Run(A, 1)
    BY <1>1, <1>2, <1>3, Named, Pieces, Loads
  <2>3. <<Ldi(15, EXIT_A), Ldi(14, FEEDCAFE[1]), I("SHL", 14, 4)>> \in Run(A, 3)
    <3>1. Ldi(15, EXIT_A) \in A /\ Ldi(14, FEEDCAFE[1]) \in A /\ I("SHL", 14, 4) \in A
      BY <1>1, <1>2, <1>3, Named, Member
    <3> QED
      BY <3>1 DEF Run
  <2>4. b \in Run(A, 5 + 4 + 5 + (1 + 4) + 3 + 4 + 3)
    BY <1>4, <2>1, Chain, Zenon
  <2>5. b \in Run(A, 29)
    <3> HIDE DEF b
    <3> QED
      BY <2>4
  <2> HIDE DEF b
  <2> QED
    BY <2>2, <2>3, <2>5, Chain, Zenon
<1>8. a \in Run(A, 39)
  <2> HIDE DEF a
  <2> QED
    BY <1>7
<1> DEFINE c == LoadFirst(1, 5, R1B) \o Load(2, 5, R2B) \o WriteB
<1>9. TaskBText("save") = c \o Store(FLAG, 1) \o Go(KResume)
  BY Zenon DEF TaskBText
<1>10. WriteB \in Run(S, 3 + 3 + 3)
  <2>1. /\ Store(UART_B, PACK_B) \in Run(S, 3) /\ Store(UART_B_LEN, 4) \in Run(S, 3)
        /\ Store(EXIT_B, 7) \in Run(S, 3)
    BY <1>1, <1>2, Named, Pieces, Loads
  <2> QED
    BY <2>1, Chain, Zenon DEF WriteB
<1>11. c \in Run(S, 5 + 4 + (3 + 3 + 3))
  <2>1. /\ LoadFirst(1, 5, R1B) \in Run(S, 5)
        /\ Load(2, 5, R2B) \in Run(S, 4)
    BY <1>1, <1>2, Named, Pieces, Loads
  <2> QED
    BY <1>10, <2>1, Chain, Zenon
<1>12. c \in Run(S, 18)
  <2> HIDE DEF c
  <2> QED
    BY <1>11
<1> QED
  BY <1>6, <1>8, <1>9, <1>12

LEMMA PagedTexts ==
    /\ \E a \in Run(Straight("paged") \cup Jumps(36), 28) :
          TaskAText("paged") = a \o Go(KDone)
    /\ \E c \in Run(Straight("paged"), 9) :
          TaskBText("paged") = c \o Store(FLAG, 1) \o Go(KResume)
<1> DEFINE S == Straight("paged")
           A == S \cup Jumps(36)
<1>1. /\ 1 \in Data /\ 2 \in Data /\ 4 \in Data /\ 5 \in Data /\ 13 \in Data
      /\ 14 \in Data
  BY DEF Data
<1>2. /\ FLAG \in Pointers("paged") /\ VERIFY \in Pointers("paged")
      /\ HIGH_A \in Pointers("paged") /\ HIGH_B \in Pointers("paged")
  BY Zenon DEF Pointers
<1>3. S \subseteq A /\ Jumps(36) \subseteq A
  OBVIOUS
<1> DEFINE start == Ldi4 \o <<Ldi(15, HIGH_A)>> \o Load(14, 5, HighA) \o St(14)
           m == <<Ldi(15, HIGH_A), I("LD", 1, 15)>> \o Ldi4 \o Load(14, 5, HighA)
<1>4. start \in Run(A, 1 + 1 + 4 + 1) /\ m \in Run(A, 2 + 1 + 4)
  <2>1. /\ Ldi4 \in Run(A, 1) /\ <<Ldi(15, HIGH_A)>> \in Run(A, 1)
        /\ Load(14, 5, HighA) \in Run(A, 4) /\ St(14) \in Run(A, 1)
    BY <1>1, <1>2, <1>3, Named, Pieces, Loads
  <2>2. <<Ldi(15, HIGH_A), I("LD", 1, 15)>> \in Run(A, 2)
    <3>1. Ldi(15, HIGH_A) \in A /\ I("LD", 1, 15) \in A
      BY <1>1, <1>2, <1>3, Member
    <3> QED
      BY <3>1 DEF Run
  <2> QED
    BY <2>1, <2>2, Chain, Zenon
<1> HIDE DEF start, m
<1>5. TaskA + Len(start) = 16 /\ 16 + 5 + Len(m) = 28
  <2>1. Len(start) = 7 /\ Len(m) = 7
    BY <1>4 DEF Run
  <2> QED
    BY <2>1, TaskAStart
<1> DEFINE a == start \o Wait(16) \o m \o Check(1, 14, 28)
                \o <<Ldi(15, VERIFY)>> \o Load(14, 5, FEED0017) \o St(14)
<1>6. TaskAText("paged") = a \o Go(KDone)
  BY <1>5, Zenon DEF TaskAText, PagedTaskA, start, m
<1>7. a \in Run(A, 1 + 1 + 4 + 1 + 5 + (2 + 1 + 4) + 3 + 1 + 4 + 1)
  <2>1. Wait(16) \in Run(A, 5) /\ Check(1, 14, 28) \in Run(A, 3)
    BY <1>1, <1>3, Turns
  <2>2. /\ Load(14, 5, FEED0017) \in Run(A, 4) /\ <<Ldi(15, VERIFY)>> \in Run(A, 1)
        /\ St(14) \in Run(A, 1)
    BY <1>1, <1>2, <1>3, Named, Pieces, Loads
  <2> QED
    BY <1>4, <2>1, <2>2, Chain, Zenon
<1>8. a \in Run(A, 28)
  <2> HIDE DEF a
  <2> QED
    BY <1>7
<1> DEFINE c == Ldi4 \o <<Ldi(15, HIGH_B)>> \o Load(14, 5, HighB) \o St(14)
                \o <<Ldi(1, Junk1), Ldi(2, Junk2)>>
<1>9. TaskBText("paged") = c \o Store(FLAG, 1) \o Go(KResume)
  BY Zenon DEF TaskBText
<1>10. c \in Run(S, 1 + 1 + 4 + 1 + 2)
  <2>1. /\ Ldi4 \in Run(S, 1) /\ <<Ldi(15, HIGH_B)>> \in Run(S, 1)
        /\ Load(14, 5, HighB) \in Run(S, 4) /\ St(14) \in Run(S, 1)
    BY <1>1, <1>2, Named, Pieces, Loads
  <2>2. <<Ldi(1, Junk1), Ldi(2, Junk2)>> \in Run(S, 2)
    <3>1. Ldi(1, Junk1) \in S /\ Ldi(2, Junk2) \in S
      BY <1>1, Named, Member
    <3> QED
      BY <3>1 DEF Run
  <2> QED
    BY <2>1, <2>2, Chain, Zenon
<1>11. c \in Run(S, 9)
  <2> HIDE DEF c
  <2> QED
    BY <1>10
<1> QED
  BY <1>6, <1>8, <1>9, <1>11

LEMMA PlainTexts ==
    ASSUME NEW l \in {"plain", "fault"}
    PROVE  /\ \E a \in Run(Straight(l), 3) : \E i \in {I("JMP", 0, 11), HALTS} :
                 TaskAText(l) = a \o <<i>>
           /\ \E c \in Run(Straight(l), 9) : TaskBText(l) = c \o Go(KDone)
<1> DEFINE S == Straight(l)
<1>1. /\ 1 \in Data /\ 2 \in Data /\ 14 \in Data
  BY DEF Data
<1>2. /\ UART_B \in Pointers(l) /\ UART_B_LEN \in Pointers(l) /\ EXIT_B \in Pointers(l)
      /\ l = "fault" => TIMER_COUNT \in Pointers(l)
  BY Zenon DEF Pointers
<1>3. \E a \in Run(S, 3) : \E i \in {I("JMP", 0, 11), HALTS} : TaskAText(l) = a \o <<i>>
  <2>1. CASE l = "plain"
    <3> DEFINE a == <<I("XOR", 1, 1), Ldi(2, 1), I("SUM", 1, 2)>>
    <3>1. I("XOR", 1, 1) \in S /\ Ldi(2, 1) \in S /\ I("SUM", 1, 2) \in S
      BY <1>1, Named, Member
    <3>2. a \in Run(S, 3)
      BY <3>1 DEF Run
    <3>3. TaskA + 2 = 11
      BY TaskAStart
    <3>4. TaskAText(l) = <<I("XOR", 1, 1), Ldi(2, 1), I("SUM", 1, 2), I("JMP", 0, 11)>>
      BY <2>1, <3>3, Zenon DEF TaskAText
    <3>5. TaskAText(l) = a \o <<I("JMP", 0, 11)>>
      BY <3>4
    <3> QED
      BY <3>2, <3>5
  <2>2. CASE l = "fault"
    <3>1. Store(TIMER_COUNT, 0) \in Run(S, 3)
      BY <1>2, <2>2, Named, Pieces
    <3>2. TaskAText(l) = Store(TIMER_COUNT, 0) \o <<HALTS>>
      BY <2>2, Zenon DEF TaskAText, HALTS
    <3> QED
      BY <3>1, <3>2
  <2> QED
    BY <2>1, <2>2
<1>4. WriteB \in Run(S, 3 + 3 + 3)
  <2>1. /\ Store(UART_B, PACK_B) \in Run(S, 3) /\ Store(UART_B_LEN, 4) \in Run(S, 3)
        /\ Store(EXIT_B, 7) \in Run(S, 3)
    BY <1>1, <1>2, Named, Pieces
  <2> QED
    BY <2>1, Chain, Zenon DEF WriteB
<1>5. WriteB \in Run(S, 9)
  BY <1>4
<1>6. TaskBText(l) = WriteB \o Go(KDone)
  BY Zenon DEF TaskBText
<1> QED
  BY <1>3, <1>5, <1>6

-------------------------------------------------------------------------------
(* Where the instructions of a leg lead.                                   *)
AllLegs == {"plain", "save", "fault", "paged"}
KJMPS == I("KJMP", 30, 0)
First(l) == TaskA + Len(TaskAText(l))   \* task B
Last(l) == Len(Program[l])
\* n is in the same task as p, and not a KJMP whose r30 is still to be loaded.
Leads(l, p, n) ==
    n \in 1 .. Last(l) /\ (p < First(l) <=> n < First(l)) /\ Program[l][n].op # "KJMP"
Way(l, p) ==
    LET i == Program[l][p]
    IN  \/ i \in Straight(l) /\ Leads(l, p, p + 1)
        \/ /\ i \in Jumps(First(l) - 1) /\ Leads(l, p, i.x)
           /\ i.op = "JZ" => Leads(l, p, p + 1)
        \/ i = HALTS
        \/ /\ i = Ldi(30, KDone) /\ p + 1 \in 1 .. Last(l) /\ Program[l][p + 1] = KJMPS
           /\ p < First(l) <=> p + 1 < First(l)
        \/ /\ i = Ldi(30, KResume) /\ p + 1 = Last(l) /\ Program[l][p + 1] = KJMPS
           /\ l \in {"save", "paged"} /\ First(l) <= p
        \/ i = KJMPS

LEMMA Kinds ==
    ASSUME NEW l, NEW n
    PROVE  /\ \A i \in Straight(l) : i.op \notin {"KJMP", "HALT", "JMP", "JZ"}
           /\ \A i \in Jumps(n) : i.op \in {"JMP", "JZ"} /\ i.x \in 1 .. n
           /\ HALTS.op = "HALT" /\ KJMPS.op = "KJMP"
           /\ \A x : Ldi(30, x).op = "LDI" /\ Ldi(30, x).r = 30 /\ Ldi(30, x).x = x
<1>1. \A i \in Straight(l) : i.op \notin {"KJMP", "HALT", "JMP", "JZ"}
  BY DEF Straight
<1>2. \A i \in Jumps(n) : i.op \in {"JMP", "JZ"} /\ i.x \in 1 .. n
  BY DEF Jumps
<1> QED
  BY <1>1, <1>2 DEF HALTS, KJMPS, Ldi, I

\* Two runs after each other.
Then(s, t) == s \o t
LEMMA ThenRun ==
    ASSUME NEW S, NEW m, NEW n, NEW s \in Run(S, m), NEW t \in Run(S, n)
    PROVE  Then(s, t) \in Run(S, m + n)
BY Chain, Zenon DEF Then

LEMMA ThenAt ==
    ASSUME NEW S, NEW m \in Nat, NEW n \in Nat, NEW s \in Run(S, m), NEW t \in Run(S, n)
    PROVE  /\ \A p \in 1 .. m : Then(s, t)[p] = s[p]
           /\ \A p \in 1 .. n : Then(s, t)[m + p] = t[p]
<1>1. s \in Seq(S) /\ t \in Seq(S) /\ Len(s) = m /\ Len(t) = n
  BY DEF Run
<1>2. \A p \in 1 .. m + n : Then(s, t)[p] = IF p <= m THEN s[p] ELSE t[p - m]
  BY <1>1, ConcatProperties, Zenon DEF Then
<1>3. \A p \in 1 .. m : Then(s, t)[p] = s[p]
  BY <1>2
<1>4. ASSUME NEW p \in 1 .. n
      PROVE  m + p \in 1 .. m + n /\ ~(m + p <= m) /\ m + p - m = p
  OBVIOUS
<1> QED
  BY <1>2, <1>3, <1>4

LEMMA Members ==
    ASSUME NEW S, NEW n \in Nat, NEW s \in Run(S, n)
    PROVE  s \in Seq(S) /\ Len(s) = n /\ \A p \in 1 .. n : s[p] \in S
BY DEF Run

\* Where the members of six runs end up.
Whole(d, h, a, e, c, g) == Then(Then(Then(d, h), Then(a, e)), Then(c, g))
Spread(T, m, k, q, d, h, a, e, c, g) ==
    /\ \A p \in 1 .. 7 : T[p] = d[p]
    /\ T[8] = h[1]
    /\ \A p \in 1 .. m : T[8 + p] = a[p]
    /\ \A p \in 1 .. q : T[8 + m + p] = e[p]
    /\ \A p \in 1 .. k : T[8 + m + q + p] = c[p]
    /\ T[8 + m + q + k + 1] = g[1] /\ T[8 + m + q + k + 2] = g[2]
LEMMA Six ==
    ASSUME NEW S, NEW m \in Nat, NEW k \in Nat, NEW q \in Nat,
           NEW d \in Run(S, 7), NEW h \in Run(S, 1), NEW a \in Run(S, m),
           NEW e \in Run(S, q), NEW c \in Run(S, k), NEW g \in Run(S, 2)
    PROVE  LET T == Whole(d, h, a, e, c, g)
           IN  T \in Run(S, 10 + m + q + k) /\ Spread(T, m, k, q, d, h, a, e, c, g)
<1>30. PICK T : T = Whole(d, h, a, e, c, g)
  OBVIOUS
<1>4. PICK D : D = Then(d, h)
  OBVIOUS
<1>5. PICK A : A = Then(a, e)
  OBVIOUS
<1>6. PICK C : C = Then(c, g)
  OBVIOUS
<1>7. PICK U : U = Then(D, A)
  OBVIOUS
<1>8. T = Then(U, C)
  BY <1>4, <1>5, <1>6, <1>7, <1>30 DEF Whole
<1>1. /\ D \in Run(S, 7 + 1) /\ A \in Run(S, m + q) /\ C \in Run(S, k + 2)
      /\ U \in Run(S, 7 + 1 + (m + q)) /\ T \in Run(S, 7 + 1 + (m + q) + (k + 2))
  BY <1>4, <1>5, <1>6, <1>7, <1>8, ThenRun, Zenon
<1>2. D \in Run(S, 8) /\ U \in Run(S, 8 + (m + q)) /\ T \in Run(S, 10 + m + q + k)
  BY <1>1
<1>21. (\A p \in 1 .. 7 : D[p] = d[p]) /\ D[8] = h[1]
  <2>1. \A p \in 1 .. 1 : D[7 + p] = h[p]
    BY <1>4, ThenAt
  <2>2. D[8] = h[1]
    BY <2>1
  <2>3. \A p \in 1 .. 7 : D[p] = d[p]
    BY <1>4, ThenAt
  <2> QED
    BY <2>2, <2>3
<1>23. /\ \A p \in 1 .. m : A[p] = a[p]
       /\ \A p \in 1 .. q : A[m + p] = e[p]
  BY <1>5, ThenAt
<1>24. /\ \A p \in 1 .. k : C[p] = c[p]
       /\ \A p \in 1 .. 2 : C[k + p] = g[p]
  BY <1>6, ThenAt
<1>3. PICK b, n, v, w : b = 8 /\ n = m + q /\ v = 8 + (m + q) /\ w = k + 2
  OBVIOUS
<1>18. b \in Nat /\ n \in Nat /\ v \in Nat /\ w \in Nat
  BY <1>3
<1>19. D \in Run(S, b) /\ A \in Run(S, n) /\ U \in Run(S, v) /\ C \in Run(S, w)
  BY <1>1, <1>2, <1>3, Zenon
<1>9. /\ \A p \in 1 .. b : U[p] = D[p]
      /\ \A p \in 1 .. n : U[b + p] = A[p]
  BY <1>7, <1>18, <1>19, ThenAt, SMTT(60)
<1>10. /\ \A p \in 1 .. v : T[p] = U[p]
       /\ \A p \in 1 .. w : T[v + p] = C[p]
  BY <1>8, <1>18, <1>19, ThenAt, SMTT(60)
<1>11. \A p \in 1 .. 8 : T[p] = D[p]
  BY <1>3, <1>9, <1>10
<1>12. \A p \in 1 .. m + q : T[8 + p] = A[p]
  BY <1>3, <1>9, <1>10
<1>13. \A p \in 1 .. m : T[8 + p] = a[p]
  BY <1>12, <1>23
<1>14. \A p \in 1 .. q : T[8 + m + p] = e[p]
  <2>1. ASSUME NEW p \in 1 .. q
        PROVE  m + p \in 1 .. m + q /\ 8 + (m + p) = 8 + m + p
    OBVIOUS
  <2> QED
    BY <1>23, <1>12, <2>1
<1>15. \A p \in 1 .. k + 2 : T[8 + m + q + p] = C[p]
  BY <1>3, <1>10
<1>16. \A p \in 1 .. k : T[8 + m + q + p] = c[p]
  BY <1>15, <1>24
<1>17. T[8 + m + q + k + 1] = g[1] /\ T[8 + m + q + k + 2] = g[2]
  BY <1>15, <1>24
<1> QED
  BY <1>2, <1>11, <1>13, <1>14, <1>16, <1>17, <1>21, <1>30 DEF Spread

\* The text of a leg, from the shapes of its parts.
\* Where task B's KJMP goes.
Comes(l, x) == x = KDone \/ (x = KResume /\ l \in {"save", "paged"})
\* Task A's last q instructions, behind m others.
Ends(q, e, m) ==
    \/ q = 2 /\ e = Go(KDone)
    \/ q = 1 /\ e = <<I("JMP", 0, 8 + m)>>
    \/ q = 1 /\ e = <<HALTS>>
Laid(l, m, k, q, e, c, x) ==
    /\ First(l) = 9 + m + q /\ Last(l) = 10 + m + q + k
    /\ \A p \in 1 .. 7 : Program[l][p] \in Straight(l)
    /\ Program[l][8] = HALTS
    /\ \A p \in 1 .. m : Program[l][8 + p] \in Straight(l) \cup Jumps(8 + m)
    /\ \A p \in 1 .. q : Program[l][8 + m + p] = e[p]
    /\ \A p \in 1 .. k : Program[l][8 + m + q + p] = c[p] /\ c[p] \in Straight(l)
    /\ Program[l][8 + m + q + k + 1] = Ldi(30, x)
    /\ Program[l][8 + m + q + k + 2] = KJMPS
LEMMA Layout ==
    ASSUME NEW l \in AllLegs, NEW m \in Nat, NEW k \in Nat,
           NEW a \in Run(Straight(l) \cup Jumps(8 + m), m),
           NEW q \in {1, 2}, NEW e,
           Ends(q, e, m),
           m > 0,
           NEW c \in Run(Straight(l), k), k > 0,
           NEW x, Comes(l, x),
           TaskAText(l) = a \o e, TaskBText(l) = c \o Go(x)
    PROVE  Laid(l, m, k, q, e, c, x)
<1> DEFINE S == Straight(l) \cup Jumps(8 + m) \cup {HALTS, KJMPS, Ldi(30, KDone), Ldi(30, KResume)}
           T == Program[l]
<1>1. PICK d \in Run(Straight(l), 7) : DoneText(l) = d \o <<HALTS>>
  BY DoneShape
<1>2. T = (d \o <<HALTS>>) \o (a \o e) \o (c \o Go(x))
  BY <1>1, Zenon DEF Program, AllLegs
<1>3. /\ d \in Run(S, 7) /\ a \in Run(S, m) /\ c \in Run(S, k)
      /\ <<HALTS>> \in Run(S, 1) /\ e \in Run(S, q) /\ Go(x) \in Run(S, 2)
  <2>1. d \in Run(S, 7) /\ a \in Run(S, m) /\ c \in Run(S, k)
    BY Widen
  <2>2. <<HALTS>> \in Run(S, 1)
    BY DEF Run
  <2>3. Go(KDone) \in Run(S, 2) /\ Go(KResume) \in Run(S, 2)
    BY DEF Run, Go, KJMPS
  <2>4. I("JMP", 0, 8 + m) \in Jumps(8 + m)
    BY DEF I, Jumps
  <2>5. <<I("JMP", 0, 8 + m)>> \in Run(S, 1)
    BY <2>4 DEF Run
  <2> QED
    BY <2>1, <2>2, <2>3, <2>5 DEF Ends, Comes
<1> HIDE DEF S
<1>4. T = Whole(d, <<HALTS>>, a, e, c, Go(x)) /\ TaskAText(l) = Then(a, e)
  BY <1>2, Zenon DEF Then, Whole
<1> HIDE DEF T
<1>10. Then(a, e) \in Run(S, m + q)
  BY <1>3, ThenRun, Zenon
<1>5. /\ T \in Run(S, 10 + m + q + k)
      /\ \A p \in 1 .. 7 : T[p] = d[p]
      /\ T[8] = <<HALTS>>[1]
      /\ \A p \in 1 .. m : T[8 + p] = a[p]
      /\ \A p \in 1 .. q : T[8 + m + p] = e[p]
      /\ \A p \in 1 .. k : T[8 + m + q + p] = c[p]
      /\ T[8 + m + q + k + 1] = Go(x)[1] /\ T[8 + m + q + k + 2] = Go(x)[2]
  <2>1. PICK h, g : h = <<HALTS>> /\ g = Go(x)
    OBVIOUS
  <2>2. /\ d \in Run(S, 7) /\ h \in Run(S, 1) /\ g \in Run(S, 2)
        /\ a \in Run(S, m) /\ e \in Run(S, q) /\ c \in Run(S, k)
        /\ T = Whole(d, h, a, e, c, g)
    BY <1>3, <1>4, <2>1, Zenon
  <2>4. q \in Nat
    OBVIOUS
  <2>3. T \in Run(S, 10 + m + q + k) /\ Spread(T, m, k, q, d, h, a, e, c, g)
    BY <2>2, <2>4, Six, SMT
  <2> QED
    BY <2>1, <2>3, Zenon DEF Spread
<1>6. First(l) = 9 + m + q /\ Last(l) = 10 + m + q + k
  <2>1. Len(TaskAText(l)) = m + q /\ Len(T) = 10 + m + q + k
    BY <1>4, <1>5, <1>10, Zenon DEF Run
  <2>2. First(l) = 9 + Len(TaskAText(l)) /\ Last(l) = Len(T)
    BY TaskAStart, Zenon DEF First, Last, T
  <2> QED
    BY <2>1, <2>2
<1>7. \A p \in 1 .. 7 : d[p] \in Straight(l)
  BY Members
<1>8. \A p \in 1 .. m : a[p] \in Straight(l) \cup Jumps(8 + m)
  BY Members, Zenon
<1>9. Go(x)[1] = Ldi(30, x) /\ Go(x)[2] = KJMPS /\ <<HALTS>>[1] = HALTS
  BY DEF Go, KJMPS
<1>11. \A p \in 1 .. k : c[p] \in Straight(l)
  BY Members, Zenon
<1> QED
  BY <1>5, <1>6, <1>7, <1>8, <1>9, <1>11, Zenon DEF T, Laid

LEMMA Ranges ==
    ASSUME NEW m \in Nat, NEW k \in Nat, NEW q \in Nat, q = 1 \/ q = 2,
           NEW p \in 1 .. 10 + m + q + k
    PROVE  \/ p \in 1 .. 7 \/ p = 8 \/ p \in 9 .. 8 + m \/ p = 9 + m \/ (p = 10 + m /\ q = 2)
           \/ p \in 9 + m + q .. 8 + m + q + k \/ p = 9 + m + q + k \/ p = 10 + m + q + k
<1>1. p \in Int /\ 1 <= p /\ p <= 10 + m + q + k
  OBVIOUS
<1>2. p <= 7 \/ p = 8 \/ (9 <= p /\ p <= 8 + m) \/ p = 9 + m \/ 10 + m <= p
  BY <1>1
<1>3. 10 + m <= p => (p = 10 + m /\ q = 2) \/ 9 + m + q <= p
  BY <1>1
<1>4. 9 + m + q <= p => \/ (9 + m + q <= p /\ p <= 8 + m + q + k)
                         \/ p = 9 + m + q + k
                         \/ p = 10 + m + q + k
  BY <1>1
<1> QED
  BY <1>1, <1>2, <1>3, <1>4

LEMMA LaidWay ==
    ASSUME NEW l \in AllLegs, NEW m \in Nat, NEW k \in Nat, m > 0, k > 0, NEW q \in {1, 2}, NEW e,
           Ends(q, e, m),
           NEW c, NEW x, Comes(l, x),
           Laid(l, m, k, q, e, c, x)
    PROVE  \A p \in 1 .. Last(l) : Way(l, p)
<1> DEFINE T == Program[l]
<1>1. /\ First(l) = 9 + m + q /\ Last(l) = 10 + m + q + k
      /\ \A p \in 1 .. 7 : T[p] \in Straight(l)
      /\ T[8] = HALTS
      /\ T[9 + m + q + k] = Ldi(30, x)
      /\ T[10 + m + q + k] = KJMPS
  BY DEF Laid
<1>2. \A p \in 9 .. 8 + m : T[p] \in Straight(l) \cup Jumps(8 + m)
  <2>1. ASSUME NEW p \in 9 .. 8 + m
        PROVE  p - 8 \in 1 .. m /\ 8 + (p - 8) = p
    OBVIOUS
  <2>2. \A p \in 1 .. m : T[8 + p] \in Straight(l) \cup Jumps(8 + m)
    BY DEF Laid
  <2> QED
    BY <2>1, <2>2
<1>3. \A p \in 9 + m + q .. 8 + m + q + k : T[p] \in Straight(l)
  <2>1. ASSUME NEW p \in 9 + m + q .. 8 + m + q + k
        PROVE  p - (8 + m + q) \in 1 .. k /\ 8 + m + q + (p - (8 + m + q)) = p
    OBVIOUS
  <2>2. \A p \in 1 .. k : T[8 + m + q + p] \in Straight(l)
    BY DEF Laid
  <2> QED
    BY <2>1, <2>2
<1>4. \/ q = 2 /\ T[9 + m] = Ldi(30, KDone) /\ T[10 + m] = KJMPS
      \/ q = 1 /\ T[9 + m] \in {I("JMP", 0, 8 + m), HALTS}
  <2>1. \A p \in 1 .. q : T[8 + m + p] = e[p]
    BY DEF Laid
  <2> USE DEF Ends
  <2>2. CASE q = 2 /\ e = Go(KDone)
    <3>1. e[1] = Ldi(30, KDone) /\ e[2] = KJMPS
      BY <2>2 DEF Go, KJMPS
    <3> QED
      BY <2>1, <2>2, <3>1
  <2>3. CASE q = 1 /\ e = <<I("JMP", 0, 8 + m)>>
    <3>1. e[1] = I("JMP", 0, 8 + m)
      BY <2>3
    <3> QED
      BY <2>1, <2>3, <3>1
  <2>4. CASE q = 1 /\ e = <<HALTS>>
    <3>1. e[1] = HALTS
      BY <2>4
    <3> QED
      BY <2>1, <2>4, <3>1
  <2> QED
    BY <2>2, <2>3, <2>4
<1> HIDE DEF T
\* Nothing but the second half of a Go is a KJMP.
<1>5. /\ \A i \in Straight(l) \cup Jumps(8 + m) : i.op # "KJMP"
      /\ HALTS.op # "KJMP" /\ Ldi(30, x).op # "KJMP" /\ Ldi(30, KDone).op # "KJMP"
      /\ I("JMP", 0, 8 + m).op # "KJMP"
  BY Kinds DEF I
<1>6. \A p \in 1 .. 9 + m : T[p].op # "KJMP"
  <2> SUFFICES ASSUME NEW p \in 1 .. 9 + m
               PROVE  T[p].op # "KJMP"
    OBVIOUS
  <2>1. p \in 1 .. 7 \/ p = 8 \/ p \in 9 .. 8 + m \/ p = 9 + m
    OBVIOUS
  <2> QED
    BY <1>1, <1>2, <1>4, <1>5, <2>1
<1>7. \A p \in 9 + m + q .. 9 + m + q + k : T[p].op # "KJMP"
  <2> SUFFICES ASSUME NEW p \in 9 + m + q .. 9 + m + q + k
               PROVE  T[p].op # "KJMP"
    OBVIOUS
  <2>1. p \in 9 + m + q .. 8 + m + q + k \/ p = 9 + m + q + k
    OBVIOUS
  <2> QED
    BY <1>1, <1>3, <1>5, <2>1
<1> SUFFICES ASSUME NEW p \in 1 .. Last(l)
             PROVE  Way(l, p)
  OBVIOUS
<1>8. \/ p \in 1 .. 7 \/ p = 8 \/ p \in 9 .. 8 + m \/ p = 9 + m \/ (p = 10 + m /\ q = 2)
      \/ p \in 9 + m + q .. 8 + m + q + k \/ p = 9 + m + q + k \/ p = 10 + m + q + k
  <2>1. p \in 1 .. 10 + m + q + k
    BY <1>1
  <2>2. q \in Nat /\ (q = 1 \/ q = 2)
    OBVIOUS
  <2> QED
    BY <2>1, <2>2, Ranges, Zenon
<1>9. CASE p \in 1 .. 7
  <2>1. p + 1 \in 1 .. 9 + m /\ p + 1 \in 1 .. Last(l) /\ p < First(l) /\ p + 1 < First(l)
    BY <1>1, <1>9
  <2>2. Leads(l, p, p + 1)
    BY <1>6, <2>1 DEF Leads, T
  <2> QED
    BY <1>1, <1>9, <2>2 DEF Way, T
<1>10. CASE p = 8
  BY <1>1, <1>10 DEF Way, T
<1>11. CASE p \in 9 .. 8 + m
  <2>1. p + 1 \in 1 .. 9 + m /\ p + 1 \in 1 .. Last(l) /\ p < First(l) /\ p + 1 < First(l)
    BY <1>1, <1>11
  <2>2. Leads(l, p, p + 1)
    BY <1>6, <2>1 DEF Leads, T
  <2>3. CASE T[p] \in Straight(l)
    BY <2>2, <2>3 DEF Way, T
  <2>4. CASE T[p] \in Jumps(8 + m)
    <3>1. T[p].x \in 1 .. 8 + m
      BY <2>4, Kinds
    <3>2. T[p].x \in 1 .. 9 + m /\ T[p].x \in 1 .. Last(l) /\ T[p].x < First(l)
      BY <1>1, <3>1
    <3>3. Leads(l, p, T[p].x)
      BY <1>6, <2>1, <3>2 DEF Leads, T
    <3>4. T[p] \in Jumps(First(l) - 1)
      BY <1>1, <2>4 DEF Jumps
    <3> QED
      BY <2>2, <3>3, <3>4 DEF Way, T
  <2> QED
    BY <1>2, <1>11, <2>3, <2>4
<1>12. CASE p = 9 + m
  <2>1. CASE q = 2 /\ T[9 + m] = Ldi(30, KDone) /\ T[10 + m] = KJMPS
    <3>1. p + 1 = 10 + m /\ p + 1 \in 1 .. Last(l) /\ p < First(l) /\ p + 1 < First(l)
      BY <1>1, <1>12, <2>1
    <3> QED
      BY <1>12, <2>1, <3>1 DEF Way, T
  <2>2. CASE q = 1 /\ T[9 + m] = I("JMP", 0, 8 + m)
    <3>1. I("JMP", 0, 8 + m).x = 8 + m /\ I("JMP", 0, 8 + m).op = "JMP"
          /\ I("JMP", 0, 8 + m) \in Jumps(First(l) - 1)
      BY <1>1 DEF I, Jumps
    <3>2. 8 + m \in 1 .. 9 + m /\ 8 + m \in 1 .. Last(l) /\ 8 + m < First(l) /\ p < First(l)
      BY <1>1, <1>12, <2>2
    <3>3. Leads(l, p, 8 + m)
      BY <1>6, <3>2 DEF Leads, T
    <3> QED
      BY <1>12, <2>2, <3>1, <3>3 DEF Way, T
  <2>3. CASE q = 1 /\ T[9 + m] = HALTS
    BY <1>12, <2>3 DEF Way, T
  <2> QED
    BY <1>4, <2>1, <2>2, <2>3
<1>13. CASE p = 10 + m /\ q = 2
  BY <1>4, <1>13 DEF Way, T
<1>14. CASE p \in 9 + m + q .. 8 + m + q + k
  <2>1. /\ p + 1 \in 9 + m + q .. 9 + m + q + k /\ p + 1 \in 1 .. Last(l)
        /\ ~(p < First(l)) /\ ~(p + 1 < First(l))
    BY <1>1, <1>14
  <2>2. Leads(l, p, p + 1)
    BY <1>7, <2>1 DEF Leads, T
  <2> QED
    BY <1>3, <1>14, <2>2 DEF Way, T
<1>15. CASE p = 9 + m + q + k
  <2>1. p + 1 = 10 + m + q + k /\ p + 1 = Last(l) /\ First(l) <= p /\ p + 1 \in 1 .. Last(l)
        /\ ~(p < First(l)) /\ ~(p + 1 < First(l))
    BY <1>1, <1>15
  <2> QED
    BY <1>1, <1>15, <2>1 DEF Way, T, Comes
<1>16. CASE p = 10 + m + q + k
  BY <1>1, <1>16 DEF Way, T
<1> QED
  BY <1>8, <1>9, <1>10, <1>11, <1>12, <1>13, <1>14, <1>15, <1>16

\* The last three instructions of task B's way set its flag.
Sets(c, k) ==
    c[k - 2] = Ldi(15, FLAG) /\ c[k - 1] = Ldi(14, 1) /\ c[k] = I("ST", 14, 15)
LEMMA FlagAtEnd ==
    ASSUME NEW l, NEW n \in Nat, n > 0, NEW c \in Run(Straight(l), n),
           NEW u, u = c \o Store(FLAG, 1)
    PROVE  u \in Run(Straight(l), n + 3) /\ Sets(u, n + 3)
<1>1. FLAG \in Pointers(l) /\ 1 \in HalfWords
  BY Named, Zenon DEF Pointers
<1>2. Store(FLAG, 1) \in Run(Straight(l), 3)
  BY <1>1, Pieces
<1>3. PICK g, v : g = Store(FLAG, 1) /\ v = Then(c, g)
  OBVIOUS
<1>4. g[1] = Ldi(15, FLAG) /\ g[2] = Ldi(14, 1) /\ g[3] = I("ST", 14, 15)
  BY <1>3 DEF Store, St
<1>5. g \in Run(Straight(l), 3)
  BY <1>2, <1>3
<1>6. v \in Run(Straight(l), n + 3)
  BY <1>3, <1>5, ThenRun, Zenon
<1>7. \A p \in 1 .. 3 : v[n + p] = g[p]
  BY <1>3, <1>5, ThenAt
<1>8. v[n + 1] = Ldi(15, FLAG) /\ v[n + 2] = Ldi(14, 1) /\ v[n + 3] = I("ST", 14, 15)
  BY <1>4, <1>7
<1>9. Sets(v, n + 3)
  BY <1>8 DEF Sets
<1> QED
  BY <1>3, <1>6, <1>9, Zenon DEF Then

LEMMA SaveLaid == \E e, c : e = Go(KDone) /\ Sets(c, 21) /\ Laid("save", 39, 21, 2, e, c, KResume)
<1>1. PICK a \in Run(Straight("save") \cup Jumps(47), 39) : TaskAText("save") = a \o Go(KDone)
  BY SaveTexts
<1>2. PICK b \in Run(Straight("save"), 18) :
         TaskBText("save") = b \o Store(FLAG, 1) \o Go(KResume)
  BY SaveTexts
<1>3. PICK c : c = b \o Store(FLAG, 1)
  OBVIOUS
<1>4. c \in Run(Straight("save"), 18 + 3) /\ Sets(c, 18 + 3)
  <2>1. 18 \in Nat /\ 18 > 0
    OBVIOUS
  <2> QED
    BY <1>3, <2>1, FlagAtEnd, Zenon
<1>5. c \in Run(Straight("save"), 21) /\ Sets(c, 21)
  BY <1>4
<1>6. TaskBText("save") = c \o Go(KResume)
  BY <1>2, <1>3, Zenon
<1>7. PICK e : e = Go(KDone)
  OBVIOUS
<1>8. a \in Run(Straight("save") \cup Jumps(8 + 39), 39)
  OBVIOUS
<1>9. Laid("save", 39, 21, 2, e, c, KResume)
  <2>1. /\ "save" \in AllLegs /\ Comes("save", KResume) /\ Ends(2, e, 39) /\ 39 \in Nat /\ 39 > 0
        /\ 21 \in Nat /\ 21 > 0 /\ 2 \in {1, 2}
    BY <1>7 DEF AllLegs, Comes, Ends
  <2>2. TaskAText("save") = a \o e
    BY <1>1, <1>7, Zenon
  <2> QED
    BY <1>5, <1>6, <1>7, <1>8, <2>1, <2>2, Layout, Zenon
<1> QED
  BY <1>5, <1>7, <1>9

LEMMA PagedLaid == \E e, c : e = Go(KDone) /\ Sets(c, 12) /\ Laid("paged", 28, 12, 2, e, c, KResume)
<1>1. PICK a \in Run(Straight("paged") \cup Jumps(36), 28) : TaskAText("paged") = a \o Go(KDone)
  BY PagedTexts
<1>2. PICK b \in Run(Straight("paged"), 9) :
         TaskBText("paged") = b \o Store(FLAG, 1) \o Go(KResume)
  BY PagedTexts
<1>3. PICK c : c = b \o Store(FLAG, 1)
  OBVIOUS
<1>4. c \in Run(Straight("paged"), 9 + 3) /\ Sets(c, 9 + 3)
  <2>1. 9 \in Nat /\ 9 > 0
    OBVIOUS
  <2> QED
    BY <1>3, <2>1, FlagAtEnd, Zenon
<1>5. c \in Run(Straight("paged"), 12) /\ Sets(c, 12)
  BY <1>4
<1>6. TaskBText("paged") = c \o Go(KResume)
  BY <1>2, <1>3, Zenon
<1>7. PICK e : e = Go(KDone)
  OBVIOUS
<1>8. a \in Run(Straight("paged") \cup Jumps(8 + 28), 28)
  OBVIOUS
<1>9. Laid("paged", 28, 12, 2, e, c, KResume)
  <2>1. /\ "paged" \in AllLegs /\ Comes("paged", KResume) /\ Ends(2, e, 28) /\ 28 \in Nat /\ 28 > 0
        /\ 12 \in Nat /\ 12 > 0 /\ 2 \in {1, 2}
    BY <1>7 DEF AllLegs, Comes, Ends
  <2>2. TaskAText("paged") = a \o e
    BY <1>1, <1>7, Zenon
  <2> QED
    BY <1>5, <1>6, <1>7, <1>8, <2>1, <2>2, Layout, Zenon
<1> QED
  BY <1>5, <1>7, <1>9

LEMMA PlainLaid ==
    ASSUME NEW l \in {"plain", "fault"}
    PROVE  \E i \in {I("JMP", 0, 8 + 3), HALTS} : \E c : Laid(l, 3, 9, 1, <<i>>, c, KDone)
<1>1. PICK a \in Run(Straight(l), 3), i \in {I("JMP", 0, 11), HALTS} : TaskAText(l) = a \o <<i>>
  BY PlainTexts
<1>2. PICK c \in Run(Straight(l), 9) : TaskBText(l) = c \o Go(KDone)
  BY PlainTexts
<1>3. a \in Run(Straight(l) \cup Jumps(8 + 3), 3)
  BY Widen
<1>4. i \in {I("JMP", 0, 8 + 3), HALTS}
  OBVIOUS
<1>5. PICK e : e = <<i>>
  OBVIOUS
<1>6. Laid(l, 3, 9, 1, e, c, KDone)
  <2>1. l \in AllLegs /\ 3 \in Nat /\ 3 > 0 /\ 9 \in Nat /\ 9 > 0 /\ 1 \in {1, 2}
    BY DEF AllLegs
  <2>2. TaskAText(l) = a \o e
    BY <1>1, <1>5, Zenon
  <2>3. Ends(1, e, 3) /\ Comes(l, KDone)
    BY <1>4, <1>5 DEF Ends, Comes
  <2> QED
    BY <1>2, <1>3, <2>1, <2>2, <2>3, Layout, Zenon
<1> QED
  BY <1>4, <1>5, <1>6

\* Every leg is laid out so.
LEMMA Legs4 ==
    ASSUME NEW l \in AllLegs
    PROVE  /\ First(l) \in 10 .. 60 /\ Last(l) \in First(l) .. 90
           /\ \A p \in 1 .. 7 : Program[l][p] \in Straight(l)
           /\ Program[l][8] = HALTS
           /\ \A p \in 1 .. Last(l) : Way(l, p)
<1> DEFINE Goal == /\ First(l) \in 10 .. 60 /\ Last(l) \in First(l) .. 90
                   /\ \A p \in 1 .. 7 : Program[l][p] \in Straight(l)
                   /\ Program[l][8] = HALTS
                   /\ \A p \in 1 .. Last(l) : Way(l, p)
<1>1. ASSUME NEW m \in 1 .. 40, NEW k \in 1 .. 30, NEW q \in {1, 2}, NEW e,
             Ends(q, e, m),
             NEW c, NEW x, Comes(l, x),
             Laid(l, m, k, q, e, c, x)
      PROVE  Goal
  <2>1. \A p \in 1 .. Last(l) : Way(l, p)
    BY <1>1, LaidWay
  <2>2. /\ First(l) = 9 + m + q /\ Last(l) = 10 + m + q + k
        /\ \A p \in 1 .. 7 : Program[l][p] \in Straight(l)
        /\ Program[l][8] = HALTS
    BY <1>1 DEF Laid
  <2> QED
    BY <2>1, <2>2
<1>2. CASE l = "save"
  <2>1. PICK e, c : e = Go(KDone) /\ Laid("save", 39, 21, 2, e, c, KResume)
    BY SaveLaid, Zenon
  <2>2. 39 \in 1 .. 40 /\ 21 \in 1 .. 30 /\ 2 \in {1, 2} /\ Ends(2, e, 39) /\ Comes(l, KResume)
    BY <1>2, <2>1 DEF Ends, Comes
  <2> QED
    BY <1>1, <1>2, <2>1, <2>2, Zenon
<1>3. CASE l = "paged"
  <2>1. PICK e, c : e = Go(KDone) /\ Laid("paged", 28, 12, 2, e, c, KResume)
    BY PagedLaid, Zenon
  <2>2. 28 \in 1 .. 40 /\ 12 \in 1 .. 30 /\ 2 \in {1, 2} /\ Ends(2, e, 28) /\ Comes(l, KResume)
    BY <1>3, <2>1 DEF Ends, Comes
  <2> QED
    BY <1>1, <1>3, <2>1, <2>2, Zenon
<1>4. CASE l \in {"plain", "fault"}
  <2>4. PICK i \in {I("JMP", 0, 8 + 3), HALTS} : \E c : Laid(l, 3, 9, 1, <<i>>, c, KDone)
    BY <1>4, PlainLaid
  <2>1. PICK c : Laid(l, 3, 9, 1, <<i>>, c, KDone)
    BY <2>4
  <2>2. 3 \in 1 .. 40 /\ 9 \in 1 .. 30 /\ 1 \in {1, 2}
    OBVIOUS
  <2>3. Ends(1, <<i>>, 3) /\ Comes(l, KDone)
    BY <2>4 DEF Ends, Comes
  <2> QED
    BY <1>1, <2>1, <2>2, <2>3, Zenon
<1> QED
  BY <1>2, <1>3, <1>4 DEF AllLegs

SliceOf(l) == CASE l = "save" -> 21 [] l = "paged" -> 12 [] OTHER -> 11
LEMMA SliceText ==
    ASSUME NEW l \in {"save", "paged"}
    PROVE  LET B == First(l)   N == SliceOf(l)
           IN  /\ N \in 12 .. 21 /\ Last(l) = B + N + 1
               /\ \A p \in B .. B + N - 1 : Program[l][p] \in Straight(l)
               /\ Program[l][B + N - 3] = Ldi(15, FLAG)
               /\ Program[l][B + N - 2] = Ldi(14, 1)
               /\ Program[l][B + N - 1] = I("ST", 14, 15)
               /\ Program[l][B + N] = Ldi(30, KResume) /\ Program[l][B + N + 1] = KJMPS
<1>1. PICK m \in Nat, k \in 12 .. 21 :
         /\ k = SliceOf(l)
         /\ \E e, c : Sets(c, k) /\ Laid(l, m, k, 2, e, c, KResume)
  <2>1. CASE l = "save"
    <3>1. 39 \in Nat /\ 21 \in 12 .. 21 /\ 21 = SliceOf(l)
      BY <2>1 DEF SliceOf
    <3> QED
      BY <2>1, <3>1, SaveLaid, Zenon
  <2>2. CASE l = "paged"
    <3>1. 28 \in Nat /\ 12 \in 12 .. 21 /\ 12 = SliceOf(l)
      BY <2>2 DEF SliceOf
    <3> QED
      BY <2>2, <3>1, PagedLaid, Zenon
  <2> QED
    BY <2>1, <2>2
<1>2. PICK e, c : Sets(c, k) /\ Laid(l, m, k, 2, e, c, KResume)
  BY <1>1
<1>3. First(l) = 11 + m /\ Last(l) = 12 + m + k
  BY <1>2 DEF Laid
<1>4. \A p \in 1 .. k : Program[l][10 + m + p] = c[p] /\ c[p] \in Straight(l)
  BY <1>2 DEF Laid
<1>5. \A p \in First(l) .. First(l) + k - 1 : Program[l][p] \in Straight(l)
  <2>1. ASSUME NEW p \in First(l) .. First(l) + k - 1
        PROVE  p - (10 + m) \in 1 .. k /\ 10 + m + (p - (10 + m)) = p
    BY <1>3
  <2> QED
    BY <1>4, <2>1
<1>6. /\ c[k - 2] = Ldi(15, FLAG) /\ c[k - 1] = Ldi(14, 1) /\ c[k] = I("ST", 14, 15)
  BY <1>2 DEF Sets
<1>7. /\ k - 2 \in 1 .. k /\ k - 1 \in 1 .. k /\ k \in 1 .. k
      /\ 10 + m + (k - 2) = First(l) + k - 3 /\ 10 + m + (k - 1) = First(l) + k - 2
      /\ 10 + m + k = First(l) + k - 1
  BY <1>3
<1>8. /\ Program[l][First(l) + k - 3] = Ldi(15, FLAG)
      /\ Program[l][First(l) + k - 2] = Ldi(14, 1)
      /\ Program[l][First(l) + k - 1] = I("ST", 14, 15)
  BY <1>4, <1>6, <1>7
<1>9. /\ Program[l][11 + m + k] = Ldi(30, KResume) /\ Program[l][12 + m + k] = KJMPS
  BY <1>2 DEF Laid
<1> QED
  BY <1>1, <1>3, <1>5, <1>8, <1>9

-------------------------------------------------------------------------------
(* The inductive invariant, in terms of the leg.                           *)
Half2 == HalfWords \X HalfWords
Saves(l) == l \in {"save", "paged"}
Spots(l) == 1 .. Last(l)
OfB(l, p) == p \in First(l) .. Last(l)
\* Task B's way to its flag.
OnWay(l, p) == p \in First(l) .. First(l) + SliceOf(l) - 1
Types ==
    /\ leg \in Legs /\ quantum \in Quanta
    /\ running \in BOOLEAN /\ faulted \in BOOLEAN /\ torn \in BOOLEAN
    /\ slot \in {"none", "A", "B"} /\ mode \in {"USER", "SUPER"}
    /\ count \in 0 .. quantum
Regs ==
    /\ regs \in [Reg -> HalfWords \X (KResume .. Mixed)]
    /\ \A r \in Reg \ {30} : regs[r] \in Half2
Mem == mem \in [Words -> Half2]
\* r15 points to one of the words that the texts name.
Points == pc # KMain => \E w \in Pointers(leg) : regs[15] = W(w)
\* What a KJMP at p may find in r30: the way out that was just loaded, or its own
\* place when a tick came in between.
Finds(l, p, n) ==
    Program[l][p].op = "KJMP" =>
        n \in {KDone, p} \/ (n = KResume /\ Saves(l) /\ OfB(l, p))
InUser ==
    mode = "USER" => pc \in Spots(leg) /\ count > 0 /\ Finds(leg, pc, regs[30][2])
\* Where the kernel may be: at an entry, on its way to the halt, stopped, or at a
\* KJMP that leads to itself.
InSuper ==
    mode = "SUPER" =>
        \/ pc = KMain
        \/ pc = KTick /\ count = quantum /\ Victim \in Spots(leg)
        \/ pc = KFault
        \/ pc = KResume /\ Saves(leg) /\ count > 0 /\ mem[SAVED_PC][2] \in Spots(leg)
        \/ pc \in 1 .. 8
        \/ pc \in Spots(leg) /\ ~running
        \/ pc \in Spots(leg) /\ Program[leg][pc].op = "KJMP" /\ regs[30][2] = pc
\* Task B runs only when a context was saved.
Saved ==
    Saves(leg) =>
        /\ mem[SAVED_PC][2] \in 0 .. Last(leg)
        /\ mode = "USER" /\ OfB(leg, pc) => mem[SAVED_PC][2] \in Spots(leg)
        /\ pc = KTick /\ OfB(leg, Victim) => mem[SAVED_PC][2] \in Spots(leg)
\* With a long slice the count is what it was when task B was entered, less the
\* instructions of its way: no tick falls before the flag is set.
Kept ==
    (Saves(leg) /\ quantum >= SliceOf(leg)) =>
        /\ slot # "B" /\ ~OfB(leg, mem[SAVED_PC][2])
        /\ mode = "USER" /\ OfB(leg, pc) =>
              /\ OnWay(leg, pc) => count = quantum - (pc - First(leg))
              /\ ~OnWay(leg, pc) => FlagSet
              /\ pc \in First(leg) + SliceOf(leg) - 2 .. First(leg) + SliceOf(leg) - 1 =>
                    regs[15] = W(FLAG)
              /\ pc = First(leg) + SliceOf(leg) - 1 => regs[14] = W(1)
        /\ pc = KTick /\ OfB(leg, Victim) => ~OnWay(leg, Victim) /\ FlagSet
Inv == Types /\ Regs /\ Mem /\ Points /\ InUser /\ InSuper /\ Saved /\ Kept

LEMMA Shared ==
    /\ SAVED_PC \in Words /\ TICK_PC \in Words /\ FLAG \in Words /\ TURN \in Words
    /\ SAVE1 \in Words /\ SAVE2 \in Words /\ FAULT_WORD \in Words
    /\ SAVED_PC # TICK_PC /\ SAVED_PC # TURN /\ SAVED_PC # SAVE1 /\ SAVED_PC # SAVE2
    /\ SAVED_PC # FAULT_WORD /\ FLAG # TICK_PC /\ FLAG # TURN
    /\ \A l : LATCH \in Pointers(l) /\ TURN \in Pointers(l)
    /\ \A l : \A w \in Pointers(l) :
          w # SAVED_PC /\ w \in HalfWords /\ (l # "fault" => w \in Words)
<1>1. /\ SAVED_PC \in Words /\ TICK_PC \in Words /\ FLAG \in Words /\ TURN \in Words
      /\ SAVE1 \in Words /\ SAVE2 \in Words /\ FAULT_WORD \in Words
  BY Zenon DEF Words
<1>2. /\ SAVED_PC # TICK_PC /\ SAVED_PC # TURN /\ SAVED_PC # SAVE1 /\ SAVED_PC # SAVE2
      /\ SAVED_PC # FAULT_WORD /\ FLAG # TICK_PC /\ FLAG # TURN
  BY DEF SAVED_PC, TICK_PC, TURN, SAVE1, SAVE2, FAULT_WORD, FLAG
<1>3. \A l : LATCH \in Pointers(l) /\ TURN \in Pointers(l)
  BY Zenon DEF Pointers
<1>4. ASSUME NEW l, NEW w \in Pointers(l)
      PROVE  w # SAVED_PC /\ w \in HalfWords
  <2>1. /\ w \in {FLAG, VERIFY, EXIT_A, STATUS, UART_B, UART_B_LEN, EXIT_B, HIGH_A,
                   HIGH_B, LATCH, TURN, TIMER_COUNT}
    BY Zenon DEF Pointers
  <2>2. /\ FLAG # SAVED_PC /\ VERIFY # SAVED_PC /\ EXIT_A # SAVED_PC /\ STATUS # SAVED_PC
        /\ UART_B # SAVED_PC /\ UART_B_LEN # SAVED_PC /\ EXIT_B # SAVED_PC
        /\ HIGH_A # SAVED_PC /\ HIGH_B # SAVED_PC /\ LATCH # SAVED_PC
        /\ TURN # SAVED_PC /\ TIMER_COUNT # SAVED_PC
    BY DEF FLAG, VERIFY, EXIT_A, STATUS, UART_B, UART_B_LEN, EXIT_B, HIGH_A, HIGH_B, LATCH,
           TURN, TIMER_COUNT, SAVED_PC
  <2>3. /\ FLAG \in HalfWords /\ VERIFY \in HalfWords /\ EXIT_A \in HalfWords
        /\ STATUS \in HalfWords /\ UART_B \in HalfWords /\ UART_B_LEN \in HalfWords
        /\ EXIT_B \in HalfWords /\ HIGH_A \in HalfWords /\ HIGH_B \in HalfWords
        /\ LATCH \in HalfWords /\ TURN \in HalfWords /\ TIMER_COUNT \in HalfWords
    BY DEF FLAG, VERIFY, EXIT_A, STATUS, UART_B, UART_B_LEN, EXIT_B, HIGH_A, HIGH_B, LATCH,
           TURN, TIMER_COUNT, HalfWords, Mixed
  <2> QED
    BY <2>1, <2>2, <2>3, Zenon
<1>5. ASSUME NEW l, NEW w \in Pointers(l), l # "fault"
      PROVE  w \in Words
  BY <1>5, Zenon DEF Pointers, Words
<1> QED
  BY <1>1, <1>2, <1>3, <1>4, <1>5, Zenon

\* The module's names for the same things.
LEMMA InTermsOfLeg ==
    ASSUME leg \in AllLegs
    PROVE  /\ Text = Program[leg] /\ TaskB = First(leg) /\ Len(Text) = Last(leg)
           /\ Saving <=> Saves(leg)
           /\ \A p : InTaskB(p) <=> OfB(leg, p)
           /\ Slice = SliceOf(leg)
BY Zenon DEF Text, TaskB, First, Last, Saving, Saves, InTaskB, OfB, Slice, SliceOf

LEMMA LegsKnown == Types => leg \in AllLegs /\ quantum \in Nat /\ quantum > 0 /\ count \in Nat
BY LegAssumption, QuantaAssumption DEF Types, AllLegs

LEMMA Begins == Init => Inv
<1> SUFFICES ASSUME Init PROVE Inv
  OBVIOUS
<1>1. leg \in AllLegs /\ quantum \in Nat /\ quantum > 0
  BY LegAssumption, QuantaAssumption DEF Init, AllLegs
<1>2. 0 \in HalfWords /\ HalfWords \subseteq KResume .. Mixed
  BY Halves DEF KResume
<1>3. Types
  <2>1. /\ leg \in Legs /\ quantum \in Quanta /\ running = TRUE /\ faulted = FALSE
        /\ torn = FALSE /\ slot = "none" /\ mode = "SUPER" /\ count = 0
    BY DEF Init
  <2>2. count \in 0 .. quantum
    BY <1>1, <2>1
  <2> QED
    BY <2>1, <2>2, Zenon DEF Types
<1>4. Regs /\ Mem
  BY <1>2 DEF Init, Regs, Mem, Half2, W
<1>5. Points /\ InUser /\ InSuper
  BY DEF Init, Points, InUser, InSuper
<1>6. mem[SAVED_PC][2] = 0 /\ pc # KTick /\ mode # "USER" /\ slot # "B"
  BY Shared DEF Init, W, KMain, KTick
<1>7. First(leg) \in Nat /\ First(leg) > 0 /\ Last(leg) \in Nat
  BY <1>1, Legs4
<1>8. Saved /\ Kept
  BY <1>6, <1>7 DEF Saved, Kept, OfB
<1> QED
  BY <1>3, <1>4, <1>5, <1>8 DEF Inv

\* What an instruction that is committed must bring about.
LEMMA Retiring ==
    ASSUME Inv, pc \in Spots(leg), running,
           NEW next \in Spots(leg), NEW ram \in [Words -> Half2], Commit(next, ram),
           Regs', \E w \in Pointers(leg) : regs'[15] = W(w),
           mode = "SUPER" => next \in 1 .. 8,
           OfB(leg, pc) <=> OfB(leg, next),
           Finds(leg, next, regs'[30][2]),
           ram[SAVED_PC] = mem[SAVED_PC],
           (Saves(leg) /\ quantum >= SliceOf(leg) /\ OfB(leg, pc)) =>
              /\ next = pc + 1
              /\ OnWay(leg, pc) /\ ~OnWay(leg, next) => ram[FLAG] # W(0)
              /\ ~OnWay(leg, pc) => ram[FLAG] = mem[FLAG]
              /\ next = First(leg) + SliceOf(leg) - 2 => regs'[15] = W(FLAG)
              /\ next = First(leg) + SliceOf(leg) - 1 => regs'[15] = W(FLAG) /\ regs'[14] = W(1)
    PROVE  Inv'
<1>1. leg \in AllLegs /\ quantum \in Nat /\ quantum > 0 /\ count \in Nat
  BY LegsKnown DEF Inv
<1>2. /\ leg' = leg /\ quantum' = quantum /\ running' = running /\ faulted' = faulted
      /\ slot' = slot /\ torn' = torn
  BY DEF Commit, fixed
<1>3. First(leg) \in Nat /\ Last(leg) \in Nat /\ 0 < First(leg) /\ Last(leg) <= 90
  BY <1>1, Legs4
<1>4. /\ next \in Nat /\ next \in HalfWords /\ pc \in Nat /\ pc > 0
      /\ next # KMain /\ next # KTick /\ next # KFault /\ next # KResume
  BY <1>3, Halves DEF Spots, KMain, KTick, KFault, KResume
\* Either the machine goes on at next, or the tick handler is entered.
<1>5. \/ /\ mode = "SUPER" /\ pc' = next /\ mode' = mode /\ count' = count /\ mem' = ram
      \/ /\ mode = "USER" /\ count > 1 /\ pc' = next /\ mode' = mode /\ count' = count - 1
         /\ mem' = ram
      \/ /\ mode = "USER" /\ count = 1 /\ pc' = KTick /\ mode' = "SUPER"
         /\ count' = quantum /\ mem' = [ram EXCEPT ![TICK_PC] = W(next)]
  BY <1>1 DEF Commit, Timed, Ticking, Inv, Types, InUser
<1>6. mem' \in [Words -> Half2]
  <2>1. W(next) \in Half2
    BY <1>4, Named DEF W, Half2
  <2> QED
    BY <1>5, <2>1, Shared
<1>7. mem'[SAVED_PC] = mem[SAVED_PC] /\ mem'[FLAG] = ram[FLAG]
  BY <1>5, Shared
<1>8. pc' = KTick => Victim' = next
  BY <1>4, <1>5, Shared DEF Victim, W
<1>9. Types'
  BY <1>1, <1>2, <1>5 DEF Inv, Types
<1>10. Mem' /\ Points'
  BY <1>2, <1>6 DEF Mem, Points
<1>11. InUser'
  <2>1. mode' = "USER" => pc' = next /\ count' > 0
    BY <1>1, <1>5 DEF Inv, InUser
  <2> QED
    BY <1>2, <2>1 DEF InUser
<1>12. InSuper'
  BY <1>2, <1>5, <1>8 DEF InSuper
<1>13. Saved'
  <2>1. Saves(leg) => mem'[SAVED_PC][2] \in 0 .. Last(leg)
    BY <1>7 DEF Inv, Saved
  <2>2. Saves(leg) /\ mode = "USER" /\ OfB(leg, pc) => mem'[SAVED_PC][2] \in Spots(leg)
    BY <1>7 DEF Inv, Saved
  <2>3. mode' = "USER" => mode = "USER" /\ pc' = next
    BY <1>5
  <2>4. pc' = KTick => mode = "USER" /\ Victim' = next
    BY <1>4, <1>5, <1>8
  <2> QED
    BY <1>2, <2>1, <2>2, <2>3, <2>4 DEF Saved
<1>14. Kept'
  <2> SUFFICES ASSUME Saves(leg), quantum >= SliceOf(leg)
               PROVE  /\ slot' # "B" /\ ~OfB(leg, mem'[SAVED_PC][2])
                      /\ mode' = "USER" /\ OfB(leg, pc') =>
                            /\ OnWay(leg, pc') => count' = quantum - (pc' - First(leg))
                            /\ ~OnWay(leg, pc') => FlagSet'
                            /\ pc' \in First(leg) + SliceOf(leg) - 2 .. First(leg) + SliceOf(leg) - 1 =>
                                  regs'[15] = W(FLAG)
                            /\ pc' = First(leg) + SliceOf(leg) - 1 => regs'[14] = W(1)
                      /\ pc' = KTick /\ OfB(leg, Victim') => ~OnWay(leg, Victim') /\ FlagSet'
    BY <1>2, Zenon DEF Kept
  <2>0. SliceOf(leg) \in 12 .. 21 /\ Last(leg) = First(leg) + SliceOf(leg) + 1
    BY SliceText DEF Saves
  <2>1. slot' # "B" /\ ~OfB(leg, mem'[SAVED_PC][2])
    BY <1>2, <1>7 DEF Inv, Kept
  <2>2. ASSUME mode = "USER", OfB(leg, next)
        PROVE  /\ OfB(leg, pc) /\ next = pc + 1
               /\ OnWay(leg, pc) => count = quantum - (pc - First(leg))
               /\ ~OnWay(leg, next) => mem'[FLAG] # W(0)
               /\ ~OnWay(leg, pc) => ~OnWay(leg, next)
               /\ OnWay(leg, next) => OnWay(leg, pc)
    <3>1. OfB(leg, pc) /\ next = pc + 1
      BY <2>2
    <3>2. OnWay(leg, pc) => count = quantum - (pc - First(leg))
      BY <2>2, <3>1 DEF Inv, Kept
    <3>3. ~OnWay(leg, pc) => mem[FLAG] # W(0)
      BY <2>2, <3>1 DEF Inv, Kept, FlagSet
    <3>4. ~OnWay(leg, next) => mem'[FLAG] # W(0)
      BY <1>7, <3>1, <3>3
    <3>5. (OnWay(leg, next) => OnWay(leg, pc)) /\ (~OnWay(leg, pc) => ~OnWay(leg, next))
      BY <1>3, <1>4, <2>0, <3>1 DEF OnWay, OfB
    <3> QED
      BY <3>1, <3>2, <3>4, <3>5
  <2>3. ASSUME mode' = "USER", OfB(leg, pc')
        PROVE  /\ OnWay(leg, pc') => count' = quantum - (pc' - First(leg))
               /\ ~OnWay(leg, pc') => FlagSet'
               /\ pc' \in First(leg) + SliceOf(leg) - 2 .. First(leg) + SliceOf(leg) - 1 =>
                     regs'[15] = W(FLAG)
               /\ pc' = First(leg) + SliceOf(leg) - 1 => regs'[14] = W(1)
    <3>1. mode = "USER" /\ pc' = next /\ count' = count - 1
      BY <1>5, <2>3
    <3>2. OnWay(leg, pc') => count' = quantum - (pc' - First(leg))
      BY <1>1, <1>3, <1>4, <2>2, <2>3, <3>1
    <3>3. ~OnWay(leg, pc') => FlagSet'
      BY <2>2, <2>3, <3>1 DEF FlagSet
    <3>4. /\ pc' = First(leg) + SliceOf(leg) - 2 => regs'[15] = W(FLAG)
          /\ pc' = First(leg) + SliceOf(leg) - 1 => regs'[15] = W(FLAG) /\ regs'[14] = W(1)
      BY <2>2, <2>3, <3>1
    <3>5. pc' \in First(leg) + SliceOf(leg) - 2 .. First(leg) + SliceOf(leg) - 1 =>
             pc' = First(leg) + SliceOf(leg) - 2 \/ pc' = First(leg) + SliceOf(leg) - 1
      BY <1>3, <2>0
    <3> QED
      BY <3>2, <3>3, <3>4, <3>5
  <2>4. ASSUME pc' = KTick, OfB(leg, Victim')
        PROVE  ~OnWay(leg, Victim') /\ FlagSet'
    <3>1. mode = "USER" /\ count = 1 /\ Victim' = next
      BY <1>4, <1>5, <1>8, <2>4
    <3>2. ~OnWay(leg, next)
      BY <1>1, <1>3, <1>4, <2>0, <2>2, <2>4, <3>1 DEF OnWay
    <3> QED
      BY <2>2, <2>4, <3>1, <3>2 DEF FlagSet
  <2> QED
    BY <2>1, <2>3, <2>4
<1> QED
  BY <1>9, <1>10, <1>11, <1>12, <1>13, <1>14 DEF Inv

-------------------------------------------------------------------------------
(* The instructions.                                                       *)

\* Whoever executes an instruction is in USER mode or on the way to the halt.
LEMMA Executing ==
    ASSUME Inv, running, pc > 0
    PROVE  /\ leg \in AllLegs /\ pc \in Spots(leg) /\ Text[pc] = Program[leg][pc]
           /\ Way(leg, pc)
           /\ mode = "SUPER" =>
                 pc \in 1 .. 8 \/ (Program[leg][pc].op = "KJMP" /\ regs[30][2] = pc)
<1>1. leg \in AllLegs
  BY LegsKnown DEF Inv
<1>2. First(leg) \in 10 .. 60 /\ Last(leg) \in First(leg) .. 90
  BY <1>1, Legs4
<1>3. pc \notin {KMain, KTick, KFault, KResume}
  BY DEF KMain, KTick, KFault, KResume
<1>4. mode \in {"USER", "SUPER"}
  BY DEF Inv, Types
<1>5. mode = "SUPER" =>
         pc \in 1 .. 8 \/ (pc \in Spots(leg) /\ Program[leg][pc].op = "KJMP" /\ regs[30][2] = pc)
  BY <1>3 DEF Inv, InSuper
<1>6. mode = "USER" => pc \in Spots(leg)
  BY DEF Inv, InUser
<1>7. pc \in 1 .. 8 => pc \in Spots(leg)
  BY <1>2 DEF Spots
<1>8. pc \in Spots(leg)
  BY <1>4, <1>5, <1>6, <1>7
<1>9. Way(leg, pc)
  BY <1>1, <1>8, Legs4 DEF Spots
<1> QED
  BY <1>1, <1>5, <1>8, <1>9, InTermsOfLeg

\* An instruction that is no jump, no halt and no KJMP goes on to the next one.
LEMMA GoesOn ==
    ASSUME Inv, running, pc > 0, Text[pc].op \notin {"KJMP", "HALT", "JMP", "JZ"}
    PROVE  /\ pc + 1 \in Spots(leg) /\ (OfB(leg, pc) <=> OfB(leg, pc + 1))
           /\ mode = "SUPER" => pc \in 1 .. 7 /\ Text[pc] \in Straight(leg)
           /\ \/ Text[pc] \in Straight(leg) /\ Text[pc + 1].op # "KJMP"
              \/ Text[pc] = Ldi(30, KDone)
              \/ Text[pc] = Ldi(30, KResume) /\ Saves(leg) /\ OfB(leg, pc + 1)
<1>1. /\ leg \in AllLegs /\ pc \in Spots(leg) /\ Text[pc] = Program[leg][pc]
      /\ Way(leg, pc) /\ Text = Program[leg]
      /\ mode = "SUPER" =>
            pc \in 1 .. 8 \/ (Program[leg][pc].op = "KJMP" /\ regs[30][2] = pc)
  BY Executing, InTermsOfLeg
<1>2. First(leg) \in 10 .. 60 /\ Last(leg) \in First(leg) .. 90
  BY <1>1, Legs4
<1>3. \/ Text[pc] \in Straight(leg) /\ Leads(leg, pc, pc + 1)
      \/ /\ Text[pc] = Ldi(30, KDone) /\ pc + 1 \in 1 .. Last(leg)
         /\ pc < First(leg) <=> pc + 1 < First(leg)
      \/ /\ Text[pc] = Ldi(30, KResume) /\ pc + 1 = Last(leg) /\ Saves(leg)
         /\ First(leg) <= pc
  BY <1>1, Kinds DEF Way, Saves
<1>4. pc + 1 \in Spots(leg) /\ (OfB(leg, pc) <=> OfB(leg, pc + 1))
  BY <1>1, <1>2, <1>3 DEF Leads, Spots, OfB
<1>5. ASSUME mode = "SUPER" PROVE pc \in 1 .. 7 /\ Text[pc] \in Straight(leg)
  <2>1. pc \in 1 .. 8
    BY <1>1, <1>5
  <2>2. pc # 8
    BY <1>1, Legs4, Kinds
  <2>3. pc \in 1 .. 7
    BY <2>1, <2>2
  <2> QED
    BY <1>1, <2>3, Legs4
<1>6. \/ Text[pc] \in Straight(leg) /\ Text[pc + 1].op # "KJMP"
      \/ Text[pc] = Ldi(30, KDone)
      \/ Text[pc] = Ldi(30, KResume) /\ Saves(leg) /\ OfB(leg, pc + 1)
  BY <1>1, <1>2, <1>3 DEF Leads, OfB
<1> QED
  BY <1>4, <1>5, <1>6

LEMMA Passing ==
    ASSUME Inv, running, pc > 0, Text[pc].op \notin {"KJMP", "HALT", "JMP", "JZ"},
           NEW ram \in [Words -> Half2], Commit(pc + 1, ram),
           ram[SAVED_PC] = mem[SAVED_PC],
           Regs', \E w \in Pointers(leg) : regs'[15] = W(w),
           \A x : Text[pc] = Ldi(30, x) => regs'[30] = W(x),
           Text[pc] = Ldi(15, FLAG) => regs'[15] = W(FLAG),
           Text[pc] = Ldi(14, 1) => regs'[14] = W(1) /\ regs'[15] = regs[15],
           Text[pc].op # "ST" => ram = mem,
           Text[pc] = I("ST", 14, 15) /\ regs[15] = W(FLAG) /\ regs[14] = W(1) =>
              ram[FLAG] = W(1)
    PROVE  Inv'
<1>1. /\ leg \in AllLegs /\ pc \in Spots(leg) /\ Text = Program[leg]
      /\ pc + 1 \in Spots(leg) /\ (OfB(leg, pc) <=> OfB(leg, pc + 1))
  BY Executing, GoesOn, InTermsOfLeg
<1>2. First(leg) \in 10 .. 60 /\ Last(leg) \in First(leg) .. 90
  BY <1>1, Legs4
<1>3. mode = "SUPER" => pc \in 1 .. 7 /\ pc + 1 \in 1 .. 8
  BY GoesOn
<1>4. Finds(leg, pc + 1, regs'[30][2])
  <2>1. CASE Text[pc + 1].op # "KJMP"
    BY <1>1, <2>1 DEF Finds
  <2>2. CASE Text[pc] = Ldi(30, KDone)
    <3>1. regs'[30][2] = KDone
      BY <2>2 DEF W
    <3> QED
      BY <3>1 DEF Finds
  <2>3. CASE Text[pc] = Ldi(30, KResume) /\ Saves(leg) /\ OfB(leg, pc + 1)
    <3>1. regs'[30][2] = KResume
      BY <2>3 DEF W
    <3> QED
      BY <2>3, <3>1 DEF Finds
  <2> QED
    BY <2>1, <2>2, <2>3, GoesOn
<1>5. ASSUME Saves(leg), quantum >= SliceOf(leg), OfB(leg, pc)
      PROVE  /\ OnWay(leg, pc) /\ ~OnWay(leg, pc + 1) => ram[FLAG] # W(0)
             /\ ~OnWay(leg, pc) => ram[FLAG] = mem[FLAG]
             /\ pc + 1 = First(leg) + SliceOf(leg) - 2 => regs'[15] = W(FLAG)
             /\ pc + 1 = First(leg) + SliceOf(leg) - 1 =>
                   regs'[15] = W(FLAG) /\ regs'[14] = W(1)
  <2> DEFINE B == First(leg)   N == SliceOf(leg)
  <2>1. /\ N \in 12 .. 21 /\ Last(leg) = B + N + 1
        /\ Text[B + N - 3] = Ldi(15, FLAG) /\ Text[B + N - 2] = Ldi(14, 1)
        /\ Text[B + N - 1] = I("ST", 14, 15)
        /\ Text[B + N] = Ldi(30, KResume) /\ Text[B + N + 1] = KJMPS
    BY <1>1, <1>5, SliceText DEF Saves
  <2>2. mode = "USER"
    <3>1. mode \in {"USER", "SUPER"}
      BY DEF Inv, Types
    <3> QED
      BY <1>2, <1>3, <1>5, <3>1 DEF OfB
  <2>3. /\ pc \in B + N - 2 .. B + N - 1 => regs[15] = W(FLAG)
        /\ pc = B + N - 1 => regs[14] = W(1)
    BY <1>5, <2>2 DEF Inv, Kept
  <2> HIDE DEF B, N
  <2>4. pc \in Nat /\ B \in Nat /\ N \in Nat
    BY <1>1, <1>2, <2>1 DEF Spots, B
  <2>5. OnWay(leg, pc) /\ ~OnWay(leg, pc + 1) => ram[FLAG] # W(0)
    <3> SUFFICES ASSUME OnWay(leg, pc), ~OnWay(leg, pc + 1)
                 PROVE  ram[FLAG] # W(0)
      OBVIOUS
    <3>1. pc = B + N - 1
      BY <2>4 DEF OnWay, B, N
    <3>2. ram[FLAG] = W(1)
      BY <2>1, <2>3, <2>4, <3>1
    <3> QED
      BY <3>2 DEF W
  <2>6. ~OnWay(leg, pc) => ram[FLAG] = mem[FLAG]
    <3> SUFFICES ASSUME ~OnWay(leg, pc)
                 PROVE  ram[FLAG] = mem[FLAG]
      OBVIOUS
    <3>1. pc = B + N \/ pc = B + N + 1
      BY <1>5, <2>1, <2>4 DEF OnWay, OfB, B, N
    <3>2. Text[pc].op # "ST"
      BY <2>1, <3>1, Kinds
    <3> QED
      BY <3>2
  <2>7. pc + 1 = B + N - 2 => regs'[15] = W(FLAG)
    <3>1. pc + 1 = B + N - 2 => pc = B + N - 3
      BY <2>4
    <3> QED
      BY <2>1, <3>1
  <2>8. pc + 1 = B + N - 1 => regs'[15] = W(FLAG) /\ regs'[14] = W(1)
    <3>1. pc + 1 = B + N - 1 => pc = B + N - 2 /\ pc \in B + N - 2 .. B + N - 1
      BY <2>4
    <3> QED
      BY <2>1, <2>3, <3>1
  <2> QED
    BY <2>5, <2>6, <2>7, <2>8 DEF B, N
<1> QED
  BY <1>1, <1>3, <1>4, <1>5, Retiring

\* An instruction that sets one register.
LEMMA Assigning ==
    ASSUME Inv, running, pc > 0, Text[pc].op \notin {"KJMP", "HALT", "JMP", "JZ", "ST"},
           NEW r, NEW v, SetReg(r, v),
           \/ r \in Data /\ v \in Half2
           \/ r = 15 /\ \E w \in Pointers(leg) : v = W(w)
           \/ r = 30 /\ v \in {W(KDone), W(KResume)},
           Text[pc].op = "LDI" => r = Text[pc].r /\ v = W(Text[pc].x)
    PROVE  Inv'
<1>1. /\ regs' = [regs EXCEPT ![r] = v] /\ Commit(pc + 1, mem)
      /\ mem \in [Words -> Half2] /\ leg \in AllLegs
  BY LegsKnown DEF SetReg, Goto, Inv, Mem
<1>2. /\ regs \in [Reg -> HalfWords \X (KResume .. Mixed)]
      /\ \A s \in Reg \ {30} : regs[s] \in Half2
  BY DEF Inv, Regs
<1>3. /\ 14 \in Reg /\ 15 \in Reg /\ 30 \in Reg /\ r \in Reg
      /\ r \in Data => r # 15 /\ r # 30
  BY DataReg DEF Data
<1>4. v \in HalfWords \X (KResume .. Mixed) /\ (r # 30 => v \in Half2)
  <2>1. HalfWords \subseteq KResume .. Mixed /\ 0 \in HalfWords
        /\ KDone \in KResume .. Mixed /\ KResume \in KResume .. Mixed
    BY Halves DEF KResume, KDone
  <2>2. r = 15 => v \in Half2
    BY <1>3, <2>1, Shared DEF W, Half2
  <2>3. r = 30 => v \in HalfWords \X (KResume .. Mixed)
    BY <1>3, <2>1 DEF W
  <2> QED
    BY <2>1, <2>2, <2>3 DEF Half2
<1>5. Regs'
  BY <1>1, <1>2, <1>3, <1>4 DEF Regs
<1>6. pc # KMain
  BY DEF KMain
<1>7. \E w \in Pointers(leg) : regs'[15] = W(w)
  <2>1. CASE r = 15
    BY <1>1, <1>2, <1>3, <2>1
  <2>2. CASE r # 15
    <3>1. regs'[15] = regs[15]
      BY <1>1, <1>2, <1>3, <2>2
    <3> QED
      BY <1>6, <3>1 DEF Inv, Points
  <2> QED
    BY <2>1, <2>2
<1>8. \A q, x : Text[pc] = Ldi(q, x) => r = q /\ v = W(x)
  BY DEF Ldi, I
<1>9. /\ \A x : Text[pc] = Ldi(30, x) => regs'[30] = W(x)
      /\ Text[pc] = Ldi(15, FLAG) => regs'[15] = W(FLAG)
      /\ Text[pc] = Ldi(14, 1) => regs'[14] = W(1) /\ regs'[15] = regs[15]
  BY <1>1, <1>2, <1>3, <1>8
<1>10. I("ST", 14, 15).op = "ST"
  BY DEF I
<1> QED
  BY <1>1, <1>5, <1>7, <1>9, <1>10, Passing

\* What the fields of a straight instruction may be.
LEMMA Fields ==
    ASSUME NEW l, NEW i \in Straight(l)
    PROVE  /\ i.op \in {"LDI", "SHL", "OR", "XOR", "CMP", "SUM", "ST", "LD"}
           /\ i.op = "LDI" => \/ i.r \in Data /\ i.x \in HalfWords
                              \/ i.r = 15 /\ i.x \in Pointers(l)
           /\ i.op \in {"SHL", "OR", "XOR", "CMP", "SUM", "ST"} => i.r \in Data /\ i.x \in Data \cup {15}
           /\ i.op = "LD" => i.r \in Data /\ l # "fault"
BY Zenon DEF Straight

\* An instruction that works on data: it is straight, its operands are half words.
LEMMA Working ==
    ASSUME Inv, NEW op, op \in {"SHL", "OR", "XOR", "CMP", "SUM", "ST", "LD"}, At(op)
    PROVE  /\ running /\ pc > 0 /\ Text[pc].op = op
           /\ Op.r \in Data /\ regs[Op.r] \in Half2
           /\ op # "LD" => regs[Op.x] \in Half2
           /\ \E w \in Pointers(leg) : regs[15] = W(w) /\ (op = "LD" => w \in Words)
<1>1. running /\ pc > 0 /\ Text[pc].op = op
  BY DEF At
<1>2. Text[pc].op \notin {"KJMP", "HALT", "JMP", "JZ", "LDI"}
  BY <1>1
<1>3. Text[pc] \in Straight(leg)
  <2>1. Ldi(30, KDone).op = "LDI" /\ Ldi(30, KResume).op = "LDI"
    BY DEF Ldi, I
  <2> QED
    BY <1>1, <1>2, <2>1, GoesOn
<1>4. /\ Op.r \in Data /\ (op # "LD" => Op.x \in Data \cup {15})
      /\ op = "LD" => leg # "fault"
  BY <1>1, <1>2, <1>3, Fields DEF Op
<1>5. regs[Op.r] \in Half2 /\ (op # "LD" => regs[Op.x] \in Half2)
  BY <1>4, DataReg DEF Inv, Regs
<1>6. pc # KMain
  BY <1>1 DEF KMain, Inv
<1>7. PICK w \in Pointers(leg) : regs[15] = W(w)
  BY <1>6 DEF Inv, Points
<1>8. op = "LD" => w \in Words
  BY <1>4, Shared
<1> QED
  BY <1>1, <1>4, <1>5, <1>7, <1>8

LEMMA OnLDI == ASSUME Inv, LDI PROVE Inv'
<1>1. running /\ pc > 0 /\ Text[pc].op = "LDI" /\ SetReg(Text[pc].r, W(Text[pc].x))
  BY DEF LDI, At, Op
<1>2. Text[pc].op \notin {"KJMP", "HALT", "JMP", "JZ", "ST"}
  BY <1>1
<1>3. \/ Text[pc] \in Straight(leg)
      \/ Text[pc] = Ldi(30, KDone)
      \/ Text[pc] = Ldi(30, KResume)
  BY <1>1, <1>2, GoesOn
<1> DEFINE r == Text[pc].r   v == W(Text[pc].x)
<1>4. CASE Text[pc] \in Straight(leg)
  <2>1. \/ r \in Data /\ Text[pc].x \in HalfWords
        \/ r = 15 /\ Text[pc].x \in Pointers(leg)
    BY <1>1, <1>4, Fields
  <2>2. \/ r \in Data /\ v \in Half2
        \/ r = 15 /\ \E w \in Pointers(leg) : v = W(w)
    BY <2>1, Named DEF W, Half2
  <2> QED
    BY <1>1, <1>2, <2>2, Assigning
<1>5. CASE Text[pc] = Ldi(30, KDone) \/ Text[pc] = Ldi(30, KResume)
  <2>1. r = 30 /\ v \in {W(KDone), W(KResume)}
    BY <1>5 DEF Ldi, I
  <2> QED
    BY <1>1, <1>2, <2>1, Assigning
<1> QED
  BY <1>3, <1>4, <1>5

\* An instruction that leaves a value in a data register.
LEMMA Computing ==
    ASSUME Inv, NEW op, op \in {"SHL", "OR", "XOR", "CMP", "SUM", "LD"}, At(op),
           NEW r \in Data, NEW v \in Half2, SetReg(r, v)
    PROVE  Inv'
<1>1. running /\ pc > 0 /\ Text[pc].op = op
  BY DEF At
<1>2. Text[pc].op \notin {"KJMP", "HALT", "JMP", "JZ", "ST", "LDI"}
  BY <1>1
<1> QED
  BY <1>1, <1>2, Assigning

LEMMA Halving ==
    ASSUME NEW v \in Half2, NEW u \in Half2
    PROVE  /\ <<v[2], 0>> \in Half2 /\ Or(v, u) \in Half2
           /\ W(0) \in Half2 /\ \A b : Flag(b) \in Half2
<1>1. 0 \in HalfWords /\ 1 \in HalfWords /\ Mixed \in HalfWords
  BY Halves, Named
<1>2. v[1] \in HalfWords /\ v[2] \in HalfWords /\ u[1] \in HalfWords /\ u[2] \in HalfWords
  BY DEF Half2
<1>3. OrHalf(v[1], u[1]) \in HalfWords /\ OrHalf(v[2], u[2]) \in HalfWords
  BY <1>1, <1>2, Zenon DEF OrHalf
<1> HIDE DEF Half2
<1>4. <<v[2], 0>> \in Half2 /\ Or(v, u) \in Half2
  BY <1>1, <1>2, <1>3 DEF Or, Half2
<1>5. W(0) \in Half2 /\ W(1) \in Half2
  BY <1>1 DEF W, Half2
<1>6. ASSUME NEW b PROVE Flag(b) \in Half2
  <2>1. Flag(b) = W(1) \/ Flag(b) = W(0)
    BY Zenon DEF Flag
  <2> QED
    BY <1>5, <2>1
<1> QED
  BY <1>4, <1>5, <1>6

LEMMA OnData ==
    ASSUME Inv, SHL \/ OR \/ XOR \/ CMP
    PROVE  Inv'
<1>1. CASE SHL
  <2>1. Op.r \in Data /\ <<regs[Op.r][2], 0>> \in Half2
    BY <1>1, Working, Halving DEF SHL
  <2> QED
    BY <1>1, <2>1, Computing DEF SHL
<1>2. CASE OR
  <2>1. Op.r \in Data /\ Or(regs[Op.r], regs[Op.x]) \in Half2
    BY <1>2, Working, Halving DEF OR
  <2> QED
    BY <1>2, <2>1, Computing DEF OR
<1>3. CASE XOR
  <2>1. Op.r \in Data /\ W(0) \in Half2
    BY <1>3, Working, Halving DEF XOR
  <2> QED
    BY <1>3, <2>1, Computing DEF XOR
<1>4. CASE CMP
  <2>1. 0 \in Data /\ Flag(regs[Op.r] = regs[Op.x]) \in Half2
    BY <1>4, Working, Halving DEF CMP, Data
  <2> QED
    BY <1>4, <2>1, Computing DEF CMP
<1> QED
  BY <1>1, <1>2, <1>3, <1>4

LEMMA OnSUM == ASSUME Inv, SUM PROVE Inv'
<1>1. /\ running /\ pc > 0 /\ Text[pc].op = "SUM"
      /\ \E w \in Pointers(leg) : regs[15] = W(w)
  BY Working DEF SUM
<1>2. Text[pc].op \notin {"KJMP", "HALT", "JMP", "JZ"}
  BY <1>1
<1>3. Commit(pc + 1, mem) /\ regs' = regs /\ mem \in [Words -> Half2]
  BY DEF SUM, Goto, Inv, Mem
<1>4. Regs' /\ \E w \in Pointers(leg) : regs'[15] = W(w)
  BY <1>1, <1>3 DEF Inv, Regs
<1>5. /\ \A x : Text[pc] # Ldi(30, x)
      /\ Text[pc] # Ldi(15, FLAG) /\ Text[pc] # Ldi(14, 1) /\ Text[pc] # I("ST", 14, 15)
  BY <1>1 DEF Ldi, I
<1> QED
  BY <1>1, <1>2, <1>3, <1>4, <1>5, Passing

LEMMA OnLD == ASSUME Inv, LD, (mode = "SUPER" \/ Loadable(Addr)) /\ SetReg(Op.r, mem[Addr]) PROVE Inv'
<1>1. PICK w \in Words : regs[15] = W(w)
  BY Working DEF LD
<1>2. Addr = w
  BY <1>1 DEF Addr, W
<1>3. Op.r \in Data /\ mem[Addr] \in Half2
  BY <1>2, Working DEF LD, Inv, Mem
<1> QED
  BY <1>3, Computing DEF LD

\* A store lands where r15 points, which is never the saved pc.
LEMMA OnStore ==
    ASSUME Inv, At("ST"), Commit(pc + 1, [mem EXCEPT ![Addr] = regs[Op.r]]), regs' = regs
    PROVE  Inv'
<1> DEFINE ram == [mem EXCEPT ![Addr] = regs[Op.r]]
<1>1. /\ running /\ pc > 0 /\ Text[pc].op = "ST" /\ regs[Op.r] \in Half2
      /\ \E w \in Pointers(leg) : regs[15] = W(w)
  BY Working
<1>2. PICK w \in Pointers(leg) : regs[15] = W(w)
  BY <1>1
<1>3. Addr = w /\ w # SAVED_PC
  BY <1>2, Shared DEF Addr, W
<1>4. mem \in [Words -> Half2] /\ ram \in [Words -> Half2] /\ ram[SAVED_PC] = mem[SAVED_PC]
  BY <1>1, <1>3, Shared DEF Inv, Mem
<1>5. Regs'
  BY DEF Inv, Regs
<1>6. Text[pc].op \notin {"KJMP", "HALT", "JMP", "JZ"}
  BY <1>1
<1>7. /\ \A x : Text[pc] # Ldi(30, x)
      /\ Text[pc] # Ldi(15, FLAG) /\ Text[pc] # Ldi(14, 1)
  BY <1>1 DEF Ldi, I
<1>8. ASSUME Text[pc] = I("ST", 14, 15), regs[15] = W(FLAG), regs[14] = W(1)
      PROVE  ram[FLAG] = W(1)
  <2>1. Addr = FLAG
    BY <1>8 DEF Addr, W
  <2>2. Op.r = 14
    BY <1>8 DEF Op, I
  <2> QED
    BY <1>4, <1>8, <2>1, <2>2, Shared
<1> HIDE DEF ram
<1>9. Commit(pc + 1, ram)
  BY DEF ram
<1>10. \E v \in Pointers(leg) : regs'[15] = W(v)
  BY <1>1
<1> QED
  BY <1>1, <1>4, <1>5, <1>6, <1>7, <1>8, <1>9, <1>10, Passing

\* A jump stays in task A.
LEMMA Jumping ==
    ASSUME Inv, running, pc > 0, Text[pc].op \in {"JMP", "JZ"},
           NEW next \in {Text[pc].x, pc + 1}, Text[pc].op = "JMP" => next = Text[pc].x,
           Commit(next, mem), regs' = regs
    PROVE  Inv'
<1>1. /\ leg \in AllLegs /\ pc \in Spots(leg) /\ Text = Program[leg] /\ Way(leg, pc)
      /\ mode = "SUPER" => pc \in 1 .. 8 \/ Program[leg][pc].op = "KJMP"
  BY Executing, InTermsOfLeg
<1>2. First(leg) \in 10 .. 60 /\ Last(leg) \in First(leg) .. 90
  BY <1>1, Legs4
<1>3. mode # "SUPER"
  <2>1. pc \notin 1 .. 8
    <3>1. pc # 8
      BY <1>1, Legs4, Kinds
    <3>2. pc \notin 1 .. 7
      BY <1>1, Legs4, Kinds
    <3> QED
      BY <1>1, <3>1, <3>2 DEF Spots
  <2> QED
    BY <1>1, <2>1
<1>4. /\ Text[pc] \in Jumps(First(leg) - 1) /\ Leads(leg, pc, Text[pc].x)
      /\ Text[pc].op = "JZ" => Leads(leg, pc, pc + 1)
  BY <1>1, Kinds DEF Way
<1>5. Text[pc].x \in 1 .. First(leg) - 1 /\ Leads(leg, pc, next)
  BY <1>4, Kinds
<1>6. next \in Spots(leg) /\ ~OfB(leg, pc) /\ ~OfB(leg, next) /\ Text[next].op # "KJMP"
  BY <1>1, <1>2, <1>4, <1>5 DEF Leads, Spots, OfB
<1>7. mem \in [Words -> Half2] /\ Regs' /\ Finds(leg, next, regs'[30][2])
  BY <1>1, <1>6 DEF Inv, Mem, Regs, Finds
<1>8. \E w \in Pointers(leg) : regs'[15] = W(w)
  <2>1. pc # KMain
    BY <1>1 DEF KMain
  <2> QED
    BY <2>1 DEF Inv, Points
<1> QED
  BY <1>1, <1>3, <1>6, <1>7, <1>8, Retiring

\* Steps that end in the kernel and neither tick nor touch the saved pc.
LEMMA Settling ==
    ASSUME Inv, leg' = leg, quantum' = quantum, slot' = slot, torn' = torn, count' = count,
           running' \in BOOLEAN, faulted' \in BOOLEAN, mode' = "SUPER", pc' # KTick,
           Regs', Points', Mem', mem'[SAVED_PC] = mem[SAVED_PC], InSuper'
    PROVE  Inv'
<1>1. Types'
  BY DEF Inv, Types
<1>2. InUser'
  BY DEF InUser
<1>3. Saved' /\ Kept'
  BY DEF Inv, Saved, Kept
<1> QED
  BY <1>1, <1>2, <1>3 DEF Inv

LEMMA Faulting == ASSUME Inv, running, pc > 0, Fault PROVE Inv'
<1>1. leg \in AllLegs /\ pc \in Spots(leg)
  BY Executing
<1>2. /\ leg' = leg /\ quantum' = quantum /\ slot' = slot /\ torn' = torn /\ count' = count
      /\ running' = (leg # "paged") /\ faulted' = TRUE /\ mode' = "SUPER"
      /\ regs' = regs /\ mem' = mem
  BY DEF Fault, fixed
<1>3. \/ leg = "paged" /\ pc' = pc
      \/ leg # "paged" /\ pc' = KFault
      \/ leg # "paged" /\ pc' = KDone
  BY DEF Fault
<1>4. running' \in BOOLEAN /\ faulted' \in BOOLEAN
  BY <1>2, Zenon
<1>5. pc' # KTick /\ pc' # KMain /\ pc # KMain
  BY <1>1, <1>3 DEF Spots, KTick, KMain, KFault, KDone
<1>6. Regs' /\ Mem' /\ Points'
  BY <1>2, <1>5 DEF Inv, Regs, Mem, Points
<1>7. InSuper'
  <2>1. leg = "paged" => ~running'
    BY <1>2, Zenon
  <2> QED
    BY <1>1, <1>2, <1>3, <2>1 DEF InSuper, KDone
<1> QED
  BY <1>2, <1>4, <1>5, <1>6, <1>7, Settling

LEMMA OnKJMP == ASSUME Inv, KJMP PROVE Inv'
<1>1. /\ running /\ pc > 0 /\ Text[pc].op = "KJMP" /\ pc' = regs[30][2] /\ mode' = "SUPER"
      /\ leg' = leg /\ quantum' = quantum /\ slot' = slot /\ torn' = torn /\ count' = count
      /\ running' = running /\ faulted' = faulted /\ regs' = regs /\ mem' = mem
  BY DEF KJMP, At, fixed
<1>2. /\ leg \in AllLegs /\ pc \in Spots(leg) /\ Text = Program[leg]
      /\ mode = "SUPER" => pc \in 1 .. 8 \/ regs[30][2] = pc
  BY <1>1, Executing, InTermsOfLeg
<1>3. pc \notin 1 .. 8
  <2>1. pc # 8
    BY <1>1, <1>2, Legs4, Kinds
  <2>2. pc \notin 1 .. 7
    BY <1>1, <1>2, Legs4, Kinds
  <2> QED
    BY <1>2, <2>1, <2>2 DEF Spots
<1>4. \/ pc' = KDone
      \/ pc' = pc
      \/ mode = "USER" /\ pc' = KResume /\ Saves(leg) /\ OfB(leg, pc)
  <2>1. mode \in {"USER", "SUPER"}
    BY DEF Inv, Types
  <2> QED
    BY <1>1, <1>2, <1>3, <2>1 DEF Inv, InUser, Finds
<1>5. pc' # KTick /\ pc' # KMain /\ pc # KMain
  BY <1>2, <1>4 DEF Spots, KTick, KMain, KResume, KDone
<1>6. Regs' /\ Mem' /\ Points'
  BY <1>1, <1>5 DEF Inv, Regs, Mem, Points
<1>7. InSuper'
  <2>1. CASE pc' = KDone
    BY <2>1 DEF InSuper, KDone
  <2>2. CASE pc' = pc
    BY <1>1, <1>2, <2>2 DEF InSuper
  <2>3. CASE mode = "USER" /\ pc' = KResume /\ Saves(leg) /\ OfB(leg, pc)
    BY <1>1, <2>3 DEF Inv, InUser, Saved, InSuper
  <2> QED
    BY <1>4, <2>1, <2>2, <2>3
<1>8. running' \in BOOLEAN /\ faulted' \in BOOLEAN
  BY <1>1, Zenon DEF Inv, Types
<1> QED
  BY <1>1, <1>5, <1>6, <1>7, <1>8, Settling

LEMMA OnHALT == ASSUME Inv, HALT PROVE Inv'
<1>1. /\ running /\ pc > 0 /\ running' = FALSE
      /\ leg' = leg /\ quantum' = quantum /\ pc' = pc /\ mode' = mode /\ regs' = regs
      /\ mem' = mem /\ count' = count /\ faulted' = faulted /\ slot' = slot /\ torn' = torn
  BY DEF HALT, At, fixed
<1>2. Types' /\ Regs' /\ Mem' /\ Points' /\ InUser' /\ Saved' /\ Kept'
  BY <1>1 DEF Inv, Types, Regs, Mem, Points, InUser, Saved, Kept, Victim, FlagSet
<1>3. InSuper'
  BY <1>1 DEF Inv, InSuper, Victim
<1> QED
  BY <1>2, <1>3 DEF Inv

-------------------------------------------------------------------------------
(* The kernel.                                                             *)

\* A task is entered at p: with its own place in r30.
LEMMA Entering ==
    ASSUME Inv, NEW p \in Spots(leg), pc' = p, mode' = "USER",
           leg' = leg, quantum' = quantum, running' \in BOOLEAN, faulted' \in BOOLEAN,
           torn' \in BOOLEAN, slot' \in {"none", "A", "B"}, count' \in 1 .. quantum,
           Regs', regs'[30] = W(p), regs'[15] = W(LATCH), Mem',
           Saves(leg) =>
              /\ mem'[SAVED_PC][2] \in 0 .. Last(leg)
              /\ OfB(leg, p) => mem'[SAVED_PC][2] \in Spots(leg),
           (Saves(leg) /\ quantum >= SliceOf(leg)) =>
              /\ slot' # "B" /\ ~OfB(leg, mem'[SAVED_PC][2])
              /\ OfB(leg, p) => \/ p = First(leg) /\ count' = quantum
                                \/ ~OnWay(leg, p) /\ mem'[FLAG] # W(0)
    PROVE  Inv'
<1>1. leg \in AllLegs /\ quantum \in Nat /\ quantum > 0
  BY LegsKnown DEF Inv
<1>2. First(leg) \in 10 .. 60 /\ Last(leg) \in First(leg) .. 90 /\ p \in Nat /\ p > 0
  BY <1>1, Legs4 DEF Spots
<1>3. p # KTick /\ p # KMain
  BY <1>2 DEF KTick, KMain
<1>4. Types'
  BY <1>1 DEF Inv, Types
<1>5. Points'
  BY Shared DEF Points
<1>6. InUser' /\ InSuper'
  <2>1. regs'[30][2] = p
    BY DEF W
  <2> QED
    BY <1>1, <2>1 DEF InUser, InSuper, Finds
<1>7. Saved'
  BY <1>3 DEF Saved
<1>8. Kept'
  <2> SUFFICES ASSUME Saves(leg), quantum >= SliceOf(leg)
               PROVE  /\ slot' # "B" /\ ~OfB(leg, mem'[SAVED_PC][2])
                      /\ OfB(leg, p) =>
                            /\ OnWay(leg, p) => count' = quantum - (p - First(leg))
                            /\ ~OnWay(leg, p) => FlagSet'
                            /\ p \notin First(leg) + SliceOf(leg) - 2 .. First(leg) + SliceOf(leg) - 1
    <3>1. Saves(leg) /\ p = First(leg) + SliceOf(leg) - 1 =>
             p \in First(leg) + SliceOf(leg) - 2 .. First(leg) + SliceOf(leg) - 1
      <4>1. Saves(leg) => SliceOf(leg) \in 12 .. 21
        BY ONLY <1>1, SliceText DEF Saves
      <4> QED
        BY <1>2, <4>1
    <3> QED
      BY <1>3, <3>1 DEF Kept
  <2>1. SliceOf(leg) \in 12 .. 21
    BY SliceText DEF Saves
  <2>2. CASE ~OfB(leg, p)
    BY <2>2
  <2>3. CASE p = First(leg) /\ count' = quantum
    <3>1. OnWay(leg, p) /\ count' = quantum - (p - First(leg))
      BY <1>1, <1>2, <2>1, <2>3 DEF OnWay
    <3>2. p \notin First(leg) + SliceOf(leg) - 2 .. First(leg) + SliceOf(leg) - 1
      BY <1>2, <2>1, <2>3
    <3> QED
      BY <3>1, <3>2
  <2>4. CASE ~OnWay(leg, p) /\ mem'[FLAG] # W(0)
    <3>1. p \notin First(leg) + SliceOf(leg) - 2 .. First(leg) + SliceOf(leg) - 1
      BY <1>2, <2>1, <2>4 DEF OnWay
    <3> QED
      BY <2>4, <3>1 DEF FlagSet
  <2> QED
    BY <2>2, <2>3, <2>4
<1> QED
  BY <1>4, <1>5, <1>6, <1>7, <1>8 DEF Inv

\* The register file of a task that is entered.
LEMMA Dressed ==
    ASSUME NEW rest \in [Reg -> HalfWords \X (KResume .. Mixed)],
           \A r \in Reg \ {30} : rest[r] \in Half2, NEW l \in AllLegs, NEW p \in Spots(l),
           regs' = [rest EXCEPT ![15] = W(LATCH), ![14] = W(1), ![30] = W(p)]
    PROVE  Regs' /\ regs'[30] = W(p) /\ regs'[15] = W(LATCH)
<1>1. 14 \in Reg /\ 15 \in Reg /\ 30 \in Reg
  BY DEF Reg
<1>2. HalfWords \subseteq KResume .. Mixed /\ p \in HalfWords
  <2>1. Last(l) \in Nat /\ Last(l) <= 90
    BY Legs4
  <2> QED
    BY <2>1, Halves DEF KResume, Spots
<1>3. W(LATCH) \in Half2 /\ W(1) \in Half2 /\ W(p) \in Half2
  BY <1>2, Shared, Named DEF W, Half2
<1>4. Half2 \subseteq HalfWords \X (KResume .. Mixed)
  BY <1>2 DEF Half2
<1> QED
  BY <1>1, <1>3, <1>4 DEF Regs

\* At an entry the machine is in SUPER mode.
LEMMA AtEntry ==
    ASSUME Inv
    PROVE  /\ leg \in AllLegs /\ quantum \in Nat /\ quantum > 0 /\ count \in 0 .. quantum
           /\ pc = KTick => mode = "SUPER" /\ count = quantum /\ Victim \in Spots(leg)
           /\ pc = KResume => /\ mode = "SUPER" /\ Saves(leg) /\ count > 0
                              /\ mem[SAVED_PC][2] \in Spots(leg)
           /\ pc = KFault => mode = "SUPER"
<1>1. leg \in AllLegs /\ quantum \in Nat /\ quantum > 0 /\ count \in 0 .. quantum
  BY LegsKnown DEF Inv, Types
<1>2. First(leg) \in 10 .. 60 /\ Last(leg) \in First(leg) .. 90
  BY <1>1, Legs4
<1>3. pc \in {KTick, KResume, KFault} => pc \notin Spots(leg) /\ pc \notin 1 .. 8 /\ pc # KMain
  BY <1>2 DEF Spots, KTick, KResume, KFault, KMain
<1>4. pc \in {KTick, KResume, KFault} => mode = "SUPER"
  BY <1>3 DEF Inv, Types, InUser
<1>5. KTick # KFault /\ KTick # KResume /\ KResume # KFault
  BY DEF KTick, KResume, KFault
<1> QED
  BY <1>1, <1>3, <1>4, <1>5 DEF Inv, InSuper

\* What the handler's test leaves in the registers.
LEMMA Testing ==
    ASSUME Inv, NEW b
    PROVE  /\ Tested(b) \in [Reg -> HalfWords \X (KResume .. Mixed)]
           /\ \A r \in Reg \ {30} : Tested(b)[r] \in Half2
<1>1. 0 \in HalfWords /\ HalfWords \subseteq KResume .. Mixed
  BY Halves, Named DEF KResume
<1>2. W(0) \in Half2 /\ Flag(~b) \in Half2
  <2>1. <<0, 0>> \in Half2
    BY <1>1 DEF Half2
  <2> QED
    BY <2>1, Halving
<1>3. Half2 \subseteq HalfWords \X (KResume .. Mixed)
  BY <1>1 DEF Half2
<1> QED
  BY <1>2, <1>3 DEF Inv, Regs, Tested

LEMMA OnKernelMain == ASSUME Inv, KernelMain PROVE Inv'
<1>1. /\ regs' = [regs EXCEPT ![15] = W(LATCH), ![14] = W(1), ![30] = W(TaskA)]
      /\ pc' = TaskA /\ mode' = "USER" /\ count' = quantum /\ mem' = [w \in Words |-> W(0)]
      /\ leg' = leg /\ quantum' = quantum /\ running' = running /\ faulted' = faulted
      /\ slot' = slot /\ torn' = torn
  BY DEF KernelMain, fixed
<1>2. leg \in AllLegs /\ count' \in 1 .. quantum
  BY <1>1, AtEntry
<1>3. First(leg) \in 10 .. 60 /\ Last(leg) \in First(leg) .. 90
  BY <1>2, Legs4
<1>4. TaskA \in Spots(leg) /\ ~OfB(leg, TaskA)
  BY <1>3, TaskAStart DEF Spots, OfB
<1>5. Regs' /\ regs'[30] = W(TaskA) /\ regs'[15] = W(LATCH)
  BY <1>1, <1>2, <1>4, Dressed DEF Inv, Regs
<1>6. Mem' /\ mem'[SAVED_PC][2] = 0
  BY <1>1, Named, Shared DEF Mem, Half2, W
<1>7. 0 \in 0 .. Last(leg) /\ ~OfB(leg, 0)
  BY <1>3 DEF OfB
<1>8. /\ running' \in BOOLEAN /\ faulted' \in BOOLEAN /\ torn' \in BOOLEAN
      /\ slot' \in {"none", "A", "B"}
  BY <1>1, Zenon DEF Inv, Types
<1>9. (Saves(leg) /\ quantum >= SliceOf(leg)) => slot' # "B"
  BY <1>1 DEF Inv, Kept
<1> QED
  BY <1>1, <1>2, <1>4, <1>5, <1>6, <1>7, <1>8, <1>9, Entering

\* A switch to p, after which the count is what it was.
LEMMA Switching ==
    ASSUME Inv, NEW p \in Spots(leg),
           NEW rest \in [Reg -> HalfWords \X (KResume .. Mixed)],
           \A r \in Reg \ {30} : rest[r] \in Half2,
           SwitchTo(p, rest), count > 0, Mem',
           torn' \in BOOLEAN, slot' \in {"none", "A", "B"},
           Saves(leg) =>
              /\ mem'[SAVED_PC][2] \in 0 .. Last(leg)
              /\ OfB(leg, p) => mem'[SAVED_PC][2] \in Spots(leg),
           (Saves(leg) /\ quantum >= SliceOf(leg)) =>
              /\ slot' # "B" /\ ~OfB(leg, mem'[SAVED_PC][2])
              /\ OfB(leg, p) => \/ p = First(leg) /\ count = quantum
                                \/ ~OnWay(leg, p) /\ mem'[FLAG] # W(0)
    PROVE  Inv'
<1>1. /\ regs' = [rest EXCEPT ![15] = W(LATCH), ![14] = W(1), ![30] = W(p)]
      /\ pc' = p /\ mode' = "USER" /\ leg' = leg /\ quantum' = quantum /\ count' = count
      /\ running' = running /\ faulted' = faulted
  BY DEF SwitchTo, fixed
<1>2. leg \in AllLegs /\ count' \in 1 .. quantum
  BY <1>1, AtEntry
<1>3. Regs' /\ regs'[30] = W(p) /\ regs'[15] = W(LATCH)
  BY <1>1, <1>2, Dressed
<1>4. running' \in BOOLEAN /\ faulted' \in BOOLEAN
  BY <1>1, Zenon DEF Inv, Types
<1> QED
  BY <1>1, <1>2, <1>3, <1>4, Entering

LEMMA OnTickSwitch == ASSUME Inv, TickSwitch PROVE Inv'
<1>1. /\ pc = KTick /\ Saving /\ ~FlagSet
      /\ mem' = [mem EXCEPT ![SAVE1] = regs[1], ![SAVE2] = regs[2],
                            ![SAVED_PC] = mem[TICK_PC],
                            ![TURN] = IF leg = "save" THEN W(1) ELSE @]
      /\ slot' = IF InTaskB(Victim) THEN "B" ELSE "A"
      /\ SwitchTo(TaskB, Tested(FALSE))
      /\ torn' = (torn \/ Needed(Victim) \cap Clobbered # {})
  BY DEF TickSwitch, Enter, Tear
<1>2. /\ leg \in AllLegs /\ quantum > 0 /\ quantum \in Nat
      /\ count = quantum /\ Victim \in Spots(leg)
  BY <1>1, AtEntry
<1>3. Saves(leg) /\ TaskB = First(leg) /\ (InTaskB(Victim) <=> OfB(leg, Victim))
  BY <1>1, <1>2, InTermsOfLeg
<1>4. First(leg) \in Spots(leg) /\ First(leg) \in 10 .. 60 /\ Last(leg) \in First(leg) .. 90
  BY <1>2, Legs4 DEF Spots
<1>5. Mem' /\ mem'[SAVED_PC][2] = Victim
  <2>1. /\ mem \in [Words -> Half2] /\ regs[1] \in Half2 /\ regs[2] \in Half2
        /\ mem[TICK_PC] \in Half2 /\ W(1) \in Half2
    BY Shared, Named DEF Inv, Mem, Regs, Reg, W, Half2
  <2>2. (IF leg = "save" THEN W(1) ELSE mem[TURN]) \in Half2
    BY <2>1, Shared
  <2>3. PICK t \in Half2 :
           mem' = [mem EXCEPT ![SAVE1] = regs[1], ![SAVE2] = regs[2],
                              ![SAVED_PC] = mem[TICK_PC], ![TURN] = t]
    BY <1>1, <2>1, <2>2, Shared
  <2>4. mem' \in [Words -> Half2]
    BY <2>1, <2>3, Shared
  <2>5. mem'[SAVED_PC] = mem[TICK_PC]
    BY <2>1, <2>3, Shared
  <2> QED
    BY <2>4, <2>5 DEF Mem, Victim
<1>6. torn' \in BOOLEAN /\ slot' \in {"none", "A", "B"}
  BY <1>1, Zenon
<1>7. ASSUME quantum >= SliceOf(leg)
      PROVE  slot' = "A" /\ ~OfB(leg, Victim)
  <2>1. ~OfB(leg, Victim)
    BY <1>1, <1>3, <1>7 DEF Inv, Kept
  <2> QED
    BY <1>1, <1>3, <2>1
<1>8. Victim \in 0 .. Last(leg)
  BY <1>2, <1>4 DEF Spots
<1> HIDE DEF Victim
<1>9. /\ Tested(FALSE) \in [Reg -> HalfWords \X (KResume .. Mixed)]
      /\ \A r \in Reg \ {30} : Tested(FALSE)[r] \in Half2
  BY Testing
<1> QED
  BY <1>1, <1>2, <1>3, <1>4, <1>5, <1>6, <1>7, <1>8, <1>9, Switching

LEMMA OnTickResume == ASSUME Inv, TickResume PROVE Inv'
<1>1. /\ pc = KTick /\ Saving /\ FlagSet /\ mem' = mem /\ slot' = slot
      /\ SwitchTo(Victim, Tested(TRUE))
      /\ torn' = (torn \/ Needed(Victim) \cap Clobbered # {})
  BY DEF TickResume, Enter, Tear
<1>2. /\ leg \in AllLegs /\ quantum > 0 /\ quantum \in Nat
      /\ count = quantum /\ Victim \in Spots(leg)
  BY <1>1, AtEntry
<1>3. Saves(leg)
  BY <1>1, <1>2, InTermsOfLeg
<1>4. Mem' /\ torn' \in BOOLEAN
  BY <1>1, Zenon DEF Inv, Mem
<1>5. slot' \in {"none", "A", "B"}
  BY <1>1 DEF Inv, Types
<1>6. /\ mem'[SAVED_PC][2] \in 0 .. Last(leg)
      /\ OfB(leg, Victim) => mem'[SAVED_PC][2] \in Spots(leg)
  BY <1>1, <1>3 DEF Inv, Saved
<1>7. quantum >= SliceOf(leg) =>
         /\ slot' # "B" /\ ~OfB(leg, mem'[SAVED_PC][2])
         /\ OfB(leg, Victim) => ~OnWay(leg, Victim) /\ mem'[FLAG] # W(0)
  BY <1>1, <1>3 DEF Inv, Kept, FlagSet
<1> HIDE DEF Victim
<1>8. /\ Tested(TRUE) \in [Reg -> HalfWords \X (KResume .. Mixed)]
      /\ \A r \in Reg \ {30} : Tested(TRUE)[r] \in Half2
  BY Testing
<1> QED
  BY <1>1, <1>2, <1>3, <1>4, <1>5, <1>6, <1>7, <1>8, Switching

LEMMA OnResumeTaskA == ASSUME Inv, ResumeTaskA PROVE Inv'
<1>1. /\ pc = KResume /\ mem' = [mem EXCEPT ![TURN] = W(0)]
      /\ SwitchTo(mem[SAVED_PC][2], Restored) /\ slot' = slot /\ torn' = torn
  BY DEF ResumeTaskA, Enter
<1>2. leg \in AllLegs /\ Saves(leg) /\ count > 0 /\ mem[SAVED_PC][2] \in Spots(leg)
  BY <1>1, AtEntry
<1>3. Mem' /\ mem'[SAVED_PC] = mem[SAVED_PC]
  <2>1. W(0) \in Half2
    BY Named DEF W, Half2
  <2> QED
    BY <1>1, <2>1, Shared DEF Inv, Mem
<1>4. /\ Restored \in [Reg -> HalfWords \X (KResume .. Mixed)]
      /\ \A r \in Reg \ {30} : Restored[r] \in Half2
  <2>1. mem[SAVE1] \in Half2 /\ mem[SAVE2] \in Half2
    BY Shared DEF Inv, Mem
  <2>2. Half2 \subseteq HalfWords \X (KResume .. Mixed)
    BY Halves DEF Half2, KResume
  <2> QED
    BY <2>1, <2>2 DEF Inv, Regs, Restored
<1>5. torn' \in BOOLEAN /\ slot' \in {"none", "A", "B"}
  BY <1>1, Zenon DEF Inv, Types
<1>6. mem'[SAVED_PC][2] \in 0 .. Last(leg) /\ mem'[SAVED_PC][2] \in Spots(leg)
  BY <1>2, <1>3 DEF Inv, Saved
<1>7. quantum >= SliceOf(leg) => slot' # "B" /\ ~OfB(leg, mem'[SAVED_PC][2])
  BY <1>1, <1>2, <1>3 DEF Inv, Kept
<1> QED
  BY <1>1, <1>2, <1>3, <1>4, <1>5, <1>6, <1>7, Switching

LEMMA OnTickTurn == ASSUME Inv, TickTurn PROVE Inv'
<1>1. pc = KTick /\ ~Saving /\ slot' = slot /\ torn' = torn
  BY DEF TickTurn, Enter
<1>2. /\ leg \in AllLegs /\ quantum > 0 /\ quantum \in Nat
      /\ count = quantum /\ mode = "SUPER"
  BY <1>1, AtEntry
<1>3. ~Saves(leg) /\ TaskB = First(leg) /\ First(leg) \in Spots(leg)
  <2>1. First(leg) \in 10 .. 60 /\ Last(leg) \in First(leg) .. 90
    BY <1>2, Legs4
  <2>2. First(leg) \in Spots(leg)
    BY <2>1 DEF Spots
  <2> QED
    BY <1>1, <1>2, <2>2, InTermsOfLeg, Zenon
<1>4. torn' \in BOOLEAN /\ slot' \in {"none", "A", "B"}
  BY <1>1, Zenon DEF Inv, Types
<1>5. mem \in [Words -> Half2] /\ W(0) \in Half2 /\ W(1) \in Half2
  BY Named DEF Inv, Mem, W, Half2
<1>6. /\ \A b : Tested(b) \in [Reg -> HalfWords \X (KResume .. Mixed)]
      /\ \A b : \A r \in Reg \ {30} : Tested(b)[r] \in Half2
  BY Testing
<1>7. CASE mem' = [mem EXCEPT ![TURN] = W(1)] /\ SwitchTo(TaskB, Tested(FALSE))
  <2>1. Mem'
    BY <1>5, <1>7 DEF Mem
  <2> QED
    BY <1>2, <1>3, <1>4, <1>6, <1>7, <2>1, Switching
<1>8. CASE /\ pc' = KDone /\ regs' = [Tested(TRUE) EXCEPT ![14] = mem[TURN], ![15] = W(TURN)]
           /\ UNCHANGED <<fixed, mode, mem, count, running, faulted>>
  <2>1. /\ leg' = leg /\ quantum' = quantum /\ mode' = "SUPER" /\ mem' = mem
        /\ count' = count /\ running' = running /\ faulted' = faulted
    BY <1>2, <1>8 DEF fixed
  <2>2. Regs' /\ regs'[15] = W(TURN)
    <3>1. 14 \in Reg /\ 15 \in Reg /\ 14 # 15
      BY DEF Reg
    <3>2. mem[TURN] \in Half2 /\ W(TURN) \in Half2
      BY <1>5, Shared, Named DEF W, Half2
    <3>3. Half2 \subseteq HalfWords \X (KResume .. Mixed)
      BY Halves DEF Half2, KResume
    <3> QED
      BY <1>6, <1>8, <3>1, <3>2, <3>3 DEF Regs
  <2>3. Mem' /\ Points'
    BY <1>5, <2>1, <2>2, Shared DEF Mem, Points
  <2>4. pc' # KTick /\ InSuper'
    BY <1>8 DEF InSuper, KTick, KDone
  <2>5. running' \in BOOLEAN /\ faulted' \in BOOLEAN
    BY <2>1, Zenon DEF Inv, Types
  <2> QED
    BY <1>1, <2>1, <2>2, <2>3, <2>4, <2>5, Settling
<1> QED
  BY <1>7, <1>8, Zenon DEF TickTurn

LEMMA OnFaultHandler == ASSUME Inv, FaultHandler PROVE Inv'
<1>1. /\ pc = KFault /\ pc' = KDone /\ mem' = [mem EXCEPT ![FAULT_WORD] = W(1)]
      /\ leg' = leg /\ quantum' = quantum /\ mode' = mode /\ regs' = regs
      /\ count' = count /\ running' = running /\ faulted' = faulted
      /\ slot' = slot /\ torn' = torn
  BY DEF FaultHandler, Enter, fixed
<1>2. mode' = "SUPER"
  BY <1>1, AtEntry
<1>3. Mem' /\ mem'[SAVED_PC] = mem[SAVED_PC]
  <2>1. W(1) \in Half2
    BY Named DEF W, Half2
  <2> QED
    BY <1>1, <2>1, Shared DEF Inv, Mem
<1>4. Regs' /\ Points'
  BY <1>1 DEF Inv, Regs, Points, KFault, KMain
<1>5. pc' # KTick /\ InSuper'
  BY <1>1 DEF InSuper, KTick, KDone
<1>6. running' \in BOOLEAN /\ faulted' \in BOOLEAN
  BY <1>1, Zenon DEF Inv, Types
<1> QED
  BY <1>1, <1>2, <1>3, <1>4, <1>5, <1>6, Settling

-------------------------------------------------------------------------------
LEMMA Goes == Inv /\ [Next]_vars => Inv'
<1> SUFFICES ASSUME Inv, [Next]_vars
             PROVE  Inv'
  OBVIOUS
<1>1. CASE Step
  <2>1. CASE LDI
    BY <2>1, OnLDI
  <2>2. CASE SHL \/ OR \/ XOR \/ CMP
    BY <2>2, OnData
  <2>3. CASE SUM
    BY <2>3, OnSUM
  <2>4. CASE JMP
    <3>1. /\ running /\ pc > 0 /\ Text[pc].op = "JMP" /\ Commit(Text[pc].x, mem) /\ regs' = regs
      BY <2>4 DEF JMP, At, Goto, Op
    <3> QED
      BY <3>1, Jumping
  <2>5. CASE JZ
    <3>1. PICK next \in {Text[pc].x, pc + 1} :
             running /\ pc > 0 /\ Text[pc].op = "JZ" /\ Commit(next, mem) /\ regs' = regs
      <4>1. /\ running /\ pc > 0 /\ Text[pc].op = "JZ" /\ regs' = regs
            /\ Commit(IF regs[0] # W(0) THEN Text[pc].x ELSE pc + 1, mem)
        BY <2>5 DEF JZ, At, Goto, Op
      <4>2. (IF regs[0] # W(0) THEN Text[pc].x ELSE pc + 1) \in {Text[pc].x, pc + 1}
        OBVIOUS
      <4> QED
        BY <4>1, <4>2, Zenon
    <3> QED
      BY <3>1, Jumping
  <2>6. CASE KJMP
    BY <2>6, OnKJMP
  <2>7. CASE LD
    <3>1. \/ (mode = "SUPER" \/ Loadable(Addr)) /\ SetReg(Op.r, mem[Addr])
          \/ running /\ pc > 0 /\ Fault
      BY <2>7 DEF LD, At
    <3> QED
      BY <2>7, <3>1, OnLD, Faulting
  <2>8. CASE ST
    <3>1. \/ At("ST") /\ Commit(pc + 1, [mem EXCEPT ![Addr] = regs[Op.r]]) /\ regs' = regs
          \/ running /\ pc > 0 /\ Fault
      BY <2>8, Zenon DEF ST, At
    <3> QED
      BY <3>1, OnStore, Faulting
  <2>9. CASE HALT
    BY <2>9, OnHALT
  <2> QED
    BY <1>1, <2>1, <2>2, <2>3, <2>4, <2>5, <2>6, <2>7, <2>8, <2>9, Zenon DEF Step
<1>2. CASE Kernel
  BY <1>2, OnKernelMain, OnTickSwitch, OnTickResume, OnResumeTaskA, OnTickTurn, OnFaultHandler,
     Zenon DEF Kernel
<1>3. CASE UNCHANGED vars
  <2>1. /\ leg' = leg /\ quantum' = quantum /\ pc' = pc /\ mode' = mode /\ regs' = regs
        /\ mem' = mem /\ count' = count /\ running' = running /\ faulted' = faulted
        /\ slot' = slot /\ torn' = torn
    BY <1>3 DEF vars, fixed
  <2>2. Types' /\ Regs' /\ Mem' /\ Points' /\ InUser' /\ Saved' /\ Kept'
    BY <2>1 DEF Inv, Types, Regs, Mem, Points, InUser, Saved, Kept, Victim, FlagSet
  <2>3. InSuper'
    BY <2>1 DEF Inv, InSuper, Victim
  <2> QED
    BY <2>2, <2>3 DEF Inv
<1> QED
  BY <1>1, <1>2, <1>3, Zenon DEF Next, Stopped

LEMMA Holds == Spec => []Inv
BY Begins, Goes, PTL DEF Spec

\* The types of the two tasks and the kernel: wherever a tick falls, the pc stays
\* in the text of the leg or at a handler, registers and words keep to the range
\* of a half word, and a task in USER mode has count left.
THEOREM StaysInRange == Spec => []TypeOK
<1>1. Inv => TypeOK
  <2> SUFFICES ASSUME Inv PROVE TypeOK
    OBVIOUS
  <2>1. leg \in AllLegs /\ Len(Text) = Last(leg) /\ quantum \in Nat
    BY LegsKnown, InTermsOfLeg DEF Inv
  <2>2. First(leg) \in 10 .. 60 /\ Last(leg) \in First(leg) .. 90
    BY <2>1, Legs4
  <2>3. pc \in KResume .. Last(leg) /\ (mode = "USER" => count > 0 /\ pc > 0)
    <3>1. pc \in Spots(leg) => pc \in KResume .. Last(leg) /\ pc > 0
      BY <2>2 DEF Spots, KResume
    <3>2. /\ KMain \in KResume .. Last(leg) /\ KTick \in KResume .. Last(leg)
          /\ KFault \in KResume .. Last(leg) /\ KResume \in KResume .. Last(leg)
          /\ \A p \in 1 .. 8 : p \in KResume .. Last(leg)
      BY <2>2 DEF KMain, KTick, KFault, KResume
    <3> QED
      BY <3>1, <3>2 DEF Inv, Types, InUser, InSuper
  <2>4. HalfWords \subseteq KResume .. Mixed
    BY Halves DEF KResume
  <2>5. \A r \in Reg : regs[r][1] \in HalfWords /\ regs[r][2] \in KResume .. Mixed
    <3>1. \A v \in HalfWords \X (KResume .. Mixed) : v[1] \in HalfWords /\ v[2] \in KResume .. Mixed
      OBVIOUS
    <3>2. \A r \in Reg : regs[r] \in HalfWords \X (KResume .. Mixed)
      BY DEF Inv, Regs
    <3> QED
      BY <3>1, <3>2
  <2>6. \A w \in Words : mem[w][1] \in HalfWords /\ mem[w][2] \in KResume .. Mixed
    <3>1. \A v \in Half2 : v[1] \in HalfWords /\ v[2] \in HalfWords
      BY DEF Half2
    <3>2. \A w \in Words : mem[w] \in Half2
      BY DEF Inv, Mem
    <3> QED
      BY <2>4, <3>1, <3>2
  <2> QED
    BY <2>1, <2>3, <2>5, <2>6, Zenon DEF Inv, Types, TypeOK
<1> QED
  BY <1>1, Holds, PTL

\* "Save Task A registers r1, r2 and TICK_PC": the one slot never holds task B's
\* context, for every quantum that lets task B set its flag before its first tick.
THEOREM SliceIsEnough == Spec => []SliceKeepsSlot
<1>1. Inv => SliceKeepsSlot
  <2>1. Inv => /\ Saving <=> Saves(leg)
               /\ Slice = SliceOf(leg)
    BY LegsKnown, InTermsOfLeg DEF Inv
  <2> QED
    BY <2>1 DEF Inv, Kept, SliceKeepsSlot, SlotHoldsTaskA
<1> QED
  BY <1>1, Holds, PTL

-------------------------------------------------------------------------------
(* What task A has made of the registers and the RAM, at each place of its *)
(* text, on a run that no tick has torn.                                   *)
High(n) == <<n, 0>>
Good(l) == IF l = "save" THEN FEEDCAFE ELSE FEED0017

\* The value v while it is loaded into r by the instructions behind a, its second
\* half from s on, and until it is last read.
Loading(g, p, r, v, a, s, z) ==
    /\ p \in a .. s => g[r] = W(v[1])
    /\ p \in s + 1 .. s + 2 => g[r] = High(v[1])
    /\ p \in s + 3 .. z => g[r] = v

\* What task A has made of the registers that no tick touches, and of the RAM.
Own(l, p, g, m) ==
    IF l = "save"
    THEN /\ Loading(g, p, 1, R1A, 10, 11, 28) /\ Loading(g, p, 2, R2A, 15, 15, 35)
         /\ Loading(g, p, 6, R1A, 25, 25, 28) /\ Loading(g, p, 7, R2A, 32, 32, 35)
         /\ p \notin {30, 37}
         /\ p \in 44 .. 49 => m[VERIFY] = FEEDCAFE
    ELSE /\ p \in 16 .. 38 => m[HIGH_A] = HighA
         /\ p \in 23 .. 28 => g[1] = HighA
         /\ p # 30
         /\ p \in 37 .. 38 => m[VERIFY] = FEED0017
\* Of r5, which task B's loads overwrite.
FiveAt(l) == IF l = "save" THEN {13, 17, 27, 34, 41} ELSE {14, 27, 35}
Five(l, p, g) ==
    p \in FiveAt(l) =>
        g[5] = W(IF l = "save"
                 THEN CASE p \in {13, 27} -> R1A[2] [] p \in {17, 34} -> R2A[2]
                        [] OTHER -> FEEDCAFE[2]
                 ELSE IF p = 35 THEN FEED0017[2] ELSE HighA[2])
\* Of the registers that every tick overwrites.
ScratchAt(l) ==
    IF l = "save" THEN {29, 36, 49} \cup 39 .. 43 \cup 45 .. 47
    ELSE {17, 22, 38} \cup 11 .. 15 \cup 25 .. 29 \cup 32 .. 36
Scratch(l, p, g) ==
    IF l = "save"
    THEN /\ p \in {29, 36} => g[0] = W(1)
         /\ Loading(g, p, 14, FEEDCAFE, 39, 39, 43)
         /\ p = 43 => g[15] = W(VERIFY)
         /\ p \in 45 .. 47 => g[15] = W(EXIT_A)
         /\ p = 49 => g[30] = W(KDone)
    ELSE /\ p \in 11 .. 15 \cup {22} => g[15] = W(HIGH_A)
         /\ p = 17 => g[15] = W(FLAG)
         /\ p \in 32 .. 36 => g[15] = W(VERIFY)
         /\ Loading(g, p, 14, HighA, 12, 12, 15)
         /\ Loading(g, p, 14, HighA, 25, 25, 28)
         /\ Loading(g, p, 14, FEED0017, 33, 33, 36)
         /\ p = 29 => g[0] = W(1)
         /\ p = 38 => g[30] = W(KDone)
Context(l, p, g, m) == Own(l, p, g, m) /\ Five(l, p, g) /\ Scratch(l, p, g)

\* Task A's context while task B runs.
Parked ==
    LET p == mem[SAVED_PC][2]
    IN  /\ p \in TaskA .. First(leg) - 1
        /\ Own(leg, p, [regs EXCEPT ![1] = mem[SAVE1], ![2] = mem[SAVE2]], mem)
        /\ p \notin FiveAt(leg) \cup ScratchAt(leg)
\* From its instruction Off on, task B holds the address of a word of its own in
\* r15; at its KJMP, the way back in r30.
Aims(l) == IF l = "save" THEN {UART_B, UART_B_LEN, EXIT_B, FLAG} ELSE {HIGH_B, FLAG}
Off(l) == IF l = "save" THEN 10 ELSE 2
Aimed(l, p, g) ==
    /\ p \in First(l) + Off(l) .. First(l) + SliceOf(l) - 1 =>
          \E w \in Aims(l) : g[15] = W(w)
    /\ p = Last(l) => g[30] = W(KResume)
\* The status word on its way.
Closing(l, p, g, m) ==
    /\ m[VERIFY] = Good(l)
    /\ p \in 2 .. 3 => g[3] = W(StatusOk(l)[1])
    /\ p \in 4 .. 5 => g[3] = High(StatusOk(l)[1])
    /\ p = 5 => g[9] = W(StatusOk(l)[2])
    /\ p \in 6 .. 7 => g[3] = StatusOk(l)
    /\ p = 7 => g[15] = W(STATUS)
    /\ p = 8 => m[STATUS] = StatusOk(l)

Place == IF pc = KTick THEN Victim ELSE pc
OfA(l, p) == p \in TaskA .. First(l) - 1
Quiet == ~torn /\ Saves(leg) /\ quantum >= SliceOf(leg)
Secure ==
    /\ ~faulted /\ (running \/ pc = 8)
    /\ \/ pc = KMain
       \/ /\ mode = "USER" \/ pc = KTick
          /\ \/ OfA(leg, Place) /\ Context(leg, Place, regs, mem)
             \/ OfB(leg, Place) /\ Parked /\ Aimed(leg, Place, regs)
       \/ pc = KResume /\ Parked
       \/ mode = "SUPER" /\ pc \in 1 .. 8 /\ Closing(leg, pc, regs, mem)
Sound == Quiet => Secure

-------------------------------------------------------------------------------
(* The texts of the legs that save a context, instruction by instruction.  *)
LEMMA SaveListing ==
    LET T == Program["save"] IN
    /\ T[9] = Ldi(1, R1A[1]) /\ T[10] = Ldi(4, 16) /\ T[11] = I("SHL", 1, 4)
    /\ T[12] = Ldi(5, R1A[2]) /\ T[13] = I("OR", 1, 5)
    /\ T[14] = Ldi(2, R2A[1]) /\ T[15] = I("SHL", 2, 4)
    /\ T[16] = Ldi(5, R2A[2]) /\ T[17] = I("OR", 2, 5)
    /\ T[18] = Ldi(15, FLAG) /\ T[19] = I("LD", 14, 15)
    /\ T[20] = I("XOR", 13, 13) /\ T[21] = I("CMP", 14, 13)
    /\ T[22] = I("JZ", 0, 18) /\ T[23] = Ldi(4, 16) /\ T[24] = Ldi(6, R1A[1])
    /\ T[25] = I("SHL", 6, 4) /\ T[26] = Ldi(5, R1A[2])
    /\ T[27] = I("OR", 6, 5) /\ T[28] = I("CMP", 1, 6)
    /\ T[29] = I("JZ", 0, 31) /\ T[30] = I("JMP", 0, KDone)
    /\ T[31] = Ldi(7, R2A[1]) /\ T[32] = I("SHL", 7, 4)
    /\ T[33] = Ldi(5, R2A[2]) /\ T[34] = I("OR", 7, 5)
    /\ T[35] = I("CMP", 2, 7) /\ T[36] = I("JZ", 0, 38)
    /\ T[37] = I("JMP", 0, KDone) /\ T[38] = Ldi(14, FEEDCAFE[1])
    /\ T[39] = I("SHL", 14, 4) /\ T[40] = Ldi(5, FEEDCAFE[2])
    /\ T[41] = I("OR", 14, 5) /\ T[42] = Ldi(15, VERIFY)
    /\ T[43] = I("ST", 14, 15) /\ T[44] = Ldi(15, EXIT_A)
    /\ T[45] = Ldi(14, FEEDCAFE[1]) /\ T[46] = I("SHL", 14, 4)
    /\ T[47] = I("ST", 14, 15) /\ T[48] = Ldi(30, KDone) /\ T[49] = KJMPS
<1> DEFINE T == Program["save"]
<1> USE DEF Program, TaskAText, TaskBText, DoneText, TaskA, SaveTaskA, LoadFirst, Load,
            Ldi4, St, Wait, Check, Go, Store, KJMPS, WriteB
<1>1. /\ T[9] = Ldi(1, R1A[1]) /\ T[10] = Ldi(4, 16) /\ T[11] = I("SHL", 1, 4)
      /\ T[12] = Ldi(5, R1A[2])
  OBVIOUS
<1>2. /\ T[13] = I("OR", 1, 5) /\ T[14] = Ldi(2, R2A[1]) /\ T[15] = I("SHL", 2, 4)
      /\ T[16] = Ldi(5, R2A[2])
  OBVIOUS
<1>3. /\ T[17] = I("OR", 2, 5) /\ T[18] = Ldi(15, FLAG) /\ T[19] = I("LD", 14, 15)
      /\ T[20] = I("XOR", 13, 13)
  OBVIOUS
<1>4. /\ T[21] = I("CMP", 14, 13) /\ T[22] = I("JZ", 0, 18) /\ T[23] = Ldi(4, 16)
      /\ T[24] = Ldi(6, R1A[1])
  OBVIOUS
<1>5. /\ T[25] = I("SHL", 6, 4) /\ T[26] = Ldi(5, R1A[2]) /\ T[27] = I("OR", 6, 5)
      /\ T[28] = I("CMP", 1, 6)
  OBVIOUS
<1>6. /\ T[29] = I("JZ", 0, 31) /\ T[30] = I("JMP", 0, KDone) /\ T[31] = Ldi(7, R2A[1])
      /\ T[32] = I("SHL", 7, 4)
  OBVIOUS
<1>7. /\ T[33] = Ldi(5, R2A[2]) /\ T[34] = I("OR", 7, 5) /\ T[35] = I("CMP", 2, 7)
      /\ T[36] = I("JZ", 0, 38)
  OBVIOUS
<1>8. /\ T[37] = I("JMP", 0, KDone) /\ T[38] = Ldi(14, FEEDCAFE[1])
      /\ T[39] = I("SHL", 14, 4) /\ T[40] = Ldi(5, FEEDCAFE[2])
  OBVIOUS
<1>9. /\ T[41] = I("OR", 14, 5) /\ T[42] = Ldi(15, VERIFY) /\ T[43] = I("ST", 14, 15)
      /\ T[44] = Ldi(15, EXIT_A)
  OBVIOUS
<1>10. /\ T[45] = Ldi(14, FEEDCAFE[1]) /\ T[46] = I("SHL", 14, 4)
      /\ T[47] = I("ST", 14, 15) /\ T[48] = Ldi(30, KDone)
  OBVIOUS
<1>11. /\ T[49] = KJMPS
  OBVIOUS
<1> HIDE DEF Program, TaskAText, TaskBText, DoneText, TaskA, SaveTaskA, LoadFirst, Load,
             Ldi4, St, Wait, Check, Go, Store, KJMPS, WriteB
<1> QED
  BY <1>1, <1>2, <1>3, <1>4, <1>5, <1>6, <1>7, <1>8, <1>9, <1>10, <1>11, Zenon

LEMMA PagedListing ==
    LET T == Program["paged"] IN
    /\ Len(T) = 52
    /\ T[9] = Ldi(4, 16) /\ T[10] = Ldi(15, HIGH_A)
    /\ T[11] = Ldi(14, HighA[1]) /\ T[12] = I("SHL", 14, 4)
    /\ T[13] = Ldi(5, HighA[2]) /\ T[14] = I("OR", 14, 5)
    /\ T[15] = I("ST", 14, 15) /\ T[16] = Ldi(15, FLAG)
    /\ T[17] = I("LD", 14, 15) /\ T[18] = I("XOR", 13, 13)
    /\ T[19] = I("CMP", 14, 13) /\ T[20] = I("JZ", 0, 16)
    /\ T[21] = Ldi(15, HIGH_A) /\ T[22] = I("LD", 1, 15)
    /\ T[23] = Ldi(4, 16) /\ T[24] = Ldi(14, HighA[1])
    /\ T[25] = I("SHL", 14, 4) /\ T[26] = Ldi(5, HighA[2])
    /\ T[27] = I("OR", 14, 5) /\ T[28] = I("CMP", 1, 14)
    /\ T[29] = I("JZ", 0, 31) /\ T[30] = I("JMP", 0, KDone)
    /\ T[31] = Ldi(15, VERIFY) /\ T[32] = Ldi(14, FEED0017[1])
    /\ T[33] = I("SHL", 14, 4) /\ T[34] = Ldi(5, FEED0017[2])
    /\ T[35] = I("OR", 14, 5) /\ T[36] = I("ST", 14, 15)
    /\ T[37] = Ldi(30, KDone) /\ T[38] = KJMPS
<1> DEFINE T == Program["paged"]
<1> USE DEF Program, TaskAText, TaskBText, DoneText, TaskA, PagedTaskA, LoadFirst, Load,
            Ldi4, St, Wait, Check, Go, Store, KJMPS, WriteB
<1>1. /\ Len(T) = 52 /\ T[9] = Ldi(4, 16) /\ T[10] = Ldi(15, HIGH_A)
      /\ T[11] = Ldi(14, HighA[1])
  OBVIOUS
<1>2. /\ T[12] = I("SHL", 14, 4) /\ T[13] = Ldi(5, HighA[2]) /\ T[14] = I("OR", 14, 5)
      /\ T[15] = I("ST", 14, 15)
  OBVIOUS
<1>3. /\ T[16] = Ldi(15, FLAG) /\ T[17] = I("LD", 14, 15) /\ T[18] = I("XOR", 13, 13)
      /\ T[19] = I("CMP", 14, 13)
  OBVIOUS
<1>4. /\ T[20] = I("JZ", 0, 16) /\ T[21] = Ldi(15, HIGH_A) /\ T[22] = I("LD", 1, 15)
      /\ T[23] = Ldi(4, 16)
  OBVIOUS
<1>5. /\ T[24] = Ldi(14, HighA[1]) /\ T[25] = I("SHL", 14, 4) /\ T[26] = Ldi(5, HighA[2])
      /\ T[27] = I("OR", 14, 5)
  OBVIOUS
<1>6. /\ T[28] = I("CMP", 1, 14) /\ T[29] = I("JZ", 0, 31) /\ T[30] = I("JMP", 0, KDone)
      /\ T[31] = Ldi(15, VERIFY)
  OBVIOUS
<1>7. /\ T[32] = Ldi(14, FEED0017[1]) /\ T[33] = I("SHL", 14, 4)
      /\ T[34] = Ldi(5, FEED0017[2]) /\ T[35] = I("OR", 14, 5)
  OBVIOUS
<1>8. /\ T[36] = I("ST", 14, 15) /\ T[37] = Ldi(30, KDone) /\ T[38] = KJMPS
  OBVIOUS
<1> HIDE DEF Program, TaskAText, TaskBText, DoneText, TaskA, PagedTaskA, LoadFirst, Load,
             Ldi4, St, Wait, Check, Go, Store, KJMPS, WriteB
<1> QED
  BY <1>1, <1>2, <1>3, <1>4, <1>5, <1>6, <1>7, <1>8, Zenon

\* The way to the halt.
LEMMA DoneListing ==
    ASSUME NEW l \in {"save", "paged"}
    PROVE  LET T == Program[l]   s == StatusOk(l) IN
           /\ T[1] = Ldi(3, s[1]) /\ T[2] = Ldi(4, 16) /\ T[3] = I("SHL", 3, 4)
           /\ T[4] = Ldi(9, s[2]) /\ T[5] = I("OR", 3, 9) /\ T[6] = Ldi(15, STATUS)
           /\ T[7] = I("ST", 3, 15) /\ T[8] = HALTS
<1> DEFINE D(x, k) == LET T == Program[x] IN
      IF k = 1
      THEN /\ T[1] = Ldi(3, StatusOk(x)[1]) /\ T[2] = Ldi(4, 16) /\ T[3] = I("SHL", 3, 4)
           /\ T[4] = Ldi(9, StatusOk(x)[2])
      ELSE /\ T[5] = I("OR", 3, 9) /\ T[6] = Ldi(15, STATUS) /\ T[7] = I("ST", 3, 15)
           /\ T[8] = HALTS
<1> USE DEF Program, TaskAText, TaskBText, DoneText, TaskA, SaveTaskA, PagedTaskA, LoadFirst, Load,
            Ldi4, St, Wait, Check, Go, Store, HALTS, WriteB
<1>1. D("save", 1)
  OBVIOUS
<1>2. D("save", 2)
  OBVIOUS
<1>3. D("paged", 1)
  OBVIOUS
<1>4. D("paged", 2)
  OBVIOUS
<1> HIDE DEF Program, TaskAText, TaskBText, DoneText, TaskA, SaveTaskA, PagedTaskA, LoadFirst, Load,
             Ldi4, St, Wait, Check, Go, Store, HALTS, WriteB
<1> QED
  BY <1>1, <1>2, <1>3, <1>4

\* Where task B begins and ends.
LEMMA Edges == First("save") = 50 /\ Last("save") = 72 /\ First("paged") = 39 /\ Last("paged") = 52
BY DEF First, Last, Program, TaskAText, TaskBText, DoneText, TaskA, SaveTaskA, PagedTaskA,
     LoadFirst, Load, Ldi4, St, Wait, Check, Go, Store, WriteB

-------------------------------------------------------------------------------
(* One instruction, apart from the timer.                                  *)
\* What the instruction i at p makes of the registers and the RAM, and where it goes on.
Effect(i, g, m) ==
    CASE i.op = "LDI" -> [g EXCEPT ![i.r] = W(i.x)]
      [] i.op = "SHL" -> [g EXCEPT ![i.r] = High(g[i.r][2])]
      [] i.op = "OR"  -> [g EXCEPT ![i.r] = Or(g[i.r], g[i.x])]
      [] i.op = "XOR" -> [g EXCEPT ![i.r] = W(0)]
      [] i.op = "CMP" -> [g EXCEPT ![0] = Flag(g[i.r] = g[i.x])]
      [] i.op = "LD"  -> [g EXCEPT ![i.r] = m[g[15][2]]]
      [] OTHER -> g
Written(i, g, m) == IF i.op = "ST" THEN [m EXCEPT ![g[15][2]] = g[i.r]] ELSE m
Following(i, g, p) ==
    IF i.op = "JMP" \/ (i.op = "JZ" /\ g[0] # W(0)) THEN i.x ELSE p + 1
Files == [Reg -> HalfWords \X (KResume .. Mixed)]

Ran(i, p, g, m, q, h, n) == h = Effect(i, g, m) /\ n = Written(i, g, m) /\ q = Following(i, g, p)

\* What each kind of instruction makes of the registers and the RAM.
LEMMA RanSHL ==
    ASSUME NEW i, NEW p, NEW g, NEW m, NEW q, NEW h, NEW n, Ran(i, p, g, m, q, h, n), NEW r, NEW x,
           i = I("SHL", r, x)
    PROVE  h = [g EXCEPT ![r] = High(g[r][2])] /\ n = m /\ q = p + 1 /\ i.op = "SHL"
BY DEF Ran, Effect, Written, Following, I, Ldi
LEMMA RanOR ==
    ASSUME NEW i, NEW p, NEW g, NEW m, NEW q, NEW h, NEW n, Ran(i, p, g, m, q, h, n), NEW r, NEW x,
           i = I("OR", r, x)
    PROVE  h = [g EXCEPT ![r] = Or(g[r], g[x])] /\ n = m /\ q = p + 1 /\ i.op = "OR"
BY DEF Ran, Effect, Written, Following, I, Ldi
LEMMA RanXOR ==
    ASSUME NEW i, NEW p, NEW g, NEW m, NEW q, NEW h, NEW n, Ran(i, p, g, m, q, h, n), NEW r, NEW x,
           i = I("XOR", r, x)
    PROVE  h = [g EXCEPT ![r] = W(0)] /\ n = m /\ q = p + 1 /\ i.op = "XOR"
BY DEF Ran, Effect, Written, Following, I, Ldi
LEMMA RanCMP ==
    ASSUME NEW i, NEW p, NEW g, NEW m, NEW q, NEW h, NEW n, Ran(i, p, g, m, q, h, n), NEW r, NEW x,
           i = I("CMP", r, x)
    PROVE  h = [g EXCEPT ![0] = Flag(g[r] = g[x])] /\ n = m /\ q = p + 1 /\ i.op = "CMP"
BY DEF Ran, Effect, Written, Following, I, Ldi
LEMMA RanLD ==
    ASSUME NEW i, NEW p, NEW g, NEW m, NEW q, NEW h, NEW n, Ran(i, p, g, m, q, h, n), NEW r, NEW x,
           i = I("LD", r, x)
    PROVE  h = [g EXCEPT ![r] = m[g[15][2]]] /\ n = m /\ q = p + 1 /\ i.op = "LD"
BY DEF Ran, Effect, Written, Following, I, Ldi
LEMMA RanLDI ==
    ASSUME NEW i, NEW p, NEW g, NEW m, NEW q, NEW h, NEW n, Ran(i, p, g, m, q, h, n), NEW r, NEW x,
           i = Ldi(r, x)
    PROVE  h = [g EXCEPT ![r] = W(x)] /\ n = m /\ q = p + 1 /\ i.op = "LDI"
BY DEF Ran, Effect, Written, Following, I, Ldi
LEMMA RanST ==
    ASSUME NEW i, NEW p, NEW g, NEW m, NEW q, NEW h, NEW n, Ran(i, p, g, m, q, h, n), NEW r, NEW x,
           i = I("ST", r, x)
    PROVE  h = g /\ n = [m EXCEPT ![g[15][2]] = g[r]] /\ q = p + 1 /\ i.op = "ST"
BY DEF Ran, Effect, Written, Following, I, Ldi
LEMMA RanJZ ==
    ASSUME NEW i, NEW p, NEW g, NEW m, NEW q, NEW h, NEW n, Ran(i, p, g, m, q, h, n), NEW r, NEW x,
           i = I("JZ", r, x)
    PROVE  h = g /\ n = m /\ i.op = "JZ" /\ q = IF g[0] # W(0) THEN x ELSE p + 1
BY DEF Ran, Effect, Written, Following, I, Ldi

\* A value is joined from its halves.
LEMMA Joined ==
    ASSUME NEW v \in Half2
    PROVE  v = <<v[1], v[2]>> /\ W(v[1])[2] = v[1] /\ Or(High(v[1]), W(v[2])) = v
<1>1. 0 \in HalfWords /\ v[1] \in HalfWords /\ v[2] \in HalfWords /\ v = <<v[1], v[2]>>
  BY Named DEF Half2
<1>2. OrHalf(v[1], 0) = v[1] /\ OrHalf(0, v[2]) = v[2]
  BY Zenon DEF OrHalf
<1> QED
  BY <1>1, <1>2 DEF Or, High, W
LEMMA Loaders ==
    /\ R1A \in Half2 /\ R2A \in Half2 /\ HighA \in Half2 /\ FEEDCAFE \in Half2 /\ FEED0017 \in Half2
    /\ \A l : StatusOk(l) \in Half2
BY Named DEF Half2

-------------------------------------------------------------------------------
(* Each instruction of the tasks, and of the way to the halt, makes of the *)
(* registers and the RAM what its place asks for.                          *)
\* The words of task A's context.
Keepsakes == {VERIFY, HIGH_A, SAVE1, SAVE2, SAVED_PC}

\* The words that are told apart.
LEMMA Places ==
    /\ VERIFY \in Words /\ HIGH_A \in Words /\ EXIT_A \in Words /\ STATUS \in Words
    /\ VERIFY # EXIT_A /\ VERIFY # HIGH_A /\ STATUS # VERIFY /\ STATUS # TICK_PC
    /\ Keepsakes \subseteq Words /\ TICK_PC \notin Keepsakes /\ TURN \notin Keepsakes
    /\ SAVE1 # SAVE2 /\ SAVE1 # SAVED_PC /\ SAVE2 # SAVED_PC
    /\ VERIFY \notin {SAVE1, SAVE2, SAVED_PC} /\ HIGH_A \notin {SAVE1, SAVE2, SAVED_PC}
    /\ \A l : \A w \in Aims(l) : w \in Words \ Keepsakes
<1>1. /\ VERIFY \in Words /\ HIGH_A \in Words /\ EXIT_A \in Words /\ STATUS \in Words
      /\ SAVE1 \in Words /\ SAVE2 \in Words /\ SAVED_PC \in Words
  BY Zenon DEF Words
<1>2. /\ UART_B \in Words /\ UART_B_LEN \in Words /\ EXIT_B \in Words /\ FLAG \in Words
      /\ HIGH_B \in Words
  BY Zenon DEF Words
<1>3. \A w \in Keepsakes : w \notin {TICK_PC, TURN, UART_B, UART_B_LEN, EXIT_B, FLAG, HIGH_B}
  BY DEF Keepsakes, VERIFY, HIGH_A, SAVE1, SAVE2, SAVED_PC, TICK_PC, TURN, UART_B, UART_B_LEN,
         EXIT_B, FLAG, HIGH_B
<1>4. \A l : Aims(l) \subseteq {UART_B, UART_B_LEN, EXIT_B, FLAG, HIGH_B}
  BY DEF Aims
<1>5. /\ VERIFY # EXIT_A /\ VERIFY # HIGH_A /\ STATUS # VERIFY /\ STATUS # TICK_PC
      /\ SAVE1 # SAVE2 /\ SAVE1 # SAVED_PC /\ SAVE2 # SAVED_PC
      /\ VERIFY \notin {SAVE1, SAVE2, SAVED_PC} /\ HIGH_A \notin {SAVE1, SAVE2, SAVED_PC}
  BY DEF VERIFY, EXIT_A, HIGH_A, STATUS, TICK_PC, SAVE1, SAVE2, SAVED_PC
<1>6. Keepsakes \subseteq Words
  BY <1>1, Zenon DEF Keepsakes
<1>7. ASSUME NEW l, NEW w \in Aims(l)
      PROVE  w \in Words \ Keepsakes
  <2>1. w \in {UART_B, UART_B_LEN, EXIT_B, FLAG, HIGH_B}
    BY <1>4
  <2> QED
    BY <1>2, <1>3, <2>1
<1> QED
  BY <1>1, <1>3, <1>5, <1>6, <1>7, Zenon

\* Task B of either leg.
LEMMA SaveListingB ==
    LET T == Program["save"] IN
    /\ T[50] = Ldi(1, R1B[1]) /\ T[51] = Ldi(4, 16) /\ T[52] = I("SHL", 1, 4)
    /\ T[53] = Ldi(5, R1B[2]) /\ T[54] = I("OR", 1, 5)
    /\ T[55] = Ldi(2, R2B[1]) /\ T[56] = I("SHL", 2, 4)
    /\ T[57] = Ldi(5, R2B[2]) /\ T[58] = I("OR", 2, 5)
    /\ T[59] = Ldi(15, UART_B) /\ T[60] = Ldi(14, PACK_B)
    /\ T[61] = I("ST", 14, 15) /\ T[62] = Ldi(15, UART_B_LEN)
    /\ T[63] = Ldi(14, 4) /\ T[64] = I("ST", 14, 15)
    /\ T[65] = Ldi(15, EXIT_B) /\ T[66] = Ldi(14, 7)
    /\ T[67] = I("ST", 14, 15) /\ T[68] = Ldi(15, FLAG) /\ T[69] = Ldi(14, 1)
    /\ T[70] = I("ST", 14, 15) /\ T[71] = Ldi(30, KResume) /\ T[72] = KJMPS
<1> DEFINE T == Program["save"]
<1> USE DEF Program, TaskAText, TaskBText, DoneText, TaskA, SaveTaskA, LoadFirst, Load,
            Ldi4, St, Wait, Check, Go, Store, KJMPS, WriteB
<1>1. /\ T[50] = Ldi(1, R1B[1]) /\ T[51] = Ldi(4, 16) /\ T[52] = I("SHL", 1, 4)
      /\ T[53] = Ldi(5, R1B[2])
  OBVIOUS
<1>2. /\ T[54] = I("OR", 1, 5) /\ T[55] = Ldi(2, R2B[1]) /\ T[56] = I("SHL", 2, 4)
      /\ T[57] = Ldi(5, R2B[2])
  OBVIOUS
<1>3. /\ T[58] = I("OR", 2, 5) /\ T[59] = Ldi(15, UART_B) /\ T[60] = Ldi(14, PACK_B)
      /\ T[61] = I("ST", 14, 15)
  OBVIOUS
<1>4. /\ T[62] = Ldi(15, UART_B_LEN) /\ T[63] = Ldi(14, 4) /\ T[64] = I("ST", 14, 15)
      /\ T[65] = Ldi(15, EXIT_B)
  OBVIOUS
<1>5. /\ T[66] = Ldi(14, 7) /\ T[67] = I("ST", 14, 15) /\ T[68] = Ldi(15, FLAG)
      /\ T[69] = Ldi(14, 1)
  OBVIOUS
<1>6. /\ T[70] = I("ST", 14, 15) /\ T[71] = Ldi(30, KResume) /\ T[72] = KJMPS
  OBVIOUS
<1> HIDE DEF Program, TaskAText, TaskBText, DoneText, TaskA, SaveTaskA, LoadFirst, Load,
             Ldi4, St, Wait, Check, Go, Store, KJMPS, WriteB
<1> QED
  BY <1>1, <1>2, <1>3, <1>4, <1>5, <1>6, Zenon

LEMMA PagedListingB ==
    LET T == Program["paged"] IN
    /\ T[39] = Ldi(4, 16) /\ T[40] = Ldi(15, HIGH_B)
    /\ T[41] = Ldi(14, HighB[1]) /\ T[42] = I("SHL", 14, 4)
    /\ T[43] = Ldi(5, HighB[2]) /\ T[44] = I("OR", 14, 5)
    /\ T[45] = I("ST", 14, 15) /\ T[46] = Ldi(1, Junk1)
    /\ T[47] = Ldi(2, Junk2) /\ T[48] = Ldi(15, FLAG) /\ T[49] = Ldi(14, 1)
    /\ T[50] = I("ST", 14, 15) /\ T[51] = Ldi(30, KResume) /\ T[52] = KJMPS
<1> DEFINE T == Program["paged"]
<1> USE DEF Program, TaskAText, TaskBText, DoneText, TaskA, PagedTaskA, LoadFirst, Load,
            Ldi4, St, Wait, Check, Go, Store, KJMPS, WriteB
<1>1. /\ T[39] = Ldi(4, 16) /\ T[40] = Ldi(15, HIGH_B) /\ T[41] = Ldi(14, HighB[1])
      /\ T[42] = I("SHL", 14, 4)
  OBVIOUS
<1>2. /\ T[43] = Ldi(5, HighB[2]) /\ T[44] = I("OR", 14, 5) /\ T[45] = I("ST", 14, 15)
      /\ T[46] = Ldi(1, Junk1)
  OBVIOUS
<1>3. /\ T[47] = Ldi(2, Junk2) /\ T[48] = Ldi(15, FLAG) /\ T[49] = Ldi(14, 1)
      /\ T[50] = I("ST", 14, 15)
  OBVIOUS
<1>4. /\ T[51] = Ldi(30, KResume) /\ T[52] = KJMPS
  OBVIOUS
<1> HIDE DEF Program, TaskAText, TaskBText, DoneText, TaskA, PagedTaskA, LoadFirst, Load,
             Ldi4, St, Wait, Check, Go, Store, KJMPS, WriteB
<1> QED
  BY <1>1, <1>2, <1>3, <1>4, Zenon

\* Task A of GH-16: each instruction brings about what the next place asks for.
LEMMA SaveRun ==
    ASSUME NEW g \in Files, NEW m \in [Words -> Half2], NEW p \in 9 .. 48,
           Context("save", p, g, m), NEW i, i = Program["save"][p],
           NEW q, NEW h, NEW n, Ran(i, p, g, m, q, h, n)
    PROVE  /\ q \in 9 .. 49 /\ Context("save", q, h, n)
           /\ i.op \notin {"KJMP", "HALT"}
           /\ i.op = "ST" => g[15] \in {W(VERIFY), W(EXIT_A)}
<1> USE Joined, Loaders, Places DEF Context, Own, Five, FiveAt, Scratch, Loading, Reg, Files
<1>9. CASE p = 9
  BY <1>9, SaveListing, RanLDI
<1>10. CASE p = 10
  BY <1>10, SaveListing, RanLDI
<1>11. CASE p = 11
  BY <1>11, SaveListing, RanSHL
<1>12. CASE p = 12
  BY <1>12, SaveListing, RanLDI
<1>13. CASE p = 13
  BY <1>13, SaveListing, RanOR
<1>14. CASE p = 14
  BY <1>14, SaveListing, RanLDI
<1>15. CASE p = 15
  BY <1>15, SaveListing, RanSHL
<1>16. CASE p = 16
  BY <1>16, SaveListing, RanLDI
<1>17. CASE p = 17
  BY <1>17, SaveListing, RanOR
<1>18. CASE p = 18
  BY <1>18, SaveListing, RanLDI
<1>19. CASE p = 19
  BY <1>19, SaveListing, RanLD
<1>20. CASE p = 20
  BY <1>20, SaveListing, RanXOR
<1>21. CASE p = 21
  BY <1>21, SaveListing, RanCMP DEF Flag
<1>22. CASE p = 22
  BY <1>22, SaveListing, RanJZ DEF W
<1>23. CASE p = 23
  BY <1>23, SaveListing, RanLDI
<1>24. CASE p = 24
  BY <1>24, SaveListing, RanLDI
<1>25. CASE p = 25
  BY <1>25, SaveListing, RanSHL
<1>26. CASE p = 26
  BY <1>26, SaveListing, RanLDI
<1>27. CASE p = 27
  BY <1>27, SaveListing, RanOR
<1>28. CASE p = 28
  BY <1>28, SaveListing, RanCMP DEF Flag
<1>29. CASE p = 29
  BY <1>29, SaveListing, RanJZ DEF W
<1>30. CASE p = 30
  BY <1>30
<1>31. CASE p = 31
  BY <1>31, SaveListing, RanLDI
<1>32. CASE p = 32
  BY <1>32, SaveListing, RanSHL
<1>33. CASE p = 33
  BY <1>33, SaveListing, RanLDI
<1>34. CASE p = 34
  BY <1>34, SaveListing, RanOR
<1>35. CASE p = 35
  BY <1>35, SaveListing, RanCMP DEF Flag
<1>36. CASE p = 36
  BY <1>36, SaveListing, RanJZ DEF W
<1>37. CASE p = 37
  BY <1>37
<1>38. CASE p = 38
  BY <1>38, SaveListing, RanLDI
<1>39. CASE p = 39
  BY <1>39, SaveListing, RanSHL
<1>40. CASE p = 40
  BY <1>40, SaveListing, RanLDI
<1>41. CASE p = 41
  BY <1>41, SaveListing, RanOR
<1>42. CASE p = 42
  BY <1>42, SaveListing, RanLDI
<1>43. CASE p = 43
  BY <1>43, SaveListing, RanST DEF W
<1>44. CASE p = 44
  BY <1>44, SaveListing, RanLDI
<1>45. CASE p = 45
  BY <1>45, SaveListing, RanLDI
<1>46. CASE p = 46
  BY <1>46, SaveListing, RanSHL
<1>47. CASE p = 47
  BY <1>47, SaveListing, RanST DEF W
<1>48. CASE p = 48
  BY <1>48, SaveListing, RanLDI
<1>49. p = 9 \/ p = 10 \/ p = 11 \/ p = 12 \/ p = 13 \/ p = 14 \/ p = 15 \/ p = 16 \/ p =
      17 \/ p = 18 \/ p = 19 \/ p = 20 \/ p = 21 \/ p = 22 \/ p = 23 \/ p = 24 \/ p = 25
      \/ p = 26 \/ p = 27 \/ p = 28 \/ p = 29 \/ p = 30 \/ p = 31 \/ p = 32 \/ p = 33 \/ p
      = 34 \/ p = 35 \/ p = 36 \/ p = 37 \/ p = 38 \/ p = 39 \/ p = 40 \/ p = 41 \/ p = 42
      \/ p = 43 \/ p = 44 \/ p = 45 \/ p = 46 \/ p = 47 \/ p = 48
  BY ONLY p \in 9 .. 48
<1> QED
  BY ONLY <1>9, <1>10, <1>11, <1>12, <1>13, <1>14, <1>15, <1>16, <1>17, <1>18, <1>19, <1>20,
     <1>21, <1>22, <1>23, <1>24, <1>25, <1>26, <1>27, <1>28, <1>29, <1>30, <1>31, <1>32,
     <1>33, <1>34, <1>35, <1>36, <1>37, <1>38, <1>39, <1>40, <1>41, <1>42, <1>43, <1>44,
     <1>45, <1>46, <1>47, <1>48, <1>49, Zenon

\* Task A of GH-17.
LEMMA PagedRun ==
    ASSUME NEW g \in Files, NEW m \in [Words -> Half2], NEW p \in 9 .. 37,
           Context("paged", p, g, m), NEW i, i = Program["paged"][p],
           NEW q, NEW h, NEW n, Ran(i, p, g, m, q, h, n)
    PROVE  /\ q \in 9 .. 38 /\ Context("paged", q, h, n)
           /\ i.op \notin {"KJMP", "HALT"}
           /\ i.op = "ST" => g[15] \in {W(VERIFY), W(HIGH_A)}
           /\ i.op = "LD" => g[15] \in {W(FLAG), W(HIGH_A)}
<1> USE Joined, Loaders, Places DEF Context, Own, Five, FiveAt, Scratch, Loading, Reg, Files
<1>9. CASE p = 9
  BY <1>9, PagedListing, RanLDI
<1>10. CASE p = 10
  BY <1>10, PagedListing, RanLDI
<1>11. CASE p = 11
  BY <1>11, PagedListing, RanLDI
<1>12. CASE p = 12
  BY <1>12, PagedListing, RanSHL
<1>13. CASE p = 13
  BY <1>13, PagedListing, RanLDI
<1>14. CASE p = 14
  BY <1>14, PagedListing, RanOR
<1>15. CASE p = 15
  BY <1>15, PagedListing, RanST DEF W
<1>16. CASE p = 16
  BY <1>16, PagedListing, RanLDI
<1>17. CASE p = 17
  BY <1>17, PagedListing, RanLD
<1>18. CASE p = 18
  BY <1>18, PagedListing, RanXOR
<1>19. CASE p = 19
  BY <1>19, PagedListing, RanCMP DEF Flag
<1>20. CASE p = 20
  BY <1>20, PagedListing, RanJZ DEF W
<1>21. CASE p = 21
  BY <1>21, PagedListing, RanLDI
<1>22. CASE p = 22
  BY <1>22, PagedListing, RanLD DEF W
<1>23. CASE p = 23
  BY <1>23, PagedListing, RanLDI
<1>24. CASE p = 24
  BY <1>24, PagedListing, RanLDI
<1>25. CASE p = 25
  BY <1>25, PagedListing, RanSHL
<1>26. CASE p = 26
  BY <1>26, PagedListing, RanLDI
<1>27. CASE p = 27
  BY <1>27, PagedListing, RanOR
<1>28. CASE p = 28
  BY <1>28, PagedListing, RanCMP DEF Flag
<1>29. CASE p = 29
  BY <1>29, PagedListing, RanJZ DEF W
<1>30. CASE p = 30
  BY <1>30
<1>31. CASE p = 31
  BY <1>31, PagedListing, RanLDI
<1>32. CASE p = 32
  BY <1>32, PagedListing, RanLDI
<1>33. CASE p = 33
  BY <1>33, PagedListing, RanSHL
<1>34. CASE p = 34
  BY <1>34, PagedListing, RanLDI
<1>35. CASE p = 35
  BY <1>35, PagedListing, RanOR
<1>36. CASE p = 36
  BY <1>36, PagedListing, RanST DEF W
<1>37. CASE p = 37
  BY <1>37, PagedListing, RanLDI
<1>38. p = 9 \/ p = 10 \/ p = 11 \/ p = 12 \/ p = 13 \/ p = 14 \/ p = 15 \/ p = 16 \/ p =
      17 \/ p = 18 \/ p = 19 \/ p = 20 \/ p = 21 \/ p = 22 \/ p = 23 \/ p = 24 \/ p = 25
      \/ p = 26 \/ p = 27 \/ p = 28 \/ p = 29 \/ p = 30 \/ p = 31 \/ p = 32 \/ p = 33 \/ p
      = 34 \/ p = 35 \/ p = 36 \/ p = 37
  BY ONLY p \in 9 .. 37
<1> QED
  BY ONLY <1>9, <1>10, <1>11, <1>12, <1>13, <1>14, <1>15, <1>16, <1>17, <1>18, <1>19, <1>20,
     <1>21, <1>22, <1>23, <1>24, <1>25, <1>26, <1>27, <1>28, <1>29, <1>30, <1>31, <1>32,
     <1>33, <1>34, <1>35, <1>36, <1>37, <1>38, Zenon

\* What task B does on its way to the flag.
Besides(l, p) ==
    LET i == Program[l][p]
    IN  /\ i.op \in {"LDI", "SHL", "OR", "ST"} /\ (i.op = "ST" => First(l) + Off(l) <= p)
        /\ i.op # "ST" => i.r \in {1, 2, 4, 5, 14, 15}
        /\ i.r = 15 => i.op = "LDI" /\ i.x \in Aims(l)
        /\ p = First(l) + Off(l) - 1 => i.r = 15
LEMMA BText ==
    ASSUME NEW l \in {"save", "paged"}
    PROVE  /\ \A p \in First(l) .. First(l) + SliceOf(l) - 1 : Besides(l, p)
           /\ Program[l][First(l) + SliceOf(l)] = Ldi(30, KResume)
           /\ Last(l) = First(l) + SliceOf(l) + 1 /\ Program[l][Last(l)] = KJMPS
<1> USE Edges DEF Besides, Off, SliceOf, Aims, Ldi, I
<1>1. CASE l = "save"
  <2>1. ASSUME NEW p \in 50 .. 70 PROVE Besides("save", p)
    <3>50. CASE p = 50
      BY <3>50, SaveListingB
    <3>51. CASE p = 51
      BY <3>51, SaveListingB
    <3>52. CASE p = 52
      BY <3>52, SaveListingB
    <3>53. CASE p = 53
      BY <3>53, SaveListingB
    <3>54. CASE p = 54
      BY <3>54, SaveListingB
    <3>55. CASE p = 55
      BY <3>55, SaveListingB
    <3>56. CASE p = 56
      BY <3>56, SaveListingB
    <3>57. CASE p = 57
      BY <3>57, SaveListingB
    <3>58. CASE p = 58
      BY <3>58, SaveListingB
    <3>59. CASE p = 59
      BY <3>59, SaveListingB
    <3>60. CASE p = 60
      BY <3>60, SaveListingB
    <3>61. CASE p = 61
      BY <3>61, SaveListingB
    <3>62. CASE p = 62
      BY <3>62, SaveListingB
    <3>63. CASE p = 63
      BY <3>63, SaveListingB
    <3>64. CASE p = 64
      BY <3>64, SaveListingB
    <3>65. CASE p = 65
      BY <3>65, SaveListingB
    <3>66. CASE p = 66
      BY <3>66, SaveListingB
    <3>67. CASE p = 67
      BY <3>67, SaveListingB
    <3>68. CASE p = 68
      BY <3>68, SaveListingB
    <3>69. CASE p = 69
      BY <3>69, SaveListingB
    <3>70. CASE p = 70
      BY <3>70, SaveListingB
    <3>71. p = 50 \/ p = 51 \/ p = 52 \/ p = 53 \/ p = 54 \/ p = 55 \/ p = 56 \/ p = 57 \/
           p = 58 \/ p = 59 \/ p = 60 \/ p = 61 \/ p = 62 \/ p = 63 \/ p = 64 \/ p = 65 \/
           p = 66 \/ p = 67 \/ p = 68 \/ p = 69 \/ p = 70
      BY ONLY p \in 50 .. 70
    <3> QED
      BY ONLY <3>50, <3>51, <3>52, <3>53, <3>54, <3>55, <3>56, <3>57, <3>58, <3>59, <3>60,
         <3>61, <3>62, <3>63, <3>64, <3>65, <3>66, <3>67, <3>68, <3>69, <3>70, <3>71, Zenon
  <2>2. Program["save"][71] = Ldi(30, KResume) /\ Program["save"][72] = KJMPS
    BY SaveListingB
  <2> QED
    BY <1>1, <2>1, <2>2
<1>2. CASE l = "paged"
  <2>1. ASSUME NEW p \in 39 .. 50 PROVE Besides("paged", p)
    <3>39. CASE p = 39
      BY <3>39, PagedListingB
    <3>40. CASE p = 40
      BY <3>40, PagedListingB
    <3>41. CASE p = 41
      BY <3>41, PagedListingB
    <3>42. CASE p = 42
      BY <3>42, PagedListingB
    <3>43. CASE p = 43
      BY <3>43, PagedListingB
    <3>44. CASE p = 44
      BY <3>44, PagedListingB
    <3>45. CASE p = 45
      BY <3>45, PagedListingB
    <3>46. CASE p = 46
      BY <3>46, PagedListingB
    <3>47. CASE p = 47
      BY <3>47, PagedListingB
    <3>48. CASE p = 48
      BY <3>48, PagedListingB
    <3>49. CASE p = 49
      BY <3>49, PagedListingB
    <3>50. CASE p = 50
      BY <3>50, PagedListingB
    <3> QED
      BY ONLY p \in 39 .. 50, <3>39, <3>40, <3>41, <3>42, <3>43, <3>44, <3>45, <3>46, <3>47,
         <3>48, <3>49, <3>50
  <2>2. Program["paged"][51] = Ldi(30, KResume) /\ Program["paged"][52] = KJMPS
    BY PagedListingB
  <2> QED
    BY <1>2, <2>1, <2>2
<1> QED
  BY <1>1, <1>2

LEMMA Further ==
    ASSUME NEW l \in {"save", "paged"}
    PROVE  /\ First(l) \in 39 .. 50 /\ SliceOf(l) \in 12 .. 21 /\ Off(l) \in 2 .. 10
           /\ Last(l) = First(l) + SliceOf(l) + 1 /\ l \in AllLegs /\ Saves(l)
BY Edges DEF SliceOf, Off, AllLegs, Saves

\* What it comes to when task B runs the instruction i at p.
Slices(l, p, i, g, m, q, h, n) ==
    /\ q = p + 1 /\ Aimed(l, q, h) /\ h[6] = g[6] /\ h[7] = g[7]
    /\ \A w \in Keepsakes : n[w] = m[w]
    /\ i.op \notin {"KJMP", "HALT", "LD"}
    /\ i.op = "ST" => \E w \in Aims(l) : g[15] = W(w)
LEMMA BRun ==
    ASSUME NEW l \in {"save", "paged"}, NEW g \in Files, NEW m \in [Words -> Half2],
           NEW p, OfB(l, p), p # Last(l), Aimed(l, p, g),
           NEW i, i = Program[l][p], NEW q, NEW h, NEW n, Ran(i, p, g, m, q, h, n)
    PROVE  Slices(l, p, i, g, m, q, h, n)
<1>1. /\ First(l) \in 39 .. 50 /\ SliceOf(l) \in 12 .. 21 /\ Off(l) \in 2 .. 10
      /\ Last(l) = First(l) + SliceOf(l) + 1 /\ p \in First(l) .. Last(l) - 1
  BY Further DEF OfB
<1>2. CASE p = First(l) + SliceOf(l)
  <2>1. i = Ldi(30, KResume)
    BY <1>2, BText
  <2>2. h = [g EXCEPT ![30] = W(KResume)] /\ n = m /\ q = p + 1 /\ i.op = "LDI"
    BY <2>1, RanLDI
  <2>3. h[6] = g[6] /\ h[7] = g[7] /\ h[30] = W(KResume)
    BY <2>2 DEF Files, Reg
  <2>4. Aimed(l, q, h)
    BY <1>1, <1>2, <2>2, <2>3 DEF Aimed, Off
  <2> QED
    BY <1>1, <1>2, <2>2, <2>3, <2>4 DEF Slices
<1>3. CASE p \in First(l) .. First(l) + SliceOf(l) - 1
  <2>1. Besides(l, p)
    BY <1>3, BText
  <2>2. /\ i.op \in {"LDI", "SHL", "OR", "ST"} /\ (i.op = "ST" => First(l) + Off(l) <= p)
        /\ i.op # "ST" => i.r \in {1, 2, 4, 5, 14, 15}
        /\ i.r = 15 => i.op = "LDI" /\ i.x \in Aims(l)
        /\ p = First(l) + Off(l) - 1 => i.r = 15
    BY <2>1 DEF Besides
  <2>3. q = p + 1
    BY <2>2 DEF Ran, Following
  <2>4. h[6] = g[6] /\ h[7] = g[7]
    <3>1. i.op = "ST" \/ (i.r # 6 /\ i.r # 7)
      BY <2>2
    <3>2. h = g \/ (i.op # "ST" /\ \E v : h = [g EXCEPT ![i.r] = v])
      BY <2>2 DEF Ran, Effect
    <3> QED
      BY <3>1, <3>2 DEF Files, Reg
  <2>5. i.r # 15 => h[15] = g[15]
    BY <2>2 DEF Ran, Effect, Files, Reg
  <2>6. i.r = 15 => h[15] = W(i.x) /\ i.x \in Aims(l)
    BY <2>2 DEF Ran, Effect, Files, Reg
  <2>7. First(l) + Off(l) <= p => \E w \in Aims(l) : g[15] = W(w)
    BY <1>1, <1>3 DEF Aimed, Off
  <2>8. Aimed(l, q, h)
    <3>1. q \in First(l) + Off(l) .. First(l) + SliceOf(l) - 1 => \E w \in Aims(l) : h[15] = W(w)
      BY <1>1, <1>3, <2>2, <2>3, <2>5, <2>6, <2>7
    <3>2. q # Last(l)
      BY <1>1, <1>3, <2>3
    <3> QED
      BY <3>1, <3>2 DEF Aimed, Off
  <2>9. \A w \in Keepsakes : n[w] = m[w]
    <3>1. CASE i.op = "ST"
      <4>1. PICK w \in Aims(l) : g[15] = W(w)
        BY <2>2, <2>7, <3>1
      <4>2. n = [m EXCEPT ![w] = g[i.r]]
        BY <3>1, <4>1 DEF Ran, Written, W
      <4>3. \A u \in Keepsakes : u \in Words /\ u # w
        BY Places
      <4> QED
        BY <4>2, <4>3
    <3>2. CASE i.op # "ST"
      BY <3>2 DEF Ran, Written
    <3> QED
      BY <3>1, <3>2
  <2> QED
    BY <2>2, <2>3, <2>4, <2>7, <2>8, <2>9 DEF Slices
<1> QED
  BY <1>1, <1>2, <1>3

\* The status word is put together, stored and kept.
LEMMA DoneRun ==
    ASSUME NEW l \in {"save", "paged"}, NEW g \in Files, NEW m \in [Words -> Half2],
           NEW p \in 1 .. 7, Closing(l, p, g, m), NEW i, i = Program[l][p],
           NEW q, NEW h, NEW n, Ran(i, p, g, m, q, h, n)
    PROVE  q = p + 1 /\ Closing(l, q, h, n) /\ i.op \notin {"KJMP", "HALT"}
<1> USE Joined, Loaders, Places DEF Closing, Reg, Files
<1>1. CASE p = 1
  BY <1>1, DoneListing, RanLDI
<1>2. CASE p = 2
  BY <1>2, DoneListing, RanLDI
<1>3. CASE p = 3
  BY <1>3, DoneListing, RanSHL
<1>4. CASE p = 4
  BY <1>4, DoneListing, RanLDI
<1>5. CASE p = 5
  BY <1>5, DoneListing, RanOR
<1>6. CASE p = 6
  BY <1>6, DoneListing, RanLDI
<1>7. CASE p = 7
  BY <1>7, DoneListing, RanST DEF W
<1> QED
  BY ONLY p \in 1 .. 7, <1>1, <1>2, <1>3, <1>4, <1>5, <1>6, <1>7

-------------------------------------------------------------------------------
(* A tick that lands where a register is held that it overwrites tears the *)
(* context: the text reads that register before it writes it.              *)
LEMMA Spans == ASSUME NEW l \in {"save", "paged"} PROVE DOMAIN Program[l] = Spots(l)
<1>1. /\ DOMAIN Program["save"] = 1 .. Len(Program["save"])
      /\ DOMAIN Program["paged"] = 1 .. Len(Program["paged"])
  BY DEF Program, TaskAText, TaskBText, DoneText, TaskA, SaveTaskA, PagedTaskA, LoadFirst, Load,
         Ldi4, St, Wait, Check, Go, Store, WriteB
<1> QED
  BY <1>1, Zenon DEF Spots, Last

\* A register is needed where it is read, and where it is needed next and kept.
LEMMA Now ==
    ASSUME NEW l \in {"save", "paged"}, NEW p \in Spots(l), NEW r \in Reg,
           r \in Reads(Program[l][p])
    PROVE  r \in Live[l][p]
<1>1. l \in DOMAIN Program /\ p \in DOMAIN Program[l] /\ Last(l) \in Nat
  BY Spans, Edges DEF Program
<1>2. p \in p .. Last(l) /\ p .. p - 1 = {}
  BY <1>1 DEF Spots
<1> QED
  BY <1>1, <1>2, Zenon DEF Live, Last
LEMMA Soon ==
    ASSUME NEW l \in {"save", "paged"}, NEW p \in Spots(l), NEW r \in Reg,
           r \notin Writes(Program[l][p]), p + 1 \in Spots(l), r \in Live[l][p + 1]
    PROVE  r \in Live[l][p]
<1>1. /\ l \in DOMAIN Program /\ p \in DOMAIN Program[l] /\ p + 1 \in DOMAIN Program[l]
      /\ Last(l) \in Nat
  <2>1. l \in DOMAIN Program
    BY DEF Program
  <2>2. Last(l) \in Nat
    BY Edges
  <2> QED
    BY <2>1, <2>2, Spans, Zenon
<1>2. PICK j \in p + 1 .. Last(l) :
         r \in Reads(Program[l][j]) /\ \A k \in p + 1 .. j - 1 : r \notin Writes(Program[l][k])
  BY <1>1, Zenon DEF Live, Last
<1>3. /\ j \in p .. Last(l)
      /\ \A k \in p .. j - 1 : k = p \/ k \in p + 1 .. j - 1
  BY <1>1, <1>2 DEF Spots
<1>4. \A k \in p .. j - 1 : r \notin Writes(Program[l][k])
  BY <1>2, <1>3
<1> QED
  BY <1>1, <1>2, <1>3, <1>4, Zenon DEF Live, Last

\* What an instruction reads and writes.
LEMMA Touches ==
    /\ \A r, x : /\ Reads(I("SHL", r, x)) = {r, x} /\ Reads(I("OR", r, x)) = {r, x}
               /\ Reads(I("CMP", r, x)) = {r, x} /\ Reads(I("ST", r, x)) = {r, 15}
               /\ Reads(I("LD", r, x)) = {15} /\ Reads(I("JZ", r, x)) = {0}
               /\ Writes(Ldi(r, x)) = {r} /\ Writes(I("SHL", r, x)) = {r}
               /\ Writes(I("OR", r, x)) = {r} /\ Writes(I("ST", r, x)) = {}
    /\ Reads(KJMPS) = {30}
BY DEF Reads, Writes, I, Ldi, KJMPS

\* A tick that lands where a scratch register is still needed tears the context.
LEMMA Needs ==
    ASSUME leg \in {"save", "paged"}, NEW p \in Spots(leg), NEW r \in Reg,
           r \in Live[leg][p], r \in Clobbered,
           ~InWait(p) \/ (leg = "paged" /\ r = 15)
    PROVE  Needed(p) \cap Clobbered # {}
BY DEF Needed

LEMMA Waits ==
    ASSUME leg \in {"save", "paged"}, NEW p
    PROVE  InWait(p) <=> p \in (IF leg = "save" THEN 19 .. 22 ELSE 17 .. 20)
BY TaskAStart DEF InWait, Saving, WaitAt

\* Where task A holds something in a scratch register, it reads it before it

\* writes it; also r5.
LEMMA SaveTears ==
    /\ \A p \in ScratchAt("save") : \E r \in {0, 14, 15, 30} : r \in Live["save"][p]
    /\ \A p \in FiveAt("save") : 5 \in Live["save"][p]
<1> DEFINE L(p, r) == r \in Live["save"][p]
<1>1. /\ \A p \in 9 .. 49 : p \in Spots("save")
      /\ 0 \in Reg /\ 5 \in Reg /\ 14 \in Reg /\ 15 \in Reg /\ 30 \in Reg
  BY Edges DEF Spots, Reg
<1>2. L(29, 0)
  BY <1>1, SaveListing, Touches, Now
<1>3. L(36, 0)
  BY <1>1, SaveListing, Touches, Now
<1>4. L(49, 30)
  BY <1>1, SaveListing, Touches, Now
<1>5. L(39, 14)
  BY <1>1, SaveListing, Touches, Now
<1>6. L(41, 14)
  BY <1>1, SaveListing, Touches, Now
<1>7. L(43, 14)
  BY <1>1, SaveListing, Touches, Now
<1>8. L(47, 15)
  BY <1>1, SaveListing, Touches, Now
<1>9. L(13, 5)
  BY <1>1, SaveListing, Touches, Now
<1>10. L(17, 5)
  BY <1>1, SaveListing, Touches, Now
<1>11. L(27, 5)
  BY <1>1, SaveListing, Touches, Now
<1>12. L(34, 5)
  BY <1>1, SaveListing, Touches, Now
<1>13. L(41, 5)
  BY <1>1, SaveListing, Touches, Now
<1>14. L(40, 14)
  BY <1>1, <1>6, SaveListing, Touches, Soon
<1>15. L(42, 14)
  BY <1>1, <1>7, SaveListing, Touches, Soon
<1>16. L(46, 15)
  BY <1>1, <1>8, SaveListing, Touches, Soon
<1>17. L(45, 15)
  BY <1>1, <1>16, SaveListing, Touches, Soon
<1> QED
  BY <1>2, <1>3, <1>4, <1>5, <1>6, <1>7, <1>8, <1>9, <1>10, <1>11, <1>12, <1>13, <1>14, <1>15,
     <1>16, <1>17 DEF ScratchAt, FiveAt

LEMMA PagedTears ==
    /\ \A p \in ScratchAt("paged") : \E r \in {0, 14, 15, 30} :
          r \in Live["paged"][p] /\ (p = 17 => r = 15)
    /\ \A p \in FiveAt("paged") : 5 \in Live["paged"][p]
<1> DEFINE L(p, r) == r \in Live["paged"][p]
<1>1. /\ \A p \in 9 .. 38 : p \in Spots("paged")
      /\ 0 \in Reg /\ 5 \in Reg /\ 14 \in Reg /\ 15 \in Reg /\ 30 \in Reg
  BY Edges DEF Spots, Reg
<1>2. L(15, 15)
  BY <1>1, PagedListing, Touches, Now
<1>3. L(17, 15)
  BY <1>1, PagedListing, Touches, Now
<1>4. L(22, 15)
  BY <1>1, PagedListing, Touches, Now
<1>5. L(25, 14)
  BY <1>1, PagedListing, Touches, Now
<1>6. L(27, 14)
  BY <1>1, PagedListing, Touches, Now
<1>7. L(28, 14)
  BY <1>1, PagedListing, Touches, Now
<1>8. L(29, 0)
  BY <1>1, PagedListing, Touches, Now
<1>9. L(36, 15)
  BY <1>1, PagedListing, Touches, Now
<1>10. L(38, 30)
  BY <1>1, PagedListing, Touches, Now
<1>11. L(14, 5)
  BY <1>1, PagedListing, Touches, Now
<1>12. L(27, 5)
  BY <1>1, PagedListing, Touches, Now
<1>13. L(35, 5)
  BY <1>1, PagedListing, Touches, Now
<1>14. L(14, 15)
  BY <1>1, <1>2, PagedListing, Touches, Soon
<1>15. L(13, 15)
  BY <1>1, <1>14, PagedListing, Touches, Soon
<1>16. L(12, 15)
  BY <1>1, <1>15, PagedListing, Touches, Soon
<1>17. L(11, 15)
  BY <1>1, <1>16, PagedListing, Touches, Soon
<1>18. L(26, 14)
  BY <1>1, <1>6, PagedListing, Touches, Soon
<1>19. L(35, 15)
  BY <1>1, <1>9, PagedListing, Touches, Soon
<1>20. L(34, 15)
  BY <1>1, <1>19, PagedListing, Touches, Soon
<1>21. L(33, 15)
  BY <1>1, <1>20, PagedListing, Touches, Soon
<1>22. L(32, 15)
  BY <1>1, <1>21, PagedListing, Touches, Soon
<1> QED
  BY <1>2, <1>3, <1>4, <1>5, <1>6, <1>7, <1>8, <1>9, <1>10, <1>11, <1>12, <1>13, <1>14, <1>15,
     <1>16, <1>17, <1>18, <1>19, <1>20, <1>21, <1>22 DEF ScratchAt, FiveAt

\* Task B needs r30 at its KJMP.
LEMMA LastTears ==
    ASSUME NEW l \in {"save", "paged"}
    PROVE  30 \in Live[l][Last(l)]
<1>1. Last(l) \in Spots(l) /\ 30 \in Reg
  BY Edges DEF Spots, Reg
<1> QED
  BY <1>1, BText, Touches, Now

\* A tick that tears nothing found nothing to tear.
LEMMA Tearing ==
    ASSUME leg \in {"save", "paged"}, NEW p \in Spots(leg), Needed(p) \cap Clobbered = {}
    PROVE  p \notin ScratchAt(leg) /\ (~FlagSet => p \notin FiveAt(leg)) /\ p # Last(leg)
<1>1. {0, 5, 14, 15, 30} \subseteq Reg
  BY DEF Reg
<1>2. {0, 14, 15, 30} \subseteq Clobbered /\ (~FlagSet => 5 \in Clobbered)
  BY Zenon DEF Clobbered
<1>3. /\ p \in ScratchAt(leg) => ~InWait(p) \/ (leg = "paged" /\ p = 17)
      /\ p \in FiveAt(leg) => ~InWait(p)
      /\ p = Last(leg) => ~InWait(p)
  BY Waits, Edges DEF ScratchAt, FiveAt
<1>4. p \notin ScratchAt(leg)
  <2> SUFFICES ASSUME p \in ScratchAt(leg) PROVE FALSE
    OBVIOUS
  <2>1. PICK r \in {0, 14, 15, 30} : r \in Live[leg][p] /\ (leg = "paged" /\ p = 17 => r = 15)
    BY SaveTears, PagedTears
  <2> QED
    BY <1>1, <1>2, <1>3, <2>1, Needs
<1>5. ~FlagSet => p \notin FiveAt(leg)
  BY <1>1, <1>2, <1>3, SaveTears, PagedTears, Needs
<1>6. p # Last(leg)
  BY <1>1, <1>2, <1>3, LastTears, Needs
<1> QED
  BY <1>4, <1>5, <1>6

-------------------------------------------------------------------------------
(* What the steps of a task need, and what they leave.                     *)

\* The words that the tasks store to, and those they load from, are theirs.
LEMMA Fits ==
    /\ leg = "save" => \A w \in {VERIFY, EXIT_A} \cup Aims("save") : Storable(w)
    /\ leg = "paged" => \A w \in {VERIFY, HIGH_A} \cup Aims("paged") : Storable(w)
    /\ leg = "paged" => \A w \in {FLAG, HIGH_A} : Loadable(w)
    /\ leg = "save" => \A w : Loadable(w)
<1>1. ASSUME leg = "save", NEW w \in {VERIFY, EXIT_A} \cup Aims("save") PROVE Storable(w)
  BY <1>1 DEF Storable, VERIFY, EXIT_A, Aims, UART_B, UART_B_LEN, EXIT_B, FLAG
<1>2. /\ VERIFY \div 256 = 2 /\ HIGH_A \div 256 = 8 /\ FLAG \div 256 = 2 /\ HIGH_B \div 256 = 16
  BY DEF VERIFY, HIGH_A, FLAG, HIGH_B
<1>3. \A w \in {VERIFY, HIGH_A, FLAG, HIGH_B} : Mapped(w)
  BY <1>2 DEF Mapped
<1>4. Aims("paged") = {HIGH_B, FLAG}
  BY DEF Aims
<1> QED
  BY <1>1, <1>3, <1>4 DEF Storable, Loadable

\* A step of task A.
LEMMA ARun ==
    ASSUME NEW l \in {"save", "paged"}, NEW g \in Files, NEW m \in [Words -> Half2],
           NEW p, OfA(l, p), Context(l, p, g, m), NEW i, i = Program[l][p]
    PROVE  \/ i = KJMPS /\ g[30] = W(KDone) /\ m[VERIFY] = Good(l)
           \/ /\ i.op \notin {"KJMP", "HALT"}
              /\ i.op = "ST" => \E w \in IF l = "save" THEN {VERIFY, EXIT_A} ELSE {VERIFY, HIGH_A} :
                                    g[15] = W(w)
              /\ i.op = "LD" /\ l = "paged" => \E w \in {FLAG, HIGH_A} : g[15] = W(w)
              /\ \A q, h, n : Ran(i, p, g, m, q, h, n) => OfA(l, q) /\ Context(l, q, h, n)
<1>1. TaskA = 9
  BY TaskAStart
<1>2. \E q, h, n : Ran(i, p, g, m, q, h, n)
  BY DEF Ran
<1>3. CASE l = "save"
  <2>1. CASE p = 49
    <3>1. i = KJMPS
      BY <1>3, <2>1, SaveListing
    <3>2. g[30] = W(KDone) /\ m[VERIFY] = FEEDCAFE
      BY <1>3, <2>1 DEF Context, Own, Scratch
    <3> QED
      BY <1>3, <3>1, <3>2 DEF Good
  <2>2. CASE p \in 9 .. 48
    <3>1. /\ i.op \notin {"KJMP", "HALT"}
          /\ i.op = "ST" => g[15] \in {W(VERIFY), W(EXIT_A)}
      BY <1>2, <1>3, <2>2, SaveRun
    <3>2. ASSUME NEW q, NEW h, NEW n, Ran(i, p, g, m, q, h, n)
          PROVE  OfA(l, q) /\ Context(l, q, h, n)
      <4>1. q \in 9 .. 49 /\ Context("save", q, h, n)
        BY <1>3, <2>2, <3>2, SaveRun
      <4>2. OfA("save", q)
        BY <1>1, <4>1, Edges DEF OfA
      <4> QED
        BY <1>3, <4>1, <4>2
    <3> QED
      BY <1>3, <3>1, <3>2
  <2> QED
    BY <1>1, <1>3, <2>1, <2>2, Edges DEF OfA
<1>4. CASE l = "paged"
  <2>1. CASE p = 38
    <3>1. i = KJMPS
      BY <1>4, <2>1, PagedListing
    <3>2. g[30] = W(KDone) /\ m[VERIFY] = FEED0017
      BY <1>4, <2>1 DEF Context, Own, Scratch
    <3> QED
      BY <1>4, <3>1, <3>2 DEF Good
  <2>2. CASE p \in 9 .. 37
    <3>1. /\ i.op \notin {"KJMP", "HALT"}
          /\ i.op = "ST" => g[15] \in {W(VERIFY), W(HIGH_A)}
          /\ i.op = "LD" => g[15] \in {W(FLAG), W(HIGH_A)}
      BY <1>2, <1>4, <2>2, PagedRun
    <3>2. ASSUME NEW q, NEW h, NEW n, Ran(i, p, g, m, q, h, n)
          PROVE  OfA(l, q) /\ Context(l, q, h, n)
      <4>1. q \in 9 .. 38 /\ Context("paged", q, h, n)
        BY <1>4, <2>2, <3>2, PagedRun
      <4>2. OfA("paged", q)
        BY <1>1, <4>1, Edges DEF OfA
      <4> QED
        BY <1>4, <4>1, <4>2
    <3> QED
      BY <1>4, <3>1, <3>2
  <2> QED
    BY <1>1, <1>4, <2>1, <2>2, Edges DEF OfA
<1> QED
  BY <1>3, <1>4

\* What task A has made depends on these registers and words alone.
LEMMA OwnAlike ==
    ASSUME NEW l, NEW p, NEW g, NEW m, NEW h, NEW n, Own(l, p, g, m),
           h[1] = g[1], h[2] = g[2], h[6] = g[6], h[7] = g[7],
           n[VERIFY] = m[VERIFY], n[HIGH_A] = m[HIGH_A]
    PROVE  Own(l, p, h, n)
BY DEF Own, Loading

\* So for r5, and for the RAM alone.
LEMMA FiveAlike ==
    ASSUME NEW l, NEW p, NEW g, NEW h, Five(l, p, g), h[5] = g[5]
    PROVE  Five(l, p, h)
BY DEF Five

LEMMA ContextAlike ==
    ASSUME NEW l, NEW p, NEW g, NEW m, NEW n, Context(l, p, g, m),
           n[VERIFY] = m[VERIFY], n[HIGH_A] = m[HIGH_A]
    PROVE  Context(l, p, g, n)
BY OwnAlike DEF Context

\* Where nothing is held in them.
LEMMA Idle ==
    ASSUME NEW l \in {"save", "paged"}, NEW p \in TaskA .. First(l) - 1, NEW g
    PROVE  /\ p \notin ScratchAt(l) => Scratch(l, p, g)
           /\ p \notin FiveAt(l) => Five(l, p, g)
<1>1. CASE l = "save"
  BY <1>1, TaskAStart, Edges DEF ScratchAt, FiveAt, Scratch, Five, Loading
<1>2. CASE l = "paged"
  BY <1>2, TaskAStart, Edges DEF ScratchAt, FiveAt, Scratch, Five, Loading
<1> QED
  BY <1>1, <1>2

\* Task A stays parked while its words and r6 and r7 are left alone.
LEMMA ParkedAlike ==
    ASSUME Parked, leg' = leg, \A w \in Keepsakes : mem'[w] = mem[w],
           regs \in Files, regs' \in Files, regs'[6] = regs[6], regs'[7] = regs[7]
    PROVE  Parked'
<1> DEFINE p == mem[SAVED_PC][2]
           g == [regs EXCEPT ![1] = mem[SAVE1], ![2] = mem[SAVE2]]
           h == [regs' EXCEPT ![1] = mem[SAVE1], ![2] = mem[SAVE2]]
<1>1. /\ p \in TaskA .. First(leg) - 1 /\ Own(leg, p, g, mem)
      /\ p \notin FiveAt(leg) \cup ScratchAt(leg)
  BY DEF Parked
<1>2. /\ mem'[SAVED_PC] = mem[SAVED_PC] /\ mem'[SAVE1] = mem[SAVE1] /\ mem'[SAVE2] = mem[SAVE2]
      /\ mem'[VERIFY] = mem[VERIFY] /\ mem'[HIGH_A] = mem[HIGH_A]
  BY DEF Keepsakes
<1>3. h[1] = g[1] /\ h[2] = g[2] /\ h[6] = g[6] /\ h[7] = g[7]
  BY DEF Files, Reg
<1>4. Own(leg, p, h, mem')
  <2> HIDE DEF p, g, h
  <2> QED
    BY <1>1, <1>2, <1>3, OwnAlike
<1> QED
  BY <1>1, <1>2, <1>4 DEF Parked

-------------------------------------------------------------------------------
(* Sound is inductive, given Inv.                                          *)

\* What an instruction that is committed makes of the machine.
LEMMA Retired ==
    ASSUME Inv, NEW next \in Spots(leg), NEW ram \in [Words -> Half2], Commit(next, ram)
    PROVE  /\ leg' = leg /\ quantum' = quantum /\ running' = running /\ faulted' = faulted
           /\ torn' = torn
           /\ mode = "SUPER" => mode' = "SUPER" /\ pc' = next /\ mem' = ram
           /\ mode = "USER" =>
                 /\ Place' = next /\ (mode' = "USER" \/ pc' = KTick)
                 /\ \A w \in Words : w # TICK_PC => mem'[w] = ram[w]
<1>1. /\ leg' = leg /\ quantum' = quantum /\ running' = running /\ faulted' = faulted
      /\ torn' = torn
  BY DEF Commit, fixed
<1>2. mode = "SUPER" => mode' = "SUPER" /\ pc' = next /\ mem' = ram
  BY DEF Commit, Timed, Ticking
<1>3. ASSUME mode = "USER"
      PROVE  \/ pc' = next /\ mode' = "USER" /\ mem' = ram
             \/ pc' = KTick /\ mem' = [ram EXCEPT ![TICK_PC] = W(next)]
  BY <1>3, LegsKnown DEF Commit, Timed, Ticking, Inv, InUser
<1>4. next # KTick /\ TICK_PC \in Words /\ W(next)[2] = next
  BY Shared DEF Spots, KTick, W
<1>5. ASSUME mode = "USER"
      PROVE  /\ Place' = next /\ (mode' = "USER" \/ pc' = KTick)
             /\ \A w \in Words : w # TICK_PC => mem'[w] = ram[w]
  <2>1. CASE pc' = next /\ mode' = "USER" /\ mem' = ram
    BY <1>4, <2>1 DEF Place
  <2>2. CASE pc' = KTick /\ mem' = [ram EXCEPT ![TICK_PC] = W(next)]
    BY <1>4, <2>2 DEF Place, Victim
  <2> QED
    BY <1>3, <1>5, <2>1, <2>2
<1> QED
  BY <1>1, <1>2, <1>5

\* An instruction of the text runs to its end, or is a KJMP, a HALT or a fault.
LEMMA Executes ==
    ASSUME Inv, Step
    PROVE  /\ running /\ pc > 0
           /\ \/ \E q : \E n \in [Words -> Half2] :
                    Ran(Text[pc], pc, regs, mem, q, regs', n) /\ Commit(q, n)
              \/ KJMP \/ HALT
              \/ /\ Fault /\ mode = "USER"
                 /\ \/ Text[pc].op = "LD" /\ ~Loadable(Addr)
                    \/ Text[pc].op = "ST" /\ ~Storable(Addr)
<1> DEFINE Runs(q, n) == Ran(Text[pc], pc, regs, mem, q, regs', n) /\ Commit(q, n)
<1>1. mem \in [Words -> Half2]
  BY DEF Inv, Mem
<1>2. running /\ pc > 0
  BY Zenon DEF Step, LDI, SHL, OR, XOR, CMP, SUM, JMP, JZ, KJMP, LD, ST, HALT, At
<1>3. CASE LDI \/ SHL \/ OR \/ XOR \/ CMP \/ SUM
  <2>1. Runs(pc + 1, mem)
    BY <1>3 DEF LDI, SHL, OR, XOR, CMP, SUM, At, SetReg, Goto, Op, Ran, Effect, Written,
       Following, High
  <2> QED
    BY <1>1, <1>2, <2>1
<1>4. CASE JMP
  <2>1. Runs(Text[pc].x, mem)
    BY <1>4 DEF JMP, At, Goto, Op, Ran, Effect, Written, Following
  <2> QED
    BY <1>1, <1>2, <2>1
<1>5. CASE JZ
  <2>1. Runs(IF regs[0] # W(0) THEN Text[pc].x ELSE pc + 1, mem)
    BY <1>5 DEF JZ, At, Goto, Op, Ran, Effect, Written, Following
  <2> QED
    BY <1>1, <1>2, <2>1
<1>6. CASE LD
  <2>1. CASE SetReg(Op.r, mem[Addr])
    <3>1. Runs(pc + 1, mem)
      BY <1>6, <2>1 DEF LD, At, SetReg, Goto, Op, Addr, Ran, Effect, Written, Following
    <3> QED
      BY <1>1, <1>2, <3>1
  <2>2. CASE mode = "USER" /\ ~Loadable(Addr) /\ Fault
    BY <1>2, <1>6, <2>2 DEF LD, At
  <2> QED
    BY <1>6, <2>1, <2>2 DEF LD
<1>7. CASE ST
  <2>1. CASE Commit(pc + 1, [mem EXCEPT ![Addr] = regs[Op.r]]) /\ regs' = regs
    <3> DEFINE n == [mem EXCEPT ![Addr] = regs[Op.r]]
    <3>1. At("ST") /\ regs[Op.r] \in Half2
      BY <1>7, Working DEF ST
    <3>2. n \in [Words -> Half2]
      BY <1>1, <3>1
    <3>3. Runs(pc + 1, n)
      BY <2>1, <3>1 DEF At, Op, Addr, Ran, Effect, Written, Following
    <3> QED
      BY <1>2, <3>2, <3>3
  <2>2. CASE mode = "USER" /\ ~Storable(Addr) /\ Fault
    BY <1>2, <1>7, <2>2 DEF ST, At
  <2> QED
    BY <1>7, <2>1, <2>2, Zenon DEF ST
<1>8. CASE KJMP \/ HALT
  BY <1>2, <1>8
<1> QED
  BY <1>3, <1>4, <1>5, <1>6, <1>7, <1>8, Zenon DEF Step

\* A step of task A.
LEMMA StepA ==
    ASSUME Inv, Inv', Saves(leg), Step, ~faulted, mode = "USER", OfA(leg, pc),
           Context(leg, pc, regs, mem)
    PROVE  Secure'
<1> DEFINE i == Program[leg][pc]
<1>1. i = Program[leg][pc]
  OBVIOUS
<1> HIDE DEF i
<1>2. /\ leg \in {"save", "paged"} /\ regs \in Files /\ mem \in [Words -> Half2]
      /\ pc \in Nat /\ pc > 8 /\ Text[pc] = i /\ running
      /\ \A q : OfA(leg, q) => q \in Spots(leg)
  BY <1>1, Executes, Executing, Edges, TaskAStart DEF Saves, Inv, Regs, Mem, Files, OfA, Spots
<1>3. \/ i = KJMPS /\ regs[30] = W(KDone) /\ mem[VERIFY] = Good(leg)
      \/ /\ i.op \notin {"KJMP", "HALT"}
         /\ i.op = "ST" => \E w \in IF leg = "save" THEN {VERIFY, EXIT_A} ELSE {VERIFY, HIGH_A} :
                               regs[15] = W(w)
         /\ i.op = "LD" /\ leg = "paged" => \E w \in {FLAG, HIGH_A} : regs[15] = W(w)
         /\ \A q, h, n : Ran(i, pc, regs, mem, q, h, n) => OfA(leg, q) /\ Context(leg, q, h, n)
  BY <1>1, <1>2, ARun
<1>4. CASE i = KJMPS /\ regs[30] = W(KDone) /\ mem[VERIFY] = Good(leg)
  <2>1. Text[pc].op = "KJMP"
    BY <1>2, <1>4 DEF KJMPS, I
  <2>2. KJMP
    BY <2>1, Zenon DEF Step, LDI, SHL, OR, XOR, CMP, SUM, JMP, JZ, LD, ST, HALT, At
  <2>3. /\ pc' = 1 /\ mode' = "SUPER" /\ leg' = leg /\ regs' = regs /\ mem' = mem
        /\ running' = running /\ faulted' = faulted
    BY <1>4, <2>2 DEF KJMP, fixed, W, KDone
  <2>4. Closing(leg, 1, regs, mem)
    BY <1>4 DEF Closing
  <2> QED
    BY <1>2, <2>3, <2>4 DEF Secure
<1>5. CASE /\ i.op \notin {"KJMP", "HALT"}
           /\ i.op = "ST" => \E w \in IF leg = "save" THEN {VERIFY, EXIT_A} ELSE {VERIFY, HIGH_A} :
                                 regs[15] = W(w)
           /\ i.op = "LD" /\ leg = "paged" => \E w \in {FLAG, HIGH_A} : regs[15] = W(w)
           /\ \A q, h, n : Ran(i, pc, regs, mem, q, h, n) => OfA(leg, q) /\ Context(leg, q, h, n)
  <2>1. ~(i.op = "LD" /\ ~Loadable(Addr)) /\ ~(i.op = "ST" /\ ~Storable(Addr))
    BY <1>2, <1>5, Fits DEF Addr, W
  <2>2. ~KJMP /\ ~HALT
    BY <1>2, <1>5, Zenon DEF KJMP, HALT, At
  <2>3. PICK q : \E n \in [Words -> Half2] :
           Ran(i, pc, regs, mem, q, regs', n) /\ Commit(q, n)
    BY <1>2, <2>1, <2>2, Executes
  <2>4. PICK n \in [Words -> Half2] : Ran(i, pc, regs, mem, q, regs', n) /\ Commit(q, n)
    BY <2>3
  <2>5. OfA(leg, q) /\ Context(leg, q, regs', n) /\ q \in Spots(leg)
    BY <1>2, <1>5, <2>4
  <2>6. /\ leg' = leg /\ running' = running /\ faulted' = faulted
        /\ Place' = q /\ (mode' = "USER" \/ pc' = KTick)
        /\ \A w \in Words : w # TICK_PC => mem'[w] = n[w]
    BY <2>4, <2>5, Retired
  <2>7. mem'[VERIFY] = n[VERIFY] /\ mem'[HIGH_A] = n[HIGH_A]
    BY <2>6, Places DEF Keepsakes
  <2>8. Context(leg, q, regs', mem')
    BY <2>5, <2>7, ContextAlike
  <2> QED
    BY <1>2, <2>5, <2>6, <2>8, Zenon DEF Secure
<1> QED
  BY <1>1, <1>2, <1>4, <1>5, <1>3

\* A step of task B.
LEMMA StepB ==
    ASSUME Inv, Inv', Saves(leg), Step, ~faulted, mode = "USER", OfB(leg, pc), Parked,
           Aimed(leg, pc, regs)
    PROVE  Secure'
<1> DEFINE i == Program[leg][pc]
<1>1. i = Program[leg][pc]
  OBVIOUS
<1> HIDE DEF i
<1>2. /\ leg \in {"save", "paged"} /\ regs \in Files /\ regs' \in Files /\ mem \in [Words -> Half2]
      /\ Text[pc] = i /\ running
  BY <1>1, Executes, Executing DEF Saves, Inv, Regs, Mem, Files
<1>3. First(leg) \in Nat /\ Last(leg) \in Nat /\ First(leg) > 0 /\ pc \in First(leg) .. Last(leg)
  BY <1>2, Edges DEF OfB
<1>4. CASE pc = Last(leg)
  <2>1. i = KJMPS /\ regs[30] = W(KResume)
    BY <1>1, <1>2, <1>4, BText DEF Aimed
  <2>2. Text[pc].op = "KJMP"
    BY <1>2, <2>1 DEF KJMPS, I
  <2>3. KJMP
    BY <2>2, Zenon DEF Step, LDI, SHL, OR, XOR, CMP, SUM, JMP, JZ, LD, ST, HALT, At
  <2>4. /\ pc' = KResume /\ leg' = leg /\ regs' = regs /\ mem' = mem
        /\ running' = running /\ faulted' = faulted
    BY <2>1, <2>3 DEF KJMP, fixed, W
  <2>5. Parked'
    BY <1>2, <2>4, ParkedAlike
  <2> QED
    BY <1>2, <2>4, <2>5 DEF Secure
<1>5. CASE pc # Last(leg)
  <2>1. \E q, h, n : Slices(leg, pc, i, regs, mem, q, h, n)
    <3>1. PICK q, h, n : Ran(i, pc, regs, mem, q, h, n)
      BY DEF Ran
    <3>2. Slices(leg, pc, i, regs, mem, q, h, n)
      BY <1>1, <1>2, <1>5, <3>1, BRun
    <3> QED
      BY <3>2
  <2>2. i.op \notin {"KJMP", "HALT", "LD"} /\ (i.op = "ST" => \E w \in Aims(leg) : regs[15] = W(w))
    BY <2>1 DEF Slices
  <2>3. ~(i.op = "LD" /\ ~Loadable(Addr)) /\ ~(i.op = "ST" /\ ~Storable(Addr))
    BY <1>2, <2>2, Fits DEF Addr, W
  <2>4. ~KJMP /\ ~HALT
    BY <1>2, <2>2, Zenon DEF KJMP, HALT, At
  <2>5. PICK q : \E n \in [Words -> Half2] :
           Ran(i, pc, regs, mem, q, regs', n) /\ Commit(q, n)
    BY <1>2, <2>3, <2>4, Executes
  <2>6. PICK n \in [Words -> Half2] : Ran(i, pc, regs, mem, q, regs', n) /\ Commit(q, n)
    BY <2>5
  <2>7. /\ q = pc + 1 /\ Aimed(leg, q, regs') /\ regs'[6] = regs[6] /\ regs'[7] = regs[7]
        /\ \A w \in Keepsakes : n[w] = mem[w]
    <3>1. Slices(leg, pc, i, regs, mem, q, regs', n)
      BY <1>1, <1>2, <1>5, <2>6, BRun
    <3> QED
      BY <3>1 DEF Slices
  <2>8. q \in Spots(leg) /\ OfB(leg, q)
    BY <1>3, <1>5, <2>7 DEF Spots, OfB
  <2>9. /\ leg' = leg /\ running' = running /\ faulted' = faulted
        /\ Place' = q /\ (mode' = "USER" \/ pc' = KTick)
        /\ \A w \in Words : w # TICK_PC => mem'[w] = n[w]
    BY <2>6, <2>8, Retired
  <2>10. \A w \in Keepsakes : mem'[w] = mem[w]
    BY <2>7, <2>9, Places
  <2>11. Parked'
    BY <1>2, <2>7, <2>9, <2>10, ParkedAlike
  <2> QED
    BY <1>2, <2>7, <2>8, <2>9, <2>11, Zenon DEF Secure
<1> QED
  BY <1>2, <1>3, <1>4, <1>5

\* A step on the way to the halt.
LEMMA StepDone ==
    ASSUME Inv, Inv', Saves(leg), Step, ~faulted, mode = "SUPER", pc \in 1 .. 8,
           Closing(leg, pc, regs, mem)
    PROVE  Secure'
<1> DEFINE i == Program[leg][pc]
<1>1. i = Program[leg][pc]
  OBVIOUS
<1> HIDE DEF i
<1>2. /\ leg \in {"save", "paged"} /\ regs \in Files /\ mem \in [Words -> Half2]
      /\ Text[pc] = i /\ running
  BY <1>1, Executes, Executing DEF Saves, Inv, Regs, Mem, Files
<1>3. CASE pc = 8
  <2>1. Text[pc].op = "HALT"
    BY <1>1, <1>2, <1>3, DoneListing DEF HALTS, I
  <2>2. HALT
    BY <2>1, Zenon DEF Step, LDI, SHL, OR, XOR, CMP, SUM, JMP, JZ, KJMP, LD, ST, At
  <2>3. /\ pc' = pc /\ mode' = mode /\ leg' = leg /\ regs' = regs /\ mem' = mem
        /\ faulted' = faulted
    BY <2>2 DEF HALT, fixed
  <2> QED
    BY <1>3, <2>3 DEF Secure
<1>4. CASE pc \in 1 .. 7
  <2>1. \E q, h, n : Ran(i, pc, regs, mem, q, h, n)
    BY DEF Ran
  <2>2. i.op \notin {"KJMP", "HALT"}
    BY <1>2, <1>4, <2>1, <1>1, DoneRun
  <2>3. ~KJMP /\ ~HALT
    BY <1>2, <2>2, Zenon DEF KJMP, HALT, At
  <2>4. PICK q : \E n \in [Words -> Half2] :
           Ran(i, pc, regs, mem, q, regs', n) /\ Commit(q, n)
    BY <1>2, <2>3, Executes
  <2>5. PICK n \in [Words -> Half2] : Ran(i, pc, regs, mem, q, regs', n) /\ Commit(q, n)
    BY <2>4
  <2>6. q = pc + 1 /\ Closing(leg, q, regs', n)
    BY <1>1, <1>2, <1>4, <2>5, DoneRun
  <2>7. q \in Spots(leg) /\ q \in 1 .. 8
    BY <1>2, <1>4, <2>6, Edges DEF Spots
  <2>8. /\ leg' = leg /\ running' = running /\ faulted' = faulted
        /\ mode' = "SUPER" /\ pc' = q /\ mem' = n
    BY <2>5, <2>7, Retired
  <2> QED
    BY <1>2, <2>6, <2>7, <2>8 DEF Secure
<1> QED
  BY <1>3, <1>4

\* One instruction, in any of these places.
LEMMA SecureStep ==
    ASSUME Inv, Inv', Saves(leg), Secure, Step
    PROVE  Secure'
<1>1. running /\ pc > 0
  BY Executes
<1>2. pc # KMain /\ pc # KTick /\ pc # KResume
  BY <1>1 DEF KMain, KTick, KResume
<1>3. ~faulted /\ \/ mode = "USER" /\ OfA(leg, Place) /\ Context(leg, Place, regs, mem)
                  \/ mode = "USER" /\ OfB(leg, Place) /\ Parked /\ Aimed(leg, Place, regs)
                  \/ mode = "SUPER" /\ pc \in 1 .. 8 /\ Closing(leg, pc, regs, mem)
  BY <1>2 DEF Secure
<1>4. Place = pc
  BY <1>2 DEF Place
<1> QED
  BY <1>3, <1>4, StepA, StepB, StepDone

\* What a switch makes of the registers.
LEMMA Redressed ==
    ASSUME NEW rest \in Files, NEW p, SwitchTo(p, rest)
    PROVE  /\ pc' = p /\ mode' = "USER" /\ leg' = leg /\ quantum' = quantum
           /\ running' = running /\ faulted' = faulted
           /\ \A r \in {1, 2, 5, 6, 7} : regs'[r] = rest[r]
BY DEF SwitchTo, fixed, Files, Reg

\* The handler's test is made in r13 and r0.
LEMMA TestedKeeps ==
    ASSUME regs \in Files, NEW b
    PROVE  \A r \in {1, 2, 5, 6, 7} : Tested(b)[r] = regs[r]
BY DEF Tested, Files, Reg

\* The kernel enters task A, which holds nothing yet.
LEMMA SecureMain ==
    ASSUME Inv, Saves(leg), Secure, KernelMain
    PROVE  Secure'
<1>1. /\ leg' = leg /\ pc' = TaskA /\ mode' = "USER" /\ running /\ running' = running
      /\ faulted' = faulted
  BY DEF KernelMain, Enter, fixed
<1>2. leg \in {"save", "paged"} /\ TaskA = 9 /\ First(leg) \in 39 .. 50
  BY Edges, TaskAStart DEF Saves
<1>3. OfA(leg, TaskA) /\ \A g, m : Context(leg, TaskA, g, m)
  <2>1. OfA(leg, TaskA) /\ TaskA \notin FiveAt(leg) /\ TaskA \notin ScratchAt(leg)
    BY <1>2 DEF OfA, FiveAt, ScratchAt
  <2>2. \A g, m : Own(leg, TaskA, g, m)
    BY <1>2 DEF Own, Loading
  <2> QED
    BY <1>2, <2>1, <2>2, Idle DEF Context, OfA
<1>4. Place' = TaskA
  BY <1>1, <1>2 DEF Place, KTick
<1> QED
  BY <1>1, <1>3, <1>4 DEF Secure

\* Task A is cut where it holds nothing that the switch loses.
LEMMA SecureSwitch ==
    ASSUME Inv, Inv', Quiet, Quiet', Secure, TickSwitch
    PROVE  Secure'
<1>1. /\ pc = KTick /\ ~FlagSet /\ running
      /\ mem' = [mem EXCEPT ![SAVE1] = regs[1], ![SAVE2] = regs[2],
                            ![SAVED_PC] = mem[TICK_PC],
                            ![TURN] = IF leg = "save" THEN W(1) ELSE @]
      /\ SwitchTo(TaskB, Tested(FALSE))
      /\ torn' = (torn \/ Needed(Victim) \cap Clobbered # {})
  BY DEF TickSwitch, Enter, Tear
<1>2. /\ leg \in AllLegs /\ leg \in {"save", "paged"} /\ Victim \in Spots(leg) /\ Saves(leg)
      /\ quantum >= SliceOf(leg) /\ Needed(Victim) \cap Clobbered = {}
  BY <1>1, AtEntry DEF Quiet, Saves
<1>3. TaskB = First(leg)
  BY <1>2, InTermsOfLeg
<1>4. /\ regs \in Files /\ Tested(FALSE) \in Files /\ mem \in [Words -> Half2] /\ regs' \in Files
  BY Testing DEF Inv, Regs, Mem, Files
<1>5. /\ pc' = First(leg) /\ mode' = "USER" /\ leg' = leg /\ running' /\ faulted' = faulted
      /\ \A r \in {1, 2, 5, 6, 7} : regs'[r] = regs[r]
  BY <1>1, <1>3, <1>4, Redressed, TestedKeeps
<1>6. /\ First(leg) \in 39 .. 50 /\ SliceOf(leg) \in 12 .. 21
      /\ Last(leg) = First(leg) + SliceOf(leg) + 1
  BY <1>2, Further
<1>7. ~OfB(leg, Victim)
  BY <1>1, <1>2 DEF Inv, Kept
<1>8. ~faulted /\ OfA(leg, Victim) /\ Context(leg, Victim, regs, mem)
  <2>1. Place = Victim /\ pc # KMain /\ pc # KResume /\ pc \notin 1 .. 8
    BY <1>1 DEF Place, KTick, KMain, KResume
  <2> QED
    BY <1>7, <2>1 DEF Secure
<1>9. Victim \notin FiveAt(leg) \cup ScratchAt(leg)
  BY <1>1, <1>2, Tearing
<1>10. /\ mem'[SAVED_PC] = mem[TICK_PC] /\ mem'[SAVE1] = regs[1] /\ mem'[SAVE2] = regs[2]
       /\ mem'[VERIFY] = mem[VERIFY] /\ mem'[HIGH_A] = mem[HIGH_A]
  <2>1. TURN \in Words /\ TURN \notin Keepsakes /\ Keepsakes \subseteq Words
    BY Shared, Places
  <2>2. PICK t : mem' = [mem EXCEPT ![SAVE1] = regs[1], ![SAVE2] = regs[2],
                                    ![SAVED_PC] = mem[TICK_PC], ![TURN] = t]
    BY <1>1, <1>4, <2>1
  <2>3. /\ {VERIFY, HIGH_A, SAVE1, SAVE2, SAVED_PC} \subseteq Words
        /\ TURN \notin {VERIFY, HIGH_A, SAVE1, SAVE2, SAVED_PC}
    BY <2>1 DEF Keepsakes
  <2> QED
    BY <1>4, <2>2, <2>3, Places
<1>11. Parked'
  <2> DEFINE h == [regs' EXCEPT ![1] = mem'[SAVE1], ![2] = mem'[SAVE2]]
  <2>1. h[1] = regs[1] /\ h[2] = regs[2] /\ h[6] = regs[6] /\ h[7] = regs[7]
    BY <1>4, <1>5, <1>10 DEF Files, Reg
  <2> HIDE DEF h
  <2>2. Own(leg, Victim, h, mem')
    BY <1>8, <1>10, <2>1, OwnAlike DEF Context
  <2>3. mem'[SAVED_PC][2] = Victim
    BY <1>10 DEF Victim
  <2> QED
    BY <1>5, <1>8, <1>9, <2>2, <2>3 DEF Parked, OfA, h
<1>12. OfB(leg, First(leg)) /\ Aimed(leg, First(leg), regs') /\ First(leg) # KTick
  BY <1>6 DEF OfB, Aimed, Off, KTick
<1>13. Place' = First(leg)
  BY <1>5, <1>12 DEF Place
<1> QED
  BY <1>5, <1>8, <1>11, <1>12, <1>13 DEF Secure

\* Once the flag is set, the tick changes nothing that its victim needs.
LEMMA SecureReturn ==
    ASSUME Inv, Inv', Quiet, Quiet', Secure, TickResume
    PROVE  Secure'
<1>1. /\ pc = KTick /\ FlagSet /\ running /\ mem' = mem
      /\ SwitchTo(Victim, Tested(TRUE))
      /\ torn' = (torn \/ Needed(Victim) \cap Clobbered # {})
  BY DEF TickResume, Enter, Tear
<1>2. /\ leg \in AllLegs /\ leg \in {"save", "paged"} /\ Victim \in Spots(leg) /\ Saves(leg)
      /\ quantum >= SliceOf(leg) /\ Needed(Victim) \cap Clobbered = {}
  BY <1>1, AtEntry DEF Quiet, Saves
<1>3. /\ regs \in Files /\ Tested(TRUE) \in Files /\ regs' \in Files
  BY Testing DEF Inv, Regs, Files
<1>4. /\ pc' = Victim /\ mode' = "USER" /\ leg' = leg /\ running' /\ faulted' = faulted
      /\ \A r \in {1, 2, 5, 6, 7} : regs'[r] = regs[r]
  BY <1>1, <1>3, Redressed, TestedKeeps
<1>5. /\ First(leg) \in 39 .. 50 /\ SliceOf(leg) \in 12 .. 21
      /\ Last(leg) = First(leg) + SliceOf(leg) + 1
  BY <1>2, Further
<1>6. Victim # KTick
  BY <1>2 DEF Spots, KTick
<1>7. Place = Victim /\ Place' = Victim
  <2>1. Place = Victim
    BY <1>1 DEF Place
  <2>2. Place' = Victim
    BY <1>4, <1>6 DEF Place
  <2> QED
    BY <2>1, <2>2
<1>8. ~faulted /\ \/ OfA(leg, Victim) /\ Context(leg, Victim, regs, mem)
                  \/ OfB(leg, Victim) /\ Parked
  <2>1. pc # KMain /\ pc # KResume /\ pc \notin 1 .. 8
    BY <1>1 DEF KTick, KMain, KResume
  <2> QED
    BY <1>7, <2>1 DEF Secure
<1>9. Victim \notin ScratchAt(leg) /\ Victim # Last(leg)
  BY <1>2, Tearing
<1>10. CASE OfA(leg, Victim) /\ Context(leg, Victim, regs, mem)
  <2>1. Own(leg, Victim, regs', mem)
    BY <1>4, <1>10, OwnAlike DEF Context
  <2>2. Five(leg, Victim, regs')
    BY <1>4, <1>10, FiveAlike DEF Context
  <2>3. Scratch(leg, Victim, regs')
    BY <1>2, <1>9, <1>10, Idle DEF OfA
  <2> QED
    BY <1>1, <1>4, <1>7, <1>8, <1>10, <2>1, <2>2, <2>3 DEF Secure, Context
<1>11. CASE OfB(leg, Victim) /\ Parked
  <2>1. Parked'
    BY <1>1, <1>3, <1>4, <1>11, ParkedAlike
  <2>2. ~OnWay(leg, Victim)
    BY <1>1, <1>2, <1>11 DEF Inv, Kept
  <2>3. Aimed(leg, Victim, regs')
    BY <1>2, <1>5, <1>9, <1>11, <2>2 DEF OnWay, OfB, Aimed
  <2> QED
    BY <1>4, <1>7, <1>8, <1>11, <2>1, <2>3 DEF Secure
<1> QED
  BY <1>8, <1>10, <1>11

\* What comes back is what task A was parked with.
LEMMA SecureResume ==
    ASSUME Inv, Inv', Saves(leg), Secure, ResumeTaskA
    PROVE  Secure'
<1> DEFINE p == mem[SAVED_PC][2]
<1>1. /\ pc = KResume /\ running /\ mem' = [mem EXCEPT ![TURN] = W(0)]
      /\ SwitchTo(p, Restored)
  BY DEF ResumeTaskA, Enter
<1>2. leg \in {"save", "paged"} /\ First(leg) \in 39 .. 50 /\ TaskA = 9
  BY Edges, TaskAStart DEF Saves
<1>3. ~faulted /\ Parked
  <2>1. pc # KMain /\ pc # KTick /\ pc \notin 1 .. 8 /\ mode # "USER"
    BY <1>1, AtEntry DEF KTick, KMain, KResume
  <2> QED
    BY <2>1 DEF Secure
<1>4. /\ p \in TaskA .. First(leg) - 1 /\ Own(leg, p, Restored, mem)
      /\ p \notin FiveAt(leg) \cup ScratchAt(leg)
  BY <1>3 DEF Parked, Restored
<1> HIDE DEF p
<1>5. regs \in Files /\ mem \in [Words -> Half2] /\ Restored \in Files
  <2>1. regs \in Files /\ mem \in [Words -> Half2] /\ SAVE1 \in Words /\ SAVE2 \in Words
    BY Shared DEF Inv, Regs, Mem, Files
  <2>2. Half2 \subseteq HalfWords \X (KResume .. Mixed)
    BY Halves DEF Half2, KResume
  <2> QED
    BY <2>1, <2>2 DEF Restored, Files
<1>6. /\ pc' = p /\ mode' = "USER" /\ leg' = leg /\ running' /\ faulted' = faulted
      /\ \A r \in {1, 2, 5, 6, 7} : regs'[r] = Restored[r]
  BY <1>1, <1>5, Redressed
<1>7. mem'[VERIFY] = mem[VERIFY] /\ mem'[HIGH_A] = mem[HIGH_A]
  BY <1>1, <1>5, Places DEF Keepsakes
<1>8. Context(leg, p, regs', mem')
  <2>1. Own(leg, p, regs', mem')
    BY <1>4, <1>6, <1>7, OwnAlike
  <2>2. Five(leg, p, regs') /\ Scratch(leg, p, regs')
    BY <1>2, <1>4, Idle
  <2> QED
    BY <2>1, <2>2 DEF Context
<1>9. p # KTick /\ OfA(leg, p)
  BY <1>2, <1>4 DEF KTick, OfA
<1>10. Place' = p
  BY <1>6, <1>9 DEF Place
<1> QED
  BY <1>3, <1>6, <1>8, <1>9, <1>10 DEF Secure

\* A tear is never undone, and the image is what it was.
LEMMA Steady ==
    ASSUME Inv, [Next]_vars
    PROVE  leg' = leg /\ quantum' = quantum /\ (torn => torn')
<1>1. CASE Step
  <2>1. (\E q, n : Commit(q, n)) \/ KJMP \/ HALT \/ Fault
    BY <1>1, Executes
  <2> QED
    BY <2>1 DEF Commit, KJMP, HALT, Fault, fixed
<1>2. CASE Kernel
  <2>1. CASE KernelMain \/ FaultHandler
    BY <2>1 DEF KernelMain, FaultHandler, fixed
  <2>2. CASE TickSwitch
    BY <2>2, Zenon DEF TickSwitch, Tear, SwitchTo, fixed
  <2>3. CASE TickResume
    BY <2>3, Zenon DEF TickResume, Tear, SwitchTo, fixed
  <2>4. CASE ResumeTaskA
    BY <2>4 DEF ResumeTaskA, SwitchTo, fixed
  <2>5. CASE TickTurn
    BY <2>5 DEF TickTurn, SwitchTo, fixed
  <2> QED
    BY <1>2, <2>1, <2>2, <2>3, <2>4, <2>5 DEF Kernel
<1>3. CASE UNCHANGED vars
  BY <1>3 DEF vars, fixed
<1> QED
  BY <1>1, <1>2, <1>3, Zenon DEF Next, Stopped

\* Every step keeps the context sound.
LEMMA SoundGoes == Inv /\ Sound /\ [Next]_vars => Sound'
<1> SUFFICES ASSUME Inv, Sound, [Next]_vars, Quiet' PROVE Secure'
  BY Zenon DEF Sound
<1>1. Inv'
  BY Goes
<1>2. Quiet /\ Secure /\ Saves(leg)
  <2>1. Quiet
    BY Steady, Zenon DEF Quiet
  <2> QED
    BY <2>1 DEF Quiet, Sound
<1>3. CASE Step
  BY <1>1, <1>2, <1>3, SecureStep
<1>4. CASE Kernel
  <2>1. CASE KernelMain
    BY <1>2, <2>1, SecureMain
  <2>2. CASE TickSwitch
    BY <1>1, <1>2, <2>2, SecureSwitch
  <2>3. CASE TickResume
    BY <1>1, <1>2, <2>3, SecureReturn
  <2>4. CASE ResumeTaskA
    BY <1>1, <1>2, <2>4, SecureResume
  <2>5. ~TickTurn
    BY <1>2, LegsKnown, InTermsOfLeg DEF TickTurn, Inv
  <2>6. ~FaultHandler
    <3>1. pc = KFault => mode = "SUPER" /\ pc \notin {KMain, KTick, KResume} /\ pc \notin 1 .. 8
      BY AtEntry DEF KFault, KMain, KTick, KResume
    <3> QED
      BY <1>2, <3>1 DEF Secure, FaultHandler, Enter
  <2> QED
    BY <1>4, <2>1, <2>2, <2>3, <2>4, <2>5, <2>6, Zenon DEF Kernel
<1>5. CASE UNCHANGED vars
  <2>1. /\ leg' = leg /\ quantum' = quantum /\ pc' = pc /\ mode' = mode /\ regs' = regs
        /\ mem' = mem /\ count' = count /\ running' = running /\ faulted' = faulted
        /\ slot' = slot /\ torn' = torn
    BY <1>5 DEF vars, fixed
  <2>2. Place' = Place
    BY <2>1 DEF Place, Victim
  <2>3. Parked' <=> Parked
    BY <2>1 DEF Parked
  <2> QED
    BY <1>2, <2>1, <2>2, <2>3 DEF Secure
<1> QED
  BY <1>3, <1>4, <1>5, Zenon DEF Next, Stopped

LEMMA SoundBegins == Init => Sound
BY DEF Init, Sound, Secure

\* "Task A's computation survives preemption by a task that loads other values into
\* the same registers": for every quantum that lets task B set its flag before its
\* first tick, and wherever the ticks fall, a run that ends without a torn context
\* has verified task A's values, met no fault and written the status word.
THEOREM TaskASurvives == Spec => []ContextSurvives
<1>1. Inv /\ Sound => ContextSurvives
  <2> SUFFICES ASSUME Inv, Sound, ~running, ~torn, Saving, quantum >= Slice
               PROVE  /\ mem[VERIFY] = IF leg = "save" THEN FEEDCAFE ELSE FEED0017
                      /\ ~faulted /\ mem[STATUS] = StatusOk(leg)
    BY DEF ContextSurvives
  <2>1. Quiet /\ Saves(leg)
    BY LegsKnown, InTermsOfLeg DEF Inv, Quiet
  <2>2. Secure /\ pc = 8
    BY <2>1 DEF Secure, Sound
  <2>3. /\ leg \in {"save", "paged"} /\ First(leg) > 8 /\ TaskA > 8
        /\ First(leg) \in Nat /\ TaskA \in Nat
    BY <2>1, Edges, TaskAStart DEF Saves
  <2>4. Place = pc /\ ~OfA(leg, pc) /\ ~OfB(leg, pc) /\ pc \notin {KMain, KTick, KResume}
    BY <2>2, <2>3 DEF Place, OfA, OfB, KMain, KTick, KResume
  <2>5. ~faulted /\ Closing(leg, pc, regs, mem)
    BY <2>2, <2>4 DEF Secure
  <2> QED
    BY <2>2, <2>5 DEF Closing, Good
<1> QED
  BY <1>1, Holds, SoundBegins, SoundGoes, PTL DEF Spec

===============================================================================
