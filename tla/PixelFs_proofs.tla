---------------------------- MODULE PixelFs_proofs -----------------------------
(***************************************************************************)
(* For every data an image may bring along and however often a drive is    *)
(* cut short: a slot that is in use is one that a lookup can trust, and a  *)
(* drive that runs to its end reads back, deletes, delivers or contains    *)
(* what its leg promises.                                                  *)
(***************************************************************************)
EXTENDS PixelFs, TLAPS

-------------------------------------------------------------------------------
(* The strengthening: what the stores that are still to be made may write, *)
(* and that a flag is stored behind the words it vouches for.              *)
Words == {"name0", "start0", "len0", "use0", "d0", "d1", "name1", "start1", "len1", "use1", "d2",
          "d3", "rsltA", "rsltB"}
RamWords == {"scratch0", "scratch1", "readout0", "readout1", "exitA", "exitB", "uartA", "uartB",
             "mailbox", "claimed", "fault"}
\* Fit(w, v): the kernels may write v into the word w.
Fit(w, v) ==
    /\ v \in Nat
    /\ w \in {"use0", "use1"} => v \in {0, 1}
    /\ w = "name0" => v \in {NAME_DATA, TICK_A} \/ (v = 0 /\ leg = "fs_del")
    /\ w = "name1" => v \in {0, TICK_B}
    /\ w = "start0" => v = DATA_WORD
    /\ w = "len0" => v # 0
Types ==
    /\ leg \in Legs /\ sel \in {0, 1, 2} /\ status \in {NoStatus, KERNEL_OK}
    /\ disk \in [Words -> Nat] /\ boot \in [Words -> Nat]
    /\ disk["use0"] \in {0, 1} /\ disk["use1"] \in {0, 1}
    /\ disk["name0"] \in {0, NAME_DATA, TICK_A} /\ disk["name1"] \in {0, TICK_B}
    /\ ram \in [RamWords -> Nat] /\ n \in 0 .. 8 /\ a0 \in Nat /\ a1 \in Nat /\ work \in Nat
Pending ==
    /\ todo \in Seq([word : Words, value : Nat]) /\ Len(todo) <= 12
    /\ \A i \in 1 .. Len(todo) : Fit(todo[i].word, todo[i].value)
\* The words that use0 vouches for, and the drives in which a name may be gone.
Vouched == {"name0", "start0", "len0"}
Good(w) == w \in Vouched /\ (disk[w] # 0 \/ (w = "name0" /\ leg = "fs_del"))
           /\ (w = "start0" => disk[w] = DATA_WORD)
FlagLast ==
    \A i \in 1 .. Len(todo) : todo[i] = St("use0", 1) =>
        \A w \in Vouched : Good(w) \/ \E j \in 1 .. (i - 1) : todo[j].word = w
Trusted == disk["use0"] = 1 => \A w \in Vouched : Good(w)
Called ==
    /\ ret # "ksys"
    /\ pc = "ksys" /\ n = 6 => a0 = NAME_DATA /\ a1 = FILE_BYTES
    /\ pc = "ksys" /\ n = 8 => leg = "fs_del"
Inv == Types /\ Pending /\ FlagLast /\ Trusted /\ Called

-------------------------------------------------------------------------------
(* The words and the lists of stores.                                      *)
LEMMA WordSets == PixelWords = Words /\ DOMAIN ColdRam = RamWords
BY DEF PixelWords, Blank, Words, ColdRam, RamWords

LEMMA ColdTypes == Blank \in [Words -> Nat] /\ ColdRam \in [RamWords -> Nat]
BY DEF Blank, Words, ColdRam, RamWords

LEMMA Codes ==
    /\ NAME_DATA \in Nat \ {0} /\ TICK_A \in Nat \ {0} /\ TICK_B \in Nat \ {0}
    /\ PAYLOAD0 \in Nat /\ PAYLOAD1 \in Nat /\ FAULT_SEEN \in Nat /\ MaxContent \in Nat
BY SMT DEF NAME_DATA, TICK_A, TICK_B, PAYLOAD0, PAYLOAD1, FAULT_SEEN, MaxContent

\* A claim of slot 0 stores name, start and length, then the flag.
LEMMA CreateFits ==
    ASSUME NEW x \in Nat, NEW y \in Nat
    PROVE  LET s == CreateStores(NAME_DATA, FILE_BYTES, x, y)
           IN  /\ s \in Seq([word : Words, value : Nat]) /\ Len(s) = 6
               /\ \A i \in 1 .. 6 : Fit(s[i].word, s[i].value)
               /\ s[1].word = "name0" /\ s[2].word = "start0" /\ s[3].word = "len0"
               /\ \A i \in 1 .. 3 : s[i].word # "use0"
BY Codes, SMT DEF CreateStores, St, Words, Fit, DATA_WORD, FILE_BYTES

LEMMA TicketFits ==
    LET s == TicketStores
    IN  /\ s \in Seq([word : Words, value : Nat]) /\ Len(s) = 12
        /\ \A i \in 1 .. 12 : Fit(s[i].word, s[i].value)
        /\ s[1].word = "name0" /\ s[2].word = "start0" /\ s[3].word = "len0"
        /\ \A i \in 1 .. 3 : s[i].word # "use0"
BY Codes, SMT DEF TicketStores, St, Words, Fit, DATA_WORD, A_PAYLOAD, B_PAYLOAD

\* A list that starts with name, start and length may be begun at any time.
Claims(s) ==
    /\ s \in Seq([word : Words, value : Nat]) /\ Len(s) \in {6, 12}
    /\ \A i \in 1 .. Len(s) : Fit(s[i].word, s[i].value)
    /\ s[1].word = "name0" /\ s[2].word = "start0" /\ s[3].word = "len0"
    /\ \A i \in 1 .. 3 : s[i].word # "use0"
LEMMA ClaimsFlagLast ==
    ASSUME NEW s, Claims(s), NEW i \in 1 .. Len(s), s[i].word = "use0", NEW w \in Vouched
    PROVE  \E j \in 1 .. (i - 1) : s[j].word = w
<1>1. i \in Nat /\ i > 3
  <2>1. i \in Nat \ {0} BY DEF Claims
  <2>2. i \notin 1 .. 3 BY DEF Claims
  <2>. QED BY <2>1, <2>2
<1>2. 1 \in 1 .. (i - 1) /\ 2 \in 1 .. (i - 1) /\ 3 \in 1 .. (i - 1) BY <1>1
<1>. QED BY <1>2 DEF Claims, Vouched

\* The value of a word after a list is one that the list stores there, if any.
LEMMA AfterWord ==
    ASSUME NEW d, NEW s, NEW w \in Words
    PROVE  LET S == {i \in DOMAIN s : s[i].word = w}
           IN  IF S = {} THEN After(d, s)[w] = d[w] ELSE \E i \in S : After(d, s)[w] = s[i].value
<1>. DEFINE S == {i \in DOMAIN s : s[i].word = w}
<1>1. After(d, s)[w] = IF S = {} THEN d[w] ELSE s[CHOOSE i \in S : TRUE].value
  BY WordSets DEF After
<1>2. S # {} => (CHOOSE i \in S : TRUE) \in S OBVIOUS
<1>. QED BY <1>1, <1>2

\* An image that was claimed before: its words fit, and so do name, start and length.
LEMMA AfterClaims ==
    ASSUME NEW s, Claims(s), leg \in Legs
    PROVE  LET d == After(Blank, s)
           IN  /\ d \in [Words -> Nat]
               /\ \A w \in Words : d[w] = 0 \/ Fit(w, d[w])
               /\ \A w \in Vouched : Fit(w, d[w])
<1>. DEFINE d == After(Blank, s)
<1>1. DOMAIN s = 1 .. Len(s) BY DEF Claims
<1>2. ASSUME NEW w \in Words PROVE d[w] = 0 \/ Fit(w, d[w])
  <2>1. Blank[w] = 0 BY DEF Words, Blank
  <2>2. d[w] = Blank[w] \/ \E i \in DOMAIN s : s[i].word = w /\ d[w] = s[i].value
    BY AfterWord
  <2>3. \A i \in DOMAIN s : Fit(s[i].word, s[i].value) BY <1>1 DEF Claims
  <2>. HIDE DEF d
  <2>. QED BY <2>1, <2>2, <2>3
<1>3. ASSUME NEW w \in Vouched PROVE Fit(w, d[w])
  <2>1. w \in Words /\ \E i \in DOMAIN s : s[i].word = w
    <3>1. {1, 2, 3} \subseteq DOMAIN s BY <1>1 DEF Claims
    <3>. QED BY <3>1 DEF Vouched, Words, Claims
  <2>2. \E i \in DOMAIN s : s[i].word = w /\ d[w] = s[i].value
    BY <2>1, AfterWord
  <2>3. \A i \in DOMAIN s : Fit(s[i].word, s[i].value) BY <1>1 DEF Claims
  <2>. HIDE DEF d
  <2>. QED BY <2>2, <2>3
<1>4. \A w \in Words : d[w] \in Nat BY <1>2 DEF Fit
<1>5. d = [w \in Words |-> d[w]] BY WordSets DEF After
<1>. QED BY <1>2, <1>3, <1>4, <1>5

-------------------------------------------------------------------------------
(* The initial states.                                                     *)
LEMMA Initial == Init => Inv
<1>. SUFFICES ASSUME Init PROVE Inv
  OBVIOUS
<1>1. leg \in Legs /\ boot = disk /\ todo = <<>> /\ ram = ColdRam BY DEF Init
<1>2. disk \in [Words -> Nat] /\ (\A w \in Words \ {"d0", "d1", "d2", "d3"} : disk[w] = 0 \/ Fit(w, disk[w]))
      /\ (disk["use0"] = 1 => \A w \in Vouched : Fit(w, disk[w]))
  <2>1. CASE disk = Blank
    BY <2>1, ColdTypes DEF Blank, Words
  <2>2. CASE \E c \in Contents : disk = Kept(c)
    <3>1. PICK c \in Contents : disk = Kept(c) BY <2>2
    <3>2. c \in [{"d0", "d1", "d2", "d3"} -> 1 .. MaxContent] BY ContentsAssumption
    <3>3. c["d0"] \in Nat /\ c["d1"] \in Nat /\ c["d2"] \in Nat /\ c["d3"] \in Nat BY <3>2
    <3>. DEFINE s == IF Fs THEN CreateStores(NAME_DATA, FILE_BYTES, 0, 0) ELSE TicketStores
                d == After(Blank, s)
    <3>4. Claims(s) BY CreateFits, TicketFits DEF Claims
    <3>5. /\ d \in [Words -> Nat] /\ \A w \in Words : d[w] = 0 \/ Fit(w, d[w])
          /\ \A w \in Vouched : Fit(w, d[w])
      BY <1>1, <3>4, AfterClaims
    <3>6. disk \in [Words -> Nat]
          /\ \A w \in Words \ {"d0", "d1", "d2", "d3"} : disk[w] = d[w]
      <4>. HIDE DEF d
      <4>1. disk = IF Fs THEN [d EXCEPT !["d0"] = c["d0"], !["d1"] = c["d1"]]
                   ELSE [d EXCEPT !["d0"] = c["d0"], !["d1"] = c["d1"], !["d2"] = c["d2"],
                                  !["d3"] = c["d3"]]
        BY <3>1 DEF Kept, d
      <4>2. CASE Fs BY <4>1, <4>2, <3>3, <3>5 DEF Words
      <4>3. CASE ~Fs BY <4>1, <4>3, <3>3, <3>5 DEF Words
      <4>. QED BY <4>2, <4>3
    <3>. QED BY <3>5, <3>6 DEF Vouched, Words
  <2>. QED BY <2>1, <2>2 DEF Init
<1>3. Types
  <2>1. /\ disk["use0"] \in {0, 1} /\ disk["use1"] \in {0, 1}
        /\ disk["name0"] \in {0, NAME_DATA, TICK_A} /\ disk["name1"] \in {0, TICK_B}
    BY <1>2 DEF Fit, Words
  <2>2. boot \in [Words -> Nat] /\ ram \in [RamWords -> Nat] BY <1>1, <1>2, ColdTypes
  <2>. QED BY <1>1, <1>2, <2>1, <2>2 DEF Init, Types
<1>4. Trusted
  BY <1>2, Codes, SMT DEF Trusted, Good, Fit, Vouched, DATA_WORD
<1>. QED BY <1>1, <1>3, <1>4 DEF Init, Inv, Pending, FlagLast, Called

-------------------------------------------------------------------------------
(* The steps.                                                              *)
\* One store of a pending list.
LEMMA StoreStep ==
    ASSUME Inv, Store
    PROVE  Inv'
<1>. DEFINE h == Head(todo)
<1>1. todo # <<>> /\ todo' = Tail(todo) /\ disk' = [disk EXCEPT ![h.word] = h.value]
      /\ UNCHANGED <<leg, pc, ret, n, a0, a1, work, sel, ram, status, boot>>
  BY DEF Store, cpu
<1>2. /\ Len(todo) \in Nat \ {0} /\ h = todo[1] /\ h \in [word : Words, value : Nat]
      /\ Fit(h.word, h.value) /\ Len(todo') = Len(todo) - 1
      /\ \A i \in 1 .. Len(todo') : todo'[i] = todo[i + 1]
      /\ todo' \in Seq([word : Words, value : Nat])
  <2>. DEFINE T == [word : Words, value : Nat]
  <2>0. todo \in Seq(T) /\ \A i \in 1 .. Len(todo) : Fit(todo[i].word, todo[i].value)
    BY DEF Inv, Pending
  <2>. HIDE DEF T
  <2>1. Len(todo) \in Nat \ {0} /\ h = todo[1] BY <1>1, <2>0
  <2>2. h \in T /\ Fit(h.word, h.value) BY <2>0, <2>1
  <2>3. todo' \in Seq(T) /\ Len(todo') = Len(todo) - 1 BY <1>1, <2>0, <2>1
  <2>4. \A i \in 1 .. Len(todo') : todo'[i] = todo[i + 1] BY <1>1, <2>0, <2>1, <2>3
  <2>. QED BY <2>1, <2>2, <2>3, <2>4 DEF T
<1>3. /\ h.word \in Words /\ h.value \in Nat
      /\ \A w \in Words : disk'[w] = IF w = h.word THEN h.value ELSE disk[w]
      /\ disk' \in [Words -> Nat]
  <2>. HIDE DEF h
  <2>1. h.word \in Words /\ h.value \in Nat BY <1>2
  <2>. QED BY <1>1, <2>1 DEF Inv, Types
<1>4. Types'
  BY <1>1, <1>2, <1>3 DEF Inv, Types, Fit, Words
<1>5. Pending'
  BY <1>1, <1>2 DEF Inv, Pending, Fit
<1>6. ASSUME NEW w \in Vouched, Good(w) \/ w = h.word PROVE Good(w)'
  BY <1>1, <1>2, <1>3, <1>6, Codes, SMT DEF Good, Fit, Vouched, Words, DATA_WORD
<1>7. Trusted'
  <2>. SUFFICES ASSUME disk'["use0"] = 1, NEW w \in Vouched PROVE Good(w)'
    BY DEF Trusted
  <2>1. CASE h.word = "use0"
    <3>1. h = St("use0", 1) BY <1>2, <1>3, <2>1 DEF St, Words
    <3>2. Good(w) \/ \E j \in 1 .. (1 - 1) : todo[j].word = w BY <1>2, <3>1 DEF Inv, FlagLast
    <3>. QED BY <1>6, <3>2
  <2>2. CASE h.word # "use0"
    <3>1. disk["use0"] = 1 BY <1>3, <2>2 DEF Words
    <3>. QED BY <1>6, <3>1 DEF Inv, Trusted
  <2>. QED BY <2>1, <2>2
<1>8. FlagLast'
  <2>. SUFFICES ASSUME NEW i \in 1 .. Len(todo'), todo'[i] = St("use0", 1), NEW w \in Vouched
               PROVE  Good(w)' \/ \E j \in 1 .. (i - 1) : todo'[j].word = w
    BY DEF FlagLast, St
  <2>1. i + 1 \in 1 .. Len(todo) /\ todo[i + 1] = St("use0", 1) BY <1>2
  <2>2. Good(w) \/ \E j \in 1 .. ((i + 1) - 1) : todo[j].word = w BY <2>1 DEF Inv, FlagLast
  <2>3. CASE Good(w) BY <1>6, <2>3
  <2>4. ASSUME NEW j \in 1 .. ((i + 1) - 1), todo[j].word = w
        PROVE  Good(w)' \/ \E k \in 1 .. (i - 1) : todo'[k].word = w
    <3>1. CASE j = 1 BY <1>2, <1>6, <2>4, <3>1
    <3>2. CASE j # 1
      <4>1. j - 1 \in 1 .. (i - 1) /\ j - 1 \in 1 .. Len(todo') /\ (j - 1) + 1 = j
        BY <1>2, <3>2
      <4>2. todo'[j - 1].word = w BY <1>2, <2>4, <4>1
      <4>. QED BY <4>1, <4>2
    <3>. QED BY <3>1, <3>2
  <2>. QED BY <2>2, <2>3, <2>4
<1>9. Called' BY <1>1 DEF Inv, Called
<1>. QED BY <1>4, <1>5, <1>7, <1>8, <1>9 DEF Inv

\* A step that stores nothing yet.
LEMMA QuietStep ==
    ASSUME Inv, UNCHANGED <<leg, disk, todo>>, Types', Called'
    PROVE  Inv'
BY DEF Inv, Pending, Fit, FlagLast, Good, Trusted

\* A step that begins a list of stores: a claim, or one that raises no flag.
LEMMA BeginStep ==
    ASSUME Inv, UNCHANGED <<leg, disk>>, Types', Called', Pending',
           \/ Claims(todo')
           \/ \A i \in 1 .. Len(todo') : todo'[i] # St("use0", 1)
    PROVE  Inv'
<1>1. Trusted' BY DEF Inv, Trusted, Good
<1>2. FlagLast'
  <2>1. CASE Claims(todo')
    <3>. SUFFICES ASSUME NEW i \in 1 .. Len(todo'), todo'[i] = St("use0", 1), NEW w \in Vouched
                 PROVE  \E j \in 1 .. (i - 1) : todo'[j].word = w
      BY DEF FlagLast, St
    <3>1. todo'[i].word = "use0" BY DEF St
    <3>. QED BY <2>1, <3>1, ClaimsFlagLast
  <2>2. CASE \A i \in 1 .. Len(todo') : todo'[i] # St("use0", 1)
    BY <2>2 DEF FlagLast, St
  <2>. QED BY <2>1, <2>2
<1>. QED BY <1>1, <1>2 DEF Inv

\* A list is pending when each of its stores fits.
LEMMA ListPending ==
    ASSUME todo' \in Seq([word : Words, value : Nat]), Len(todo') <= 12, leg' = leg,
           \A i \in 1 .. Len(todo') : Fit(todo'[i].word, todo'[i].value)
    PROVE  Pending'
<1>1. ASSUME NEW w, NEW v, Fit(w, v) PROVE Fit(w, v)' BY <1>1 DEF Fit
<1>2. \A i \in 1 .. Len(todo') : Fit(todo[i].word, todo[i].value)' BY <1>1
<1>. QED BY <1>2 DEF Pending
LEMMA ClaimsPending ==
    ASSUME Claims(todo'), leg' = leg
    PROVE  Pending'
<1>0. Len(todo') \in {6, 12} BY Zenon DEF Claims
<1>2. \A k \in {6, 12} : k <= 12 OBVIOUS
<1>1. Len(todo') <= 12 BY <1>0, <1>2
<1>. QED BY <1>1, ListPending DEF Claims

\* The host: begin a drive, and end it wherever it is.
LEMMA HostStep ==
    ASSUME Inv, Host
    PROVE  Inv'
<1>1. ASSUME NEW s \in {0, 1, 2}, Drive(s) PROVE Inv'
  <2>1. Types' /\ Called' BY <1>1 DEF Drive, Inv, Types, Called, cpu
  <2>. QED BY <1>1, <2>1, QuietStep DEF Drive
<1>2. CASE EndDrive
  <2>1. Types' /\ Called' BY <1>2, ColdTypes DEF EndDrive, Inv, Types, Called
  <2>2. Pending' BY <1>2 DEF EndDrive, Pending
  <2>. QED BY <1>2, <2>1, <2>2, BeginStep DEF EndDrive
<1>. QED BY <1>1, <1>2 DEF Host

\* The tasks stage RAM words and trap.
LEMMA TaskStep ==
    ASSUME Inv, FsTasks \/ Agents
    PROVE  Inv'
<1>1. UNCHANGED <<leg, disk, todo>>
  BY DEF FsTasks, FsTaskA, FsExitA, FsDispatch, FsTaskB, FsExitB, FsReread, Agents, AgentA, WorkA,
         AgentExitA, AgentB, WorkB, CombineB, AgentExitB, Trap, Go, Still, FaultVector
<1>2. Types' /\ Called'
  <2>. USE Codes DEF Inv, Types, Called, Trap, Go, Still, FaultVector, cpu, RamWords, FILE_BYTES
  <2>1. CASE FsTaskA
    <3>2. CASE Faulty BY <2>1, <3>2 DEF FsTaskA
    <3>3. CASE ~Faulty
      <4>0. ram' = [ram EXCEPT !.scratch0 = PAYLOAD0, !.scratch1 = PAYLOAD1]
        BY <2>1, <3>3 DEF FsTaskA
      <4>1. ret' = "exitA" /\ n' = 6 /\ a0' = NAME_DATA /\ a1' = FILE_BYTES /\ work' = work
            /\ UNCHANGED <<leg, sel, boot, disk, status>>
        BY <2>1, <3>3 DEF FsTaskA
      <4>2. ram' \in [RamWords -> Nat] BY <4>0
      <4>. QED BY <4>1, <4>2
    <3>. QED BY <3>2, <3>3
  <2>2. CASE FsExitA BY <2>2 DEF FsExitA
  <2>3. CASE FsDispatch BY <2>3 DEF FsDispatch
  <2>4. CASE FsTaskB BY <2>4 DEF FsTaskB
  <2>5. CASE FsExitB BY <2>5 DEF FsExitB
  <2>6. CASE FsReread BY <2>6 DEF FsReread
  <2>7. CASE AgentA BY <2>7 DEF AgentA
  <2>8. CASE WorkA BY <2>8 DEF WorkA
  <2>9. CASE AgentExitA BY <2>9 DEF AgentExitA
  <2>10. CASE AgentB BY <2>10 DEF AgentB
  <2>11. CASE WorkB BY <2>11 DEF WorkB
  <2>12. CASE CombineB BY <2>12 DEF CombineB
  <2>13. CASE AgentExitB BY <2>13 DEF AgentExitB
  <2>. QED
    BY <2>1, <2>2, <2>3, <2>4, <2>5, <2>6, <2>7, <2>8, <2>9, <2>10, <2>11, <2>12, <2>13
    DEF FsTasks, Agents
<1>. QED BY <1>1, <1>2, QuietStep

\* The kernel: seeding, the system calls, the handlers.
LEMMA KernelStep ==
    ASSUME Inv, Kernel
    PROVE  Inv'
<1>. USE DEF Served, At
<1>1. CASE Store BY <1>1, StoreStep
<1>2. CASE Seed
  <2>1. Types' /\ Called'
    BY <1>2 DEF Seed, Still, cpu, Inv, Types, Called
  <2>2. UNCHANGED <<leg, disk>> /\ (todo' = <<>> \/ todo' = TicketStores)
    BY <1>2 DEF Seed, Still
  <2>3. CASE todo' = <<>>
    <3>1. Pending' BY <2>3 DEF Pending
    <3>. QED BY <2>1, <2>2, <2>3, <3>1, BeginStep
  <2>4. CASE todo' = TicketStores
    <3>1. Claims(todo') BY <2>4, TicketFits DEF Claims
    <3>2. Pending' BY <2>2, <3>1, ClaimsPending
    <3>. QED BY <2>1, <2>2, <3>1, <3>2, BeginStep
  <2>. QED BY <2>2, <2>3, <2>4
<1>3. CASE SysCreate
  <2>1. Types' /\ Called' /\ UNCHANGED <<leg, disk>>
    BY <1>3 DEF SysCreate, Reply, Still, Inv, Types, Called
  <2>2. a0 = NAME_DATA /\ a1 = FILE_BYTES BY <1>3 DEF SysCreate, Inv, Called
  <2>3. ram.scratch0 \in Nat /\ ram.scratch1 \in Nat BY DEF Inv, Types, RamWords
  <2>4. \/ todo' = <<>>
        \/ todo' = CreateStores(NAME_DATA, FILE_BYTES, ram.scratch0, ram.scratch1)
    BY <1>3, <2>2 DEF SysCreate, StoresOfCreate
  <2>5. CASE todo' = <<>>
    <3>1. Pending' BY <2>5 DEF Pending
    <3>. QED BY <2>1, <2>5, <3>1, BeginStep
  <2>6. CASE todo' = CreateStores(NAME_DATA, FILE_BYTES, ram.scratch0, ram.scratch1)
    <3>1. Claims(todo') BY <2>3, <2>6, CreateFits DEF Claims
    <3>2. Pending' BY <2>1, <3>1, ClaimsPending
    <3>. QED BY <2>1, <3>1, <3>2, BeginStep
  <2>. QED BY <2>4, <2>5, <2>6
<1>4. CASE SysDelete
  <2>1. Types' /\ Called' /\ UNCHANGED <<leg, disk>> /\ leg = "fs_del"
    BY <1>4 DEF SysDelete, Reply, Still, Inv, Types, Called
  <2>2. \/ todo' = <<>>
        \/ todo' = <<St("name0", 0), St("use0", 0)>>
        \/ todo' = <<St("name1", 0), St("use1", 0)>>
    BY <1>4 DEF SysDelete, StoresOfDelete, Found
  <2>3. Pending'
    <3>1. CASE todo' = <<>> BY <3>1 DEF Pending
    <3>2. CASE todo' = <<St("name0", 0), St("use0", 0)>>
      <4>1. todo' \in Seq([word : Words, value : Nat]) /\ Len(todo') = 2
        BY <3>2 DEF St, Words
      <4>2. Fit(todo'[1].word, todo'[1].value) /\ Fit(todo'[2].word, todo'[2].value)
        BY <2>1, <3>2 DEF St, Fit
      <4>. QED BY <2>1, <4>1, <4>2, ListPending
    <3>3. CASE todo' = <<St("name1", 0), St("use1", 0)>>
      <4>1. todo' \in Seq([word : Words, value : Nat]) /\ Len(todo') = 2
        BY <3>3 DEF St, Words
      <4>2. Fit(todo'[1].word, todo'[1].value) /\ Fit(todo'[2].word, todo'[2].value)
        BY <2>1, <3>3 DEF St, Fit
      <4>. QED BY <2>1, <4>1, <4>2, ListPending
    <3>. QED BY <2>2, <3>1, <3>2, <3>3
  <2>4. \A i \in 1 .. Len(todo') : todo'[i] # St("use0", 1) BY <2>2 DEF St
  <2>. QED BY <2>1, <2>3, <2>4, BeginStep
<1>5. CASE SysSignal
  <2>1. Types' /\ Called' /\ UNCHANGED <<leg, disk>>
    BY <1>5 DEF SysSignal, Reply, Still, Inv, Types, Called, RamWords
  <2>2. todo' = <<St("rsltA", a0)>> \/ todo' = <<St("rsltB", a0)>>
    BY <1>5 DEF SysSignal
  <2>3. Pending'
    <3>1. a0 \in Nat BY DEF Inv, Types
    <3>2. todo' \in Seq([word : Words, value : Nat]) /\ Len(todo') = 1
      <4>1. St("rsltA", a0) \in [word : Words, value : Nat]
            /\ St("rsltB", a0) \in [word : Words, value : Nat]
        BY <3>1 DEF St, Words
      <4>2. \A T : \A x \in T : <<x>> \in Seq(T) /\ Len(<<x>>) = 1 OBVIOUS
      <4>. QED BY <2>2, <4>1, <4>2
    <3>3. Fit(todo'[1].word, todo'[1].value) BY <2>2, <3>1 DEF St, Fit
    <3>. QED BY <2>1, <3>2, <3>3, ListPending
  <2>4. \A i \in 1 .. Len(todo') : todo'[i] # St("use0", 1) BY <2>2 DEF St
  <2>. QED BY <2>1, <2>3, <2>4, BeginStep
<1>6. CASE SysRead \/ SysClaim \/ SysRecv
  <2>1. UNCHANGED <<leg, disk, todo>>
    BY <1>6 DEF SysRead, SysClaim, SysRecv, NoStore, Reply, Still
  <2>2. DataFound[1] \in Nat /\ DataFound[2] \in Nat /\ Inbox \in Nat
    BY DEF DataFound, Inbox, Inv, Types, Words
  <2>3. ReadOut(DataFound) \in [RamWords -> Nat] /\ ReadOut(<<Err, 0>>) \in [RamWords -> Nat]
    <3>. HIDE DEF DataFound
    <3>1. ASSUME NEW d, d[1] \in Nat, d[2] \in Nat PROVE ReadOut(d) \in [RamWords -> Nat]
      BY <3>1 DEF ReadOut, Inv, Types, RamWords
    <3>2. <<Err, 0>>[1] \in Nat /\ <<Err, 0>>[2] \in Nat BY DEF Err
    <3>. QED BY <2>2, <3>1, <3>2
  <2>4. ram' \in [RamWords -> Nat]
    <3>1. CASE SysRead BY <2>3, <3>1 DEF SysRead
    <3>2. CASE SysClaim
      <4>1. ram \in [RamWords -> Nat] BY DEF Inv, Types
      <4>2. [ram EXCEPT !.claimed = Err] \in [RamWords -> Nat] BY <4>1 DEF Err, RamWords
      <4>3. [ReadOut(DataFound) EXCEPT !.claimed = Ok] \in [RamWords -> Nat]
        BY <2>3 DEF Ok, RamWords
      <4>. QED BY <3>2, <4>2, <4>3 DEF SysClaim
    <3>3. CASE SysRecv BY <2>2, <3>3 DEF SysRecv, Inv, Types, RamWords
    <3>. QED BY <1>6, <3>1, <3>2, <3>3
  <2>5. UNCHANGED <<ret, n, a1, work, status, sel, boot>> /\ pc' = "sysret" /\ a0' \in Nat
    BY <1>6 DEF SysRead, SysClaim, SysRecv, Reply, Still, FILE_BYTES
  <2>6. Types' /\ Called'
    BY <2>1, <2>4, <2>5 DEF Inv, Types, Called
  <2>. QED BY <2>1, <2>6, QuietStep
<1>7. CASE Sysret \/ FaultHandler \/ DoneTail
  <2>1. UNCHANGED <<leg, disk, todo>>
    BY <1>7 DEF Sysret, FaultHandler, DoneTail, Go, Still
  <2>2. Types' /\ Called'
    <3>1. CASE Sysret
      <4>1. UNCHANGED <<ret, n, a0, a1, work, ram, status, sel, boot>> /\ pc' = ret
        BY <3>1 DEF Sysret, Still, cpu
      <4>. QED BY <2>1, <4>1 DEF Inv, Types, Called
    <3>2. CASE FaultHandler
      BY <3>2, Codes DEF FaultHandler, Go, Still, cpu, Inv, Types, Called, RamWords
    <3>3. CASE DoneTail
      BY <3>3 DEF DoneTail, Still, cpu, Inv, Types, Called
    <3>. QED BY <1>7, <3>1, <3>2, <3>3
  <2>. QED BY <2>1, <2>2, QuietStep
<1>. QED BY <1>1, <1>2, <1>3, <1>4, <1>5, <1>6, <1>7 DEF Kernel

LEMMA Inductive == Inv /\ [Next]_vars => Inv'
<1>. SUFFICES ASSUME Inv, [Next]_vars PROVE Inv'
  OBVIOUS
<1>1. CASE UNCHANGED vars
  <2>1. UNCHANGED <<leg, disk, todo>> /\ Types' /\ Called'
    BY <1>1 DEF vars, cpu, Inv, Types, Called
  <2>. QED BY <2>1, QuietStep
<1>. QED BY <1>1, HostStep, TaskStep, KernelStep DEF Next

\* What is still to be stored is at every step what Inv says of it.
THEOREM Invariance == Spec => []Inv
BY Initial, Inductive, PTL DEF Spec

-------------------------------------------------------------------------------
(* Whole drives.  A block is over for its task before its stores are made: *)
(* what a label says of the pixels it says of what they will hold once the *)
(* list is empty, and a store keeps that.                                  *)
Will(w, v) ==
    /\ \A i \in 1 .. Len(todo) : todo[i].word = w => todo[i].value = v
    /\ disk[w] = v \/ \E i \in 1 .. Len(todo) : todo[i].word = w
Keeps(w) == \A i \in 1 .. Len(todo) : todo[i].word # w
\* The label at which the task goes on: SYSRET leads there.
Pos == IF pc = "sysret" THEN ret ELSE pc
Fresh == disk = boot /\ todo = <<>>
Parked ==
    /\ pc = "off" => Fresh /\ ram = ColdRam
    /\ pc \in {"ksys", "sysret"} => ret # "off"
    /\ pc = "halted" => todo = <<>>

\* The file that GH-8's task A leaves: the image's own, or the payload.
Bytes0 == IF boot["use0"] = 1 THEN boot["d0"] ELSE PAYLOAD0
Bytes1 == IF boot["use0"] = 1 THEN boot["d1"] ELSE PAYLOAD1
Filed == Will("name0", NAME_DATA) /\ Will("d0", Bytes0) /\ Will("d1", Bytes1)
Staged == ram["scratch0"] = PAYLOAD0 /\ ram["scratch1"] = PAYLOAD1
Echoed == ram["readout0"] = Bytes0 /\ ram["readout1"] = Bytes1 /\ a0 = FILE_BYTES
Gone == Will("name0", 0) /\ Will("use0", 0)
AExit == ram["exitA"] = 6
\* What GH-8's tasks may rely on at each of their labels.
FilePlan ==
    /\ Pos \in {"off", "taskA", "exitA", "ksys", "dispatch", "taskB", "exitB", "reread", "done",
                "halted"}
    /\ pc = "sysret" => ret \in {"exitA", "exitB", "reread", "done"}
    /\ pc = "taskA" => Fresh
    /\ pc = "ksys" =>
         \/ ret = "exitA" /\ n = 6 /\ a0 = NAME_DATA /\ a1 = FILE_BYTES /\ Fresh /\ Staged
         \/ ret = "exitB" /\ n = 7 /\ a0 = NAME_DATA /\ Filed /\ AExit
         \/ ret = "reread" /\ n = 8 /\ a0 = NAME_DATA /\ Filed /\ leg = "fs_del"
         \/ ret = "done" /\ n = 7 /\ a0 = NAME_DATA /\ Gone /\ leg = "fs_del"
    /\ Pos = "exitA" => Filed
    /\ Pos \in {"dispatch", "taskB"} => Filed /\ AExit
    /\ Pos = "exitB" => Filed /\ AExit /\ Echoed
    /\ Pos = "reread" => Gone /\ leg = "fs_del"
    /\ Pos \in {"done", "halted"} =>
         IF leg = "fs" THEN Echoed /\ AExit /\ ram["exitB"] = 7
         ELSE Gone /\ ram["readout0"] = Err /\ a0 = 0
FileStory == leg \in {"fs", "fs_del"} /\ Whole(boot) => FilePlan

\* What GH-14's agent B may rely on.
Ticketed == Will("name1", TICK_B) /\ Will("rsltA", boot["rsltA"])
Claimed == ram["claimed"] = Ok /\ todo = <<>>
Sum == 3 * disk["d2"] + boot["rsltA"]
Signed == ram["claimed"] = Ok /\ ram["uartB"] = Sum /\ Will("rsltB", Sum) /\ Keeps("d2")
AgentPlan ==
    /\ Pos \in {"off", "seed", "taskB", "ksys", "workB", "combineB", "exitB", "done", "halted"}
    /\ pc = "sysret" => ret \in {"workB", "combineB", "exitB"}
    /\ pc = "seed" => Fresh
    /\ pc = "taskB" => Ticketed
    /\ pc = "ksys" =>
         \/ ret = "workB" /\ n = 2 /\ a0 = TICK_B /\ Ticketed
         \/ ret = "combineB" /\ n = 4 /\ Claimed /\ Ticketed /\ work = 3 * disk["d2"]
         \/ /\ ret = "exitB" /\ n = 3 /\ a1 = 1 /\ Claimed
            /\ a0 = Sum /\ ram["uartB"] = Sum
    /\ Pos = "workB" => Claimed /\ Ticketed /\ ram["readout0"] = disk["d2"]
    /\ Pos = "combineB" => Claimed /\ work = 3 * disk["d2"] /\ ram["readout0"] = boot["rsltA"]
    /\ Pos = "exitB" => Signed
    /\ Pos \in {"done", "halted"} => Signed /\ ram["exitB"] = 2
AgentStory == leg \in {"tickets", "tickets_fault"} /\ sel = 2 /\ Whole(boot) => AgentPlan

\* A task whose first store leaves its box gets no further than the handler.
FaultPlan ==
    /\ pc \in {"off", "seed", "taskA", "fault", "done", "halted"}
    /\ ram["exitA"] = 0 /\ ram["exitB"] = 0 /\ Will("rsltA", boot["rsltA"])
    /\ pc \in {"done", "halted"} => ram["fault"] = FAULT_SEEN
    /\ leg = "fs_fault" => Fresh
    /\ pc = "seed" => Fresh /\ leg # "fs_fault"
FaultStory == leg = "fs_fault" \/ (leg = "tickets_fault" /\ sel # 2) => FaultPlan

Stories == Parked /\ FileStory /\ AgentStory /\ FaultStory

-------------------------------------------------------------------------------
(* Stores that are made, and steps that make none.                         *)
\* A store changes the image and the list only, and only when there is a list.
LEMMA StoreFrame ==
    ASSUME Inv, Store
    PROVE  /\ UNCHANGED <<leg, pc, ret, n, a0, a1, work, sel, ram, status, boot>>
           /\ todo # <<>>
           /\ Len(todo) \in Nat \ {0} /\ Len(todo') = Len(todo) - 1
           /\ \A i \in 1 .. Len(todo') : todo'[i] = todo[i + 1]
           /\ \A w \in Words : disk'[w] = IF w = todo[1].word THEN todo[1].value ELSE disk[w]
<1>. DEFINE T == [word : Words, value : Nat]
<1>1. todo # <<>> /\ todo' = Tail(todo) /\ disk' = [disk EXCEPT ![Head(todo).word] = Head(todo).value]
      /\ UNCHANGED <<leg, pc, ret, n, a0, a1, work, sel, ram, status, boot>>
  BY DEF Store, cpu
<1>2. todo \in Seq(T) /\ disk \in [Words -> Nat] BY DEF Inv, Types, Pending
<1>. HIDE DEF T
<1>3. Len(todo) \in Nat \ {0} /\ Head(todo) = todo[1] BY <1>1, <1>2
<1>4. Len(todo') = Len(todo) - 1 BY <1>1, <1>2, <1>3
<1>5. \A i \in 1 .. Len(todo') : todo'[i] = todo[i + 1] BY <1>1, <1>2, <1>3, <1>4
<1>6. \A w \in Words : disk'[w] = IF w = todo[1].word THEN todo[1].value ELSE disk[w]
  BY <1>1, <1>2, <1>3
<1>. QED BY <1>1, <1>3, <1>4, <1>5, <1>6

\* What a word will hold once the list is empty, it will hold after one store as well.
LEMMA StoreWill ==
    ASSUME Inv, Store, NEW w \in Words, NEW v, Will(w, v)
    PROVE  /\ \A i \in 1 .. Len(todo') : todo'[i].word = w => todo'[i].value = v
           /\ disk'[w] = v \/ \E i \in 1 .. Len(todo') : todo'[i].word = w
<1>1. \A i \in 1 .. Len(todo') : i + 1 \in 1 .. Len(todo) /\ todo'[i] = todo[i + 1]
  BY StoreFrame
<1>2. \A i \in 1 .. Len(todo') : todo'[i].word = w => todo'[i].value = v
  BY <1>1 DEF Will
<1>3. CASE todo[1].word = w
  <2>1. todo[1].value = v /\ disk'[w] = todo[1].value BY <1>3, StoreFrame DEF Will
  <2>. QED BY <1>2, <2>1
<1>4. CASE todo[1].word # w /\ disk[w] = v
  BY <1>2, <1>4, StoreFrame
<1>5. ASSUME NEW i \in 1 .. Len(todo), todo[i].word = w, i # 1
      PROVE  \E j \in 1 .. Len(todo') : todo'[j].word = w
  <2>1. i - 1 \in 1 .. Len(todo') /\ (i - 1) + 1 = i BY <1>5, StoreFrame
  <2>2. todo'[i - 1].word = w BY <1>1, <1>5, <2>1
  <2>. QED BY <2>1, <2>2
<1>. QED BY <1>2, <1>3, <1>4, <1>5 DEF Will

LEMMA StoreKeeps ==
    ASSUME Inv, Store, NEW w \in Words, Keeps(w)
    PROVE  (\A i \in 1 .. Len(todo') : todo'[i].word # w) /\ disk'[w] = disk[w]
<1>1. \A i \in 1 .. Len(todo') : i + 1 \in 1 .. Len(todo) /\ todo'[i] = todo[i + 1]
  BY StoreFrame
<1>2. todo[1].word # w BY StoreFrame DEF Keeps
<1>. QED BY <1>1, <1>2, StoreFrame DEF Keeps

\* With an empty list the pixels hold what they will hold.
LEMMA WillNow ==
    ASSUME todo = <<>>, NEW w, NEW v
    PROVE  Will(w, v) <=> disk[w] = v
BY DEF Will

\* What the other steps leave alone.
LEMMA FileFrame ==
    ASSUME UNCHANGED <<disk, todo, boot>>
    PROVE  (Filed' <=> Filed) /\ (Gone' <=> Gone) /\ (Fresh' <=> Fresh)
           /\ Bytes0' = Bytes0 /\ Bytes1' = Bytes1
BY DEF Filed, Gone, Fresh, Bytes0, Bytes1, Will

\* Neither the host nor a task, a handler or a store changes the leg; none but the
\* host changes what the drive began with.
LEMMA DriveFrame ==
    ASSUME Next
    PROVE  leg' = leg /\ (~Host => UNCHANGED <<sel, boot>>)
BY DEF Next, Host, Drive, EndDrive, FsTasks, FsTaskA, FsExitA, FsDispatch, FsTaskB, FsExitB,
   FsReread, Agents, AgentA, WorkA, AgentExitA, AgentB, WorkB, CombineB, AgentExitB, Trap, Go,
   Still, FaultVector, Kernel, Seed, Store, SysCreate, SysRead, SysDelete, SysClaim, SysSignal,
   SysRecv, Sysret, FaultHandler, DoneTail, Reply, cpu

\* Between drives nothing is left but the image.
LEMMA ParkedStep ==
    ASSUME Inv, Parked, Next
    PROVE  Parked'
<1>1. CASE Host BY <1>1 DEF Host, Drive, EndDrive, Parked, Fresh
<1>2. CASE FsTasks \/ Agents
  BY <1>2 DEF Parked, Fresh, FsTasks, FsTaskA, FsExitA, FsDispatch, FsTaskB, FsExitB, FsReread,
     Agents, AgentA, WorkA, AgentExitA, AgentB, WorkB, CombineB, AgentExitB, Trap, Go, FaultVector
<1>3. CASE Kernel
  <2>1. CASE Store
    <3>1. todo # <<>> /\ pc' = pc /\ ret' = ret BY <2>1, StoreFrame
    <3>. QED BY <3>1 DEF Parked, Fresh
  <2>2. CASE Sysret BY <2>2 DEF Sysret, Parked, Fresh, At, cpu
  <2>3. CASE Kernel /\ ~Store /\ ~Sysret
    <3>1. pc' \in {"taskA", "taskB", "sysret", "done", "halted"}
          /\ (pc' = "sysret" => pc = "ksys" /\ ret' = ret)
          /\ (pc' = "halted" => todo' = <<>>)
      BY <2>3 DEF Kernel, Seed, SysCreate, SysRead, SysDelete, SysClaim, SysSignal, SysRecv,
         FaultHandler, DoneTail, Reply, Served, At, Go
    <3>. QED BY <3>1 DEF Parked
  <2>. QED BY <1>3, <2>1, <2>2, <2>3
<1>. QED BY <1>1, <1>2, <1>3 DEF Next

-------------------------------------------------------------------------------
(* GH-8, whole drives.                                                     *)
\* A store keeps what the file system's tasks rely on.
LEMMA FileStore ==
    ASSUME Inv, Store, FilePlan
    PROVE  FilePlan'
<1>1. /\ UNCHANGED <<leg, pc, ret, n, a0, a1, work, sel, ram, boot>> /\ todo # <<>>
  BY StoreFrame
<1>2. Filed => Filed'
  <2>. SUFFICES ASSUME Filed PROVE Filed' OBVIOUS
  <2>1. {"name0", "d0", "d1"} \subseteq Words BY DEF Words
  <2>2. Will("name0", NAME_DATA) /\ Will("d0", Bytes0) /\ Will("d1", Bytes1) BY DEF Filed
  <2>3. Bytes0' = Bytes0 /\ Bytes1' = Bytes1 BY <1>1 DEF Bytes0, Bytes1
  <2>4. Will("name0", NAME_DATA)' BY <2>1, <2>2, StoreWill DEF Will
  <2>. HIDE DEF Bytes0, Bytes1
  <2>5. Will("d0", Bytes0)' BY <2>1, <2>2, <2>3, StoreWill DEF Will
  <2>6. Will("d1", Bytes1)' BY <2>1, <2>2, <2>3, StoreWill DEF Will
  <2>. QED BY <2>4, <2>5, <2>6 DEF Filed
<1>3. Gone => Gone'
  <2>. SUFFICES ASSUME Gone PROVE Gone' OBVIOUS
  <2>1. {"name0", "use0"} \subseteq Words BY DEF Words
  <2>. QED BY <2>1, StoreWill DEF Gone, Will
<1>4. UNCHANGED <<Staged, Echoed, AExit, Pos>>
  BY <1>1 DEF Staged, Echoed, AExit, Pos, Bytes0, Bytes1
<1>. QED BY <1>1, <1>2, <1>3, <1>4 DEF FilePlan, Fresh

\* The kernel's answer to a create: the file is there, or will be.
LEMMA CreateFiles ==
    ASSUME Inv, SysCreate, Fresh, Staged, a0 = NAME_DATA, a1 = FILE_BYTES, Fs, Whole(boot)
    PROVE  Filed'
<1>1. disk' = disk /\ boot' = boot /\ todo' = StoresOfCreate(disk)
  BY DEF SysCreate, Reply, Still
<1>2. CASE disk["use0"] = 1
  <2>1. todo' = <<>> BY <1>1, <1>2 DEF StoresOfCreate
  <2>2. disk["name0"] = NAME_DATA /\ boot = disk BY <1>2 DEF Whole, Fresh
  <2>. QED BY <1>1, <1>2, <2>1, <2>2 DEF Filed, Will, Bytes0, Bytes1
<1>3. CASE disk["use0"] # 1
  <2>1. todo' = CreateStores(NAME_DATA, FILE_BYTES, PAYLOAD0, PAYLOAD1)
    BY <1>1, <1>3 DEF StoresOfCreate, Staged
  <2>2. Bytes0' = PAYLOAD0 /\ Bytes1' = PAYLOAD1
    BY <1>1, <1>3 DEF Bytes0, Bytes1, Fresh
  <2>3. /\ Len(todo') = 6
        /\ todo'[1] = St("name0", NAME_DATA) /\ todo'[2] = St("start0", DATA_WORD)
        /\ todo'[3] = St("len0", FILE_BYTES) /\ todo'[4] = St("use0", 1)
        /\ todo'[5] = St("d0", PAYLOAD0) /\ todo'[6] = St("d1", PAYLOAD1)
    BY <2>1 DEF CreateStores
  <2>4. 1 .. Len(todo') = {1, 2, 3, 4, 5, 6} BY <2>3
  <2>. HIDE DEF Bytes0, Bytes1
  <2>5. Will("name0", NAME_DATA)' BY <2>3, <2>4 DEF Will, St
  <2>6. Will("d0", Bytes0)' BY <2>2, <2>3, <2>4 DEF Will, St
  <2>7. Will("d1", Bytes1)' BY <2>2, <2>3, <2>4 DEF Will, St
  <2>. QED BY <2>5, <2>6, <2>7 DEF Filed
<1>. QED BY <1>2, <1>3

\* The answer to an unlink of the file: name and flag are gone, or will be.
LEMMA DeleteGone ==
    ASSUME Inv, SysDelete, Filed, a0 = NAME_DATA
    PROVE  Gone'
<1>1. todo = <<>> /\ disk' = disk /\ todo' = StoresOfDelete(Found)
  BY DEF SysDelete, Reply, Still, Served, At
<1>2. Found = 0 BY <1>1 DEF Filed, Will, Found
<1>3. todo' = <<St("name0", 0), St("use0", 0)>> BY <1>1, <1>2 DEF StoresOfDelete
<1>4. Len(todo') = 2 /\ todo'[1] = St("name0", 0) /\ todo'[2] = St("use0", 0) BY <1>3
<1>5. 1 .. Len(todo') = {1, 2} BY <1>4
<1>. QED BY <1>4, <1>5 DEF Gone, Will, St

\* No other step of a file-system drive breaks what its tasks rely on.
LEMMA FileStep ==
    ASSUME Inv, Parked, FileStory, Next
    PROVE  FileStory'
<1>. SUFFICES ASSUME leg' \in {"fs", "fs_del"}, Whole(boot)' PROVE FilePlan'
  BY DEF FileStory
<1>1. leg' = leg /\ leg \in {"fs", "fs_del"} /\ Fs /\ ~Faulty
  BY DriveFrame DEF Fs, Faulty
<1>2. CASE Host
  BY <1>1, <1>2 DEF Host, Drive, EndDrive, FilePlan, Pos, Parked, Fresh, cpu
<1>3. CASE ~Host
  <2>1. boot' = boot /\ Whole(boot) BY <1>1, <1>3, DriveFrame DEF Whole, Fs
  <2>2. FilePlan BY <1>1, <2>1 DEF FileStory
  <2>3. CASE Store BY <2>2, <2>3, FileStore
  <2>4. ram \in [RamWords -> Nat] BY DEF Inv, Types
  <2>. USE DEF FilePlan, Pos, At, Go, Still, Trap, cpu
  <2>5. CASE FsTaskA
    <3>1. pc = "taskA" /\ Fresh BY <2>2, <2>5 DEF FsTaskA
    <3>2. ram' = [ram EXCEPT !.scratch0 = PAYLOAD0, !.scratch1 = PAYLOAD1]
          /\ UNCHANGED <<disk, todo, boot>>
          /\ n' = 6 /\ a0' = NAME_DATA /\ a1' = FILE_BYTES /\ ret' = "exitA" /\ pc' = "ksys"
      BY <1>1, <2>5 DEF FsTaskA
    <3>3. Staged' BY <2>4, <3>2 DEF Staged, RamWords
    <3>4. Fresh' BY <3>1, <3>2 DEF Fresh
    <3>. QED BY <3>2, <3>3, <3>4
  <2>6. CASE FsExitA
    <3>1. pc = "exitA" /\ Filed /\ pc' = "dispatch" /\ UNCHANGED <<disk, todo>>
          /\ ram' = [ram EXCEPT !.exitA = 6]
      BY <2>2, <2>6 DEF FsExitA
    <3>2. Filed' BY <2>1, <3>1, FileFrame
    <3>3. AExit' BY <2>4, <3>1 DEF AExit, RamWords
    <3>. QED BY <3>1, <3>2, <3>3
  <2>7. CASE FsDispatch
    <3>1. pc = "dispatch" /\ Filed /\ AExit /\ pc' = "taskB" /\ UNCHANGED <<disk, todo, ram>>
      BY <2>2, <2>7 DEF FsDispatch
    <3>2. Filed' /\ AExit' BY <2>1, <3>1, FileFrame DEF AExit
    <3>. QED BY <3>1, <3>2
  <2>8. CASE FsTaskB
    <3>1. pc = "taskB" /\ Filed /\ AExit /\ pc' = "ksys" /\ ret' = "exitB" /\ n' = 7
          /\ a0' = NAME_DATA /\ UNCHANGED <<disk, todo, ram>>
      BY <2>2, <2>8 DEF FsTaskB
    <3>2. Filed' /\ AExit' BY <2>1, <3>1, FileFrame DEF AExit
    <3>. QED BY <3>1, <3>2
  <2>9. CASE FsExitB
    <3>1. pc = "exitB" /\ Filed /\ AExit /\ Echoed /\ UNCHANGED <<disk, todo>>
          /\ ram' = [ram EXCEPT !.exitB = 7]
      BY <2>2, <2>9 DEF FsExitB
    <3>2. Filed' BY <2>1, <3>1, FileFrame
    <3>3. ram'["exitB"] = 7 /\ ram'["exitA"] = 6 /\ ram'["readout0"] = ram["readout0"]
          /\ ram'["readout1"] = ram["readout1"]
      BY <2>4, <3>1 DEF AExit, RamWords
    <3>4. CASE leg = "fs_del"
      <4>1. pc' = "ksys" /\ ret' = "reread" /\ n' = 8 /\ a0' = NAME_DATA
        BY <2>9, <3>4 DEF FsExitB
      <4>. QED BY <1>1, <3>2, <3>4, <4>1
    <3>5. CASE leg = "fs"
      <4>1. pc' = "done" /\ a0' = a0 BY <2>9, <3>5 DEF FsExitB
      <4>2. Echoed' /\ AExit' BY <2>1, <3>1, <3>3, <4>1 DEF Echoed, AExit, Bytes0, Bytes1
      <4>. QED BY <1>1, <3>3, <3>5, <4>1, <4>2
    <3>. QED BY <1>1, <3>4, <3>5
  <2>10. CASE FsReread
    <3>1. pc = "reread" /\ Gone /\ leg = "fs_del" /\ pc' = "ksys" /\ ret' = "done" /\ n' = 7
          /\ a0' = NAME_DATA /\ UNCHANGED <<disk, todo, ram>>
      BY <2>2, <2>10 DEF FsReread
    <3>2. Gone' BY <2>1, <3>1, FileFrame
    <3>. QED BY <1>1, <3>1, <3>2
  <2>11. CASE SysCreate
    <3>1. /\ pc = "ksys" /\ n = 6 /\ ret = "exitA" /\ a0 = NAME_DATA /\ a1 = FILE_BYTES
          /\ Fresh /\ Staged /\ pc' = "sysret" /\ ret' = ret
      BY <2>2, <2>11 DEF SysCreate, Served, Reply
    <3>2. Filed' BY <1>1, <2>1, <2>11, <3>1, CreateFiles
    <3>. QED BY <3>1, <3>2
  <2>12. CASE SysRead
    <3>1. /\ pc = "ksys" /\ n = 7 /\ todo = <<>> /\ pc' = "sysret" /\ ret' = ret
          /\ UNCHANGED <<disk, todo>>
      BY <2>12 DEF SysRead, Served, NoStore, Reply
    <3>2. a0 = NAME_DATA BY <2>2, <3>1
    <3>3. CASE ret = "exitB"
      <4>1. Filed /\ AExit BY <2>2, <3>1, <3>3
      <4>2. disk["name0"] = NAME_DATA /\ disk["d0"] = Bytes0 /\ disk["d1"] = Bytes1
        BY <3>1, <4>1, WillNow DEF Filed
      <4>3. Found = 0 /\ DataFound = <<disk["d0"], disk["d1"]>> /\ ~Miss
        BY <3>2, <4>2 DEF Found, DataFound, Miss
      <4>4. ram' = [ram EXCEPT !.readout0 = disk["d0"], !.readout1 = disk["d1"]]
            /\ a0' = FILE_BYTES
        BY <2>12, <4>3 DEF SysRead, ReadOut, Reply
      <4>5. Echoed' /\ AExit'
        BY <2>1, <2>4, <3>1, <4>1, <4>2, <4>4 DEF Echoed, AExit, RamWords, Bytes0, Bytes1
      <4>6. Filed' BY <2>1, <3>1, <4>1, FileFrame
      <4>. QED BY <3>1, <3>3, <4>5, <4>6
    <3>4. CASE ret = "done"
      <4>1. Gone /\ leg = "fs_del" BY <2>2, <3>1, <3>4
      <4>2. disk["name0"] = 0 /\ disk["name1"] \in {0, TICK_B}
        BY <3>1, <4>1, WillNow DEF Gone, Inv, Types
      <4>3. Miss BY <3>2, <4>2 DEF Found, Miss, NAME_DATA, TICK_B
      <4>4. ram' = [ram EXCEPT !.readout0 = Err, !.readout1 = 0] /\ a0' = 0
        BY <2>12, <4>3 DEF SysRead, ReadOut, Reply
      <4>5. ram'["readout0"] = Err BY <2>4, <4>4 DEF RamWords
      <4>6. Gone' BY <2>1, <3>1, <4>1, FileFrame
      <4>. QED BY <1>1, <3>1, <3>4, <4>1, <4>4, <4>5, <4>6
    <3>. QED BY <2>2, <3>1, <3>3, <3>4
  <2>13. CASE SysDelete
    <3>1. /\ pc = "ksys" /\ n = 8 /\ ret = "reread" /\ a0 = NAME_DATA /\ Filed
          /\ leg = "fs_del" /\ pc' = "sysret" /\ ret' = ret
      BY <2>2, <2>13 DEF SysDelete, Served, Reply
    <3>2. Gone' BY <2>13, <3>1, DeleteGone
    <3>. QED BY <1>1, <3>1, <3>2
  <2>14. CASE Sysret
    <3>1. /\ pc = "sysret" /\ pc' = ret /\ UNCHANGED <<disk, todo, ram, ret, n, a0>>
      BY <2>14 DEF Sysret
    <3>2. (Filed' <=> Filed) /\ (Gone' <=> Gone) /\ (Echoed' <=> Echoed) /\ (AExit' <=> AExit)
      BY <2>1, <3>1, FileFrame DEF Echoed, AExit
    <3>3. ret \in {"exitA", "exitB", "reread", "done"} BY <2>2, <3>1
    <3>. QED BY <1>1, <2>2, <3>1, <3>2, <3>3
  <2>15. CASE DoneTail
    <3>1. /\ pc = "done" /\ pc' = "halted" /\ UNCHANGED <<disk, todo, ram, ret, n, a0>>
      BY <2>15 DEF DoneTail
    <3>2. (Gone' <=> Gone) /\ (Echoed' <=> Echoed) /\ (AExit' <=> AExit)
      BY <2>1, <3>1, FileFrame DEF Echoed, AExit
    <3>. QED BY <1>1, <2>2, <3>1, <3>2
  <2>16. ~(Agents \/ Seed \/ SysClaim \/ SysSignal \/ SysRecv \/ FaultHandler)
    <3>1. pc \notin {"seed", "workA", "workB", "combineB", "fault"} BY <2>2
    <3>2. pc = "ksys" => n \in {6, 7, 8} BY <2>2
    <3>. QED
      BY <1>1, <3>1, <3>2 DEF Agents, AgentA, WorkA, AgentExitA, AgentB, WorkB, CombineB,
         AgentExitB, Seed, SysClaim, SysSignal, SysRecv, FaultHandler, Served
  <2>. QED
    BY <1>3, <2>3, <2>5, <2>6, <2>7, <2>8, <2>9, <2>10, <2>11, <2>12, <2>13, <2>14, <2>15, <2>16
    DEF Next, FsTasks, Kernel
<1>. QED BY <1>2, <1>3

-------------------------------------------------------------------------------
(* GH-14, agent B's drives.                                                *)
LEMMA AgentFrame ==
    ASSUME UNCHANGED <<disk, todo, boot>>
    PROVE  /\ Ticketed' <=> Ticketed
           /\ Sum' = Sum
           /\ ram'["claimed"] = ram["claimed"] => (Claimed' <=> Claimed)
           /\ ram'["claimed"] = ram["claimed"] /\ ram'["uartB"] = ram["uartB"] => (Signed' <=> Signed)
BY DEF Ticketed, Claimed, Sum, Signed, Will, Keeps

\* A receipt that no drive stores again stays what it was when the drive began.
LEMMA ReceiptStays ==
    ASSUME Inv, Store, Will("rsltA", boot["rsltA"])
    PROVE  Will("rsltA", boot["rsltA"])'
<1>1. PICK v : v = boot["rsltA"] OBVIOUS
<1>2. Will("rsltA", v) /\ "rsltA" \in Words BY <1>1 DEF Words
<1>3. boot' = boot BY StoreFrame
<1>4. /\ \A i \in 1 .. Len(todo') : todo'[i].word = "rsltA" => todo'[i].value = v
      /\ disk'["rsltA"] = v \/ \E i \in 1 .. Len(todo') : todo'[i].word = "rsltA"
  BY <1>2, StoreWill
<1>. QED BY <1>1, <1>3, <1>4 DEF Will

LEMMA AgentStore ==
    ASSUME Inv, Store, AgentPlan
    PROVE  AgentPlan'
<1>1. /\ UNCHANGED <<leg, pc, ret, n, a0, a1, work, sel, ram, boot>> /\ todo # <<>>
  BY StoreFrame
<1>2. Ticketed => Ticketed'
  <2>. SUFFICES ASSUME Ticketed PROVE Ticketed' OBVIOUS
  <2>1. "name1" \in Words BY DEF Words
  <2>3. Will("name1", TICK_B)' BY <2>1, StoreWill DEF Ticketed, Will
  <2>. QED BY <2>3, ReceiptStays DEF Ticketed
<1>3. Signed => Signed'
  <2>. SUFFICES ASSUME Signed PROVE Signed' OBVIOUS
  <2>1. {"d2", "rsltB"} \subseteq Words BY DEF Words
  <2>2. Keeps("d2")' /\ disk'["d2"] = disk["d2"] BY <2>1, StoreKeeps DEF Signed, Keeps
  <2>3. Sum' = Sum BY <1>1, <2>2 DEF Sum
  <2>. HIDE DEF Sum
  <2>4. Will("rsltB", Sum)' BY <2>1, <2>3, StoreWill DEF Signed, Will
  <2>. QED BY <1>1, <2>2, <2>3, <2>4 DEF Signed
<1>4. ~Claimed BY <1>1 DEF Claimed
<1>5. Pos' = Pos BY <1>1 DEF Pos
<1>. QED BY <1>1, <1>2, <1>3, <1>4, <1>5 DEF AgentPlan, Fresh

\* The seeds name ticket B and leave the receipts alone.
LEMMA TicketWords ==
    /\ \A i \in 1 .. Len(TicketStores) :
          /\ TicketStores[i].word # "rsltA"
          /\ TicketStores[i].word = "name1" => TicketStores[i].value = TICK_B
    /\ \E i \in 1 .. Len(TicketStores) : TicketStores[i].word = "name1"
<1>. DEFINE s == TicketStores
<1>1. /\ Len(s) = 12
      /\ s[1].word = "name0" /\ s[2].word = "start0" /\ s[3].word = "len0"
      /\ s[4].word = "use0" /\ s[5].word = "d0" /\ s[6].word = "d1"
      /\ s[7].word = "name1" /\ s[7].value = TICK_B /\ s[8].word = "start1"
      /\ s[9].word = "len1" /\ s[10].word = "use1" /\ s[11].word = "d2" /\ s[12].word = "d3"
  BY DEF TicketStores, St
<1>2. \A i \in 1 .. 12 : i \in {1, 2, 3, 4, 5, 6, 7, 8, 9, 10, 11, 12} OBVIOUS
<1>3. 7 \in 1 .. Len(s) BY <1>1
<1>4. 1 .. Len(s) = 1 .. 12 BY <1>1
<1>. HIDE DEF s
<1>5. \A i \in 1 .. 12 : s[i].word # "rsltA" /\ (s[i].word = "name1" => s[i].value = TICK_B)
  BY <1>1, <1>2
<1>. QED BY <1>1, <1>3, <1>4, <1>5 DEF s

\* The seeds of a blank image, and what an image with tickets brings along.
LEMMA SeedTickets ==
    ASSUME Inv, Seed, Fresh, Whole(boot), ~Fs
    PROVE  Ticketed'
<1>1. disk' = disk /\ boot' = boot /\ boot = disk
      /\ todo' = IF disk["use0"] = 1 THEN <<>> ELSE TicketStores
  BY DEF Seed, Still, Fresh
<1>2. CASE disk["use0"] = 1
  <2>1. todo' = <<>> BY <1>1, <1>2
  <2>2. disk["name1"] = TICK_B BY <1>1, <1>2 DEF Whole
  <2>. QED BY <1>1, <2>1, <2>2 DEF Ticketed, Will
<1>3. CASE disk["use0"] # 1
  <2>. QED BY <1>1, <1>3, TicketWords DEF Ticketed, Will
<1>. QED BY <1>2, <1>3

LEMMA AgentStep ==
    ASSUME Inv, Parked, AgentStory, Next
    PROVE  AgentStory'
<1>. SUFFICES ASSUME leg' \in {"tickets", "tickets_fault"}, sel' = 2, Whole(boot)' PROVE AgentPlan'
  BY DEF AgentStory
<1>1. leg' = leg /\ leg \in {"tickets", "tickets_fault"} /\ ~Fs
  BY DriveFrame DEF Fs
<1>2. CASE Host
  BY <1>1, <1>2 DEF Host, Drive, EndDrive, AgentPlan, Pos, Parked, Fresh, cpu
<1>3. CASE ~Host
  <2>1. boot' = boot /\ sel = 2 /\ Whole(boot) BY <1>1, <1>3, DriveFrame DEF Whole, Fs
  <2>2. AgentPlan BY <1>1, <2>1 DEF AgentStory
  <2>3. CASE Store BY <2>2, <2>3, AgentStore
  <2>4. ram \in [RamWords -> Nat] /\ disk \in [Words -> Nat] /\ boot \in [Words -> Nat]
        /\ work \in Nat
    BY DEF Inv, Types
  <2>. USE DEF AgentPlan, Pos, At, Go, Still, Trap, cpu
  <2>5. CASE Seed
    <3>1. Fresh /\ pc' = "taskB" BY <2>1, <2>2, <2>5 DEF Seed
    <3>2. Ticketed' BY <1>1, <2>1, <2>5, <3>1, SeedTickets
    <3>. QED BY <3>1, <3>2
  <2>6. CASE AgentB
    <3>1. pc = "taskB" /\ Ticketed /\ pc' = "ksys" /\ ret' = "workB" /\ n' = 2
          /\ a0' = TICK_B /\ UNCHANGED <<disk, todo>>
      BY <2>2, <2>6 DEF AgentB
    <3>2. Ticketed' BY <2>1, <3>1, AgentFrame
    <3>. QED BY <3>1, <3>2
  <2>7. CASE WorkB
    <3>1. /\ Claimed /\ Ticketed /\ ram["readout0"] = disk["d2"] /\ pc' = "ksys"
          /\ ret' = "combineB" /\ n' = 4 /\ UNCHANGED <<disk, todo>>
          /\ work' = 3 * ram["readout0"] /\ ram' = [ram EXCEPT !.uartB = work']
      BY <2>2, <2>7 DEF WorkB
    <3>2. ram'["claimed"] = ram["claimed"] BY <2>4, <3>1 DEF RamWords
    <3>3. Claimed' /\ Ticketed' BY <2>1, <3>1, <3>2, AgentFrame
    <3>4. work' = 3 * disk'["d2"] BY <3>1
    <3>. QED BY <3>1, <3>3, <3>4
  <2>8. CASE CombineB
    <3>1. /\ Claimed /\ work = 3 * disk["d2"] /\ ram["readout0"] = boot["rsltA"]
          /\ pc' = "ksys" /\ ret' = "exitB" /\ n' = 3 /\ a1' = 1 /\ a0' = work'
          /\ UNCHANGED <<disk, todo>>
          /\ work' = work + ram["readout0"] /\ ram' = [ram EXCEPT !.uartB = work']
      BY <2>2, <2>8 DEF CombineB
    <3>2. ram'["claimed"] = ram["claimed"] /\ ram'["uartB"] = work'
      BY <2>4, <3>1 DEF RamWords
    <3>3. Claimed' BY <2>1, <3>1, <3>2, AgentFrame
    <3>4. work' = Sum' BY <2>1, <3>1 DEF Sum
    <3>. QED BY <3>1, <3>2, <3>3, <3>4
  <2>9. CASE AgentExitB
    <3>1. Signed /\ pc' = "done" /\ UNCHANGED <<disk, todo>> /\ ram' = [ram EXCEPT !.exitB = 2]
      BY <2>2, <2>9 DEF AgentExitB
    <3>2. ram'["exitB"] = 2 /\ ram'["claimed"] = ram["claimed"] /\ ram'["uartB"] = ram["uartB"]
      BY <2>4, <3>1 DEF RamWords
    <3>3. Signed' BY <2>1, <3>1, <3>2, AgentFrame
    <3>. QED BY <3>1, <3>2, <3>3
  <2>10. CASE SysClaim
    <3>1. /\ pc = "ksys" /\ ret = "workB" /\ a0 = TICK_B /\ Ticketed /\ todo = <<>>
          /\ pc' = "sysret" /\ ret' = ret /\ UNCHANGED <<disk, todo>>
      BY <2>2, <2>10 DEF SysClaim, Served, NoStore, Reply
    <3>2. disk["name1"] = TICK_B BY <3>1, WillNow DEF Ticketed
    <3>3. disk["name0"] # TICK_B
      BY SMT DEF Inv, Types, TICK_A, TICK_B, NAME_DATA
    <3>4. Found = 1 /\ ~Miss /\ DataFound = <<disk["d2"], disk["d3"]>>
      BY <3>1, <3>2, <3>3 DEF Found, Miss, DataFound
    <3>5. ram' = [[ram EXCEPT !.readout0 = disk["d2"], !.readout1 = disk["d3"]] EXCEPT !.claimed = Ok]
      BY <2>10, <3>4 DEF SysClaim, ReadOut
    <3>6. ram'["claimed"] = Ok /\ ram'["readout0"] = disk["d2"] BY <2>4, <3>5 DEF RamWords
    <3>7. Ticketed' BY <2>1, <3>1, AgentFrame
    <3>8. Claimed' BY <3>1, <3>6 DEF Claimed
    <3>. QED BY <3>1, <3>6, <3>7, <3>8
  <2>11. CASE SysRecv
    <3>1. /\ pc = "ksys" /\ ret = "combineB" /\ Claimed /\ Ticketed /\ work = 3 * disk["d2"]
          /\ todo = <<>> /\ pc' = "sysret" /\ ret' = ret /\ UNCHANGED <<disk, todo, work>>
          /\ ram' = [ram EXCEPT !.readout0 = disk["rsltA"]]
      BY <2>2, <2>11 DEF SysRecv, Served, NoStore, Reply, Inbox
    <3>2. disk["rsltA"] = boot["rsltA"] BY <3>1, WillNow DEF Ticketed
    <3>3. ram'["claimed"] = ram["claimed"] /\ ram'["readout0"] = boot'["rsltA"]
      BY <2>1, <2>4, <3>1, <3>2 DEF RamWords
    <3>4. Claimed' BY <2>1, <3>1, <3>3, AgentFrame
    <3>. QED BY <3>1, <3>3, <3>4
  <2>12. CASE SysSignal
    <3>1. /\ pc = "ksys" /\ ret = "exitB" /\ a1 = 1 /\ Claimed /\ a0 = Sum /\ ram["uartB"] = Sum
          /\ pc' = "sysret" /\ ret' = ret /\ disk' = disk /\ todo' = <<St("rsltB", Sum)>>
          /\ ram' = [ram EXCEPT !.mailbox = a0]
      BY <2>2, <2>12 DEF SysSignal, Served, Reply
    <3>2. ram'["claimed"] = Ok /\ ram'["uartB"] = Sum BY <2>4, <3>1 DEF RamWords, Claimed
    <3>3. Sum' = Sum BY <2>1, <3>1 DEF Sum
    <3>. HIDE DEF Sum
    <3>4. Len(todo') = 1 /\ todo'[1] = St("rsltB", Sum) BY <3>1
    <3>5. 1 .. Len(todo') = {1} BY <3>4
    <3>6. Will("rsltB", Sum)' BY <3>3, <3>4, <3>5 DEF Will, St
    <3>7. Keeps("d2")' BY <3>4, <3>5 DEF Keeps, St
    <3>8. Signed' BY <3>2, <3>3, <3>6, <3>7 DEF Signed
    <3>. QED BY <3>1, <3>8
  <2>13. CASE Sysret \/ DoneTail
    <3>1. /\ UNCHANGED <<disk, todo, ram, ret, n, a0, a1, work>>
          /\ \/ pc = "sysret" /\ pc' = ret
             \/ pc = "done" /\ pc' = "halted"
      BY <2>13 DEF Sysret, DoneTail
    <3>2. (Ticketed' <=> Ticketed) /\ (Claimed' <=> Claimed) /\ (Signed' <=> Signed)
      BY <2>1, <3>1, AgentFrame
    <3>3. pc = "sysret" => ret \in {"workB", "combineB", "exitB"} BY <2>2
    <3>. QED BY <2>1, <2>2, <3>1, <3>2, <3>3
  <2>14. ~(FsTasks \/ AgentA \/ WorkA \/ AgentExitA \/ SysCreate \/ SysRead \/ SysDelete \/ FaultHandler)
    <3>1. pc \notin {"taskA", "workA", "exitA", "dispatch", "reread", "fault"} BY <2>2
    <3>2. pc = "ksys" => n \in {2, 3, 4} BY <2>2
    <3>. QED
      BY <1>1, <3>1, <3>2 DEF FsTasks, FsTaskA, FsExitA, FsDispatch, FsTaskB, FsExitB, FsReread,
         AgentA, WorkA, AgentExitA, SysCreate, SysRead, SysDelete, FaultHandler, Served
  <2>. QED
    BY <1>3, <2>3, <2>5, <2>6, <2>7, <2>8, <2>9, <2>10, <2>11, <2>12, <2>13, <2>14
    DEF Next, Agents, Kernel
<1>. QED BY <1>2, <1>3

-------------------------------------------------------------------------------
(* The legs whose task faults.                                             *)
LEMMA FaultStep ==
    ASSUME Inv, Parked, FaultStory, Next
    PROVE  FaultStory'
<1>. SUFFICES ASSUME leg' = "fs_fault" \/ (leg' = "tickets_fault" /\ sel' # 2) PROVE FaultPlan'
  BY DEF FaultStory
<1>1. leg' = leg /\ Faulty /\ (Fs <=> leg = "fs_fault")
  BY DriveFrame DEF Fs, Faulty
<1>2. CASE Host
  <2>1. ram'["exitA"] = 0 /\ ram'["exitB"] = 0
    BY <1>2 DEF Host, Drive, EndDrive, Parked, ColdRam
  <2>2. disk' = disk /\ boot' = disk /\ todo' = <<>>
    BY <1>2 DEF Host, Drive, EndDrive, Parked, Fresh
  <2>3. pc' \in {"off", "seed", "taskA"} BY <1>2 DEF Host, Drive, EndDrive
  <2>4. pc' = "seed" => ~Fs BY <1>2 DEF Host, Drive, EndDrive
  <2>. QED BY <1>1, <2>1, <2>2, <2>3, <2>4 DEF FaultPlan, Fresh, Will
<1>3. CASE ~Host
  <2>1. UNCHANGED <<boot, sel>> BY <1>3, DriveFrame
  <2>2. FaultPlan BY <1>1, <2>1 DEF FaultStory
  <2>3. ram \in [RamWords -> Nat] BY DEF Inv, Types
  <2>4. CASE Store
    <3>1. UNCHANGED <<pc, ram>> /\ todo # <<>> BY <2>4, StoreFrame
    <3>3. Will("rsltA", boot["rsltA"])'
      BY <2>2, <2>4, ReceiptStays DEF FaultPlan
    <3>. QED BY <1>1, <2>2, <3>1, <3>3 DEF FaultPlan, Fresh
  <2>. USE DEF FaultPlan, At, Go, Still, cpu
  <2>5. CASE Seed
    <3>1. pc = "seed" /\ Fresh /\ leg # "fs_fault" /\ pc' = "taskA" /\ UNCHANGED <<disk, ram>>
          /\ (todo' = <<>> \/ todo' = TicketStores)
      BY <1>1, <2>1, <2>2, <2>5 DEF Seed
    <3>2. Will("rsltA", boot["rsltA"])'
      <4>1. CASE todo' = <<>> BY <2>1, <3>1, <4>1 DEF Will, Fresh
      <4>2. CASE todo' = TicketStores BY <2>1, <3>1, <4>2, TicketWords DEF Will, Fresh
      <4>. QED BY <3>1, <4>1, <4>2
    <3>. QED BY <1>1, <2>2, <3>1, <3>2
  <2>6. CASE FsTaskA \/ AgentA
    <3>1. pc' = "fault" /\ UNCHANGED <<disk, todo, ram>>
      BY <1>1, <2>6 DEF FsTaskA, AgentA, FaultVector
    <3>. QED BY <1>1, <2>1, <2>2, <3>1 DEF Fresh, Will
  <2>7. CASE FaultHandler
    <3>1. pc' = "done" /\ UNCHANGED <<disk, todo>> /\ ram' = [ram EXCEPT !.fault = FAULT_SEEN]
      BY <2>7 DEF FaultHandler
    <3>2. ram'["fault"] = FAULT_SEEN /\ ram'["exitA"] = 0 /\ ram'["exitB"] = 0
      BY <2>2, <2>3, <3>1 DEF RamWords
    <3>. QED BY <1>1, <2>1, <2>2, <3>1, <3>2 DEF Fresh, Will
  <2>8. CASE DoneTail
    <3>1. pc = "done" /\ pc' = "halted" /\ UNCHANGED <<disk, todo, ram>> BY <2>8 DEF DoneTail
    <3>. QED BY <1>1, <2>1, <2>2, <3>1 DEF Fresh, Will
  <2>9. pc \in {"off", "seed", "taskA", "fault", "done", "halted"} BY <2>2
  <2>10. ~(SysCreate \/ SysRead \/ SysDelete \/ SysClaim \/ SysSignal \/ SysRecv \/ Sysret)
    BY <2>9 DEF SysCreate, SysRead, SysDelete, SysClaim, SysSignal, SysRecv, Sysret, Served
  <2>11. ~(FsExitA \/ FsDispatch \/ FsTaskB \/ FsExitB \/ FsReread \/ WorkA \/ AgentExitA \/ AgentB
            \/ WorkB \/ CombineB \/ AgentExitB)
    BY <2>9 DEF FsExitA, FsDispatch, FsTaskB, FsExitB, FsReread, WorkA, AgentExitA, AgentB, WorkB,
       CombineB, AgentExitB
  <2>. QED
    BY <1>3, <2>4, <2>5, <2>6, <2>7, <2>8, <2>10, <2>11 DEF Next, FsTasks, Agents, Kernel
<1>. QED BY <1>2, <1>3

-------------------------------------------------------------------------------
LEMMA StoriesStep == Inv /\ Stories /\ [Next]_vars => Stories'
<1>. SUFFICES ASSUME Inv, Stories, [Next]_vars PROVE Stories'
  OBVIOUS
<1>1. CASE UNCHANGED vars
  BY <1>1 DEF vars, cpu, Stories, Parked, FileStory, AgentStory, FaultStory, FilePlan, AgentPlan,
     FaultPlan, Fresh, Whole, Fs, Pos, Filed, Gone, Staged, Echoed, AExit, Bytes0, Bytes1, Will,
     Ticketed, Claimed, Signed, Sum, Keeps
<1>2. CASE Next
  BY <1>2, ParkedStep, FileStep, AgentStep, FaultStep DEF Stories
<1>. QED BY <1>1, <1>2

LEMMA StoriesBegin == Init => Stories
<1>. SUFFICES ASSUME Init PROVE Stories
  OBVIOUS
<1>1. pc = "off" /\ Fresh /\ ram = ColdRam BY DEF Init, Fresh
<1>2. ram["exitA"] = 0 /\ ram["exitB"] = 0 BY <1>1 DEF ColdRam
<1>3. Will("rsltA", boot["rsltA"]) BY <1>1 DEF Fresh, Will
<1>. QED BY <1>1, <1>2, <1>3 DEF Stories, Parked, FileStory, FilePlan, AgentStory, AgentPlan,
            FaultStory, FaultPlan, Pos, Fresh

\* Every drive goes as its tasks rely on, wherever earlier drives were cut.
THEOREM DrivesAsPlanned == Spec => []Stories
BY Invariance, StoriesBegin, StoriesStep, PTL DEF Spec
-------------------------------------------------------------------------------
(* The properties.                                                         *)
\* Pixels, pending stores and the words of the arenas keep their types.
THEOREM PixelsTypeCorrect == Spec => []TypeOK
<1>1. Inv => TypeOK
  BY WordSets DEF Inv, Types, Pending, TypeOK
<1>. QED BY <1>1, Invariance, PTL

\* However GH-8's and GH-14's drives are cut, the flag is stored behind the name,
\* the start and the length.
THEOREM FlagsAreLast == Spec => []NamedBeforeUse
<1>1. Inv => NamedBeforeUse
  BY DEF Inv, Trusted, Good, Vouched, NamedBeforeUse, DATA_WORD
<1>. QED BY <1>1, Invariance, PTL

\* A GH-8 drive that is not cut reads back the file the image brought along, or the payload.
THEOREM FilesReadBack == Spec => []ReadsBack
<1>1. Stories => ReadsBack
  <2>. SUFFICES ASSUME Stories, Finished, leg = "fs" PROVE ReadsBack
    BY DEF ReadsBack
  <2>1. pc = "halted" /\ FilePlan BY DEF Finished, Stories, FileStory
  <2>2. Echoed /\ AExit /\ ram["exitB"] = 7 BY <2>1 DEF FilePlan, Pos
  <2>. QED BY <2>2 DEF ReadsBack, Echoed, AExit, Bytes0, Bytes1
<1>. QED BY <1>1, DrivesAsPlanned, PTL

\* After the delete leg the lookup misses, and name and flag are cleared, once the
\* pixel stores are made: the label is reached with an empty list.
THEOREM DeletedIsFree == Spec => []DeleteFrees
<1>1. Stories /\ Inv => DeleteFrees
  <2>. SUFFICES ASSUME Stories, Finished, leg = "fs_del" PROVE DeleteFrees
    BY DEF DeleteFrees
  <2>1. pc = "halted" /\ todo = <<>> /\ FilePlan
    BY DEF Finished, Stories, Parked, FileStory
  <2>2. Gone /\ ram["readout0"] = Err /\ a0 = 0 BY <2>1 DEF FilePlan, Pos
  <2>. QED BY <2>1, <2>2, WillNow DEF DeleteFrees, Gone
<1>. QED BY <1>1, DrivesAsPlanned, Invariance, PTL

\* Agent B's sum of its own ticket and A's receipt of an earlier drive is on the image.
THEOREM ReceiptsAreDelivered == Spec => []Delivered
<1>1. Stories /\ Inv => Delivered
  <2>. SUFFICES ASSUME Stories, Inv, Finished, ~Fs, sel = 2 PROVE Delivered
    BY DEF Delivered
  <2>1. leg \in AllLegs BY LegsAssumption DEF Inv, Types
  <2>2. pc = "halted" /\ todo = <<>> /\ AgentPlan
    BY <2>1 DEF AllLegs, Finished, Stories, Parked, AgentStory, Fs
  <2>3. Signed /\ ram["exitB"] = 2 BY <2>2 DEF AgentPlan, Pos
  <2>. QED BY <2>2, <2>3, WillNow DEF Delivered, Signed, Sum
<1>. QED BY <1>1, DrivesAsPlanned, Invariance, PTL

\* A faulting task leaves no exit, no file and no receipt, and nobody else runs.
THEOREM FaultsLeaveNothing == Spec => []Contained
<1>1. Stories /\ Inv => Contained
  <2>. SUFFICES ASSUME Stories, Inv, pc = "halted", Faulty, Fs \/ sel # 2 PROVE Contained
    BY DEF Contained
  <2>1. todo = <<>> /\ FaultPlan BY DEF Stories, Parked, FaultStory, Faulty, Fs
  <2>. QED BY <2>1, WillNow DEF Contained, FaultPlan, Fresh, Faulty, Fs
<1>. QED BY <1>1, DrivesAsPlanned, Invariance, PTL
===============================================================================
