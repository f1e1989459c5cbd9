--------------------------- MODULE GlyphCPU_proofs ----------------------------
(***************************************************************************)
(* Proofs about the Glyph CPU, for every program, every size of memory and *)
(* both driving loops: the type invariant, the boundary between a task and *)
(* the kernel, and, for the contract of the two, how long the timer lets a *)
(* task run.                                                               *)
(***************************************************************************)
EXTENDS TrapContract, TLAPS

-------------------------------------------------------------------------------
(* Words, arrays and the MMIO block.                                       *)

LEMMA ModType ==
    ASSUME NEW v \in Int, NEW m \in Nat \ {0}
    PROVE  v % m \in 0 .. (m - 1) /\ v % m \in Nat
OBVIOUS

LEMMA DivType ==
    ASSUME NEW v \in Nat, NEW m \in Nat \ {0}
    PROVE  v \div m \in Nat
OBVIOUS

\* The arithmetic that cuts a number to a word, a pixel or a position.
LEMMA MaskType ==
    ASSUME NEW v \in Int
    PROVE  Mask(v) \in Word /\ Target(v) \in Nat
<1>1. MaxWord + 1 \in Nat \ {0}
  BY SizesAssumption
<1>2. v % (MaxWord + 1) \in 0 .. MaxWord
  BY <1>1, ModType, SizesAssumption
<1>3. Mask(v) \in Word
  BY <1>2 DEF Mask, Word
<1> QED
  BY <1>3, SizesAssumption DEF Target, INSTR_WIDTH, Word

LEMMA PackType ==
    ASSUME NEW p \in Nat
    PROVE  PackCell(p) \in Word
<1>1. p \div INSTR_WIDTH \in Int
  BY DEF INSTR_WIDTH
<1> QED
  BY <1>1, MaskType DEF PackCell

\* A RAM that holds one word of the MMIO block holds them all.
MmioWords == {MODE_LATCH, KFAULT_PC, KSYS_PC, BOX0_LO, BOX0_HI, BOX1_LO, BOX1_HI,
              FAULT_ADDR, FAULT_PC, SYSCALL_PC, BOX2_LO, BOX2_HI, SYS_N, SYS_A0, SYS_A1,
              KTICK_PC, TIMER_COUNT, TIMER_RELOAD, TICK_PC, PAGE_TABLE, TILE_ROW,
              TILE_COL, TILE_H, TILE_W}

LEMMA MmioRange ==
    ASSUME NEW w \in MmioWords
    PROVE  w \in Nat /\ Mmio <= w /\ w <= TILE_W /\ TILE_W \in Nat
BY SizesAssumption DEF MmioWords, MODE_LATCH, KFAULT_PC, KSYS_PC, BOX0_LO, BOX0_HI,
   BOX1_LO, BOX1_HI, FAULT_ADDR, FAULT_PC, SYSCALL_PC, BOX2_LO, BOX2_HI, SYS_N, SYS_A0,
   SYS_A1, KTICK_PC, TIMER_COUNT, TIMER_RELOAD, TICK_PC, PAGE_TABLE, TILE_ROW,
   TILE_COL, TILE_H, TILE_W

LEMMA MmioWhole ==
    ASSUME NEW ram, WholeRam(ram), NEW w \in MmioWords, w \in DOMAIN ram
    PROVE  TILE_W \in DOMAIN ram
BY MmioRange DEF WholeRam

LEMMA MmioPresent ==
    ASSUME NEW ram, WholeRam(ram), TILE_W \in DOMAIN ram, NEW w \in MmioWords
    PROVE  w \in DOMAIN ram /\ ram[w] \in Word /\ ram[w] \in Nat
<1>1. w \in 0 .. TILE_W
  BY MmioRange
<1>2. w \in DOMAIN ram
  BY <1>1 DEF WholeRam
<1> QED
  BY <1>2, SizesAssumption DEF WholeRam, Word

\* Writing words keeps a RAM whole.
LEMMA WholeExcept ==
    ASSUME NEW ram, WholeRam(ram), NEW a, NEW v \in Word
    PROVE  /\ WholeRam([ram EXCEPT ![a] = v])
           /\ DOMAIN [ram EXCEPT ![a] = v] = DOMAIN ram
<1> DEFINE r == [ram EXCEPT ![a] = v]
<1>1. DOMAIN r = DOMAIN ram
  BY DEF WholeRam
<1>2. r \in [DOMAIN ram -> Word]
  BY DEF WholeRam
<1> QED
  BY <1>1, <1>2 DEF WholeRam

LEMMA RamType ==
    ASSUME WholeRam(mem), NEW a
    PROVE  Ram(a) \in Word /\ Ram(a) \in Nat
BY SizesAssumption DEF Ram, WholeRam, Word

-------------------------------------------------------------------------------
(* The image as data.                                                      *)

LEMMA PixType ==
    ASSUME NEW a \in Int
    PROVE  a % Pixels \in Pix /\ a % PixMod \in Pixel
BY ModType, SizesAssumption DEF Pix, Pixel

LEMMA PixelNat ==
    ASSUME DataOK, NEW p \in Pix
    PROVE  img[p] \in Nat /\ img[p] % HighMod \in Nat
<1>1. img[p] \in Nat
  BY SizesAssumption DEF DataOK, Pixel
<1> QED
  BY <1>1, ModType, SizesAssumption

LEMMA FsReadType ==
    ASSUME DataOK, NEW w \in Int
    PROVE  FsRead(w) \in Nat
<1>1. FsLowPix(w) \in Pix /\ FsHighPix(w) \in Pix
  BY PixType DEF FsLowPix, FsHighPix
<1>2. img[FsLowPix(w)] \in Nat /\ img[FsHighPix(w)] % HighMod \in Nat
  BY <1>1, PixelNat
<1>3. PixMod * (img[FsHighPix(w)] % HighMod) \in Int
  BY <1>2, SizesAssumption
<1>4. img[FsLowPix(w)] + PixMod * (img[FsHighPix(w)] % HighMod) \in Int
  BY <1>2, <1>3
<1> QED
  BY <1>4, MaskType, SizesAssumption DEF FsRead, Word

LEMMA MemReadType ==
    ASSUME DataOK, NEW a \in Int
    PROVE  MemRead(a) \in Nat
BY FsReadType, PixType, PixelNat DEF MemRead

LEMMA FsImageType ==
    ASSUME DataOK, NEW w \in Int, NEW v \in Int
    PROVE  FsImage(w, v) \in [Pix -> Pixel]
<1> DEFINE q == Mask(v) \div PixMod
           h == q % HighMod
<1>1. Mask(v) \in Nat
  BY MaskType, SizesAssumption DEF Word
<1>2. Mask(v) % PixMod \in Pixel
  BY <1>1, PixType
<1>3. q \in Nat
  BY <1>1, DivType, SizesAssumption
<1>4. h \in Nat
  <2> HIDE DEF q
  <2> QED
    BY <1>3, ModType, SizesAssumption
<1>5. h % PixMod \in Pixel
  <2> HIDE DEF h
  <2> QED
    BY <1>4, PixType
<1> QED
  BY <1>2, <1>5 DEF FsImage, DataOK

LEMMA MemWriteImageType ==
    ASSUME DataOK, NEW a \in Int, NEW v \in Int
    PROVE  MemWriteImage(a, v) \in [Pix -> Pixel]
BY FsImageType, PixType DEF MemWriteImage, DataOK

\* What MemWriteImage and FsImage leave in RAM.
LEMMA MirrorWhole ==
    ASSUME WholeRam(mem), NEW a, NEW v \in Int
    PROVE  /\ WholeRam(FsMirror(a, v)) /\ DOMAIN FsMirror(a, v) = DOMAIN mem
           /\ WholeRam(MemWriteRam(a, v)) /\ DOMAIN MemWriteRam(a, v) = DOMAIN mem
BY MaskType, WholeExcept DEF FsMirror, MemWriteRam

-------------------------------------------------------------------------------
(* Paging.                                                                 *)

LEMMA PagedIso ==
    ASSUME WholeRam(mem), NEW a, Paged(a)
    PROVE  IsoEnabled /\ PageBase \in Nat
<1>1. PAGE_TABLE \in DOMAIN mem
  BY DEF Paged, PageBase, Ram
<1>2. PAGE_TABLE \in MmioWords
  BY DEF MmioWords
<1> QED
  BY <1>1, <1>2, MmioWhole, RamType DEF IsoEnabled, PageBase

LEMMA PteType ==
    ASSUME TypeOK, NEW a \in Int
    PROVE  Pte(a) \in Nat
<1> DEFINE idx == PageBase + ((a \div PageWords) % PageWords)
<1>1. WholeRam(mem) /\ DataOK
  BY DEF TypeOK, ControlOK
<1>2. PageBase \in Nat
  BY <1>1, RamType DEF PageBase
<1>3. CASE ~(0 <= a /\ a < PageWords * PageWords /\ idx \in DOMAIN mem)
  BY <1>3 DEF Pte
<1>4. CASE 0 <= a /\ a < PageWords * PageWords /\ idx \in DOMAIN mem
  <2>1. mem[idx] \in Nat /\ idx \in Int
    BY <1>1, <1>4, SizesAssumption DEF WholeRam, Word
  <2>2. MemRead(idx) \in Nat
    BY <1>1, <2>1, MemReadType
  <2> QED
    BY <1>4, <2>1, <2>2 DEF Pte
<1> QED
  BY <1>3, <1>4

LEMMA ProductNat ==
    ASSUME NEW m \in Nat, NEW n \in Nat
    PROVE  m * n \in Nat
OBVIOUS

LEMMA PhysicalType ==
    ASSUME NEW e \in Nat, NEW a \in Int
    PROVE  Physical(e, a) \in Nat
<1>1. e \div FlagSpan \in Nat
  BY DivType, SizesAssumption
<1>2. Mask(e \div FlagSpan) \in 0 .. MaxWord
  BY <1>1, MaskType DEF Word
<1>3. Frame(e) \in Nat
  BY <1>1, <1>2, HilbAssumption DEF Frame
<1>4. a % PageWords \in Nat
  BY ModType, SizesAssumption
<1>5. Frame(e) * PageWords \in Nat
  BY <1>3, ProductNat, SizesAssumption
<1> QED
  BY <1>4, <1>5 DEF Physical

\* Growing keeps a RAM whole only because it starts from one with MMIO words.
LEMMA GrownWhole ==
    ASSUME WholeRam(mem), IsoEnabled, NEW a \in Nat
    PROVE  /\ WholeRam(Grown(a)) /\ a \in DOMAIN Grown(a)
           /\ DOMAIN mem \subseteq DOMAIN Grown(a)
           /\ \A b \in DOMAIN mem : Grown(a)[b] = mem[b]
<1>1. CASE a \in DOMAIN mem
  BY <1>1 DEF Grown
<1>2. CASE a \notin DOMAIN mem
  <2> DEFINE top == a + PageWords - 1
  <2>1. Grown(a) = [w \in 0 .. top |-> Ram(w)]
    BY <1>2 DEF Grown
  <2>2. DOMAIN Grown(a) = 0 .. top
    BY <2>1
  <2>3. top \in Nat /\ a <= top
    BY SizesAssumption
  <2>4. \A b \in DOMAIN mem : b \in Nat /\ b < a
    BY <1>2 DEF WholeRam
  <2>5. DOMAIN mem \subseteq 0 .. top
    BY <2>3, <2>4
  <2>6. \A w \in 0 .. top : Ram(w) \in Word
    BY RamType
  <2>7. Grown(a) \in [DOMAIN Grown(a) -> Word]
    BY <2>1, <2>2, <2>6
  <2>8. WholeRam(Grown(a))
    BY <2>2, <2>3, <2>5, <2>7 DEF WholeRam, IsoEnabled
  <2>9. \A b \in DOMAIN mem : Grown(a)[b] = mem[b]
    BY <2>1, <2>5 DEF Ram
  <2> QED
    BY <2>2, <2>3, <2>5, <2>8, <2>9
<1> QED
  BY <1>1, <1>2

-------------------------------------------------------------------------------
(* Type correctness.  Every action ends in Retire, Stop or Raise.          *)

LEMMA RetireType ==
    ASSUME TypeOK, NEW next \in Nat, NEW md \in {SUPER, USER}, NEW ram, WholeRam(ram),
           NEW run \in BOOLEAN, NEW flt \in BOOLEAN, md = USER => TILE_W \in DOMAIN ram,
           Retire(next, md, ram, run, flt)
    PROVE  ControlOK'
<1>1. stepped' = "true" /\ running' \in BOOLEAN /\ faulted' \in BOOLEAN
  BY DEF Retire
<1>2. CASE /\ ~TimerRuns(md, ram, run, flt)
           /\ pc' = next /\ mode' = md /\ mem' = ram
  BY <1>1, <1>2 DEF ControlOK, WholeRam, IsoEnabled
<1>3. CASE /\ TimerRuns(md, ram, run, flt) /\ ram[TIMER_COUNT] > 1
           /\ pc' = next /\ mode' = md
           /\ mem' = [ram EXCEPT ![TIMER_COUNT] = @ - 1]
  <2>1. ram[TIMER_COUNT] \in Word
    BY <1>3, MmioPresent DEF TimerRuns, MmioWords
  <2>2. ram[TIMER_COUNT] - 1 \in Word
    BY <1>3, <2>1, SizesAssumption DEF Word
  <2>3. WholeRam(mem') /\ DOMAIN mem' = DOMAIN ram
    BY <1>3, <2>2, WholeExcept
  <2> QED
    BY <1>1, <1>3, <2>3 DEF ControlOK, WholeRam, IsoEnabled
<1>4. CASE /\ TimerRuns(md, ram, run, flt) /\ ram[TIMER_COUNT] = 1
           /\ pc' = Target(ram[KTICK_PC]) /\ mode' = SUPER
           /\ mem' = [ram EXCEPT ![TIMER_COUNT] = ram[TIMER_RELOAD],
                                 ![TICK_PC] = TickWord(next)]
  <2>1. ram[TIMER_RELOAD] \in Word /\ ram[KTICK_PC] \in Nat
    BY <1>4, MmioPresent DEF TimerRuns, MmioWords
  <2>2. TickWord(next) \in Word /\ Target(ram[KTICK_PC]) \in Nat
    BY <2>1, MaskType, PackType DEF TickWord
  <2>3. WholeRam([ram EXCEPT ![TIMER_COUNT] = ram[TIMER_RELOAD]])
    BY <2>1, WholeExcept
  <2>4. WholeRam(mem')
    BY <1>4, <2>2, <2>3, WholeExcept
  <2> QED
    BY <1>1, <1>4, <2>2, <2>4 DEF ControlOK, WholeRam, IsoEnabled, SUPER, USER
<1> QED
  BY <1>2, <1>3, <1>4 DEF Retire

LEMMA GoToType ==
    ASSUME TypeOK, NEW next \in Nat, GoTo(next)
    PROVE  ControlOK'
BY RetireType DEF GoTo, TypeOK, ControlOK, IsoEnabled

LEMMA NextPcType ==
    ASSUME TypeOK
    PROVE  FallThrough \in Nat
BY DEF TypeOK, ControlOK, FallThrough, INSTR_WIDTH

LEMMA StopType ==
    ASSUME TypeOK, Stop \/ Raise, Unchanged
    PROVE  TypeOK'
BY DEF TypeOK, ControlOK, DataOK, Stop, Raise, Unchanged, WholeRam, IsoEnabled

\* Every fetched instruction has the fields of Instr.
LEMMA FetchType ==
    ASSUME TypeOK, NEW op, NEW i \in Fetch(op)
    PROVE  i \in Instr /\ i.imm \in Nat /\ i.op = op
BY TextAssumption, SizesAssumption DEF Fetch, Fetched, OnImage, Instr, Word

\* An instruction that sets at most registers, and one that sets one.
LEMMA RegsStep ==
    ASSUME TypeOK, NEW next \in Nat, GoTo(next), regs' \in [Reg -> Int],
           UNCHANGED <<img, fault, saved>>
    PROVE  TypeOK'
BY GoToType DEF TypeOK, DataOK

LEMMA RegStep ==
    ASSUME TypeOK, NEW r \in Reg, NEW v \in Int, SetReg(r, v),
           NEW next \in Nat, GoTo(next), UNCHANGED <<img, fault, saved>>
    PROVE  TypeOK'
<1>1. regs' \in [Reg -> Int]
  BY DEF TypeOK, DataOK, SetReg
<1> QED
  BY <1>1, RegsStep

LEMMA ComputeType ==
    ASSUME TypeOK, Compute
    PROVE  TypeOK'
<1>1. FallThrough \in Nat
  BY NextPcType
<1>2. \A op : \A i \in Fetch(op) :
         /\ i.rd \in Reg /\ regs[i.rd] \in Int /\ regs[i.rs2] \in Int
         /\ i.imm \in Int
  BY FetchType DEF Instr, TypeOK, DataOK
<1>3. \A v \in Int : Mask(v) \in Int
  BY MaskType DEF Word
<1>4. CASE Ldi
  BY <1>1, <1>2, <1>3, <1>4, RegStep DEF Ldi
<1>5. CASE Add
  BY <1>1, <1>2, <1>3, <1>5, RegStep DEF Add
<1>6. CASE Sub
  BY <1>1, <1>2, <1>3, <1>6, RegStep DEF Sub
<1>7. CASE Bitwise
  BY <1>1, <1>2, <1>7, RegStep DEF Bitwise
<1>8. CASE Cmp
  <2>1. 0 \in Reg
    BY RegAssumption
  <2> QED
    BY <1>1, <1>8, <2>1, RegStep DEF Cmp
<1>9. CASE Prt
  BY <1>1, <1>9, RegsStep DEF Prt, TypeOK, DataOK
<1> QED
  BY <1>4, <1>5, <1>6, <1>7, <1>8, <1>9 DEF Compute

LEMMA BranchType ==
    ASSUME TypeOK, Branch
    PROVE  TypeOK'
<1>1. regs' = regs => regs' \in [Reg -> Int]
  BY DEF TypeOK, DataOK
<1>2. \A op : \A i \in Fetch(op) : Target(i.imm) \in Nat /\ Target(regs[i.rd]) \in Nat
  BY FetchType, MaskType DEF Instr, TypeOK, DataOK
<1>3. FallThrough \in Nat
  BY NextPcType
<1>4. CASE Jmp
  BY <1>1, <1>2, <1>4, RegsStep DEF Jmp
<1>5. CASE Jz
  BY <1>1, <1>2, <1>3, <1>5, RegsStep DEF Jz
<1>6. CASE Jmpr
  BY <1>1, <1>2, <1>6, RegsStep DEF Jmpr
<1> QED
  BY <1>4, <1>5, <1>6 DEF Branch

\* Both faults, and what they leave in RAM.
LEMMA RecordedWhole ==
    ASSUME WholeRam(mem), NEW f \in [addr : Word, pc : Word]
    PROVE  WholeRam(Recorded(f)) /\ DOMAIN Recorded(f) = DOMAIN mem
BY WholeExcept DEF Recorded

LEMMA FaultWordsType ==
    ASSUME TypeOK, NEW a \in Int
    PROVE  FaultWords(a) \in [addr : Word, pc : Word]
BY MaskType DEF FaultWords, TypeOK, ControlOK

LEMMA FaultType ==
    ASSUME TypeOK, NEW a \in Int, PageFault(a) \/ (BoxFault(a) /\ IsoEnabled)
    PROVE  TypeOK'
<1> DEFINE f == FaultWords(a)
<1>1. f \in [addr : Word, pc : Word]
  BY FaultWordsType
<1>2. WholeRam(mem) /\ WholeRam(Recorded(f)) /\ DOMAIN Recorded(f) = DOMAIN mem
  BY <1>1, RecordedWhole DEF TypeOK, ControlOK
<1>3. fault' = f /\ UNCHANGED <<regs, img, saved>>
  BY DEF PageFault, BoxFault
<1>4. CASE Retire(Target(mem[KFAULT_PC]), SUPER, Recorded(f), running, TRUE)
           /\ (Ram(KFAULT_PC) # 0 \/ IsoEnabled)
  <2>1. KFAULT_PC \in DOMAIN mem
    BY <1>2, <1>4, MmioPresent DEF Ram, IsoEnabled, MmioWords
  <2>2. Target(mem[KFAULT_PC]) \in Nat
    BY <1>2, <2>1, MaskType, SizesAssumption DEF WholeRam, Word
  <2>3. running \in BOOLEAN /\ TRUE \in BOOLEAN /\ SUPER \in {SUPER, USER} /\ SUPER # USER
    BY DEF TypeOK, ControlOK, SUPER, USER
  <2>4. ControlOK'
    BY <1>2, <1>4, <2>2, <2>3, RetireType
  <2> QED
    BY <1>1, <1>3, <2>4 DEF TypeOK, DataOK
<1>5. CASE Stop /\ mem' = Recorded(f) /\ mode' = SUPER /\ faulted' = TRUE
  <2>1. pc' = pc /\ running' = FALSE /\ stepped' = "false"
    BY <1>5 DEF Stop
  <2>2. WholeRam(mem')
    BY <1>2, <1>5
  <2>3. mode' = SUPER /\ mode' # USER
    BY <1>5 DEF SUPER, USER
  <2>4. ControlOK'
    BY <1>5, <2>1, <2>2, <2>3 DEF TypeOK, ControlOK
  <2> QED
    BY <1>1, <1>3, <2>4 DEF TypeOK, DataOK
<1> QED
  BY <1>4, <1>5 DEF PageFault, BoxFault

\* An instruction that keeps the mode and leaves a RAM at least as large.
LEMMA StoreStep ==
    ASSUME TypeOK, NEW next \in Nat, NEW ram, WholeRam(ram),
           DOMAIN mem \subseteq DOMAIN ram, NEW run \in BOOLEAN, NEW flt \in BOOLEAN,
           Retire(next, mode, ram, run, flt), regs' \in [Reg -> Int],
           img' \in [Pix -> Pixel], fault' \in [addr : Word, pc : Word], saved' = saved
    PROVE  TypeOK'
<1>1. mode \in {SUPER, USER} /\ (mode = USER => TILE_W \in DOMAIN ram)
  BY DEF TypeOK, ControlOK, IsoEnabled
<1>2. ControlOK'
  BY <1>1, RetireType
<1> QED
  BY <1>2 DEF TypeOK, DataOK

LEMMA LoadType ==
    ASSUME TypeOK, Ld \/ LdPaged
    PROVE  TypeOK'
<1>1. FallThrough \in Nat /\ DataOK /\ WholeRam(mem)
  BY NextPcType DEF TypeOK, ControlOK
<1>2. \A i \in Fetch("LD") : /\ i.rd \in Reg /\ regs[i.rd] \in Int
                             /\ regs[i.rs2] \in Int
  BY FetchType DEF Instr, TypeOK, DataOK
<1>3. CASE Ld
  <2>1. \A a \in DOMAIN mem : mem[a] \in Int
    BY <1>1, SizesAssumption DEF WholeRam, Word
  <2> QED
    BY <1>1, <1>2, <1>3, <2>1, FsReadType, RegStep DEF Ld
<1>4. CASE LdPaged
  <2>1. PICK i \in Fetch("LD") :
          LET a == regs[i.rs2]
              e == Pte(a)
          IN  \/ PageFault(a)
              \/ /\ SetReg(i.rd, IF InPixels(e) THEN MemRead(Physical(e, a))
                                 ELSE Ram(Physical(e, a)))
                 /\ GoTo(FallThrough) /\ UNCHANGED <<img, fault, saved>>
    BY <1>4 DEF LdPaged
  <2> DEFINE a == regs[i.rs2]
             e == Pte(a)
             v == IF InPixels(e) THEN MemRead(Physical(e, a)) ELSE Ram(Physical(e, a))
  <2>2. a \in Int /\ e \in Nat /\ i.rd \in Reg
    BY <1>2, PteType
  <2>3. Physical(e, a) \in Nat
    BY <2>2, PhysicalType
  <2>4. v \in Int
    BY <1>1, <2>3, MemReadType, RamType
  <2>5. CASE PageFault(a)
    BY <2>2, <2>5, FaultType
  <2>6. CASE SetReg(i.rd, v) /\ GoTo(FallThrough) /\ UNCHANGED <<img, fault, saved>>
    BY <1>1, <2>2, <2>4, <2>6, RegStep
  <2> QED
    BY <2>1, <2>5, <2>6
<1> QED
  BY <1>3, <1>4

LEMMA StPagedType ==
    ASSUME TypeOK, StPaged
    PROVE  TypeOK'
<1>1. FallThrough \in Nat /\ DataOK /\ WholeRam(mem)
      /\ running \in BOOLEAN /\ faulted \in BOOLEAN
  BY NextPcType DEF TypeOK, ControlOK
<1>2. PICK i \in Fetch("ST") :
        LET a == regs[i.rs1]
            v == regs[i.rs2]
            e == Pte(a)
            p == Physical(e, a)
        IN  /\ Paged(a)
            /\ \/ PageFault(a)
               \/ /\ img' = MemWriteImage(p, v)
                  /\ Retire(FallThrough, mode, MemWriteRam(p, v), running, faulted)
                  /\ UNCHANGED <<regs, fault, saved>>
               \/ /\ Retire(FallThrough, mode, [Grown(p) EXCEPT ![p] = Mask(v)],
                            running, faulted)
                  /\ UNCHANGED <<regs, img, fault, saved>>
  BY DEF StPaged
<1> DEFINE a == regs[i.rs1]
           v == regs[i.rs2]
           e == Pte(a)
           p == Physical(e, a)
<1>3. a \in Int /\ v \in Int
  BY FetchType DEF Instr, TypeOK, DataOK
<1>4. p \in Nat
  BY <1>3, PteType, PhysicalType
<1> HIDE DEF p
<1>5. CASE PageFault(a)
  BY <1>3, <1>5, FaultType
<1>6. CASE /\ img' = MemWriteImage(p, v)
           /\ Retire(FallThrough, mode, MemWriteRam(p, v), running, faulted)
           /\ UNCHANGED <<regs, fault, saved>>
  <2>1. img' \in [Pix -> Pixel]
    BY <1>1, <1>3, <1>4, <1>6, MemWriteImageType
  <2>2. WholeRam(MemWriteRam(p, v)) /\ DOMAIN MemWriteRam(p, v) = DOMAIN mem
    BY <1>1, <1>3, MirrorWhole
  <2>3. /\ regs' \in [Reg -> Int] /\ fault' \in [addr : Word, pc : Word]
        /\ saved' = saved
    BY <1>1, <1>6 DEF DataOK
  <2> QED
    BY <1>1, <1>6, <2>1, <2>2, <2>3, StoreStep
<1>7. CASE /\ Retire(FallThrough, mode, [Grown(p) EXCEPT ![p] = Mask(v)],
                    running, faulted)
           /\ UNCHANGED <<regs, img, fault, saved>>
  <2> DEFINE ram == [Grown(p) EXCEPT ![p] = Mask(v)]
  <2>1. WholeRam(Grown(p)) /\ DOMAIN mem \subseteq DOMAIN Grown(p)
    BY <1>1, <1>2, <1>4, PagedIso, GrownWhole
  <2>2. WholeRam(ram) /\ DOMAIN mem \subseteq DOMAIN ram
    BY <1>3, <2>1, MaskType, WholeExcept
  <2>3. /\ regs' \in [Reg -> Int] /\ img' \in [Pix -> Pixel]
        /\ fault' \in [addr : Word, pc : Word] /\ saved' = saved
    BY <1>1, <1>7 DEF DataOK
  <2> HIDE DEF ram
  <2>4. Retire(FallThrough, mode, ram, running, faulted)
    BY <1>7 DEF ram
  <2> QED
    BY <1>1, <2>2, <2>3, <2>4, StoreStep
<1> QED
  BY <1>2, <1>5, <1>6, <1>7 DEF p

LEMMA StType ==
    ASSUME TypeOK, St
    PROVE  TypeOK'
<1>1. FallThrough \in Nat /\ DataOK /\ WholeRam(mem) /\ mode \in {SUPER, USER}
      /\ running \in BOOLEAN /\ faulted \in BOOLEAN /\ (mode = USER => IsoEnabled)
  BY NextPcType DEF TypeOK, ControlOK
<1>2. PICK i \in Fetch("ST") :
        LET a == regs[i.rs1]
            v == regs[i.rs2]
        IN  \/ ~Confined(a) /\ BoxFault(a)
            \/ /\ img' = FsImage(a, v)
               /\ Retire(FallThrough, mode, FsMirror(a, v), running, faulted)
               /\ UNCHANGED <<regs, fault, saved>>
            \/ /\ Retire(FallThrough, mode, [mem EXCEPT ![a] = Mask(v)], running, faulted)
               /\ UNCHANGED <<regs, img, fault, saved>>
            \/ IsoEnabled /\ BoxFault(a)
            \/ /\ fault' = FaultWords(a)
               /\ Retire(FallThrough, mode, mem, FALSE, TRUE)
               /\ UNCHANGED <<regs, img, saved>>
  BY DEF St
<1> DEFINE a == regs[i.rs1]
           v == regs[i.rs2]
<1>3. a \in Int /\ v \in Int
  BY FetchType DEF Instr, TypeOK, DataOK
<1>4. CASE ~Confined(a) /\ BoxFault(a)
  BY <1>1, <1>3, <1>4, FaultType DEF Confined
<1>5. CASE /\ img' = FsImage(a, v)
           /\ Retire(FallThrough, mode, FsMirror(a, v), running, faulted)
           /\ UNCHANGED <<regs, fault, saved>>
  <2>1. img' \in [Pix -> Pixel]
    BY <1>1, <1>3, <1>5, FsImageType
  <2>2. WholeRam(FsMirror(a, v)) /\ DOMAIN FsMirror(a, v) = DOMAIN mem
    BY <1>1, <1>3, MirrorWhole
  <2>3. /\ regs' \in [Reg -> Int] /\ fault' \in [addr : Word, pc : Word]
        /\ saved' = saved
    BY <1>1, <1>5 DEF DataOK
  <2> QED
    BY <1>1, <1>5, <2>1, <2>2, <2>3, StoreStep
<1>6. CASE /\ Retire(FallThrough, mode, [mem EXCEPT ![a] = Mask(v)], running, faulted)
           /\ UNCHANGED <<regs, img, fault, saved>>
  <2> DEFINE ram == [mem EXCEPT ![a] = Mask(v)]
  <2>1. WholeRam(ram) /\ DOMAIN ram = DOMAIN mem
    BY <1>1, <1>3, MaskType, WholeExcept
  <2>2. /\ regs' \in [Reg -> Int] /\ img' \in [Pix -> Pixel]
        /\ fault' \in [addr : Word, pc : Word] /\ saved' = saved
    BY <1>1, <1>6 DEF DataOK
  <2> HIDE DEF ram
  <2>3. Retire(FallThrough, mode, ram, running, faulted)
    BY <1>6 DEF ram
  <2> QED
    BY <1>1, <2>1, <2>2, <2>3, StoreStep
<1>7. CASE IsoEnabled /\ BoxFault(a)
  BY <1>3, <1>7, FaultType
<1>8. CASE /\ fault' = FaultWords(a)
           /\ Retire(FallThrough, mode, mem, FALSE, TRUE)
           /\ UNCHANGED <<regs, img, saved>>
  <2>1. fault' \in [addr : Word, pc : Word]
    BY <1>3, <1>8, FaultWordsType
  <2>2. regs' \in [Reg -> Int] /\ img' \in [Pix -> Pixel] /\ saved' = saved
    BY <1>1, <1>8 DEF DataOK
  <2>3. TRUE \in BOOLEAN /\ FALSE \in BOOLEAN
    OBVIOUS
  <2> QED
    BY <1>1, <1>8, <2>1, <2>2, <2>3, StoreStep
<1> QED
  BY <1>2, <1>4, <1>5, <1>6, <1>7, <1>8

\* PUSH, CALL and CALLR: one word to the image, and to RAM in the window.
LEMMA StackWrite ==
    ASSUME TypeOK, NEW a \in Int, NEW v \in Int, NEW next \in Nat,
           SetReg(SP, a), img' = MemWriteImage(a, v),
           Retire(next, mode, MemWriteRam(a, v), running, faulted),
           UNCHANGED <<fault, saved>>
    PROVE  TypeOK'
<1>1. DataOK /\ WholeRam(mem) /\ running \in BOOLEAN /\ faulted \in BOOLEAN
  BY DEF TypeOK, ControlOK
<1>2. img' \in [Pix -> Pixel]
  BY <1>1, MemWriteImageType
<1>3. WholeRam(MemWriteRam(a, v)) /\ DOMAIN MemWriteRam(a, v) = DOMAIN mem
  BY <1>1, MirrorWhole
<1>4. /\ regs' \in [Reg -> Int] /\ fault' \in [addr : Word, pc : Word]
      /\ saved' = saved
  BY <1>1, RegAssumption DEF DataOK, SetReg
<1> QED
  BY <1>1, <1>2, <1>3, <1>4, StoreStep

LEMMA StackType ==
    ASSUME TypeOK, Stack
    PROVE  TypeOK'
<1>1. FallThrough \in Nat /\ pc \in Nat /\ DataOK /\ WholeRam(mem)
      /\ mode \in {SUPER, USER} /\ running \in BOOLEAN /\ faulted \in BOOLEAN
  BY NextPcType DEF TypeOK, ControlOK
<1>2. SP \in Reg /\ regs[SP] \in Int /\ regs[SP] - 1 \in Int
  BY <1>1, RegAssumption DEF DataOK
<1>3. \A op : \A i \in Fetch(op) : i.rd \in Reg /\ regs[i.rd] \in Int /\ i.imm \in Int
  BY FetchType DEF Instr, TypeOK, DataOK
<1>4. MemRead(regs[SP]) \in Nat
  BY <1>1, <1>2, MemReadType
<1>5. CASE Push
  BY <1>1, <1>2, <1>3, <1>5, StackWrite DEF Push
<1>6. CASE Pop
  <2>1. regs' \in [Reg -> Int]
    BY <1>1, <1>2, <1>3, <1>4, <1>6 DEF Pop, DataOK
  <2> QED
    BY <1>1, <1>6, <2>1, RegsStep DEF Pop
<1>7. ASSUME NEW packed \in Int, CallTo(packed)
      PROVE  TypeOK'
  <2>1. Target(packed) \in Nat
    BY <1>7, MaskType
  <2> QED
    BY <1>1, <1>2, <1>7, <2>1, StackWrite DEF CallTo
<1>8. CASE Call
  BY <1>3, <1>7, <1>8 DEF Call
<1>9. CASE Callr
  BY <1>2, <1>3, <1>7, <1>9 DEF Callr
<1>10. CASE Ret
  <2> DEFINE p == MemRead(regs[SP])
  <2>1. CASE Retire(pc, mode, mem, FALSE, faulted) /\ UNCHANGED <<regs, img, fault, saved>>
    <3>1. /\ regs' \in [Reg -> Int] /\ img' \in [Pix -> Pixel]
          /\ fault' \in [addr : Word, pc : Word] /\ saved' = saved
      BY <1>1, <2>1 DEF DataOK
    <3>2. FALSE \in BOOLEAN
      OBVIOUS
    <3> QED
      BY <1>1, <2>1, <3>1, <3>2, StoreStep
  <2>2. CASE SetReg(SP, regs[SP] + 1) /\ GoTo(p) /\ UNCHANGED <<img, fault, saved>>
    BY <1>2, <1>4, <2>2, RegStep
  <2> QED
    BY <1>10, <2>1, <2>2 DEF Ret
<1> QED
  BY <1>5, <1>6, <1>8, <1>9, <1>10 DEF Stack

LEMMA SyscallType ==
    ASSUME TypeOK, SyscallTrap \/ SyscallHost
    PROVE  TypeOK'
<1>1. FallThrough \in Nat /\ DataOK /\ WholeRam(mem)
      /\ mode \in {SUPER, USER} /\ running \in BOOLEAN /\ faulted \in BOOLEAN
  BY NextPcType DEF TypeOK, ControlOK
<1>2. \A r \in Reg : regs[r] \in Int
  BY <1>1 DEF DataOK
<1>3. CASE SyscallTrap
  <2> DEFINE ram1 == [mem EXCEPT ![SYS_N] = Mask(regs[17])]
             ram2 == [ram1 EXCEPT ![SYS_A0] = Mask(regs[10])]
             ram3 == [ram2 EXCEPT ![SYS_A1] = Mask(regs[11])]
             ram4 == [ram3 EXCEPT ![SYSCALL_PC] = PackCell(FallThrough)]
  <2>1. IsoEnabled /\ KsysPc \in Nat
    BY <1>1, <1>3, MmioPresent DEF SyscallTrap, KsysPc, IsoEnabled, MmioWords
  <2>2. Target(KsysPc) \in Nat
    BY <2>1, MaskType
  <2>3. Mask(regs[17]) \in Word /\ Mask(regs[10]) \in Word /\ Mask(regs[11]) \in Word
    BY <1>2, MaskType, RegAssumption
  <2>4. WholeRam(ram1) /\ DOMAIN ram1 = DOMAIN mem
    BY <1>1, <2>3, WholeExcept
  <2>5. WholeRam(ram2) /\ DOMAIN ram2 = DOMAIN mem
    <3> HIDE DEF ram1
    <3> QED
      BY <2>3, <2>4, WholeExcept
  <2>6. WholeRam(ram3) /\ DOMAIN ram3 = DOMAIN mem
    <3> HIDE DEF ram2
    <3> QED
      BY <2>3, <2>5, WholeExcept
  <2>7. WholeRam(ram4) /\ DOMAIN ram4 = DOMAIN mem
    <3> HIDE DEF ram3
    <3> QED
      BY <1>1, <2>6, PackType, WholeExcept
  <2>8. Retire(Target(KsysPc), SUPER, ram4, running, faulted)
    BY <1>3 DEF SyscallTrap
  <2>9. ControlOK'
    <3> HIDE DEF ram4
    <3>1. SUPER \in {SUPER, USER} /\ SUPER # USER
      BY DEF SUPER, USER
    <3> QED
      BY <1>1, <2>2, <2>7, <2>8, <3>1, RetireType
  <2>10. saved' = <<regs>> /\ UNCHANGED <<regs, img, fault>>
    BY <1>3 DEF SyscallTrap
  <2> QED
    BY <1>1, <2>9, <2>10 DEF TypeOK, DataOK
<1>4. CASE SyscallHost
  <2>1. PICK i \in Fetch("SYSCALL") :
          /\ SetReg(i.rd, IF i.imm = 5 THEN regs[1] ELSE IF HostKnown(i.imm) THEN 0 ELSE -1)
          /\ img' = IF i.imm = 2
                    THEN [p \in Pix |-> IF \E a \in ReadSpan : p \in PixelsOf(a)
                                        THEN 0 ELSE img[p]]
                    ELSE img
          /\ Retire(FallThrough, mode,
                    IF i.imm = 2
                    THEN [w \in DOMAIN mem |-> IF w \in ReadSpan /\ InFsWindow(w)
                                               THEN 0 ELSE mem[w]]
                    ELSE mem,
                    running /\ i.imm # 5, faulted)
          /\ UNCHANGED <<fault, saved>>
    BY <1>4 DEF SyscallHost
  <2> DEFINE zeroed == [w \in DOMAIN mem |-> IF w \in ReadSpan /\ InFsWindow(w)
                                             THEN 0 ELSE mem[w]]
             ram == IF i.imm = 2 THEN zeroed ELSE mem
             run == running /\ i.imm # 5
  <2>2. i.rd \in Reg
    BY FetchType DEF Instr
  <2>3. regs' \in [Reg -> Int]
    BY <1>1, <1>2, <2>1, <2>2, RegAssumption DEF SetReg, DataOK
  <2>4. img' \in [Pix -> Pixel]
    <3>1. 0 \in Pixel
      BY SizesAssumption DEF Pixel
    <3> QED
      BY <1>1, <2>1, <3>1 DEF DataOK
  <2>5. WholeRam(zeroed) /\ DOMAIN zeroed = DOMAIN mem
    <3>1. 0 \in Word
      BY SizesAssumption DEF Word
    <3> QED
      BY <1>1, <3>1 DEF WholeRam
  <2>6. WholeRam(ram) /\ DOMAIN ram = DOMAIN mem /\ run \in BOOLEAN
    <3> HIDE DEF zeroed
    <3> QED
      BY <1>1, <2>5
  <2>7. /\ Retire(FallThrough, mode, ram, run, faulted)
        /\ fault' \in [addr : Word, pc : Word] /\ saved' = saved
    BY <1>1, <2>1 DEF DataOK
  <2> HIDE DEF ram, run
  <2> QED
    BY <1>1, <2>3, <2>4, <2>6, <2>7, StoreStep
<1> QED
  BY <1>3, <1>4

LEMMA ExceptType ==
    ASSUME NEW f \in [Reg -> Int], NEW r, NEW v \in Int
    PROVE  [f EXCEPT ![r] = v] \in [Reg -> Int]
OBVIOUS

LEMMA ReturnType ==
    ASSUME TypeOK, Sysret \/ Kjmp
    PROVE  TypeOK'
<1>1. FallThrough \in Nat /\ DataOK /\ WholeRam(mem)
      /\ mode \in {SUPER, USER} /\ running \in BOOLEAN /\ faulted \in BOOLEAN
      /\ (mode = USER => IsoEnabled)
  BY NextPcType DEF TypeOK, ControlOK
<1>2. CASE Sysret
  <2>1. IsoEnabled /\ saved' = <<>> /\ UNCHANGED <<img, fault>>
        /\ regs' = [(IF saved = <<>> THEN regs ELSE saved[1]) EXCEPT ![10] = mem[SYS_A0]]
        /\ Retire(Target(mem[SYSCALL_PC]), USER, mem, running, faulted)
    BY <1>2 DEF Sysret
  <2>2. mem[SYS_A0] \in Nat /\ mem[SYSCALL_PC] \in Nat
    BY <1>1, <2>1, MmioPresent DEF IsoEnabled, MmioWords
  <2>3. Target(mem[SYSCALL_PC]) \in Nat
    BY <2>2, MaskType
  <2> DEFINE back == IF saved = <<>> THEN regs ELSE saved[1]
  <2>4. back \in [Reg -> Int] /\ regs' = [back EXCEPT ![10] = mem[SYS_A0]]
    BY <1>1, <2>1 DEF DataOK
  <2>5. regs' \in [Reg -> Int]
    <3> HIDE DEF back
    <3> QED
      BY <2>2, <2>4, ExceptType
  <2>6. ControlOK'
    BY <1>1, <2>1, <2>3, RetireType DEF IsoEnabled
  <2> QED
    BY <1>1, <2>1, <2>5, <2>6 DEF TypeOK, DataOK
<1>3. CASE Kjmp
  <2> DEFINE armed == IsoEnabled /\ mem[MODE_LATCH] = USER
             md == IF armed THEN USER ELSE IF IsoEnabled THEN SUPER ELSE mode
             ram == IF armed THEN [mem EXCEPT ![MODE_LATCH] = 0] ELSE mem
  <2>1. PICK i \in Fetch("KJMP") : Retire(Target(regs[i.rd]), md, ram, running, faulted)
    BY <1>3 DEF Kjmp
  <2>2. UNCHANGED <<regs, img, fault, saved>>
    BY <1>3 DEF Kjmp
  <2>3. Target(regs[i.rd]) \in Nat
    BY FetchType, MaskType DEF Instr, TypeOK, DataOK
  <2>4. WholeRam(ram) /\ DOMAIN ram = DOMAIN mem
    <3>1. 0 \in Word
      BY SizesAssumption DEF Word
    <3> QED
      BY <1>1, <3>1, WholeExcept
  <2>5. md \in {SUPER, USER} /\ (md = USER => TILE_W \in DOMAIN ram)
    BY <1>1, <2>4 DEF IsoEnabled, SUPER, USER
  <2> HIDE DEF md, ram
  <2>6. ControlOK'
    BY <1>1, <2>1, <2>3, <2>4, <2>5, RetireType
  <2> QED
    BY <1>1, <2>2, <2>6 DEF TypeOK, DataOK
<1> QED
  BY <1>2, <1>3

LEMMA ParallelType ==
    ASSUME TypeOK, Parallel
    PROVE  TypeOK'
<1>1. FallThrough \in Nat /\ DataOK /\ WholeRam(mem)
      /\ mode \in {SUPER, USER} /\ running \in BOOLEAN /\ faulted \in BOOLEAN
  BY NextPcType DEF TypeOK, ControlOK
<1>2. CASE ParallelLd
  <2>1. \A a : Ram(a) \in Int
    BY <1>1, RamType
  <2>2. regs' \in [Reg -> Int]
    BY <1>1, <1>2, <2>1 DEF ParallelLd, DataOK
  <2> QED
    BY <1>1, <1>2, <2>2, RegsStep DEF ParallelLd
<1>3. CASE ParallelSt
  <2>1. PICK i \in Fetch("PARALLEL_ST") :
          LET addr == regs[i.rs1]
              count == IF i.imm > 0 THEN i.imm ELSE i.rs2
              Hit(a) == a \in DOMAIN mem /\ addr <= a /\ a < addr + count
              Val(a) == IF i.rd + (a - addr) \in Reg
                        THEN Mask(regs[i.rd + (a - addr)]) ELSE 0
          IN  /\ img' = [p \in Pix |-> IF Hit(p) THEN Val(p) % PixMod ELSE img[p]]
              /\ Retire(FallThrough, mode,
                        [a \in DOMAIN mem |-> IF Hit(a) THEN Val(a) ELSE mem[a]],
                        running, faulted)
              /\ UNCHANGED <<regs, fault, saved>>
    BY <1>3 DEF ParallelSt
  <2> DEFINE addr == regs[i.rs1]
             count == IF i.imm > 0 THEN i.imm ELSE i.rs2
             Hit(a) == a \in DOMAIN mem /\ addr <= a /\ a < addr + count
             Val(a) == IF i.rd + (a - addr) \in Reg
                       THEN Mask(regs[i.rd + (a - addr)]) ELSE 0
             ram == [a \in DOMAIN mem |-> IF Hit(a) THEN Val(a) ELSE mem[a]]
  <2>2. \A a : Val(a) \in Word /\ Val(a) \in Int
    <3>1. \A r \in Reg : Mask(regs[r]) \in Word
      BY <1>1, MaskType DEF DataOK
    <3> QED
      BY <3>1, SizesAssumption DEF Word
  <2>3. \A a : Val(a) % PixMod \in Pixel
    <3> HIDE DEF Val
    <3> QED
      BY <2>2, PixType
  <2>4. img' \in [Pix -> Pixel]
    <3> HIDE DEF Val, Hit
    <3>1. img' = [p \in Pix |-> IF Hit(p) THEN Val(p) % PixMod ELSE img[p]]
      BY <2>1 DEF Val, Hit
    <3> QED
      BY <1>1, <2>3, <3>1 DEF DataOK
  <2>5. WholeRam(ram) /\ DOMAIN ram = DOMAIN mem
    <3> HIDE DEF Val, Hit
    <3> QED
      BY <1>1, <2>2 DEF WholeRam
  <2>6. /\ Retire(FallThrough, mode, ram, running, faulted)
        /\ regs' \in [Reg -> Int] /\ fault' \in [addr : Word, pc : Word]
        /\ saved' = saved
    BY <1>1, <2>1 DEF DataOK
  <2> HIDE DEF ram
  <2> QED
    BY <1>1, <2>4, <2>5, <2>6, StoreStep
<1>4. CASE ParallelLanes
  <2>1. regs' \in [Reg -> Int] /\ GoTo(FallThrough) /\ UNCHANGED <<img, fault, saved>>
    BY <1>4 DEF ParallelLanes
  <2> QED
    BY <1>1, <2>1, RegsStep
<1>5. CASE ParallelReduceSum
  <2>1. PICK i \in Fetch("PARALLEL_REDUCE_SUM") :
          \E sum \in Word : /\ SetReg(i.rd, sum)
                           /\ GoTo(FallThrough) /\ UNCHANGED <<img, fault, saved>>
    BY <1>5 DEF ParallelReduceSum
  <2>2. i.rd \in Reg /\ \A sum \in Word : sum \in Int
    BY FetchType DEF Instr, Word
  <2> QED
    BY <1>1, <2>1, <2>2, RegStep
<1> QED
  BY <1>2, <1>3, <1>4, <1>5 DEF Parallel

LEMMA EndingType ==
    ASSUME TypeOK, Ending
    PROVE  TypeOK'
<1>1. (Stop \/ Raise) /\ Unchanged
  BY DEF Ending, Halt, Unknown, OffImage, Misaligned, SysretMissing, Raise
<1> QED
  BY <1>1, StopType

\* Every step of the machine keeps the type invariant.
LEMMA StepType ==
    ASSUME TypeOK, [Next]_vars
    PROVE  TypeOK'
<1>1. CASE Next
  BY <1>1, ComputeType, BranchType, LoadType, StPagedType, StType, ParallelType,
     StackType, SyscallType, ReturnType, EndingType DEF Next, Memory, Boundary
<1>2. CASE UNCHANGED vars
  BY <1>2 DEF vars, TypeOK, ControlOK, DataOK, IsoEnabled
<1> QED
  BY <1>1, <1>2

LEMMA InitType == Init => TypeOK
<1> SUFFICES ASSUME Init
             PROVE  TypeOK
  OBVIOUS
<1>1. WholeRam(mem)
  BY RamAssumption DEF Init
<1>2. 0 \in Pixel /\ 0 \in Word
  BY SizesAssumption DEF Pixel, Word
<1>3. ControlOK
  <2>1. pc \in Nat /\ mode = SUPER /\ mode # USER /\ running = TRUE /\ stepped = "true"
        /\ faulted = FALSE
    BY DEF Init, SUPER, USER
  <2> QED
    BY <1>1, <2>1 DEF ControlOK
<1>4. DataOK
  BY <1>2 DEF Init, DataOK
<1> QED
  BY <1>3, <1>4 DEF TypeOK

(* The machine's state is well formed whatever the program does: the RAM   *)
(* keeps its MMIO block however stores and page faults grow it, a pixel    *)
(* never exceeds its three bytes, a fault record is two machine words, and *)
(* USER mode exists only where the block that confines it does.            *)
THEOREM TypeCorrect == Spec => []TypeOK
<1> QED
  BY InitType, StepType, PTL DEF Spec

-------------------------------------------------------------------------------
(* The boundary between a task and the kernel.  A step has one of a few    *)
(* shapes, told apart by the RAM and the mode it hands to Retire.          *)

Plain == \E next, run, flt : Retire(next, mode, mem, run, flt)
Faults == \E a : PageFault(a) \/ (BoxFault(a) /\ mode = USER)
Mirrors == \E next, a, v : Retire(next, mode, MemWriteRam(a, v), running, faulted)
Stores == \E a, v : /\ ~Paged(a) /\ Confined(a)
                   /\ Retire(FallThrough, mode, [mem EXCEPT ![a] = v], running, faulted)
PagedStores ==
    \E a, v :
        /\ a \in Int /\ Paged(a) /\ Storable(Pte(a)) /\ ~InPixels(Pte(a))
        /\ Retire(FallThrough, mode,
                  [Grown(Physical(Pte(a), a)) EXCEPT ![Physical(Pte(a), a)] = v],
                  running, faulted)
Silent == UNCHANGED <<mode, mem>> /\ (Next => stepped' # "true")

LEMMA StepShape ==
    ASSUME TypeOK, [Next]_vars
    PROVE  \/ Silent \/ Plain \/ Faults
           \/ Storing /\ (Mirrors \/ Stores \/ PagedStores \/ SyscallTrap \/ SyscallHost)
           \/ ParallelSt \/ Sysret \/ Kjmp
<1>1. CASE Compute \/ Branch \/ Ld \/ Pop \/ Ret
  BY <1>1 DEF Compute, Branch, Ldi, Add, Sub, Bitwise, Cmp, Prt, Jmp, Jz, Jmpr, Ld, Pop,
     Ret, GoTo, Plain
<1>2. CASE ParallelLd \/ ParallelLanes \/ ParallelReduceSum
  BY <1>2 DEF ParallelLd, ParallelLanes, ParallelReduceSum, GoTo, Plain
<1>3. CASE LdPaged
  BY <1>3 DEF LdPaged, GoTo, Plain, Faults
<1>4. CASE St
  <2>1. PICK i \in Fetch("ST") :
          LET a == regs[i.rs1]
              v == regs[i.rs2]
          IN  /\ ~Paged(a)
              /\ \/ ~Confined(a) /\ BoxFault(a)
                 \/ /\ InFsWindow(a)
                    /\ Retire(FallThrough, mode, FsMirror(a, v), running, faulted)
                 \/ /\ Confined(a)
                    /\ Retire(FallThrough, mode, [mem EXCEPT ![a] = Mask(v)],
                              running, faulted)
                 \/ mode = USER /\ BoxFault(a)
                 \/ Retire(FallThrough, mode, mem, FALSE, TRUE)
    BY <1>4 DEF St
  <2>2. Storing
    BY DEF Storing
  <2> QED
    BY <2>1, <2>2 DEF Plain, Faults, Mirrors, Stores, MemWriteRam, Confined
<1>5. CASE StPaged
  <2>1. \A i \in Fetch("ST") : regs[i.rs1] \in Int
    BY FetchType DEF Instr, TypeOK, DataOK
  <2>2. \E i \in Fetch("ST") : TRUE
    BY <1>5 DEF StPaged
  <2>3. Storing
    BY <2>2 DEF Storing
  <2> QED
    BY <1>5, <2>1, <2>3 DEF StPaged, Faults, Mirrors, PagedStores
<1>6. CASE Push \/ Call \/ Callr
  <2>1. Storing
    BY <1>6 DEF Storing, Push, Call, Callr
  <2> QED
    BY <1>6, <2>1 DEF Push, Call, Callr, CallTo, Mirrors
<1>7. CASE SyscallTrap \/ SyscallHost
  BY <1>7 DEF Storing, SyscallTrap, SyscallHost
<1>8. CASE Ending
  BY <1>8 DEF Ending, Halt, Unknown, OffImage, Misaligned, SysretMissing, Raise, Stop,
     Unchanged, Silent
<1>9. CASE UNCHANGED vars /\ ~Next
  BY <1>9 DEF vars, Silent
<1> QED
  BY <1>1, <1>2, <1>3, <1>4, <1>5, <1>6, <1>7, <1>8, <1>9
     DEF Next, Memory, Parallel, Stack, Boundary

\* What Retire does to RAM and mode, in SUPER and then in USER.
LEMMA RetireSuper ==
    ASSUME NEW next, NEW md, NEW ram, NEW run, NEW flt,
           Retire(next, md, ram, run, flt), mode = SUPER \/ md = SUPER
    PROVE  pc' = next /\ mode' = md /\ mem' = ram
BY DEF Retire, TimerRuns, SUPER, USER

LEMMA RetireFrame ==
    ASSUME NEW next, NEW md, NEW ram, NEW run, NEW flt,
           Retire(next, md, ram, run, flt), NEW a \in DOMAIN ram, a \notin EngineWords
    PROVE  mem'[a] = ram[a]
BY DEF Retire, EngineWords

\* Faults hand Retire, or the stop, a RAM that differs in the two fault words.
LEMMA FaultFrame ==
    ASSUME TypeOK, Faults
    PROVE  /\ mode' = SUPER /\ faulted' = TRUE /\ fault'.pc = Mask(pc)
           /\ pc' = pc \/ pc' = Target(mem[KFAULT_PC])
           /\ UNCHANGED <<regs, img, saved>>
           /\ FAULT_PC \in DOMAIN mem => mem'[FAULT_PC] = Mask(pc)
           /\ \A a \in DOMAIN mem \ {FAULT_ADDR, FAULT_PC} : mem'[a] = mem[a]
           /\ DOMAIN mem' = DOMAIN mem
<1>1. PICK a : PageFault(a) \/ (BoxFault(a) /\ mode = USER)
  BY DEF Faults
<1> DEFINE f == FaultWords(a)
<1>2. /\ mode' = SUPER /\ faulted' = TRUE /\ mem' = Recorded(f) /\ fault' = f
      /\ pc' = pc \/ pc' = Target(mem[KFAULT_PC])
      /\ UNCHANGED <<regs, img, saved>>
  <2>1. CASE Stop /\ PageFault(a)
    BY <2>1 DEF PageFault, Stop, Retire
  <2>2. CASE Retire(Target(mem[KFAULT_PC]), SUPER, Recorded(f), running, TRUE)
             /\ (PageFault(a) \/ BoxFault(a))
    BY <2>2, RetireSuper DEF PageFault, BoxFault, Retire
  <2> QED
    BY <1>1, <2>1, <2>2 DEF PageFault, BoxFault
<1>3. f.pc = Mask(pc)
  BY DEF FaultWords
<1>4. FAULT_ADDR # FAULT_PC
  BY SizesAssumption DEF FAULT_ADDR, FAULT_PC
<1>5. FAULT_PC \in DOMAIN mem => mem'[FAULT_PC] = f.pc
  BY <1>2, <1>4 DEF Recorded
<1>6. \A b \in DOMAIN mem \ {FAULT_ADDR, FAULT_PC} : mem'[b] = mem[b]
  BY <1>2 DEF Recorded
<1>7. DOMAIN mem' = DOMAIN mem
  BY <1>2 DEF Recorded
<1> HIDE DEF f
<1> QED
  BY <1>2, <1>3, <1>5, <1>6, <1>7

-------------------------------------------------------------------------------
(* The kernel is never preempted.                                          *)

LEMMA UnpreemptedStep ==
    ASSUME TypeOK, [Next]_vars, mode = SUPER, ~Storing, IsoEnabled
    PROVE  mem'[TICK_PC] = mem[TICK_PC] /\ mem'[TIMER_COUNT] = mem[TIMER_COUNT]
<1>1. WholeRam(mem)
  BY DEF TypeOK, ControlOK
<1>2. TICK_PC \in DOMAIN mem /\ TIMER_COUNT \in DOMAIN mem
  BY <1>1, MmioPresent DEF IsoEnabled, MmioWords
<1>3. {TICK_PC, TIMER_COUNT} \cap {FAULT_ADDR, FAULT_PC, MODE_LATCH} = {}
  BY SizesAssumption DEF TICK_PC, TIMER_COUNT, FAULT_ADDR, FAULT_PC, MODE_LATCH
<1>4. CASE Silent
  BY <1>4 DEF Silent
<1>5. CASE Plain \/ Sysret
  BY <1>5, RetireSuper DEF Plain, Sysret
<1>6. CASE Faults
  BY <1>2, <1>3, <1>6, FaultFrame
<1>7. CASE ParallelSt
  BY <1>7 DEF ParallelSt, Storing
<1>8. CASE Kjmp
  <2>1. mem' = mem \/ mem' = [mem EXCEPT ![MODE_LATCH] = 0]
    BY <1>8, RetireSuper DEF Kjmp
  <2> QED
    BY <1>2, <1>3, <2>1
<1> QED
  BY <1>4, <1>5, <1>6, <1>7, <1>8, StepShape

(* Whatever the kernel runs, the timer leaves it alone: no step begun in   *)
(* SUPER, not even the one that enters USER mode, counts the timer down or *)
(* overwrites the saved tick position.                                     *)
THEOREM KernelIsUnpreempted == Spec => KernelUnpreempted
<1>1. TypeOK /\ [Next]_vars =>
        [(mode = SUPER /\ ~Storing /\ IsoEnabled) =>
            /\ mem'[TICK_PC] = mem[TICK_PC]
            /\ mem'[TIMER_COUNT] = mem[TIMER_COUNT]]_vars
  BY UnpreemptedStep
<1> QED
  BY <1>1, TypeCorrect, PTL DEF Spec, KernelUnpreempted

-------------------------------------------------------------------------------
(* A task writes only what it was granted.                                 *)

LEMMA ConfinedStep ==
    ASSUME TypeOK, [Next]_vars, mode = USER, Fetch("PARALLEL_ST") = {},
           NEW a \in DOMAIN mem, mem'[a] # mem[a], a \notin EngineWords, ~InFsWindow(a)
    PROVE  Granted(a)
<1>1. WholeRam(mem) /\ IsoEnabled
  BY DEF TypeOK, ControlOK
<1>2. ~Silent
  BY DEF Silent
<1>3. ~Plain
  BY RetireFrame DEF Plain
<1>4. ~Faults
  BY FaultFrame DEF EngineWords
<1>5. ~Mirrors
  <2> SUFFICES ASSUME NEW next, NEW b, NEW v,
                      Retire(next, mode, MemWriteRam(b, v), running, faulted)
               PROVE  FALSE
    BY DEF Mirrors
  <2>1. MemWriteRam(b, v)[a] = mem[a] /\ a \in DOMAIN MemWriteRam(b, v)
    BY DEF MemWriteRam, FsMirror
  <2> QED
    BY <2>1, RetireFrame
<1>6. CASE Stores
  <2>1. PICK b, v : /\ ~Paged(b) /\ Confined(b)
                    /\ Retire(FallThrough, mode, [mem EXCEPT ![b] = v], running, faulted)
    BY <1>6 DEF Stores
  <2>2. a = b
    BY <2>1, RetireFrame
  <2>3. PageBase = 0
    BY <2>1 DEF Paged, SUPER, USER
  <2> QED
    BY <2>1, <2>2, <2>3 DEF Granted, Confined
<1>7. CASE PagedStores
  <2>1. PICK b, v :
          /\ b \in Int /\ Paged(b) /\ Storable(Pte(b)) /\ ~InPixels(Pte(b))
          /\ Retire(FallThrough, mode,
                    [Grown(Physical(Pte(b), b)) EXCEPT ![Physical(Pte(b), b)] = v],
                    running, faulted)
    BY <1>7 DEF PagedStores
  <2> DEFINE p == Physical(Pte(b), b)
  <2>2. p \in Nat
    BY <2>1, PteType, PhysicalType
  <2>3. a \in DOMAIN Grown(p) /\ Grown(p)[a] = mem[a]
    BY <1>1, <2>2, GrownWhole
  <2>4. a = p
    BY <2>1, <2>3, RetireFrame
  <2>5. Pte(b) # 0
    BY <2>1 DEF Storable, Readable, Valid
  <2>6. b \in 0 .. (PageWords * PageWords - 1)
    BY <2>1, <2>5, ProductNat, SizesAssumption DEF Pte
  <2>7. PageBase # 0
    BY <2>1 DEF Paged
  <2> QED
    BY <2>1, <2>4, <2>6, <2>7 DEF Granted
<1>8. ~SyscallTrap
  BY RetireFrame DEF SyscallTrap, EngineWords
<1>9. ~SyscallHost
  <2> SUFFICES ASSUME SyscallHost
               PROVE  FALSE
    OBVIOUS
  <2> DEFINE zeroed == [w \in DOMAIN mem |-> IF w \in ReadSpan /\ InFsWindow(w)
                                             THEN 0 ELSE mem[w]]
  <2>1. PICK i \in Fetch("SYSCALL") :
          Retire(FallThrough, mode, IF i.imm = 2 THEN zeroed ELSE mem,
                 running /\ i.imm # 5, faulted)
    BY DEF SyscallHost
  <2>2. a \in DOMAIN zeroed /\ zeroed[a] = mem[a]
    OBVIOUS
  <2> HIDE DEF zeroed
  <2> QED
    BY <2>1, <2>2, RetireFrame
<1>10. ~Sysret
  BY RetireFrame DEF Sysret
<1>11. ~Kjmp
  BY RetireFrame DEF Kjmp, EngineWords
<1>12. ~ParallelSt
  BY DEF ParallelSt
<1> QED
  BY <1>2, <1>3, <1>4, <1>5, <1>6, <1>7, <1>8, <1>9, <1>10, <1>11, <1>12, StepShape

(* The confinement of a task holds for every program, box, tile and page   *)
(* table: what a step taken in USER mode changes in RAM was granted by the *)
(* kernel, or is one of the engine's own report words.                     *)
THEOREM TaskIsConfined == Spec => UserConfined
<1>1. TypeOK /\ [Next]_vars =>
        [(mode = USER /\ Fetch("PARALLEL_ST") = {}) =>
           \A a \in DOMAIN mem :
             mem'[a] # mem[a] => Granted(a) \/ a \in EngineWords \/ InFsWindow(a)]_vars
  BY ConfinedStep
<1> QED
  BY <1>1, TypeCorrect, PTL DEF Spec, UserConfined

-------------------------------------------------------------------------------
(* How a task leaves USER mode.                                            *)

\* Each fetched instruction has its place in Sequel; most fall through.
LEMMA SequelMember ==
    ASSUME NEW op, NEW i \in Fetch(op)
    PROVE  i.op = op /\ SequelOf(i) \in Sequel
BY DEF Fetch, Sequel

Jumps == {"JMP", "CALL", "JZ", "JMPR", "KJMP", "CALLR", "RET", "SYSRET"}

LEMMA FallsThrough ==
    ASSUME NEW op, op \notin Jumps, NEW i \in Fetch(op)
    PROVE  FallThrough \in Sequel
<1>1. SequelOf(i) = FallThrough
  BY SequelMember DEF SequelOf, Jumps
<1> QED
  BY <1>1, SequelMember

\* A step of a task: a fault, a system call, the kernel's switch, a stop, or an
\* instruction that hands Retire the place where the task goes on.
HandsSequel ==
    \E next, ram, run, flt :
        /\ Retire(next, USER, ram, run, flt)
        /\ DOMAIN mem \subseteq DOMAIN ram
        /\ next \in Sequel \/ ~run

LEMMA TaskGoesOn ==
    ASSUME TypeOK, Next, mode = USER
    PROVE  Silent \/ Faults \/ SyscallTrap \/ HandsSequel \/ SwitchEntry
<1>1. WholeRam(mem) /\ IsoEnabled
  BY DEF TypeOK, ControlOK, SUPER, USER
<1>3. ASSUME NEW next, next \in Sequel, NEW ram, DOMAIN mem \subseteq DOMAIN ram,
             NEW run, NEW flt, Retire(next, USER, ram, run, flt)
      PROVE  HandsSequel
  BY <1>3 DEF HandsSequel
<1>4. ASSUME NEW next, next \in Sequel, GoTo(next)
      PROVE  HandsSequel
  BY <1>4 DEF HandsSequel, GoTo
<1>5. ASSUME NEW a, NEW v
      PROVE  DOMAIN MemWriteRam(a, v) = DOMAIN mem
  BY DEF MemWriteRam, FsMirror
<1>6. CASE Compute \/ Ld \/ Pop \/ ParallelLd \/ ParallelLanes \/ ParallelReduceSum
  <2>1. GoTo(FallThrough) /\ \E op : op \notin Jumps /\ Fetch(op) # {}
    BY <1>6 DEF Compute, Ldi, Add, Sub, Bitwise, Cmp, Prt, Ld, Pop, ParallelLd,
       ParallelLanes, ParallelReduceSum, Jumps, BitOps
  <2> QED
    BY <1>4, <2>1, FallsThrough
<1>7. CASE Jmp
  <2>1. PICK i \in Fetch("JMP") : GoTo(Target(i.imm))
    BY <1>7 DEF Jmp
  <2>2. SequelOf(i) = Target(i.imm)
    BY SequelMember DEF SequelOf
  <2> QED
    BY <1>4, <2>1, <2>2, SequelMember
<1>8. CASE Jz
  <2>1. PICK i \in Fetch("JZ") : GoTo(IF regs[0] # 0 THEN Target(i.imm) ELSE FallThrough)
    BY <1>8 DEF Jz
  <2>2. SequelOf(i) = IF regs[0] # 0 THEN Target(i.imm) ELSE FallThrough
    BY SequelMember DEF SequelOf
  <2> QED
    BY <1>4, <2>1, <2>2, SequelMember
<1>9. CASE Jmpr
  <2>1. PICK i \in Fetch("JMPR") : GoTo(Target(regs[i.rd]))
    BY <1>9 DEF Jmpr
  <2>2. SequelOf(i) = Target(regs[i.rd])
    BY SequelMember DEF SequelOf
  <2> QED
    BY <1>4, <2>1, <2>2, SequelMember
<1>10. CASE LdPaged
  <2>1. FallThrough \in Sequel
    BY <1>10, FallsThrough DEF LdPaged, Jumps
  <2> QED
    BY <1>4, <1>10, <2>1 DEF LdPaged, Faults
<1>11. CASE St
  <2>1. PICK a, v :
          \/ BoxFault(a)
          \/ Retire(FallThrough, USER, FsMirror(a, v), running, faulted)
          \/ Retire(FallThrough, USER, [mem EXCEPT ![a] = Mask(v)], running, faulted)
          \/ Retire(FallThrough, USER, mem, FALSE, TRUE)
    BY <1>11 DEF St
  <2>2. DOMAIN FsMirror(a, v) = DOMAIN mem /\ DOMAIN [mem EXCEPT ![a] = Mask(v)] = DOMAIN mem
    BY DEF FsMirror
  <2>3. FallThrough \in Sequel
    BY <1>11, FallsThrough DEF St, Jumps
  <2> QED
    BY <1>3, <2>1, <2>2, <2>3 DEF Faults
<1>12. CASE StPaged
  <2>1. PICK i \in Fetch("ST") :
          LET a == regs[i.rs1]
              v == regs[i.rs2]
              p == Physical(Pte(a), a)
          IN  \/ PageFault(a)
              \/ Retire(FallThrough, USER, MemWriteRam(p, v), running, faulted)
              \/ Retire(FallThrough, USER, [Grown(p) EXCEPT ![p] = Mask(v)],
                        running, faulted)
    BY <1>12 DEF StPaged
  <2> DEFINE a == regs[i.rs1]
             v == regs[i.rs2]
             p == Physical(Pte(a), a)
  <2>2. a \in Int
    BY <2>1, FetchType DEF Instr, TypeOK, DataOK
  <2>3. p \in Nat
    BY <2>2, PteType, PhysicalType
  <2>4. PageFault(a) \/ Retire(FallThrough, USER, MemWriteRam(p, v), running, faulted)
        \/ Retire(FallThrough, USER, [Grown(p) EXCEPT ![p] = Mask(v)], running, faulted)
    BY <2>1
  <2>6. FallThrough \in Sequel
    BY FallsThrough DEF Jumps
  <2> HIDE DEF a, v, p
  <2>5. DOMAIN mem \subseteq DOMAIN [Grown(p) EXCEPT ![p] = Mask(v)]
    BY <1>1, <2>3, GrownWhole
  <2> QED
    BY <1>3, <1>5, <2>4, <2>5, <2>6 DEF Faults
<1>13. CASE Push
  <2>1. FallThrough \in Sequel
    BY <1>13, FallsThrough DEF Push, Jumps
  <2> QED
    BY <1>3, <1>5, <1>13, <2>1 DEF Push
<1>14. CASE Call \/ Callr
  <2>1. PICK c, a : /\ Target(c) \in Sequel
                    /\ Retire(Target(c), USER, MemWriteRam(a, FallThrough), running, faulted)
    <3>1. CASE Call
      <4>1. PICK i \in Fetch("CALL") : CallTo(i.imm)
        BY <3>1 DEF Call
      <4>2. SequelOf(i) = Target(i.imm)
        BY SequelMember DEF SequelOf
      <4> QED
        BY <4>1, <4>2, SequelMember DEF CallTo
    <3>2. CASE Callr
      <4>1. PICK i \in Fetch("CALLR") : CallTo(IF i.rd = SP THEN regs[SP] - 1 ELSE regs[i.rd])
        BY <3>2 DEF Callr
      <4>2. SequelOf(i) = Target(IF i.rd = SP THEN regs[SP] - 1 ELSE regs[i.rd])
        BY SequelMember DEF SequelOf
      <4> QED
        BY <4>1, <4>2, SequelMember DEF CallTo
    <3> QED
      BY <1>14, <3>1, <3>2
  <2> QED
    BY <1>3, <1>5, <2>1
<1>15. CASE Ret
  <2>1. PICK i \in Fetch("RET") : Retire(pc, USER, mem, FALSE, faulted) \/ GoTo(MemRead(regs[SP]))
    BY <1>15 DEF Ret
  <2>2. SequelOf(i) = MemRead(regs[SP])
    BY SequelMember DEF SequelOf
  <2> QED
    BY <1>4, <2>1, <2>2, SequelMember DEF HandsSequel
<1>16. CASE SyscallHost
  <2>1. PICK i \in Fetch("SYSCALL") :
          Retire(FallThrough, USER,
                 IF i.imm = 2
                 THEN [w \in DOMAIN mem |-> IF w \in ReadSpan /\ InFsWindow(w)
                                            THEN 0 ELSE mem[w]]
                 ELSE mem,
                 running /\ i.imm # 5, faulted)
    BY <1>16 DEF SyscallHost
  <2>2. FallThrough \in Sequel
    BY FallsThrough DEF Jumps
  <2> QED
    BY <1>3, <2>1, <2>2
<1>17. CASE ParallelSt
  <2>1. PICK ram : /\ Retire(FallThrough, USER, ram, running, faulted)
                   /\ DOMAIN ram = DOMAIN mem
    BY <1>17 DEF ParallelSt
  <2>2. FallThrough \in Sequel
    BY <1>17, FallsThrough DEF ParallelSt, Jumps
  <2> QED
    BY <1>3, <2>1, <2>2
<1>18. CASE Ending
  BY <1>18 DEF Ending, Halt, Unknown, OffImage, Misaligned, SysretMissing, Raise, Stop,
     Unchanged, Silent
<1>19. CASE Sysret
  <2>1. PICK i \in Fetch("SYSRET") : Retire(Target(mem[SYSCALL_PC]), USER, mem, running, faulted)
    BY <1>19 DEF Sysret
  <2>2. SequelOf(i) = Target(Ram(SYSCALL_PC))
    BY SequelMember DEF SequelOf
  <2>3. Ram(SYSCALL_PC) = mem[SYSCALL_PC]
    BY <1>1, MmioPresent DEF Ram, MmioWords, IsoEnabled
  <2> QED
    BY <1>3, <2>1, <2>2, <2>3, SequelMember
<1>20. CASE Kjmp
  <2> DEFINE armed == mem[MODE_LATCH] = USER
  <2>1. PICK i \in Fetch("KJMP") :
          /\ Retire(Target(regs[i.rd]), IF armed THEN USER ELSE SUPER,
                    IF armed THEN [mem EXCEPT ![MODE_LATCH] = 0] ELSE mem,
                    running, faulted)
          /\ UNCHANGED <<regs, img, saved>>
    BY <1>1, <1>20 DEF Kjmp
  <2>2. SequelOf(i) = Target(regs[i.rd])
    BY SequelMember DEF SequelOf
  <2>3. CASE armed
    <3>1. DOMAIN [mem EXCEPT ![MODE_LATCH] = 0] = DOMAIN mem
      OBVIOUS
    <3> QED
      BY <1>3, <2>1, <2>2, <2>3, <3>1, SequelMember
  <2>4. CASE ~armed
    BY <2>1, <2>4, RetireSuper DEF SwitchEntry
  <2> QED
    BY <2>3, <2>4
<1> QED
  BY <1>6, <1>7, <1>8, <1>9, <1>10, <1>11, <1>12, <1>13, <1>14, <1>15, <1>16, <1>17,
     <1>18, <1>19, <1>20 DEF Next, Branch, Memory, Parallel, Stack, Boundary

\* A step that would stay in USER mode leaves it only by the tick, and the tick
\* reports the place where the instruction under it goes on.
LEMMA TickStep ==
    ASSUME TypeOK, mode = USER, mode' = SUPER, HandsSequel
    PROVE  TickEntry
<1>0. PICK next, ram, run, flt :
          /\ Retire(next, USER, ram, run, flt)
          /\ DOMAIN mem \subseteq DOMAIN ram
          /\ next \in Sequel \/ ~run
  BY DEF HandsSequel
<1>1. /\ TILE_W \in DOMAIN ram /\ run /\ ~flt /\ ram[KTICK_PC] # 0
      /\ running' = run /\ faulted' = flt
      /\ pc' = Target(ram[KTICK_PC])
      /\ mem' = [ram EXCEPT ![TIMER_COUNT] = ram[TIMER_RELOAD], ![TICK_PC] = TickWord(next)]
  BY <1>0 DEF Retire, TimerRuns, SUPER, USER
<1>2. {KTICK_PC, TIMER_COUNT, TIMER_RELOAD, TICK_PC} \subseteq DOMAIN ram
  BY <1>0, MmioPresent DEF MmioWords, TypeOK, ControlOK, IsoEnabled, SUPER, USER
<1>3. /\ TICK_PC \notin {KTICK_PC, TIMER_COUNT, TIMER_RELOAD}
      /\ TIMER_COUNT \notin {KTICK_PC, TIMER_RELOAD}
  BY SizesAssumption DEF KTICK_PC, TIMER_COUNT, TIMER_RELOAD, TICK_PC
<1>4. mem'[KTICK_PC] = ram[KTICK_PC] /\ mem'[TIMER_COUNT] = mem'[TIMER_RELOAD]
  BY <1>1, <1>2, <1>3
<1>5. mem'[TICK_PC] = PackCell(next) /\ next \in Sequel
  BY <1>0, <1>1, <1>2, <1>3 DEF TickWord
<1> QED
  BY <1>1, <1>4, <1>5 DEF TickEntry

LEMMA EntryStep ==
    ASSUME TypeOK, [Next]_vars, mode = USER, mode' = SUPER
    PROVE  FaultEntry \/ SyscallEntry \/ TickEntry \/ SwitchEntry
<1>1. WholeRam(mem) /\ IsoEnabled /\ SUPER # USER
  BY DEF TypeOK, ControlOK, SUPER, USER
<1>2. FAULT_PC \in DOMAIN mem /\ SYSCALL_PC \in DOMAIN mem
  BY <1>1, MmioPresent DEF MmioWords, IsoEnabled
<1>3. CASE Silent
  BY <1>1, <1>3 DEF Silent
<1>4. CASE HandsSequel
  BY <1>4, TickStep
<1>5. CASE Faults
  BY <1>2, <1>5, FaultFrame DEF FaultEntry
<1>6. CASE SyscallTrap
  <2>1. /\ KsysPc # 0 /\ saved' = <<regs>> /\ regs' = regs /\ pc' = Target(KsysPc)
        /\ mem' = [mem EXCEPT ![SYS_N] = Mask(regs[17]), ![SYS_A0] = Mask(regs[10]),
                             ![SYS_A1] = Mask(regs[11]),
                             ![SYSCALL_PC] = PackCell(FallThrough)]
    BY <1>6, RetireSuper DEF SyscallTrap
  <2>2. mem'[SYSCALL_PC] = PackCell(FallThrough)
    BY <1>2, <2>1
  <2> QED
    BY <1>1, <2>1, <2>2 DEF SyscallEntry, KsysPc
<1>7. Next
  BY <1>1 DEF vars
<1> QED
  BY <1>3, <1>4, <1>5, <1>6, <1>7, TaskGoesOn

(* There are four ways out of USER mode and no other, for every program:   *)
(* whoever runs next finds a vector the kernel installed and the word it   *)
(* needs to resume or to reap the task: the faulting pc, the cell after    *)
(* the call, or the place where the interrupted instruction goes on.       *)
THEOREM TaskLeavesByTraps == Spec => TrapEntry
<1>1. TypeOK /\ [Next]_vars =>
        [(mode = USER /\ mode' = SUPER) =>
            FaultEntry \/ SyscallEntry \/ TickEntry \/ SwitchEntry]_vars
  BY EntryStep
<1> QED
  BY <1>1, TypeCorrect, PTL DEF Spec, TrapEntry

-------------------------------------------------------------------------------
(* What one step that a task takes leaves of the timer's words.            *)

\* The instruction hands Retire the timer's words as it found them.
HandsTimer ==
    \E next, md, ram, run, flt :
        /\ Retire(next, md, ram, run, flt)
        /\ DOMAIN mem \subseteq DOMAIN ram
        /\ \A w \in TimerWords : ram[w] = mem[w]

LEMMA TimerPresent ==
    ASSUME NEW ram, WholeRam(ram), TILE_W \in DOMAIN ram
    PROVE  /\ TimerWords \subseteq DOMAIN ram
           /\ \A w \in TimerWords : ram[w] \in Nat
BY MmioPresent DEF TimerWords, MmioWords

LEMMA TimerApart ==
    /\ TimerWords \cap (EngineWords \ {TIMER_COUNT}) = {}
    /\ TIMER_COUNT \notin EngineWords \ {TIMER_COUNT}
    /\ KTICK_PC # TIMER_COUNT /\ TIMER_RELOAD # TIMER_COUNT
    /\ TICK_PC \notin TimerWords
BY SizesAssumption DEF TimerWords, EngineWords, KTICK_PC, TIMER_COUNT, TIMER_RELOAD,
   TICK_PC, FAULT_ADDR, FAULT_PC, SYS_N, SYS_A0, SYS_A1, SYSCALL_PC, MODE_LATCH

LEMMA TaskStep ==
    ASSUME TypeOK, Next, mode = USER, Ungranted, Fetch("PARALLEL_ST") = {}
    PROVE  Silent \/ Faults \/ HandsTimer
<1>1. WholeRam(mem) /\ IsoEnabled /\ TimerWords \subseteq DOMAIN mem
  BY TimerPresent DEF TypeOK, ControlOK, IsoEnabled
<1>2. CASE Plain \/ Sysret
  BY <1>2 DEF Plain, Sysret, HandsTimer
<1>3. CASE Mirrors
  <2>1. PICK next, a, v : Retire(next, mode, MemWriteRam(a, v), running, faulted)
    BY <1>3 DEF Mirrors
  <2>2. /\ DOMAIN mem \subseteq DOMAIN MemWriteRam(a, v)
        /\ \A w \in TimerWords : MemWriteRam(a, v)[w] = mem[w]
    BY <1>1 DEF MemWriteRam, FsMirror, Ungranted
  <2> QED
    BY <2>1, <2>2 DEF HandsTimer
<1>4. CASE Stores
  <2>1. PICK a, v : /\ ~Paged(a) /\ Confined(a)
                    /\ Retire(FallThrough, mode, [mem EXCEPT ![a] = v], running, faulted)
    BY <1>4 DEF Stores
  <2>2. Granted(a)
    BY <2>1 DEF Granted, Confined, Paged, SUPER, USER
  <2>3. /\ DOMAIN mem \subseteq DOMAIN [mem EXCEPT ![a] = v]
        /\ \A w \in TimerWords : [mem EXCEPT ![a] = v][w] = mem[w]
    BY <1>1, <2>2 DEF Ungranted
  <2> QED
    BY <2>1, <2>3 DEF HandsTimer
<1>5. CASE PagedStores
  <2>1. PICK a, v :
          /\ a \in Int /\ Paged(a) /\ Storable(Pte(a)) /\ ~InPixels(Pte(a))
          /\ Retire(FallThrough, mode,
                    [Grown(Physical(Pte(a), a)) EXCEPT ![Physical(Pte(a), a)] = v],
                    running, faulted)
    BY <1>5 DEF PagedStores
  <2> DEFINE p == Physical(Pte(a), a)
             ram == [Grown(p) EXCEPT ![p] = v]
  <2>2. p \in Nat
    BY <2>1, PteType, PhysicalType
  <2>3. a \in 0 .. (PageWords * PageWords - 1)
    <3>1. Pte(a) # 0
      BY <2>1 DEF Storable, Readable, Valid
    <3> QED
      BY <2>1, <3>1, ProductNat, SizesAssumption DEF Pte
  <2>4. Granted(p)
    BY <2>1, <2>3 DEF Granted, Paged
  <2>5. DOMAIN mem \subseteq DOMAIN ram
    BY <1>1, <2>2, GrownWhole
  <2>6. ASSUME NEW w \in TimerWords
        PROVE  ram[w] = mem[w]
    <3>1. w \in DOMAIN mem /\ w # p
      BY <1>1, <2>4, <2>6 DEF Ungranted
    <3>2. Grown(p)[w] = mem[w] /\ w \in DOMAIN Grown(p)
      BY <1>1, <2>2, <3>1, GrownWhole
    <3> HIDE DEF p
    <3> QED
      BY <3>1, <3>2
  <2>7. Retire(FallThrough, mode, ram, running, faulted)
    BY <2>1
  <2> HIDE DEF ram
  <2> QED
    BY <2>5, <2>6, <2>7 DEF HandsTimer
<1>6. CASE SyscallTrap
  <2> DEFINE ram == [mem EXCEPT ![SYS_N] = Mask(regs[17]), ![SYS_A0] = Mask(regs[10]),
                                ![SYS_A1] = Mask(regs[11]),
                                ![SYSCALL_PC] = PackCell(FallThrough)]
  <2>1. Retire(Target(KsysPc), SUPER, ram, running, faulted)
    BY <1>6 DEF SyscallTrap
  <2>2. DOMAIN ram = DOMAIN mem
    OBVIOUS
  <2>3. {SYS_N, SYS_A0, SYS_A1, SYSCALL_PC} \cap TimerWords = {}
    BY SizesAssumption DEF TimerWords, KTICK_PC, TIMER_COUNT, TIMER_RELOAD, SYS_N,
       SYS_A0, SYS_A1, SYSCALL_PC
  <2>4. \A w \in TimerWords : ram[w] = mem[w]
    BY <1>1, <2>3
  <2> HIDE DEF ram
  <2> QED
    BY <2>1, <2>2, <2>4 DEF HandsTimer
<1>7. CASE SyscallHost
  <2> DEFINE zeroed == [w \in DOMAIN mem |-> IF w \in ReadSpan /\ InFsWindow(w)
                                             THEN 0 ELSE mem[w]]
  <2>1. PICK i \in Fetch("SYSCALL") :
          Retire(FallThrough, mode, IF i.imm = 2 THEN zeroed ELSE mem,
                 running /\ i.imm # 5, faulted)
    BY <1>7 DEF SyscallHost
  <2>2. DOMAIN zeroed = DOMAIN mem
    OBVIOUS
  <2>3. \A w \in TimerWords : zeroed[w] = mem[w]
    BY <1>1 DEF Ungranted
  <2> HIDE DEF zeroed
  <2> QED
    BY <2>1, <2>2, <2>3 DEF HandsTimer
<1>8. CASE Kjmp
  <2> DEFINE armed == IsoEnabled /\ mem[MODE_LATCH] = USER
             ram == IF armed THEN [mem EXCEPT ![MODE_LATCH] = 0] ELSE mem
  <2>1. PICK i \in Fetch("KJMP") :
          Retire(Target(regs[i.rd]),
                 IF armed THEN USER ELSE IF IsoEnabled THEN SUPER ELSE mode,
                 ram, running, faulted)
    BY <1>8 DEF Kjmp
  <2>2. MODE_LATCH \notin TimerWords
    BY SizesAssumption DEF TimerWords, KTICK_PC, TIMER_COUNT, TIMER_RELOAD, MODE_LATCH
  <2>3. DOMAIN ram = DOMAIN mem /\ \A w \in TimerWords : ram[w] = mem[w]
    BY <1>1, <2>2
  <2> HIDE DEF ram, armed
  <2> QED
    BY <2>1, <2>3 DEF HandsTimer
<1>9. ~ParallelSt
  BY DEF ParallelSt
<1> QED
  BY <1>2, <1>3, <1>4, <1>5, <1>6, <1>7, <1>8, <1>9, StepShape

-------------------------------------------------------------------------------
(* The invariant behind the bound: while a task runs, and from its first   *)
(* step to the next tick, the timer is armed, and what the task has used   *)
(* of its time and what the counter still grants it fit into the reload.   *)

TimerInv ==
    /\ ran \in Nat
    /\ ran # 0 \/ mode = USER =>
          Armed /\ ran + Ram(TIMER_COUNT) <= Ram(TIMER_RELOAD)

\* One step of the rely.
Keeping ==
    /\ Enters => Armed'
    /\ mode = SUPER /\ ran # 0 => \A w \in TimerWords : Ram(w)' = Ram(w)
    /\ mode = USER => Ungranted /\ Fetch("PARALLEL_ST") = {}
    /\ mode' = USER => ~faulted'

\* A RAM that agrees with an armed one on the timer's words is armed.
LEMMA ArmedStays ==
    ASSUME TypeOK, TypeOK', Armed, \A w \in TimerWords : Ram(w)' = Ram(w)
    PROVE  /\ Armed'
           /\ Ram(TIMER_COUNT)' = Ram(TIMER_COUNT)
           /\ Ram(TIMER_RELOAD)' = Ram(TIMER_RELOAD)
<1>1. /\ Ram(KTICK_PC)' = Ram(KTICK_PC)
      /\ Ram(TIMER_COUNT)' = Ram(TIMER_COUNT)
      /\ Ram(TIMER_RELOAD)' = Ram(TIMER_RELOAD)
  BY DEF TimerWords
<1>2. PICK m : m = mem'
  OBVIOUS
<1>3. WholeRam(m)
  BY <1>2 DEF TypeOK, ControlOK, WholeRam
<1>4. KTICK_PC \in DOMAIN m
  BY <1>1, <1>2 DEF Armed, Ram
<1>5. TILE_W \in DOMAIN m
  BY <1>3, <1>4, MmioWhole DEF MmioWords
<1> QED
  BY <1>1, <1>2, <1>5 DEF Armed, IsoEnabled

\* The kernel's side: it only hands the machine over armed.
LEMMA KernelKeeps ==
    ASSUME TypeOK, TypeOK', TimerInv, TNext, Keeping, mode = SUPER
    PROVE  TimerInv'
<1>1. ran' = ran
  BY DEF TNext, Note, Ticked, Leaves, SUPER, USER
<1>2. CASE ran # 0
  BY <1>1, <1>2, ArmedStays DEF TimerInv, Keeping
<1>3. CASE ran = 0 /\ mode' = USER
  <2>1. Armed'
    BY <1>3 DEF Keeping, Enters
  <2>2. Ram(TIMER_COUNT)' \in 1 .. Ram(TIMER_RELOAD)'
    BY <2>1 DEF Armed
  <2> QED
    BY <1>1, <1>3, <2>1, <2>2 DEF TimerInv
<1>4. CASE ran = 0 /\ mode' # USER
  BY <1>1, <1>4 DEF TimerInv
<1> QED
  BY <1>2, <1>3, <1>4

\* The task's side: a step that it retires is a step the timer counts.
LEMMA TaskKeeps ==
    ASSUME TypeOK, TypeOK', TimerInv, TNext, Keeping, mode = USER
    PROVE  TimerInv'
<1>1. /\ WholeRam(mem) /\ IsoEnabled /\ SUPER # USER /\ mode' \in {SUPER, USER}
      /\ TimerWords \subseteq DOMAIN mem
      /\ \A w \in TimerWords : mem[w] \in Nat /\ Ram(w) = mem[w]
  BY TimerPresent DEF TypeOK, ControlOK, IsoEnabled, SUPER, USER, Ram
<1>2. /\ Armed /\ mem[KTICK_PC] # 0 /\ mem[TIMER_COUNT] \in 1 .. mem[TIMER_RELOAD]
      /\ ran \in Nat /\ ran + mem[TIMER_COUNT] <= mem[TIMER_RELOAD]
  BY <1>1 DEF TimerInv, Armed, TimerWords
<1>3. CASE ran' \in {0, ran} /\ \A w \in TimerWords : Ram(w)' = Ram(w)
  <2>1. /\ Armed' /\ Ram(TIMER_COUNT)' = mem[TIMER_COUNT]
        /\ Ram(TIMER_RELOAD)' = mem[TIMER_RELOAD]
    BY <1>1, <1>2, <1>3, ArmedStays DEF TimerWords
  <2> QED
    BY <1>1, <1>2, <1>3, <2>1 DEF TimerInv, TimerWords
<1>4. CASE Silent
  <2>1. Next /\ stepped' # "true" /\ mem' = mem /\ mode' = mode
    BY <1>4 DEF TNext, Silent
  <2>2. ran' \in {0, ran}
    BY <2>1 DEF TNext, Note, Retired
  <2>3. \A w \in TimerWords : Ram(w)' = Ram(w)
    BY <2>1 DEF Ram
  <2> QED
    BY <1>3, <2>2, <2>3
<1>5. CASE Faults
  <2>1. mode' = SUPER /\ DOMAIN mem' = DOMAIN mem
        /\ \A w \in TimerWords : mem'[w] = mem[w]
    <3>1. TimerWords \cap {FAULT_ADDR, FAULT_PC} = {}
      BY SizesAssumption DEF TimerWords, KTICK_PC, TIMER_COUNT, TIMER_RELOAD,
         FAULT_ADDR, FAULT_PC
    <3> QED
      BY <1>1, <1>5, <3>1, FaultFrame
  <2>2. ran' \in {0, ran}
    BY <1>1, <2>1 DEF TNext, Note
  <2>3. \A w \in TimerWords : Ram(w)' = Ram(w)
    BY <2>1 DEF Ram
  <2> QED
    BY <1>3, <2>2, <2>3
<1>6. CASE HandsTimer
  <2>1. PICK next, md, ram, run, flt :
          /\ Retire(next, md, ram, run, flt)
          /\ DOMAIN mem \subseteq DOMAIN ram
          /\ \A w \in TimerWords : ram[w] = mem[w]
    BY <1>6 DEF HandsTimer
  <2>2. TILE_W \in DOMAIN ram /\ TimerWords \subseteq DOMAIN ram
        /\ ram[KTICK_PC] = mem[KTICK_PC] /\ ram[TIMER_COUNT] = mem[TIMER_COUNT]
        /\ ram[TIMER_RELOAD] = mem[TIMER_RELOAD]
    BY <1>1, <2>1 DEF IsoEnabled, TimerWords
  <2>3. stepped' = "true" /\ running' = run /\ faulted' = flt
    BY <2>1 DEF Retire
  <2>4. CASE ~TimerRuns(md, ram, run, flt) /\ mode' = md /\ mem' = ram
    <3>1. \A w \in TimerWords : Ram(w)' = Ram(w)
      BY <1>1, <2>1, <2>2, <2>4 DEF Ram
    <3>2. CASE mode' = SUPER
      BY <1>1, <1>3, <3>1, <3>2 DEF TNext, Note
    <3>3. CASE mode' = USER
      <4>1. ~flt
        BY <2>3, <3>3 DEF Keeping
      <4>2. ~run
        BY <1>2, <2>2, <2>4, <3>3, <4>1 DEF TimerRuns
      <4>3. ran' \in {0, ran}
        BY <2>3, <4>2 DEF TNext, Note, Retired
      <4> QED
        BY <1>3, <3>1, <4>3
    <3> QED
      BY <1>1, <3>2, <3>3
  <2>5. CASE /\ TimerRuns(md, ram, run, flt) /\ ram[TIMER_COUNT] > 1
             /\ mode' = md /\ mem' = [ram EXCEPT ![TIMER_COUNT] = @ - 1]
    <3>1. mode' = USER
      BY <2>5 DEF TimerRuns
    <3>2. ran' \in {ran, ran + 1}
      BY <1>1, <3>1 DEF TNext, Note, Ticked, Leaves
    <3>3. PICK m : m = mem'
      OBVIOUS
    <3>4. /\ DOMAIN m = DOMAIN ram /\ m[TIMER_COUNT] = mem[TIMER_COUNT] - 1
          /\ m[TIMER_RELOAD] = mem[TIMER_RELOAD] /\ m[KTICK_PC] = mem[KTICK_PC]
      BY <2>2, <2>5, <3>3, TimerApart DEF TimerWords
    <3>5. /\ Ram(TIMER_COUNT)' = mem[TIMER_COUNT] - 1
          /\ Ram(TIMER_RELOAD)' = mem[TIMER_RELOAD]
          /\ Ram(KTICK_PC)' = mem[KTICK_PC] /\ IsoEnabled'
      BY <2>2, <3>3, <3>4 DEF Ram, IsoEnabled, TimerWords
    <3>6. mem[TIMER_COUNT] > 1 /\ mem[TIMER_COUNT] \in Nat /\ mem[TIMER_RELOAD] \in Nat
      BY <1>1, <2>2, <2>5 DEF TimerWords
    <3>7. Armed'
      BY <1>2, <3>5, <3>6 DEF Armed
    <3> QED
      BY <1>2, <3>2, <3>5, <3>6, <3>7 DEF TimerInv
  <2>6. CASE /\ TimerRuns(md, ram, run, flt) /\ ram[TIMER_COUNT] = 1
             /\ pc' = Target(ram[KTICK_PC]) /\ mode' = SUPER
    <3>1. Ticked
      BY <2>2, <2>6 DEF Ticked, Leaves
    <3>2. ran' = 0
      BY <3>1 DEF TNext, Note
    <3> QED
      BY <1>1, <2>6, <3>2 DEF TimerInv
  <2> QED
    BY <2>1, <2>4, <2>5, <2>6 DEF Retire
<1>7. Next /\ Ungranted /\ Fetch("PARALLEL_ST") = {}
  BY DEF TNext, Keeping
<1> QED
  BY <1>4, <1>5, <1>6, <1>7, TaskStep

LEMMA StepIsNext ==
    ASSUME [TNext]_tvars
    PROVE  [Next]_vars
BY DEF TNext, tvars

\* The machine under observation is the machine.
LEMMA ObservedType == TSpec => []TypeOK
<1>1. TInit => Init
  BY DEF TInit
<1>2. [TNext]_tvars => [Next]_vars
  BY StepIsNext
<1> QED
  BY <1>1, <1>2, TypeCorrect, PTL DEF TSpec, Spec

(* The timer interrupts every task: on whatever program, and with whatever *)
(* mix of instructions, system calls and faults, a task takes fewer than   *)
(* TIMER_RELOAD steps between two ticks, provided that the kernel and the  *)
(* grants it makes keep their hands off the timer.                         *)
THEOREM TimerBoundsTask == TSpec /\ KeepsTimer => []PreemptionBound
<1>1. TInit => TimerInv
  BY DEF TInit, Init, TimerInv, SUPER, USER
<1>2. TypeOK /\ TypeOK' /\ TimerInv /\ [TNext]_tvars /\ [Keeping]_tvars => TimerInv'
  <2> SUFFICES ASSUME TypeOK, TypeOK', TimerInv, [TNext]_tvars, [Keeping]_tvars
               PROVE  TimerInv'
    OBVIOUS
  <2>1. CASE UNCHANGED tvars
    BY <2>1 DEF tvars, vars, TimerInv, Armed, IsoEnabled, Ram
  <2>2. CASE TNext /\ Keeping
    BY <2>2, KernelKeeps, TaskKeeps DEF TypeOK, ControlOK
  <2> QED
    BY <2>1, <2>2
<1>3. TypeOK /\ TimerInv => PreemptionBound
  <2> SUFFICES ASSUME TypeOK, TimerInv, IsoEnabled, mem[TIMER_RELOAD] > 0
               PROVE  ran < mem[TIMER_RELOAD]
    BY DEF PreemptionBound
  <2>1. /\ Ram(TIMER_COUNT) \in Nat /\ mem[TIMER_RELOAD] \in Nat
        /\ Ram(TIMER_RELOAD) = mem[TIMER_RELOAD]
    BY TimerPresent, RamType DEF TypeOK, ControlOK, IsoEnabled, TimerWords, Ram
  <2>2. ran # 0 => ran + Ram(TIMER_COUNT) <= Ram(TIMER_RELOAD) /\ Ram(TIMER_COUNT) >= 1
    BY <2>1 DEF TimerInv, Armed
  <2> QED
    BY <2>1, <2>2 DEF TimerInv
<1>4. KeepsTimer => [][Keeping]_tvars
  BY PTL DEF KeepsTimer, Keeping
<1> QED
  BY <1>1, <1>2, <1>3, <1>4, ObservedType, PTL DEF TSpec

-------------------------------------------------------------------------------
(* An exact return.                                                        *)

\* A fault ends at its own vector, or it ends the run.
LEMMA FaultVectors ==
    ASSUME Faults
    PROVE  pc' = Target(mem[KFAULT_PC]) \/ ~Stepping'
<1>1. PICK a : PageFault(a) \/ BoxFault(a)
  BY DEF Faults
<1>2. CASE Stop
  BY <1>2 DEF Stop, Stepping
<1>3. CASE ~Stop
  BY <1>1, <1>3, RetireSuper DEF PageFault, BoxFault
<1> QED
  BY <1>2, <1>3

\* What the kernel may do with the mode and with the snapshot.
LEMMA KernelStep ==
    ASSUME TypeOK, Next, mode = SUPER, Fetch("SYSCALL") = {}
    PROVE  /\ mode' = USER => Sysret \/ Kjmp
           /\ mode' # USER => saved' = saved
<1>1. mode' = USER => Sysret \/ Kjmp
  <2> SUFFICES ASSUME mode' = USER
               PROVE  Sysret \/ Kjmp
    OBVIOUS
  <2>1. mode' # mode
    BY DEF SUPER, USER
  <2>2. ~Silent
    BY <2>1 DEF Silent
  <2>3. ~Plain /\ ~Mirrors /\ ~Stores /\ ~PagedStores
    BY <2>1, RetireSuper DEF Plain, Mirrors, Stores, PagedStores
  <2>4. ~Faults
    BY FaultFrame DEF SUPER, USER
  <2>5. ~SyscallTrap /\ ~SyscallHost
    BY DEF SyscallTrap, SyscallHost
  <2>6. ~ParallelSt
    BY <2>1, RetireSuper DEF ParallelSt
  <2> QED
    BY <2>2, <2>3, <2>4, <2>5, <2>6, StepShape
<1>2. mode' # USER => saved' = saved
  <2>1. CASE Compute \/ Branch
    BY <2>1 DEF Compute, Branch, Ldi, Add, Sub, Bitwise, Cmp, Prt, Jmp, Jz, Jmpr
  <2>2. CASE Memory
    BY <2>2 DEF Memory, Ld, LdPaged, St, StPaged, PageFault, BoxFault
  <2>3. CASE Parallel \/ Stack
    BY <2>3 DEF Parallel, Stack, ParallelLd, ParallelSt, ParallelLanes, ParallelReduceSum,
       Push, Pop, Call, Callr, CallTo, Ret
  <2>4. CASE SyscallTrap \/ SyscallHost \/ Kjmp
    BY <2>4 DEF SyscallTrap, SyscallHost, Kjmp
  <2>5. CASE Sysret
    BY <2>5, RetireSuper DEF Sysret
  <2>6. CASE Ending
    BY <2>6 DEF Ending, Halt, Unknown, OffImage, Misaligned, SysretMissing, Raise, Unchanged
  <2> QED
    BY <2>1, <2>2, <2>3, <2>4, <2>5, <2>6 DEF Next, Boundary
<1> QED
  BY <1>1, <1>2

\* As long as the kernel has a task's return before it, the machine holds the
\* context: the snapshot and SYSCALL_PC, or the registers and TICK_PC.
ContextInv ==
    (mode = SUPER /\ left # <<>> /\ Stepping) =>
        /\ left[1].called => /\ saved = <<left[1].regs>>
                             /\ Target(Ram(SYSCALL_PC)) \in left[1].at
        /\ ~left[1].called => /\ \A r \in Reg \ Scratch : regs[r] = left[1].regs[r]
                              /\ Target(Ram(TICK_PC)) \in left[1].at

Yielding == /\ mode = SUPER /\ left # <<>> => Answering
            /\ mode = USER => Behaving

\* The vectors of a behaving task's step: read from the words they were in.
LEMMA VectorsApart ==
    ASSUME TypeOK, mode = USER, Behaving
    PROVE  /\ KsysPc = mem[KSYS_PC] /\ KTICK_PC \in DOMAIN mem
           /\ Target(mem[KSYS_PC]) # Target(mem[KFAULT_PC])
           /\ Target(mem[KTICK_PC]) # Target(mem[KFAULT_PC])
           /\ Target(mem[KTICK_PC]) # Target(mem[KSYS_PC])
<1>1. WholeRam(mem) /\ IsoEnabled
  BY DEF TypeOK, ControlOK, SUPER, USER
<1>2. \A w \in Handlers : w \in DOMAIN mem /\ mem[w] \in Word
  BY <1>1, MmioPresent DEF Handlers, MmioWords, IsoEnabled
<1>3. /\ KFAULT_PC # KSYS_PC /\ KTICK_PC # KFAULT_PC /\ KTICK_PC # KSYS_PC
  BY SizesAssumption DEF KFAULT_PC, KSYS_PC, KTICK_PC
<1>4. /\ mem[KSYS_PC] # mem[KFAULT_PC] /\ mem[KTICK_PC] # mem[KFAULT_PC]
      /\ mem[KTICK_PC] # mem[KSYS_PC]
  BY <1>2, <1>3 DEF Behaving, Handlers, Ram
<1>5. \A v \in Word : Target(v) = 4 * v
  BY SizesAssumption DEF Target, Mask, Word, INSTR_WIDTH
<1>6. \A v, w \in Word : Target(v) = Target(w) => v = w
  BY <1>5, SizesAssumption DEF Word
<1> QED
  BY <1>1, <1>2, <1>4, <1>6 DEF Handlers, KsysPc

\* A task that leaves by a call or a tick leaves its context behind.
LEMMA LeavingKeeps ==
    ASSUME TypeOK, TNext, mode = USER, Behaving, mode' = SUPER
    PROVE  ContextInv'
<1>1. WholeRam(mem) /\ IsoEnabled /\ SUPER # USER /\ Leaves
  BY DEF TypeOK, ControlOK, SUPER, USER, Leaves
<1>2. SYSCALL_PC \in DOMAIN mem /\ TICK_PC \in DOMAIN mem
  BY <1>1, MmioPresent DEF MmioWords, IsoEnabled
<1>3. Called <=> pc' = Target(mem[KSYS_PC])
  BY <1>1, VectorsApart DEF Called
<1>4. Ticked <=> pc' = Target(mem[KTICK_PC])
  BY <1>1 DEF Ticked
<1>5. left' = IF Called \/ Ticked
              THEN <<[regs |-> regs', called |-> Called,
                       at |-> IF Called THEN {FallThrough} ELSE Sequel]>>
              ELSE <<>>
  BY <1>1 DEF TNext, Note
<1>6. CASE Faults
  <2>1. CASE pc' = Target(mem[KFAULT_PC])
    <3>1. left' = <<>>
      BY <1>3, <1>4, <1>5, <2>1, VectorsApart
    <3> QED
      BY <3>1 DEF ContextInv
  <2>2. CASE ~Stepping'
    BY <2>2 DEF ContextInv
  <2> QED
    BY <1>6, <2>1, <2>2, FaultVectors
<1>7. CASE SyscallTrap
  <2>1. /\ saved' = <<regs>> /\ regs' = regs /\ pc' = Target(KsysPc)
        /\ mem' = [mem EXCEPT ![SYS_N] = Mask(regs[17]), ![SYS_A0] = Mask(regs[10]),
                             ![SYS_A1] = Mask(regs[11]),
                             ![SYSCALL_PC] = PackCell(FallThrough)]
    BY <1>7, RetireSuper DEF SyscallTrap
  <2>2. Ram(SYSCALL_PC)' = PackCell(FallThrough)
    BY <1>2, <2>1 DEF Ram
  <2>3. Called
    BY <1>3, <2>1, VectorsApart
  <2>4. /\ left'[1].regs = regs /\ left'[1].at = {FallThrough} /\ left'[1].called
    BY <1>5, <2>1, <2>3
  <2>5. Target(PackCell(FallThrough)) = FallThrough
    BY <1>7, FallsThrough DEF SyscallTrap, Jumps, Behaving
  <2>6. Target(Ram(SYSCALL_PC)') \in left'[1].at
    BY <2>2, <2>4, <2>5
  <2> QED
    BY <2>1, <2>4, <2>6 DEF ContextInv
<1>8. CASE HandsSequel
  <2>1. PICK next, ram, run, flt :
          /\ Retire(next, USER, ram, run, flt)
          /\ DOMAIN mem \subseteq DOMAIN ram
          /\ next \in Sequel \/ ~run
    BY <1>8 DEF HandsSequel
  <2>2. /\ run /\ pc' = Target(ram[KTICK_PC])
        /\ mem' = [ram EXCEPT ![TIMER_COUNT] = ram[TIMER_RELOAD], ![TICK_PC] = PackCell(next)]
    BY <1>1, <2>1 DEF Retire, TimerRuns, TickWord
  <2>3. /\ TICK_PC # TIMER_COUNT /\ KTICK_PC # TIMER_COUNT /\ KTICK_PC # TICK_PC
    BY SizesAssumption DEF KTICK_PC, TIMER_COUNT, TICK_PC
  <2>4. KTICK_PC \in DOMAIN ram /\ TICK_PC \in DOMAIN ram
    BY <1>2, <2>1, VectorsApart
  <2>5. Ram(TICK_PC)' = PackCell(next) /\ Ram(KTICK_PC)' = ram[KTICK_PC]
    BY <2>2, <2>3, <2>4 DEF Ram
  <2>6. ram[KTICK_PC] = mem[KTICK_PC]
    BY <2>5, VectorsApart DEF Behaving, Handlers, Ram
  <2>7. Ticked /\ ~Called
    BY <1>3, <1>4, <2>2, <2>6, VectorsApart
  <2>8. /\ left'[1].regs = regs' /\ left'[1].at = Sequel /\ ~left'[1].called
    BY <1>5, <2>7
  <2>9. next \in Sequel /\ Target(PackCell(next)) = next
    BY <2>1, <2>2 DEF Behaving
  <2>10. Target(Ram(TICK_PC)') \in left'[1].at
    BY <2>5, <2>8, <2>9
  <2> QED
    BY <2>8, <2>10 DEF ContextInv
<1>9. CASE Silent
  BY <1>1, <1>9 DEF Silent
<1>10. Next /\ ~SwitchEntry
  BY DEF TNext, Behaving, SwitchEntry
<1> QED
  BY <1>6, <1>7, <1>8, <1>9, <1>10, TaskGoesOn

\* Until it answers, the kernel leaves the context where it is.
LEMMA AnsweringKeeps ==
    ASSUME TypeOK, TNext, ContextInv, mode = SUPER, mode' = SUPER, left # <<>>, Answering
    PROVE  ContextInv'
<1>1. Stepping /\ Next
  BY DEF TNext, Next, Compute, Branch, Memory, Parallel, Stack, Boundary, Ending, Ldi, Add,
     Sub, Bitwise, Cmp, Prt, Jmp, Jz, Jmpr, Ld, LdPaged, St, StPaged, ParallelLd, ParallelSt,
     ParallelLanes, ParallelReduceSum, Push, Pop, Call, Callr, Ret, SyscallTrap, SyscallHost,
     Sysret, Kjmp, Halt, Unknown, OffImage, Misaligned, SysretMissing, Fetch, Fetched
<1>2. left' = left
  BY DEF TNext, Note, Called, Ticked, Leaves, Enters, SUPER, USER
<1>3. saved' = saved
  BY <1>1, KernelStep DEF Answering, SUPER, USER
<1>4. CASE left[1].called
  BY <1>1, <1>2, <1>3, <1>4 DEF ContextInv, Answering
<1>5. CASE ~left[1].called
  BY <1>1, <1>2, <1>5 DEF ContextInv, Answering
<1> QED
  BY <1>4, <1>5

\* The answer gives the task its context back.
LEMMA AnswerGives ==
    ASSUME TypeOK, TNext, ContextInv, Enters, left # <<>>, Answering
    PROVE  /\ pc' \in left[1].at
           /\ \A r \in Reg \ (Scratch \cup (IF left[1].called THEN {10} ELSE {})) :
                 regs'[r] = left[1].regs[r]
<1>1. /\ mode = SUPER /\ mode' = USER /\ Next
      /\ Sysret \/ Kjmp
  BY KernelStep DEF TNext, Enters, Answering
<1>2. Stepping
  BY <1>1 DEF Sysret, Kjmp, Fetch, Fetched
<1>3. CASE left[1].called
  <2>1. Sysret
    BY <1>1, <1>3 DEF Answering, Kjmp
  <2>2. saved = <<left[1].regs>> /\ Target(Ram(SYSCALL_PC)) \in left[1].at
    BY <1>1, <1>2, <1>3 DEF ContextInv
  <2>3. /\ pc' = Target(mem[SYSCALL_PC]) /\ IsoEnabled
        /\ regs' = [(IF saved = <<>> THEN regs ELSE saved[1]) EXCEPT ![10] = mem[SYS_A0]]
    BY <1>1, <2>1, RetireSuper DEF Sysret
  <2>4. Ram(SYSCALL_PC) = mem[SYSCALL_PC]
    BY <2>3, MmioPresent DEF Ram, MmioWords, IsoEnabled, TypeOK, ControlOK
  <2>5. saved # <<>> /\ saved[1] = left[1].regs /\ saved[1] \in [Reg -> Int]
    BY <2>2 DEF TypeOK, DataOK
  <2>6. regs' = [left[1].regs EXCEPT ![10] = mem[SYS_A0]] /\ left[1].regs \in [Reg -> Int]
    BY <2>3, <2>5
  <2>7. \A r \in Reg \ {10} : regs'[r] = left[1].regs[r]
    BY <2>6
  <2> QED
    BY <1>3, <2>2, <2>3, <2>4, <2>7
<1>4. CASE ~left[1].called
  <2>1. pc' = Target(Ram(TICK_PC)) /\ \A r \in Reg \ Scratch : regs'[r] = regs[r]
    BY <1>4 DEF Answering
  <2>2. Target(Ram(TICK_PC)) \in left[1].at
        /\ \A r \in Reg \ Scratch : regs[r] = left[1].regs[r]
    BY <1>1, <1>2, <1>4 DEF ContextInv
  <2> QED
    BY <1>4, <2>1, <2>2
<1> QED
  BY <1>3, <1>4

(* A system call or a tick gives a task back what it left with: on every   *)
(* program it goes on after a call at the next cell, and after a tick at   *)
(* the one place where the instruction under the tick goes on (the target  *)
(* of a branch, the return address on the stack, the register of an        *)
(* indirect call), however long the kernel takes, provided that the kernel *)
(* is not re-entered and keeps to its scratch registers.                   *)
THEOREM TaskResumesExactly == TSpec /\ KeepsContext => ResumesExactly
<1>1. TInit => ContextInv
  BY DEF TInit, ContextInv
<1>2. TypeOK /\ ContextInv /\ [TNext]_tvars /\ [Yielding]_tvars => ContextInv'
  <2> SUFFICES ASSUME TypeOK, ContextInv, [TNext]_tvars, [Yielding]_tvars
               PROVE  ContextInv'
    OBVIOUS
  <2>1. CASE UNCHANGED tvars
    BY <2>1 DEF tvars, vars, ContextInv, Stepping, Ram
  <2>2. CASE TNext /\ Yielding
    <3>1. CASE mode' # SUPER
      BY <3>1 DEF ContextInv
    <3>2. CASE mode = USER /\ mode' = SUPER
      BY <2>2, <3>2, LeavingKeeps DEF Yielding
    <3>3. CASE mode = SUPER /\ mode' = SUPER /\ left # <<>>
      BY <2>2, <3>3, AnsweringKeeps DEF Yielding
    <3>4. CASE mode = SUPER /\ mode' = SUPER /\ left = <<>>
      <4>1. left' = <<>>
        BY <2>2, <3>4 DEF TNext, Note, Called, Ticked, Leaves, SUPER, USER
      <4> QED
        BY <4>1 DEF ContextInv
    <3>5. mode \in {SUPER, USER}
      BY DEF TypeOK, ControlOK
    <3> QED
      BY <3>1, <3>2, <3>3, <3>4, <3>5
  <2> QED
    BY <2>1, <2>2
<1>3. TypeOK /\ ContextInv /\ [TNext]_tvars /\ [Yielding]_tvars =>
        [(Enters /\ left # <<>>) =>
            /\ pc' \in left[1].at
            /\ \A r \in Reg \ (Scratch \cup (IF left[1].called THEN {10} ELSE {})) :
                  regs'[r] = left[1].regs[r]]_tvars
  BY AnswerGives DEF Yielding, Enters
<1>4. KeepsContext => [][Yielding]_tvars
  BY PTL DEF KeepsContext, Yielding
<1> QED
  BY <1>1, <1>2, <1>3, <1>4, ObservedType, PTL DEF TSpec, ResumesExactly

===============================================================================
