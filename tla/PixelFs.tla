--------------------------------- MODULE PixelFs -------------------------------
(***************************************************************************)
(* The kernels whose files live in the image (tools/glyph_gpt/baker.py):   *)
(* the file system of GH-8 and the tickets of GH-14.  Words 1024..1049 are *)
(* pixels, so a drive that is cut short leaves behind what it had stored.  *)
(* RAM words die with the drive: the RAM stores of a block are one step,   *)
(* its pixel stores one step each.                                         *)
(***************************************************************************)
EXTENDS Integers, Sequences

CONSTANTS Legs,      \* images that are driven
          Contents   \* data an image may bring along: records [d0, d1, d2, d3]

AllLegs == {"fs", "fs_del", "fs_fault", "tickets", "tickets_fault"}
ASSUME LegsAssumption == Legs \subseteq AllLegs
\* Small enough for the agents' sums to stay below 2^32.
MaxContent == 268435455
ASSUME ContentsAssumption ==
    \A c \in Contents : c \in [{"d0", "d1", "d2", "d3"} -> 1 .. MaxContent]

VARIABLES
    leg,      \* the image
    disk,     \* pixels: the file table, the data, the receipts
    todo,     \* pixel stores that the current block still has to make
    pc,       \* "off" between drives, else the label reached once todo is empty
    ret,      \* label at which SYSRET resumes the task
    n, a0, a1,    \* SYS_N, SYS_A0, SYS_A1
    sel,      \* word 760, seeded by the host: 2 selects agent B
    work,     \* r2 of an agent
    ram,      \* the words of the arenas
    status,
    boot      \* history: the pixels when the drive began

cpu == <<ret, n, a0, a1, work>>
vars == <<leg, disk, todo, pc, cpu, sel, ram, status, boot>>

-------------------------------------------------------------------------------
NAME_DATA == 1096040772
PAYLOAD0 == 287454020
PAYLOAD1 == 1432778632
TICK_A == 1262698836
TICK_B == 1262699092
A_PAYLOAD == 7
B_PAYLOAD == 5
DATA_WORD == 1044
FILE_BYTES == 8
Err == 69
Ok == 86
NoStatus == "none"
KERNEL_OK == "0xCAFE000x"   \* 8 or 2 by kernel
FAULT_SEEN == 1028465

Fs == leg \in {"fs", "fs_del", "fs_fault"}
Faulty == leg \in {"fs_fault", "tickets_fault"}

Blank == [name0 |-> 0, start0 |-> 0, len0 |-> 0, use0 |-> 0, d0 |-> 0, d1 |-> 0,
          name1 |-> 0, start1 |-> 0, len1 |-> 0, use1 |-> 0, d2 |-> 0, d3 |-> 0,
          rsltA |-> 0, rsltB |-> 0]
PixelWords == DOMAIN Blank
St(w, v) == [word |-> w, value |-> v]

\* SYS 6 claims slot 0 and copies the two scratch words.
CreateStores(name, len, x, y) ==
    <<St("name0", name), St("start0", DATA_WORD), St("len0", len), St("use0", 1),
      St("d0", x), St("d1", y)>>
TicketStores ==
    <<St("name0", TICK_A), St("start0", DATA_WORD), St("len0", 2), St("use0", 1),
      St("d0", A_PAYLOAD), St("d1", 0),
      St("name1", TICK_B), St("start1", DATA_WORD + 2), St("len1", 2), St("use1", 1),
      St("d2", B_PAYLOAD), St("d3", 0)>>
After(d, stores) ==
    [w \in PixelWords |->
        LET S == {i \in DOMAIN stores : stores[i].word = w}
        IN  IF S = {} THEN d[w] ELSE stores[CHOOSE i \in S : TRUE].value]

ColdRam == [scratch0 |-> 0, scratch1 |-> 0, readout0 |-> 0, readout1 |-> 0, exitA |-> 0,
            exitB |-> 0, uartA |-> 0, uartB |-> 0, mailbox |-> 0, claimed |-> 0, fault |-> 0]

-------------------------------------------------------------------------------
(* The host.                                                               *)
\* A drive starts from cold RAM; its prologue zeroes no pixel.
Drive(s) ==
    /\ pc = "off" /\ sel' = s /\ boot' = disk
    /\ pc' = IF Fs THEN "taskA" ELSE "seed"
    /\ UNCHANGED <<leg, disk, todo, cpu, ram, status>>
\* The receipt is read after HALT, or once max_instructions are spent.
EndDrive ==
    /\ pc # "off" /\ pc' = "off" /\ todo' = <<>> /\ ram' = ColdRam /\ status' = NoStatus
    /\ ret' = "off" /\ n' = 0 /\ a0' = 0 /\ a1' = 0 /\ work' = 0 /\ sel' = 0 /\ boot' = disk
    /\ UNCHANGED <<leg, disk>>

\* One ST into the window.
Store ==
    /\ todo # <<>> /\ todo' = Tail(todo)
    /\ disk' = [disk EXCEPT ![Head(todo).word] = Head(todo).value]
    /\ UNCHANGED <<leg, pc, cpu, sel, ram, status, boot>>
At(l) == pc = l /\ todo = <<>>
Still == UNCHANGED <<leg, sel, boot>>

-------------------------------------------------------------------------------
(* The tasks.  A task stages its arguments and traps with SYSCALL.         *)
Trap(nr, x, y, back) ==
    /\ n' = nr /\ a0' = x /\ a1' = y /\ ret' = back /\ pc' = "ksys"
    /\ UNCHANGED <<disk, todo, status>> /\ Still
Go(l) == pc' = l /\ UNCHANGED <<disk, todo, cpu, status>> /\ Still

\* Seeded fault: the vector leads to the dispatch of the other task.
FaultToDispatch == Go("dispatch")
\* The store at word 900 is outside the box: KFAULT_PC.
FaultVector == Go("fault")

\* GH-8.  Task A stages the payload and creates; task B reads, and in the delete
\* leg deletes and reads again.
FsTaskA ==
    /\ At("taskA") /\ Fs
    /\ IF Faulty THEN FaultVector /\ UNCHANGED ram
       ELSE /\ ram' = [ram EXCEPT !.scratch0 = PAYLOAD0, !.scratch1 = PAYLOAD1]
            /\ Trap(6, NAME_DATA, FILE_BYTES, "exitA") /\ UNCHANGED work
FsExitA == At("exitA") /\ Fs /\ ram' = [ram EXCEPT !.exitA = 6] /\ Go("dispatch")
FsDispatch == At("dispatch") /\ Go("taskB") /\ UNCHANGED ram
FsTaskB ==
    /\ At("taskB") /\ Fs /\ Trap(7, NAME_DATA, FILE_BYTES, "exitB") /\ UNCHANGED <<work, ram>>
FsExitB ==
    /\ At("exitB") /\ Fs /\ ram' = [ram EXCEPT !.exitB = 7]
    /\ IF leg = "fs_del" THEN Trap(8, NAME_DATA, 0, "reread") /\ UNCHANGED work ELSE Go("done")
FsReread ==
    /\ At("reread") /\ Trap(7, NAME_DATA, FILE_BYTES, "done") /\ UNCHANGED <<work, ram>>

\* GH-14.  The prologue seeds the tickets once; word 760 selects the agent.
Seed ==
    /\ At("seed") /\ todo' = IF disk.use0 = 1 THEN <<>> ELSE TicketStores
    /\ pc' = IF sel = 2 THEN "taskB" ELSE "taskA"
    /\ UNCHANGED <<disk, cpu, ram, status>> /\ Still
\* Agent A claims its ticket, doubles the payload and signals slot 0.
AgentA ==
    /\ At("taskA") /\ ~Fs /\ UNCHANGED ram
    /\ IF Faulty THEN FaultVector ELSE Trap(1, TICK_A, 0, "workA") /\ UNCHANGED work
WorkA ==
    /\ At("workA") /\ work' = 2 * ram.readout0 /\ ram' = [ram EXCEPT !.uartA = work']
    /\ Trap(3, work', 0, "exitA")
AgentExitA == At("exitA") /\ ~Fs /\ ram' = [ram EXCEPT !.exitA = 1] /\ Go("done")
\* Agent B claims its ticket, triples the payload, adds A's receipt and signals slot 1.
AgentB == At("taskB") /\ ~Fs /\ Trap(2, TICK_B, 0, "workB") /\ UNCHANGED <<work, ram>>
WorkB ==
    /\ At("workB") /\ work' = 3 * ram.readout0 /\ ram' = [ram EXCEPT !.uartB = work']
    /\ Trap(4, 0, 0, "combineB")
CombineB ==
    /\ At("combineB") /\ work' = work + ram.readout0 /\ ram' = [ram EXCEPT !.uartB = work']
    /\ Trap(3, work', 1, "exitB")
AgentExitB == At("exitB") /\ ~Fs /\ ram' = [ram EXCEPT !.exitB = 2] /\ Go("done")

-------------------------------------------------------------------------------
(* The syscall handlers, in SUPER mode: each leaves its result in SYS_A0.  *)
(* No task of these images calls a number that they do not know.           *)
Served(nrs) == At("ksys") /\ n \in nrs
Reply(v) == a0' = v /\ pc' = "sysret" /\ UNCHANGED <<ret, n, a1, work, status>> /\ Still
NoStore == UNCHANGED <<disk, todo>>

\* Seeded fault: no guard, so a later drive replays the canonical payload.
CreateStoresAlways(d) == CreateStores(a0, a1, ram.scratch0, ram.scratch1)
\* Seeded fault: in_use is stored before the other words of the slot.
CreateStoresFlagFirst(d) ==
    IF d.use0 = 1 THEN <<>>
    ELSE <<St("use0", 1), St("name0", a0), St("start0", DATA_WORD), St("len0", a1),
           St("d0", ram.scratch0), St("d1", ram.scratch1)>>
\* Seeded fault: the length and the flag are swapped.
CreateStoresSwapped(d) ==
    IF d.use0 = 1 THEN <<>>
    ELSE <<St("name0", a0), St("start0", DATA_WORD), St("len0", 1), St("use0", a1),
           St("d0", ram.scratch0), St("d1", ram.scratch1)>>
\* A slot in use is left as it is: create is then a no-op.
StoresOfCreate(d) ==
    IF d.use0 = 1 THEN <<>> ELSE CreateStores(a0, a1, ram.scratch0, ram.scratch1)
SysCreate ==
    /\ Served({6}) /\ todo' = StoresOfCreate(disk) /\ Reply(a1) /\ UNCHANGED <<disk, ram>>

\* The lookup compares names only.
Found == IF disk.name0 = a0 THEN 0 ELSE IF disk.name1 = a0 THEN 1 ELSE 2
Miss == Found = 2
DataFound == IF Found = 0 THEN <<disk.d0, disk.d1>> ELSE <<disk.d2, disk.d3>>
ReadOut(d) == [ram EXCEPT !.readout0 = d[1], !.readout1 = d[2]]
SysRead ==
    /\ Served({7}) /\ NoStore
    /\ ram' = ReadOut(IF Miss THEN <<Err, 0>> ELSE DataFound)
    /\ Reply(IF Miss THEN 0 ELSE FILE_BYTES)

\* Seeded fault: only the name is cleared.
StoresOfDeleteName(s) == <<St("name0", 0)>>
\* Unlink: the name, then the flag.
StoresOfDelete(s) ==
    CASE s = 0 -> <<St("name0", 0), St("use0", 0)>>
      [] s = 1 -> <<St("name1", 0), St("use1", 0)>>
      [] OTHER -> <<>>
SysDelete ==
    /\ Served({8}) /\ todo' = StoresOfDelete(Found)
    /\ Reply(IF Miss THEN 0 ELSE 1) /\ UNCHANGED <<disk, ram>>

SysClaim ==
    /\ Served({1, 2}) /\ NoStore
    /\ ram' = IF Miss THEN [ram EXCEPT !.claimed = Err]
              ELSE [ReadOut(DataFound) EXCEPT !.claimed = Ok]
    /\ Reply(IF Miss THEN 0 ELSE 4)
SysSignal ==
    /\ Served({3}) /\ ram' = [ram EXCEPT !.mailbox = a0] /\ UNCHANGED disk
    /\ todo' = <<St(IF a1 = 0 THEN "rsltA" ELSE "rsltB", a0)>> /\ Reply(4)
\* Seeded fault: recv reads the mailbox word, as its docstring has it.
InboxMailbox == ram.mailbox
\* A's receipt is read from its pixels.
Inbox == disk.rsltA
SysRecv ==
    /\ Served({4}) /\ ram' = [ram EXCEPT !.readout0 = Inbox] /\ NoStore /\ Reply(4)

Sysret ==
    /\ At("sysret") /\ pc' = ret /\ UNCHANGED <<disk, todo, cpu, ram, status>> /\ Still
FaultHandler ==
    /\ At("fault") /\ ram' = [ram EXCEPT !.fault = FAULT_SEEN] /\ Go("done")
DoneTail ==
    /\ At("done") /\ pc' = "halted" /\ status' = KERNEL_OK
    /\ UNCHANGED <<disk, todo, cpu, ram>> /\ Still

-------------------------------------------------------------------------------
(* What an image brings along: nothing, or what an earlier drive stored.   *)
Kept(c) ==
    LET d == After(Blank, IF Fs THEN CreateStores(NAME_DATA, FILE_BYTES, 0, 0)
                          ELSE TicketStores)
    IN  IF Fs THEN [d EXCEPT !.d0 = c.d0, !.d1 = c.d1]
        ELSE [d EXCEPT !.d0 = c.d0, !.d1 = c.d1, !.d2 = c.d2, !.d3 = c.d3]
Init ==
    /\ leg \in Legs /\ disk \in {Blank} \cup {Kept(c) : c \in Contents} /\ boot = disk
    /\ todo = <<>> /\ pc = "off" /\ ret = "off" /\ n = 0 /\ a0 = 0 /\ a1 = 0 /\ sel = 0
    /\ work = 0 /\ ram = ColdRam /\ status = NoStatus

Host == EndDrive \/ \E s \in {0, 1, 2} : (Fs => s = 0) /\ Drive(s)
FsTasks == FsTaskA \/ FsExitA \/ FsDispatch \/ FsTaskB \/ FsExitB \/ FsReread
Agents == AgentA \/ WorkA \/ AgentExitA \/ AgentB \/ WorkB \/ CombineB \/ AgentExitB
Kernel == \/ Seed \/ Store \/ SysCreate \/ SysRead \/ SysDelete
          \/ SysClaim \/ SysSignal \/ SysRecv \/ Sysret \/ FaultHandler \/ DoneTail
Next == Host \/ FsTasks \/ Agents \/ Kernel
Spec == Init /\ [][Next]_vars

-------------------------------------------------------------------------------
TypeOK ==
    /\ leg \in Legs /\ sel \in {0, 1, 2} /\ status \in {NoStatus, KERNEL_OK}
    /\ disk \in [PixelWords -> Nat] /\ boot \in [PixelWords -> Nat]
    /\ disk.use0 \in {0, 1} /\ disk.use1 \in {0, 1}
    /\ disk.name0 \in {0, NAME_DATA, TICK_A} /\ disk.name1 \in {0, TICK_B}
    /\ todo \in Seq([word : PixelWords, value : Nat]) /\ Len(todo) <= 12
    /\ ram \in [DOMAIN ColdRam -> Nat] /\ n \in 0 .. 8 /\ a0 \in Nat /\ a1 \in Nat /\ work \in Nat

\* A slot that is in use has all its words and its data.
Whole(d) ==
    d.use0 = 1 =>
      IF Fs THEN d.name0 = NAME_DATA /\ d.len0 = FILE_BYTES /\ d.d0 # 0 /\ d.d1 # 0
      ELSE d.name0 = TICK_A /\ d.use1 = 1 /\ d.name1 = TICK_B /\ d.d0 # 0 /\ d.d2 # 0
Finished == pc = "halted" /\ Whole(boot)

(* A drive of GH-8 that is not cut short reads back the file: the stored   *)
(* bytes when the image brought a whole one along, else the payload.       *)
ReadsBack ==
    Finished /\ leg = "fs" =>
      /\ <<ram.readout0, ram.readout1>> =
            IF boot.use0 = 1 THEN <<boot.d0, boot.d1>> ELSE <<PAYLOAD0, PAYLOAD1>>
      /\ a0 = FILE_BYTES /\ ram.exitA = 6 /\ ram.exitB = 7

(* After the delete leg the name misses and the slot can be claimed again. *)
DeleteFrees ==
    Finished /\ leg = "fs_del" =>
      /\ ram.readout0 = Err /\ a0 = 0
      /\ disk.use0 = 0 /\ disk.name0 = 0

(* However a drive is cut, a slot in use is one that a lookup can trust:   *)
(* its start and length are stored, and its name unless it was deleted.    *)
NamedBeforeUse ==
    disk.use0 = 1 =>
      /\ disk.start0 = DATA_WORD /\ disk.len0 # 0
      /\ disk.name0 # 0 \/ leg = "fs_del"

(* Agent B combines its own ticket with what A left on the image in an     *)
(* earlier drive, and leaves the sum on the image: the channel is A's      *)
(* receipt, and not the mailbox word as the docstrings of SYS 4 say.       *)
Delivered ==
    Finished /\ ~Fs /\ sel = 2 =>
      /\ ram.claimed = Ok /\ ram.exitB = 2
      /\ ram.uartB = 3 * disk.d2 + boot.rsltA /\ disk.rsltB = ram.uartB

(* A task that faults stores nothing: no exit, no file, no receipt, and no *)
(* other task runs, but the drive still ends with the status.              *)
Contained ==
    pc = "halted" /\ Faulty /\ (Fs \/ sel # 2) =>
      /\ ram.fault = FAULT_SEEN /\ ram.exitA = 0 /\ ram.exitB = 0
      /\ disk.rsltA = boot.rsltA /\ (Fs => disk = boot)
===============================================================================
