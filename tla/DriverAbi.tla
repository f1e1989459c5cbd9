-------------------------------- MODULE DriverAbi ------------------------------
(***************************************************************************)
(* The driver microkernel of GH-22 (tools/glyph_gpt/gh22_driver_abi.py):   *)
(* an app and an unprivileged driver in boxes of their own, the kernel as  *)
(* the postman between them, and the registers of the device DEV-U1, which *)
(* are words of the driver's box.  Every register store is a step.         *)
(***************************************************************************)
EXTENDS Integers

CONSTANTS Legs,     \* images that are driven
          Requests  \* what the app is baked to send: [op, payload]

Byte == 0 .. 255
ASSUME LegsAssumption == Legs \subseteq {"good", "corrupt", "fault", "corrupt_fault"}
ASSUME RequestsAssumption == Requests \subseteq [op : Byte, payload : Byte]

VARIABLES
    leg, ask,   \* the image and its request
    pc, ret,    \* the label reached; where SYSRET resumes the task
    n, a0,      \* SYS_N and SYS_A0, which only SYS 6 reads
    ram,        \* the words of the arenas and the mailbox
    dev,        \* DEV-U1: DATA and STATUS
    status

vars == <<leg, ask, pc, ret, n, a0, ram, dev, status>>

-------------------------------------------------------------------------------
Verified == 86
Errored == 69
FAULT_SEEN == 1028465
TxActive == 1
Quiescent == 129
NoStatus == "none"
KERNEL_OK == "0xCAFE001A"

\* A request word: checksum, opcode and payload byte; 0 is the zeroed word.
Packet(ck, op, payload) == [ck |-> ck, op |-> op, payload |-> payload]
Zeroed == Packet(0, 0, 0)
ColdRam == [scratch |-> Zeroed, uart |-> Zeroed, mailbox |-> Zeroed, request |-> Zeroed,
            reply |-> 0, readout |-> 0, exitApp |-> FALSE, exitDrv |-> FALSE, fault |-> 0]
ColdDev == [data |-> 0, status |-> 0]

\* Seeded fault: the sum is not masked to a byte.
SumUnmasked(op, payload) == op + payload
Sum(op, payload) == (op + payload) % 256
\* Seeded fault: the driver does not look.
ChecksTrust(p) == TRUE
Checks(p) == p.ck = (p.op + p.payload) % 256

Fixed == UNCHANGED <<leg, ask>>
Go(l) == pc' = l /\ UNCHANGED <<ret, n, a0, status>> /\ Fixed

-------------------------------------------------------------------------------
(* The host.  The prologue zeroes every word, the registers with them.     *)
Drive == pc = "off" /\ Go("app1") /\ UNCHANGED <<ram, dev>>
EndDrive ==
    /\ pc # "off" /\ pc' = "off" /\ ret' = "off" /\ n' = 0 /\ a0' = Zeroed
    /\ ram' = ColdRam /\ dev' = ColdDev /\ status' = NoStatus /\ Fixed

-------------------------------------------------------------------------------
(* The app, first phase: build the request, keep a copy, send it.          *)
Corrupting == leg \in {"corrupt", "corrupt_fault"}
Faulting == leg \in {"fault", "corrupt_fault"}
FlipBit(b) == IF b % 2 = 0 THEN b + 1 ELSE b - 1
Built ==
    LET ck == Sum(ask.op, ask.payload)
    IN  Packet(IF Corrupting THEN FlipBit(ck) ELSE ck, ask.op, ask.payload)
App1 ==
    /\ pc = "app1" /\ ram' = [ram EXCEPT !.scratch = Built, !.uart = Built]
    /\ n' = 6 /\ a0' = Built /\ ret' = "app1exit" /\ pc' = "ksys"
    /\ UNCHANGED <<dev, status>> /\ Fixed
App1Exit ==
    /\ pc = "app1exit" /\ ram' = [ram EXCEPT !.exitApp = TRUE] /\ Go("dispatch_drv")
    /\ UNCHANGED dev
\* The dispatch legs latch USER mode and jump.
Dispatch ==
    /\ \/ pc = "dispatch_drv" /\ Go("drv")
       \/ pc = "dispatch_app2" /\ Go("app2")
    /\ UNCHANGED <<ram, dev>>

(* The driver: fetch the request, check it, run the PUT sequence, reply.   *)
Drv ==
    /\ pc = "drv" /\ n' = 7 /\ a0' = Zeroed /\ ret' = "drvcheck" /\ pc' = "ksys"
    /\ UNCHANGED <<ram, dev, status>> /\ Fixed
DrvCheck ==
    /\ pc = "drvcheck" /\ UNCHANGED <<ram, dev>>
    /\ Go(IF Checks(ram.request) THEN "drv_ok" ELSE "refuse")
Refuse ==
    /\ pc = "refuse" /\ ram' = [ram EXCEPT !.reply = Errored] /\ Go("drv_exit") /\ UNCHANGED dev
\* Seeded fault: the vector leads to the next dispatch leg.
FaultToDispatch == Go("dispatch_app2")
FaultVector == Go("kfault")
\* In the fault leg the first access is at word 900, outside the box.
PutActive ==
    /\ pc = "drv_ok" /\ UNCHANGED ram
    /\ IF Faulting THEN FaultVector /\ UNCHANGED dev
       ELSE Go("put_data") /\ dev' = [dev EXCEPT !.status = TxActive]
\* Seeded fault: the transfer is ended before the data is stored.
StoreDataLate == dev' = [dev EXCEPT !.status = Quiescent]
StoreData == dev' = [dev EXCEPT !.data = ram.request.payload]
PutData == pc = "put_data" /\ StoreData /\ Go("put_quiescent") /\ UNCHANGED ram
StoreQuiescent == dev' = [dev EXCEPT !.status = Quiescent]
PutQuiescent == pc = "put_quiescent" /\ StoreQuiescent /\ Go("put_reply") /\ UNCHANGED ram
PutReply ==
    /\ pc = "put_reply" /\ ram' = [ram EXCEPT !.reply = Verified] /\ Go("drv_exit")
    /\ UNCHANGED dev
DrvExit ==
    /\ pc = "drv_exit" /\ ram' = [ram EXCEPT !.exitDrv = TRUE] /\ Go("dispatch_app2")
    /\ UNCHANGED dev

(* The app, second phase: fetch the reply.                                 *)
App2 ==
    /\ pc = "app2" /\ n' = 8 /\ a0' = Zeroed /\ ret' = "app2exit" /\ pc' = "ksys"
    /\ UNCHANGED <<ram, dev, status>> /\ Fixed
App2Exit ==
    /\ pc = "app2exit" /\ ram' = [ram EXCEPT !.exitApp = TRUE] /\ Go("kdone") /\ UNCHANGED dev

-------------------------------------------------------------------------------
(* The kernel: three copies, none of which looks at what it carries.  No   *)
(* task of these images calls another number.                              *)
\* Seeded fault: the app is handed the mailbox, not the driver's reply.
DeliveredMailbox == ram.mailbox.payload
Delivered == ram.reply
Ksys ==
    /\ pc = "ksys" /\ Go("sysret") /\ UNCHANGED dev
    /\ ram' = CASE n = 6 -> [ram EXCEPT !.mailbox = a0]
                [] n = 7 -> [ram EXCEPT !.request = ram.mailbox]
                [] n = 8 -> [ram EXCEPT !.readout = Delivered]
Sysret == pc = "sysret" /\ Go(ret) /\ UNCHANGED <<ram, dev>>
Kfault ==
    /\ pc = "kfault" /\ ram' = [ram EXCEPT !.fault = FAULT_SEEN] /\ Go("kdone") /\ UNCHANGED dev
Kdone ==
    /\ pc = "kdone" /\ pc' = "halted" /\ status' = KERNEL_OK
    /\ UNCHANGED <<ret, n, a0, ram, dev>> /\ Fixed

-------------------------------------------------------------------------------
Init ==
    /\ leg \in Legs /\ ask \in Requests /\ pc = "off" /\ ret = "off" /\ n = 0 /\ a0 = Zeroed
    /\ ram = ColdRam /\ dev = ColdDev /\ status = NoStatus
App == App1 \/ App1Exit \/ App2 \/ App2Exit
Driver == \/ Drv \/ DrvCheck \/ Refuse \/ PutActive \/ PutData \/ PutQuiescent \/ PutReply
          \/ DrvExit
Kernel == Dispatch \/ Ksys \/ Sysret \/ Kfault \/ Kdone
Next == Drive \/ EndDrive \/ App \/ Driver \/ Kernel
Spec == Init /\ [][Next]_vars

-------------------------------------------------------------------------------
PacketOK(p) == p.ck \in Byte /\ p.op \in Byte /\ p.payload \in Byte
TypeOK ==
    /\ leg \in Legs /\ ask \in Requests /\ n \in {0, 6, 7, 8} /\ PacketOK(a0)
    /\ PacketOK(ram.scratch) /\ PacketOK(ram.mailbox) /\ PacketOK(ram.request)
    /\ ram.reply \in {0, Verified, Errored} /\ ram.readout \in Byte
    /\ dev \in [data : Byte, status : {0, TxActive, Quiescent}]
    /\ status \in {NoStatus, KERNEL_OK}

(* Only a request that arrived intact reaches the device, and only from a  *)
(* driver that stays in its box.                                           *)
OnlyIntactRequests == dev # ColdDev => leg = "good" /\ ram.request = Built

(* The device never ends a transfer without the data, holds no data out of *)
(* a transfer, and the driver reports no transfer that it has not ended.   *)
TransferOrder ==
    /\ dev.status = Quiescent => dev.data = ask.payload
    /\ dev.data # 0 => dev.status # 0
    /\ ram.reply = Verified => dev.status = Quiescent

(* What the app reads at the end, a word that travelled through two boxes  *)
(* and the kernel, says what happened to the device.  A driver that leaves *)
(* its box stops there: the device is as it was, nobody is handed a reply, *)
(* and the run still ends with the status word.                            *)
ReplyTellsDevice ==
    pc = "halted" =>
      IF leg = "fault"
      THEN /\ ram.fault = FAULT_SEEN /\ dev = ColdDev
           /\ ram.reply = 0 /\ ram.readout = 0 /\ ~ram.exitDrv
      ELSE /\ ram.fault = 0
           /\ IF Corrupting THEN ram.readout = Errored /\ dev = ColdDev
              ELSE ram.readout = Verified /\ dev = [data |-> ask.payload, status |-> Quiescent]
===============================================================================
