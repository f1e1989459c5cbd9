--------------------------- MODULE DriverAbi_proofs ----------------------------
(***************************************************************************)
(* For every set of images and of requests: only an intact request reaches *)
(* the device, in the order of its datasheet, the app reads what happened, *)
(* and a driver that leaves its box stops there.                           *)
(***************************************************************************)
EXTENDS DriverAbi, TLAPS

-------------------------------------------------------------------------------
(* The strengthening: what the mailbox, the device and the reply hold at   *)
(* each label, where a label of the kernel counts with the call it serves. *)
Packets == [ck : Byte, op : Byte, payload : Byte]
Rams == [scratch : Packets, uart : Packets, mailbox : Packets, request : Packets,
         reply : {0, Verified, Errored}, readout : Byte, exitApp : BOOLEAN,
         exitDrv : BOOLEAN, fault : {0, FAULT_SEEN}]
Devs == [data : Byte, status : {0, TxActive, Quiescent}]
Back == IF n = 6 THEN "app1exit" ELSE IF n = 7 THEN "drvcheck" ELSE "app2exit"
Within == pc \in {"ksys", "sysret"}
Types ==
    /\ leg \in Legs /\ ask \in Requests /\ a0 \in Packets /\ ram \in Rams /\ dev \in Devs
    /\ status \in {NoStatus, KERNEL_OK} /\ n \in {0, 6, 7, 8}
    /\ Within => n # 0 /\ ret = Back
    /\ Within /\ n = 6 => a0 = Built

\* After SYS 6 the mailbox holds what the app built, after SYS 7 the driver does.
Posted ==
    \/ pc = "sysret" /\ n = 6
    \/ pc = "ksys" /\ n = 7
    \/ pc \in {"app1exit", "dispatch_drv", "drv"}
Taken ==
    \/ pc = "sysret" /\ n # 6
    \/ pc = "ksys" /\ n = 8
    \/ pc \in {"drvcheck", "drv_ok", "refuse", "put_data", "put_quiescent", "put_reply",
               "drv_exit", "dispatch_app2", "app2", "app2exit", "kdone", "halted", "kfault"}
Sent ==
    /\ Posted => ram.mailbox = Built
    /\ Taken => ram.request = Built
    /\ pc \in {"drv_ok", "kfault"} => ~Corrupting
    /\ pc = "kfault" => leg = "fault"
    /\ pc = "refuse" => Corrupting

Device(d, s) == dev = [data |-> d, status |-> s]
NothingYet == dev = ColdDev /\ ram.reply = 0 /\ ram.readout = 0 /\ ~ram.exitDrv
Early ==
    \/ Within /\ n # 8
    \/ pc \in {"off", "app1", "app1exit", "dispatch_drv", "drv", "drvcheck", "drv_ok", "refuse",
               "kfault"}
Putting ==
    /\ Early => NothingYet
    /\ pc = "put_data" => leg = "good" /\ Device(0, TxActive) /\ ram.reply = 0
    /\ pc = "put_quiescent" => leg = "good" /\ Device(ask.payload, TxActive) /\ ram.reply = 0
    /\ pc = "put_reply" => leg = "good" /\ Device(ask.payload, Quiescent) /\ ram.reply = 0

Told ==
    \/ Corrupting /\ ram.reply = Errored /\ dev = ColdDev
    \/ leg = "good" /\ ram.reply = Verified /\ Device(ask.payload, Quiescent)
Late == (pc = "ksys" /\ n = 8) \/ pc \in {"drv_exit", "dispatch_app2", "app2"}
Fetched == (pc = "sysret" /\ n = 8) \/ pc = "app2exit"
Faulted == leg = "fault" /\ ram.fault = FAULT_SEEN /\ NothingYet
Telling ==
    /\ Late => Told
    /\ Fetched => Told /\ ram.readout = ram.reply
    /\ pc \in {"kdone", "halted"} =>
         \/ Faulted
         \/ ram.fault = 0 /\ Told /\ ram.readout = ram.reply
    /\ pc \notin {"kdone", "halted"} => ram.fault = 0
Labels == {"off", "app1", "app1exit", "ksys", "sysret", "dispatch_drv", "drv", "drvcheck", "drv_ok",
           "refuse", "put_data", "put_quiescent", "put_reply", "drv_exit", "dispatch_app2", "app2",
           "app2exit", "kdone", "halted", "kfault"}
Inv == Types /\ pc \in Labels /\ Sent /\ Putting /\ Telling

-------------------------------------------------------------------------------
(* The request and the checksum.                                           *)
LEMMA ColdTypes ==
    Zeroed \in Packets /\ ColdRam \in Rams /\ ColdDev \in Devs
BY DEF Zeroed, Packet, Packets, Byte, ColdRam, Rams, ColdDev, Devs

\* Flipping the lowest bit leaves a byte, and not the same one.
LEMMA Flipped ==
    ASSUME NEW b \in Byte
    PROVE  FlipBit(b) \in Byte /\ FlipBit(b) # b
<1>1. b % 2 \in {0, 1} /\ (b % 2 = 0 => b # 255) /\ (b % 2 # 0 => b # 0) BY DEF Byte
<1>2. CASE b % 2 = 0 BY <1>1, <1>2 DEF FlipBit, Byte
<1>3. CASE b % 2 # 0 BY <1>1, <1>3 DEF FlipBit, Byte
<1>. QED BY <1>2, <1>3

LEMMA SumType ==
    ASSUME ask \in Requests
    PROVE  ask.op \in Byte /\ ask.payload \in Byte /\ Sum(ask.op, ask.payload) \in Byte
<1>0. ask \in [op : Byte, payload : Byte] BY RequestsAssumption
<1>1. ask.op \in Byte /\ ask.payload \in Byte BY <1>0, Zenon
<1>2. \A x, y \in Byte : Sum(x, y) \in Byte BY DEF Sum, Byte
<1>. QED BY <1>1, <1>2

\* A built request is a packet, and checks exactly when it was not corrupted.
LEMMA BuiltChecks ==
    ASSUME ask \in Requests
    PROVE  /\ Built \in Packets /\ Built.payload = ask.payload
           /\ Checks(Built) <=> ~Corrupting
<1>. DEFINE ck == Sum(ask.op, ask.payload)
<1>1. ask.op \in Byte /\ ask.payload \in Byte /\ ck \in Byte BY SumType
<1>2. FlipBit(ck) \in Byte /\ FlipBit(ck) # ck BY <1>1, Flipped
<1>3. Built = Packet(IF Corrupting THEN FlipBit(ck) ELSE ck, ask.op, ask.payload) BY DEF Built
<1>4. Built.payload = ask.payload /\ Built.op = ask.op
      /\ Built.ck = IF Corrupting THEN FlipBit(ck) ELSE ck
  BY <1>3 DEF Packet
<1>5. Built \in Packets BY <1>1, <1>2, <1>3 DEF Packet, Packets
<1>6. ck = (Built.op + Built.payload) % 256 BY <1>4 DEF Sum
<1>7. CASE Corrupting BY <1>2, <1>4, <1>5, <1>6, <1>7 DEF Checks
<1>8. CASE ~Corrupting BY <1>4, <1>5, <1>6, <1>8 DEF Checks
<1>. QED BY <1>7, <1>8

-------------------------------------------------------------------------------
(* The invariant is inductive.                                             *)
LEMMA Initial == Init => Inv
<1>. SUFFICES ASSUME Init PROVE Inv
  OBVIOUS
<1>1. Types BY ColdTypes DEF Init, Types, Within
<1>. QED
  BY <1>1 DEF Init, Inv, Labels, Sent, Posted, Taken, Putting, Early, Within, NothingYet, ColdRam,
              Telling, Late, Fetched

LEMMA Inductive == Inv /\ [Next]_vars => Inv'
<1>. SUFFICES ASSUME Inv, [Next]_vars PROVE Inv'
  OBVIOUS
<1>. USE DEF Inv, Labels, Types, Within, Sent, Posted, Taken, Putting, Early, NothingYet, Telling,
             Late, Fetched, Go, Fixed
<1>. DEFINE Kept == leg' = leg /\ ask' = ask
<1>0. CASE UNCHANGED vars
  BY <1>0 DEF vars, Back, Built, Corrupting, Device, Told, Faulted
<1>k. Kept => Built' = Built /\ Corrupting' = Corrupting BY DEF Built, Corrupting
<1>1. CASE Drive
  BY <1>1 DEF Drive, Built, Corrupting
<1>2. CASE EndDrive
  BY <1>2, ColdTypes DEF EndDrive, ColdRam
<1>3. CASE App1
  <2>1. Built \in Packets BY BuiltChecks
  <2>2. ram' \in Rams /\ ram'.reply = ram.reply /\ ram'.readout = ram.readout
        /\ ram'.exitDrv = ram.exitDrv /\ ram'.fault = ram.fault
    BY <1>3, <2>1 DEF App1, Rams
  <2>. QED BY <1>3, <1>k, <2>1, <2>2 DEF App1, Back
<1>4. CASE App1Exit
  <2>1. ram' \in Rams /\ ram'.reply = ram.reply /\ ram'.readout = ram.readout
        /\ ram'.exitDrv = ram.exitDrv /\ ram'.fault = ram.fault /\ ram'.mailbox = ram.mailbox
    BY <1>4 DEF App1Exit, Rams
  <2>. QED BY <1>4, <1>k, <2>1 DEF App1Exit
<1>5. CASE Dispatch
  BY <1>5, <1>k DEF Dispatch, Told, Device
<1>6. CASE Drv
  BY <1>6, <1>k, ColdTypes DEF Drv, Back
<1>7. CASE DrvCheck
  <2>1. Checks(ram.request) <=> ~Corrupting BY <1>7, BuiltChecks DEF DrvCheck
  <2>. QED BY <1>7, <1>k, <2>1 DEF DrvCheck
<1>8. CASE Refuse
  <2>1. ram' \in Rams /\ ram'.reply = Errored /\ ram'.request = ram.request /\ ram'.fault = ram.fault
    BY <1>8 DEF Refuse, Rams
  <2>. QED BY <1>8, <1>k, <2>1 DEF Refuse, Told
<1>9. CASE PutActive
  <2>1. CASE Faulting
    BY <1>9, <1>k, <2>1 DEF PutActive, FaultVector, Faulting, Corrupting, LegsAssumption
  <2>2. CASE ~Faulting
    <3>1. leg = "good" BY <1>9, <2>2, LegsAssumption DEF PutActive, Faulting, Corrupting
    <3>2. dev' = [data |-> 0, status |-> TxActive] /\ dev' \in Devs
      BY <1>9, <2>2 DEF PutActive, ColdDev, Devs, Byte
    <3>. QED BY <1>9, <1>k, <2>2, <3>1, <3>2 DEF PutActive, Device
  <2>. QED BY <2>1, <2>2
<1>10. CASE PutData
  <2>1. ram.request.payload = ask.payload /\ ask.payload \in Byte
    BY <1>10, BuiltChecks, SumType DEF PutData
  <2>2. dev' = [data |-> ask.payload, status |-> TxActive] /\ dev' \in Devs
    BY <1>10, <2>1 DEF PutData, StoreData, Device, Devs
  <2>. QED BY <1>10, <1>k, <2>2 DEF PutData, Device
<1>11. CASE PutQuiescent
  <2>1. dev' = [data |-> ask.payload, status |-> Quiescent] /\ dev' \in Devs
    BY <1>11 DEF PutQuiescent, StoreQuiescent, Device, Devs
  <2>. QED BY <1>11, <1>k, <2>1 DEF PutQuiescent, Device
<1>12. CASE PutReply
  <2>1. ram' \in Rams /\ ram'.reply = Verified /\ ram'.request = ram.request /\ ram'.fault = ram.fault
    BY <1>12 DEF PutReply, Rams
  <2>. QED BY <1>12, <1>k, <2>1 DEF PutReply, Told, Device
<1>13. CASE DrvExit
  <2>1. ram' \in Rams /\ ram'.reply = ram.reply /\ ram'.request = ram.request /\ ram'.fault = ram.fault
    BY <1>13 DEF DrvExit, Rams
  <2>. QED BY <1>13, <1>k, <2>1 DEF DrvExit, Told, Device
<1>14. CASE App2
  <2>1. Told /\ ram' = ram /\ dev' = dev /\ n' = 8 /\ pc' = "ksys" BY <1>14 DEF App2
  <2>2. Told' BY <1>14, <1>k, <2>1 DEF App2, Told, Device
  <2>3. Types' BY <1>14, <2>1, ColdTypes DEF App2, Back
  <2>4. Kept BY <1>14 DEF App2
  <2>5. Taken /\ ram.fault = 0 BY <1>14 DEF App2
  <2>. QED BY <1>k, <2>1, <2>2, <2>3, <2>4, <2>5
<1>15. CASE App2Exit
  <2>1. ram' \in Rams /\ ram'.reply = ram.reply /\ ram'.request = ram.request /\ ram'.fault = ram.fault
        /\ ram'.readout = ram.readout
    BY <1>15 DEF App2Exit, Rams
  <2>2. Told /\ ram.readout = ram.reply /\ ram.fault = 0 /\ pc' = "kdone" BY <1>15 DEF App2Exit
  <2>3. Told' BY <1>15, <1>k, <2>1, <2>2 DEF App2Exit, Told, Device
  <2>. QED BY <1>15, <1>k, <2>1, <2>2, <2>3 DEF App2Exit
<1>16. CASE Ksys
  <2>. USE <1>16, <1>k DEF Ksys, Back
  <2>1. CASE n = 6
    <3>1. ram' = [ram EXCEPT !.mailbox = a0] BY <2>1
    <3>2. ram' \in Rams /\ ram'.reply = ram.reply /\ ram'.readout = ram.readout
          /\ ram'.exitDrv = ram.exitDrv /\ ram'.fault = ram.fault /\ ram'.mailbox = a0
      BY <3>1 DEF Rams
    <3>. QED BY <2>1, <3>2
  <2>2. CASE n = 7
    <3>1. ram' = [ram EXCEPT !.request = ram.mailbox] BY <2>2
    <3>2. ram' \in Rams /\ ram'.reply = ram.reply /\ ram'.readout = ram.readout
          /\ ram'.exitDrv = ram.exitDrv /\ ram'.fault = ram.fault /\ ram'.mailbox = ram.mailbox
          /\ ram'.request = ram.mailbox
      BY <3>1 DEF Rams
    <3>. QED BY <2>2, <3>2
  <2>3. CASE n = 8
    <3>1. ram' = [ram EXCEPT !.readout = ram.reply] BY <2>3 DEF Delivered
    <3>2. ram.reply \in Byte BY DEF Rams, Verified, Errored, Byte
    <3>3. ram' \in Rams /\ ram'.reply = ram.reply /\ ram'.readout = ram.reply
          /\ ram'.fault = ram.fault /\ ram'.mailbox = ram.mailbox /\ ram'.request = ram.request
      BY <3>1, <3>2 DEF Rams
    <3>. QED BY <2>3, <3>3 DEF Told, Device
  <2>. QED BY <2>1, <2>2, <2>3
<1>17. CASE Sysret
  BY <1>17, <1>k DEF Sysret, Back, Told, Device
<1>18. CASE Kfault
  <2>1. ram' \in Rams /\ ram'.reply = ram.reply /\ ram'.readout = ram.readout
        /\ ram'.exitDrv = ram.exitDrv /\ ram'.fault = FAULT_SEEN /\ ram'.request = ram.request
    BY <1>18 DEF Kfault, Rams
  <2>. QED BY <1>18, <1>k, <2>1 DEF Kfault, Faulted
<1>19. CASE Kdone
  BY <1>19, <1>k DEF Kdone, Told, Device, Faulted
<1>. QED
  BY <1>0, <1>1, <1>2, <1>3, <1>4, <1>5, <1>6, <1>7, <1>8, <1>9, <1>10, <1>11, <1>12, <1>13, <1>14,
     <1>15, <1>16, <1>17, <1>18, <1>19
  DEF Next, App, Driver, Kernel

\* At every label mailbox, device and reply are what Inv says.
THEOREM Invariance == Spec => []Inv
BY Initial, Inductive, PTL DEF Spec

-------------------------------------------------------------------------------
(* The properties.                                                         *)
\* The words, the packets and the device's registers keep their types.
THEOREM DriverTypeCorrect == Spec => []TypeOK
<1>1. Inv => TypeOK
  BY DEF Inv, Types, Rams, Packets, Devs, PacketOK, TypeOK
<1>. QED BY <1>1, Invariance, PTL

\* Only an intact request of an obedient driver reaches the device.
THEOREM RequestsAreIntact == Spec => []OnlyIntactRequests
<1>1. Inv => OnlyIntactRequests
  <2>. SUFFICES ASSUME Inv, dev # ColdDev PROVE leg = "good" /\ ram.request = Built
    BY DEF OnlyIntactRequests
  <2>1. ~Early BY DEF Inv, Putting, NothingYet
  <2>2. Taken BY <2>1 DEF Inv, Types, Labels, Early, Within, Taken
  <2>3. leg = "good"
    BY <2>1 DEF Inv, Types, Labels, Early, Within, Putting, Telling, Late, Fetched, Told, Faulted,
                NothingYet
  <2>. QED BY <2>2, <2>3 DEF Inv, Sent
<1>. QED BY <1>1, Invariance, PTL

\* The register stores follow the datasheet's order.
THEOREM TransfersAreOrdered == Spec => []TransferOrder
<1>1. Inv => TransferOrder
  BY DEF Inv, Types, Labels, Early, Within, Putting, Telling, Late, Fetched, Told, Faulted,
         NothingYet, ColdDev, Device, TransferOrder, Quiescent, TxActive, Verified, Errored
<1>. QED BY <1>1, Invariance, PTL

\* The word that the app reads at the end says what happened to the device, and a
\* driver that leaves its box stops before the device.
THEOREM RepliesAreTrue == Spec => []ReplyTellsDevice
<1>1. Inv => ReplyTellsDevice
  <2>. SUFFICES ASSUME Inv, pc = "halted" PROVE ReplyTellsDevice
    BY DEF ReplyTellsDevice
  <2>1. CASE Faulted
    BY <2>1 DEF Faulted, NothingYet, ReplyTellsDevice
  <2>2. CASE ram.fault = 0 /\ Told /\ ram.readout = ram.reply
    <3>1. leg # "fault" BY <2>2 DEF Told, Corrupting
    <3>. QED BY <2>2, <3>1 DEF Told, Device, Corrupting, ReplyTellsDevice
  <2>. QED BY <2>1, <2>2 DEF Inv, Telling
<1>. QED BY <1>1, Invariance, PTL
===============================================================================
