--------------------------- MODULE Admission_proofs ---------------------------
(***************************************************************************)
(* Proofs about admission, for every supply of tiles, every table and      *)
(* every sequence of calls: what the oracle guards, what a rejection takes *)
(* back, what an admission leaves, and what the receipts say.              *)
(***************************************************************************)
EXTENDS Admission, TLAPS

(* What a call has established when it has reached a stage.  The safety    *)
(* properties speak of the tile in the rect, which the call stamps three   *)
(* stages after the gate that tested it: the links in between are here.    *)
InRange  == stage \in Stages \ {"idle", "range", "bounds"} => req.sysn \in Slots
Passed   == stage \in {"retarget", "rect", "table", "drive"} => OraclePassed(req.tile)
Fits     == stage \in {"rect", "table", "drive"} => Ir[req.tile] /\ Home[req.tile] = "fits"
Stamped  == stage \in {"table", "drive"} => rect = <<req>> /\ proof = "pending"
Unjudged == stage # "idle" => decision = "none" /\ note = <<>>
\* The drive says nothing of a rect that no call has stamped.
Judged   == rect = <<>> => proof = "none"

StageOK == InRange /\ Passed /\ Fits /\ Stamped /\ Unjudged /\ Judged

Safe == OracleGuardsImage /\ DivergedSlotDark /\ AdmissionPersists /\ AuditTrail

IInv == TypeOK /\ StageOK /\ Safe

-------------------------------------------------------------------------------
LEMMA Singleton ==
    ASSUME NEW x
    PROVE  Append(<<>>, x) = <<x>> /\ <<x>> # <<>> /\ <<x>>[1] = x
OBVIOUS

\* A call knows at most one tile, and the one it drafts it may also be given.
LEMMA Redrafted ==
    ASSUME NEW r \in Requests, NEW t \in Tiles
    PROVE  /\ [r EXCEPT !.tile = t] \in Requests
           /\ [r EXCEPT !.tile = t].tile = t
           /\ [r EXCEPT !.tile = t].via = r.via
           /\ [r EXCEPT !.tile = t].sysn = r.sysn
           /\ [r EXCEPT !.tile = t].arg = r.arg
           /\ [r EXCEPT !.tile = t].expected = r.expected
BY DEF Requests

\* A step that leaves the image alone keeps what is said of the image.
LEMMA ImageKept ==
    ASSUME OracleGuardsImage, DivergedSlotDark, AdmissionPersists, Judged,
           UNCHANGED Image
    PROVE  OracleGuardsImage' /\ DivergedSlotDark' /\ AdmissionPersists' /\ Judged'
BY DEF OracleGuardsImage, DivergedSlotDark, AdmissionPersists, Judged, Image, Outcome

\* A call that ends with no receipt, or with the one its decision tells of.
LEMMA Audited ==
    ASSUME stage' = "idle", decision' # "admitted",
           note' = <<>> \/ note' = <<decision'>>
    PROVE  AuditTrail'
BY DEF AuditTrail

LEMMA InitIInv == Init => IInv
<1> SUFFICES ASSUME Init PROVE IInv
  OBVIOUS
<1>1. TypeOK
  BY DEF Init, TypeOK, Stages, Callable
<1>2. StageOK
  BY DEF Init, StageOK, InRange, Passed, Fits, Stamped, Unjudged, Judged
<1>3. Safe
  BY DEF Init, Safe, OracleGuardsImage, DivergedSlotDark, AdmissionPersists, AuditTrail
<1> QED
  BY <1>1, <1>2, <1>3 DEF IInv

-------------------------------------------------------------------------------
LEMMA CallStep == IInv /\ Call => IInv'
<1> SUFFICES ASSUME IInv, Call PROVE IInv'
  OBVIOUS
<1> USE DEF IInv, StageOK, Safe
<1>1. stage' \in {"range", "bounds"} /\ UNCHANGED Image
  BY DEF Call
<1>2. TypeOK'
  BY <1>1 DEF Call, TypeOK, Image, Stages, Callable
<1>3. OracleGuardsImage' /\ DivergedSlotDark' /\ AdmissionPersists' /\ Judged'
  BY <1>1, ImageKept
<1>4. InRange' /\ Passed' /\ Fits' /\ Stamped'
  BY <1>1 DEF InRange, Passed, Fits, Stamped, Stages
<1>5. Unjudged' /\ AuditTrail'
  BY <1>1 DEF Call, Unjudged, AuditTrail
<1> QED
  BY <1>2, <1>3, <1>4, <1>5

\* The gates in front of the image: emit_admit's three.
LEMMA EmitStep == IInv /\ Emit => IInv'
<1> SUFFICES ASSUME IInv, Emit PROVE IInv'
  OBVIOUS
<1> USE DEF IInv, StageOK, Safe
<1>1. note = <<>> /\ decision = "none" /\ UNCHANGED Image /\ UNCHANGED <<req, drafts>>
  BY DEF Unjudged, Emit, EmitRange, EmitIr, EmitOracle, Kept, Image
<1>2. OracleGuardsImage' /\ DivergedSlotDark' /\ AdmissionPersists' /\ Judged'
  BY <1>1, ImageKept
<1>3. CASE \/ stage = "range" /\ req.sysn \in Slots /\ Goto("ir")
           \/ stage = "ir" /\ Goto("oracle")
           \/ stage = "oracle" /\ OraclePassed(req.tile) /\ Goto("retarget")
  <2>1. TypeOK'
    BY <1>1, <1>3 DEF TypeOK, Goto, Image, Stages
  <2>2. InRange' /\ Fits' /\ Stamped' /\ Unjudged' /\ AuditTrail'
    BY <1>1, <1>3 DEF InRange, Fits, Stamped, Unjudged, AuditTrail, Goto, Stages
  <2>3. Passed'
    BY <1>1, <1>3 DEF Passed, OraclePassed, Goto
  <2> QED
    BY <1>2, <2>1, <2>2, <2>3
<1>4. CASE Refuse \/ End("raised")
  <2>1. /\ stage' = "idle" /\ decision' \in {"rejected", "raised"}
        /\ note' \in {<<>>, <<"rejected">>}
        /\ note' = <<>> \/ note' = <<decision'>>
    BY <1>1, <1>4, Singleton DEF Refuse, End, Finish
  <2>2. TypeOK'
    BY <1>1, <2>1 DEF TypeOK, Image, Stages
  <2>3. InRange' /\ Passed' /\ Fits' /\ Stamped' /\ Unjudged'
    BY <2>1 DEF InRange, Passed, Fits, Stamped, Unjudged
  <2>4. AuditTrail'
    BY <2>1, Audited
  <2> QED
    BY <1>2, <2>2, <2>3, <2>4
<1> QED
  BY <1>3, <1>4 DEF Emit, EmitRange, EmitIr, EmitOracle

\* The door of admit_syscall: its range check and the drafting loop.
LEMMA AdmitStep == IInv /\ Admit => IInv'
<1> SUFFICES ASSUME IInv, Admit PROVE IInv'
  OBVIOUS
<1> USE DEF IInv, StageOK, Safe
<1>1. note = <<>> /\ decision = "none" /\ UNCHANGED Image
  BY DEF Unjudged, Admit, AdmitBounds, Draft, Kept, Image
<1>2. OracleGuardsImage' /\ DivergedSlotDark' /\ AdmissionPersists' /\ Judged'
  BY <1>1, ImageKept
<1>3. req' \in Requests /\ drafts' \in Nat /\ req'.sysn = req.sysn
  <2>1. CASE AdmitBounds
    BY <2>1 DEF AdmitBounds, Kept, TypeOK
  <2>2. CASE Draft
    <3>1. PICK t \in Tiles : req' = [req EXCEPT !.tile = t]
      BY <2>2 DEF Draft
    <3>2. drafts' \in Nat /\ req \in Requests
      BY <2>2 DEF Draft, MoreDrafts, TypeOK
    <3> QED
      BY <3>1, <3>2, Redrafted
  <2> QED
    BY <2>1, <2>2 DEF Admit
<1>4. CASE End("raised") \/ End("rejected")
  <2>1. stage' = "idle" /\ decision' \in {"rejected", "raised"} /\ note' = <<>>
    BY <1>1, <1>4 DEF End, Finish
  <2>2. TypeOK'
    BY <1>1, <1>3, <2>1 DEF TypeOK, Image, Stages
  <2>3. InRange' /\ Passed' /\ Fits' /\ Stamped' /\ Unjudged'
    BY <2>1 DEF InRange, Passed, Fits, Stamped, Unjudged
  <2>4. AuditTrail'
    BY <2>1, Audited
  <2> QED
    BY <1>2, <2>2, <2>3, <2>4
<1>5. CASE Goto("draft") \/ (Goto("retarget") /\ Draft)
  <2>1. /\ stage' \in {"draft", "retarget"} /\ decision' = "none" /\ note' = <<>>
        /\ req.sysn \in Slots
    BY <1>1, <1>5 DEF Goto, Admit, AdmitBounds, Draft, InRange, Stages, End, Finish
  <2>2. TypeOK'
    BY <1>1, <1>3, <2>1 DEF TypeOK, Image, Stages
  <2>3. InRange' /\ Fits' /\ Stamped' /\ Unjudged' /\ AuditTrail'
    BY <1>3, <2>1 DEF InRange, Fits, Stamped, Unjudged, AuditTrail
  <2>4. Passed'
    <3>1. CASE Goto("draft")
      BY <3>1 DEF Passed, Goto
    <3>2. CASE Goto("retarget") /\ Draft
      <4>1. PICK t \in Tiles : req' = [req EXCEPT !.tile = t] /\ OraclePassed(t)
        BY <3>2 DEF Draft, Goto, End, Finish
      <4>2. req'.tile = t /\ req'.arg = req.arg /\ req'.expected = req.expected
        BY <4>1, Redrafted DEF TypeOK
      <4> QED
        BY <4>1, <4>2 DEF Passed, OraclePassed
    <3> QED
      BY <1>5, <3>1, <3>2
  <2> QED
    BY <1>2, <2>2, <2>3, <2>4
<1> QED
  BY <1>4, <1>5 DEF Admit, AdmitBounds, Draft

-------------------------------------------------------------------------------
\* The shared tail: one step per action.
LEMMA StampStep == IInv /\ Stamp => IInv'
<1> SUFFICES ASSUME IInv, Stamp PROVE IInv'
  OBVIOUS
<1> USE DEF IInv, StageOK, Safe
<1>1. CASE Retarget
  <2>1. note = <<>> /\ decision = "none" /\ UNCHANGED Image /\ UNCHANGED <<req, drafts>>
    BY <1>1 DEF Unjudged, Retarget, Kept, Image
  <2>2. OracleGuardsImage' /\ DivergedSlotDark' /\ AdmissionPersists' /\ Judged'
    BY <2>1, ImageKept
  <2>3. TypeOK'
    BY <1>1, <2>1 DEF Retarget, TypeOK, Image, Goto, End, Finish, Stages
  <2>4. InRange' /\ Passed' /\ Fits' /\ Stamped' /\ Unjudged' /\ AuditTrail'
    BY <1>1, <2>1 DEF Retarget, Goto, End, Finish, InRange, Passed, Fits, Stamped,
       Unjudged, AuditTrail, OraclePassed, Stages
  <2> QED
    BY <2>2, <2>3, <2>4
<1>2. CASE StampRect
  <2>1. /\ stage = "rect" /\ stage' = "table" /\ rect' = <<req>> /\ proof' = "pending"
        /\ UNCHANGED <<table, req, drafts, decision, note>>
    BY <1>2 DEF StampRect, Goto
  <2>2. rect' # <<>> /\ rect'[1] = req /\ req \in Requests
    BY <2>1 DEF TypeOK
  <2>3. TypeOK'
    BY <2>1, <2>2 DEF TypeOK, Stages
  <2>4. OracleGuardsImage'
    BY <2>1, <2>2 DEF OracleGuardsImage, InRange, Passed, Fits, OraclePassed, Stages
  <2>5. DivergedSlotDark' /\ AdmissionPersists' /\ Judged' /\ AuditTrail'
    BY <2>1, <2>2 DEF DivergedSlotDark, AdmissionPersists, Judged, AuditTrail
  <2>6. InRange' /\ Passed' /\ Fits' /\ Stamped' /\ Unjudged'
    BY <2>1 DEF InRange, Passed, Fits, Stamped, Unjudged, OraclePassed, Stages
  <2> QED
    BY <2>3, <2>4, <2>5, <2>6
<1>3. CASE StampTable
  <2>1. /\ stage = "table" /\ stage' = "drive" /\ proof = "pending"
        /\ table' = [table EXCEPT ![req.sysn] = TRUE]
        /\ UNCHANGED <<rect, proof, req, drafts, decision, note>>
    BY <1>3 DEF StampTable, Goto, Stamped
  <2>2. TypeOK'
    BY <2>1 DEF TypeOK, Stages
  <2>3. OracleGuardsImage' /\ DivergedSlotDark' /\ AdmissionPersists' /\ Judged'
    BY <2>1 DEF OracleGuardsImage, DivergedSlotDark, AdmissionPersists, Judged
  <2>4. InRange' /\ Passed' /\ Fits' /\ Stamped' /\ Unjudged' /\ AuditTrail'
    BY <2>1 DEF InRange, Passed, Fits, Stamped, Unjudged, AuditTrail, OraclePassed, Stages
  <2> QED
    BY <2>2, <2>3, <2>4
<1>4. CASE Verify
  <2>1. /\ stage = "drive" /\ stage' = "idle" /\ rect = <<req>> /\ note = <<>>
        /\ UNCHANGED <<rect, req, drafts>> /\ req.sysn \in Slots
    BY <1>4 DEF Verify, Finish, End, Stamped, Unjudged, InRange, Stages
  <2>2. rect # <<>> /\ rect[1] = req
    BY <2>1
  <2>3. InRange' /\ Passed' /\ Fits' /\ Stamped' /\ Unjudged' /\ Judged' /\ OracleGuardsImage'
    BY <2>1, <2>2 DEF InRange, Passed, Fits, Stamped, Unjudged, Judged, OracleGuardsImage
  <2>4. CASE Verified /\ Finish("admitted") /\ Receipt("admitted")
             /\ proof' = "admitted" /\ UNCHANGED table
    <3>1. /\ decision' = "admitted" /\ note' \in {<<>>, <<"admitted">>}
          /\ req.via = "emit" => note' = <<"admitted">>
      BY <2>1, <2>4, Singleton DEF Finish, Receipt
    <3>2. Outcome' = Outcome
      BY <2>1, <2>4 DEF Outcome
    <3>3. TypeOK'
      BY <2>1, <2>4, <3>1 DEF TypeOK, Stages
    <3>4. DivergedSlotDark' /\ AdmissionPersists'
      BY <2>1, <2>2, <2>4, <3>2 DEF DivergedSlotDark, AdmissionPersists, Verified
    <3>5. AuditTrail'
      BY <2>1, <3>1 DEF AuditTrail
    <3> QED
      BY <2>3, <3>3, <3>4, <3>5
  <2>5. CASE Finish("rejected") /\ Receipt("rejected")
             /\ proof' = "rejected" /\ table' = RolledBack
    <3>1. decision' = "rejected" /\ note' \in {<<>>, <<"rejected">>}
      BY <2>1, <2>5, Singleton DEF Finish, Receipt
    <3>2. table' \in [Slots -> BOOLEAN] /\ ~table'[req.sysn]
      BY <2>1, <2>5 DEF RolledBack, TypeOK
    <3>3. TypeOK'
      BY <2>1, <2>5, <3>1, <3>2 DEF TypeOK, Stages
    <3>4. DivergedSlotDark' /\ AdmissionPersists'
      BY <2>1, <2>2, <2>5, <3>2 DEF DivergedSlotDark, AdmissionPersists
    <3>5. AuditTrail'
      BY <2>1, <3>1, Audited
    <3> QED
      BY <2>3, <3>3, <3>4, <3>5
  <2>6. CASE End("raised") /\ UNCHANGED <<table, proof>>
    <3>1. decision' = "raised" /\ note' = <<>> /\ proof = "pending"
      BY <2>1, <2>6 DEF End, Finish, Stamped
    <3>2. TypeOK'
      BY <2>1, <2>6, <3>1 DEF TypeOK, Stages
    <3>3. DivergedSlotDark' /\ AdmissionPersists'
      BY <2>6, <3>1 DEF DivergedSlotDark, AdmissionPersists
    <3>4. AuditTrail'
      BY <2>1, <3>1, Audited
    <3> QED
      BY <2>3, <3>2, <3>3, <3>4
  <2> QED
    BY <1>4, <2>4, <2>5, <2>6 DEF Verify
<1> QED
  BY <1>1, <1>2, <1>3, <1>4 DEF Stamp

LEMMA StutterStep == IInv /\ UNCHANGED vars => IInv'
BY DEF IInv, StageOK, Safe, TypeOK, InRange, Passed, Fits, Stamped, Unjudged, Judged,
   OracleGuardsImage, DivergedSlotDark, AdmissionPersists, AuditTrail, Outcome,
   OraclePassed, vars

\* The inductive invariant of the specification.
THEOREM Inductive == Spec => []IInv
<1>1. IInv /\ [Next]_vars => IInv'
  BY CallStep, EmitStep, AdmitStep, StampStep, StutterStep DEF Next
<1> QED
  BY InitIInv, <1>1, PTL DEF Spec

-------------------------------------------------------------------------------
(* The type invariant holds, whatever tiles there are.                     *)
THEOREM AdmissionTypeCorrect == Spec => []TypeOK
<1>1. IInv => TypeOK
  BY DEF IInv
<1> QED
  BY <1>1, Inductive, PTL

(* No code reaches the image around the verifier and the oracle.           *)
THEOREM ImageIsGuarded == Spec => []OracleGuardsImage
<1>1. IInv => OracleGuardsImage
  BY DEF IInv, Safe
<1> QED
  BY <1>1, Inductive, PTL

(* A tile that diverged in the drive is not behind the slot it asked for.  *)
THEOREM DivergedIsDark == Spec => []DivergedSlotDark
<1>1. IInv => DivergedSlotDark
  BY DEF IInv, Safe
<1> QED
  BY <1>1, Inductive, PTL

(* What was admitted keeps its promise to every later drive.               *)
THEOREM AdmittedPersists == Spec => []AdmissionPersists
<1>1. IInv => AdmissionPersists
  BY DEF IInv, Safe
<1> QED
  BY <1>1, Inductive, PTL

(* Receipts and decisions agree, and no admission goes without a receipt.   *)
THEOREM ReceiptsAreTrue == Spec => []AuditTrail
<1>1. IInv => AuditTrail
  BY DEF IInv, Safe
<1> QED
  BY <1>1, Inductive, PTL
===============================================================================
