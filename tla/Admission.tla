------------------------------- MODULE Admission -------------------------------
(***************************************************************************)
(* Admission of syscall tiles into a live image (tools/glyph_gpt           *)
(* autoatlas.py, escalate.py, oracle.py): emit_admit takes a proposal from *)
(* an agent, admit_syscall has a model draft candidates until the oracle   *)
(* passes one; both end in _admit_verified_tile, which stamps the tile     *)
(* rect, lights the slot and verifies with a drive of the image.           *)
(*                                                                         *)
(* The image has one tile rect, and every lit table word holds its pc.  A  *)
(* drive boots a fresh CPU: only the image outlives it.  The baked task    *)
(* issues the numbers of Issued, each when its table word is lit.          *)
(***************************************************************************)
EXTENDS Integers, Sequences

CONSTANTS
    Tiles,      \* tile texts a proposer or a model may come up with
    Slots,      \* syscall numbers of the table (6..21)
    SysNs,      \* numbers callers pass
    Issued,     \* numbers the image's task issues (8; 10, 11, 12 for the FS)
    Args,       \* argument words a caller seeds the oracle with
    Words,      \* result words
    Zero,       \* the word 0
    Ir,         \* Ir[t]: the StaticVerifier passes tile t
    Home,       \* Home[t]: how t, its HALT now a jump home, fares: "fits";
                \* "over": the verifier counts too many; "hidden": it does not
                \* count the code before the first label, _instr_count does
    Oracle,     \* Oracle[t][a]: r2 when the oracle's loop stops, "none" for
                \* no halt or no assembly, "crash" for an exception of step()
                \* that escalate's guard catches, "raise" for one it does not
                \* (SpatialMisalignmentFault, a RET to a misaligned pixel)
    Die,        \* Die[t]: the result word after t ran in the image, or how
                \* the drive ended: "fault", "hang", "raise"
    MaxDrafts   \* max_attempts of escalate

ASSUME ScopeAssumption ==
    /\ Issued \subseteq Slots /\ MaxDrafts \in Nat \ {0}
    /\ Zero \in Words /\ Words \cap {"none", "crash", "raise", "fault", "hang"} = {}
ASSUME TileAssumption ==
    /\ Ir \in [Tiles -> BOOLEAN]
    /\ Home \in [Tiles -> {"fits", "over", "hidden"}]
    /\ Oracle \in [Tiles -> [Args -> Words \cup {"none", "crash", "raise"}]]
    /\ Die \in [Tiles -> Words \cup {"fault", "hang", "raise"}]

VARIABLES
    table,    \* table[n]: the image's table word of n is the tile pc, not 0
    rect,     \* <<>> for the rect as baked, or <<the request>> stamped into it
    proof,    \* what the drive said of that tile: "none", "pending", "admitted", "rejected"
    stage,    \* the step of the call in progress, or "idle"
    req,      \* the call in progress or the last one
    drafts,   \* candidates escalate has drafted for it
    decision,  \* how the last call ended: "none", "admitted", "rejected", "raised"
    note      \* the receipts the call appended

vars == <<table, rect, proof, stage, req, drafts, decision, note>>

Requests == [via : {"emit", "admit"}, tile : Tiles, sysn : SysNs, arg : Args,
             expected : Words]
\* The tile of an admit_syscall call is a placeholder until the first draft.
Undrafted == CHOOSE t \in Tiles : TRUE
Callable == {r \in Requests : r.via = "admit" => r.tile = Undrafted}

-------------------------------------------------------------------------------
(* Ending a call.                                                          *)

Image == <<table, rect, proof>>
Finish(v) == stage' = "idle" /\ decision' = v
\* A gate of emit_admit turns the proposal down and says so in a receipt.
Refuse == Finish("rejected") /\ note' = Append(note, "rejected")
\* The call ends, and no receipt says so.
End(v) == Finish(v) /\ UNCHANGED note
Goto(s) == stage' = s /\ UNCHANGED <<decision, note>>

Kept == UNCHANGED <<table, rect, proof, req, drafts>>

-------------------------------------------------------------------------------
Call ==
    /\ stage = "idle"
    /\ req' \in Callable
    /\ stage' = IF req'.via = "emit" THEN "range" ELSE "bounds"
    /\ drafts' = 0 /\ decision' = "none" /\ note' = <<>>
    /\ UNCHANGED Image

\* The oracle's word-exact check of r2.
\* Seeded fault: a run that stops is enough.
OracleStopped(t) == Oracle[t][req.arg] \in Words
OraclePassed(t) == Oracle[t][req.arg] = req.expected

(* emit_admit: three gates before the shared tail. *)
EmitRange ==
    /\ stage = "range"
    /\ IF req.sysn \in Slots THEN Goto("ir") ELSE Refuse
    /\ Kept

EmitIr ==
    /\ stage = "ir"
    /\ IF Ir[req.tile] THEN Goto("oracle") ELSE Refuse
    /\ Kept

\* Nothing guards this call of the oracle: an exception of step() escapes.
EmitOracle ==
    /\ stage = "oracle"
    /\ \/ OraclePassed(req.tile) /\ Goto("retarget")
       \/ /\ ~OraclePassed(req.tile)
          /\ Oracle[req.tile][req.arg] \notin {"crash", "raise"}
          /\ Refuse
       \/ Oracle[req.tile][req.arg] \in {"crash", "raise"} /\ End("raised")
    /\ Kept

(* admit_syscall: a range check that raises, then ingest without a runner, *)
(* which is escalate's loop of drafts behind the guarded oracle.           *)
AdmitBounds ==
    /\ stage = "bounds"
    /\ IF req.sysn \in Slots THEN Goto("draft") ELSE End("raised")
    /\ Kept

\* Seeded fault: the loop does not count its drafts.
NoMoreDrafts == 1
MoreDrafts == drafts + 1
Failed(t) == ~OraclePassed(t) /\ Oracle[t][req.arg] # "raise"
Draft ==
    /\ stage = "draft"
    /\ drafts' = MoreDrafts
    /\ \E t \in Tiles :
          /\ req' = [req EXCEPT !.tile = t]
          /\ \/ OraclePassed(t) /\ Goto("retarget")
             \/ Oracle[t][req.arg] = "raise" /\ End("raised")
             \/ Failed(t) /\ drafts' < MaxDrafts /\ Goto("draft")
             \/ Failed(t) /\ drafts' >= MaxDrafts /\ End("rejected")
    /\ UNCHANGED Image

-------------------------------------------------------------------------------
(* _admit_verified_tile.                                                   *)

\* The HALT becomes a jump home; ir_pixel_words verifies the longer text and
\* raises, or the size check rejects it without a receipt.
Retarget ==
    /\ stage = "retarget"
    /\ \/ Ir[req.tile] /\ Home[req.tile] = "fits" /\ Goto("rect")
       \/ (~Ir[req.tile] \/ Home[req.tile] = "over") /\ End("raised")
       \/ Ir[req.tile] /\ Home[req.tile] = "hidden" /\ End("rejected")
    /\ Kept

StampRect ==
    /\ stage = "rect"
    /\ rect' = <<req>> /\ proof' = "pending"
    /\ Goto("table") /\ UNCHANGED <<table, req, drafts>>

StampTable ==
    /\ stage = "table"
    /\ table' = [table EXCEPT ![req.sysn] = TRUE]
    /\ Goto("drive") /\ UNCHANGED <<rect, proof, req, drafts>>

\* What a drive of the image leaves: the prologue zeroes the result word, and
\* each issued number with a lit slot runs the code of the rect.
Outcome == IF rect # <<>> /\ \E n \in Issued : table[n] THEN Die[rect[1].tile] ELSE Zero

\* Seeded faults: any clean run verifies; the slot of a diverging tile stays
\* lit; an admission leaves no receipt; a rejection leaves that of an
\* admission as well.
VerifiedByExit == Outcome \in Words
NotRolledBack == table
ReceiptOfReject(v) == note' = IF v = "rejected" THEN Append(note, v) ELSE note
ReceiptTwice(v) ==
    note' = IF req.via # "emit" THEN note
            ELSE IF v = "rejected" THEN note \o <<"admitted", v>> ELSE Append(note, v)
Verified == Outcome = req.expected
RolledBack == [table EXCEPT ![req.sysn] = FALSE]
\* on_verdict: emit_admit's receipt; admit_syscall passes none.
Receipt(v) == note' = IF req.via = "emit" THEN Append(note, v) ELSE note

\* A drive that raised has no memory to verify: the exception escapes.
Verify ==
    /\ stage = "drive"
    /\ \/ /\ Verified
          /\ Finish("admitted") /\ Receipt("admitted")
          /\ proof' = "admitted" /\ UNCHANGED table
       \/ /\ ~Verified /\ Outcome # "raise"
          /\ Finish("rejected") /\ Receipt("rejected")
          /\ proof' = "rejected" /\ table' = RolledBack
       \/ Outcome = "raise" /\ End("raised") /\ UNCHANGED <<table, proof>>
    /\ UNCHANGED <<rect, req, drafts>>

-------------------------------------------------------------------------------
Init ==
    /\ table = [n \in Slots |-> FALSE] /\ rect = <<>> /\ proof = "none"
    /\ stage = "idle" /\ req \in Callable /\ drafts = 0
    /\ decision = "none" /\ note = <<>>

Emit == EmitRange \/ EmitIr \/ EmitOracle
Admit == AdmitBounds \/ Draft
Stamp == Retarget \/ StampRect \/ StampTable \/ Verify
Next == Call \/ Emit \/ Admit \/ Stamp

Spec == Init /\ [][Next]_vars
\* A call is one thread's run to its end; callers need not call again.
FairSpec == Spec /\ WF_vars(Emit \/ Admit \/ Stamp)

-------------------------------------------------------------------------------
Stages == {"idle", "range", "bounds", "ir", "oracle", "draft", "retarget", "rect",
           "table", "drive"}

(* The type invariant, with what the stages promise one another. *)
TypeOK ==
    /\ table \in [Slots -> BOOLEAN]
    /\ rect = <<>> \/ (rect = <<rect[1]>> /\ rect[1] \in Requests)
    /\ proof \in {"none", "pending", "admitted", "rejected"}
    /\ stage \in Stages /\ req \in Requests /\ drafts \in Nat
    /\ decision \in {"none", "admitted", "rejected", "raised"}
    /\ note \in {<<>>, <<"admitted">>, <<"rejected">>}

(* Whatever code a call left in the live image passed the verifier, fits   *)
(* the rect, and gave the caller's result in the oracle on the caller's    *)
(* argument: there is no way into the image around the gates, whichever of *)
(* the two doors and however many drafts it took.                          *)
OracleGuardsImage ==
    rect # <<>> =>
        /\ rect[1].sysn \in Slots
        /\ Ir[rect[1].tile] /\ Home[rect[1].tile] = "fits"
        /\ Oracle[rect[1].tile][rect[1].arg] = rect[1].expected

(* When the drive finds that the stamped tile diverges, the slot it was    *)
(* admitted to is dark, and stays dark whatever other calls are turned     *)
(* down before they reach the image.                                       *)
DivergedSlotDark == proof = "rejected" => ~table[rect[1].sysn]

(* An admission persists in the image: as long as no later call stamps it, *)
(* every drive with a fresh CPU gives the result the caller was promised.  *)
AdmissionPersists == proof = "admitted" => Outcome = rect[1].expected

(* The audit trail of emit_admit: a call leaves at most one receipt, the   *)
(* receipt says what the call returned, and every admission has one.       *)
AuditTrail ==
    stage = "idle" =>
        /\ note # <<>> => note = <<decision>>
        /\ req.via = "emit" /\ decision = "admitted" => note = <<"admitted">>

(* Every call comes back: the drafting loop gives up after MaxDrafts.      *)
CallReturns == stage # "idle" ~> stage = "idle"

(* Between calls, a lit slot leads to a tile that the drive verified: a    *)
(* broken tile is never live.  The code rolls back the slot of the tile    *)
(* but not the rect, which all lit slots share.                            *)
BrokenTileNeverLive == (stage = "idle" /\ \E n \in Slots : table[n]) => proof = "admitted"
===============================================================================
