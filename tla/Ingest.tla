--------------------------------- MODULE Ingest --------------------------------
(***************************************************************************)
(* ingest of tools/glyph_gpt/autoatlas.py over the loader kernel: a model  *)
(* drafts a routine, the oracle passes it, the atlas registers it, a drive *)
(* injects it through the mailbox, and what the kernel computed decides.   *)
(* A routine that diverges is unregistered and drafted again.              *)
(***************************************************************************)
EXTENDS Loader

CONSTANTS Names,       \* routine names
          Loaded,      \* programs that other hosts of the image load
          Ir,          \* Ir[p]: the static verifier passes p
          Fits,        \* Fits[p]: at most 24 instructions by _instr_count
          Vec,         \* Vec[p]: p passes every admission vector of the callers
          MaxAttempts  \* max_attempts

None == "none"
ASSUME IngestAssumption ==
    /\ Ir \in [Programs -> BOOLEAN] /\ Fits \in [Programs -> BOOLEAN]
    /\ Vec \in [Programs -> BOOLEAN] /\ Loaded \subseteq Programs /\ MaxAttempts \in Nat \ {0} /\ None \notin Programs

VARIABLES
    atlas,    \* atlas[n]: the registered tile of n
    stage,    \* step of the call, or "idle"
    call,     \* its arguments
    tile,     \* the candidate that escalate returned
    cycles,   \* injections it has made
    code,     \* the code of the last call, "raised" for an exception
    served    \* history: the tile that the last call to use the window admitted

ingestVars == <<atlas, stage, call, tile, cycles, code>>
vars == <<loaderVars, ingestVars, served>>

Calls == [name : Names, family : BOOLEAN, runner : BOOLEAN, vectors : BOOLEAN]
NoCall == [name |-> None, family |-> FALSE, runner |-> FALSE, vectors |-> FALSE]

-------------------------------------------------------------------------------
(* Other hosts of the image, while no call is in progress.                 *)
OtherDrive ==
    /\ stage = "idle" /\ UNCHANGED ingestVars
    /\ \/ \E a \in Argvs : Begin(None, 0, a) /\ UNCHANGED served
       \/ \E p \in Loaded, n \in 1 .. Capacity, a \in Argvs : Begin(p, n, a) /\ served' = None
OtherEnd == stage = "idle" /\ End /\ UNCHANGED <<ingestVars, served>>

-------------------------------------------------------------------------------
(* The call.  A step that does not drive leaves the image alone.           *)
Apart == UNCHANGED <<loaderVars, served>>
Next1(s) == stage' = s /\ UNCHANGED code
Return(c) == stage' = "idle" /\ code' = c

\* Gate 0: the family's whitelist.
Begins ==
    /\ stage = "idle" /\ pc = "off" /\ call' \in Calls /\ cycles' = 0 /\ tile' = None
    /\ IF call'.family THEN stage' = "draft" /\ code' = None ELSE Return("E_ATLAS_FAMILY")
    /\ UNCHANGED atlas /\ Apart
\* escalate: some candidate passed the oracle and the vectors, none did, or an
\* exception of the machine got past its guard.
Escalate(vectors) ==
    \/ \E p \in Programs : /\ vectors => Vec[p]
                           /\ tile' = p /\ code' = code
    \/ tile' = None /\ code' = "E_ATLAS_UNVERIFIED"
    \/ tile' = None /\ code' = "raised"
Draft ==
    /\ stage = "draft" /\ Escalate(call.vectors) /\ UNCHANGED <<atlas, call, cycles>> /\ Apart
    /\ stage' = IF tile' = None THEN "idle" ELSE IF call.runner THEN "gate" ELSE "accept"
\* The IR gate.
Gate ==
    /\ stage = "gate" /\ UNCHANGED <<atlas, call, tile, cycles>> /\ Apart
    /\ IF Ir[tile] THEN Next1("register") ELSE Return("E_ATLAS_INJECT")
\* The tile is registered before its length is looked at.
Register ==
    /\ stage = "register" /\ atlas' = [atlas EXCEPT ![call.name] = tile]
    /\ IF Fits[tile] THEN Next1("inject") ELSE Return("E_ATLAS_INJECT")
    /\ UNCHANGED <<call, tile, cycles>> /\ Apart
Inject ==
    /\ stage = "inject" /\ Next1("drive") /\ Begin(tile, Capacity, Golden) /\ served' = None
    /\ UNCHANGED <<atlas, call, tile, cycles>>

\* Seeded fault: the exit word is enough.
GreenByExit == ~out.fault /\ out.exit
\* The result word, the exit word and no fault; not whether the machine halted.
Green == ~out.fault /\ out.result = "right" /\ out.exit
DriveReturns == stage = "drive" /\ pc \in {"stopped", "hung"} /\ End
\* The receipt of a drive that raised has no memory to read.
DriveRaised ==
    /\ out.raised /\ DriveReturns /\ Return("raised")
    /\ UNCHANGED <<atlas, call, tile, cycles, served>>
DriveGreen ==
    /\ ~out.raised /\ Green /\ DriveReturns /\ Next1("accept") /\ served' = tile
    /\ UNCHANGED <<atlas, call, tile, cycles>>
\* Seeded fault: the tile stays registered.
Kept(n) == atlas
Popped(n) == [atlas EXCEPT ![n] = None]
Diverged ==
    /\ ~out.raised /\ ~Green /\ DriveReturns /\ Next1("redraft") /\ atlas' = Popped(call.name)
    /\ UNCHANGED <<call, tile, cycles, served>>
\* Seeded fault: the loop is not bounded.
MoreUncounted == cycles
More == cycles + 1
\* The kernel's feedback is escalated, without the admission vectors.
Redraft ==
    /\ stage = "redraft" /\ UNCHANGED <<atlas, call>> /\ Apart /\ cycles' = More
    /\ \/ Escalate(FALSE) /\ stage' = (IF tile' = None THEN "idle" ELSE "gate")
          /\ (tile' # None => cycles' < MaxAttempts)
       \/ tile' \in Programs /\ cycles' >= MaxAttempts /\ Return("E_ATLAS_INJECT")
Accept ==
    /\ stage = "accept" /\ Return("OK") /\ UNCHANGED <<atlas, call, tile, cycles>> /\ Apart

Init ==
    /\ LoaderInit /\ atlas = [n \in Names |-> None] /\ stage = "idle" /\ call = NoCall
    /\ tile = None /\ cycles = 0 /\ code = None /\ served = None
CallStep == \/ Draft \/ Gate \/ Register \/ Inject \/ DriveRaised \/ DriveGreen
            \/ Diverged \/ Redraft \/ Accept
Kernel == LoaderStep /\ UNCHANGED <<ingestVars, served>>
Next == OtherDrive \/ OtherEnd \/ Begins \/ CallStep \/ Kernel
Spec == Init /\ [][Next]_vars
\* The call is a Python function whose model replies, and drive() steps the CPU.
FairSpec == Spec /\ WF_vars(CallStep) /\ WF_vars(Kernel)

-------------------------------------------------------------------------------
Pixels == {HALT} \cup UNION {{Px[p][i] : i \in 1 .. Capacity} : p \in Programs}
TypeOK ==
    /\ leg \in {"plain", "fault"} /\ window \in [1 .. Capacity -> Pixels]
    /\ flag \in BOOLEAN /\ npx \in 0 .. Capacity /\ argv \in Argvs /\ r0 \in {0, 1}
    /\ left \in 0 .. Capacity /\ done \in 0 .. Capacity
    /\ atlas \in [Names -> Programs \cup {None}] /\ tile \in Programs \cup {None}
    /\ cycles \in 0 .. MaxAttempts /\ served \in Programs \cup {None}

\* The tile gives the golden vector's outcome whatever its entry left in the
\* registers, as the contract's text asks ("ALL REGISTERS ARE DIRTY AT ENTRY").
IgnoresEntry(p) == Fate[p]["resident"][Golden] = Fate[p]["load"][Golden]
OutRight == out.result = "right" /\ out.exit /\ ~out.fault
(* The tile of an admission "persists offline": until some host loads      *)
(* another program the window holds it, through every drive, and a drive   *)
(* without a mailbox does what these words do from that leg's registers    *)
(* with this argv.  The admission ran them by the load leg: of the same    *)
(* argv a tile gives the promised result again if both legs end it alike.  *)
ServedOffline ==
    served # None =>
      /\ window = Px[served]
      /\ pc \in {"stopped", "hung"} =>
           /\ out = OutOf(Fate[served]["resident"][argv])
           /\ argv = Golden /\ IgnoresEntry(served) => OutRight

(* A tile that the kernel saw diverging is not left in the atlas.  (One    *)
(* that is too long for the window, or whose drive raised, is.)            *)
DivergedUnregistered ==
    stage = "idle" => \A n \in Names :
        atlas[n] # None /\ Fits[atlas[n]] =>
            Fate[atlas[n]]["load"][Golden] \in {"right", "spin", "raise"}

(* A call returns within its attempts, whatever the drafts do on the die.  *)
CallEnds == stage # "idle" ~> stage = "idle"

(* ingest's docstring: admission_vectors are "extra oracle proofs required *)
(* before registration".  A redraft is not held to them.                   *)
VectorsRequired == stage = "idle" /\ code = "OK" /\ call.vectors => Vec[tile]
===============================================================================
