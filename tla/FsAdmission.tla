------------------------------ MODULE FsAdmission -----------------------------
(***************************************************************************)
(* Admission of file-system tiles into the image of GH-20                  *)
(* (tools/glyph_gpt/fs_v2.py and the gh20 paths of autoatlas.py).  The     *)
(* file table lives in pixels, so what a drive does to it is there for the *)
(* next one, while the oracle of each admission starts from the table that *)
(* was baked, or from none.  The gates before the oracle are in Admission. *)
(***************************************************************************)
EXTENDS Integers

CONSTANTS SysNs,     \* table numbers that callers ask for
          Argvs,     \* arguments that callers prove a tile with: [name, to]
          Expected,  \* results that callers promise
          MaxLen     \* bound: no drive is begun that could append past it

VARIABLES
    fstab,    \* name, len, in_use and refcount of slot 0, in pixels
    lit,      \* the numbers whose table word leads to the tile rect
    rect,     \* the tile in the rect
    at,       \* 0 between drives, else the number that task A probes next; 13 is its tail
    req,      \* the admission that this drive verifies
    word,     \* word 754
    outcome,  \* of the last admission
    promise,  \* history: what the last one promised, if it was verified
    plain     \* history: only recipes were ever in the rect

vars == <<fstab, lit, rect, at, req, word, outcome, promise, plain>>

NameA == 65
NameB == 66
Errno == 69
Baked == [name |-> NameA, len |-> 2, in_use |-> 1, refcount |-> 2]
Empty == [name |-> 0, len |-> 0, in_use |-> 0, refcount |-> 0]

\* The three recipes, and drafts that the tile contract allows as well: one that
\* compares the name it reads in slot 0, one that returns the new length, and one
\* that gives up a reference for each call.
Recipes == {"append", "rename", "unlink"}
Tiles == Recipes \cup {"append_checked", "append_len", "release"}
Issued == 10 .. 12
Staged == [name |-> NameA, to |-> NameB]
Doors == {"admit_syscall", "emit_admit"}
Requests == [door : Doors, n : SysNs, tile : Tiles, argv : Argvs, expected : Expected]
NoReq == [door |-> "none"]
ASSUME FsAssumption ==
    /\ SysNs \subseteq 6 .. 21 /\ Argvs \subseteq [name : Nat, to : Nat]
    /\ Expected \subseteq Nat /\ MaxLen \in Nat /\ MaxLen >= Baked.len

-------------------------------------------------------------------------------
(* The tiles.  Effect is the table they leave, Reply the word they return. *)
\* Seeded fault: the recipe compares the name that it reads in the table.
MatchesStored(tile, argv, t) == argv.name = t.name
Matches(tile, argv, t) ==
    argv.name = IF tile = "append_checked" THEN t.name ELSE NameA
\* Seeded fault: a refused unlink gives a reference up all the same.
ReferencesUnlinked(tile, t) ==
    IF tile \in {"release", "unlink"} /\ t.refcount > 0 THEN t.refcount - 1 ELSE t.refcount
References(tile, t) ==
    IF tile = "release" /\ t.refcount > 0 THEN t.refcount - 1 ELSE t.refcount
\* Seeded fault: the recipe stores the address of its argument.
NewNameAddress(argv) == 751
NewName(argv) == argv.to
Appends == {"append", "append_checked", "append_len"}
Effect(tile, argv, t) ==
    IF ~Matches(tile, argv, t) THEN t
    ELSE [name |-> IF tile = "rename" THEN NewName(argv) ELSE t.name,
          len |-> IF tile \in Appends THEN t.len + 1 ELSE t.len,
          in_use |-> t.in_use, refcount |-> References(tile, t)]
Refuses(tile, argv, t) ==
    \/ ~Matches(tile, argv, t)
    \/ tile = "unlink" /\ t.refcount # 0
    \/ tile = "release" /\ t.refcount = 0
Reply(tile, argv, t) ==
    IF Refuses(tile, argv, t) THEN Errno
    ELSE IF tile = "append_len" THEN t.len + 1 ELSE 0

-------------------------------------------------------------------------------
(* The host.                                                               *)
\* admit_syscall seeds the oracle with the baked table, emit_admit with arguments only.
Plane(door) == IF door = "admit_syscall" THEN Baked ELSE Empty
Proved(r) == Reply(r.tile, r.argv, Plane(r.door)) = r.expected
Roomy == fstab.len + 3 <= MaxLen

TurnedDown ==
    /\ at = 0 /\ \E r \in Requests : ~Proved(r)
    /\ outcome' = "turned_down" /\ UNCHANGED <<fstab, lit, rect, at, req, word, promise, plain>>
\* The rect and the table word are stamped, and the image is driven.
Stamp ==
    /\ at = 0 /\ Roomy /\ at' = 10 /\ word' = 0
    /\ \E r \in Requests :
          /\ Proved(r) /\ req' = r /\ rect' = r.tile /\ lit' = lit \cup {r.n}
          /\ plain' = (plain /\ r.tile \in Recipes)
    /\ outcome' = "none" /\ promise' = -1 /\ UNCHANGED fstab
Drive ==
    /\ at = 0 /\ Roomy /\ at' = 10 /\ word' = 0 /\ req' = NoReq /\ outcome' = "none"
    /\ UNCHANGED <<fstab, lit, rect, promise, plain>>

(* Task A: for each number, probe the table and call when it is lit.       *)
Fixed == UNCHANGED <<lit, rect, req, outcome, promise, plain>>
Skip == at \in Issued /\ at \notin lit /\ at' = at + 1 /\ UNCHANGED <<fstab, word>> /\ Fixed
Serve ==
    /\ at \in Issued /\ at \in lit /\ at' = at + 1 /\ Fixed
    /\ fstab' = Effect(rect, Staged, fstab) /\ word' = Reply(rect, Staged, fstab)

(* The end of the drive: word 754 against the promise.                     *)
Return == at = 13 /\ at' = 0 /\ UNCHANGED <<fstab, rect, req, word, plain>>
EndDrive == req = NoReq /\ Return /\ UNCHANGED <<lit, outcome, promise>>
Verified ==
    /\ req # NoReq /\ word = req.expected /\ Return
    /\ outcome' = "admitted" /\ promise' = req.expected /\ UNCHANGED lit
\* The table word is zeroed; the rect and the file table stay as they are.
Diverged ==
    /\ req # NoReq /\ word # req.expected /\ Return
    /\ outcome' = "diverged" /\ lit' = lit \ {req.n} /\ UNCHANGED promise

Init ==
    /\ fstab = Baked /\ lit = {} /\ rect = "none" /\ at = 0 /\ req = NoReq /\ word = 0
    /\ outcome = "none" /\ promise = -1 /\ plain = TRUE
Next == TurnedDown \/ Stamp \/ Drive \/ Skip \/ Serve \/ EndDrive \/ Verified \/ Diverged
Spec == Init /\ [][Next]_vars

-------------------------------------------------------------------------------
(* The shared file keeps its slot and one of its two names, whichever of   *)
(* Tiles run, and a number is only lit over a tile (fs_v2.py's seed).      *)
TypeOK ==
    /\ fstab \in [name : {NameA, NameB}, len : 2 .. MaxLen, in_use : {1}, refcount : 0 .. 2]
    /\ lit \subseteq SysNs /\ (lit # {} => rect \in Tiles) /\ rect \in Tiles \cup {"none"}
    /\ at \in {0, 13} \cup Issued /\ req \in Requests \cup {NoReq}
    /\ outcome \in {"none", "turned_down", "admitted", "diverged"}
    /\ promise \in Expected \cup {-1} /\ plain \in BOOLEAN

(* A recipe keeps the promise it was admitted with in every later drive,   *)
(* until another tile is stamped: neither its own earlier runs nor the     *)
(* pixels that they changed turn its answer (the gh20 verification).       *)
Steady == Tiles \ {"append_len", "release"}
AdmittedServes == at = 0 /\ promise # -1 /\ rect \in Steady => word = promise

(* The oracle never sees the table as earlier drives left it.  As long as  *)
(* only the recipes were ever stamped this is harmless: one that was       *)
(* proved on the task's own arguments is always verified, whatever was     *)
(* admitted, driven and renamed before it.  The exceptions are a number    *)
(* that the task does not issue, and unlink through emit_admit, whose      *)
(* oracle has no table at all.                                             *)
RecipesVerify ==
    outcome = "diverged" =>
        \/ ~plain \/ req.argv # Staged \/ req.n \notin Issued
        \/ req.door = "emit_admit" /\ req.tile = "unlink"
===============================================================================
