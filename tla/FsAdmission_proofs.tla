-------------------------- MODULE FsAdmission_proofs --------------------------
(***************************************************************************)
(* For every set of numbers, arguments and promises: a recipe that was     *)
(* proved on the task's own arguments is verified whatever happened before *)
(* it, and one that was admitted keeps its promise in every later drive.   *)
(***************************************************************************)
EXTENDS FsAdmission, TLAPS

-------------------------------------------------------------------------------
(* The strengthening.  While only recipes were stamped nobody gave up a    *)
(* reference, so each of them answers as on the baked table; and a steady  *)
(* tile answers after its own run as it did before it.                     *)
Table == [name : Nat, len : Nat, in_use : Nat, refcount : Nat]
Own == Reply(rect, Staged, fstab)
Ran(n) == \E k \in lit : k \in Issued /\ k < n
Fair(r) == /\ r.argv = Staged /\ r.n \in Issued
           /\ ~(r.door = "emit_admit" /\ r.tile = "unlink")
Types ==
    /\ fstab \in Table
    /\ at \in {0, 13} \cup Issued /\ req \in Requests \cup {NoReq}
    /\ rect \in Tiles \cup {"none"} /\ lit \subseteq SysNs
    /\ plain \in BOOLEAN /\ word \in Nat /\ promise \in Nat \cup {-1}
    /\ outcome \in {"none", "turned_down", "admitted", "diverged"}
    /\ lit # {} => rect \in Tiles
Plainly == plain => fstab.refcount = 2 /\ rect \in Recipes \cup {"none"}
Underway ==
    at # 0 /\ req # NoReq =>
        rect = req.tile /\ Proved(req) /\ req.n \in lit /\ promise = -1
Served == at # 0 /\ rect \in Steady => word = IF Ran(at) THEN Own ELSE 0
Kept == promise # -1 /\ rect \in Steady => promise = IF Ran(13) THEN Own ELSE 0
Idle == at = 0 /\ promise # -1 /\ rect \in Steady => word = promise
Inv == Types /\ Plainly /\ Underway /\ Served /\ Kept /\ Idle /\ RecipesVerify

-------------------------------------------------------------------------------
(* The tiles: what they return and leave on the task's own arguments.      *)
\* A steady tile answers after its own run as it did before.
LEMMA SteadyReply ==
    ASSUME NEW tile \in Steady, NEW t \in Table
    PROVE  Reply(tile, Staged, Effect(tile, Staged, t)) = Reply(tile, Staged, t)
BY DEF Table, Steady, Tiles, Recipes, Appends, Reply, Refuses, Effect, Matches, References,
       NewName, Staged, NameA, NameB, Errno

\* Every reply is a word and every effect is a table.
LEMMA ReplyType ==
    ASSUME NEW tile \in Tiles, NEW t \in Table
    PROVE  Reply(tile, Staged, t) \in Nat
BY DEF Table, Tiles, Recipes, Reply, Refuses, Matches, Staged, NameA, NameB, Errno
LEMMA EffectType ==
    ASSUME NEW tile \in Tiles, NEW t \in Table
    PROVE  Effect(tile, Staged, t) \in Table
BY DEF Table, Tiles, Recipes, Appends, Effect, Matches, References, NewName, Staged, NameA, NameB

\* A recipe leaves the references, and while there are two of them answers as
\* on the baked table; all but unlink answer so without a table, too.
LEMMA RecipeEffect ==
    ASSUME NEW tile \in Recipes, NEW t \in Table
    PROVE  Effect(tile, Staged, t).refcount = t.refcount
BY DEF Table, Recipes, Appends, Effect, Matches, References, NewName, Staged, NameA, NameB
LEMMA RecipeReply ==
    ASSUME NEW tile \in Recipes, NEW t \in Table, t.refcount = 2
    PROVE  /\ Reply(tile, Staged, t) = Reply(tile, Staged, Baked)
           /\ tile # "unlink" => Reply(tile, Staged, t) = Reply(tile, Staged, Empty)
BY DEF Recipes, Reply, Refuses, Matches, Staged, Baked, Empty, NameA, NameB, Errno

-------------------------------------------------------------------------------
LEMMA InitInv == Init => Inv
BY DEF Init, Inv, Types, Table, Plainly, Underway, Served, Kept, Idle, RecipesVerify, Baked,
       NameA, NoReq, Tiles, Recipes, Issued

LEMMA TypesStep == Types /\ [Next]_vars => Types'
<1> SUFFICES ASSUME Types, [Next]_vars PROVE Types' OBVIOUS
<1> USE FsAssumption DEF Types
<1>1. CASE TurnedDown BY <1>1 DEF TurnedDown
<1>2. CASE Stamp
  <2>1. PICK r \in Requests : req' = r /\ rect' = r.tile /\ lit' = lit \cup {r.n}
                              /\ plain' = (plain /\ r.tile \in Recipes)
    BY <1>2 DEF Stamp
  <2>2. r.n \in SysNs /\ r.tile \in Tiles BY DEF Requests
  <2>3. lit' \subseteq SysNs /\ rect' \in Tiles /\ plain' \in BOOLEAN BY <2>1, <2>2
  <2>4. at' \in Issued /\ word' = 0 /\ promise' = -1 /\ outcome' = "none" /\ fstab' = fstab
    BY <1>2 DEF Stamp, Issued
  <2> QED BY <2>1, <2>3, <2>4
<1>3. CASE Drive BY <1>3 DEF Drive, Issued
<1>4. CASE Skip BY <1>4 DEF Skip, Fixed, Issued
<1>5. CASE Serve
  <2>1. rect \in Tiles BY <1>5 DEF Serve
  <2>2. fstab' \in Table /\ word' \in Nat BY <1>5, <2>1, EffectType, ReplyType DEF Serve
  <2> QED BY <1>5, <2>2 DEF Serve, Fixed, Issued
<1>6. CASE EndDrive BY <1>6 DEF EndDrive, Return
<1>7. CASE Verified
  <2>1. req.expected \in Nat BY <1>7 DEF Verified, Requests
  <2> QED BY <1>7, <2>1 DEF Verified, Return
<1>8. CASE Diverged BY <1>8 DEF Diverged, Return
<1>9. CASE UNCHANGED vars BY <1>9 DEF vars
<1> QED BY <1>1, <1>2, <1>3, <1>4, <1>5, <1>6, <1>7, <1>8, <1>9 DEF Next

LEMMA PlainlyStep == Types /\ Plainly /\ [Next]_vars => Plainly'
<1> SUFFICES ASSUME Types, Plainly, [Next]_vars PROVE Plainly' OBVIOUS
<1> USE DEF Plainly
<1>1. CASE Stamp BY <1>1 DEF Stamp
<1>2. CASE Serve
  <2>1. rect \in Tiles /\ fstab \in Table /\ UNCHANGED <<plain, rect>> /\ fstab' = Effect(rect, Staged, fstab)
    BY <1>2 DEF Serve, Types, Fixed
  <2>2. CASE plain
    <3>1. rect \in Recipes BY <2>1, <2>2 DEF Tiles, Recipes
    <3> QED BY <2>1, <2>2, <3>1, RecipeEffect
  <2> QED BY <2>1, <2>2
<1>3. CASE TurnedDown \/ Drive \/ Skip \/ EndDrive \/ Verified \/ Diverged \/ UNCHANGED vars
  BY <1>3 DEF TurnedDown, Drive, Skip, EndDrive, Verified, Diverged, Return, Fixed, vars
<1> QED BY <1>1, <1>2, <1>3 DEF Next

LEMMA UnderwayStep == Types /\ Underway /\ [Next]_vars => Underway'
<1> SUFFICES ASSUME Types, Underway, [Next]_vars PROVE Underway' OBVIOUS
<1> USE DEF Underway
<1>1. CASE Stamp
  <2>1. PICK r \in Requests : Proved(r) /\ req' = r /\ rect' = r.tile /\ lit' = lit \cup {r.n}
    BY <1>1 DEF Stamp
  <2> QED BY <1>1, <2>1 DEF Stamp, Proved
<1>2. CASE Drive BY <1>2 DEF Drive
<1>3. CASE Skip \/ Serve
  BY <1>3 DEF Skip, Serve, Fixed, Types, Issued, Proved
<1>4. CASE TurnedDown BY <1>4 DEF TurnedDown
<1>5. CASE EndDrive \/ Verified \/ Diverged
  BY <1>5 DEF EndDrive, Verified, Diverged, Return
<1>6. CASE UNCHANGED vars BY <1>6 DEF vars, Proved
<1> QED BY <1>1, <1>2, <1>3, <1>4, <1>5, <1>6 DEF Next

\* What the drive has served so far; Skip passes a number that is not lit.
LEMMA RanNext ==
    ASSUME Types, at \in Issued
    PROVE  Ran(at + 1) <=> Ran(at) \/ at \in lit
BY FsAssumption DEF Ran, Issued, Types

LEMMA ServedStep == Types /\ Served /\ [Next]_vars => Served'
<1> SUFFICES ASSUME Types, Served, [Next]_vars PROVE Served' OBVIOUS
<1>1. CASE Stamp \/ Drive
  <2>1. at' = 10 /\ word' = 0 BY <1>1 DEF Stamp, Drive
  <2>2. ~Ran(10)' BY DEF Ran, Issued
  <2> QED BY <2>1, <2>2 DEF Served, Ran
<1>2. CASE Skip
  <2>1. at \in Issued /\ at \notin lit /\ at' = at + 1 /\ UNCHANGED <<fstab, word, lit, rect>>
    BY <1>2 DEF Skip, Fixed
  <2>2. Ran(at + 1) = Ran(at) BY <2>1, RanNext DEF Ran
  <2>3. at # 0 /\ Ran(at)' = Ran(at + 1) /\ Own' = Own BY <2>1 DEF Ran, Own, Issued
  <2> QED BY <2>1, <2>2, <2>3 DEF Served
<1>3. CASE Serve
  <2>1. /\ at \in Issued /\ at \in lit /\ at' = at + 1 /\ UNCHANGED <<lit, rect>>
        /\ fstab' = Effect(rect, Staged, fstab) /\ word' = Own
    BY <1>3 DEF Serve, Fixed, Own
  <2>2. Ran(at + 1) BY <2>1, RanNext
  <2>3. Ran(at)' BY <2>1, <2>2 DEF Ran
  <2>4. rect \in Steady => Own' = Own BY <2>1, SteadyReply DEF Own, Types
  <2> QED BY <2>1, <2>3, <2>4 DEF Served
<1>4. CASE TurnedDown BY <1>4 DEF TurnedDown, Served
<1>5. CASE EndDrive \/ Verified \/ Diverged
  BY <1>5 DEF EndDrive, Verified, Diverged, Return, Served
<1>6. CASE UNCHANGED vars BY <1>6 DEF vars, Served, Ran, Own
<1> QED BY <1>1, <1>2, <1>3, <1>4, <1>5, <1>6 DEF Next

LEMMA KeptStep == Types /\ Underway /\ Served /\ Kept /\ [Next]_vars => Kept'
<1> SUFFICES ASSUME Types, Underway, Served, Kept, [Next]_vars PROVE Kept' OBVIOUS
<1>1. CASE Stamp BY <1>1 DEF Stamp, Kept
<1>2. CASE Serve
  <2>1. UNCHANGED <<lit, rect, promise>> /\ fstab' = Effect(rect, Staged, fstab)
    BY <1>2 DEF Serve, Fixed
  <2>2. Ran(13)' = Ran(13) BY <2>1 DEF Ran
  <2>3. rect \in Steady => Own' = Own BY <2>1, SteadyReply DEF Own, Types
  <2> QED BY <2>1, <2>2, <2>3 DEF Kept
<1>3. CASE Verified
  <2>1. at = 13 /\ promise' = word /\ UNCHANGED <<fstab, rect, lit>>
    BY <1>3 DEF Verified, Return
  <2>2. Ran(13)' = Ran(13) /\ Own' = Own BY <2>1 DEF Ran, Own
  <2> QED BY <2>1, <2>2 DEF Kept, Served
<1>4. CASE Diverged
  <2>1. promise' = -1 BY <1>4 DEF Diverged, Return, Underway
  <2> QED BY <2>1 DEF Kept
<1>5. CASE TurnedDown \/ Drive \/ Skip \/ EndDrive \/ UNCHANGED vars
  <2>1. UNCHANGED <<fstab, rect, lit, promise>>
    BY <1>5 DEF TurnedDown, Drive, Skip, EndDrive, Return, Fixed, vars
  <2>2. Ran(13)' = Ran(13) /\ Own' = Own BY <2>1 DEF Ran, Own
  <2> QED BY <2>1, <2>2 DEF Kept
<1> QED BY <1>1, <1>2, <1>3, <1>4, <1>5 DEF Next

LEMMA IdleStep == Types /\ Underway /\ Served /\ Kept /\ Idle /\ [Next]_vars => Idle'
<1> SUFFICES ASSUME Types, Underway, Served, Kept, Idle, [Next]_vars PROVE Idle' OBVIOUS
<1>1. CASE Stamp \/ Drive BY <1>1 DEF Stamp, Drive, Idle
<1>2. CASE Skip \/ Serve BY <1>2 DEF Skip, Serve, Issued, Idle
<1>3. CASE EndDrive BY <1>3 DEF EndDrive, Return, Served, Kept, Idle
<1>4. CASE Verified BY <1>4 DEF Verified, Return, Idle
<1>5. CASE Diverged BY <1>5 DEF Diverged, Return, Underway, Idle
<1>6. CASE TurnedDown \/ UNCHANGED vars BY <1>6 DEF TurnedDown, vars, Idle
<1> QED BY <1>1, <1>2, <1>3, <1>4, <1>5, <1>6 DEF Next

LEMMA RecipesStep == Inv /\ [Next]_vars => RecipesVerify'
<1> SUFFICES ASSUME Inv, [Next]_vars PROVE RecipesVerify' OBVIOUS
<1>1. CASE Stamp \/ Drive \/ TurnedDown \/ Verified
  BY <1>1 DEF Stamp, Drive, TurnedDown, Verified, RecipesVerify
<1>2. CASE Skip \/ Serve \/ EndDrive \/ UNCHANGED vars
  BY <1>2 DEF Skip, Serve, EndDrive, Return, Fixed, vars, RecipesVerify, Inv
<1>3. CASE Diverged
  <2>1. /\ at = 13 /\ req \in Requests /\ word # req.expected /\ UNCHANGED <<req, plain>>
        /\ rect = req.tile /\ Proved(req) /\ req.n \in lit
    BY <1>3 DEF Diverged, Return, Inv, Underway, Types
  <2>2. SUFFICES ASSUME plain, Fair(req) PROVE FALSE
    BY <2>1, <2>2 DEF RecipesVerify, Fair
  <2>3. rect \in Recipes /\ rect \in Steady /\ fstab \in Table /\ fstab.refcount = 2
    BY <2>1, <2>2 DEF Inv, Plainly, Types, Requests, Tiles, Recipes, Steady
  <2>4. Ran(13) BY <2>1, <2>2 DEF Ran, Fair, Issued
  <2>5. word = Own BY <2>1, <2>3, <2>4 DEF Inv, Served
  <2>6. Reply(rect, Staged, Plane(req.door)) = req.expected
    BY <2>1, <2>2 DEF Proved, Fair
  <2>7. CASE req.door = "admit_syscall"
    <3>1. Plane(req.door) = Baked BY <2>7 DEF Plane
    <3> QED BY <2>1, <2>3, <2>5, <2>6, <3>1, RecipeReply DEF Own
  <2>8. CASE req.door = "emit_admit"
    <3>1. Plane(req.door) = Empty /\ rect # "unlink" BY <2>1, <2>2, <2>8 DEF Plane, Fair
    <3> QED BY <2>1, <2>3, <2>5, <2>6, <3>1, RecipeReply DEF Own
  <2> QED BY <2>1, <2>7, <2>8 DEF Requests, Doors
<1> QED BY <1>1, <1>2, <1>3 DEF Next

-------------------------------------------------------------------------------
(* The strengthening holds in every state (FsAdmission's Spec).            *)
THEOREM Invariance == Spec => []Inv
<1>1. Init => Inv BY InitInv
<1>2. Inv /\ [Next]_vars => Inv'
  BY TypesStep, PlainlyStep, UnderwayStep, ServedStep, KeptStep, IdleStep, RecipesStep DEF Inv
<1> QED BY <1>1, <1>2, PTL DEF Spec

(* An admitted recipe keeps its promise in every later drive until the     *)
(* next stamp (the verification of _admit_verified_tile).                  *)
THEOREM AdmittedKeeps == Spec => []AdmittedServes
<1>1. Inv => AdmittedServes BY DEF Inv, Idle, AdmittedServes
<1> QED BY <1>1, Invariance, PTL

(* While only recipes were stamped, one that was proved on the task's own  *)
(* arguments is always verified (admit_syscall's oracle and the table).    *)
THEOREM RecipesAreVerified == Spec => []RecipesVerify
<1>1. Inv => RecipesVerify BY DEF Inv
<1> QED BY <1>1, Invariance, PTL

-------------------------------------------------------------------------------
(* The shared file.  A drive is begun only with room for what its three    *)
(* numbers can append, and each number that is passed needs at most one.   *)
File == [name : {NameA, NameB}, len : 2 .. MaxLen, in_use : {1}, refcount : 0 .. 2]
Room == at \in Issued => fstab.len + (13 - at) <= MaxLen
Shared == fstab \in File /\ Room /\ promise \in Expected \cup {-1}

\* Whatever tile runs on the staged arguments, the slot stays in use under one of
\* its two names, gains no reference and grows by at most one.
LEMMA FileEffect ==
    ASSUME NEW tile \in Tiles, NEW t \in File, t.len + 1 <= MaxLen
    PROVE  Effect(tile, Staged, t) \in File /\ Effect(tile, Staged, t).len \in {t.len, t.len + 1}
<1> DEFINE e == Effect(tile, Staged, t)
<1>1. e.name \in {NameA, NameB} /\ e.in_use = 1
  BY DEF File, Effect, NewName, Staged
<1>2. e.len \in {t.len, t.len + 1} BY DEF File, Effect
<1>3. References(tile, t) \in 0 .. 2 BY DEF File, References
<1>4. e.refcount \in 0 .. 2 BY <1>3 DEF File, Effect
<1>5. t.len \in 2 .. MaxLen /\ e.len \in 2 .. MaxLen BY <1>2, FsAssumption DEF File
<1>6. e = [name |-> e.name, len |-> e.len, in_use |-> e.in_use, refcount |-> e.refcount]
  BY DEF File, Effect
<1> HIDE DEF e
<1>7. e \in File BY <1>1, <1>4, <1>5, <1>6 DEF File
<1> QED BY <1>2, <1>7 DEF e

LEMMA SharedStep == Types /\ Shared /\ [Next]_vars => Shared'
<1> SUFFICES ASSUME Types, Shared, [Next]_vars PROVE Shared' OBVIOUS
<1>0. fstab.len \in Nat /\ MaxLen \in Nat BY FsAssumption DEF Shared, File
<1>1. CASE Stamp \/ Drive
  <2>1. at' = 10 /\ fstab' = fstab /\ promise' \in {promise, -1} /\ Roomy
    BY <1>1 DEF Stamp, Drive
  <2> QED BY <1>0, <2>1 DEF Shared, Room, Roomy, Issued
<1>2. CASE Skip
  <2>1. at \in Issued /\ at' = at + 1 /\ UNCHANGED <<fstab, promise>> BY <1>2 DEF Skip, Fixed
  <2> QED BY <1>0, <2>1 DEF Shared, Room, Issued
<1>3. CASE Serve
  <2>1. /\ at \in Issued /\ at' = at + 1 /\ UNCHANGED promise /\ rect \in Tiles
        /\ fstab' = Effect(rect, Staged, fstab)
    BY <1>3 DEF Serve, Fixed, Types
  <2>2. fstab.len + (13 - at) <= MaxLen /\ 13 - at \in 1 .. 3
    BY <2>1 DEF Shared, Room, Issued
  <2>3. fstab' \in File /\ fstab'.len \in {fstab.len, fstab.len + 1}
    BY <1>0, <2>1, <2>2, FileEffect DEF Shared
  <2> QED BY <1>0, <2>1, <2>2, <2>3 DEF Shared, Room, Issued
<1>4. CASE TurnedDown \/ UNCHANGED vars BY <1>4 DEF TurnedDown, vars, Shared, Room
<1>5. CASE EndDrive \/ Diverged
  BY <1>5 DEF EndDrive, Diverged, Return, Shared, Room, Issued
<1>6. CASE Verified
  <2>1. req.expected \in Expected BY <1>6 DEF Verified, Types, Requests
  <2> QED BY <1>6, <2>1 DEF Verified, Return, Shared, Room, Issued
<1> QED BY <1>1, <1>2, <1>3, <1>4, <1>5, <1>6 DEF Next

(* The file that the tasks share keeps its slot, one of its two names and  *)
(* at most its two references, whatever tiles are admitted and driven      *)
(* (fs_v2.py's seed and the tiles of autoatlas.py).                        *)
THEOREM SharedFileStays == Spec => []TypeOK
<1>1. Init => Shared
  BY FsAssumption DEF Init, Shared, File, Room, Baked, Issued
<1>2. Spec => []Shared
  BY <1>1, SharedStep, Invariance, PTL DEF Spec, Inv
<1>3. Inv /\ Shared => TypeOK
  BY DEF Inv, Types, Shared, File, TypeOK
<1> QED BY <1>2, <1>3, Invariance, PTL
===============================================================================
