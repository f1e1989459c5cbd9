----------------------------- MODULE Ingest_proofs -----------------------------
(***************************************************************************)
(* For every set of programs, window size and number of attempts: the      *)
(* loader's patch is exact, a tile that ingest admitted is what later      *)
(* drives run, and one that the kernel saw diverging is not registered.    *)
(***************************************************************************)
EXTENDS Ingest, TLAPS

-------------------------------------------------------------------------------
(* The strengthening, for the loader: what each label knows of the window, *)
(* of the loop's registers and of the receipt's words.                     *)
Windows == [1 .. Capacity -> Pixels]
Outs == [result : {"zero", "right", "other"}, exit : BOOLEAN, fault : BOOLEAN,
         raised : BOOLEAN]
Labels == {"off", "prologue", "launch", "patch", "window", "ftask", "done", "stopped", "hung"}
Ended == {"done", "stopped", "hung"}
\* The window after k of the copies.
CopiedTo(k) == window = [i \in 1 .. Capacity |-> IF i <= k THEN payload[i] ELSE boot[i]]
LoaderTypes ==
    /\ leg \in {"plain", "fault"} /\ pc \in Labels /\ fresh \in BOOLEAN
    /\ window \in Windows /\ payload \in Windows /\ boot \in Windows
    /\ flag \in BOOLEAN /\ npx \in 0 .. Capacity /\ argv \in Argvs /\ r0 \in {0, 1}
    /\ left \in 0 .. Capacity /\ done \in 0 .. Capacity /\ out \in Outs
Before ==
    /\ pc \in {"off", "prologue", "launch", "ftask"} => window = boot
    /\ pc = "off" => ~fresh
    /\ pc \in {"off", "prologue", "launch"} => flag = fresh
    /\ pc # "off" => fresh = (npx # 0)
Copying ==
    pc = "patch" =>
      /\ leg = "plain" /\ fresh /\ left + done = npx /\ CopiedTo(done)
      /\ (r0 = 1 /\ done = 0) \/ (r0 = 0 /\ done # 0 /\ npx # 1)
Running ==
    /\ pc = "window" => leg = "plain"
    /\ pc = "ftask" => leg = "fault"
    /\ pc \in Ended \cup {"window"} /\ leg = "plain" =>
         CopiedTo(IF fresh THEN Copied(npx) ELSE 0)
Reported ==
    /\ pc \in Ended /\ leg = "plain" => \E f \in FatesOf(window) : out = OutOf(f)
    /\ pc \in Ended /\ leg = "fault" => pc # "hung" /\ out.fault /\ ~out.raised
LoaderInv == LoaderTypes /\ Before /\ Copying /\ Running /\ Reported

\* For the call: where its tile is while it is in progress.
Stages == {"idle", "draft", "gate", "register", "inject", "drive", "accept", "redraft"}
Drafted == {"gate", "register", "inject", "drive", "accept", "redraft"}
CallTypes ==
    /\ atlas \in [Names -> Programs \cup {None}] /\ tile \in Programs \cup {None}
    /\ cycles \in 0 .. MaxAttempts /\ served \in Programs \cup {None}
    /\ stage \in Stages /\ (stage # "idle" => call \in Calls /\ cycles < MaxAttempts)
    /\ stage \in Drafted => tile \in Programs
Injected == stage \in {"inject", "drive"} => atlas[call.name] = tile
Driven ==
    /\ stage \notin {"idle", "drive"} => pc = "off"
    /\ stage = "drive" => /\ pc # "off" /\ npx = Capacity /\ payload = Px[tile]
                          /\ argv = Golden /\ served = None
\* The endings with a green receipt.
Greens == {"right", "spin"}
\* Sound(p): the kernel did not see p diverge, or never had its receipt.
Sound(p) == Fits[p] => Fate[p]["load"][Golden] \in Greens \cup {"raise"}
Clean ==
    \A n \in Names : \/ atlas[n] = None \/ Sound(atlas[n])
                     \/ stage \in {"inject", "drive"} /\ n = call.name
Resident ==
    served # None => /\ leg = "plain" /\ ~fresh /\ ~flag
                     /\ window = Px[served] /\ Fate[served]["load"][Golden] \in Greens
IngestInv == CallTypes /\ Injected /\ Driven /\ Clean /\ Resident
Inv == LoaderInv /\ IngestInv

-------------------------------------------------------------------------------
(* Programs, windows and what a receipt tells of how a program ended.      *)
\* The words of a program fill the window, and so does the empty payload.
LEMMA PxType == \A p \in Programs : Px[p] \in Windows
<1>1. ASSUME NEW p \in Programs, NEW i \in 1 .. Capacity PROVE Px[p][i] \in Pixels BY DEF Pixels
<1>2. ASSUME NEW p \in Programs PROVE Px[p] = [i \in 1 .. Capacity |-> Px[p][i]]
  BY ProgramAssumption
<1>. QED BY <1>1, <1>2 DEF Windows
LEMMA EmptyType == Empty \in Windows
BY DEF Empty, Windows, Pixels

\* The receipt of an ending has the three words and the exception's flag.
LEMMA OutType == \A f \in Fates : OutOf(f) \in Outs
<1>1. NoOut \in Outs BY DEF NoOut, Outs
<1>. QED BY <1>1, Zenon DEF Fates, OutOf, NoOut, Outs

\* A green receipt is that of a program which ended right.
LEMMA GreenFate ==
    ASSUME NEW f \in Fates, ~OutOf(f).fault, OutOf(f).result = "right", OutOf(f).exit
    PROVE  f \in Greens
BY DEF Fates, OutOf, NoOut, Greens
\* A receipt without memory is that of a program whose step raised.
LEMMA RaisedFate ==
    ASSUME NEW f \in Fates, OutOf(f).raised
    PROVE  f = "raise"
BY DEF Fates, OutOf, NoOut
\* And each of these endings has one.
LEMMA GreenOut ==
    ASSUME NEW f \in Greens
    PROVE  OutOf(f).result = "right" /\ OutOf(f).exit /\ ~OutOf(f).fault
BY DEF Greens, OutOf, NoOut

LEMMA FateType == \A p \in Programs, g \in Legs, a \in Argvs : Fate[p][g][a] \in Fates
BY ProgramAssumption
\* A window that holds a program ends as that program does, entered by this leg.
LEMMA FatesOfPx ==
    ASSUME NEW p \in Programs, Entry \in Legs
    PROVE  FatesOf(Px[p]) = {Fate[p][Entry][argv]}
BY FateAssumption DEF FatesOf
LEMMA FatesType ==
    ASSUME argv \in Argvs
    PROVE  \A w : FatesOf(w) \subseteq Fates
BY FateType DEF FatesOf

-------------------------------------------------------------------------------
(* The loader, one step at a time.                                         *)
LEMMA LoaderInitial == LoaderInit => LoaderInv
<1>. SUFFICES ASSUME LoaderInit PROVE LoaderInv
  OBVIOUS
<1>1. LoaderTypes
  <2>1. NoOut \in Outs BY DEF NoOut, Outs
  <2>2. 0 \in 0 .. Capacity BY CapacityAssumption
  <2>. QED BY <2>1, <2>2, EmptyType, ProgramAssumption DEF LoaderInit, LoaderTypes, Labels
<1>. QED BY <1>1 DEF LoaderInit, LoaderInv, Before, Copying, Running, Reported, Ended

\* A host begins a drive with at most a window of words.
LEMMA LoaderBegin ==
    ASSUME LoaderInv, NEW p, NEW n \in 0 .. Capacity, n # 0 => p \in Programs,
           NEW a \in Argvs, Begin(p, n, a)
    PROVE  LoaderInv'
<1>1. payload' \in Windows BY EmptyType, PxType DEF Begin
<1>2. LoaderTypes'
  BY <1>1, CapacityAssumption DEF LoaderInv, LoaderTypes, Begin, Labels, mailbox, regs
<1>. QED BY <1>2 DEF LoaderInv, LoaderTypes, Begin, Before, Copying, Running, Reported, Ended

LEMMA LoaderEnd ==
    ASSUME LoaderInv, End
    PROVE  LoaderInv'
<1>1. NoOut \in Outs BY DEF NoOut, Outs
<1>2. 0 \in 0 .. Capacity BY CapacityAssumption
<1>3. LoaderTypes'
  BY <1>1, <1>2, EmptyType, ProgramAssumption DEF LoaderInv, LoaderTypes, End, Labels
<1>. QED BY <1>3 DEF LoaderInv, LoaderTypes, End, Before, Copying, Running, Reported, Ended

\* Nothing of the loader changes.
LEMMA LoaderStutter ==
    ASSUME LoaderInv, UNCHANGED loaderVars
    PROVE  LoaderInv'
BY DEF LoaderInv, LoaderTypes, Before, Copying, CopiedTo, Running, Reported, FatesOf, Entry,
       loaderVars, mailbox, regs

LEMMA LoaderKernel ==
    ASSUME LoaderInv, LoaderStep
    PROVE  LoaderInv'
<1>. USE CapacityAssumption DEF LoaderInv, Held
<1>1. CASE Prologue
  <2>1. LoaderTypes' BY <1>1 DEF Prologue, LoaderTypes, Labels, regs
  <2>. QED BY <1>1, <2>1 DEF Prologue, Before, Copying, Running, Reported, Ended
<1>2. CASE Launch
  <2>0. flag' \in BOOLEAN /\ r0' \in {0, 1} /\ left' \in 0 .. Capacity
        /\ done' \in 0 .. Capacity
    <3>1. CASE leg = "fault" BY <1>2, <3>1 DEF Launch, LoaderTypes, regs
    <3>2. CASE leg # "fault" /\ flag
      <4>1. flag' = FALSE /\ r0' = 1 /\ left' = npx /\ done' = 0
        BY <1>2, <3>2, Zenon DEF Launch, Count
      <4>2. flag' \in BOOLEAN BY <4>1
      <4>3. r0' \in {0, 1} /\ left' \in 0 .. Capacity /\ done' \in 0 .. Capacity
        BY <4>1 DEF LoaderTypes
      <4>. QED BY <4>2, <4>3
    <3>3. CASE leg # "fault" /\ ~flag
      <4>1. flag' = flag /\ r0' = 0 /\ left' = left /\ done' = done
        BY <1>2, <3>3, Zenon DEF Launch
      <4>. QED BY <4>1 DEF LoaderTypes
    <3>. QED BY <3>1, <3>2, <3>3
  <2>1. LoaderTypes' BY <1>2, <2>0 DEF Launch, LoaderTypes, Labels
  <2>2. window = boot /\ flag = fresh /\ fresh = (npx # 0) BY <1>2 DEF Launch, Before
  <2>3. UNCHANGED <<window, boot, payload, argv, fresh, npx, leg>> BY <1>2 DEF Launch
  <2>4. window = [i \in 1 .. Capacity |-> boot[i]]
    BY <2>2 DEF LoaderTypes, Windows
  <2>5. CopiedTo(0)' BY <2>3, <2>4 DEF CopiedTo
  <2>6. pc' \in {"ftask", "patch", "window"} BY <1>2 DEF Launch
  <2>7. Before' BY <2>2, <2>3, <2>6 DEF Before
  <2>8. Copying'
    <3>1. SUFFICES ASSUME pc' = "patch" PROVE Copying'
      BY DEF Copying
    <3>2. leg = "plain" /\ flag /\ r0' = 1 /\ left' = npx /\ done' = 0
      BY <1>2, <3>1 DEF Launch, Count, LoaderTypes
    <3>. QED BY <2>2, <2>3, <2>5, <3>1, <3>2 DEF Copying, LoaderTypes, CopiedTo
  <2>9. Running'
    <3>1. pc' = "window" => leg = "plain" /\ ~flag BY <1>2 DEF Launch, LoaderTypes
    <3>2. pc' = "ftask" => leg = "fault" BY <1>2 DEF Launch
    <3>. QED BY <2>2, <2>3, <2>5, <2>6, <3>1, <3>2 DEF Running, Ended, CopiedTo
  <2>10. Reported' BY <2>6 DEF Reported, Ended
  <2>. QED BY <2>1, <2>7, <2>8, <2>9, <2>10
<1>3. CASE Patch
  <2>1. /\ leg = "plain" /\ fresh /\ left + done = npx /\ CopiedTo(done)
        /\ (r0 = 1 /\ done = 0) \/ (r0 = 0 /\ done # 0 /\ npx # 1)
        /\ left # r0 /\ npx # 0
    BY <1>3 DEF Patch, Exhausted, Copying, Before
  <2>2. left \in 1 .. Capacity /\ done + 1 \in 1 .. Capacity /\ npx # 1
    BY <2>1 DEF LoaderTypes
  <2>3. UNCHANGED <<leg, npx, payload, argv, boot, fresh, pc, flag, out>> /\ pc = "patch"
    BY <1>3 DEF Patch
  <2>4. r0' = 0 /\ left' = left - 1 /\ done' = done + 1 BY <1>3 DEF Patch
  <2>5. window' = [window EXCEPT ![done + 1] = payload[done + 1]] BY <1>3 DEF Patch
  <2>6. window' \in Windows
    <3>1. payload[done + 1] \in Pixels BY <2>2 DEF LoaderTypes, Windows
    <3>. QED BY <2>5, <3>1 DEF LoaderTypes, Windows
  <2>7. CopiedTo(done)'
    <3>1. CopiedTo(done) BY <2>1
    <3>2. ASSUME NEW i \in 1 .. Capacity
          PROVE  window'[i] = IF i <= done + 1 THEN payload[i] ELSE boot[i]
      <4>1. window[i] = IF i <= done THEN payload[i] ELSE boot[i] BY <3>1 DEF CopiedTo
      <4>2. window'[i] = IF i = done + 1 THEN payload[i] ELSE window[i]
        BY <2>5 DEF LoaderTypes, Windows
      <4>. QED BY <4>1, <4>2 DEF LoaderTypes
    <3>3. window' = [i \in 1 .. Capacity |-> window'[i]] BY <2>6 DEF Windows
    <3>4. window' = [i \in 1 .. Capacity |-> IF i <= done + 1 THEN payload[i] ELSE boot[i]]
      BY <3>2, <3>3
    <3>. QED BY <3>4, <2>3, <2>4 DEF CopiedTo
  <2>8. LoaderTypes' BY <2>2, <2>3, <2>4, <2>6 DEF LoaderTypes
  <2>9. Copying' BY <2>1, <2>2, <2>3, <2>4, <2>7 DEF Copying, LoaderTypes
  <2>. QED BY <2>3, <2>8, <2>9 DEF Before, Running, Reported, Ended
<1>4. CASE PatchDone
  <2>1. /\ leg = "plain" /\ fresh /\ left + done = npx /\ CopiedTo(done)
        /\ (r0 = 1 /\ done = 0) \/ (r0 = 0 /\ done # 0 /\ npx # 1)
        /\ left = r0
    BY <1>4 DEF PatchDone, Exhausted, Copying
  <2>2. done = Copied(npx) BY <2>1 DEF LoaderTypes, Copied
  <2>3. UNCHANGED <<window, leg, npx, payload, argv, boot, fresh, flag, out, left, done>>
        /\ pc' = "window" /\ r0' = 1 /\ pc = "patch"
    BY <1>4 DEF PatchDone
  <2>4. CopiedTo(IF fresh THEN Copied(npx) ELSE 0)'
    BY <2>1, <2>2, <2>3 DEF CopiedTo
  <2>. QED
    BY <2>1, <2>3, <2>4 DEF LoaderTypes, Labels, Before, Copying, Running, Reported, Ended
<1>5. CASE RunWindow
  <2>1. PICK f \in FatesOf(window) :
          /\ out' = OutOf(f)
          /\ pc' = IF f = "fault" THEN "done" ELSE IF f \in {"hang", "spin"} THEN "hung" ELSE "stopped"
    BY <1>5 DEF RunWindow
  <2>2. UNCHANGED <<window, leg, npx, payload, argv, boot, fresh, flag, r0, left, done>>
        /\ pc = "window" /\ leg = "plain"
    BY <1>5 DEF RunWindow, Running, regs
  <2>3. out' \in Outs BY <2>1, OutType, FatesType DEF LoaderTypes
  <2>4. pc' \in Ended BY <2>1 DEF Ended
  <2>5. LoaderTypes' BY <2>2, <2>3, <2>4 DEF LoaderTypes, Labels, Ended
  <2>6. CopiedTo(IF fresh THEN Copied(npx) ELSE 0)'
    BY <2>2 DEF Running, CopiedTo
  <2>7. Running' BY <2>2, <2>4, <2>6 DEF Running, Ended
  <2>8. Reported' BY <2>1, <2>2 DEF Reported, FatesOf, Entry
  <2>. QED BY <2>2, <2>4, <2>5, <2>7, <2>8 DEF Before, Copying, Ended
<1>6. CASE FaultTask
  <2>1. out' \in Outs /\ out'.fault /\ ~out'.raised BY <1>6 DEF FaultTask, NoOut, Outs
  <2>2. LoaderTypes' BY <1>6, <2>1 DEF FaultTask, LoaderTypes, Labels, regs
  <2>. QED
    BY <1>6, <2>1, <2>2 DEF FaultTask, Before, Copying, Running, Reported, Ended
<1>7. CASE DoneTail
  <2>1. UNCHANGED <<window, leg, npx, payload, argv, boot, fresh, flag, r0, left, done, out>>
        /\ pc = "done" /\ pc' = "stopped"
    BY <1>7 DEF DoneTail, regs
  <2>. QED
    BY <2>1 DEF LoaderTypes, Labels, Before, Copying, Running, CopiedTo, Reported, FatesOf, Entry, Ended
<1>. QED BY <1>1, <1>2, <1>3, <1>4, <1>5, <1>6, <1>7 DEF LoaderStep

-------------------------------------------------------------------------------
(* What a receipt tells of the tile whose words the window holds.          *)
\* The window holds the whole of a full mailbox.
LEMMA FullWindow ==
    ASSUME LoaderInv, pc \in Ended, leg = "plain", fresh, npx = Capacity
    PROVE  window = payload
<1>1. CopiedTo(Capacity)
  BY CapacityAssumption DEF LoaderInv, Running, CopiedTo, Copied
<1>2. window = [i \in 1 .. Capacity |-> payload[i]]
  BY <1>1, CapacityAssumption DEF CopiedTo
<1>. QED BY <1>2 DEF LoaderInv, LoaderTypes, Windows

LEMMA DriveIsOfTile ==
    ASSUME Inv, stage = "drive", pc \in {"stopped", "hung"}, leg = "plain"
    PROVE  tile \in Programs /\ window = Px[tile] /\ out = OutOf(Fate[tile]["load"][Golden])
<1>1. tile \in Programs /\ npx = Capacity /\ payload = Px[tile] /\ pc # "off" /\ argv = Golden
  BY DEF Inv, IngestInv, CallTypes, Drafted, Driven
<1>2. fresh
  BY <1>1, CapacityAssumption DEF Inv, LoaderInv, Before
<1>3. window = Px[tile]
  BY <1>1, <1>2, FullWindow DEF Inv, Ended
<1>4. \E f \in FatesOf(window) : out = OutOf(f)
  BY DEF Inv, LoaderInv, Reported, Ended
<1>5. Entry = "load" BY <1>1, CapacityAssumption DEF Entry
<1>. QED BY <1>1, <1>3, <1>4, <1>5, FatesOfPx DEF Legs

\* On the image of the fault leg no receipt is green and none raised.
LEMMA GreenTile ==
    ASSUME Inv, stage = "drive", pc \in {"stopped", "hung"}, ~out.raised, Green
    PROVE  leg = "plain" /\ tile \in Programs /\ window = Px[tile]
           /\ Fate[tile]["load"][Golden] \in Greens
<1>1. leg = "plain"
  BY DEF Inv, LoaderInv, LoaderTypes, Reported, Ended, Green
<1>2. tile \in Programs /\ window = Px[tile] /\ out = OutOf(Fate[tile]["load"][Golden])
  BY <1>1, DriveIsOfTile
<1>3. Fate[tile]["load"][Golden] \in Fates BY <1>2, FateType, ProgramAssumption DEF Legs
<1>. QED BY <1>1, <1>2, <1>3, GreenFate DEF Green

LEMMA RaisedTile ==
    ASSUME Inv, stage = "drive", pc \in {"stopped", "hung"}, out.raised
    PROVE  Fate[tile]["load"][Golden] = "raise"
<1>1. leg = "plain"
  BY DEF Inv, LoaderInv, LoaderTypes, Reported, Ended
<1>2. tile \in Programs /\ out = OutOf(Fate[tile]["load"][Golden])
  BY <1>1, DriveIsOfTile
<1>3. Fate[tile]["load"][Golden] \in Fates BY <1>2, FateType, ProgramAssumption DEF Legs
<1>. QED BY <1>2, <1>3, RaisedFate

-------------------------------------------------------------------------------
(* The invariant is inductive.                                             *)
LEMMA Initial == Init => Inv
<1>. SUFFICES ASSUME Init PROVE Inv
  OBVIOUS
<1>1. LoaderInv BY LoaderInitial DEF Init
<1>2. CallTypes BY IngestAssumption DEF Init, CallTypes, Stages, Drafted
<1>. QED
  BY <1>1, <1>2
  DEF Init, LoaderInit, Inv, IngestInv, Injected, Driven, Clean, Resident

\* A step of the call that leaves the loader alone keeps what it knows of it.
LEMMA ApartKeeps ==
    ASSUME Inv, Apart, stage \notin {"inject", "drive"}, stage' \notin {"drive"},
           stage # "idle" \/ pc = "off"
    PROVE  LoaderInv' /\ Driven' /\ Resident'
<1>1. LoaderInv' BY LoaderStutter DEF Inv, Apart
<1>2. UNCHANGED <<leg, window, pc, flag, fresh, served>>
  BY DEF Apart, loaderVars, mailbox
<1>3. pc = "off" BY DEF Inv, IngestInv, Driven, CallTypes
<1>. QED BY <1>1, <1>2, <1>3 DEF Inv, IngestInv, Driven, Resident

LEMMA BeginsStep ==
    ASSUME Inv, Begins
    PROVE  Inv'
<1>1. stage = "idle" /\ pc = "off" /\ stage' \in {"idle", "draft"} /\ call' \in Calls
      /\ cycles' = 0 /\ tile' = None /\ UNCHANGED <<atlas, served>> /\ Apart
  BY DEF Begins, Return, Apart
<1>2. LoaderInv' /\ Driven' /\ Resident' BY <1>1, ApartKeeps
<1>3. CallTypes'
  BY <1>1, IngestAssumption DEF Inv, IngestInv, CallTypes, Stages, Drafted
<1>. QED BY <1>1, <1>2, <1>3 DEF Inv, IngestInv, Injected, Clean

\* escalate returns a program or nothing.
LEMMA EscalateType == \A v : Escalate(v) => tile' \in Programs \cup {None}
BY DEF Escalate

LEMMA DraftStep ==
    ASSUME Inv, Draft
    PROVE  Inv'
<1>1. stage = "draft" /\ Apart /\ UNCHANGED <<atlas, call, cycles, served>>
      /\ tile' \in Programs \cup {None}
      /\ stage' = IF tile' = None THEN "idle" ELSE IF call.runner THEN "gate" ELSE "accept"
  BY EscalateType DEF Draft, Apart
<1>2. LoaderInv' /\ Driven' /\ Resident' BY <1>1, ApartKeeps
<1>3. CallTypes' BY <1>1 DEF Inv, IngestInv, CallTypes, Stages, Drafted
<1>. QED BY <1>1, <1>2, <1>3 DEF Inv, IngestInv, Injected, Clean

LEMMA GateStep ==
    ASSUME Inv, Gate
    PROVE  Inv'
<1>1. stage = "gate" /\ Apart /\ UNCHANGED <<atlas, call, tile, cycles, served>>
      /\ stage' \in {"register", "idle"}
  BY DEF Gate, Next1, Return, Apart
<1>2. LoaderInv' /\ Driven' /\ Resident' BY <1>1, ApartKeeps
<1>3. CallTypes' BY <1>1 DEF Inv, IngestInv, CallTypes, Stages, Drafted
<1>. QED BY <1>1, <1>2, <1>3 DEF Inv, IngestInv, Injected, Clean

LEMMA RegisterStep ==
    ASSUME Inv, Register
    PROVE  Inv'
<1>1. stage = "register" /\ Apart /\ UNCHANGED <<call, tile, cycles, served>>
      /\ atlas' = [atlas EXCEPT ![call.name] = tile]
      /\ stage' = IF Fits[tile] THEN "inject" ELSE "idle"
  BY DEF Register, Next1, Return, Apart
<1>2. LoaderInv' /\ Driven' /\ Resident' BY <1>1, ApartKeeps
<1>3. call.name \in Names /\ tile \in Programs
  BY <1>1 DEF Inv, IngestInv, CallTypes, Calls, Drafted
<1>4. CallTypes' BY <1>1, <1>3 DEF Inv, IngestInv, CallTypes, Stages, Drafted
<1>5. Clean'
  <2>. SUFFICES ASSUME NEW n \in Names, n = call.name \/ atlas'[n] = atlas[n]
               PROVE  \/ atlas'[n] = None \/ Sound(atlas'[n])
                      \/ stage' \in {"inject", "drive"} /\ n = call'.name
    BY <1>1, <1>3 DEF Clean, Sound, Inv, IngestInv, CallTypes
  <2>1. CASE n = call.name BY <1>1, <1>3, <2>1 DEF Sound, Inv, IngestInv, CallTypes
  <2>2. CASE atlas'[n] = atlas[n] BY <1>1, <2>2 DEF Inv, IngestInv, Clean, Sound
  <2>. QED BY <2>1, <2>2
<1>6. Injected' BY <1>1, <1>3 DEF Injected, Inv, IngestInv, CallTypes
<1>. QED BY <1>2, <1>4, <1>5, <1>6 DEF Inv, IngestInv

LEMMA InjectStep ==
    ASSUME Inv, Inject
    PROVE  Inv'
<1>1. stage = "inject" /\ stage' = "drive" /\ UNCHANGED <<atlas, call, tile, cycles>>
      /\ Begin(tile, Capacity, Golden) /\ served' = None
  BY DEF Inject, Next1
<1>2. tile \in Programs /\ Capacity \in 0 .. Capacity /\ Capacity # 0
  BY <1>1, CapacityAssumption DEF Inv, IngestInv, CallTypes, Drafted
<1>3. LoaderInv' BY <1>1, <1>2, LoaderBegin, ProgramAssumption DEF Inv
<1>4. CallTypes' BY <1>1 DEF Inv, IngestInv, CallTypes, Stages, Drafted
<1>5. Driven' BY <1>1, <1>2 DEF Driven, Begin
<1>. QED BY <1>1, <1>3, <1>4, <1>5 DEF Inv, IngestInv, Injected, Clean, Sound, Resident

\* The receipt leaves the window.
LEMMA EndKeeps ==
    ASSUME Inv, stage = "drive", DriveReturns
    PROVE  /\ LoaderInv' /\ pc \in {"stopped", "hung"}
           /\ leg' = leg /\ window' = window /\ pc' = "off" /\ ~fresh' /\ ~flag'
BY LoaderEnd DEF Inv, DriveReturns, End

LEMMA DriveRaisedStep ==
    ASSUME Inv, DriveRaised
    PROVE  Inv'
<1>1. out.raised /\ stage = "drive" /\ stage' = "idle" /\ DriveReturns
      /\ UNCHANGED <<atlas, call, tile, cycles, served>>
  BY DEF DriveRaised, DriveReturns, Return
<1>2. LoaderInv' /\ pc \in {"stopped", "hung"} /\ pc' = "off" BY <1>1, EndKeeps
<1>3. Fate[tile]["load"][Golden] = "raise" BY <1>1, <1>2, RaisedTile
<1>4. served = None /\ atlas[call.name] = tile
  BY <1>1 DEF Inv, IngestInv, Driven, Injected
<1>5. Clean' BY <1>1, <1>3, <1>4 DEF Inv, IngestInv, Clean, Sound
<1>6. CallTypes' BY <1>1 DEF Inv, IngestInv, CallTypes, Stages, Drafted
<1>. QED BY <1>1, <1>2, <1>4, <1>5, <1>6 DEF Inv, IngestInv, Injected, Driven, Resident

LEMMA DriveGreenStep ==
    ASSUME Inv, DriveGreen
    PROVE  Inv'
<1>1. ~out.raised /\ Green /\ stage = "drive" /\ stage' = "accept" /\ DriveReturns
      /\ UNCHANGED <<atlas, call, tile, cycles>> /\ served' = tile
  BY DEF DriveGreen, DriveReturns, Next1
<1>2. LoaderInv' /\ pc \in {"stopped", "hung"} /\ leg' = leg /\ window' = window
      /\ pc' = "off" /\ ~fresh' /\ ~flag'
  BY <1>1, EndKeeps
<1>3. leg = "plain" /\ tile \in Programs /\ window = Px[tile]
           /\ Fate[tile]["load"][Golden] \in Greens
  BY <1>1, <1>2, GreenTile
<1>4. atlas[call.name] = tile BY <1>1 DEF Inv, IngestInv, Injected
<1>5. Clean' BY <1>1, <1>3, <1>4 DEF Inv, IngestInv, Clean, Sound
<1>6. CallTypes' BY <1>1, <1>3 DEF Inv, IngestInv, CallTypes, Stages, Drafted
<1>. QED BY <1>1, <1>2, <1>3, <1>5, <1>6 DEF Inv, IngestInv, Injected, Driven, Resident

LEMMA DivergedStep ==
    ASSUME Inv, Diverged
    PROVE  Inv'
<1>1. stage = "drive" /\ stage' = "redraft" /\ DriveReturns
      /\ UNCHANGED <<call, tile, cycles, served>>
      /\ atlas' = [atlas EXCEPT ![call.name] = None]
  BY DEF Diverged, DriveReturns, Next1, Popped
<1>2. LoaderInv' /\ pc' = "off" BY <1>1, EndKeeps
<1>3. served = None /\ call.name \in Names
  BY <1>1 DEF Inv, IngestInv, Driven, CallTypes, Calls
<1>4. CallTypes' BY <1>1 DEF Inv, IngestInv, CallTypes, Stages, Drafted
<1>5. Clean' BY <1>1, <1>3 DEF Inv, IngestInv, CallTypes, Clean, Sound
<1>. QED BY <1>1, <1>2, <1>3, <1>4, <1>5 DEF Inv, IngestInv, Injected, Driven, Resident

LEMMA RedraftStep ==
    ASSUME Inv, Redraft
    PROVE  Inv'
<1>1. stage = "redraft" /\ Apart /\ UNCHANGED <<atlas, call, served>> /\ cycles' = cycles + 1
      /\ tile' \in Programs \cup {None} /\ stage' \in {"idle", "gate"}
      /\ (stage' = "gate" => tile' \in Programs /\ cycles' < MaxAttempts)
  BY EscalateType, IngestAssumption DEF Redraft, More, Return, Apart
<1>2. LoaderInv' /\ Driven' /\ Resident' BY <1>1, ApartKeeps
<1>3. CallTypes' BY <1>1, IngestAssumption DEF Inv, IngestInv, CallTypes, Stages, Drafted
<1>. QED BY <1>1, <1>2, <1>3 DEF Inv, IngestInv, Injected, Clean

LEMMA AcceptStep ==
    ASSUME Inv, Accept
    PROVE  Inv'
<1>1. stage = "accept" /\ stage' = "idle" /\ Apart /\ UNCHANGED <<atlas, call, tile, cycles, served>>
  BY DEF Accept, Return, Apart
<1>2. LoaderInv' /\ Driven' /\ Resident' BY <1>1, ApartKeeps
<1>3. CallTypes' BY <1>1 DEF Inv, IngestInv, CallTypes, Stages, Drafted
<1>. QED BY <1>1, <1>2, <1>3 DEF Inv, IngestInv, Injected, Clean

LEMMA OtherDriveStep ==
    ASSUME Inv, OtherDrive
    PROVE  Inv'
<1>1. stage = "idle" /\ UNCHANGED <<atlas, stage, call, tile, cycles>>
  BY DEF OtherDrive, ingestVars
<1>0. served' \in Programs \cup {None}
  BY DEF OtherDrive, Inv, IngestInv, CallTypes
<1>2. CallTypes' /\ Injected' /\ Driven' /\ Clean'
  <2>1. CallTypes' BY <1>1, <1>0 DEF Inv, IngestInv, CallTypes, Drafted
  <2>. QED BY <1>1, <2>1 DEF Inv, IngestInv, Injected, Driven, Clean, Sound
<1>3. CASE \E a \in Argvs : Begin(None, 0, a) /\ served' = served
  <2>0. PICK a \in Argvs : Begin(None, 0, a) /\ served' = served BY <1>3
  <2>1. LoaderInv'
    <3>1. LoaderInv /\ 0 \in 0 .. Capacity BY CapacityAssumption DEF Inv
    <3>. QED BY <2>0, <3>1, LoaderBegin
  <2>2. leg' = leg /\ window' = window /\ ~fresh' /\ ~flag' BY <2>0 DEF Begin
  <2>3. Resident' BY <1>3, <2>2 DEF Inv, IngestInv, Resident
  <2>. QED BY <1>2, <2>1, <2>3 DEF Inv, IngestInv
<1>4. CASE \E p \in Loaded, n \in 1 .. Capacity, a \in Argvs :
             Begin(p, n, a) /\ served' = None
  <2>1. PICK p \in Loaded, n \in 1 .. Capacity, a \in Argvs :
          Begin(p, n, a) /\ served' = None
    BY <1>4
  <2>2. p \in Programs /\ n \in 0 .. Capacity
    BY IngestAssumption, CapacityAssumption
  <2>3. LoaderInv' BY <2>1, <2>2, LoaderBegin DEF Inv
  <2>. QED BY <1>2, <2>1, <2>3 DEF Inv, IngestInv, Resident
<1>. QED BY <1>3, <1>4 DEF OtherDrive

LEMMA OtherEndStep ==
    ASSUME Inv, OtherEnd
    PROVE  Inv'
<1>1. stage = "idle" /\ UNCHANGED <<atlas, stage, call, tile, cycles, served>> /\ End
  BY DEF OtherEnd, ingestVars
<1>2. LoaderInv' BY <1>1, LoaderEnd DEF Inv
<1>3. leg' = leg /\ window' = window /\ ~fresh' /\ ~flag' BY <1>1 DEF End
<1>. QED
  BY <1>1, <1>2, <1>3
  DEF Inv, IngestInv, CallTypes, Drafted, Injected, Driven, Clean, Sound, Resident

\* The kernel's steps keep the mailbox, and without one the window.
LEMMA KernelStep ==
    ASSUME Inv, Kernel
    PROVE  Inv'
<1>1. LoaderStep /\ UNCHANGED <<atlas, stage, call, tile, cycles, served>>
  BY DEF Kernel, ingestVars
<1>2. LoaderInv' BY <1>1, LoaderKernel DEF Inv
<1>3. UNCHANGED <<leg, npx, payload, argv, fresh>> /\ pc # "off" /\ pc' # "off"
  BY <1>1 DEF LoaderStep, Prologue, Launch, Patch, PatchDone, RunWindow, FaultTask, DoneTail, Held
<1>4. flag' = flag \/ ~flag'
  BY <1>1, Zenon DEF LoaderStep, Prologue, Launch, Patch, PatchDone, RunWindow, FaultTask, DoneTail
<1>5. pc # "patch" => window' = window
  BY <1>1 DEF LoaderStep, Prologue, Launch, Patch, PatchDone, RunWindow, FaultTask, DoneTail
<1>6. Resident'
  BY <1>1, <1>3, <1>4, <1>5 DEF Inv, LoaderInv, Copying, IngestInv, Resident
<1>. QED
  BY <1>1, <1>2, <1>3, <1>6
  DEF Inv, IngestInv, CallTypes, Drafted, Injected, Driven, Clean, Sound

LEMMA StutterStep ==
    ASSUME Inv, UNCHANGED vars
    PROVE  Inv'
<1>1. UNCHANGED loaderVars /\ UNCHANGED <<atlas, stage, call, tile, cycles, served>>
  BY DEF vars, ingestVars
<1>2. LoaderInv' BY <1>1, LoaderStutter DEF Inv
<1>. QED
  BY <1>1, <1>2
  DEF Inv, IngestInv, CallTypes, Drafted, Injected, Driven, Clean, Sound, Resident,
      loaderVars, mailbox

LEMMA Inductive == Inv /\ [Next]_vars => Inv'
<1>. SUFFICES ASSUME Inv, [Next]_vars PROVE Inv'
  OBVIOUS
<1>. QED
  BY BeginsStep, DraftStep, GateStep, RegisterStep, InjectStep, DriveRaisedStep, DriveGreenStep,
     DivergedStep, RedraftStep, AcceptStep, OtherDriveStep, OtherEndStep, KernelStep, StutterStep
  DEF Next, CallStep

\* The window, the loop and the call are at every step what Inv says of them.
THEOREM Invariance == Spec => []Inv
BY Initial, Inductive, PTL DEF Spec

-------------------------------------------------------------------------------
(* The properties.                                                         *)
\* The window, the loop's registers, the atlas and the attempts keep their types.
THEOREM IngestTypeCorrect == Spec => []TypeOK
<1>1. Inv => TypeOK
  BY DEF Inv, LoaderInv, LoaderTypes, Windows, IngestInv, CallTypes, TypeOK
<1>. QED BY <1>1, Invariance, PTL

\* When the program is entered, the window holds the words of the mailbox, all but a
\* single one, and behind them what it held before.
THEOREM PatchesAreExact == Spec => []PatchIsExact
<1>1. Inv => PatchIsExact
  <2>. SUFFICES ASSUME Inv, pc \in {"window", "stopped", "hung"}, leg = "plain",
                      NEW i \in 1 .. Capacity
               PROVE  window[i] = IF fresh /\ i <= Copied(npx) THEN payload[i] ELSE boot[i]
    BY DEF PatchIsExact
  <2>1. CopiedTo(IF fresh THEN Copied(npx) ELSE 0)
    BY DEF Inv, LoaderInv, Running, Ended
  <2>2. window[i] = IF i <= (IF fresh THEN Copied(npx) ELSE 0) THEN payload[i] ELSE boot[i]
    BY <2>1 DEF CopiedTo
  <2>. QED BY <2>2, CapacityAssumption
<1>. QED BY <1>1, Invariance, PTL

\* An admitted tile stays in the window whatever the drives, and is what a drive
\* without a mailbox runs; one that ends alike by both legs gives its result again.
THEOREM AdmittedIsResident == Spec => []ServedOffline
<1>1. Inv => ServedOffline
  <2>1. ASSUME Inv, served # None
        PROVE  /\ leg = "plain" /\ ~fresh /\ served \in Programs /\ window = Px[served]
               /\ Fate[served]["load"][Golden] \in Greens
    BY <2>1 DEF Inv, IngestInv, CallTypes, Resident
  <2>2. ASSUME Inv, served # None, pc \in {"stopped", "hung"}
        PROVE  /\ out = OutOf(Fate[served]["resident"][argv])
               /\ argv = Golden /\ IgnoresEntry(served) => OutRight
    <3>1. Entry = "resident"
      BY <2>1, <2>2, CapacityAssumption DEF Inv, LoaderInv, Before, Entry
    <3>2. \E f \in FatesOf(window) : out = OutOf(f)
      BY <2>1, <2>2 DEF Inv, LoaderInv, Reported, Ended
    <3>3. out = OutOf(Fate[served]["resident"][argv])
      BY <2>1, <2>2, <3>1, <3>2, FatesOfPx DEF Legs
    <3>. QED BY <2>1, <2>2, <3>3, GreenOut DEF OutRight, IgnoresEntry
  <2>. QED BY <2>1, <2>2 DEF ServedOffline
<1>. QED BY <1>1, Invariance, PTL

\* A tile that ingest saw diverging on the die is in no name of the atlas.
THEOREM DivergedIsUnregistered == Spec => []DivergedUnregistered
<1>1. Inv => DivergedUnregistered
  BY DEF Inv, IngestInv, Clean, Sound, Greens, DivergedUnregistered
<1>. QED BY <1>1, Invariance, PTL
===============================================================================
