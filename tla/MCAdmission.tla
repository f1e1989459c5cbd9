----------------------------- MODULE MCAdmission -----------------------------
(***************************************************************************)
(* A small market of tiles for Admission.  The image's task stages the     *)
(* argument "6" and issues SYS 8; the words are "0", "6" and "18".         *)
(***************************************************************************)
EXTENDS Admission

TileKinds == [
    \* the reference tile: r2 and the result word are three times the argument
    triple  |-> [ir |-> TRUE, home |-> "fits", die |-> "18",
                 oracle |-> [six |-> "18", two |-> "6"]],
    \* answers 0
    zero    |-> [ir |-> TRUE, home |-> "fits", die |-> "0",
                 oracle |-> [six |-> "0", two |-> "0"]],
    \* reads a register the oracle zeroes and the kernel leaves dirty
    dirty   |-> [ir |-> TRUE, home |-> "fits", die |-> "0",
                 oracle |-> [six |-> "18", two |-> "6"]],
    \* as dirty, but on the die it faults, or makes the drive raise
    faults  |-> [ir |-> TRUE, home |-> "fits", die |-> "fault",
                 oracle |-> [six |-> "18", two |-> "6"]],
    raises  |-> [ir |-> TRUE, home |-> "fits", die |-> "raise",
                 oracle |-> [six |-> "18", two |-> "6"]],
    \* 24 instructions and one more after the HALT is rewritten
    over    |-> [ir |-> TRUE, home |-> "over", die |-> "18",
                 oracle |-> [six |-> "18", two |-> "6"]],
    \* as long, with code before its first label
    hidden  |-> [ir |-> TRUE, home |-> "hidden", die |-> "18",
                 oracle |-> [six |-> "18", two |-> "6"]],
    \* malformed; never ends; a register past r31; a RET to a misaligned pixel
    junk    |-> [ir |-> FALSE, home |-> "fits", die |-> "18",
                 oracle |-> [six |-> "18", two |-> "6"]],
    spins   |-> [ir |-> TRUE, home |-> "fits", die |-> "hang",
                 oracle |-> [six |-> "none", two |-> "18"]],
    wild    |-> [ir |-> TRUE, home |-> "fits", die |-> "raise",
                 oracle |-> [six |-> "crash", two |-> "crash"]],
    skewed  |-> [ir |-> TRUE, home |-> "fits", die |-> "raise",
                 oracle |-> [six |-> "raise", two |-> "raise"]]]

AllTiles == DOMAIN TileKinds
GoodAndDirty == {"triple", "dirty"}
MCArgs == {"six", "two"}
MCWords == {"0", "6", "18"}
MCIr == [t \in Tiles |-> TileKinds[t].ir]
MCHome == [t \in Tiles |-> TileKinds[t].home]
MCOracle == [t \in Tiles |-> TileKinds[t].oracle]
MCDie == [t \in Tiles |-> TileKinds[t].die]
===============================================================================
