-------------------------------- MODULE MCIngest -------------------------------
(***************************************************************************)
(* Ingest over one program of each kind: one that is right, one that is    *)
(* right on the first vector only, one that is right by the load leg only, *)
(* one that is right and never halts, one per way to diverge on the die,   *)
(* one that is too long and one that the verifier rejects.  With another   *)
(* argv what was right computes another word.  A window of three           *)
(* words tells counts of 1, of all and in between apart.                   *)
(***************************************************************************)
EXTENDS Ingest

MCPrograms == {"good", "dual", "sticky", "spins", "dirty", "stray", "loops", "raises", "long", "malformed"}
MCPx == [p \in MCPrograms |-> <<p, p, HALT>>]
MCArgvs == {"golden", "other"}
MCEnd == [good |-> "right", dual |-> "right", sticky |-> "right", spins |-> "spin",
          dirty |-> "wrong", stray |-> "fault", loops |-> "hang", raises |-> "raise",
          long |-> "wrong", malformed |-> "wrong"]
MCFate == [p \in MCPrograms |-> [g \in Legs |-> [a \in MCArgvs |->
             IF \/ MCEnd[p] \in {"right", "spin"} /\ a = "other"
                \/ p = "sticky" /\ g = "resident"
             THEN "wrong" ELSE MCEnd[p]]]]
MCIr == [p \in MCPrograms |-> p # "malformed"]
MCFits == [p \in MCPrograms |-> p # "long"]
MCVec == [p \in MCPrograms |-> p # "dual"]
===============================================================================
