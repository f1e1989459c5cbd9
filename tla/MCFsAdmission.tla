---------------------------- MODULE MCFsAdmission -----------------------------
(***************************************************************************)
(* Two numbers that the task issues and one that it does not; the task's   *)
(* own arguments and a file that does not exist; every result that a tile  *)
(* can give on a baked or an empty table; appends up to six words.         *)
(***************************************************************************)
EXTENDS FsAdmission

MCArgvs == {Staged, [name |-> NameB, to |-> NameA]}
===============================================================================
