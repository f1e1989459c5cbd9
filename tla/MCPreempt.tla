------------------------------- MODULE MCPreempt -------------------------------
(***************************************************************************)
(* Preempt with every quantum from 1 to beyond the longest task; 20 is the *)
(* one that preemptive_kernel_image takes when it is given none.           *)
(***************************************************************************)
EXTENDS Preempt

MCQuanta == 1 .. 75
===============================================================================
