----------------------------- MODULE MCSyscallAbi ------------------------------
(***************************************************************************)
(* SyscallAbi over every mode, with a C program that calls the numbers of  *)
(* its shim (write 64, exit 93, brk 214), one of each that is dark or      *)
(* aliases a lit slot, and the two ends of a word.                         *)
(***************************************************************************)
EXTENDS SyscallAbi

MCWordMod == 4096
Request(n, x) == [n |-> n, a0 |-> x, a1 |-> 40]
MCPrograms == {Request(64, 1), Request(93, 0), Request(214, 64), Request(214, WordMod - 32),
               Request(63, 0), Request(22, 8), Request(80, 1), Request(6, 713),
               Request(WordMod - 1, 5), Request(WordMod \div 2 - 1, 5), Request(0, 5)}
===============================================================================
