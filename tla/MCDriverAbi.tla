------------------------------ MODULE MCDriverAbi ------------------------------
(***************************************************************************)
(* DriverAbi with the request that GH-22 bakes, (1, 0x5A), and requests    *)
(* whose sum is 0, wraps the byte or has an odd checksum.                  *)
(***************************************************************************)
EXTENDS DriverAbi

Request(o, p) == [op |-> o, payload |-> p]
MCRequests == {Request(1, 90), Request(1, 255), Request(0, 0), Request(200, 100), Request(1, 0)}
===============================================================================
