------------------------------- MODULE MCIIC -------------------------------
(***************************************************************************)
(* The IIC bus with short waits, three rails of two chips and two cages.   *)
(***************************************************************************)
EXTENDS IIC
=============================================================================
