----------------------------- MODULE MCFirmware -----------------------------
(***************************************************************************)
(* Lines for model checking Firmware: the loader's and an operator's.      *)
(***************************************************************************)
EXTENDS Firmware

REGTEST0 == { << 0, "REGTEST0" >> }
Typed == { << Digit(9), Digit(7), Arg(<< 0, "REGTEST0" >>), Arg(85) >>,
           << Digit(0), Digit(1), Arg(<< 0, "REGTEST0" >>), Arg(85), Digit(5) >>,
           << Digit(0) >>, << Digit(2) >>, << Digit(3) >>, << Digit(7) >> }
Junk == { NUL }
=============================================================================
