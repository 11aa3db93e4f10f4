-------------------------------- MODULE MCI2c --------------------------------
(***************************************************************************)
(* An EEPROM of three cells and two values; calls of up to three bytes, so *)
(* that the addresses wrap and a call has a first, a middle and a last     *)
(* byte.                                                                   *)
(***************************************************************************)
EXTENDS I2c
=============================================================================
