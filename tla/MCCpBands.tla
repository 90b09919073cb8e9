----------------------------- MODULE MCCpBands -----------------------------
(***************************************************************************)
(* CpBands for every duty cycle and every sample of the converter.          *)
(***************************************************************************)
EXTENDS CpBands
=============================================================================
