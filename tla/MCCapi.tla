------------------------------- MODULE MCCapi -------------------------------
(***************************************************************************)
(* Capi for TLC.                                                           *)
(***************************************************************************)
EXTENDS Capi

=============================================================================
