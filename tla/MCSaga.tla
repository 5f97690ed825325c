------------------------------- MODULE MCSaga -------------------------------
(***************************************************************************)
(* The saga for TLC.                                                       *)
(***************************************************************************)
EXTENDS Saga
=============================================================================
