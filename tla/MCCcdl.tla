------------------------------- MODULE MCCcdl -------------------------------
(***************************************************************************)
(* Model-checking instance of Ccdl: see MCCcdl.cfg.                        *)
(***************************************************************************)
EXTENDS Ccdl
=============================================================================
