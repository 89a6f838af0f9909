------------------------------ MODULE MCCoreIO ------------------------------
(***************************************************************************)
(* Model-checking instance of CoreIO: see MCCoreIO.cfg.                    *)
(***************************************************************************)
EXTENDS CoreIO
=============================================================================
