--------------------------- MODULE MCLibretroCore ---------------------------
(***************************************************************************)
(* Model-checking instance of LibretroCore: see MCLibretroCore.cfg and the *)
(* MCLibretroCore_*.cfg of the documented properties it does not have.     *)
(***************************************************************************)
EXTENDS LibretroCore
=============================================================================
