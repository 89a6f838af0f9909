--------------------------- MODULE MCPanicReport ---------------------------
(***************************************************************************)
(* Model-checking instance of PanicReport: see MCPanicReport.cfg.          *)
(***************************************************************************)
EXTENDS PanicReport

CONSTANT a, p

MCMessages     == {<<a>>, <<a, NL>>}
MCPanicMessage == <<p, NL>>
=============================================================================
