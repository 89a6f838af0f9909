------------------------------ MODULE MCThunks ------------------------------
(***************************************************************************)
(* Model-checking instance of Thunks: every api.csv of at most MaxRows     *)
(* rows, the k-th of them named by the k-th name.                          *)
(***************************************************************************)
EXTENDS Thunks

CONSTANT MaxRows

NameOrder == <<"GemeiEmu_fopen", "OSTimeGet", "GemeiEmu_putc", "abort">>

MCNames == {NameOrder[k] : k \in DOMAIN NameOrder}

MCCsvs ==
  UNION {{[k \in 1..n |->
             [name |-> NameOrder[k], type |-> types[k],
              declares |-> IF types[k] \in {"EMU", "MINISYS"}
                           THEN NameOrder[k] ELSE NoName]] :
            types \in [1..n -> Types]} : n \in 0..MaxRows}
=============================================================================
