--------------------------- MODULE MCDurableStep ---------------------------
(***************************************************************************)
(* Every row the prediction's rules are meant for, declared or not: 20     *)
(* rows, of which the 26 runtimes use ten.                                 *)
(***************************************************************************)
EXTENDS DurableStep

SupportedRows == {rt \in RuntimeRow : SupportedRow(rt)}

ASSUME DeclaredRowsSupported == DeclaredRows \subseteq SupportedRows
==============================================================================
