--------------------------- MODULE MCLedgerDaemon ---------------------------
(***************************************************************************)
(* The daemon open to any client: two actions, one key, three requests and *)
(* one reset.  Intents and hashable payloads are interchangeable.          *)
(***************************************************************************)
EXTENDS LedgerDaemon, TLC

Symmetry == Permutations(Intents) \cup Permutations(Payloads \ Unhashable)
==============================================================================
