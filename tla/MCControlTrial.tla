--------------------------- MODULE MCControlTrial ---------------------------
(***************************************************************************)
(* The control trials tried by TLC.                                        *)
(***************************************************************************)
EXTENDS ControlTrial

Controls(modes, barriers) ==
  {[engine |-> "control", mode |-> m, barrier |-> b] : m \in modes, b \in barriers}

AllControls == Controls(DOMAIN ControlRows, Barrier)

\* The modes that key their effect.  Where a kill may strike anywhere, a run
\* armed at b2 may end anywhere before it.
KilledControls == Controls({"idem", "diverge", "twophase"}, {"b2"})
==============================================================================
