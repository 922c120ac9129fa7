------------------------------ MODULE MCAlive -------------------------------
(***************************************************************************)
(* A slot of the player resource, refreshed every other tick and shown at  *)
(* once or a tick later.                                                   *)
(***************************************************************************)
EXTENDS Alive, TLC

Teams == Permutations(Team)
==============================================================================
