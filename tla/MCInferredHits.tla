---------------------------- MODULE MCInferredHits ---------------------------
(***************************************************************************)
(* One player on each team, weapons that shoot or do not, and classes with *)
(* more and with less health.                                              *)
(***************************************************************************)
EXTENDS Wounds

MCTeamOf == [p \in Player |-> IF p = 1 THEN 2 ELSE 3]
==============================================================================
