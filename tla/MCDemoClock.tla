---------------------------- MODULE MCDemoClock -----------------------------
(***************************************************************************)
(* Files of up to four frames of any kind, recorded by a client that skips *)
(* or repeats a tick at any of them.                                       *)
(***************************************************************************)
EXTENDS DemoClock

MCSkew == {-1, 0, 1}
==============================================================================
