------------------------------ MODULE MCNetPass ------------------------------
(***************************************************************************)
(* Two slots that change hands, and a userinfo table that is the first or  *)
(* the second one created.                                                 *)
(***************************************************************************)
EXTENDS NetPass

MCOrders == {<<"userinfo", "models">>, <<"models", "userinfo">>}
==============================================================================
