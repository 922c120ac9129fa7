------------------------------ MODULE MCDumper ------------------------------
(***************************************************************************)
(* Small instances of Dumper.  Two process slots; the files cover what a   *)
(* command line can hold: a demo with rows on both sides of its cut, a     *)
(* copy of it, a demo without a later round to cut at, one that shares the *)
(* first one's 44-bit id, one that --last-round cannot cut, one whose      *)
(* header does not parse, and a path that cannot be read.                  *)
(***************************************************************************)
EXTENDS Dumper

CONSTANTS p1, p2

MCProcs == {p1, p2}
MCContent == {"long", "short", "twin", "broken"}
MCTable == {"announcements", "rounds"}
MCOrder == <<"announcements", "rounds">>
MCRowsOf ==
  [c \in MCContent |->
    CASE c = "long" -> MCTable \X {1, 2}
      [] c = "short" -> {<<"announcements", 2>>, <<"rounds", 1>>}
      [] c = "twin" -> {<<"rounds", 2>>}
      [] OTHER -> {}]
MCCutOf ==
  [c \in MCContent |->
    CASE c = "long" -> 2 [] c = "short" -> NoCut [] OTHER -> Bail]
MCIdOf == [c \in MCContent |-> IF c = "short" THEN 2 ELSE IF c = "broken" THEN 3 ELSE 1]
MCPath == {"long.dem", "copy.dem", "short.dem", "twin.dem", "broken.dem", "gone.dem"}
MCContentOf ==
  [f \in MCPath |->
    CASE f \in {"long.dem", "copy.dem"} -> "long"
      [] f = "short.dem" -> "short"
      [] f = "twin.dem" -> "twin"
      [] f = "broken.dem" -> "broken"
      [] OTHER -> NoFile]
MCLines ==
  {<<"long.dem", "copy.dem">>, <<"twin.dem", "short.dem">>, <<"short.dem", "long.dem">>,
   <<"broken.dem", "gone.dem", "long.dem">>}
Whole1 == [last_round |-> FALSE, omitted |-> {}]
Cut1 == [last_round |-> TRUE, omitted |-> {}]
Omit1 == [last_round |-> FALSE, omitted |-> {"rounds"}]
MCOptions == {Whole1, Cut1, Omit1}

OneBuild == [p \in MCProcs |-> 4]
TwoBuilds == [p \in MCProcs |-> IF p = p1 THEN 3 ELSE 4]

FewLines == {<<"twin.dem", "short.dem">>, <<"short.dem", "long.dem">>}
FewOptions == {Whole1, Cut1}
==============================================================================
