--------------------------- MODULE MCRecordedMatch ---------------------------
(***************************************************************************)
(* Matches of up to three round numbers and seven events: enough for a     *)
(* joined round followed by a whole one, a pause, a restart and a cut-off. *)
(* And every recording with up to two start markers and three ends on      *)
(* ticks 1..3, in any order and with equal ticks, whatever match they come *)
(* from.                                                                   *)
(***************************************************************************)
EXTENDS Captures

\* Winners told apart by position, so that a swapped end shows.
MCStarts ==
  {s \in UNION {[1..n -> [tick : 1..3, number : {1, 2, None}]] : n \in 0..2} : InTickOrder(s)}
MCResults ==
  UNION {{[i \in 1..n |-> [tick |-> t[i], winner |-> IF i = 2 THEN "tie" ELSE "jinrai"]] :
            t \in [1..n -> 1..3]} : n \in 0..3}
MCFreezes == {<<>>} \cup {<<[tick |-> t, number |-> n]>> : t \in {1, 3}, n \in {1, 2}}

MCRecordings ==
  {[starts |-> s, results |-> r, freezes |-> f, last |-> l,
    wins |-> <<[tick |-> 2, winner |-> "tie"]>>] :
     s \in MCStarts, r \in MCResults, f \in MCFreezes, l \in {None, 1}}
==============================================================================
