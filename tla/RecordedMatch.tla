--------------------------- MODULE RecordedMatch ---------------------------
(***************************************************************************)
(* A match on the server, a recording of a part of it, and the rounds that *)
(* Rounds makes of the recording.                                          *)
(*                                                                         *)
(* The game is external.  It is modelled from what rounds.rs says of it    *)
(* and its tests feed it: a round begins in its freeze time and prints its *)
(* start text on that tick; an admin pause restarts the round under the    *)
(* same number; a match restart starts the count again; a recording can    *)
(* begin in a freeze time with or without the start text, or mid-round.    *)
(***************************************************************************)
EXTENDS Rounds

CONSTANTS
  Numbers,     \* bound: the round numbers a match uses
  LastRounds,  \* the --last-round options tried, None for none
  Gap          \* ticks from one event of the match to the next

ASSUME RecordedMatchAssumption ==
  /\ Numbers \subseteq Nat /\ LastRounds \subseteq Nat \cup {None} /\ Gap \in Nat \ {0}

VARIABLES
  clock,    \* the tick of the last event; MaxTick bounds it
  phase,    \* "idle" before the first round, then "freeze", "live", "over"
  number,   \* the number of the round being played
  on,       \* the match is being recorded, or was
  played    \* the rounds of the match as far as the recording was there

match == <<clock, phase, number, on, played>>

\* heard: its start text was recorded.  shown: the first tick of the recording
\* in its freeze time, None when the recording joined it later.
Played == [number : Nat, heard : BOOLEAN, shown : Nat \cup {None}, end : Nat \cup {None}]

-----------------------------------------------------------------------------
(* The match                                                               *)

NextTick == clock' = clock + Gap

Carry(mark, tick) == Append(mark, [tick |-> tick, number |-> number'])

\* A round begins: the next one, the same one after an admin pause, or the
\* first one of a restarted match.
BeginRound ==
  /\ pc = "record" /\ clock < MaxTick /\ NextTick
  /\ number' \in Numbers
  /\ \/ phase = "idle"
     \/ phase = "over" /\ number' = number + 1
     \/ phase # "idle" /\ number' = number
     \/ phase # "idle" /\ number' = 1
  /\ phase' = "freeze"
  /\ IF on
       THEN /\ rec' = [rec EXCEPT !.starts = Carry(@, clock'), !.freezes = Carry(@, clock')]
            /\ played' = Append(played, [number |-> number', heard |-> TRUE,
                                         shown |-> clock', end |-> None])
       ELSE UNCHANGED <<rec, played>>
  /\ UNCHANGED <<on, starts, ends, open, rounds, pc, cut>>

GoLive ==
  /\ pc = "record" /\ phase = "freeze" /\ phase' = "live"
  /\ UNCHANGED <<clock, number, on, played, vars>>

\* A round ends.  No win text announces a tie.
EndRound ==
  /\ pc = "record" /\ clock < MaxTick /\ NextTick
  /\ phase = "live" /\ phase' = "over"
  /\ IF on
       THEN \E w \in Winner :
              LET e == [tick |-> clock', winner |-> w]
              IN /\ rec' = [rec EXCEPT !.results = Append(@, e),
                                       !.wins = IF w = "tie" THEN @ ELSE Append(@, e)]
                 /\ played' = [played EXCEPT ![Len(played)].end = clock']
       ELSE UNCHANGED <<rec, played>>
  /\ UNCHANGED <<number, on, starts, ends, open, rounds, pc, cut>>

\* The recording begins.  In a freeze time its first snapshot shows the
\* freeze, and the start text may still reach it.
BeginRecording ==
  /\ pc = "record" /\ ~on /\ on' = TRUE /\ clock < MaxTick /\ NextTick
  /\ \E heard \in BOOLEAN :
       LET frozen == phase = "freeze"
           mark == <<[tick |-> clock', number |-> number]>>
       IN /\ heard => frozen
          /\ rec' = [rec EXCEPT !.starts = IF heard THEN mark ELSE <<>>,
                                !.freezes = IF frozen THEN mark ELSE <<>>]
          /\ played' = IF phase \in {"freeze", "live"}
                         THEN <<[number |-> number, heard |-> heard, end |-> None,
                                 shown |-> IF frozen THEN clock' ELSE None]>>
                         ELSE <<>>
  /\ UNCHANGED <<phase, number, starts, ends, open, rounds, pc, cut>>

\* The recording stops and the dumper reads it.  An older server sent no
\* round results.
StopRecording ==
  /\ pc = "record" /\ on /\ pc' = "sort"
  /\ \E sent \in BOOLEAN, last \in LastRounds :
       rec' = [rec EXCEPT !.last = last, !.results = IF sent THEN @ ELSE <<>>]
  /\ starts' = rec.starts
  /\ UNCHANGED <<match, ends, open, rounds, cut>>

-----------------------------------------------------------------------------

NothingRecorded ==
  /\ rec = [starts |-> <<>>, results |-> <<>>, wins |-> <<>>, freezes |-> <<>>, last |-> None]
  /\ starts = <<>> /\ ends = <<>>
  /\ open = None /\ rounds = <<>> /\ pc = "record" /\ cut = None

\* derive is given what is recorded of the match, or one of Recordings,
\* whatever match that comes from.
MatchInit ==
  /\ clock = 0 /\ phase = "idle" /\ number = 0 /\ on = FALSE /\ played = <<>>
  /\ Init \/ NothingRecorded

MatchNext ==
  \/ BeginRound \/ GoLive \/ EndRound \/ BeginRecording \/ StopRecording
  \/ Next /\ UNCHANGED match

MatchSpec == MatchInit /\ [][MatchNext]_<<vars, match>>

-----------------------------------------------------------------------------
(* Properties                                                              *)

\* The end of a played round as the recording has it: a tie without a round
\* result leaves none.
RecordedEnd(p) ==
  IF \E i \in 1..Len(Results(rec)) : Results(rec)[i].tick = p.end THEN p.end ELSE None

\* The rounds a reader should find: those of which the recording has the start
\* text or the end.
Found == {p \in DOMAIN played : played[p].heard \/ RecordedEnd(played[p]) # None}

\* How many of them were played by the p-th.
FoundBy(p) == Cardinality({q \in Found : q <= p})

ToFind == [i \in 1..Cardinality(Found) |-> played[CHOOSE p \in Found : FoundBy(p) = i]]

\* derive finds the rounds that were played, in order, each with its own end,
\* whatever pauses, restarts, joins and cut-offs the recording has.  A round
\* whose start text was recorded has its number and start tick.  One joined
\* without it is the first; its start is its own or unknown, and when the match
\* then went on to the next round, both are right (rounds.rs:7-12).
RoundsAsPlayed ==
  pc = "cut" /\ on =>
    /\ Len(rounds) = Len(ToFind)
    /\ \A i \in 1..Len(rounds) :
         LET p == ToFind[i]
             r == rounds[i]
         IN /\ r.end = RecordedEnd(p)
            /\ p.heard => r.number = p.number /\ r.start = p.shown
            /\ ~p.heard => i = 1 /\ r.start \in {None, p.shown}
            /\ ~p.heard /\ Len(rounds) > 1 /\ ToFind[2].number = p.number + 1
                 => r.number = p.number /\ r.start = p.shown

\* derive can tell each round's number: the first has its start text or is
\* followed by the next round.
Numbered ==
  Len(ToFind) > 0 /\ ~ToFind[1].heard =>
    Len(ToFind) > 1 /\ ToFind[2].number = ToFind[1].number + 1

\* No match restart: round numbers never fall.
Rising == \A i \in 1..(Len(ToFind) - 1) : ToFind[i].number <= ToFind[i + 1].number

\* "--last-round N keeps rounds 1 to N of each demo" (SCHEMA.md:65): no row of
\* a round played after round N is kept, and without a match restart every
\* round up to N is, each time it was played and to its end.
KeptAsAsked ==
  pc = "done" /\ on /\ rec.last # None /\ Numbered =>
    \A i \in 1..Len(ToFind) :
      LET p == ToFind[i]
      IN IF p.number > rec.last THEN cut # None /\ cut <= p.shown
         ELSE Rising => /\ i <= Len(rounds)
                        /\ cut # None => p.end = None \/ p.end < cut
==============================================================================
