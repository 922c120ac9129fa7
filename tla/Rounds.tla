------------------------------- MODULE Rounds -------------------------------
(***************************************************************************)
(* Round reconstruction (extract/rounds.rs): derive pairs the start        *)
(* markers of a recording with its round ends, numbers the rounds, and     *)
(* gives a joined first round its start; cut_after finds the tick          *)
(* --last-round cuts at; place tells which round a tick belongs to.        *)
(*                                                                         *)
(* What a round end says of its outcome is one value here, the winner; the *)
(* reason and the capturer are looked up from it and never decide which    *)
(* round an end goes to.                                                   *)
(***************************************************************************)
EXTENDS Integers, Sequences, FiniteSets

CONSTANTS
  Recordings,   \* what derive may be given, with the --last-round option
  Winner,       \* the outcomes a round end can carry
  None,         \* Rust's None
  MaxTick       \* bound: the last tick properties ask place about

\* A number the announcement spells too large for an i32 parses to None.
Start == [tick : Nat, number : Nat \cup {None}]
End == [tick : Nat, winner : Winner]
Freeze == [tick : Nat, number : Nat]
Recording ==
  [starts : Seq(Start), results : Seq(End), wins : Seq(End), freezes : Seq(Freeze),
   last : Nat \cup {None}]

Round ==
  [number : Int \cup {None}, start : Nat \cup {None}, end : Nat \cup {None},
   winner : Winner \cup {None}]

RoundPlace == [index : Nat, post_round : BOOLEAN]

\* Announcements::found sorts the announcements by tick; the round results
\* come in the order of their messages.
InTickOrder(s) == \A i, j \in 1..Len(s) : i < j => s[i].tick <= s[j].tick

ASSUME RoundsAssumption ==
  /\ Recordings \subseteq Recording
  /\ \A r \in Recordings : InTickOrder(r.starts)
  /\ None \notin Int /\ None \notin Winner /\ None \notin Round \cup RoundPlace \cup Start \cup End

VARIABLES
  rec,      \* what derive was given
  starts,   \* the start markers not merged yet
  ends,     \* the round ends not merged yet
  open,     \* the round that began and has not ended, or None
  rounds,   \* the rounds so far, in tick order
  pc,       \* "record" before derive, then its next step, then how cut_after ended
  cut       \* what cut_after returned when it did not fail

vars == <<rec, starts, ends, open, rounds, pc, cut>>

Unstarted == [number |-> None, start |-> None, end |-> None, winner |-> None]
Started(s) == [Unstarted EXCEPT !.number = s.number, !.start = s.tick]
Ended(r, e) == [r EXCEPT !.end = e.tick, !.winner = e.winner]

-----------------------------------------------------------------------------
(* derive                                                                  *)

\* The ends come from the round results, or without any from the win texts.
Results(r) == IF r.results = <<>> THEN r.wins ELSE r.results

\* sort_by_key is stable: p is the order it puts the positions of s in.
Order(s) ==
  {p \in [1..Len(s) -> 1..Len(s)] :
     \A i, j \in 1..Len(s) : i < j =>
       \/ s[p[i]].tick < s[p[j]].tick
       \/ s[p[i]].tick = s[p[j]].tick /\ p[i] < p[j]}

SortEnds ==
  /\ pc = "sort" /\ pc' = "merge"
  /\ LET es == Results(rec)
     IN \E p \in Order(es) : ends' = [i \in 1..Len(es) |-> es[p[i]]]
  /\ UNCHANGED <<rec, starts, open, rounds, cut>>

\* Mutant: an end on the tick of the next start closes the round before it.
CloseAtStart ==
  /\ pc = "merge" /\ ends # <<>>
  /\ starts # <<>> => Head(ends).tick <= Head(starts).tick
  /\ rounds' = Append(rounds, Ended(IF open = None THEN Unstarted ELSE open, Head(ends)))
  /\ open' = None /\ ends' = Tail(ends)
  /\ UNCHANGED <<rec, starts, pc, cut>>

\* An end before the next start closes the open round, or one whose start
\* was not recorded.
Close ==
  /\ pc = "merge" /\ ends # <<>>
  /\ starts # <<>> => Head(ends).tick < Head(starts).tick
  /\ rounds' = Append(rounds, Ended(IF open = None THEN Unstarted ELSE open, Head(ends)))
  /\ open' = None /\ ends' = Tail(ends)
  /\ UNCHANGED <<rec, starts, pc, cut>>

\* Mutant: an open round is dropped when the next one starts.
OpenNextDropping ==
  /\ pc = "merge" /\ starts # <<>>
  /\ ends # <<>> => Head(ends).tick >= Head(starts).tick
  /\ UNCHANGED rounds
  /\ open' = Started(Head(starts)) /\ starts' = Tail(starts)
  /\ UNCHANGED <<rec, ends, pc, cut>>

\* A start begins the next round; one still open was aborted or cut off.
OpenNext ==
  /\ pc = "merge" /\ starts # <<>>
  /\ ends # <<>> => Head(ends).tick >= Head(starts).tick
  /\ rounds' = IF open = None THEN rounds ELSE Append(rounds, open)
  /\ open' = Started(Head(starts)) /\ starts' = Tail(starts)
  /\ UNCHANGED <<rec, ends, pc, cut>>

KeepOpen ==
  /\ pc = "merge" /\ starts = <<>> /\ ends = <<>>
  /\ rounds' = IF open = None THEN rounds ELSE Append(rounds, open)
  /\ open' = None /\ pc' = "number"
  /\ UNCHANGED <<rec, starts, ends, cut>>

\* Mutant: without a later number the round is left without one.
NumberOfNext(rs, i) ==
  IF rs[i].number # None THEN rs[i].number
  ELSE IF i < Len(rs) /\ rs[i + 1].number # None THEN rs[i + 1].number - 1
  ELSE None

\* A round without a number of its own is the one before the next, or has
\* its position for a number when the next has none either.
NumberOf(rs, i) ==
  IF rs[i].number # None THEN rs[i].number
  ELSE IF i < Len(rs) /\ rs[i + 1].number # None THEN rs[i + 1].number - 1
  ELSE i

NumberRounds ==
  /\ pc = "number" /\ pc' = "freeze"
  /\ rounds' = [i \in 1..Len(rounds) |-> [rounds[i] EXCEPT !.number = NumberOf(rounds, i)]]
  /\ UNCHANGED <<rec, starts, ends, open, cut>>

\* Mutant: the first freeze seen is taken for the first round's, whichever
\* round it opened.
FirstFreezeOfAnyRound(r) ==
  IF rec.freezes # <<>> THEN rec.freezes[1].tick ELSE None

\* The freeze a recording of round r began in.
FirstFreeze(r) ==
  IF /\ rec.freezes # <<>> /\ rec.freezes[1].number = r.number
     /\ r.end # None => rec.freezes[1].tick <= r.end
    THEN rec.freezes[1].tick ELSE None

\* The first round takes its start from the freeze when its text is missing.
StartFirst ==
  /\ pc = "freeze" /\ pc' = "cut"
  /\ rounds' = IF rounds # <<>> /\ rounds[1].start = None
                 THEN [rounds EXCEPT ![1].start = FirstFreeze(rounds[1])]
                 ELSE rounds
  /\ UNCHANGED <<rec, starts, ends, open, cut>>

-----------------------------------------------------------------------------
(* cut_after and place                                                     *)

\* Mutant: the round after the first one numbered last, a replay of it too.
FirstAfterOnce(rs, last) ==
  {i \in 2..Len(rs) : last # None /\ rs[i - 1].number = last
                      /\ \A j \in 1..(i - 2) : rs[j].number # last}

\* The position of the first round numbered after last, if a last round was
\* given and a later one began.
FirstAfter(rs, last) ==
  {i \in 1..Len(rs) : last # None /\ rs[i].number > last
                      /\ \A j \in 1..(i - 1) : rs[j].number <= last}

\* Mutant: truncate keeps the first round after last.
CutAtKeepingOne(i) ==
  /\ i > 1 /\ rounds[i].start # None
  /\ cut' = rounds[i].start /\ rounds' = SubSeq(rounds, 1, i)
  /\ pc' = "done"

\* The rounds from position i on are dropped, and the rows from its start on.
CutAt(i) ==
  /\ i > 1 /\ rounds[i].start # None
  /\ cut' = rounds[i].start /\ rounds' = SubSeq(rounds, 1, i - 1)
  /\ pc' = "done"

\* The pipeline calls cut_after when it was given --last-round; either error
\* fails the demo.
CutAfter ==
  /\ pc = "cut"
  /\ \/ /\ FirstAfter(rounds, rec.last) = {}
        /\ pc' = "done" /\ UNCHANGED <<rounds, cut>>
     \/ \E i \in FirstAfter(rounds, rec.last) :
          \/ CutAt(i)
          \/ i = 1 /\ pc' = "no such round" /\ UNCHANGED <<rounds, cut>>
          \/ /\ i > 1 /\ rounds[i].start = None
             /\ pc' = "no start to cut at" /\ UNCHANGED <<rounds, cut>>
  /\ UNCHANGED <<rec, starts, ends, open>>

\* Mutant: a round without an end runs to the end of the recording.
LastTickOfEnd(rs, i) == IF rs[i].end # None THEN rs[i].end ELSE None

\* The last tick round i covers before its post round, or None.
LastTick(rs, i) ==
  IF rs[i].end # None THEN rs[i].end
  ELSE IF i < Len(rs) /\ rs[i + 1].start # None THEN rs[i + 1].start - 1
  ELSE None

\* The rounds not over by this tick.
NotOver(rs, tick) ==
  {i \in 1..Len(rs) : LastTick(rs, i) = None \/ tick <= LastTick(rs, i)}

During(i) == [index |-> i, post_round |-> FALSE]
PostRound(i) == IF i = 0 THEN None ELSE [index |-> i, post_round |-> TRUE]

\* Mutant: the ticks before a round's start are its own post round.
PlaceEarly(rs, tick) ==
  IF NotOver(rs, tick) = {} THEN PostRound(Len(rs))
  ELSE LET i == CHOOSE i \in NotOver(rs, tick) : \A j \in NotOver(rs, tick) : i <= j
       IN IF rs[i].start = None \/ rs[i].start <= tick THEN During(i) ELSE PostRound(i)

\* The round the tick is in or after, None before the first round.
Place(rs, tick) ==
  IF NotOver(rs, tick) = {} THEN PostRound(Len(rs))
  ELSE LET i == CHOOSE i \in NotOver(rs, tick) : \A j \in NotOver(rs, tick) : i <= j
       IN IF rs[i].start = None \/ rs[i].start <= tick THEN During(i) ELSE PostRound(i - 1)

-----------------------------------------------------------------------------

Init ==
  /\ rec \in Recordings
  /\ starts = rec.starts /\ ends = <<>>
  /\ open = None /\ rounds = <<>> /\ pc = "sort" /\ cut = None

Derive == SortEnds \/ Close \/ OpenNext \/ KeepOpen \/ NumberRounds \/ StartFirst \/ CutAfter

\* derive and cut_after have returned.
Over == {"done", "no such round", "no start to cut at"}

Done == pc \in Over /\ UNCHANGED vars

Next == Derive \/ Done

Spec == Init /\ [][Next]_vars

-----------------------------------------------------------------------------
(* Properties                                                              *)

\* Every variable keeps its type, and once numbered no round is without a
\* number ("It is never NULL", SCHEMA.md).
TypeOK ==
  /\ rec \in Recording
  /\ starts \in Seq(Start) /\ ends \in Seq(End)
  /\ open \in Round \cup {None} /\ rounds \in Seq(Round)
  /\ pc \in {"record", "sort", "merge", "number", "freeze", "cut"} \cup Over
  /\ cut \in Nat \cup {None}
  /\ pc \in {"freeze", "cut"} \cup Over => \A i \in 1..Len(rounds) : rounds[i].number # None

\* The rounds so far with the one still open.
SoFar == IF open = None THEN rounds ELSE Append(rounds, open)

\* The start and the end of each round, or None.
StartsIn(rs) ==
  [k \in DOMAIN rs |-> IF rs[k].start = None THEN None
                       ELSE [tick |-> rs[k].start, number |-> rs[k].number]]

EndsIn(rs) ==
  [k \in DOMAIN rs |-> IF rs[k].end = None THEN None
                       ELSE [tick |-> rs[k].end, winner |-> rs[k].winner]]

\* How many of the first k rounds have their mark.
CountTo(marks, k) == Cardinality({j \in 1..k : marks[j] # None})

\* The marks of the rounds followed by those still to come are all of them,
\* each once and in order.
Shared(marks, toCome, all) ==
  /\ CountTo(marks, Len(marks)) + Len(toCome) = Len(all)
  /\ \A k \in 1..Len(marks) : marks[k] # None => marks[k] = all[CountTo(marks, k)]
  /\ \A k \in 1..Len(toCome) : toCome[k] = all[CountTo(marks, Len(marks)) + k]

\* While derive pairs them, every start marker is in exactly one round or
\* still to come, and so is every end: none is lost to a round that was
\* aborted, cut off or joined late, none is used twice, and each kind keeps
\* the order of its ticks.
EveryMarkInOneRound ==
  pc \in {"merge", "number"} =>
    LET es == Results(rec)
    IN /\ Shared(StartsIn(SoFar), starts, rec.starts)
       /\ \E p \in Order(es) : Shared(EndsIn(SoFar), ends, [i \in 1..Len(es) |-> es[p[i]]])

Proper(r) == r.start # None /\ r.end # None => r.start <= r.end

Precedes(r, s) ==
  /\ r.end # None /\ s.start # None => r.end < s.start
  /\ r.start # None /\ s.start # None => r.start <= s.start
  /\ r.end # None /\ s.end # None => r.end <= s.end

Apart(rs) ==
  /\ \A i \in 1..Len(rs) : Proper(rs[i])
  /\ \A i, j \in 1..Len(rs) : i < j => Precedes(rs[i], rs[j])

\* Rounds come in tick order and do not overlap: each starts by its own end,
\* and after the end of every earlier round.  place and --last-round's cut
\* rest on it.
NoOverlap == Apart(SoFar)

\* As the tick grows, place moves on through the rounds and never back.
PlacesInOrder ==
  pc = "done" =>
    \A t \in 0..MaxTick - 1 :
      LET p == Place(rounds, t)
          q == Place(rounds, t + 1)
      IN p # None => /\ q # None
                     /\ \/ p.index < q.index
                        \/ p.index = q.index /\ (p.post_round => q.post_round)

\* A tick from a round's start to its end is placed in that round.
PlacedInItsRound ==
  pc = "done" =>
    \A i \in 1..Len(rounds), t \in 0..MaxTick :
      /\ rounds[i].start # None /\ rounds[i].end # None
      /\ rounds[i].start <= t /\ t <= rounds[i].end
      => Place(rounds, t) = [index |-> i, post_round |-> FALSE]

\* --last-round's cut spares what it keeps: the kept rounds lie wholly before
\* the cut tick, none is numbered after the last one asked for, and every tick
\* before the cut is placed in the round it was in before the cut.
CutSparesWhatItKeeps ==
  [][rounds' # rounds /\ pc = "cut" =>
       /\ \A i \in 1..Len(rounds') :
            /\ rounds'[i].number <= rec.last
            /\ rounds'[i].start # None => rounds'[i].start <= cut'
            /\ rounds'[i].end # None => rounds'[i].end < cut'
       /\ \A t \in 0..cut' - 1 : Place(rounds', t) = Place(rounds, t)]_vars
==============================================================================
