------------------------ MODULE RecordedMatchProofs -------------------------
(***************************************************************************)
(* Proofs about RecordedMatch, GhostHolds and Captures, for matches of any *)
(* length: derive finds the rounds that were played, --last-round keeps what *)
(* it says, the holds are the stretches players carried the ghost in, and a *)
(* round has the capturer it was won by.                                   *)
(***************************************************************************)
EXTENDS Captures, RoundsProofs

\* What the recording says of the j-th round it was there for: its start, its
\* number and its end.
Mark(j) == [tick |-> played[j].shown, number |-> played[j].number]
EndAt(j) == RecordedEnd(played[j])

\* How many rounds have no start text, and how many have no end either.
Joined == IF played # <<>> /\ ~played[1].heard THEN 1 ELSE 0
Skipped == IF played # <<>> /\ ~played[1].heard /\ EndAt(1) = None THEN 1 ELSE 0

Rises(es) == \A i, j \in 1..Len(es) : i < j => es[i].tick < es[j].tick

\* The rounds follow each other, each from its freeze time to its end.
PlayedInTurn ==
  /\ played \in Seq(Played)
  /\ \A i \in 1..Len(played) :
       LET p == played[i]
       IN /\ i > 1 => p.heard
          /\ p.heard => p.shown # None
          /\ p.shown # None => p.shown <= clock
          /\ p.end # None => p.end <= clock
          /\ p.shown # None /\ p.end # None => p.shown < p.end
  /\ \A i, j \in 1..Len(played) : i < j =>
       /\ played[i].shown # None => played[i].shown < played[j].shown
       /\ played[i].end # None => played[i].end < played[j].shown

StartsRecorded ==
  /\ Len(rec.starts) + Joined = Len(played)
  /\ \A i \in 1..Len(rec.starts) : rec.starts[i] = Mark(i + Joined)

\* The first freeze time recorded is that of the first round shown in one.
FreezeRecorded ==
  IF played = <<>> \/ (Len(played) = 1 /\ played[1].shown = None)
    THEN rec.freezes = <<>>
    ELSE /\ rec.freezes # <<>>
         /\ rec.freezes[1] = Mark(IF played[1].shown # None THEN 1 ELSE 2)

\* Round results and win texts come in turn, each from the end of a round.
EndsRecorded(es) ==
  /\ Rises(es)
  /\ \A i \in 1..Len(es) : \E j \in 1..Len(played) : es[i].tick = played[j].end

\* What is recorded of the match.
Recorded ==
  /\ PlayedInTurn /\ StartsRecorded /\ FreezeRecorded
  /\ EndsRecorded(rec.results) /\ EndsRecorded(rec.wins)
  /\ pc = "record" /\ phase \in {"freeze", "live"} =>
       played # <<>> /\ played[Len(played)].end = None

MatchType ==
  /\ clock \in Nat /\ number \in Nat /\ on \in BOOLEAN
  /\ pc = "record" => ends = <<>> /\ open = None /\ rounds = <<>> /\ cut = None
  /\ pc = "record" /\ ~on => played = <<>> /\ rec.results = <<>> /\ rec.wins = <<>>

\* The round is the j-th round played, with what the recording has of it.
FromRecording(r, j) ==
  /\ r.end = EndAt(j)
  /\ IF played[j].heard THEN r.start = played[j].shown /\ r.number = played[j].number
     ELSE r.start = None /\ r.number = None

\* With rounds rs, op open, and ss and es still to come: how many rounds played
\* are merged, and how many starts.
Merged(rs) == Len(rs) + Skipped
Passed(ss) == Len(played) - Len(ss)

\* The round still open, if any, is the next one played.
OpenIsNext(rs, op, ss) ==
  LET q == Passed(ss)
  IN IF op = None THEN q = IF Merged(rs) >= Joined THEN Merged(rs) ELSE Joined
     ELSE /\ q = Merged(rs) + 1 /\ played[q].heard
          /\ op.start = played[q].shown /\ op.number = played[q].number /\ op.end = None

\* The ends to come are those of the rounds that are not merged.
EndsToCome(rs, es) ==
  /\ Rises(es)
  /\ \A i \in 1..Len(es) : \E j \in (Merged(rs) + 1)..Len(played) : es[i].tick = EndAt(j)
  /\ \A j \in (Merged(rs) + 1)..Len(played) :
       EndAt(j) # None => \E i \in 1..Len(es) : es[i].tick = EndAt(j)

AllFromRecording(rs) == \A i \in 1..Len(rs) : FromRecording(rs[i], Skipped + i)

Merging(rs, op, ss, es) ==
  /\ Merged(rs) <= Len(played) /\ AllFromRecording(rs)
  /\ OpenIsNext(rs, op, ss) /\ EndsToCome(rs, es)
  /\ \A i \in 1..Len(ss) : ss[i] = Mark(Passed(ss) + i)

\* Every round is merged.
AllMerged(rs) == Merged(rs) = Len(played) /\ AllFromRecording(rs)

\* The number given to a round without start text.
Guess == IF Len(played) > 1 THEN played[2].number - 1 ELSE 1

AllNumbered(rs) ==
  /\ Merged(rs) = Len(played)
  /\ \A i \in 1..Len(rs) :
       LET r == rs[i]
           j == Skipped + i
       IN /\ r.end = EndAt(j)
          /\ IF played[j].heard THEN r.start = played[j].shown /\ r.number = played[j].number
             ELSE r.start = None /\ r.number = Guess

\* The rounds are those played, each with its marks; a joined one has its start
\* and number when the next round tells them.
AsPlayed(rs) ==
  /\ Merged(rs) = Len(played)
  /\ \A i \in 1..Len(rs) :
       LET r == rs[i]
           p == played[Skipped + i]
       IN /\ r.end = EndAt(Skipped + i)
          /\ IF p.heard THEN r.start = p.shown /\ r.number = p.number
             ELSE /\ i = 1 /\ Skipped = 0 /\ r.start \in {None, p.shown}
                  /\ Len(rs) > 1 /\ played[2].number = p.number + 1 =>
                       r.number = p.number /\ r.start = p.shown

\* How far derive is with what was recorded.
DeriveInv ==
  /\ pc = "sort" => starts = rec.starts /\ open = None /\ rounds = <<>> /\ cut = None
  /\ pc = "merge" => Merging(rounds, open, starts, ends) /\ cut = None
  /\ pc = "number" => AllMerged(rounds) /\ cut = None
  /\ pc = "freeze" => AllNumbered(rounds) /\ cut = None
  /\ pc = "cut" => AsPlayed(rounds) /\ cut = None

\* The inductive invariant.
MInv == TypeOK /\ MatchType /\ (on => Recorded /\ DeriveInv) /\ KeptAsAsked

-----------------------------------------------------------------------------
(* The match and its recording                                             *)

LEMMA PlayedType ==
  ASSUME played \in Seq(Played), NEW j \in 1..Len(played)
  PROVE  /\ played[j] \in Played /\ played[j].number \in Nat /\ played[j].heard \in BOOLEAN
         /\ played[j].shown \in Nat \cup {None} /\ played[j].end \in Nat \cup {None}
<1>1. played[j] \in Played
  OBVIOUS
<1> QED BY <1>1 DEF Played

LEMMA Later ==
  ASSUME clock \in Nat, NextTick
  PROVE  clock' \in Nat /\ clock < clock'
<1>1. Gap \in Nat /\ Gap > 0 /\ clock' = clock + Gap
  BY RecordedMatchAssumption DEF NextTick
<1> QED BY <1>1

LEMMA NoneNoNat == None \notin Nat
BY RoundsAssumption

\* What does not change what is recorded of the rounds.
LEMMA SameMarks ==
  ASSUME UNCHANGED <<rec, played>>
  PROVE  /\ \A j : Mark(j)' = Mark(j) /\ EndAt(j)' = EndAt(j)
         /\ Joined' = Joined /\ Skipped' = Skipped
BY DEF Mark, EndAt, RecordedEnd, Joined, Skipped

LEMMA SameRecorded ==
  ASSUME Recorded, UNCHANGED <<rec, played>>, clock \in Nat, clock' \in Nat, clock <= clock',
         pc' = "record" => pc = "record" /\ (phase' \in {"freeze", "live"} => phase \in {"freeze", "live"})
  PROVE  Recorded'
<1>1. PlayedInTurn'
  <2>1. ASSUME NEW i \in 1..Len(played)
        PROVE  LET p == played[i]
               IN /\ p.shown # None => p.shown <= clock'
                  /\ p.end # None => p.end <= clock'
    BY <2>1, PlayedType, NoneNoNat DEF Recorded, PlayedInTurn
  <2> QED BY <2>1 DEF Recorded, PlayedInTurn
<1>2. StartsRecorded' /\ FreezeRecorded'
  BY SameMarks DEF Recorded, StartsRecorded, FreezeRecorded
<1>3. EndsRecorded(rec.results)' /\ EndsRecorded(rec.wins)'
  BY DEF Recorded, EndsRecorded
<1> QED BY <1>1, <1>2, <1>3 DEF Recorded

\* A round that begins after all that was recorded keeps the rounds in turn.
LEMMA BeginInTurn ==
  ASSUME MInv, on, BeginRound
  PROVE  PlayedInTurn'
<1> DEFINE q == [number |-> number', heard |-> TRUE, shown |-> clock', end |-> None]
           n == Len(played)
<1>1. /\ clock \in Nat /\ clock' \in Nat /\ clock < clock' /\ number' \in Nat
      /\ played \in Seq(Played) /\ n \in Nat
  BY Later, RecordedMatchAssumption DEF MInv, MatchType, Recorded, PlayedInTurn, BeginRound
<1>2. /\ q \in Played /\ q.heard /\ q.shown = clock' /\ q.end = None
  BY <1>1 DEF Played
<1>3. played' = Append(played, q)
  BY DEF BeginRound
<1> HIDE DEF q
<1>4. /\ played' \in Seq(Played) /\ Len(played') = n + 1 /\ played'[n + 1] = q
      /\ \A i \in 1..n : played'[i] = played[i]
  BY <1>1, <1>2, <1>3
<1>5. ASSUME NEW i \in 1..Len(played')
      PROVE  LET p == played'[i]
             IN /\ i > 1 => p.heard
                /\ p.heard => p.shown # None
                /\ p.shown # None => p.shown <= clock'
                /\ p.end # None => p.end <= clock'
                /\ p.shown # None /\ p.end # None => p.shown < p.end
  <2>1. CASE i = n + 1
    BY <1>1, <1>2, <1>4, <2>1, NoneNoNat
  <2>2. CASE i \in 1..n
    <3>1. played'[i] = played[i]
      BY <1>4, <2>2
    <3>2. /\ played[i].shown \in Nat \cup {None} /\ played[i].end \in Nat \cup {None}
      BY <1>1, <2>2, PlayedType
    <3> QED BY <1>1, <2>2, <3>1, <3>2 DEF MInv, Recorded, PlayedInTurn
  <2> QED BY <1>1, <1>4, <2>1, <2>2
<1>6. ASSUME NEW i \in 1..Len(played'), NEW j \in 1..Len(played'), i < j
      PROVE  /\ played'[i].shown # None => played'[i].shown < played'[j].shown
             /\ played'[i].end # None => played'[i].end < played'[j].shown
  <2>1. i \in 1..n /\ played'[i] = played[i]
    BY <1>1, <1>4, <1>6
  <2>2. CASE j = n + 1
    <3>1. /\ played[i].shown \in Nat \cup {None} /\ played[i].end \in Nat \cup {None}
          /\ played[i].shown # None => played[i].shown <= clock
          /\ played[i].end # None => played[i].end <= clock
      BY <1>1, <2>1, PlayedType DEF MInv, Recorded, PlayedInTurn
    <3> QED BY <1>1, <1>2, <1>4, <2>1, <2>2, <3>1
  <2>3. CASE j \in 1..n
    BY <1>4, <1>6, <2>1, <2>3 DEF MInv, Recorded, PlayedInTurn
  <2> QED BY <1>1, <1>4, <2>2, <2>3
<1> QED BY <1>4, <1>5, <1>6 DEF PlayedInTurn

\* The start text and the freeze of a round that begins are recorded.
LEMMA BeginRecorded ==
  ASSUME MInv, on, BeginRound
  PROVE  Recorded'
<1> DEFINE q == [number |-> number', heard |-> TRUE, shown |-> clock', end |-> None]
           m == [tick |-> clock', number |-> number']
<1> PICK n \in Nat : n = Len(played)
  BY DEF MInv, Recorded, PlayedInTurn
<1>1. /\ clock \in Nat /\ clock' \in Nat /\ clock < clock' /\ number' \in Nat /\ played \in Seq(Played)
  BY Later, RecordedMatchAssumption DEF MInv, MatchType, Recorded, PlayedInTurn, BeginRound
<1>2. /\ rec \in Recording /\ rec.starts \in Seq(Start) /\ rec.freezes \in Seq(Freeze)
      /\ Len(rec.starts) \in Nat /\ Len(rec.freezes) \in Nat
  BY DEF MInv, TypeOK, Recording
<1>3. /\ m \in Start /\ m \in Freeze /\ m.tick = clock' /\ m.number = number'
  BY <1>1 DEF Start, Freeze
<1>4. /\ q \in Played /\ q.heard /\ q.shown = clock' /\ q.end = None /\ q.number = number'
      /\ q.shown # None
  BY <1>1, NoneNoNat DEF Played
<1>5. /\ played' = Append(played, q) /\ pc' = pc
      /\ rec' = [rec EXCEPT !.starts = Append(@, m), !.freezes = Append(@, m)]
  BY DEF BeginRound, Carry
<1>6. /\ rec'.starts = Append(rec.starts, m) /\ rec'.freezes = Append(rec.freezes, m)
      /\ rec'.results = rec.results /\ rec'.wins = rec.wins
  BY <1>2, <1>5 DEF Recording
<1> HIDE DEF q
<1>7. /\ Len(played') = n + 1 /\ played'[n + 1] = q /\ played' # <<>>
      /\ \A i \in 1..n : played'[i] = played[i]
      /\ n = 0 <=> played = <<>>
  BY <1>1, <1>4, <1>5
<1>8. /\ Mark(n + 1)' = m /\ \A i \in 1..n : Mark(i)' = Mark(i)
  BY <1>4, <1>7 DEF Mark
<1> PICK o \in {0, 1} : o = Joined
  BY DEF Joined
<1>9. Joined' = o /\ o <= n
  BY <1>1, <1>4, <1>7 DEF Joined
<1> HIDE DEF m
<1>10. StartsRecorded'
  <2>1. /\ Len(rec'.starts) = Len(rec.starts) + 1 /\ rec'.starts[Len(rec.starts) + 1] = m
        /\ \A i \in 1..Len(rec.starts) : rec'.starts[i] = rec.starts[i]
    BY <1>2, <1>3, <1>6
  <2>2. /\ Len(rec.starts) + Joined = n
        /\ \A i \in 1..Len(rec.starts) : rec.starts[i] = Mark(i + Joined)
    BY DEF MInv, Recorded, StartsRecorded
  <2>3. Len(rec'.starts) + Joined' = Len(played')
    BY <1>1, <1>2, <1>7, <1>9, <2>1, <2>2
  <2>4. ASSUME NEW i \in 1..Len(rec'.starts)
        PROVE  rec'.starts[i] = Mark(i + o)'
    <3>1. CASE i \in 1..Len(rec.starts)
      <4>1. i + o \in 1..n
        BY <1>1, <1>2, <1>9, <2>2, <3>1
      <4> QED BY <1>8, <1>9, <2>1, <2>2, <3>1, <4>1
    <3>2. CASE i = Len(rec.starts) + 1
      <4>1. i + o = n + 1
        BY <1>1, <1>2, <1>9, <2>2, <3>2
      <4> QED BY <1>8, <1>9, <2>1, <3>2, <4>1
    <3> QED BY <1>2, <2>1, <3>1, <3>2
  <2> QED BY <1>9, <2>3, <2>4 DEF StartsRecorded
<1>11. FreezeRecorded'
  <2>1. rec'.freezes # <<>> /\ Len(rec'.freezes) = Len(rec.freezes) + 1
    BY <1>2, <1>3, <1>6
  <2>2. CASE rec.freezes = <<>>
    <3>1. played = <<>> \/ (n = 1 /\ played[1].shown = None)
      BY <2>2 DEF MInv, Recorded, FreezeRecorded
    <3>2. rec'.freezes[1] = m
      BY <1>3, <1>6, <2>2
    <3>3. CASE n = 0
      <4>1. rec'.freezes[1] = Mark(1)'
        BY <1>8, <3>2, <3>3
      <4> QED BY <1>4, <1>7, <2>1, <3>3, <4>1 DEF FreezeRecorded
    <3>4. CASE n = 1 /\ played[1].shown = None
      <4>1. rec'.freezes[1] = Mark(2)' /\ played'[1].shown = None
        BY <1>7, <1>8, <3>2, <3>4
      <4> QED BY <1>7, <2>1, <3>4, <4>1 DEF FreezeRecorded
    <3> QED BY <1>7, <3>1, <3>3, <3>4
  <2>3. CASE rec.freezes # <<>>
    <3>1. /\ n > 0 /\ ~(n = 1 /\ played[1].shown = None)
          /\ rec.freezes[1] = Mark(IF played[1].shown # None THEN 1 ELSE 2)
      BY <1>1, <1>7, <2>3 DEF MInv, Recorded, FreezeRecorded
    <3>2. rec'.freezes[1] = rec.freezes[1]
      BY <1>2, <1>3, <1>6, <2>3
    <3>3. played'[1] = played[1] /\ n + 1 > 1
      BY <1>1, <1>7, <3>1
    <3>4. CASE played[1].shown # None
      <4>1. rec'.freezes[1] = Mark(1)'
        BY <1>8, <3>1, <3>2, <3>4
      <4> QED BY <1>7, <2>1, <3>3, <3>4, <4>1 DEF FreezeRecorded
    <3>5. CASE played[1].shown = None
      <4>1. n >= 2 /\ rec.freezes[1] = Mark(2)
        BY <3>1, <3>5
      <4>2. rec'.freezes[1] = Mark(2)' /\ n + 1 # 1
        BY <1>8, <3>2, <4>1
      <4> QED BY <1>7, <2>1, <3>3, <3>5, <4>2 DEF FreezeRecorded
    <3> QED BY <3>4, <3>5
  <2> QED BY <2>2, <2>3
<1>12. EndsRecorded(rec.results)' /\ EndsRecorded(rec.wins)'
  <2>1. ASSUME NEW j \in 1..n
        PROVE  j \in 1..Len(played') /\ played'[j].end = played[j].end
    BY <1>1, <1>7
  <2> QED BY <1>6, <2>1 DEF MInv, Recorded, EndsRecorded
<1>13. played'[Len(played')].end = None
  BY <1>4, <1>7
<1> QED BY <1>7, <1>10, <1>11, <1>12, <1>13, BeginInTurn DEF Recorded

\* What the end of the round being played changes.
LEMMA EndPlayed ==
  ASSUME MInv, on, EndRound
  PROVE  \E n \in Nat \ {0} :
           /\ n = Len(played) /\ n = Len(played') /\ played' \in Seq(Played)
           /\ played[n].end = None /\ played'[n].end = clock' /\ played'[n].heard = played[n].heard
           /\ played'[n].shown = played[n].shown /\ played'[n].number = played[n].number
           /\ \A i \in 1..(n - 1) : played'[i] = played[i]
           /\ clock \in Nat /\ clock' \in Nat /\ clock < clock'
<1>1. /\ clock \in Nat /\ clock' \in Nat /\ clock < clock' /\ played \in Seq(Played)
      /\ played # <<>> /\ played[Len(played)].end = None
  BY Later DEF MInv, MatchType, Recorded, PlayedInTurn, EndRound
<1> PICK n \in Nat \ {0} : n = Len(played)
  BY <1>1
<1> PICK q \in Played : q = played[n]
  BY <1>1
<1> DEFINE r == [q EXCEPT !.end = clock']
<1>2. /\ r \in Played /\ r.end = clock' /\ r.heard = q.heard /\ r.shown = q.shown
      /\ r.number = q.number
  <2>1. clock' \in Nat \cup {None}
    BY <1>1
  <2> QED BY <2>1 DEF Played
<1>3. played' = [played EXCEPT ![n] = r]
  BY DEF EndRound
<1> HIDE DEF r
<1>4. /\ played' \in Seq(Played) /\ Len(played') = n /\ played'[n] = r
      /\ \A i \in 1..(n - 1) : played'[i] = played[i]
  BY <1>1, <1>2, <1>3
<1> QED BY <1>1, <1>2, <1>4

LEMMA EndInTurn ==
  ASSUME MInv, on, EndRound
  PROVE  PlayedInTurn'
<1> PICK n \in Nat \ {0} :
      /\ n = Len(played) /\ n = Len(played') /\ played' \in Seq(Played)
      /\ played[n].end = None /\ played'[n].end = clock' /\ played'[n].heard = played[n].heard
      /\ played'[n].shown = played[n].shown /\ played'[n].number = played[n].number
      /\ \A i \in 1..(n - 1) : played'[i] = played[i]
      /\ clock \in Nat /\ clock' \in Nat /\ clock < clock'
  BY EndPlayed
<1>1. PlayedInTurn /\ played \in Seq(Played)
  BY DEF MInv, Recorded, PlayedInTurn
<1>2. ASSUME NEW i \in 1..n
      PROVE  LET p == played'[i]
             IN /\ i > 1 => p.heard
                /\ p.heard => p.shown # None
                /\ p.shown # None => p.shown <= clock'
                /\ p.end # None => p.end <= clock'
                /\ p.shown # None /\ p.end # None => p.shown < p.end
  <2>1. /\ played[i].shown \in Nat \cup {None} /\ played[i].end \in Nat \cup {None}
        /\ played[i].shown # None => played[i].shown <= clock
        /\ played[i].end # None => played[i].end <= clock
    BY <1>1, PlayedType DEF PlayedInTurn
  <2>2. CASE i = n
    BY <1>1, <2>1, <2>2 DEF PlayedInTurn
  <2>3. CASE i \in 1..(n - 1)
    BY <1>1, <2>1, <2>3 DEF PlayedInTurn
  <2> QED BY <2>2, <2>3
<1>3. ASSUME NEW i \in 1..n, NEW j \in 1..n, i < j
      PROVE  /\ played'[i].shown # None => played'[i].shown < played'[j].shown
             /\ played'[i].end # None => played'[i].end < played'[j].shown
  <2>1. i \in 1..(n - 1) /\ played'[i] = played[i] /\ played'[j].shown = played[j].shown
    BY <1>3
  <2> QED BY <1>1, <1>3, <2>1 DEF PlayedInTurn
<1> QED BY <1>2, <1>3 DEF PlayedInTurn

\* One more end, on a later tick, is that of the round being played.
LEMMA EndAppended ==
  ASSUME MInv, on, EndRound, NEW es \in Seq(End), EndsRecorded(es),
         NEW e \in End, e.tick = clock'
  PROVE  /\ \A i \in 1..Len(es) : \E j \in 1..Len(played') : es[i].tick = played'[j].end
         /\ \A i \in 1..Len(Append(es, e)) :
              \E j \in 1..Len(played') : Append(es, e)[i].tick = played'[j].end
         /\ Rises(Append(es, e))
<1> PICK n \in Nat \ {0} :
      /\ n = Len(played) /\ n = Len(played') /\ played' \in Seq(Played)
      /\ played[n].end = None /\ played'[n].end = clock' /\ played'[n].heard = played[n].heard
      /\ played'[n].shown = played[n].shown /\ played'[n].number = played[n].number
      /\ \A i \in 1..(n - 1) : played'[i] = played[i]
      /\ clock \in Nat /\ clock' \in Nat /\ clock < clock'
  BY EndPlayed
<1>1. PlayedInTurn /\ played \in Seq(Played) /\ Rises(es)
  BY DEF MInv, Recorded, PlayedInTurn, EndsRecorded
<1>2. ASSUME NEW i \in 1..Len(es)
      PROVE  /\ \E j \in 1..Len(played') : es[i].tick = played'[j].end
             /\ es[i].tick \in Nat /\ es[i].tick <= clock
  <2>1. es[i] \in End /\ es[i].tick \in Nat
    <3>1. es[i] \in End
      OBVIOUS
    <3> QED BY <3>1 DEF End
  <2>2. PICK j \in 1..n : es[i].tick = played[j].end
    BY DEF EndsRecorded
  <2>3. j # n
    BY <2>1, <2>2, NoneNoNat
  <2>4. played'[j].end = played[j].end /\ played[j].end <= clock
    BY <1>1, <2>1, <2>2, <2>3, NoneNoNat DEF PlayedInTurn
  <2> QED BY <2>1, <2>2, <2>4
<1>3. /\ Len(Append(es, e)) = Len(es) + 1 /\ Append(es, e)[Len(es) + 1] = e
      /\ \A i \in 1..Len(es) : Append(es, e)[i] = es[i]
      /\ Len(es) \in Nat
  OBVIOUS
<1>4. \A i \in 1..Len(Append(es, e)) :
        \E j \in 1..Len(played') : Append(es, e)[i].tick = played'[j].end
  <2>1. n \in 1..Len(played') /\ e.tick = played'[n].end
    OBVIOUS
  <2>2. ASSUME NEW i \in 1..Len(Append(es, e))
        PROVE  i \in 1..Len(es) \/ i = Len(es) + 1
    BY <1>3
  <2> QED BY <1>2, <1>3, <2>1, <2>2
<1> DEFINE new == Append(es, e)
<1>5. Rises(new)
  <2> HIDE DEF new
  <2> SUFFICES ASSUME NEW i \in 1..Len(new), NEW j \in 1..Len(new), i < j
               PROVE  new[i].tick < new[j].tick
    BY DEF Rises
  <2>1. /\ Len(new) = Len(es) + 1 /\ new[Len(es) + 1] = e
        /\ \A k \in 1..Len(es) : new[k] = es[k]
    BY <1>3 DEF new
  <2>2. i \in 1..Len(es) /\ new[i] = es[i]
    BY <1>3, <2>1
  <2>3. CASE j \in 1..Len(es)
    BY <1>1, <2>1, <2>2, <2>3 DEF Rises
  <2>4. CASE j = Len(es) + 1
    BY <1>2, <2>1, <2>2, <2>4
  <2>5. Len(es) \in Nat
    OBVIOUS
  <2>6. j \in 1..Len(es) \/ j = Len(es) + 1
    <3>1. PICK l \in Nat : l = Len(es)
      BY <2>5
    <3>2. j \in 1..(l + 1)
      BY <2>1, <3>1
    <3>3. j \in 1..l \/ j = l + 1
      BY <3>2
    <3> QED BY <3>1, <3>3
  <2> QED BY <2>3, <2>4, <2>6
<1> QED BY <1>2, <1>4, <1>5

LEMMA EndRecorded ==
  ASSUME MInv, on, EndRound
  PROVE  Recorded'
<1> PICK n \in Nat \ {0} :
      /\ n = Len(played) /\ n = Len(played') /\ played' \in Seq(Played)
      /\ played[n].end = None /\ played'[n].end = clock' /\ played'[n].heard = played[n].heard
      /\ played'[n].shown = played[n].shown /\ played'[n].number = played[n].number
      /\ \A i \in 1..(n - 1) : played'[i] = played[i]
      /\ clock \in Nat /\ clock' \in Nat /\ clock < clock'
  BY EndPlayed
<1>1. /\ rec \in Recording /\ rec.results \in Seq(End) /\ rec.wins \in Seq(End)
  BY DEF MInv, TypeOK, Recording
<1>2. PICK w \in Winner :
        LET e == [tick |-> clock', winner |-> w]
        IN rec' = [rec EXCEPT !.results = Append(@, e),
                              !.wins = IF w = "tie" THEN @ ELSE Append(@, e)]
  BY DEF EndRound
<1> DEFINE e == [tick |-> clock', winner |-> w]
<1>3. e \in End /\ e.tick = clock'
  BY DEF End
<1>4. /\ rec'.starts = rec.starts /\ rec'.freezes = rec.freezes
      /\ rec'.results = Append(rec.results, e)
      /\ rec'.wins = rec.wins \/ rec'.wins = Append(rec.wins, e)
  BY <1>1, <1>2 DEF Recording
<1> HIDE DEF e
<1>5. \A i \in 1..n : /\ played'[i].shown = played[i].shown /\ played'[i].number = played[i].number
                      /\ played'[i].heard = played[i].heard
  OBVIOUS
<1>6. /\ \A i \in 1..n : Mark(i)' = Mark(i)
      /\ played # <<>> /\ played' # <<>> /\ phase' \notin {"freeze", "live"}
  <2>1. played # <<>> /\ played' # <<>>
    BY DEF MInv, Recorded, PlayedInTurn
  <2> QED BY <1>5, <2>1 DEF Mark, EndRound
<1> PICK o \in {0, 1} : o = Joined
  BY DEF Joined
<1>7. Joined' = o
  <2>1. played'[1].heard = played[1].heard
    BY <1>5
  <2> QED BY <1>6, <2>1 DEF Joined
<1>8. StartsRecorded'
  <2>1. Len(rec.starts) + o = n /\ \A i \in 1..Len(rec.starts) : rec.starts[i] = Mark(i + o)
    BY DEF MInv, Recorded, StartsRecorded
  <2>2. Len(rec.starts) \in Nat
    BY <1>1 DEF Recording
  <2>3. \A i \in 1..Len(rec.starts) : rec.starts[i] = Mark(i + o)'
    <3> TAKE i \in 1..Len(rec.starts)
    <3>1. i + o \in 1..n
      BY <2>1, <2>2
    <3> QED BY <1>6, <2>1, <3>1
  <2> QED BY <1>4, <1>7, <2>1, <2>3 DEF StartsRecorded
<1>9. FreezeRecorded'
  <2>1. 1 \in 1..n /\ played'[1].shown = played[1].shown
    BY <1>5
  <2>2. CASE n = 1 /\ played[1].shown = None
    BY <1>4, <2>1, <2>2 DEF MInv, Recorded, FreezeRecorded
  <2>3. CASE ~(n = 1 /\ played[1].shown = None)
    <3>1. rec.freezes # <<>> /\ rec.freezes[1] = Mark(IF played[1].shown # None THEN 1 ELSE 2)
      BY <1>6, <2>3 DEF MInv, Recorded, FreezeRecorded
    <3>2. CASE played[1].shown # None
      <4>1. rec'.freezes[1] = Mark(1)'
        BY <1>4, <1>6, <3>1, <3>2
      <4> QED BY <1>4, <1>6, <2>1, <2>3, <3>1, <3>2, <4>1 DEF FreezeRecorded
    <3>3. CASE played[1].shown = None
      <4>1. 2 \in 1..n
        BY <2>3, <3>3
      <4>2. rec'.freezes[1] = Mark(2)'
        BY <1>4, <1>6, <3>1, <3>3, <4>1
      <4> QED BY <1>4, <1>6, <2>1, <2>3, <3>1, <3>3, <4>2 DEF FreezeRecorded
    <3> QED BY <3>2, <3>3
  <2> QED BY <2>2, <2>3
<1>10. EndsRecorded(rec.results)' /\ EndsRecorded(rec.wins)'
  <2>1. EndsRecorded(rec.results) /\ EndsRecorded(rec.wins)
    BY DEF MInv, Recorded
  <2>2. /\ \A i \in 1..Len(rec'.results) : \E j \in 1..Len(played') : rec'.results[i].tick = played'[j].end
        /\ Rises(rec'.results)
    <3>1. /\ \A i \in 1..Len(Append(rec.results, e)) :
                \E j \in 1..Len(played') : Append(rec.results, e)[i].tick = played'[j].end
          /\ Rises(Append(rec.results, e))
      BY <1>1, <1>3, <2>1, EndAppended
    <3> QED BY <1>4, <3>1
  <2>3. /\ \A i \in 1..Len(rec'.wins) : \E j \in 1..Len(played') : rec'.wins[i].tick = played'[j].end
        /\ Rises(rec'.wins)
    <3>1. /\ \A i \in 1..Len(rec.wins) : \E j \in 1..Len(played') : rec.wins[i].tick = played'[j].end
          /\ \A i \in 1..Len(Append(rec.wins, e)) :
                \E j \in 1..Len(played') : Append(rec.wins, e)[i].tick = played'[j].end
          /\ Rises(Append(rec.wins, e)) /\ Rises(rec.wins)
      BY <1>1, <1>3, <2>1, EndAppended DEF EndsRecorded
    <3> QED BY <1>4, <3>1
  <2> QED BY <2>2, <2>3 DEF EndsRecorded, Rises
<1> QED BY <1>6, <1>8, <1>9, <1>10, EndInTurn DEF Recorded

\* The first round of the recording, if it begins in one.
LEMMA RecordingBegun ==
  ASSUME MInv, BeginRecording
  PROVE  Recorded'
<1>1. /\ clock \in Nat /\ clock' \in Nat /\ clock < clock' /\ clock' # None
      /\ number \in Nat /\ pc = "record" /\ pc' = pc /\ phase' = phase
      /\ rec \in Recording /\ rec.results = <<>> /\ rec.wins = <<>>
  BY Later, NoneNoNat DEF MInv, TypeOK, MatchType, BeginRecording
<1>2. PICK heard \in BOOLEAN :
        LET frozen == phase = "freeze"
            mark == <<[tick |-> clock', number |-> number]>>
        IN /\ heard => frozen
           /\ rec' = [rec EXCEPT !.starts = IF heard THEN mark ELSE <<>>,
                                 !.freezes = IF frozen THEN mark ELSE <<>>]
           /\ played' = IF phase \in {"freeze", "live"}
                          THEN <<[number |-> number, heard |-> heard, end |-> None,
                                  shown |-> IF frozen THEN clock' ELSE None]>>
                          ELSE <<>>
  BY DEF BeginRecording
<1> DEFINE mark == [tick |-> clock', number |-> number]
           q == [number |-> number, heard |-> heard, end |-> None,
                 shown |-> IF phase = "freeze" THEN clock' ELSE None]
<1>3. /\ rec'.starts = (IF heard THEN <<mark>> ELSE <<>>)
      /\ rec'.freezes = (IF phase = "freeze" THEN <<mark>> ELSE <<>>)
      /\ rec'.results = <<>> /\ rec'.wins = <<>>
  BY <1>1, <1>2 DEF Recording
<1>4. /\ q \in Played /\ q.number = number /\ q.heard = heard /\ q.end = None
      /\ q.shown = IF phase = "freeze" THEN clock' ELSE None
  BY <1>1 DEF Played
<1>5. EndsRecorded(rec.results)' /\ EndsRecorded(rec.wins)'
  BY <1>3 DEF EndsRecorded, Rises
<1>6. CASE phase \notin {"freeze", "live"}
  <2>1. played' = <<>> /\ rec'.starts = <<>> /\ rec'.freezes = <<>>
    BY <1>2, <1>3, <1>6
  <2>2. PlayedInTurn' /\ StartsRecorded' /\ FreezeRecorded'
    BY <2>1 DEF PlayedInTurn, StartsRecorded, FreezeRecorded, Joined
  <2> QED BY <1>1, <1>5, <1>6, <2>2 DEF Recorded
<1>7. CASE phase \in {"freeze", "live"}
  <2>1. played' = <<q>>
    BY <1>2, <1>7
  <2> HIDE DEF q
  <2>2. /\ played' \in Seq(Played) /\ Len(played') = 1 /\ played'[1] = q /\ played' # <<>>
    BY <1>4, <2>1
  <2>3. PlayedInTurn'
    BY <1>1, <1>2, <1>4, <2>2 DEF PlayedInTurn
  <2>4. Joined' = IF heard THEN 0 ELSE 1
    BY <1>4, <2>2 DEF Joined
  <2>5. phase = "freeze" => Mark(1)' = mark
    BY <1>4, <2>2 DEF Mark
  <2> HIDE DEF mark
  <2>6. StartsRecorded'
    <3>1. CASE heard
      <4>1. /\ Len(rec'.starts) = 1 /\ rec'.starts[1] = Mark(1)' /\ Joined' = 0
            /\ \A i \in 1..1 : i = 1 /\ i + 0 = i
        BY <1>2, <1>3, <2>4, <2>5, <3>1
      <4> QED BY <2>2, <4>1 DEF StartsRecorded
    <3>2. CASE ~heard
      BY <1>3, <2>2, <2>4, <3>2 DEF StartsRecorded
    <3> QED BY <3>1, <3>2
  <2>7. FreezeRecorded'
    <3>1. CASE phase = "freeze"
      <4>1. rec'.freezes # <<>> /\ rec'.freezes[1] = Mark(1)'
        BY <1>3, <2>5, <3>1
      <4>2. played'[1].shown # None
        BY <1>1, <1>4, <2>2, <3>1
      <4> QED BY <2>2, <4>1, <4>2 DEF FreezeRecorded
    <3>2. CASE phase # "freeze"
      BY <1>3, <1>4, <2>2, <3>2 DEF FreezeRecorded
    <3> QED BY <3>1, <3>2
  <2> QED BY <1>4, <1>5, <2>2, <2>3, <2>6, <2>7 DEF Recorded
<1> QED BY <1>6, <1>7

LEMMA StopRecorded ==
  ASSUME MInv, StopRecording
  PROVE  Recorded' /\ DeriveInv'
<1>1. /\ on /\ pc = "record" /\ pc' = "sort" /\ rec \in Recording /\ starts' = rec.starts
      /\ UNCHANGED <<clock, phase, number, on, played, ends, open, rounds, cut>>
  BY DEF StopRecording, match, MInv, TypeOK
<1>2. PICK sent \in BOOLEAN, last \in LastRounds :
        rec' = [rec EXCEPT !.last = last, !.results = IF sent THEN @ ELSE <<>>]
  BY DEF StopRecording
<1>3. /\ rec'.starts = rec.starts /\ rec'.freezes = rec.freezes /\ rec'.wins = rec.wins
      /\ rec'.results = rec.results \/ rec'.results = <<>>
  BY <1>1, <1>2 DEF Recording
<1>4. Joined' = Joined /\ \A j : Mark(j)' = Mark(j)
  BY <1>1 DEF Joined, Mark
<1>5. PlayedInTurn'
  BY <1>1 DEF MInv, Recorded, PlayedInTurn
<1>6. StartsRecorded' /\ FreezeRecorded'
  BY <1>1, <1>3, <1>4 DEF MInv, Recorded, StartsRecorded, FreezeRecorded
<1>7. EndsRecorded(rec.wins)' /\ EndsRecorded(rec.results)'
  BY <1>1, <1>3 DEF MInv, Recorded, EndsRecorded, Rises
<1>8. DeriveInv'
  BY <1>1, <1>3 DEF MInv, MatchType, DeriveInv
<1> QED BY <1>1, <1>5, <1>6, <1>7, <1>8 DEF Recorded

\* Before derive there is nothing derive could have got wrong.
LEMMA NotDerived ==
  ASSUME pc = "record"
  PROVE  DeriveInv /\ KeptAsAsked
BY DEF DeriveInv, KeptAsAsked

\* The match writes marks and ends of their type.
LEMMA BeginTypes ==
  ASSUME MInv, BeginRound
  PROVE  TypeOK' /\ MatchType'
<1>1. /\ clock' \in Nat /\ number' \in Nat /\ on' = on /\ pc = "record" /\ pc' = pc
      /\ rec \in Recording /\ UNCHANGED <<starts, ends, open, rounds, cut>>
  BY Later, RecordedMatchAssumption DEF MInv, MatchType, TypeOK, BeginRound
<1> DEFINE m == [tick |-> clock', number |-> number']
<1>2. m \in Start /\ m \in Freeze
  BY <1>1 DEF Start, Freeze
<1>3. CASE on
  <2>1. rec' = [rec EXCEPT !.starts = Append(@, m), !.freezes = Append(@, m)]
    BY <1>3 DEF BeginRound, Carry
  <2> HIDE DEF m
  <2>2. rec' \in Recording
    <3>1. Append(rec.starts, m) \in Seq(Start) /\ Append(rec.freezes, m) \in Seq(Freeze)
      BY <1>1, <1>2 DEF Recording
    <3> QED BY <1>1, <2>1, <3>1 DEF Recording
  <2> QED BY <1>1, <1>3, <2>2 DEF MInv, TypeOK, MatchType, Over
<1>4. CASE ~on
  <2>1. rec' = rec /\ played' = played
    BY <1>4 DEF BeginRound
  <2> QED BY <1>1, <1>4, <2>1 DEF MInv, TypeOK, MatchType, Over
<1> QED BY <1>3, <1>4

LEMMA EndTypes ==
  ASSUME MInv, EndRound
  PROVE  TypeOK' /\ MatchType'
<1>1. /\ clock' \in Nat /\ number' = number /\ on' = on /\ pc = "record" /\ pc' = pc
      /\ rec \in Recording /\ UNCHANGED <<starts, ends, open, rounds, cut>>
  <2>1. clock \in Nat /\ rec \in Recording
    BY DEF MInv, MatchType, TypeOK
  <2>2. clock' \in Nat /\ clock < clock' /\ pc = "record" /\ UNCHANGED <<number, on, starts, ends, open, rounds, pc, cut>>
    BY <2>1, Later DEF EndRound
  <2> QED BY <2>1, <2>2
<1>2. CASE on
  <2>1. PICK w \in Winner :
          LET e == [tick |-> clock', winner |-> w]
          IN rec' = [rec EXCEPT !.results = Append(@, e),
                                !.wins = IF w = "tie" THEN @ ELSE Append(@, e)]
    BY <1>2 DEF EndRound
  <2> DEFINE e == [tick |-> clock', winner |-> w]
  <2>2. e \in End
    BY <1>1 DEF End
  <2>3. rec' = [rec EXCEPT !.results = Append(@, e),
                           !.wins = IF w = "tie" THEN @ ELSE Append(@, e)]
    BY <2>1
  <2> HIDE DEF e
  <2>4. rec' \in Recording
    <3>1. Append(rec.results, e) \in Seq(End) /\ Append(rec.wins, e) \in Seq(End)
      BY <1>1, <2>2 DEF Recording
    <3> QED BY <1>1, <2>3, <3>1 DEF Recording
  <2> QED BY <1>1, <1>2, <2>4 DEF MInv, TypeOK, MatchType, Over
<1>3. CASE ~on
  <2>1. rec' = rec /\ played' = played
    BY <1>3 DEF EndRound
  <2> QED BY <1>1, <1>3, <2>1 DEF MInv, TypeOK, MatchType, Over
<1> QED BY <1>2, <1>3

LEMMA RecordingTypes ==
  ASSUME MInv, BeginRecording
  PROVE  TypeOK' /\ MatchType'
<1>1. /\ clock' \in Nat /\ number \in Nat /\ number' = number /\ on' = TRUE
      /\ pc = "record" /\ pc' = pc
      /\ rec \in Recording /\ UNCHANGED <<starts, ends, open, rounds, cut>>
  BY Later DEF MInv, MatchType, TypeOK, BeginRecording
<1> DEFINE m == [tick |-> clock', number |-> number]
<1>2. m \in Start /\ m \in Freeze
  BY <1>1 DEF Start, Freeze
<1>3. PICK ss \in {<<m>>, <<>>}, fs \in {<<m>>, <<>>} :
        rec' = [rec EXCEPT !.starts = ss, !.freezes = fs]
  BY DEF BeginRecording
<1> HIDE DEF m
<1>4. /\ <<m>> \in Seq(Start) /\ <<m>> \in Seq(Freeze)
      /\ <<>> \in Seq(Start) /\ <<>> \in Seq(Freeze)
  BY <1>2
<1>5. ss \in Seq(Start) /\ fs \in Seq(Freeze)
  BY <1>3, <1>4
<1>6. rec' \in Recording
  BY <1>1, <1>3, <1>5 DEF Recording
<1> QED BY <1>1, <1>6 DEF MInv, TypeOK, MatchType, Over

LEMMA StopTypes ==
  ASSUME MInv, StopRecording
  PROVE  TypeOK' /\ MatchType'
<1>1. /\ pc' = "sort" /\ rec \in Recording /\ starts' = rec.starts
      /\ UNCHANGED <<clock, phase, number, on, played, ends, open, rounds, cut>>
  BY DEF StopRecording, match, MInv, TypeOK
<1>2. PICK sent \in BOOLEAN, last \in LastRounds :
        rec' = [rec EXCEPT !.last = last, !.results = IF sent THEN @ ELSE <<>>]
  BY DEF StopRecording
<1>3. rec' \in Recording
  <2>1. last \in Nat \cup {None}
    BY RecordedMatchAssumption
  <2> DEFINE rs == IF sent THEN rec.results ELSE <<>>
  <2>2. rs \in Seq(End)
    BY <1>1 DEF Recording
  <2>3. rec' = [rec EXCEPT !.last = last, !.results = rs]
    BY <1>2
  <2> HIDE DEF rs
  <2> QED BY <1>1, <2>1, <2>2, <2>3 DEF Recording
<1>4. starts' \in Seq(Start)
  BY <1>1 DEF Recording
<1> QED BY <1>1, <1>3, <1>4 DEF MInv, TypeOK, MatchType, Over

\* Each step of the match and its recording keeps the invariant.
LEMMA MatchStep ==
  ASSUME MInv, BeginRound \/ GoLive \/ EndRound \/ BeginRecording \/ StopRecording
  PROVE  MInv'
<1>1. CASE BeginRound
  <2>1. pc' = "record" /\ on' = on
    BY <1>1 DEF BeginRound, MInv
  <2>2. on => Recorded'
    BY <1>1, BeginRecorded
  <2>3. DeriveInv' /\ KeptAsAsked'
    BY <2>1 DEF DeriveInv, KeptAsAsked
  <2> QED BY <1>1, <2>1, <2>2, <2>3, BeginTypes DEF MInv
<1>2. CASE GoLive
  <2>1. /\ pc = "record" /\ phase = "freeze"
        /\ UNCHANGED <<clock, number, on, played, vars>>
    BY <1>2 DEF GoLive
  <2>2. TypeOK' /\ MatchType'
    BY <2>1 DEF MInv, TypeOK, MatchType, Over, vars
  <2>3. on => Recorded'
    BY <2>1, SameRecorded DEF MInv, MatchType, vars
  <2>4. DeriveInv' /\ KeptAsAsked'
    BY <2>1 DEF DeriveInv, KeptAsAsked, vars
  <2> QED BY <2>1, <2>2, <2>3, <2>4 DEF MInv
<1>3. CASE EndRound
  <2>1. pc' = "record" /\ on' = on
    BY <1>3 DEF EndRound, MInv
  <2>2. DeriveInv' /\ KeptAsAsked'
    BY <2>1 DEF DeriveInv, KeptAsAsked
  <2>3. pc = "record"
    BY <1>3 DEF EndRound
  <2> QED BY <1>3, <2>1, <2>2, EndTypes, EndRecorded DEF MInv
<1>4. CASE BeginRecording
  <2>1. pc' = "record"
    BY <1>4 DEF BeginRecording
  <2>2. DeriveInv' /\ KeptAsAsked'
    BY <2>1 DEF DeriveInv, KeptAsAsked
  <2> QED BY <1>4, <2>2, RecordingTypes, RecordingBegun DEF MInv
<1>5. CASE StopRecording
  <2>1. pc' = "sort"
    BY <1>5 DEF StopRecording
  <2>2. KeptAsAsked'
    BY <2>1 DEF KeptAsAsked
  <2> QED BY <1>5, <2>2, StopTypes, StopRecorded DEF MInv
<1> QED BY <1>1, <1>2, <1>3, <1>4, <1>5

-----------------------------------------------------------------------------
(* derive pairs the marks of each round                                    *)

LEMMA EndAtType ==
  ASSUME played \in Seq(Played), NEW j \in 1..Len(played)
  PROVE  EndAt(j) \in Nat \cup {None} /\ EndAt(j) \in {None, played[j].end}
BY PlayedType DEF EndAt, RecordedEnd

\* The marks of a round lie after those of the rounds before it.
LEMMA InTurn ==
  ASSUME Recorded
  PROVE  /\ played \in Seq(Played) /\ Len(played) \in Nat
         /\ \A j \in 1..Len(played) :
              /\ j > 1 => played[j].heard
              /\ played[j].heard => played[j].shown \in Nat
              /\ played[j].heard /\ EndAt(j) # None => played[j].shown < EndAt(j)
         /\ \A i, j \in 1..Len(played) : i < j =>
              /\ EndAt(i) # None => EndAt(i) < played[j].shown
              /\ played[i].heard => played[i].shown < played[j].shown
<1>1. PlayedInTurn /\ played \in Seq(Played) /\ Len(played) \in Nat
  BY DEF Recorded, PlayedInTurn
<1>2. \A j \in 1..Len(played) :
        /\ j > 1 => played[j].heard
        /\ played[j].heard => played[j].shown \in Nat
        /\ played[j].heard /\ EndAt(j) # None => played[j].shown < EndAt(j)
  BY <1>1, PlayedType, EndAtType DEF PlayedInTurn
<1>3. \A i, j \in 1..Len(played) : i < j =>
        /\ EndAt(i) # None => EndAt(i) < played[j].shown
        /\ played[i].heard => played[i].shown < played[j].shown
  BY <1>1, EndAtType DEF PlayedInTurn
<1> QED BY <1>1, <1>2, <1>3

\* How many rounds lack a start text, or any mark.
LEMMA JoinedType ==
  ASSUME played \in Seq(Played)
  PROVE  /\ Joined \in {0, 1} /\ Skipped \in {0, 1} /\ Skipped <= Joined /\ Joined <= Len(played)
         /\ Joined = 1 => ~played[1].heard
         /\ Joined = 0 /\ played # <<>> => played[1].heard
         /\ Skipped = 1 => EndAt(1) = None
         /\ Joined = 1 /\ Skipped = 0 => EndAt(1) # None
BY DEF Joined, Skipped

\* Sorting what already rises gives each end its own tick once.
LEMMA SortedRises ==
  ASSUME NEW es \in Seq(End), Rises(es), NEW p \in Order(es)
  PROVE  /\ \A i, j \in 1..Len(es) : i < j => es[p[i]].tick < es[p[j]].tick
         /\ \A k \in 1..Len(es) : \E i \in 1..Len(es) : p[i] = k
         /\ \A i \in 1..Len(es) : p[i] \in 1..Len(es)
<1>1. p \in [1..Len(es) -> 1..Len(es)] /\ Len(es) \in Nat
  BY DEF Order
<1>2. \A i \in 1..Len(es) : es[i] \in End /\ es[i].tick \in Nat
  <2> TAKE i \in 1..Len(es)
  <2>1. es[i] \in End
    OBVIOUS
  <2> QED BY <2>1 DEF End
<1>3. ASSUME NEW i \in 1..Len(es), NEW j \in 1..Len(es), i < j
      PROVE  es[p[i]].tick < es[p[j]].tick
  <2>1. p[i] \in 1..Len(es) /\ p[j] \in 1..Len(es)
    BY <1>1
  <2>2. \/ es[p[i]].tick < es[p[j]].tick
        \/ es[p[i]].tick = es[p[j]].tick /\ p[i] < p[j]
    BY <1>3 DEF Order
  <2>3. p[i] < p[j] => es[p[i]].tick < es[p[j]].tick
    BY <2>1 DEF Rises
  <2> QED BY <2>2, <2>3
<1>4. \A i, j \in 1..Len(es) : p[i] = p[j] => i = j
  <2> SUFFICES ASSUME NEW i \in 1..Len(es), NEW j \in 1..Len(es), p[i] = p[j], i # j
               PROVE  FALSE
    OBVIOUS
  <2>1. es[p[i]].tick \in Nat
    BY <1>1, <1>2
  <2>2. i < j \/ j < i
    BY <1>1
  <2> QED BY <1>3, <2>1, <2>2
<1>5. p \in Injection(1..Len(es), 1..Len(es))
  BY <1>1, <1>4 DEF Injection, IsInjective
<1>6. IsFiniteSet(1..Len(es))
  BY <1>1, FS_Interval
<1>7. p \in Surjection(1..Len(es), 1..Len(es))
  BY <1>5, <1>6, FS_Injection
<1> QED BY <1>1, <1>3, <1>7 DEF Surjection

\* The ends derive starts from are those recorded of the match.
LEMMA EndsAre ==
  ASSUME TypeOK, Recorded, NEW es, es = Results(rec)
  PROVE  /\ es \in Seq(End) /\ Rises(es)
         /\ \A i \in 1..Len(es) : \E j \in 1..Len(played) : es[i].tick = EndAt(j) /\ EndAt(j) # None
         /\ \A j \in 1..Len(played) : EndAt(j) # None => \E i \in 1..Len(es) : es[i].tick = EndAt(j)
<1>1. es \in Seq(End)
  BY ResultsType DEF TypeOK
<1>2. EndsRecorded(es)
  BY DEF Results, Recorded
<1>3. \A i \in 1..Len(es) : es[i].tick \in Nat
  <2> TAKE i \in 1..Len(es)
  <2>1. es[i] \in End
    BY <1>1
  <2> QED BY <2>1 DEF End
<1>4. ASSUME NEW i \in 1..Len(es)
      PROVE  \E j \in 1..Len(played) : es[i].tick = EndAt(j) /\ EndAt(j) # None
  <2>1. PICK j \in 1..Len(played) : es[i].tick = played[j].end
    BY <1>2 DEF EndsRecorded
  <2>2. EndAt(j) = played[j].end
    BY <2>1 DEF EndAt, RecordedEnd
  <2> QED BY <1>3, <2>1, <2>2, NoneNoNat
<1>5. ASSUME NEW j \in 1..Len(played), EndAt(j) # None
      PROVE  \E i \in 1..Len(es) : es[i].tick = EndAt(j)
  BY <1>5 DEF EndAt, RecordedEnd
<1> QED BY <1>1, <1>2, <1>4, <1>5 DEF EndsRecorded

\* Sorted, the ends recorded are those to come, and every start is.
LEMMA SortMerging ==
  ASSUME MInv, on, SortEnds
  PROVE  Merging(<<>>, None, rec.starts, ends')
<1> PICK es : es = Results(rec)
  OBVIOUS
<1>1. Recorded /\ TypeOK
  BY DEF MInv
<1>2. PICK p \in Order(es) : ends' = [i \in 1..Len(es) |-> es[p[i]]]
  BY DEF SortEnds
<1>3. /\ es \in Seq(End) /\ Rises(es)
      /\ \A i \in 1..Len(es) : \E j \in 1..Len(played) : es[i].tick = EndAt(j) /\ EndAt(j) # None
      /\ \A j \in 1..Len(played) : EndAt(j) # None => \E i \in 1..Len(es) : es[i].tick = EndAt(j)
  BY <1>1, EndsAre
<1>4. /\ \A i, j \in 1..Len(es) : i < j => es[p[i]].tick < es[p[j]].tick
      /\ \A k \in 1..Len(es) : \E i \in 1..Len(es) : p[i] = k
      /\ \A i \in 1..Len(es) : p[i] \in 1..Len(es)
  BY <1>3, SortedRises
<1>5. /\ Len(ends') = Len(es) /\ \A i \in 1..Len(es) : ends'[i] = es[p[i]]
  BY <1>2, <1>3, <1>4
<1>6. /\ played \in Seq(Played) /\ Len(played) \in Nat
  BY <1>1 DEF Recorded, PlayedInTurn
<1>7. /\ Joined \in {0, 1} /\ Skipped \in {0, 1} /\ Skipped <= Joined /\ Joined <= Len(played)
      /\ Skipped = 1 => EndAt(1) = None
  BY <1>6, JoinedType
<1>8. Merged(<<>>) = Skipped /\ Passed(rec.starts) = Joined
  <2>1. Len(rec.starts) + Joined = Len(played) /\ Len(rec.starts) \in Nat
    BY <1>1 DEF Recorded, StartsRecorded, TypeOK, Recording
  <2> QED BY <1>6, <1>7, <2>1 DEF Merged, Passed
<1>9. OpenIsNext(<<>>, None, rec.starts)
  BY <1>7, <1>8 DEF OpenIsNext
<1>10. EndsToCome(<<>>, ends')
  <2>1. Rises(ends')
    <3> SUFFICES ASSUME NEW i \in 1..Len(ends'), NEW j \in 1..Len(ends'), i < j
                 PROVE  ends'[i].tick < ends'[j].tick
      BY DEF Rises
    <3>1. /\ i \in 1..Len(es) /\ j \in 1..Len(es)
          /\ ends'[i] = es[p[i]] /\ ends'[j] = es[p[j]]
      BY <1>5
    <3>2. es[p[i]].tick < es[p[j]].tick
      BY <1>4, <3>1
    <3> QED BY <3>1, <3>2
  <2>2. ASSUME NEW i \in 1..Len(ends')
        PROVE  \E j \in (Skipped + 1)..Len(played) : ends'[i].tick = EndAt(j)
    <3>1. p[i] \in 1..Len(es) /\ ends'[i] = es[p[i]]
      BY <1>4, <1>5
    <3>2. PICK j \in 1..Len(played) : es[p[i]].tick = EndAt(j) /\ EndAt(j) # None
      BY <1>3, <3>1
    <3>3. j \in (Skipped + 1)..Len(played)
      BY <1>6, <1>7, <3>2
    <3> QED BY <3>1, <3>2, <3>3
  <2>3. ASSUME NEW j \in (Skipped + 1)..Len(played), EndAt(j) # None
        PROVE  \E i \in 1..Len(ends') : ends'[i].tick = EndAt(j)
    <3>1. j \in 1..Len(played)
      BY <1>6, <1>7
    <3>2. PICK k \in 1..Len(es) : es[k].tick = EndAt(j)
      BY <1>3, <2>3, <3>1
    <3>3. PICK i \in 1..Len(es) : p[i] = k
      BY <1>4
    <3> QED BY <1>5, <3>2, <3>3
  <2> QED BY <1>8, <2>1, <2>2, <2>3 DEF EndsToCome
<1>11. \A i \in 1..Len(rec.starts) : rec.starts[i] = Mark(Passed(rec.starts) + i)
  <2> TAKE i \in 1..Len(rec.starts)
  <2>1. rec.starts[i] = Mark(i + Joined) /\ i + Joined = Joined + i
    BY <1>1, <1>7 DEF Recorded, StartsRecorded
  <2> QED BY <1>8, <2>1
<1>12. AllFromRecording(<<>>)
  BY DEF AllFromRecording
<1> QED BY <1>6, <1>7, <1>8, <1>9, <1>10, <1>11, <1>12 DEF Merging

\* The next end is that of the round open, or of the one joined.
LEMMA CloseMerges ==
  ASSUME Recorded, NEW rs \in Seq(Round), NEW op \in Round \cup {None}, NEW ss \in Seq(Start),
         NEW es \in Seq(End), Merging(rs, op, ss, es),
         es # <<>>, ss # <<>> => Head(es).tick < Head(ss).tick
  PROVE  Merging(Append(rs, Ended(IF op = None THEN Unstarted ELSE op, Head(es))), None, ss, Tail(es))
<1> PICK n \in Nat, s \in {0, 1}, o \in {0, 1} : n = Len(played) /\ s = Skipped /\ o = Joined
  BY InTurn, JoinedType
<1>0. Len(rs) \in Nat /\ Len(ss) \in Nat /\ Len(es) \in Nat
  OBVIOUS
<1> PICK m \in Nat : m = Merged(rs) /\ m = Len(rs) + s
  BY <1>0 DEF Merged
<1>q. Passed(ss) = n - Len(ss) /\ n - Len(ss) \in Int
  BY <1>0 DEF Passed
<1> PICK q \in Int : q = Passed(ss) /\ q = n - Len(ss)
  BY <1>q
<1> PICK e \in End : e = Head(es) /\ e = es[1] /\ 1 \in 1..Len(es)
  OBVIOUS
<1>1. /\ s <= o /\ o <= n /\ (o = 1 => ~played[1].heard) /\ (o = 0 /\ n # 0 => played[1].heard)
      /\ (o = 1 /\ s = 0 => EndAt(1) # None) /\ (s = 1 => EndAt(1) = None)
  <2>1. played \in Seq(Played) /\ (n # 0 => played # <<>>)
    BY InTurn
  <2> QED BY <2>1, JoinedType
<1>2. m <= n /\ AllFromRecording(rs) /\ OpenIsNext(rs, op, ss) /\ EndsToCome(rs, es)
      /\ \A i \in 1..Len(ss) : ss[i] = Mark(q + i)
  BY DEF Merging
<1>3. IF op = None THEN q = IF m >= o THEN m ELSE o
      ELSE /\ q = m + 1 /\ played[q].heard
           /\ op.start = played[q].shown /\ op.number = played[q].number /\ op.end = None
  BY <1>2 DEF OpenIsNext
<1>4. /\ Rises(es)
      /\ \A i \in 1..Len(es) : \E j \in (m + 1)..n : es[i].tick = EndAt(j)
      /\ \A j \in (m + 1)..n : EndAt(j) # None => \E i \in 1..Len(es) : es[i].tick = EndAt(j)
  BY <1>2 DEF EndsToCome
<1>5. e.tick \in Nat /\ (ss # <<>> => e.tick < Head(ss).tick)
  BY DEF End
<1>6. PICK j \in (m + 1)..n : e.tick = EndAt(j) /\ EndAt(j) # None
  BY <1>4, <1>5, NoneNoNat
<1>7. q \in {m, m + 1} /\ (q = m => op = None /\ m >= o) /\ (q = m + 1 /\ op = None => m = 0 /\ o = 1)
  BY <1>3
<1>8. q < n => /\ ss # <<>> /\ Head(ss).tick = played[q + 1].shown
               /\ played[q + 1].heard /\ played[q + 1].shown \in Nat
  <2> SUFFICES ASSUME q < n
               PROVE  /\ ss # <<>> /\ Head(ss).tick = played[q + 1].shown
                      /\ played[q + 1].heard /\ played[q + 1].shown \in Nat
    OBVIOUS
  <2>1. ss # <<>> /\ Head(ss) = ss[1] /\ 1 \in 1..Len(ss)
    BY <1>0
  <2>2. Head(ss).tick = played[q + 1].shown
    <3>1. ss[1] = Mark(q + 1)
      BY <1>2, <2>1
    <3>2. Mark(q + 1).tick = played[q + 1].shown
      BY DEF Mark
    <3> QED BY <2>1, <3>1, <3>2
  <2>3. q + 1 \in 1..n /\ (q + 1 = 1 => o = 0)
    BY <1>7
  <2>4. played[q + 1].heard
    BY <1>1, <2>3, InTurn
  <2> QED BY <2>1, <2>2, <2>3, <2>4, InTurn
<1>9. j = m + 1
  <2> SUFFICES ASSUME j # m + 1 PROVE FALSE
    OBVIOUS
  <2>1. q < n /\ q + 1 \in 1..n /\ q + 1 <= j /\ j > 1 /\ j \in 1..n
    BY <1>7
  <2>2. /\ played[j].heard /\ played[j].shown \in Nat /\ played[j].shown < EndAt(j)
        /\ q + 1 < j => played[q + 1].shown < played[j].shown
    BY <1>6, <1>8, <2>1, InTurn
  <2>3. e.tick < played[q + 1].shown /\ played[q + 1].shown \in Nat
    BY <1>5, <1>8, <2>1
  <2>4. q + 1 = j \/ q + 1 < j
    <3>1. q + 1 <= j
      BY <2>1
    <3> QED BY <3>1
  <2>5. played[q + 1].shown < EndAt(j)
    <3>1. CASE q + 1 = j
      BY <2>2, <3>1
    <3>2. CASE q + 1 < j
      <4>1. played[q + 1].shown < played[j].shown
        BY <2>2, <3>2
      <4>2. played[j].shown < EndAt(j) /\ EndAt(j) \in Nat
        BY <1>5, <1>6, <2>2
      <4> QED BY <2>2, <2>3, <4>1, <4>2
    <3> QED BY <2>4, <3>1, <3>2
  <2>6. e.tick < played[q + 1].shown /\ played[q + 1].shown < e.tick /\ e.tick \in Nat
    BY <1>5, <1>6, <2>3, <2>5
  <2> QED BY <2>3, <2>6
<1>10. q = m + 1
  <2> SUFFICES ASSUME q = m PROVE FALSE
    BY <1>7
  <2>1. q < n /\ m + 1 \in 1..n
    BY <1>9
  <2>2. /\ played[m + 1].heard /\ e.tick < played[m + 1].shown /\ played[m + 1].shown \in Nat
    BY <1>5, <1>8, <2>1
  <2>3. played[m + 1].shown < EndAt(m + 1)
    BY <1>6, <1>9, <2>1, <2>2, InTurn
  <2> QED BY <1>5, <1>6, <1>9, <2>2, <2>3
<1> DEFINE r == IF op = None THEN Unstarted ELSE op
           x == Ended(r, e)
<1>11. r \in Round
  BY UnstartedType
<1>12. x \in Round /\ x.end = e.tick /\ x.start = r.start /\ x.number = r.number
  <2> HIDE DEF r
  <2>1. x.number = r.number
    BY <1>11, RoundsAssumption DEF Ended, Round, End
  <2> QED BY <1>11, <2>1, EndedType
<1>13. FromRecording(x, m + 1)
  <2>1. x.end = EndAt(m + 1)
    BY <1>6, <1>9, <1>12
  <2>2. CASE op = None
    <3>1. m = 0 /\ o = 1 /\ ~played[m + 1].heard
      BY <1>1, <1>7, <1>10, <2>2
    <3>2. x.start = None /\ x.number = None
      BY <1>12, <2>2 DEF Unstarted
    <3> QED BY <2>1, <3>1, <3>2 DEF FromRecording
  <2>3. CASE op # None
    BY <1>3, <1>10, <1>12, <2>1, <2>3 DEF FromRecording
  <2> QED BY <2>2, <2>3
<1> HIDE DEF x
<1> DEFINE new == Append(rs, x)
<1>14. /\ Len(new) = Len(rs) + 1 /\ new[Len(rs) + 1] = x
       /\ \A i \in 1..Len(rs) : new[i] = rs[i]
  BY <1>12
<1> HIDE DEF new
<1>15. Merged(new) = m + 1 /\ m + 1 <= n
  <2>1. m + 1 <= n
    BY <1>9
  <2> QED BY <1>0, <1>14, <2>1 DEF Merged
<1>16. AllFromRecording(new)
  <2> SUFFICES ASSUME NEW i \in 1..(Len(rs) + 1) PROVE FromRecording(new[i], s + i)
    BY <1>14 DEF AllFromRecording
  <2>1. CASE i = Len(rs) + 1
    <3>1. s + i = m + 1
      BY <1>0, <2>1
    <3> QED BY <1>13, <1>14, <2>1, <3>1
  <2>2. CASE i \in 1..Len(rs)
    BY <1>2, <1>14, <2>2 DEF AllFromRecording
  <2> QED BY <1>0, <2>1, <2>2
<1>17. OpenIsNext(new, None, ss)
  BY <1>10, <1>15 DEF OpenIsNext
<1> DEFINE left == Tail(es)
<1>18. Len(left) = Len(es) - 1 /\ \A i \in 1..Len(left) : left[i] = es[i + 1] /\ i + 1 \in 1..Len(es)
  BY <1>0
<1> HIDE DEF left
<1>19. EndsToCome(new, left)
  <2>1. Rises(left)
    <3> SUFFICES ASSUME NEW i \in 1..Len(left), NEW k \in 1..Len(left), i < k
                 PROVE  left[i].tick < left[k].tick
      BY DEF Rises
    <3>1. i + 1 < k + 1
      BY <1>0, <1>18
    <3> QED BY <1>4, <1>18, <3>1 DEF Rises
  <2>2. ASSUME NEW i \in 1..Len(left)
        PROVE  \E k \in (m + 2)..n : left[i].tick = EndAt(k)
    <3>1. left[i] = es[i + 1] /\ i + 1 \in 1..Len(es) /\ 1 < i + 1
      BY <1>0, <1>18
    <3>2. PICK k \in (m + 1)..n : es[i + 1].tick = EndAt(k)
      BY <1>4, <3>1
    <3>3. es[1].tick < es[i + 1].tick
      BY <1>4, <3>1 DEF Rises
    <3>4. k # m + 1
      BY <1>5, <1>6, <1>9, <3>2, <3>3
    <3>5. k \in (m + 2)..n
      BY <3>4
    <3> QED BY <3>1, <3>2, <3>5
  <2>3. ASSUME NEW k \in (m + 2)..n, EndAt(k) # None
        PROVE  \E i \in 1..Len(left) : left[i].tick = EndAt(k)
    <3>1. k \in (m + 1)..n /\ m + 1 < k /\ m + 1 \in 1..n /\ k \in 1..n
      OBVIOUS
    <3>2. PICK i \in 1..Len(es) : es[i].tick = EndAt(k)
      BY <1>4, <2>3, <3>1
    <3>3. EndAt(m + 1) < played[k].shown /\ played[k].shown < EndAt(k) /\ played[k].shown \in Nat
      BY <1>6, <1>9, <2>3, <3>1, InTurn
    <3>4. EndAt(k) \in Nat
      BY <2>3, <3>1, EndAtType, InTurn
    <3>5. i # 1
      BY <1>5, <1>6, <1>9, <3>2, <3>3, <3>4
    <3>6. i - 1 \in 1..Len(left) /\ (i - 1) + 1 = i
      BY <1>0, <1>18, <3>5
    <3> QED BY <1>18, <3>2, <3>6
  <2>4. (m + 1) + 1 = m + 2
    OBVIOUS
  <2> QED BY <1>15, <2>1, <2>2, <2>3, <2>4 DEF EndsToCome
<1>20. Merging(new, None, ss, left)
  BY <1>2, <1>15, <1>16, <1>17, <1>19 DEF Merging
<1> QED BY <1>20 DEF new, left, x

\* When no end is to come for the rounds whose starts are merged, the open one
\* was aborted or cut off, and is the last of them.
LEMMA OpenMerged ==
  ASSUME Recorded, NEW rs \in Seq(Round), NEW op \in Round \cup {None}, NEW ss \in Seq(Start),
         NEW es \in Seq(End), Merging(rs, op, ss, es)
  PROVE  LET new == IF op = None THEN rs ELSE Append(rs, op)
         IN (\A j \in (Merged(rs) + 1)..Passed(ss) : EndAt(j) = None) =>
              new \in Seq(Round) /\ Merged(new) = Passed(ss) /\ AllFromRecording(new)
<1>a. SUFFICES ASSUME \A j \in (Merged(rs) + 1)..Passed(ss) : EndAt(j) = None
               PROVE  LET new == IF op = None THEN rs ELSE Append(rs, op)
                      IN new \in Seq(Round) /\ Merged(new) = Passed(ss) /\ AllFromRecording(new)
  OBVIOUS
<1> PICK n \in Nat, s \in {0, 1}, o \in {0, 1} : n = Len(played) /\ s = Skipped /\ o = Joined
  BY InTurn, JoinedType
<1>0. Len(rs) \in Nat /\ Len(ss) \in Nat
  OBVIOUS
<1> PICK m \in Nat : m = Merged(rs) /\ m = Len(rs) + s
  BY <1>0 DEF Merged
<1>q. Passed(ss) = n - Len(ss) /\ n - Len(ss) \in Int
  BY <1>0 DEF Passed
<1> PICK q \in Int : q = Passed(ss) /\ q = n - Len(ss)
  BY <1>q
<1>1. AllFromRecording(rs) /\ OpenIsNext(rs, op, ss)
  BY DEF Merging
<1>2. CASE op = None
  <2>1. q = IF m >= o THEN m ELSE o
    BY <1>1, <1>2 DEF OpenIsNext
  <2>2. q = m
    <3> SUFFICES ASSUME q # m PROVE FALSE
      OBVIOUS
    <3>1. m = 0 /\ o = 1 /\ q = 1 /\ s = 0
      BY <1>0, <2>1
    <3>2. EndAt(1) # None
      BY <3>1, InTurn, JoinedType
    <3> QED BY <1>a, <3>1, <3>2
  <2> QED BY <1>1, <1>2, <2>2
<1>3. CASE op # None
  <2>1. /\ q = m + 1 /\ played[q].heard /\ op \in Round
        /\ op.start = played[q].shown /\ op.number = played[q].number /\ op.end = None
    BY <1>1, <1>3 DEF OpenIsNext
  <2>2. EndAt(q) = None
    BY <1>a, <2>1
  <2>3. FromRecording(op, q)
    BY <2>1, <2>2 DEF FromRecording
  <2> DEFINE new == Append(rs, op)
  <2>4. /\ new \in Seq(Round) /\ Len(new) = Len(rs) + 1 /\ new[Len(rs) + 1] = op
         /\ \A i \in 1..Len(rs) : new[i] = rs[i]
    BY <2>1
  <2> HIDE DEF new
  <2>5. Merged(new) = q
    <3>1. Merged(new) = (Len(rs) + 1) + s
      BY <2>4 DEF Merged
    <3>2. q = m + 1
      BY <2>1
    <3>3. (Len(rs) + 1) + s = q
      BY <1>0, <3>2
    <3> QED BY <3>1, <3>3
  <2>6. AllFromRecording(new)
    <3> SUFFICES ASSUME NEW i \in 1..(Len(rs) + 1) PROVE FromRecording(new[i], s + i)
      BY <2>4 DEF AllFromRecording
    <3>1. CASE i = Len(rs) + 1
      <4>1. s + i = q
        <5>1. q = m + 1
          BY <2>1
        <5> QED BY <1>0, <3>1, <5>1
      <4>2. new[i] = op
        BY <2>4, <3>1
      <4> QED BY <2>3, <4>1, <4>2
    <3>2. CASE i \in 1..Len(rs)
      BY <1>1, <2>4, <3>2 DEF AllFromRecording
    <3> QED BY <1>0, <3>1, <3>2
  <2> QED BY <1>3, <2>4, <2>5, <2>6 DEF new
<1> QED BY <1>2, <1>3

\* The next start is that of the next round played.
LEMMA OpenMerges ==
  ASSUME Recorded, NEW rs \in Seq(Round), NEW op \in Round \cup {None}, NEW ss \in Seq(Start),
         NEW es \in Seq(End), Merging(rs, op, ss, es),
         ss # <<>>, es # <<>> => Head(es).tick >= Head(ss).tick
  PROVE  Merging(IF op = None THEN rs ELSE Append(rs, op), Started(Head(ss)), Tail(ss), es)
<1> PICK n \in Nat, s \in {0, 1}, o \in {0, 1} : n = Len(played) /\ s = Skipped /\ o = Joined
  BY InTurn, JoinedType
<1>0. Len(rs) \in Nat /\ Len(ss) \in Nat \ {0} /\ Len(es) \in Nat
  OBVIOUS
<1> PICK m \in Nat : m = Merged(rs) /\ m = Len(rs) + s
  BY <1>0 DEF Merged
<1>q. Passed(ss) = n - Len(ss) /\ n - Len(ss) \in Int
  BY <1>0 DEF Passed
<1> PICK q \in Int : q = Passed(ss) /\ q = n - Len(ss)
  BY <1>q
<1> PICK b \in Start : b = Head(ss) /\ b = ss[1] /\ 1 \in 1..Len(ss)
  OBVIOUS
<1>1. (o = 0 /\ n # 0 => played[1].heard) /\ played \in Seq(Played)
  <2>1. played \in Seq(Played) /\ (n # 0 => played # <<>>)
    BY InTurn
  <2> QED BY <2>1, JoinedType
<1>2. /\ m <= n /\ OpenIsNext(rs, op, ss) /\ EndsToCome(rs, es)
      /\ \A i \in 1..Len(ss) : ss[i] = Mark(q + i)
  BY DEF Merging
<1>3. q \in 0..(n - 1) /\ q >= m /\ q <= m + 1 /\ (q = 0 => o = 0)
  <2>1. (op = None => q = IF m >= o THEN m ELSE o) /\ (op # None => q = m + 1)
    BY <1>2 DEF OpenIsNext
  <2> QED BY <1>0, <2>1
<1>4. b = Mark(q + 1) /\ b.tick = played[q + 1].shown /\ b.number = played[q + 1].number
  <2>1. b = Mark(q + 1)
    BY <1>2
  <2> QED BY <2>1 DEF Mark
<1>5. q + 1 \in 1..n /\ played[q + 1].heard /\ played[q + 1].shown \in Nat
  <2>1. q + 1 \in 1..n /\ (q + 1 > 1 \/ q + 1 = 1)
    BY <1>3
  <2>2. played[q + 1].heard
    BY <1>1, <1>3, <2>1, InTurn
  <2> QED BY <2>1, <2>2, InTurn
<1>6. /\ Rises(es)
      /\ \A i \in 1..Len(es) : \E j \in (m + 1)..n : es[i].tick = EndAt(j)
      /\ \A j \in (m + 1)..n : EndAt(j) # None => \E i \in 1..Len(es) : es[i].tick = EndAt(j)
  BY <1>2 DEF EndsToCome
<1>7. ASSUME NEW j \in (m + 1)..q
      PROVE  EndAt(j) = None
  <2> SUFFICES ASSUME EndAt(j) # None PROVE FALSE
    OBVIOUS
  <2>1. j \in 1..n /\ j \in (m + 1)..n /\ j < q + 1
    BY <1>3
  <2>2. EndAt(j) < played[q + 1].shown /\ EndAt(j) \in Nat
    BY <1>1, <1>5, <2>1, InTurn, EndAtType
  <2>3. PICK i \in 1..Len(es) : es[i].tick = EndAt(j)
    BY <1>6, <2>1
  <2>4. 1 \in 1..Len(es) /\ es # <<>> /\ Head(es) = es[1] /\ es[1] \in End
    BY <1>0
  <2>5. es[1].tick \in Nat /\ es[1].tick >= b.tick
    BY <2>4 DEF End
  <2>6. es[1].tick <= es[i].tick
    <3>1. CASE i = 1
      BY <2>5, <3>1
    <3>2. CASE 1 < i
      BY <1>6, <2>2, <2>3, <2>4, <2>5, <3>2 DEF Rises
    <3> QED BY <3>1, <3>2
  <2> QED BY <1>4, <1>5, <2>2, <2>3, <2>5, <2>6
<1> DEFINE new == IF op = None THEN rs ELSE Append(rs, op)
<1>8. new \in Seq(Round) /\ Merged(new) = q /\ AllFromRecording(new)
  BY <1>7, OpenMerged
<1> HIDE DEF new
<1> DEFINE left == Tail(ss)
<1>9. Len(left) = Len(ss) - 1 /\ \A i \in 1..Len(left) : left[i] = ss[i + 1] /\ i + 1 \in 1..Len(ss)
  BY <1>0
<1> HIDE DEF left
<1>10. Passed(left) = q + 1
  BY <1>0, <1>9 DEF Passed
<1>11. OpenIsNext(new, Started(b), left)
  <2>1. Started(b) \in Round /\ Started(b).start = b.tick /\ Started(b).end = None
    BY StartedType
  <2>2. Started(b).number = b.number
    BY DEF Started, Unstarted
  <2>3. Started(b) # None
    BY <2>1, RoundsAssumption
  <2> QED BY <1>4, <1>5, <1>8, <1>10, <2>1, <2>2, <2>3 DEF OpenIsNext
<1>12. EndsToCome(new, es)
  <2>1. ASSUME NEW i \in 1..Len(es)
        PROVE  \E j \in (q + 1)..n : es[i].tick = EndAt(j)
    <3>1. PICK j \in (m + 1)..n : es[i].tick = EndAt(j)
      BY <1>6
    <3>2. es[i] \in End /\ es[i].tick # None
      <4>1. es[i] \in End
        OBVIOUS
      <4> QED BY <4>1, NoneNoNat DEF End
    <3>3. j \notin (m + 1)..q
      BY <1>7, <3>1, <3>2
    <3>4. j \in (q + 1)..n
      BY <1>3, <3>3
    <3> QED BY <3>1, <3>4
  <2>2. \A j \in (q + 1)..n : j \in (m + 1)..n
    BY <1>3
  <2> QED BY <1>6, <1>8, <2>1, <2>2 DEF EndsToCome
<1>13. ASSUME NEW i \in 1..Len(left)
       PROVE  left[i] = Mark((q + 1) + i)
  <2>1. left[i] = ss[i + 1] /\ i + 1 \in 1..Len(ss) /\ q + (i + 1) = (q + 1) + i
    BY <1>9
  <2> QED BY <1>2, <2>1
<1>14. q <= n
  BY <1>3
<1> QED BY <1>8, <1>10, <1>11, <1>12, <1>13, <1>14 DEF Merging, new, left

LEMMA KeepMerges ==
  ASSUME Recorded, NEW rs \in Seq(Round), NEW op \in Round \cup {None}, Merging(rs, op, <<>>, <<>>)
  PROVE  AllMerged(IF op = None THEN rs ELSE Append(rs, op))
<1>1. Passed(<<>>) = Len(played)
  BY InTurn DEF Passed
<1>2. \A j \in (Merged(rs) + 1)..Len(played) : EndAt(j) = None
  BY DEF Merging, EndsToCome
<1>3. <<>> \in Seq(Start) /\ <<>> \in Seq(End)
  OBVIOUS
<1> DEFINE new == IF op = None THEN rs ELSE Append(rs, op)
<1>4. new \in Seq(Round) /\ Merged(new) = Passed(<<>>) /\ AllFromRecording(new)
  BY <1>1, <1>2, <1>3, OpenMerged
<1> QED BY <1>1, <1>4 DEF AllMerged

-----------------------------------------------------------------------------
(* The rounds found are those played                                       *)

\* All rounds but a joined one without an end are to be found, in their order.
LEMMA FoundAre ==
  ASSUME Recorded
  PROVE  /\ Len(ToFind) = Len(played) - Skipped
         /\ \A i \in 1..(Len(played) - Skipped) : ToFind[i] = played[Skipped + i]
         /\ Found = (Skipped + 1)..Len(played)
         /\ \A p \in Found : FoundBy(p) = p - Skipped
<1> PICK n \in Nat : n = Len(played)
  BY InTurn
<1>0. played \in Seq(Played) /\ DOMAIN played = 1..n /\ (n # 0 <=> played # <<>>)
  BY InTurn
<1> PICK s \in {0, 1} : s = Skipped
  BY DEF Skipped
<1>1. s <= n /\ (s = 1 => ~played[1].heard /\ EndAt(1) = None)
      /\ (s = 0 /\ n # 0 => played[1].heard \/ EndAt(1) # None)
  BY <1>0 DEF Skipped
<1>2. Found = (s + 1)..n
  <2>1. ASSUME NEW p \in 1..n
        PROVE  p \in Found <=> p \in (s + 1)..n
    <3>1. p \in Found <=> played[p].heard \/ EndAt(p) # None
      BY <1>0 DEF Found, EndAt
    <3>2. CASE p = 1
      BY <1>1, <3>1, <3>2
    <3>3. CASE p > 1
      BY <3>1, <3>3, InTurn
    <3> QED BY <3>2, <3>3
  <2>2. Found \subseteq 1..n /\ (s + 1)..n \subseteq 1..n
    BY <1>0 DEF Found
  <2> QED BY <2>1, <2>2
<1>3. Cardinality(Found) = n - s
  <2>1. s + 1 \in Int /\ n \in Int
    OBVIOUS
  <2>2. Cardinality((s + 1)..n) = IF s + 1 > n THEN 0 ELSE n - (s + 1) + 1
    BY <2>1, FS_Interval
  <2> QED BY <1>1, <1>2, <2>2
<1>4. ASSUME NEW p \in Found
      PROVE  FoundBy(p) = p - s
  <2>1. {q \in Found : q <= p} = (s + 1)..p
    BY <1>2
  <2>2. s + 1 \in Int /\ p \in Int /\ s + 1 <= p
    BY <1>2
  <2>3. Cardinality((s + 1)..p) = IF s + 1 > p THEN 0 ELSE p - (s + 1) + 1
    BY <2>2, FS_Interval
  <2>4. p - (s + 1) + 1 = p - s /\ ~(s + 1 > p)
    BY <2>2
  <2>5. FoundBy(p) = Cardinality((s + 1)..p)
    BY <2>1 DEF FoundBy
  <2> QED BY <2>3, <2>4, <2>5
<1>5. ASSUME NEW i \in 1..(n - s)
      PROVE  (CHOOSE p \in Found : FoundBy(p) = i) = s + i
  <2>1. s + i \in Found
    BY <1>2
  <2>2. FoundBy(s + i) = i
    BY <1>4, <2>1
  <2>3. \A p \in Found : FoundBy(p) = i => p = s + i
    BY <1>2, <1>4
  <2> QED BY <2>1, <2>2, <2>3
<1>6. ToFind = [i \in 1..(n - s) |-> played[CHOOSE p \in Found : FoundBy(p) = i]]
  BY <1>3 DEF ToFind
<1>7. n - s \in Nat
  BY <1>1
<1>8. Len(ToFind) = n - s
  BY <1>6, <1>7
<1>9. \A i \in 1..(n - s) : ToFind[i] = played[s + i]
  BY <1>5, <1>6
<1> QED BY <1>2, <1>4, <1>8, <1>9

\* Each round has its number, or the one before the next.
LEMMA NumbersAll ==
  ASSUME Recorded, NEW rs \in Seq(Round), AllMerged(rs)
  PROVE  AllNumbered([i \in 1..Len(rs) |-> [rs[i] EXCEPT !.number = NumberOf(rs, i)]])
<1> PICK n \in Nat : n = Len(played)
  BY InTurn
<1> PICK s \in {0, 1} : s = Skipped
  BY DEF Skipped
<1>1. Len(rs) \in Nat /\ Len(rs) + s = n
  BY DEF AllMerged, Merged
<1>2. \A i \in 1..Len(rs) : rs[i] \in Round /\ FromRecording(rs[i], s + i) /\ s + i \in 1..n
  BY <1>1 DEF AllMerged, AllFromRecording
<1>3. \A j \in 1..n : played[j].number \in Nat /\ played[j].number # None
  BY InTurn, PlayedType, NoneNoNat
<1> DEFINE new == [i \in 1..Len(rs) |-> [rs[i] EXCEPT !.number = NumberOf(rs, i)]]
<1>4. Len(new) = Len(rs) /\ \A i \in 1..Len(rs) : new[i] = [rs[i] EXCEPT !.number = NumberOf(rs, i)]
  BY <1>1
<1> HIDE DEF new
<1>5. ASSUME NEW i \in 1..Len(rs)
      PROVE  /\ new[i].end = rs[i].end /\ new[i].start = rs[i].start
             /\ new[i].number = NumberOf(rs, i)
  BY <1>2, <1>4 DEF Round
<1>6. ASSUME NEW i \in 1..Len(rs)
      PROVE  /\ new[i].end = EndAt(s + i)
             /\ IF played[s + i].heard
                  THEN new[i].start = played[s + i].shown /\ new[i].number = played[s + i].number
                  ELSE new[i].start = None /\ new[i].number = Guess
  <2>1. CASE played[s + i].heard
    <3>1. rs[i].number = played[s + i].number /\ rs[i].start = played[s + i].shown
          /\ rs[i].end = EndAt(s + i)
      BY <1>2, <2>1 DEF FromRecording
    <3>2. NumberOf(rs, i) = rs[i].number
      BY <1>2, <1>3, <3>1 DEF NumberOf
    <3> QED BY <1>5, <2>1, <3>1, <3>2
  <2>2. CASE ~played[s + i].heard
    <3>1. rs[i].number = None /\ rs[i].start = None /\ rs[i].end = EndAt(s + i)
      BY <1>2, <2>2 DEF FromRecording
    <3>2. s = 0 /\ i = 1
      BY <1>1, <1>2, <2>2, InTurn
    <3>3. CASE n > 1
      <4>1. 2 \in 1..Len(rs) /\ 1 < Len(rs) /\ s + 2 = 2 /\ 2 \in 1..n
        BY <1>1, <3>2, <3>3
      <4>2. FromRecording(rs[2], 2) /\ played[2].heard
        BY <1>2, <4>1, InTurn
      <4>3. rs[2].number = played[2].number /\ rs[2].number # None
        BY <1>3, <4>1, <4>2 DEF FromRecording
      <4>4. NumberOf(rs, 1) = rs[2].number - 1
        BY <3>1, <3>2, <4>1, <4>3 DEF NumberOf
      <4> QED BY <1>5, <2>2, <3>1, <3>2, <3>3, <4>3, <4>4 DEF Guess
    <3>4. CASE ~(n > 1)
      <4>1. Len(rs) = 1
        <5>1. Len(rs) >= 1 /\ Len(rs) = n
          BY <1>1, <3>2
        <5>2. n <= 1
          BY <3>4
        <5> QED BY <1>1, <5>1, <5>2
      <4>2. NumberOf(rs, 1) = 1
        BY <3>1, <3>2, <4>1 DEF NumberOf
      <4> QED BY <1>5, <2>2, <3>1, <3>2, <3>4, <4>2 DEF Guess
    <3> QED BY <3>3, <3>4
  <2> QED BY <2>1, <2>2
<1>7. Merged(new) = n
  BY <1>1, <1>4 DEF Merged
<1>8. AllNumbered(new)
  BY <1>4, <1>6, <1>7 DEF AllNumbered
<1> QED BY <1>8 DEF new

\* The first round's start is its own freeze time, when that was recorded.
LEMMA StartsAll ==
  ASSUME rec \in Recording, Recorded, NEW rs \in Seq(Round), AllNumbered(rs)
  PROVE  AsPlayed(IF rs # <<>> /\ rs[1].start = None
                    THEN [rs EXCEPT ![1].start = FirstFreeze(rs[1])] ELSE rs)
<1> PICK n \in Nat : n = Len(played)
  BY InTurn
<1> PICK s \in {0, 1} : s = Skipped
  BY DEF Skipped
<1>1. Len(rs) \in Nat /\ Len(rs) + s = n /\ n = Len(played)
  BY DEF AllNumbered, Merged
<1>2. \A i \in 1..Len(rs) :
        /\ s + i \in 1..n /\ rs[i].end = EndAt(s + i)
        /\ IF played[s + i].heard
             THEN rs[i].start = played[s + i].shown /\ rs[i].number = played[s + i].number
             ELSE rs[i].start = None /\ rs[i].number = Guess
  BY <1>1 DEF AllNumbered
<1>3. /\ played \in Seq(Played)
      /\ \A j \in 1..n : /\ j > 1 => played[j].heard
                         /\ played[j].heard => played[j].shown \in Nat /\ played[j].shown # None
  BY InTurn, NoneNoNat
<1>4. ASSUME \A i \in 1..Len(rs) : played[s + i].heard
      PROVE  AsPlayed(rs) /\ ~(rs # <<>> /\ rs[1].start = None)
  <2>1. AsPlayed(rs)
    BY <1>1, <1>2, <1>4 DEF AsPlayed, Merged
  <2>2. rs # <<>> => 1 \in 1..Len(rs)
    BY <1>1
  <2> QED BY <1>2, <1>3, <1>4, <2>1, <2>2
<1>5. CASE \E i \in 1..Len(rs) : ~played[s + i].heard
  <2>1. s = 0 /\ 1 \in 1..Len(rs) /\ ~played[1].heard /\ n = Len(rs) /\ n >= 1
        /\ played # <<>>
    <3>1. PICK i \in 1..Len(rs) : ~played[s + i].heard
      BY <1>5
    <3>2. s + i \in 1..n /\ ~(s + i > 1)
      BY <1>2, <1>3, <3>1
    <3>3. s = 0 /\ i = 1
      BY <1>1, <3>2
    <3>4. played # <<>>
      BY <1>3, <3>2
    <3> QED BY <1>1, <3>1, <3>3, <3>4
  <2>2. /\ rs # <<>> /\ rs[1].start = None /\ rs[1].number = Guess /\ rs[1].end = EndAt(1)
        /\ rs[1] \in Round
    BY <1>2, <2>1
  <2>3. EndAt(1) # None /\ EndAt(1) \in Nat /\ played[1] \in Played /\ EndAt(1) = played[1].end
    <3>1. EndAt(1) # None
      BY <1>1, <2>1 DEF Skipped
    <3> QED BY <1>3, <2>1, <3>1, EndAtType
  <2>4. /\ played[1].shown \in Nat \cup {None} /\ played[1].number \in Nat
        /\ n >= 2 => played[2].number \in Nat /\ played[2].shown \in Nat /\ played[2].heard
                     /\ EndAt(1) < played[2].shown
    BY <1>3, <2>1, <2>3, PlayedType, InTurn
  <2> PICK f : f = FirstFreeze(rs[1])
    OBVIOUS
  <2>5. f \in {None, played[1].shown}
    <3>1. CASE played[1].shown # None
      <4>1. rec.freezes # <<>> /\ rec.freezes[1] = Mark(1)
        BY <1>1, <2>1, <3>1 DEF Recorded, FreezeRecorded
      <4>2. rec.freezes[1].tick = played[1].shown
        BY <4>1 DEF Mark
      <4> QED BY <4>2 DEF FirstFreeze
    <3>2. CASE played[1].shown = None /\ n = 1
      <4>1. rec.freezes = <<>>
        BY <1>1, <3>2 DEF Recorded, FreezeRecorded
      <4> QED BY <4>1 DEF FirstFreeze
    <3>3. CASE played[1].shown = None /\ n # 1
      <4>1. n >= 2 /\ rec.freezes[1] = Mark(2)
        BY <1>1, <2>1, <3>3 DEF Recorded, FreezeRecorded
      <4>2. rec.freezes[1].tick = played[2].shown
        BY <4>1 DEF Mark
      <4>3. ~(rec.freezes[1].tick <= rs[1].end)
        BY <2>2, <2>3, <2>4, <4>1, <4>2
      <4> QED BY <2>2, <2>3, <4>3 DEF FirstFreeze
    <3> QED BY <3>1, <3>2, <3>3
  <2>6. ASSUME n > 1, played[2].number = played[1].number + 1
        PROVE  Guess = played[1].number /\ f = played[1].shown
    <3>1. Guess = played[1].number
      BY <1>1, <2>4, <2>6 DEF Guess
    <3>2. CASE played[1].shown = None
      BY <2>5, <3>1, <3>2
    <3>3. CASE played[1].shown # None
      <4>1. rec.freezes # <<>> /\ rec.freezes[1] = Mark(1)
        BY <1>1, <2>1, <3>3 DEF Recorded, FreezeRecorded
      <4>2. rec.freezes[1].tick = played[1].shown /\ rec.freezes[1].number = played[1].number
        BY <4>1 DEF Mark
      <4>3. played[1].shown < EndAt(1)
        BY <1>1, <2>1, <2>3, <3>3, NoneNoNat DEF Recorded, PlayedInTurn
      <4>4. played[1].shown <= rs[1].end
        BY <2>2, <2>3, <2>4, <3>3, <4>3
      <4> QED BY <2>2, <3>1, <4>1, <4>2, <4>4 DEF FirstFreeze
    <3> QED BY <3>1, <3>2, <3>3
  <2>7. f \in Nat \cup {None}
    BY <2>4, <2>5
  <2> DEFINE r == [rs[1] EXCEPT !.start = f]
             new == [rs EXCEPT ![1] = r]
  <2>8. r.start = f /\ r.end = rs[1].end /\ r.number = rs[1].number
    BY <2>2 DEF Round
  <2>9. new = [rs EXCEPT ![1].start = FirstFreeze(rs[1])]
    OBVIOUS
  <2> HIDE DEF r
  <2>10. Len(new) = Len(rs) /\ new[1] = r /\ \A i \in 2..Len(rs) : new[i] = rs[i]
    BY <2>1
  <2> HIDE DEF new
  <2>11. ASSUME NEW i \in 1..Len(new)
         PROVE  LET p == played[s + i]
                IN /\ new[i].end = EndAt(s + i)
                   /\ IF p.heard THEN new[i].start = p.shown /\ new[i].number = p.number
                      ELSE /\ i = 1 /\ s = 0 /\ new[i].start \in {None, p.shown}
                           /\ Len(new) > 1 /\ played[2].number = p.number + 1 =>
                                new[i].number = p.number /\ new[i].start = p.shown
    <3>1. CASE i = 1
      <4>1. s + i = 1 /\ new[i] = r
        BY <2>1, <2>10, <3>1
      <4> QED BY <2>1, <2>2, <2>5, <2>6, <2>8, <2>10, <3>1, <4>1
    <3>2. CASE i \in 2..Len(rs)
      <4>1. new[i] = rs[i] /\ i \in 1..Len(rs) /\ s + i > 1 /\ s + i \in 1..n
        BY <1>1, <2>10, <3>2
      <4>2. played[s + i].heard
        BY <4>1, InTurn
      <4> QED BY <1>2, <4>1, <4>2
    <3> QED BY <1>1, <2>10, <3>1, <3>2
  <2>12. Merged(new) = n
    BY <1>1, <2>10 DEF Merged
  <2>13. AsPlayed(new)
    BY <1>1, <2>11, <2>12 DEF AsPlayed
  <2> QED BY <2>2, <2>9, <2>13
<1> QED BY <1>4, <1>5

LEMMA AsPlayedShows ==
  ASSUME Recorded, rounds \in Seq(Round), AsPlayed(rounds)
  PROVE  RoundsAsPlayed
<1> PICK n \in Nat : n = Len(played)
  BY InTurn
<1> PICK s \in {0, 1} : s = Skipped
  BY DEF Skipped
<1>1. /\ Len(ToFind) = n - s /\ Len(rounds) + s = n
      /\ \A i \in 1..(n - s) : ToFind[i] = played[s + i]
  BY FoundAre DEF AsPlayed, Merged
<1>2. ASSUME NEW i \in 1..Len(rounds)
      PROVE  LET p == ToFind[i]
                 r == rounds[i]
             IN /\ r.end = RecordedEnd(p)
                /\ p.heard => r.number = p.number /\ r.start = p.shown
                /\ ~p.heard => i = 1 /\ r.start \in {None, p.shown}
                /\ ~p.heard /\ Len(rounds) > 1 /\ ToFind[2].number = p.number + 1
                     => r.number = p.number /\ r.start = p.shown
  <2> DEFINE p == played[s + i]
             r == rounds[i]
  <2>1. ToFind[i] = p
    BY <1>1
  <2>2. r.end = RecordedEnd(p)
    BY DEF AsPlayed, EndAt
  <2>3. CASE p.heard
    BY <2>1, <2>2, <2>3 DEF AsPlayed
  <2>4. CASE ~p.heard
    <3>1. /\ i = 1 /\ s = 0 /\ r.start \in {None, p.shown}
          /\ Len(rounds) > 1 /\ played[2].number = p.number + 1 =>
               r.number = p.number /\ r.start = p.shown
      BY <2>4 DEF AsPlayed
    <3>2. Len(rounds) > 1 => ToFind[2] = played[2]
      BY <1>1, <3>1
    <3> QED BY <2>1, <2>2, <2>4, <3>1, <3>2
  <2> QED BY <2>3, <2>4
<1>3. Len(rounds) = Len(ToFind)
  <2>1. Len(rounds) \in Int
    BY <1>1 DEF AsPlayed, Merged
  <2> QED BY <1>1, <2>1
<1> QED BY <1>2, <1>3 DEF RoundsAsPlayed

-----------------------------------------------------------------------------
(* --last-round                                                            *)

LEMMA Least ==
  ASSUME NEW S \in SUBSET Nat, S # {}
  PROVE  \E x \in S : \A y \in S : x <= y
<1> DEFINE less == OpToRel(<, Nat)
<1>1. IsWellFoundedOn(less, Nat)
  BY NatLessThanWellFounded
<1>2. \A i, j \in Nat : i < j => <<i, j>> \in less
  BY DEF OpToRel
<1> HIDE DEF less
<1>3. S \subseteq Nat /\ S # {}
  OBVIOUS
<1>4. PICK x \in S : \A y \in S : ~(<<y, x>> \in less)
  BY <1>1, <1>3, WFMin
<1>5. \A y \in S : x <= y
  <2> SUFFICES ASSUME NEW y \in S PROVE x <= y
    OBVIOUS
  <2>1. ~(y < x) /\ x \in Nat /\ y \in Nat
    BY <1>2, <1>4
  <2> QED BY <2>1
<1> QED BY <1>5

LEMMA SameFound ==
  ASSUME UNCHANGED <<rec, played>>
  PROVE  ToFind' = ToFind /\ Numbered' = Numbered /\ Rising' = Rising
<1>1. \A p : RecordedEnd(p)' = RecordedEnd(p)
  BY DEF RecordedEnd
<1>2. Found' = Found
  BY <1>1 DEF Found, RecordedEnd
<1>3. ToFind' = ToFind
  BY <1>2 DEF ToFind, FoundBy
<1> QED BY <1>3 DEF Numbered, Rising

\* What AsPlayed says of the numbers and starts when they are known.
LEMMA NumbersKnown ==
  ASSUME Recorded, rounds \in Seq(Round), AsPlayed(rounds), Numbered
  PROVE  /\ Len(ToFind) = Len(rounds)
         /\ \A i \in 1..Len(rounds) :
              /\ rounds[i].number = ToFind[i].number /\ ToFind[i].number \in Nat
              /\ ToFind[i].end \in Nat \cup {None}
              /\ i > 1 => rounds[i].start = ToFind[i].shown /\ ToFind[i].shown \in Nat
         /\ \A i, j \in 1..Len(rounds) : i < j =>
              /\ i > 1 => ToFind[i].shown < ToFind[j].shown
              /\ ToFind[i].end # None => ToFind[i].end < ToFind[j].shown
<1> PICK n \in Nat : n = Len(played)
  BY InTurn
<1> PICK s \in {0, 1} : s = Skipped
  BY DEF Skipped
<1>1. /\ Len(ToFind) = n - s /\ Len(rounds) + s = n /\ Len(rounds) \in Nat
      /\ \A i \in 1..(n - s) : ToFind[i] = played[s + i]
  BY FoundAre DEF AsPlayed, Merged
<1>2. played \in Seq(Played)
  BY InTurn
<1>3. Len(ToFind) = Len(rounds)
  BY <1>1
<1>4. ASSUME NEW i \in 1..Len(rounds)
      PROVE  /\ s + i \in 1..n /\ ToFind[i] = played[s + i]
             /\ played[s + i].number \in Nat /\ played[s + i].end \in Nat \cup {None}
  <2>1. s + i \in 1..n /\ i \in 1..(n - s)
    BY <1>1
  <2> QED BY <1>1, <1>2, <2>1, PlayedType
<1>5. ASSUME NEW i \in 1..Len(rounds)
      PROVE  /\ rounds[i].number = ToFind[i].number
             /\ i > 1 => rounds[i].start = ToFind[i].shown /\ ToFind[i].shown \in Nat
  <2>1. CASE played[s + i].heard
    <3>1. rounds[i].start = played[s + i].shown /\ rounds[i].number = played[s + i].number
      BY <2>1 DEF AsPlayed
    <3>2. played[s + i].shown \in Nat
      BY <1>4, <2>1, InTurn
    <3> QED BY <1>4, <3>1, <3>2
  <2>2. CASE ~played[s + i].heard
    <3>1. /\ i = 1 /\ s = 0
          /\ Len(rounds) > 1 /\ played[2].number = played[1].number + 1 =>
               rounds[1].number = played[1].number
      BY <2>2 DEF AsPlayed
    <3>2. ~ToFind[1].heard /\ Len(ToFind) > 0
      BY <1>1, <1>3, <1>4, <2>2, <3>1
    <3>3. Len(ToFind) > 1 /\ ToFind[2].number = ToFind[1].number + 1
      BY <3>2 DEF Numbered
    <3>4. 2 \in 1..Len(rounds) /\ ToFind[2] = played[2] /\ ToFind[1] = played[1]
      BY <1>1, <1>3, <1>4, <3>1, <3>3
    <3> QED BY <1>3, <3>1, <3>3, <3>4
  <2> QED BY <2>1, <2>2
<1>6. ASSUME NEW i \in 1..Len(rounds), NEW j \in 1..Len(rounds), i < j
      PROVE  /\ i > 1 => ToFind[i].shown < ToFind[j].shown
             /\ ToFind[i].end # None => ToFind[i].end < ToFind[j].shown
  <2>1. s + i \in 1..n /\ s + j \in 1..n /\ s + i < s + j /\ (i > 1 => s + i > 1)
    BY <1>4, <1>6
  <2>2. /\ played[s + i].end # None => played[s + i].end < played[s + j].shown
        /\ i > 1 => played[s + i].shown < played[s + j].shown
    <3>1. i > 1 => played[s + i].heard
      BY <2>1, InTurn
    <3> QED BY <2>1, <3>1, InTurn DEF Recorded, PlayedInTurn
  <2> QED BY <1>4, <2>2
<1> QED BY <1>3, <1>4, <1>5, <1>6

\* The cut falls on the first round numbered after the last one asked for.
LEMMA CutKeeps ==
  ASSUME MInv, on, CutAfter, UNCHANGED match
  PROVE  KeptAsAsked'
<1> SUFFICES ASSUME pc' = "done", rec.last # None, Numbered
             PROVE  \A i \in 1..Len(ToFind) :
                      IF ToFind[i].number > rec.last THEN cut' # None /\ cut' <= ToFind[i].shown
                      ELSE Rising => /\ i <= Len(rounds')
                                     /\ cut' # None => ToFind[i].end = None \/ ToFind[i].end < cut'
  <2>1. UNCHANGED <<rec, played>>
    BY DEF CutAfter, match
  <2>2. ToFind' = ToFind /\ Numbered' = Numbered /\ Rising' = Rising
    BY <2>1, SameFound
  <2> QED BY <2>1, <2>2 DEF KeptAsAsked
<1>1. /\ Recorded /\ rounds \in Seq(Round) /\ AsPlayed(rounds) /\ cut = None
      /\ rec.last \in Nat
  BY DEF MInv, DeriveInv, TypeOK, Recording, CutAfter
<1> PICK n \in Nat : n = Len(rounds) /\ n = Len(ToFind)
  BY <1>1, NumbersKnown
<1> PICK last \in Nat : last = rec.last
  BY <1>1
<1>2. \A i \in 1..n :
        /\ rounds[i].number = ToFind[i].number /\ ToFind[i].number \in Nat
        /\ ToFind[i].end \in Nat \cup {None}
        /\ i > 1 => rounds[i].start = ToFind[i].shown /\ ToFind[i].shown \in Nat
  BY <1>1, NumbersKnown
<1>3. \A i, j \in 1..n : i < j =>
        /\ i > 1 => ToFind[i].shown < ToFind[j].shown
        /\ ToFind[i].end # None => ToFind[i].end < ToFind[j].shown
  BY <1>1, NumbersKnown
<1>4. CASE FirstAfter(rounds, last) = {} /\ UNCHANGED <<rounds, cut>>
  <2>1. ASSUME NEW i \in 1..n, ToFind[i].number > last
        PROVE  FALSE
    <3> DEFINE after == {k \in 1..n : rounds[k].number > last}
    <3>1. i \in after /\ after \in SUBSET Nat
      BY <1>2, <2>1
    <3>2. PICK k \in after : \A y \in after : k <= y
      BY <3>1, Least
    <3>3. \A y \in 1..(k - 1) : rounds[y].number <= last
      BY <1>2, <3>2
    <3>4. k \in FirstAfter(rounds, last)
      BY <3>2, <3>3, NoneNoNat DEF FirstAfter
    <3> QED BY <1>4, <3>4
  <2>2. ASSUME NEW i \in 1..Len(ToFind)
        PROVE  ~(ToFind[i].number > rec.last) /\ i <= Len(rounds') /\ cut' = None
    <3>0. i \in 1..n /\ rec.last = last
      OBVIOUS
    <3>1. rounds' = rounds /\ cut' = None
      BY <1>1, <1>4
    <3>2. ~(ToFind[i].number > last)
      BY <2>1, <3>0
    <3>3. i <= n
      BY <3>0
    <3>4. n = Len(rounds')
      BY <3>1
    <3> QED BY <3>0, <3>1, <3>2, <3>3, <3>4
  <2> QED BY <2>2
<1>5. CASE \E i \in FirstAfter(rounds, last) : CutAt(i)
  <2> PICK c \in FirstAfter(rounds, last) : CutAt(c)
    BY <1>5
  <2>1. c \in 1..n /\ rounds[c].number > last /\ \A y \in 1..(c - 1) : rounds[y].number <= last
    BY DEF FirstAfter
  <2>2. /\ c > 1 /\ cut' = rounds[c].start /\ rounds' = SubSeq(rounds, 1, c - 1)
    BY DEF CutAt
  <2>3. /\ cut' = ToFind[c].shown /\ cut' \in Nat /\ Len(rounds') = c - 1
    BY <1>1, <1>2, <2>1, <2>2
  <2>4. ASSUME NEW i \in 1..n, ToFind[i].number > last
        PROVE  cut' # None /\ cut' <= ToFind[i].shown
    <3>1. i \notin 1..(c - 1)
      BY <1>2, <2>1, <2>4
    <3>2. i = c \/ c < i
      BY <2>1, <3>1
    <3> QED BY <1>2, <1>3, <2>1, <2>2, <2>3, <3>2, NoneNoNat
  <2>5. ASSUME NEW i \in 1..n, ~(ToFind[i].number > last), Rising
        PROVE  i <= Len(rounds') /\ (ToFind[i].end = None \/ ToFind[i].end < cut')
    <3>1. i < c
      <4> SUFFICES ASSUME c <= i PROVE FALSE
        BY <2>1
      <4> DEFINE falls == {k \in c..n : ~(ToFind[k].number > last)}
      <4>1. i \in falls /\ falls \in SUBSET Nat
        BY <2>1, <2>5
      <4>2. PICK k \in falls : \A y \in falls : k <= y
        BY <4>1, Least
      <4>3. k # c /\ k - 1 \in 1..n /\ k - 1 \in c..n /\ k - 1 \notin falls
        <5>1. k # c
          BY <1>2, <2>1, <4>2
        <5>2. k \in c..n /\ c \in 1..n
          BY <2>1, <4>2
        <5>3. k - 1 \in 1..n /\ k - 1 \in c..n /\ ~(k <= k - 1)
          BY <5>1, <5>2
        <5>4. k - 1 \notin falls
          BY <4>2, <5>3
        <5> QED BY <5>1, <5>3, <5>4
      <4>4. ToFind[k - 1].number > last
        BY <4>3
      <4>5. ToFind[k - 1].number <= ToFind[k].number
        <5>1. k - 1 \in 1..(Len(ToFind) - 1) /\ (k - 1) + 1 = k
          BY <4>2, <4>3
        <5> QED BY <2>5, <5>1 DEF Rising
      <4>6. ToFind[k].number \in Nat /\ ToFind[k - 1].number \in Nat /\ ~(ToFind[k].number > last)
        BY <1>2, <2>1, <4>2, <4>3
      <4> QED BY <4>4, <4>5, <4>6
    <3> QED BY <1>3, <2>1, <2>3, <3>1
  <2> QED BY <2>4, <2>5
<1>6. \/ FirstAfter(rounds, last) = {} /\ UNCHANGED <<rounds, cut>>
      \/ \E i \in FirstAfter(rounds, last) : CutAt(i)
  BY DEF CutAfter
<1> QED BY <1>4, <1>5, <1>6

-----------------------------------------------------------------------------
(* The invariant holds                                                     *)

\* What is said of given rounds and marks does not change while the recording
\* does not.
LEMMA SameMerging ==
  ASSUME UNCHANGED <<rec, played>>, NEW rs, NEW op, NEW ss, NEW es
  PROVE  Merging(rs, op, ss, es)' <=> Merging(rs, op, ss, es)
<1>1. \A j : Mark(j)' = Mark(j) /\ EndAt(j)' = EndAt(j)
  BY SameMarks
<1>2. Joined' = Joined /\ Skipped' = Skipped
  BY SameMarks
<1>3. Merged(rs)' = Merged(rs) /\ Passed(ss)' = Passed(ss)
  BY <1>2 DEF Merged, Passed
<1>4. AllFromRecording(rs)' <=> AllFromRecording(rs)
  BY <1>1, <1>2 DEF AllFromRecording, FromRecording
<1>5. OpenIsNext(rs, op, ss)' <=> OpenIsNext(rs, op, ss)
  BY <1>2, <1>3 DEF OpenIsNext
<1>6. EndsToCome(rs, es)' <=> EndsToCome(rs, es)
  BY <1>1, <1>3 DEF EndsToCome
<1>7. (\A i \in 1..Len(ss) : ss[i] = Mark(Passed(ss) + i))' <=> \A i \in 1..Len(ss) : ss[i] = Mark(Passed(ss) + i)
  BY <1>1, <1>3
<1> QED BY <1>3, <1>4, <1>5, <1>6, <1>7 DEF Merging

LEMMA SameRounds ==
  ASSUME UNCHANGED <<rec, played>>, NEW rs
  PROVE  /\ AllMerged(rs)' <=> AllMerged(rs)
         /\ AllNumbered(rs)' <=> AllNumbered(rs)
         /\ AsPlayed(rs)' <=> AsPlayed(rs)
<1>1. \A j : EndAt(j)' = EndAt(j)
  BY SameMarks
<1>2. Skipped' = Skipped /\ Guess' = Guess
  BY SameMarks DEF Guess
<1>3. Merged(rs)' = Merged(rs)
  BY <1>2 DEF Merged
<1>4. AllFromRecording(rs)' <=> AllFromRecording(rs)
  BY <1>1, <1>2 DEF AllFromRecording, FromRecording
<1>5. AllMerged(rs)' <=> AllMerged(rs)
  BY <1>3, <1>4 DEF AllMerged
<1>6. AllNumbered(rs)' <=> AllNumbered(rs)
  BY <1>1, <1>2, <1>3 DEF AllNumbered
<1>7. AsPlayed(rs)' <=> AsPlayed(rs)
  BY <1>1, <1>2, <1>3 DEF AsPlayed
<1> QED BY <1>5, <1>6, <1>7

\* Each step of derive takes what it has found one step further.
LEMMA DeriveStep ==
  ASSUME MInv, on, Derive, UNCHANGED match
  PROVE  DeriveInv'
<1>1. /\ UNCHANGED <<rec, played>> /\ Recorded /\ DeriveInv
      /\ rec \in Recording /\ starts \in Seq(Start) /\ ends \in Seq(End)
      /\ open \in Round \cup {None} /\ rounds \in Seq(Round)
  BY DEF MInv, TypeOK, Derive, SortEnds, Close, OpenNext, KeepOpen, NumberRounds, StartFirst,
         CutAfter, match
<1> PICK rs, op, ss, es : rs = rounds' /\ op = open' /\ ss = starts' /\ es = ends'
  OBVIOUS
<1>2. CASE SortEnds
  <2>1. /\ pc' = "merge" /\ rounds' = <<>> /\ open' = None /\ starts' = rec.starts /\ cut' = None
    BY <1>1, <1>2 DEF SortEnds, DeriveInv
  <2>2. Merging(rs, op, ss, es)
    BY <1>2, <2>1, SortMerging
  <2>3. Merging(rs, op, ss, es)'
    BY <1>1, <2>2, SameMerging
  <2> QED BY <2>1, <2>3 DEF DeriveInv
<1>3. CASE Close
  <2>1. /\ pc = "merge" /\ pc' = "merge" /\ starts' = starts /\ cut' = cut /\ open' = None
        /\ ends # <<>> /\ (starts # <<>> => Head(ends).tick < Head(starts).tick)
        /\ rounds' = Append(rounds, Ended(IF open = None THEN Unstarted ELSE open, Head(ends)))
        /\ ends' = Tail(ends)
    BY <1>3 DEF Close
  <2>2. Merging(rounds, open, starts, ends) /\ cut = None
    BY <1>1, <2>1 DEF DeriveInv
  <2>3. Merging(rs, op, ss, es)
    BY <1>1, <2>1, <2>2, CloseMerges
  <2>4. Merging(rs, op, ss, es)'
    BY <1>1, <2>3, SameMerging
  <2> QED BY <2>1, <2>2, <2>4 DEF DeriveInv
<1>4. CASE OpenNext
  <2>1. /\ pc = "merge" /\ pc' = "merge" /\ ends' = ends /\ cut' = cut
        /\ starts # <<>> /\ (ends # <<>> => Head(ends).tick >= Head(starts).tick)
        /\ rounds' = IF open = None THEN rounds ELSE Append(rounds, open)
        /\ open' = Started(Head(starts)) /\ starts' = Tail(starts)
    BY <1>4 DEF OpenNext
  <2>2. Merging(rounds, open, starts, ends) /\ cut = None
    BY <1>1, <2>1 DEF DeriveInv
  <2>3. Merging(rs, op, ss, es)
    BY <1>1, <2>1, <2>2, OpenMerges
  <2>4. Merging(rs, op, ss, es)'
    BY <1>1, <2>3, SameMerging
  <2> QED BY <2>1, <2>2, <2>4 DEF DeriveInv
<1>5. CASE KeepOpen
  <2>1. /\ pc = "merge" /\ pc' = "number" /\ cut' = cut /\ starts = <<>> /\ ends = <<>>
        /\ rounds' = IF open = None THEN rounds ELSE Append(rounds, open)
    BY <1>5 DEF KeepOpen
  <2>2. Merging(rounds, open, <<>>, <<>>) /\ cut = None
    BY <1>1, <2>1 DEF DeriveInv
  <2>3. AllMerged(rs)
    BY <1>1, <2>1, <2>2, KeepMerges
  <2>4. AllMerged(rs)'
    BY <1>1, <2>3, SameRounds
  <2> QED BY <2>1, <2>2, <2>4 DEF DeriveInv
<1>6. CASE NumberRounds
  <2>1. /\ pc = "number" /\ pc' = "freeze" /\ cut' = cut
        /\ rounds' = [i \in 1..Len(rounds) |-> [rounds[i] EXCEPT !.number = NumberOf(rounds, i)]]
    BY <1>6 DEF NumberRounds
  <2>2. AllMerged(rounds) /\ cut = None
    BY <1>1, <2>1 DEF DeriveInv
  <2>3. AllNumbered(rs)
    BY <1>1, <2>1, <2>2, NumbersAll
  <2>4. AllNumbered(rs)'
    BY <1>1, <2>3, SameRounds
  <2> QED BY <2>1, <2>2, <2>4 DEF DeriveInv
<1>7. CASE StartFirst
  <2>1. /\ pc = "freeze" /\ pc' = "cut" /\ cut' = cut
        /\ rounds' = IF rounds # <<>> /\ rounds[1].start = None
                       THEN [rounds EXCEPT ![1].start = FirstFreeze(rounds[1])] ELSE rounds
    BY <1>7 DEF StartFirst
  <2>2. AllNumbered(rounds) /\ cut = None
    BY <1>1, <2>1 DEF DeriveInv
  <2>3. AsPlayed(rs)
    BY <1>1, <2>1, <2>2, StartsAll
  <2>4. AsPlayed(rs)'
    BY <1>1, <2>3, SameRounds
  <2> QED BY <2>1, <2>2, <2>4 DEF DeriveInv
<1>8. CASE CutAfter
  <2>1. pc' \in Over
    BY <1>8 DEF CutAfter, CutAt, Over
  <2> QED BY <2>1 DEF DeriveInv, Over
<1> QED BY <1>2, <1>3, <1>4, <1>5, <1>6, <1>7, <1>8 DEF Derive

LEMMA MInvInit == MatchInit => MInv
<1> SUFFICES ASSUME MatchInit PROVE MInv
  OBVIOUS
<1>1. clock = 0 /\ number = 0 /\ on = FALSE /\ played = <<>>
  BY DEF MatchInit
<1>2. CASE Init
  <2>1. TypeOK /\ pc = "sort"
    BY <1>2, RInvInit DEF RInv, Init
  <2> QED BY <1>1, <2>1 DEF MInv, MatchType, KeptAsAsked
<1>3. CASE NothingRecorded
  <2>1. TypeOK
    BY <1>3 DEF NothingRecorded, TypeOK, Recording, Over
  <2> QED BY <1>1, <1>3, <2>1 DEF MInv, MatchType, KeptAsAsked, NothingRecorded
<1> QED BY <1>2, <1>3 DEF MatchInit

LEMMA MInvStep == MInv /\ [MatchNext]_<<vars, match>> => MInv'
<1> SUFFICES ASSUME MInv, [MatchNext]_<<vars, match>> PROVE MInv'
  OBVIOUS
<1>1. CASE BeginRound \/ GoLive \/ EndRound \/ BeginRecording \/ StopRecording
  BY <1>1, MatchStep
<1>2. CASE Derive /\ UNCHANGED match
  <2>1. TypeOK'
    BY <1>2, TypeStep DEF MInv, Next
  <2>2. /\ pc' # "record" /\ rec' = rec /\ UNCHANGED <<clock, phase, number, on, played>>
    BY <1>2 DEF Derive, SortEnds, Close, OpenNext, KeepOpen, NumberRounds, StartFirst, CutAfter,
                CutAt, match
  <2>3. MatchType'
    BY <2>2 DEF MInv, MatchType
  <2>4. on => Recorded'
    BY <2>2, SameRecorded DEF MInv, MatchType
  <2>5. KeptAsAsked'
    <3>1. CASE on /\ CutAfter
      BY <1>2, <3>1, CutKeeps
    <3>2. CASE ~on
      BY <2>2, <3>2 DEF KeptAsAsked
    <3>3. CASE ~CutAfter
      <4>1. pc' # "done"
        BY <1>2, <3>3 DEF Derive, SortEnds, Close, OpenNext, KeepOpen, NumberRounds, StartFirst, MInv, TypeOK
      <4> QED BY <4>1 DEF KeptAsAsked
    <3> QED BY <3>1, <3>2, <3>3
  <2> QED BY <1>2, <2>1, <2>2, <2>3, <2>4, <2>5, DeriveStep DEF MInv
<1>3. CASE UNCHANGED vars /\ UNCHANGED match
  <2>1. UNCHANGED <<rec, starts, ends, open, rounds, pc, cut, clock, phase, number, on, played>>
    BY <1>3 DEF vars, match
  <2>2. TypeOK' /\ MatchType'
    BY <2>1 DEF MInv, TypeOK, MatchType
  <2>3. on => Recorded'
    BY <2>1, SameRecorded DEF MInv, MatchType
  <2>4. DeriveInv <=> DeriveInv'
    <3> PICK rs, op, ss, es : rs = rounds /\ op = open /\ ss = starts /\ es = ends
      OBVIOUS
    <3>1. /\ Merging(rs, op, ss, es)' <=> Merging(rs, op, ss, es)
          /\ AllMerged(rs)' <=> AllMerged(rs)
          /\ AllNumbered(rs)' <=> AllNumbered(rs)
          /\ AsPlayed(rs)' <=> AsPlayed(rs)
      BY <2>1, SameMerging, SameRounds
    <3> QED BY <2>1, <3>1 DEF DeriveInv
  <2>5. KeptAsAsked'
    <3>1. ToFind' = ToFind /\ Numbered' = Numbered /\ Rising' = Rising
      BY <2>1, SameFound
    <3>2. KeptAsAsked
      BY DEF MInv
    <3> QED BY <2>1, <3>1, <3>2 DEF KeptAsAsked
  <2> QED BY <2>1, <2>2, <2>3, <2>4, <2>5 DEF MInv
<1> QED BY <1>1, <1>2, <1>3 DEF MatchNext, Next, Done

\* The ghost changes hands beside the rounds.
LEMMA TakeKeeps ==
  ASSUME MInv, TakeOrDrop
  PROVE  MInv'
<1>1. /\ UNCHANGED <<rec, starts, ends, open, rounds, pc, cut, phase, number, on, played>>
      /\ pc = "record" /\ clock \in Nat /\ clock' \in Nat /\ clock < clock'
  BY Later DEF TakeOrDrop, vars, MInv, MatchType
<1>2. TypeOK' /\ MatchType'
  BY <1>1 DEF MInv, TypeOK, MatchType
<1>3. on => Recorded'
  BY <1>1, SameRecorded DEF MInv
<1>4. DeriveInv' /\ KeptAsAsked'
  BY <1>1 DEF DeriveInv, KeptAsAsked
<1> QED BY <1>1, <1>2, <1>3, <1>4 DEF MInv

\* So do the zones.
LEMMA Beside ==
  ASSUME CapturesNext \/ UNCHANGED <<allVars, capture>>
  PROVE  [MatchNext]_<<vars, match>> \/ TakeOrDrop
BY DEF CapturesNext, CaptureBegins, CaptureEnds, CaptureRecordingBegins, RoundBegins, RoundEnds,
       RecordingBegins, MatchNext, allVars

LEMMA MInvCaptures ==
  /\ CapturesInit => MInv
  /\ MInv /\ [CapturesNext]_<<allVars, capture>> => MInv'
<1>1. CapturesInit => MInv
  BY MInvInit DEF CapturesInit, GhostInit
<1>2. MInv /\ [CapturesNext]_<<allVars, capture>> => MInv'
  BY MInvStep, TakeKeeps, Beside
<1> QED BY <1>1, <1>2

\* In matches of any length, whatever pauses, restarts, joins and cut-offs a
\* recording has, derive finds the rounds that were played, in order, each with
\* its own end, number and start as far as they can be told (rounds.rs:300-372).
THEOREM RoundsFound ==
  /\ MatchSpec => []RoundsAsPlayed
  /\ CapturesSpec => []RoundsAsPlayed
<1>1. MInv => RoundsAsPlayed
  <2> SUFFICES ASSUME MInv, pc = "cut", on PROVE RoundsAsPlayed
    BY DEF RoundsAsPlayed
  <2> QED BY AsPlayedShows DEF MInv, DeriveInv, TypeOK
<1>2. MatchSpec => []RoundsAsPlayed
  BY <1>1, MInvInit, MInvStep, PTL DEF MatchSpec
<1>3. CapturesSpec => []RoundsAsPlayed
  BY <1>1, MInvCaptures, PTL DEF CapturesSpec
<1> QED BY <1>2, <1>3

\* In matches of any length, --last-round keeps no row of a round played after
\* the one asked for, and without a match restart every round up to it, to its
\* end (rounds.rs, cut_after).
THEOREM LastRoundKept ==
  /\ MatchSpec => []KeptAsAsked
  /\ CapturesSpec => []KeptAsAsked
<1>1. MInv => KeptAsAsked
  BY DEF MInv
<1>2. MatchSpec => []KeptAsAsked
  BY <1>1, MInvInit, MInvStep, PTL DEF MatchSpec
<1>3. CapturesSpec => []KeptAsAsked
  BY <1>1, MInvCaptures, PTL DEF CapturesSpec
<1> QED BY <1>2, <1>3

-----------------------------------------------------------------------------
(* The rounds that are left                                                *)

\* The rounds are those played up to the cut, each with its marks.
Left ==
  /\ \A i \in 1..Len(rounds) :
       LET p == played[Skipped + i]
       IN /\ rounds[i].end = EndAt(Skipped + i)
          /\ IF p.heard THEN rounds[i].start = p.shown
             ELSE i = 1 /\ Skipped = 0 /\ rounds[i].start \in {None, p.shown}
  /\ IF cut = None THEN Merged(rounds) = Len(played)
     ELSE 1 <= Merged(rounds) /\ Merged(rounds) < Len(played) /\ cut = played[Merged(rounds) + 1].shown

LeftInv == pc = "done" /\ on => Left

LEMMA CutLeaves ==
  ASSUME MInv, on, CutAfter, UNCHANGED match, pc' = "done"
  PROVE  Left'
<1>1. /\ Recorded /\ rounds \in Seq(Round) /\ AsPlayed(rounds) /\ cut = None
      /\ UNCHANGED <<rec, played>>
  BY DEF MInv, DeriveInv, TypeOK, CutAfter, match
<1>2. \A j : EndAt(j)' = EndAt(j)
  BY <1>1, SameMarks
<1> PICK s \in {0, 1} : s = Skipped /\ s = Skipped'
  BY <1>1, SameMarks DEF Skipped
<1> PICK n \in Nat : n = Len(played) /\ n = Len(played')
  BY <1>1, InTurn
<1> PICK m \in Nat : m = Len(rounds)
  BY <1>1
<1>0. m + s = n
  BY <1>1 DEF AsPlayed, Merged
<1>3. \A i \in 1..m :
        LET p == played[s + i]
        IN /\ rounds[i].end = EndAt(s + i)
           /\ IF p.heard THEN rounds[i].start = p.shown
              ELSE i = 1 /\ s = 0 /\ rounds[i].start \in {None, p.shown}
  BY <1>1 DEF AsPlayed
<1>4. CASE UNCHANGED <<rounds, cut>>
  BY <1>0, <1>1, <1>2, <1>3, <1>4 DEF Left, Merged
<1>5. CASE \E i \in FirstAfter(rounds, rec.last) : CutAt(i)
  <2>1. PICK i \in 1..m : /\ i > 1 /\ rounds[i].start # None /\ cut' = rounds[i].start
                          /\ rounds' = SubSeq(rounds, 1, i - 1)
    BY <1>5 DEF FirstAfter, CutAt
  <2>2. Len(rounds') = i - 1 /\ \A k \in 1..(i - 1) : rounds'[k] = rounds[k]
    BY <1>1, <2>1
  <2>3. cut' # None /\ cut' = played[s + i].shown
    BY <1>3, <2>1
  <2>4. Merged(rounds)' = s + i - 1
    BY <2>1, <2>2 DEF Merged
  <2>5. /\ 1 <= Merged(rounds)' /\ Merged(rounds)' < n /\ Merged(rounds)' + 1 = s + i
    BY <1>0, <2>1, <2>4
  <2>6. \A k \in 1..(i - 1) : k \in 1..m
    BY <2>1
  <2>7. \A k \in 1..Len(rounds') :
          LET p == played'[s + k]
          IN /\ rounds'[k].end = EndAt(s + k)'
             /\ IF p.heard THEN rounds'[k].start = p.shown
                ELSE k = 1 /\ s = 0 /\ rounds'[k].start \in {None, p.shown}
    <3> TAKE k \in 1..Len(rounds')
    <3>1. k \in 1..m /\ rounds'[k] = rounds[k]
      BY <2>2, <2>6
    <3>2. played' = played /\ EndAt(s + k)' = EndAt(s + k)
      BY <1>1, <1>2
    <3> QED BY <1>3, <3>1, <3>2
  <2> QED BY <1>1, <2>3, <2>5, <2>7 DEF Left
<1> QED BY <1>4, <1>5 DEF CutAfter

LEMMA SameLeft ==
  ASSUME UNCHANGED <<rec, played, rounds, cut>>
  PROVE  Left' <=> Left
<1>1. \A j : EndAt(j)' = EndAt(j)
  BY SameMarks
<1>2. Skipped' = Skipped
  BY SameMarks
<1> QED BY <1>1, <1>2 DEF Left, Merged

LEMMA LeftStep ==
  ASSUME MInv, LeftInv, [CapturesNext]_<<allVars, capture>>
  PROVE  LeftInv'
<1> SUFFICES ASSUME pc' = "done", on' PROVE Left'
  BY DEF LeftInv
<1>1. CASE [MatchNext]_<<vars, match>>
  <2>1. CASE BeginRound \/ GoLive \/ EndRound \/ BeginRecording \/ StopRecording
    BY <2>1 DEF BeginRound, GoLive, EndRound, BeginRecording, StopRecording, vars
  <2>2. CASE Derive /\ UNCHANGED match
    <3>1. CutAfter
      BY <2>2 DEF Derive, SortEnds, Close, OpenNext, KeepOpen, NumberRounds, StartFirst, MInv, TypeOK
    <3> QED BY <2>2, <3>1, CutLeaves DEF match
  <2>3. CASE UNCHANGED <<vars, match>>
    BY <2>3, SameLeft DEF LeftInv, vars, match
  <2> QED BY <1>1, <2>1, <2>2, <2>3 DEF MatchNext, Next, Done
<1>2. CASE TakeOrDrop
  BY <1>2 DEF TakeOrDrop, vars
<1> QED BY <1>1, <1>2, Beside

-----------------------------------------------------------------------------
(* Who carried the ghost                                                   *)

CarrierChange == [tick : Nat, entity_id : Nat]
StretchType == [tick : Nat, end_tick : Nat \cup {None}, entity_id : Nat, round : Nat]

GhostType ==
  /\ ghoster \in Nat /\ carrier \in Nat /\ stale \in Nat \cup {None}
  /\ carrier_changes \in Seq(CarrierChange)
  /\ carried \subseteq StretchType

\* The changes of the carrier, of which the last one named the present one.
CarrierKnown ==
  /\ \A i \in 1..Len(carrier_changes) : carrier_changes[i].tick <= clock
  /\ \A i, j \in 1..Len(carrier_changes) : i < j => carrier_changes[i].tick < carrier_changes[j].tick
  /\ IF on THEN /\ carrier = ghoster
                /\ ghoster = IF carrier_changes = <<>> THEN 0
                             ELSE carrier_changes[Len(carrier_changes)].entity_id
     ELSE carrier_changes = <<>> /\ carrier = 0 /\ carried = {} /\ stale = None
  /\ stale # None => stale <= clock
  /\ pc = "record" /\ ghoster # 0 => phase \in {"live", "over"}

NextChange(i) == IF i < Len(carrier_changes) THEN carrier_changes[i + 1].tick ELSE None

\* A stretch that change i began in the p-th round played ends by its end.
StretchEnd(i, p) ==
  IF played[p].end # None /\ (NextChange(i) = None \/ NextChange(i) > played[p].end)
    THEN played[p].end ELSE NextChange(i)

\* The stretch c began with change i, within its round.
Began(c, i) ==
  /\ c.tick = carrier_changes[i].tick /\ c.entity_id = carrier_changes[i].entity_id
  /\ c.round \in 1..Len(played) /\ c.end_tick = StretchEnd(i, c.round)
  /\ played[c.round].shown # None => played[c.round].shown <= c.tick
  /\ played[c.round].end # None => c.tick < played[c.round].end
  /\ c.round < Len(played) => c.tick < played[c.round + 1].shown
  /\ i = Len(carrier_changes) => c.round = Len(played)

\* Every stretch began with a change, and every change to a player began one,
\* but for a stale one.
Stretches ==
  /\ \A c \in carried :
       \E i \in Taken(carrier_changes) : carrier_changes[i].tick # stale /\ Began(c, i)
  /\ \A i \in Taken(carrier_changes) :
       carrier_changes[i].tick # stale => \E c \in carried : c.tick = carrier_changes[i].tick
  /\ LET n == Len(carrier_changes)
     IN pc = "record" /\ phase = "live" /\ n \in Taken(carrier_changes) => carrier_changes[n].tick # stale

GhostInv == GhostType /\ CarrierKnown /\ Stretches

LEMMA ChangeType ==
  ASSUME GhostType
  PROVE  /\ Len(carrier_changes) \in Nat /\ DOMAIN carrier_changes = 1..Len(carrier_changes)
         /\ \A i \in 1..Len(carrier_changes) :
              carrier_changes[i].tick \in Nat /\ carrier_changes[i].entity_id \in Nat
         /\ carrier_changes = <<>> <=> Len(carrier_changes) = 0
<1>1. ASSUME NEW i \in 1..Len(carrier_changes)
      PROVE  carrier_changes[i].tick \in Nat /\ carrier_changes[i].entity_id \in Nat
  <2>1. carrier_changes \in Seq(CarrierChange)
    BY DEF GhostType
  <2>2. carrier_changes[i] \in CarrierChange
    BY <2>1
  <2> QED BY <2>2 DEF CarrierChange
<1> QED BY <1>1 DEF GhostType

\* What apply_rules makes of the changes.
LEMMA RulesApplied ==
  ASSUME GhostType, CarrierKnown, ApplyRules, on', clock \in Nat, clock' \in Nat, clock < clock',
         ghoster' \in Nat
  PROVE  /\ carrier' = ghoster' /\ carrier_changes' \in Seq(CarrierChange)
         /\ ghoster' = carrier => carrier_changes' = carrier_changes
         /\ ghoster' # carrier =>
              /\ Len(carrier_changes') = Len(carrier_changes) + 1
              /\ carrier_changes'[Len(carrier_changes) + 1] = [tick |-> clock', entity_id |-> ghoster']
         /\ \A i \in 1..Len(carrier_changes) : carrier_changes'[i] = carrier_changes[i]
         /\ \A i \in 1..Len(carrier_changes') : carrier_changes'[i].tick <= clock'
         /\ \A i, j \in 1..Len(carrier_changes') :
              i < j => carrier_changes'[i].tick < carrier_changes'[j].tick
<1> DEFINE new == [tick |-> clock', entity_id |-> ghoster']
<1> PICK n \in Nat : n = Len(carrier_changes)
  BY ChangeType
<1>1. new \in CarrierChange /\ new.tick = clock'
  BY DEF CarrierChange
<1>2. \A i \in 1..n : carrier_changes[i].tick \in Nat /\ carrier_changes[i].tick <= clock
  BY ChangeType DEF CarrierKnown
<1>3. \A i, j \in 1..n : i < j => carrier_changes[i].tick < carrier_changes[j].tick
  BY DEF CarrierKnown
<1>4. CASE ghoster' = carrier
  <2>1. carrier' = ghoster' /\ carrier_changes' = carrier_changes
    BY <1>4 DEF ApplyRules
  <2> QED BY <1>2, <1>3, <1>4, <2>1 DEF GhostType
<1>5. CASE ghoster' # carrier
  <2>1. carrier' = ghoster' /\ carrier_changes' = Append(carrier_changes, new)
    BY <1>5 DEF ApplyRules
  <2> HIDE DEF new
  <2>2. /\ carrier_changes' \in Seq(CarrierChange)
        /\ Len(carrier_changes') = n + 1 /\ carrier_changes'[n + 1] = new
        /\ \A i \in 1..n : carrier_changes'[i] = carrier_changes[i]
    BY <1>1, <2>1 DEF GhostType
  <2>3. \A i \in 1..(n + 1) : i \in 1..n \/ i = n + 1
    OBVIOUS
  <2>4. \A i \in 1..(n + 1) : carrier_changes'[i].tick <= clock'
    BY <1>1, <1>2, <2>2, <2>3
  <2>5. ASSUME NEW i \in 1..(n + 1), NEW j \in 1..(n + 1), i < j
        PROVE  carrier_changes'[i].tick < carrier_changes'[j].tick
    <3>1. i \in 1..n
      BY <2>5
    <3>2. CASE j \in 1..n
      BY <1>3, <2>2, <2>5, <3>1, <3>2
    <3>3. CASE j = n + 1
      <4>1. carrier_changes[i].tick \in Nat /\ carrier_changes[i].tick <= clock
        BY <1>2, <3>1
      <4> QED BY <1>1, <2>2, <3>1, <3>3, <4>1
    <3> QED BY <2>3, <3>2, <3>3
  <2> QED BY <1>5, <2>1, <2>2, <2>4, <2>5 DEF new
<1> QED BY <1>4, <1>5

LEMMA NextIs ==
  ASSUME GhostType, CarrierKnown, NEW i \in 1..Len(carrier_changes)
  PROVE  /\ i = Len(carrier_changes) => NextChange(i) = None
         /\ i # Len(carrier_changes) => NextChange(i) \in Nat /\ NextChange(i) <= clock /\ NextChange(i) # None
<1> PICK n \in Nat : n = Len(carrier_changes)
  BY ChangeType
<1>1. CASE i = n
  BY <1>1 DEF NextChange
<1>2. CASE i # n
  <2>1. i + 1 \in 1..n /\ i < n
    BY <1>2
  <2>2. carrier_changes[i + 1].tick \in Nat /\ carrier_changes[i + 1].tick <= clock
    BY <2>1, ChangeType DEF CarrierKnown
  <2> QED BY <1>2, <2>1, <2>2, NoneNoNat DEF NextChange
<1> QED BY <1>1, <1>2

\* The change after next is another when one is appended.
LEMMA NextOf ==
  ASSUME GhostType, NEW i \in 1..Len(carrier_changes),
         \A k \in 1..Len(carrier_changes) : carrier_changes'[k] = carrier_changes[k],
         \/ carrier_changes' = carrier_changes
         \/ /\ Len(carrier_changes') = Len(carrier_changes) + 1
            /\ carrier_changes'[Len(carrier_changes) + 1].tick = clock'
  PROVE  /\ i # Len(carrier_changes) => NextChange(i)' = NextChange(i)
         /\ i = Len(carrier_changes) =>
              NextChange(i)' = IF carrier_changes' = carrier_changes THEN None ELSE clock'
         /\ i = Len(carrier_changes') => i = Len(carrier_changes)
<1> PICK n \in Nat : n = Len(carrier_changes)
  BY ChangeType
<1>1. CASE carrier_changes' = carrier_changes
  BY <1>1 DEF NextChange
<1>2. CASE /\ Len(carrier_changes') = n + 1
           /\ carrier_changes'[n + 1].tick = clock'
  <2>1. i < n => i + 1 \in 1..n /\ i < n + 1
    OBVIOUS
  <2>2. carrier_changes' # carrier_changes
    BY <1>2
  <2> QED BY <1>2, <2>1, <2>2 DEF NextChange
<1> QED BY <1>1, <1>2

\* What a step of the match does to the changes and the rounds.
GhostStep ==
  /\ GhostInv /\ Recorded /\ on /\ on' /\ clock \in Nat /\ clock' \in Nat /\ clock < clock'
  /\ ghoster' \in Nat /\ ApplyRules /\ pc = "record"

LEMMA StepChanges ==
  ASSUME GhostStep, NEW i \in Taken(carrier_changes)
  PROVE  /\ i \in 1..Len(carrier_changes) /\ carrier_changes'[i] = carrier_changes[i]
         /\ i \in Taken(carrier_changes')
         /\ i # Len(carrier_changes) => NextChange(i)' = NextChange(i)
         /\ i = Len(carrier_changes) =>
              /\ ghoster # 0
              /\ NextChange(i)' = IF ghoster' = ghoster THEN None ELSE clock'
         /\ i = Len(carrier_changes') => i = Len(carrier_changes) /\ ghoster' = ghoster
         /\ carrier_changes[i].tick \in Nat /\ carrier_changes[i].tick <= clock
<1> PICK m \in Nat : m = Len(carrier_changes)
  BY ChangeType DEF GhostStep, GhostInv
<1>1. GhostType /\ CarrierKnown /\ carrier = ghoster /\ carrier' = ghoster'
      /\ (m > 0 => ghoster = carrier_changes[m].entity_id)
  BY RulesApplied, ChangeType DEF GhostStep, GhostInv, CarrierKnown
<1>2. i \in 1..m /\ carrier_changes[i].entity_id # 0
  BY <1>1, ChangeType DEF Taken
<1>3. /\ ghoster' = ghoster => carrier_changes' = carrier_changes
      /\ ghoster' # ghoster => Len(carrier_changes') = m + 1 /\ carrier_changes'[m + 1].tick = clock'
                               /\ carrier_changes' # carrier_changes
      /\ \A k \in 1..m : carrier_changes'[k] = carrier_changes[k]
      /\ carrier_changes' \in Seq(CarrierChange)
  <2>1. /\ ghoster' = carrier => carrier_changes' = carrier_changes
        /\ ghoster' # carrier => Len(carrier_changes') = m + 1
             /\ carrier_changes'[m + 1] = [tick |-> clock', entity_id |-> ghoster']
        /\ \A k \in 1..m : carrier_changes'[k] = carrier_changes[k]
        /\ carrier_changes' \in Seq(CarrierChange)
    BY RulesApplied DEF GhostStep, GhostInv
  <2> QED BY <1>1, <2>1
<1>4. i \in Taken(carrier_changes')
  <2>1. DOMAIN carrier_changes' = 1..Len(carrier_changes') /\ Len(carrier_changes') \in {m, m + 1}
    BY <1>3
  <2>2. i \in 1..Len(carrier_changes')
    <3>1. PICK l \in {m, m + 1} : l = Len(carrier_changes')
      BY <2>1
    <3>2. i \in 1..l
      BY <1>2
    <3> QED BY <3>1, <3>2
  <2> QED BY <1>2, <1>3, <2>1, <2>2 DEF Taken
<1>5. /\ i # m => NextChange(i)' = NextChange(i)
      /\ i = m => NextChange(i)' = IF carrier_changes' = carrier_changes THEN None ELSE clock'
      /\ i = Len(carrier_changes') => i = m
  BY <1>1, <1>2, <1>3, NextOf
<1>6. carrier_changes[i].tick \in Nat /\ carrier_changes[i].tick <= clock
  BY <1>1, <1>2, ChangeType DEF CarrierKnown
<1>7. i = Len(carrier_changes') => ghoster' = ghoster
  BY <1>2, <1>3, <1>5
<1> QED BY <1>1, <1>2, <1>3, <1>4, <1>5, <1>6, <1>7

\* A stretch is open only from the last change on, in a round being played.
LEMMA OpenLast ==
  ASSUME GhostStep, NEW i \in Taken(carrier_changes), NEW c \in carried, Began(c, i)
  PROVE  /\ c \in StretchType
         /\ c.end_tick = None <=> i = Len(carrier_changes) /\ played[Len(played)].end = None
         /\ i # Len(carrier_changes) => NextChange(i) \in Nat /\ NextChange(i) <= clock /\ NextChange(i) # None
         /\ c.round \in 1..Len(played) /\ Len(played) \in Nat
         /\ played[c.round].end \in Nat \cup {None} /\ played[c.round].shown \in Nat \cup {None}
         /\ played[c.round].end # None => played[c.round].end <= clock
<1>1. GhostType /\ CarrierKnown /\ played \in Seq(Played) /\ Len(played) \in Nat /\ PlayedInTurn
  BY DEF GhostStep, GhostInv, Recorded, PlayedInTurn
<1>2. /\ c.round \in 1..Len(played) /\ c.end_tick = StretchEnd(i, c.round)
      /\ i = Len(carrier_changes) => c.round = Len(played)
  BY DEF Began
<1>3. played[c.round].end \in Nat \cup {None} /\ played[c.round].shown \in Nat \cup {None}
  BY <1>1, <1>2, PlayedType
<1>4. played[c.round].end # None => played[c.round].end <= clock
  BY <1>1, <1>2 DEF PlayedInTurn
<1>5. /\ i = Len(carrier_changes) => NextChange(i) = None
      /\ i # Len(carrier_changes) => NextChange(i) \in Nat /\ NextChange(i) <= clock /\ NextChange(i) # None
  BY <1>1, StepChanges, NextIs
<1>6. c.end_tick = None <=> i = Len(carrier_changes) /\ played[Len(played)].end = None
  BY <1>2, <1>3, <1>5 DEF StretchEnd
<1> QED BY <1>1, <1>2, <1>3, <1>4, <1>5, <1>6 DEF GhostType

Closed(c) == IF c.end_tick = None THEN [c EXCEPT !.end_tick = clock'] ELSE c

LEMMA ClosedIs ==
  ASSUME NEW c \in StretchType, clock' \in Nat
  PROVE  /\ Closed(c) \in StretchType /\ Closed(c).tick = c.tick /\ Closed(c).entity_id = c.entity_id
         /\ Closed(c).round = c.round
         /\ Closed(c).end_tick = IF c.end_tick = None THEN clock' ELSE c.end_tick
<1>1. CASE c.end_tick = None
  BY <1>1 DEF Closed, StretchType
<1>2. CASE c.end_tick # None
  BY <1>2 DEF Closed
<1> QED BY <1>1, <1>2

\* The ghost changes hands: the stretch that is open ends.
LEMMA TakeBegan ==
  ASSUME GhostStep, UNCHANGED played, ghoster' # ghoster, played[Len(played)].end = None,
         NEW i \in Taken(carrier_changes), NEW c \in carried, Began(c, i), NEW d, d = Closed(c)
  PROVE  Began(d, i)'
<1>1. /\ d.tick = c.tick /\ d.entity_id = c.entity_id /\ d.round = c.round
      /\ d.end_tick = IF c.end_tick = None THEN clock' ELSE c.end_tick
  BY OpenLast, ClosedIs DEF GhostStep
<1>2. d.end_tick = StretchEnd(i, c.round)'
  <2>1. CASE i = Len(carrier_changes)
    <3>1. c.round = Len(played) /\ c.end_tick = None /\ NextChange(i)' = clock'
      BY <2>1, OpenLast, StepChanges DEF Began
    <3> QED BY <1>1, <3>1 DEF StretchEnd
  <2>2. CASE i # Len(carrier_changes)
    <3>1. NextChange(i)' = NextChange(i) /\ c.end_tick # None
      BY <2>2, OpenLast, StepChanges
    <3> QED BY <1>1, <3>1 DEF StretchEnd, Began
  <2> QED BY <2>1, <2>2
<1> QED BY <1>1, <1>2, StepChanges DEF Began

\* A round begins: so it does.
LEMMA BeginBegan ==
  ASSUME GhostStep, ghoster' = 0, Len(played') = Len(played) + 1,
         \A p \in 1..Len(played) : played'[p] = played[p],
         played'[Len(played) + 1].shown = clock',
         NEW i \in Taken(carrier_changes), NEW c \in carried, Began(c, i), NEW d, d = Closed(c)
  PROVE  Began(d, i)'
<1> PICK n \in Nat : n = Len(played)
  BY OpenLast
<1> PICK p \in 1..n : p = c.round
  BY OpenLast
<1>1. /\ d.tick = c.tick /\ d.entity_id = c.entity_id /\ d.round = p
      /\ d.end_tick = IF c.end_tick = None THEN clock' ELSE c.end_tick
  BY OpenLast, ClosedIs DEF GhostStep
<1>2. /\ played'[p] = played[p] /\ (p < n => played'[p + 1] = played[p + 1])
      /\ Len(played') = n + 1 /\ played'[n + 1].shown = clock'
  OBVIOUS
<1>3. d.end_tick = StretchEnd(i, p)'
  <2>1. CASE i = Len(carrier_changes)
    <3>1. p = n /\ (c.end_tick = None <=> played[n].end = None) /\ NextChange(i)' = clock' /\ clock' # None
      BY <2>1, OpenLast, StepChanges, NoneNoNat DEF Began, GhostStep
    <3>2. CASE played[n].end = None
      BY <1>1, <1>2, <3>1, <3>2 DEF StretchEnd
    <3>3. CASE played[n].end # None
      <4>1. c.end_tick = played[n].end
        BY <2>1, <3>1, <3>3, NextIs, StepChanges DEF Began, StretchEnd, GhostStep, GhostInv
      <4>2. clock' > played[n].end
        <5>1. played[n].end \in Nat /\ played[n].end <= clock /\ c.round = n
          BY <3>1, <3>3, OpenLast
        <5>2. clock \in Nat /\ clock' \in Nat /\ clock < clock'
          BY DEF GhostStep
        <5> QED BY <5>1, <5>2
      <4> QED BY <1>1, <1>2, <3>1, <3>3, <4>1, <4>2 DEF StretchEnd
    <3> QED BY <3>2, <3>3
  <2>2. CASE i # Len(carrier_changes)
    <3>1. NextChange(i)' = NextChange(i) /\ c.end_tick # None
      BY <2>2, OpenLast, StepChanges
    <3> QED BY <1>1, <1>2, <3>1 DEF StretchEnd, Began
  <2> QED BY <2>1, <2>2
<1>4. p < n + 1 => d.tick < played'[p + 1].shown
  <2>1. CASE p < n
    BY <1>1, <1>2, <2>1 DEF Began
  <2>2. CASE p = n
    BY <1>1, <1>2, <2>2, StepChanges DEF Began, GhostStep
  <2> QED BY <2>1, <2>2
<1>5. i = Len(carrier_changes') => FALSE
  BY StepChanges
<1>6. p \in 1..Len(played')
  BY <1>2
<1> QED BY <1>1, <1>2, <1>3, <1>4, <1>5, <1>6, StepChanges DEF Began

\* A round ends, and the ghost may be cleared with it.
LEMMA EndBegan ==
  ASSUME GhostStep, ghoster' \in {ghoster, 0}, Len(played') = Len(played), Len(played) > 0,
         \A p \in 1..(Len(played) - 1) : played'[p] = played[p],
         played[Len(played)].end = None, played'[Len(played)].end = clock',
         played'[Len(played)].shown = played[Len(played)].shown,
         NEW i \in Taken(carrier_changes), NEW c \in carried, Began(c, i), NEW d, d = Closed(c)
  PROVE  Began(d, i)'
<1> PICK n \in Nat : n = Len(played)
  BY OpenLast
<1> PICK p \in 1..n : p = c.round
  BY OpenLast
<1>1. /\ d.tick = c.tick /\ d.entity_id = c.entity_id /\ d.round = p
      /\ d.end_tick = IF c.end_tick = None THEN clock' ELSE c.end_tick
  BY OpenLast, ClosedIs DEF GhostStep
<1>2. /\ played'[p].shown = played[p].shown /\ (p < n => played'[p] = played[p])
      /\ p < n => played'[p + 1].shown = played[p + 1].shown
      /\ Len(played') = n /\ clock' # None /\ clock' \in Nat /\ clock \in Nat /\ clock < clock'
  <2>1. p < n => p \in 1..(n - 1)
    OBVIOUS
  <2>2. p < n => p + 1 = n \/ p + 1 \in 1..(n - 1)
    OBVIOUS
  <2>3. p = n \/ p < n
    OBVIOUS
  <2> QED BY <2>1, <2>2, <2>3, NoneNoNat DEF GhostStep
<1>3. d.end_tick = StretchEnd(i, p)'
  <2>1. CASE i = Len(carrier_changes)
    <3>1. p = n /\ c.end_tick = None /\ NextChange(i)' \in {None, clock'}
      BY <2>1, OpenLast, StepChanges DEF Began, GhostStep
    <3> QED BY <1>1, <1>2, <3>1 DEF StretchEnd
  <2>2. CASE i # Len(carrier_changes)
    <3>1. /\ NextChange(i)' = NextChange(i) /\ c.end_tick # None
          /\ NextChange(i) \in Nat /\ NextChange(i) <= clock /\ NextChange(i) # None
      BY <2>2, OpenLast, StepChanges
    <3>2. CASE p < n
      BY <1>1, <1>2, <3>1, <3>2 DEF StretchEnd, Began
    <3>3. CASE p = n
      <4>1. c.end_tick = NextChange(i)
        BY <3>1, <3>3 DEF Began, StretchEnd
      <4>2. ~(NextChange(i) > clock')
        BY <1>2, <3>1
      <4> QED BY <1>1, <1>2, <3>1, <3>3, <4>1, <4>2 DEF StretchEnd
    <3> QED BY <3>2, <3>3
  <2> QED BY <2>1, <2>2
<1>4. played'[p].end # None => d.tick < played'[p].end
  <2>1. CASE p < n
    BY <1>1, <1>2, <2>1 DEF Began
  <2>2. CASE p = n
    <3>1. c.tick \in Nat /\ c.tick <= clock
      BY StepChanges DEF Began
    <3>2. d.tick < clock'
      BY <1>1, <1>2, <3>1
    <3> QED BY <2>2, <3>2
  <2> QED BY <2>1, <2>2
<1> QED BY <1>1, <1>2, <1>3, <1>4, StepChanges DEF Began

LEMMA CarrierKept ==
  ASSUME GhostStep, stale' = stale, ghoster' # 0 => phase' \in {"live", "over"}
  PROVE  CarrierKnown' /\ carrier' \in Nat /\ carrier_changes' \in Seq(CarrierChange)
<1> PICK m \in Nat : m = Len(carrier_changes)
  BY ChangeType DEF GhostStep, GhostInv
<1>1. /\ carrier' = ghoster' /\ carrier_changes' \in Seq(CarrierChange)
      /\ ghoster' = carrier => carrier_changes' = carrier_changes
      /\ ghoster' # carrier =>
           /\ Len(carrier_changes') = m + 1
           /\ carrier_changes'[m + 1] = [tick |-> clock', entity_id |-> ghoster']
      /\ \A i \in 1..Len(carrier_changes') : carrier_changes'[i].tick <= clock'
      /\ \A i, j \in 1..Len(carrier_changes') :
           i < j => carrier_changes'[i].tick < carrier_changes'[j].tick
  BY RulesApplied DEF GhostStep, GhostInv
<1>2. /\ carrier = ghoster /\ (stale # None => stale <= clock) /\ stale \in Nat \cup {None}
      /\ ghoster = IF carrier_changes = <<>> THEN 0 ELSE carrier_changes[Len(carrier_changes)].entity_id
      /\ on' /\ clock \in Nat /\ clock' \in Nat /\ clock < clock' /\ ghoster' \in Nat
  BY DEF GhostStep, GhostInv, CarrierKnown, GhostType
<1>3. ghoster' = IF carrier_changes' = <<>> THEN 0 ELSE carrier_changes'[Len(carrier_changes')].entity_id
  <2>1. CASE ghoster' = carrier
    BY <1>1, <1>2, <2>1
  <2>2. CASE ghoster' # carrier
    <3>1. carrier_changes' # <<>>
      BY <1>1, <2>2
    <3> QED BY <1>1, <2>2, <3>1
  <2> QED BY <2>1, <2>2
<1>4. stale # None => stale <= clock'
  BY <1>2
<1> QED BY <1>1, <1>2, <1>3, <1>4 DEF CarrierKnown

\* The stretches carried stay those of the changes.
LEMMA StretchesKept ==
  ASSUME GhostStep, stale' = stale, phase' = "live" => ghoster' # ghoster,
         NEW new, carried' = EndStretch \cup new, new \subseteq StretchType,
         ghoster' \notin {0, ghoster} => new # {},
         \A e \in new : e.tick = clock' /\ ghoster' \notin {0, ghoster} /\ Began(e, Len(carrier_changes))',
         \A c \in carried, i \in Taken(carrier_changes) :
           Began(c, i) => \A d : d = Closed(c) => Began(d, i)'
  PROVE  carried' \subseteq StretchType /\ Stretches'
<1> PICK m \in Nat : m = Len(carrier_changes)
  BY ChangeType DEF GhostStep, GhostInv
<1>1. /\ carrier_changes' \in Seq(CarrierChange)
      /\ ghoster' = ghoster => carrier_changes' = carrier_changes
      /\ ghoster' # ghoster => Len(carrier_changes') = m + 1 /\
           carrier_changes'[m + 1] = [tick |-> clock', entity_id |-> ghoster']
      /\ \A i \in 1..m : carrier_changes'[i] = carrier_changes[i]
      /\ carrier_changes \in Seq(CarrierChange)
  BY RulesApplied DEF GhostStep, GhostInv, CarrierKnown, GhostType
<1>2. DOMAIN carrier_changes = 1..m /\ DOMAIN carrier_changes' = 1..Len(carrier_changes')
  BY <1>1
<1>3. carried' = {Closed(c) : c \in carried} \cup new
  BY DEF EndStretch, Closed
<1>4. /\ carried \subseteq StretchType /\ clock' \in Nat /\ stale # clock'
  BY NoneNoNat DEF GhostStep, GhostInv, GhostType, CarrierKnown
<1>5. \A c \in carried : Closed(c) \in StretchType /\ Closed(c).tick = c.tick
  BY <1>4, ClosedIs
<1>6. carried' \subseteq StretchType
  BY <1>3, <1>5
<1>7. ASSUME ghoster' \notin {0, ghoster}
      PROVE  /\ Len(carrier_changes') \in Taken(carrier_changes')
             /\ carrier_changes'[Len(carrier_changes')].tick = clock'
  <2>1. /\ Len(carrier_changes') = m + 1
        /\ carrier_changes'[m + 1] = [tick |-> clock', entity_id |-> ghoster']
    BY <1>1, <1>7
  <2>2. m + 1 \in 1..Len(carrier_changes')
    BY <2>1
  <2> QED BY <1>2, <1>7, <2>1, <2>2 DEF Taken
<1>8. ASSUME NEW e \in carried'
      PROVE  \E i \in Taken(carrier_changes') : carrier_changes'[i].tick # stale' /\ Began(e, i)'
  <2>1. CASE e \in new
    BY <1>4, <1>7, <2>1
  <2>2. CASE e \notin new
    <3>1. PICK c \in carried : e = Closed(c)
      BY <1>3, <2>2
    <3>2. PICK i \in Taken(carrier_changes) : carrier_changes[i].tick # stale /\ Began(c, i)
      BY DEF GhostStep, GhostInv, Stretches
    <3>3. i \in Taken(carrier_changes') /\ carrier_changes'[i] = carrier_changes[i]
      BY StepChanges
    <3>4. Began(e, i)'
      BY <3>1, <3>2
    <3> QED BY <3>2, <3>3, <3>4
  <2> QED BY <2>1, <2>2
<1>9. ASSUME NEW i \in Taken(carrier_changes'), carrier_changes'[i].tick # stale'
      PROVE  \E e \in carried' : e.tick = carrier_changes'[i].tick
  <2>1. i \in 1..Len(carrier_changes') /\ carrier_changes'[i].entity_id # 0
    BY <1>2 DEF Taken
  <2>2. CASE i \in 1..m
    <3>1. i \in Taken(carrier_changes) /\ carrier_changes'[i] = carrier_changes[i]
      BY <1>1, <1>2, <2>1, <2>2 DEF Taken
    <3>2. PICK c \in carried : c.tick = carrier_changes[i].tick
      BY <1>9, <3>1 DEF GhostStep, GhostInv, Stretches
    <3> QED BY <1>3, <1>5, <3>1, <3>2
  <2>3. CASE i \notin 1..m
    <3>1. ghoster' # ghoster
      BY <1>1, <2>1, <2>3
    <3>2. i = m + 1
      BY <1>1, <2>1, <2>3, <3>1
    <3>3. ghoster' # 0 /\ carrier_changes'[i].tick = clock'
      BY <1>1, <2>1, <3>1, <3>2
    <3> QED BY <1>3, <3>1, <3>3
  <2> QED BY <2>2, <2>3
<1>10. ASSUME phase' = "live", Len(carrier_changes') \in Taken(carrier_changes')
       PROVE  carrier_changes'[Len(carrier_changes')].tick # stale'
  <2>1. Len(carrier_changes') = m + 1 /\ carrier_changes'[m + 1].tick = clock'
    BY <1>1, <1>10
  <2> QED BY <1>4, <2>1
<1> QED BY <1>6, <1>8, <1>9, <1>10 DEF Stretches

\* What the recording sees of the ghost changing hands, of a round's beginning
\* and of its end.
LEMMA GhostTaken ==
  ASSUME MInv, GhostInv, on, TakeOrDrop
  PROVE  GhostInv'
<1> PICK n \in Nat : n = Len(played)
  BY InTurn DEF MInv
<1>1. /\ pc = "record" /\ phase = "live" /\ ghoster' \in Nat /\ ghoster' # ghoster /\ ApplyRules
      /\ UNCHANGED <<phase, on, played, stale>>
      /\ carried' = EndStretch \cup (IF ghoster' = 0 THEN {} ELSE {Stretch(ghoster')})
      /\ clock \in Nat /\ clock' \in Nat /\ clock < clock'
  <2>1. /\ pc = "record" /\ phase = "live" /\ ghoster' \in (Holder \cup {0}) \ {ghoster} /\ ApplyRules
        /\ UNCHANGED <<phase, number, on, played, vars, stale>> /\ NextTick
        /\ carried' = EndStretch \cup (IF ghoster' = 0 THEN {} ELSE {Stretch(ghoster')})
    BY DEF TakeOrDrop
  <2>2. clock \in Nat /\ clock' \in Nat /\ clock < clock'
    BY <2>1, Later DEF MInv, MatchType
  <2>3. ghoster' \in Nat
    BY <2>1, GhostHoldsAssumption
  <2> QED BY <2>1, <2>2, <2>3
<1>2. GhostStep
  BY <1>1 DEF MInv, GhostStep
<1>3. n > 0 /\ played[n].end = None /\ played \in Seq(Played) /\ PlayedInTurn
  BY <1>1 DEF MInv, Recorded, PlayedInTurn
<1>4. \A c \in carried, i \in Taken(carrier_changes) :
        Began(c, i) => \A d : d = Closed(c) => Began(d, i)'
  BY <1>1, <1>2, <1>3, TakeBegan
<1> DEFINE new == IF ghoster' = 0 THEN {} ELSE {Stretch(ghoster')}
<1>5. /\ carrier_changes' \in Seq(CarrierChange) /\ Len(carrier_changes') = Len(carrier_changes) + 1
      /\ carrier_changes'[Len(carrier_changes')] = [tick |-> clock', entity_id |-> ghoster']
      /\ Len(carrier_changes) \in Nat
  BY <1>1, <1>2, RulesApplied, ChangeType DEF GhostStep, GhostInv, CarrierKnown
<1>6. ASSUME NEW e \in new
      PROVE  /\ e.tick = clock' /\ ghoster' \notin {0, ghoster} /\ e \in StretchType
             /\ Began(e, Len(carrier_changes))'
  <2>1. e = [tick |-> clock', end_tick |-> None, entity_id |-> ghoster', round |-> n] /\ ghoster' # 0
    BY <1>1 DEF Stretch
  <2>2. e \in StretchType
    BY <1>1, <2>1 DEF StretchType
  <2>3. StretchEnd(Len(carrier_changes), n)' = None
    <3>1. NextChange(Len(carrier_changes))' = None
      BY <1>5 DEF NextChange
    <3> QED BY <1>1, <1>3, <3>1 DEF StretchEnd
  <2>4. played[n].shown # None => played[n].shown <= clock'
    <3>1. played[n].shown # None => played[n].shown <= clock /\ played[n].shown \in Nat
      BY <1>3, PlayedType DEF PlayedInTurn
    <3> QED BY <1>1, <3>1
  <2> QED BY <1>1, <1>3, <1>5, <2>1, <2>2, <2>3, <2>4 DEF Began
<1>7. /\ ghoster' \notin {0, ghoster} => new # {}
      /\ new \subseteq StretchType /\ carried' = EndStretch \cup new
      /\ \A e \in new : e.tick = clock' /\ ghoster' \notin {0, ghoster} /\ Began(e, Len(carrier_changes))'
  BY <1>1, <1>6
<1> HIDE DEF new
<1>8. carried' \subseteq StretchType /\ Stretches'
  BY <1>1, <1>2, <1>4, <1>7, StretchesKept
<1>9. CarrierKnown' /\ carrier' \in Nat /\ carrier_changes' \in Seq(CarrierChange)
  BY <1>1, <1>2, CarrierKept
<1> QED BY <1>1, <1>8, <1>9 DEF GhostInv, GhostType

LEMMA GhostBegins ==
  ASSUME MInv, GhostInv, on, RoundBegins
  PROVE  GhostInv'
<1> DEFINE q == [number |-> number', heard |-> TRUE, shown |-> clock', end |-> None]
<1>1. /\ pc = "record" /\ phase' = "freeze" /\ ghoster' = 0 /\ ApplyRules /\ UNCHANGED <<on, stale>>
      /\ carried' = EndStretch \cup {} /\ clock \in Nat /\ clock' \in Nat /\ clock < clock'
      /\ played' = Append(played, q)
  BY Later DEF RoundBegins, BeginRound, MInv, MatchType
<1>2. GhostStep
  BY <1>1 DEF MInv, GhostStep
<1>3. played \in Seq(Played)
  BY InTurn DEF MInv
<1>4. /\ Len(played') = Len(played) + 1 /\ \A p \in 1..Len(played) : played'[p] = played[p]
      /\ played'[Len(played) + 1].shown = clock'
  <2>1. q.shown = clock'
    OBVIOUS
  <2> HIDE DEF q
  <2>2. played'[Len(played) + 1] = q
    BY <1>1, <1>3
  <2> QED BY <1>1, <1>3, <2>1, <2>2
<1>5. \A c \in carried, i \in Taken(carrier_changes) :
        Began(c, i) => \A d : d = Closed(c) => Began(d, i)'
  BY <1>1, <1>2, <1>4, BeginBegan
<1>6. carried' \subseteq StretchType /\ Stretches'
  <2> PICK new : new = {}
    OBVIOUS
  <2>1. /\ carried' = EndStretch \cup new /\ new \subseteq StretchType
        /\ ghoster' \notin {0, ghoster} => new # {}
        /\ \A e \in new : e.tick = clock' /\ ghoster' \notin {0, ghoster} /\ Began(e, Len(carrier_changes))'
        /\ phase' = "live" => ghoster' # ghoster
    BY <1>1
  <2> QED BY <1>1, <1>2, <1>5, <2>1, StretchesKept
<1>7. CarrierKnown' /\ carrier' \in Nat /\ carrier_changes' \in Seq(CarrierChange)
  BY <1>1, <1>2, CarrierKept
<1> QED BY <1>1, <1>6, <1>7 DEF GhostInv, GhostType

LEMMA GhostEnds ==
  ASSUME MInv, GhostInv, on, RoundEnds
  PROVE  GhostInv'
<1>1. /\ pc = "record" /\ phase' = "over" /\ ghoster' \in {ghoster, 0} /\ ApplyRules /\ UNCHANGED <<on, stale>>
      /\ carried' = EndStretch \cup {} /\ clock \in Nat /\ clock' \in Nat /\ clock < clock'
  BY Later DEF RoundEnds, EndRound, MInv, MatchType
<1>2. GhostStep /\ ghoster' \in Nat
  BY <1>1 DEF MInv, GhostStep, GhostInv, GhostType
<1> PICK n \in Nat \ {0} :
      /\ n = Len(played) /\ n = Len(played') /\ played' \in Seq(Played)
      /\ played[n].end = None /\ played'[n].end = clock' /\ played'[n].heard = played[n].heard
      /\ played'[n].shown = played[n].shown /\ played'[n].number = played[n].number
      /\ \A i \in 1..(n - 1) : played'[i] = played[i]
      /\ clock \in Nat /\ clock' \in Nat /\ clock < clock'
  BY EndPlayed DEF RoundEnds
<1>3. \A c \in carried, i \in Taken(carrier_changes) :
        Began(c, i) => \A d : d = Closed(c) => Began(d, i)'
  BY <1>1, <1>2, EndBegan
<1>4. carried' \subseteq StretchType /\ Stretches'
  <2> PICK new : new = {}
    OBVIOUS
  <2>1. /\ carried' = EndStretch \cup new /\ new \subseteq StretchType
        /\ ghoster' \notin {0, ghoster} => new # {}
        /\ \A e \in new : e.tick = clock' /\ ghoster' \notin {0, ghoster} /\ Began(e, Len(carrier_changes))'
        /\ phase' = "live" => ghoster' # ghoster
    BY <1>1
  <2> QED BY <1>1, <1>2, <1>3, <2>1, StretchesKept
<1>5. CarrierKnown' /\ carrier' \in Nat /\ carrier_changes' \in Seq(CarrierChange)
  BY <1>1, <1>2, CarrierKept
<1> QED BY <1>1, <1>2, <1>4, <1>5 DEF GhostInv, GhostType

\* What the recording sees of the ghost when it begins.
LEMMA GhostJoined ==
  ASSUME MInv, GhostInv, RecordingBegins
  PROVE  GhostInv'
<1>1. /\ pc = "record" /\ pc' = pc /\ ~on /\ on' /\ phase' = phase /\ ApplyRules /\ ghoster' = ghoster
      /\ clock \in Nat /\ clock' \in Nat /\ clock < clock' /\ clock' # None /\ ghoster' \in Nat
      /\ carried' = (IF ghoster # 0 /\ phase = "live" THEN {Stretch(ghoster)} ELSE {})
      /\ stale' = (IF ghoster # 0 /\ phase = "over" THEN clock' ELSE None)
  BY Later, NoneNoNat DEF RecordingBegins, BeginRecording, MInv, MatchType, GhostInv, GhostType
<1>2. /\ GhostType /\ CarrierKnown /\ carrier = 0 /\ carrier_changes = <<>> /\ Len(carrier_changes) = 0
      /\ ghoster # 0 => phase \in {"live", "over"}
  BY <1>1 DEF GhostInv, CarrierKnown
<1>3. /\ carrier' = ghoster /\ carrier_changes' \in Seq(CarrierChange)
      /\ ghoster = 0 => carrier_changes' = <<>>
      /\ ghoster # 0 => Len(carrier_changes') = 1
                        /\ carrier_changes'[1] = [tick |-> clock', entity_id |-> ghoster]
      /\ \A i \in 1..Len(carrier_changes') : carrier_changes'[i].tick <= clock'
      /\ \A i, j \in 1..Len(carrier_changes') :
           i < j => carrier_changes'[i].tick < carrier_changes'[j].tick
  <2>1. /\ carrier' = ghoster' /\ carrier_changes' \in Seq(CarrierChange)
        /\ ghoster' = carrier => carrier_changes' = carrier_changes
        /\ ghoster' # carrier =>
             /\ Len(carrier_changes') = Len(carrier_changes) + 1
             /\ carrier_changes'[Len(carrier_changes) + 1] = [tick |-> clock', entity_id |-> ghoster']
        /\ \A i \in 1..Len(carrier_changes') : carrier_changes'[i].tick <= clock'
        /\ \A i, j \in 1..Len(carrier_changes') :
             i < j => carrier_changes'[i].tick < carrier_changes'[j].tick
    BY <1>1, <1>2, RulesApplied
  <2> QED BY <1>1, <1>2, <2>1
<1>4. /\ ghoster = 0 => Taken(carrier_changes') = {}
      /\ ghoster # 0 => Taken(carrier_changes') = {1}
  <2>1. DOMAIN carrier_changes' = 1..Len(carrier_changes')
    BY <1>3
  <2>2. CASE ghoster = 0
    BY <1>3, <2>1, <2>2 DEF Taken
  <2>3. CASE ghoster # 0
    <3>1. 1..1 = {1}
      OBVIOUS
    <3> QED BY <1>3, <2>1, <2>3, <3>1 DEF Taken
  <2> QED BY <2>2, <2>3
<1>5. CarrierKnown'
  <2>1. ghoster' = IF carrier_changes' = <<>> THEN 0 ELSE carrier_changes'[Len(carrier_changes')].entity_id
    <3>1. CASE ghoster = 0
      BY <1>1, <1>3, <3>1
    <3>2. CASE ghoster # 0
      <4>1. carrier_changes' # <<>>
        BY <1>3, <3>2
      <4>2. carrier_changes'[1].entity_id = ghoster /\ Len(carrier_changes') = 1
        BY <1>3, <3>2
      <4>3. ghoster' = ghoster
        BY <1>1
      <4> QED BY <4>1, <4>2, <4>3
    <3> QED BY <3>1, <3>2
  <2>2. stale' # None => stale' <= clock'
    BY <1>1
  <2> QED BY <1>1, <1>2, <1>3, <2>1, <2>2 DEF CarrierKnown
<1>6. CASE ghoster # 0 /\ phase = "live"
  <2> PICK e : e = [tick |-> clock', end_tick |-> None, entity_id |-> ghoster, round |-> 1]
    OBVIOUS
  <2>1. PICK heard \in BOOLEAN :
          played' = <<[number |-> number, heard |-> heard, end |-> None, shown |-> None]>>
    BY <1>6 DEF RecordingBegins, BeginRecording
  <2>2. Len(played') = 1 /\ played'[1].end = None /\ played'[1].shown = None
    BY <2>1
  <2>3. carried' = {e} /\ stale' = None
    BY <1>1, <1>6, <2>2 DEF Stretch
  <2>4. e \in StretchType
    BY <1>1 DEF StretchType
  <2>5. Began(e, 1)'
    <3>1. NextChange(1)' = None
      <4>1. Len(carrier_changes') = 1
        BY <1>3, <1>6
      <4> QED BY <4>1 DEF NextChange
    <3>2. StretchEnd(1, 1)' = None
      BY <2>2, <3>1 DEF StretchEnd
    <3> QED BY <1>3, <1>6, <2>2, <3>2 DEF Began
  <2>6. Stretches'
    <3>1. Taken(carrier_changes') = {1} /\ carrier_changes'[1].tick = clock' /\ e.tick = clock'
          /\ Len(carrier_changes') = 1
      BY <1>3, <1>4, <1>6
    <3>2. stale' # clock'
      BY <1>1, <2>3
    <3> QED BY <2>3, <2>5, <3>1, <3>2 DEF Stretches
  <2> QED BY <1>1, <1>3, <1>5, <2>3, <2>4, <2>6 DEF GhostInv, GhostType
<1>7. CASE ghoster = 0 \/ phase = "over"
  <2>1. carried' = {}
    BY <1>1, <1>7
  <2>2. \A i \in Taken(carrier_changes') : carrier_changes'[i].tick = stale'
    <3>1. CASE ghoster = 0
      BY <1>4, <3>1
    <3>2. CASE ghoster # 0
      BY <1>1, <1>3, <1>4, <1>7, <3>2
    <3> QED BY <3>1, <3>2
  <2>3. phase' = "live" => Taken(carrier_changes') = {}
    BY <1>1, <1>4, <1>7
  <2>4. Stretches'
    BY <2>1, <2>2, <2>3 DEF Stretches
  <2>5. stale' \in Nat \cup {None}
    BY <1>1
  <2> QED BY <1>1, <1>3, <1>5, <2>1, <2>4, <2>5 DEF GhostInv, GhostType
<1> QED BY <1>2, <1>6, <1>7

\* Before the recording nothing is seen.
LEMMA GhostUnseen ==
  ASSUME MInv, GhostInv, ~on, TakeOrDrop \/ RoundBegins \/ RoundEnds
  PROVE  GhostInv'
<1>1. /\ carrier_changes = <<>> /\ carrier = 0 /\ carried = {} /\ stale = None
  BY DEF GhostInv, CarrierKnown
<1>2. /\ ~on' /\ ApplyRules /\ stale' = stale /\ pc = "record"
  BY DEF TakeOrDrop, RoundBegins, RoundEnds, BeginRound, EndRound
<1>3. carrier_changes' = <<>> /\ carrier' = 0
  BY <1>1, <1>2 DEF ApplyRules
<1>4. carried' = {}
  BY <1>1 DEF TakeOrDrop, RoundBegins, RoundEnds, EndStretch
<1>5. ghoster' \in Nat /\ (ghoster' # 0 => phase' \in {"live", "over"})
  <2>1. CASE TakeOrDrop
    BY <2>1, GhostHoldsAssumption DEF TakeOrDrop
  <2>2. CASE RoundBegins
    BY <2>2 DEF RoundBegins
  <2>3. CASE RoundEnds
    BY <2>3 DEF RoundEnds, EndRound, GhostInv, GhostType
  <2> QED BY <2>1, <2>2, <2>3
<1>6. Taken(carrier_changes') = {}
  BY <1>3 DEF Taken
<1>7. GhostType' /\ CarrierKnown'
  BY <1>1, <1>2, <1>3, <1>4, <1>5 DEF GhostType, CarrierKnown
<1>8. Stretches'
  BY <1>3, <1>4, <1>6 DEF Stretches
<1> QED BY <1>7, <1>8 DEF GhostInv

\* Steps that leave the ghost, the rounds and the time alone.
LEMMA GhostLeft ==
  ASSUME GhostInv, UNCHANGED <<ghost, played, clock, on>>,
         \/ pc' # "record"
         \/ pc' = pc /\ phase' = phase
         \/ pc' = pc /\ ghoster = 0
  PROVE  GhostInv'
<1>1. UNCHANGED <<ghoster, carrier, carrier_changes, carried, stale>>
  BY DEF ghost
<1>2. \A c, i : Began(c, i)' <=> Began(c, i)
  BY <1>1 DEF Began, StretchEnd, NextChange
<1>3. GhostType' /\ Taken(carrier_changes') = Taken(carrier_changes)
  BY <1>1 DEF GhostInv, GhostType
<1>4. CarrierKnown'
  BY <1>1 DEF GhostInv, CarrierKnown
<1>5. pc' = "record" /\ phase' = "live" /\ Len(carrier_changes) \in Taken(carrier_changes) =>
        pc = "record" /\ phase = "live"
  <2> SUFFICES ASSUME pc' = pc, ghoster = 0, pc = "record",
                      Len(carrier_changes) \in Taken(carrier_changes)
               PROVE  FALSE
    OBVIOUS
  <2>1. carrier_changes # <<>> /\ carrier_changes[Len(carrier_changes)].entity_id # 0
    BY DEF Taken
  <2>2. on
    BY <2>1 DEF GhostInv, CarrierKnown
  <2> QED BY <2>1, <2>2 DEF GhostInv, CarrierKnown
<1>6. Stretches'
  BY <1>1, <1>2, <1>3, <1>5 DEF GhostInv, Stretches
<1> QED BY <1>3, <1>4, <1>6 DEF GhostInv

LEMMA GhostInvInit == GhostInit => GhostInv
<1> SUFFICES ASSUME GhostInit PROVE GhostInv
  OBVIOUS
<1>1. /\ ghoster = 0 /\ carrier = 0 /\ carrier_changes = <<>> /\ carried = {} /\ stale = None /\ ~on
  BY DEF GhostInit, MatchInit
<1>2. Taken(carrier_changes) = {}
  BY <1>1 DEF Taken
<1> QED BY <1>1, <1>2 DEF GhostInv, GhostType, CarrierKnown, Stretches

LEMMA GhostInvStep == MInv /\ GhostInv /\ [CapturesNext]_<<allVars, capture>> => GhostInv'
<1> SUFFICES ASSUME MInv, GhostInv, [CapturesNext]_<<allVars, capture>> PROVE GhostInv'
  OBVIOUS
<1>1. CASE TakeOrDrop \/ RoundBegins \/ RoundEnds
  BY <1>1, GhostTaken, GhostBegins, GhostEnds, GhostUnseen
<1>2. CASE RecordingBegins
  BY <1>2, GhostJoined
<1>3. CASE UNCHANGED ghost /\ (GoLive \/ StopRecording \/ (Next /\ UNCHANGED match) \/ UNCHANGED <<vars, match>>)
  <2>1. UNCHANGED <<played, clock, on>>
    BY <1>3 DEF GoLive, StopRecording, match
  <2>2. CASE GoLive
    <3>1. pc = "record" /\ phase = "freeze" /\ pc' = pc
      BY <2>2 DEF GoLive, vars
    <3>2. ghoster = 0
      BY <3>1 DEF GhostInv, CarrierKnown
    <3> QED BY <1>3, <2>1, <3>1, <3>2, GhostLeft
  <2>3. CASE StopRecording
    BY <1>3, <2>1, <2>3, GhostLeft DEF StopRecording
  <2>4. CASE Next /\ UNCHANGED match
    <3>1. pc' # "record"
      BY <2>4 DEF Next, Derive, SortEnds, Close, OpenNext, KeepOpen, NumberRounds, StartFirst, CutAfter,
                  CutAt, Done, Over, vars
    <3> QED BY <1>3, <2>1, <3>1, GhostLeft
  <2>5. CASE UNCHANGED <<vars, match>>
    BY <1>3, <2>1, <2>5, GhostLeft DEF vars, match
  <2> QED BY <1>3, <2>2, <2>3, <2>4, <2>5
<1> QED BY <1>1, <1>2, <1>3 DEF CapturesNext, CaptureBegins, CaptureEnds, CaptureRecordingBegins, allVars

-----------------------------------------------------------------------------
(* The holds are the stretches carried                                     *)

\* The rounds left lie in turn.
LeftInTurn ==
  /\ rounds \in Seq(Round)
  /\ \A i \in 1..Len(rounds) :
       rounds[i].start # None /\ rounds[i].end # None => rounds[i].start < rounds[i].end
  /\ \A i, j \in 1..Len(rounds) : i < j =>
       /\ rounds[j].start # None
       /\ rounds[i].end # None => rounds[i].end < rounds[j].start
       /\ rounds[i].start # None => rounds[i].start < rounds[j].start

\* The tick lies in the q-th round that is left, or before all for q = 0.
Inside(q, tick) ==
  /\ q \in 0..Len(rounds)
  /\ q > 0 => /\ rounds[q].start # None => rounds[q].start <= tick
              /\ rounds[q].end # None => tick < rounds[q].end
  /\ q < Len(rounds) => rounds[q + 1].start # None /\ tick < rounds[q + 1].start

LEMMA RoundTicks ==
  ASSUME rounds \in Seq(Round), NEW i \in 1..Len(rounds)
  PROVE  rounds[i].start \in Nat \cup {None} /\ rounds[i].end \in Nat \cup {None}
<1>1. rounds[i] \in Round
  OBVIOUS
<1> QED BY <1>1 DEF Round

\* place finds the round the tick lies in, and so does the cap.
LEMMA PlacedInside ==
  ASSUME LeftInTurn, NEW tick \in Nat, NEW q, Inside(q, tick)
  PROVE  /\ Place(rounds, tick) = IF q = 0 THEN None ELSE During(q)
         /\ RoundsAround(tick) = IF q = 0 \/ rounds[q].end = None THEN {} ELSE {q}
<1> PICK m \in Nat : m = Len(rounds)
  BY DEF LeftInTurn
<1>1. /\ q \in 0..m
      /\ q > 0 => /\ rounds[q].start # None => rounds[q].start <= tick
                  /\ rounds[q].end # None => tick < rounds[q].end
      /\ q < m => rounds[q + 1].start # None /\ tick < rounds[q + 1].start
  BY DEF Inside
<1>2. \A i \in 1..m : rounds[i].start \in Nat \cup {None} /\ rounds[i].end \in Nat \cup {None}
  BY RoundTicks DEF LeftInTurn
<1>3. \A i, j \in 1..m : i < j =>
        /\ rounds[j].start # None
        /\ rounds[i].end # None => rounds[i].end < rounds[j].start
        /\ rounds[i].start # None => rounds[i].start < rounds[j].start
  BY DEF LeftInTurn
<1>4. ASSUME NEW i \in 1..m, i < q
      PROVE  /\ LastTick(rounds, i) # None /\ LastTick(rounds, i) < tick /\ LastTick(rounds, i) \in Int
             /\ rounds[i].end # None => rounds[i].end < tick
  <2>1. q \in 1..m /\ rounds[q].start # None /\ rounds[q].start <= tick /\ rounds[q].start \in Nat
    BY <1>1, <1>2, <1>3, <1>4
  <2>2. rounds[i].end # None => rounds[i].end < tick /\ rounds[i].end \in Nat
    BY <1>2, <1>3, <1>4, <2>1
  <2>3. i + 1 \in 1..m /\ i < m /\ rounds[i + 1].start # None /\ rounds[i + 1].start \in Nat
        /\ rounds[i + 1].start <= rounds[q].start
    <3>1. i + 1 \in 1..m /\ i < i + 1 /\ (i + 1 = q \/ i + 1 < q)
      BY <1>4, <2>1
    <3>2. rounds[i + 1].start # None /\ rounds[i + 1].start \in Nat
      BY <1>2, <1>3, <3>1
    <3>3. rounds[i + 1].start <= rounds[q].start
      BY <1>3, <2>1, <3>1, <3>2
    <3> QED BY <3>1, <3>2, <3>3
  <2>4. LastTick(rounds, i) = IF rounds[i].end # None THEN rounds[i].end ELSE rounds[i + 1].start - 1
    BY <2>3 DEF LastTick
  <2> QED BY <2>1, <2>2, <2>3, <2>4, RoundsAssumption
<1>5. ASSUME q > 0
      PROVE  /\ LastTick(rounds, q) = None \/ (LastTick(rounds, q) \in Int /\ tick <= LastTick(rounds, q))
             /\ rounds[q].start = None \/ rounds[q].start <= tick
  <2>1. q \in 1..m
    BY <1>1, <1>5
  <2>2. CASE rounds[q].end # None
    BY <1>1, <1>2, <1>5, <2>1, <2>2 DEF LastTick
  <2>3. CASE rounds[q].end = None /\ q < m
    <3>1. q + 1 \in 1..m /\ rounds[q + 1].start # None /\ tick < rounds[q + 1].start
      BY <1>1, <2>1, <2>3
    <3>2. rounds[q + 1].start \in Nat
      BY <1>2, <3>1
    <3>3. LastTick(rounds, q) = rounds[q + 1].start - 1
      BY <2>3, <3>1 DEF LastTick
    <3> QED BY <1>1, <1>5, <3>1, <3>2, <3>3
  <2>4. CASE rounds[q].end = None /\ ~(q < m)
    BY <1>1, <1>5, <2>4 DEF LastTick
  <2> QED BY <2>2, <2>3, <2>4
<1>6. NotOver(rounds, tick) = {i \in 1..m : LastTick(rounds, i) = None \/ tick <= LastTick(rounds, i)}
  BY DEF NotOver
<1>7. CASE q > 0
  <2>1. q \in 1..m /\ q \in NotOver(rounds, tick)
    BY <1>1, <1>5, <1>6, <1>7
  <2>2. \A i \in NotOver(rounds, tick) : i \in 1..m /\ q <= i
    <3> SUFFICES ASSUME NEW i \in 1..m, i < q PROVE i \notin NotOver(rounds, tick)
      BY <1>6, <2>1
    <3> QED BY <1>4, <1>6
  <2>3. (CHOOSE i \in NotOver(rounds, tick) : \A j \in NotOver(rounds, tick) : i <= j) = q
    <3>1. \A i \in NotOver(rounds, tick) : (\A j \in NotOver(rounds, tick) : i <= j) => i = q
      BY <2>1, <2>2
    <3> QED BY <2>1, <2>2, <3>1
  <2>4. Place(rounds, tick) = During(q)
    BY <1>5, <1>7, <2>1, <2>3 DEF Place
  <2>5. ASSUME NEW i \in 1..m, i # q
        PROVE  i \notin RoundsAround(tick)
    <3>1. CASE i < q
      <4>1. rounds[i].end # None => rounds[i].end < tick /\ rounds[i].end \in Nat
        BY <1>2, <1>4, <3>1
      <4> QED BY <4>1 DEF RoundsAround
    <3>2. CASE i > q
      <4>1. q < m /\ q + 1 \in 1..m /\ (i = q + 1 \/ q + 1 < i)
        BY <2>1, <3>2
      <4>2. /\ rounds[q + 1].start # None /\ tick < rounds[q + 1].start /\ rounds[q + 1].start \in Nat
            /\ rounds[i].start # None /\ rounds[i].start \in Nat
        BY <1>1, <1>2, <1>3, <4>1
      <4>3. rounds[q + 1].start <= rounds[i].start
        BY <1>3, <4>1, <4>2
      <4> QED BY <4>2, <4>3 DEF RoundsAround
    <3> QED BY <2>1, <2>5, <3>1, <3>2
  <2>6. q \in RoundsAround(tick) <=> rounds[q].end # None
    <3>1. DOMAIN rounds = 1..m
      BY DEF LeftInTurn
    <3> QED BY <1>1, <1>2, <1>7, <2>1, <3>1 DEF RoundsAround
  <2>7. RoundsAround(tick) \subseteq 1..m
    BY DEF RoundsAround, LeftInTurn
  <2> QED BY <1>7, <2>4, <2>5, <2>6, <2>7
<1>8. CASE q = 0 /\ m = 0
  <2>1. NotOver(rounds, tick) = {} /\ RoundsAround(tick) = {}
    <3>1. 1..m = {}
      BY <1>8
    <3>2. DOMAIN rounds = 1..m
      BY DEF LeftInTurn
    <3> QED BY <1>6, <3>1, <3>2 DEF RoundsAround
  <2> QED BY <1>8, <2>1 DEF Place, PostRound
<1>9. CASE q = 0 /\ m > 0
  <2>1. 1 \in 1..m /\ rounds[1].start # None /\ rounds[1].start \in Nat /\ tick < rounds[1].start
    BY <1>1, <1>2, <1>9
  <2>2. LastTick(rounds, 1) = None \/ (LastTick(rounds, 1) \in Int /\ tick <= LastTick(rounds, 1))
    <3>1. CASE rounds[1].end # None
      <4>1. rounds[1].start < rounds[1].end /\ rounds[1].end \in Nat
        BY <1>2, <2>1, <3>1 DEF LeftInTurn
      <4> QED BY <2>1, <3>1, <4>1 DEF LastTick
    <3>2. CASE rounds[1].end = None /\ 1 < m
      <4>1. 2 \in 1..m /\ 1 + 1 = 2
        BY <3>2
      <4>2. rounds[2].start # None /\ rounds[2].start \in Nat /\ rounds[1].start < rounds[2].start
        BY <1>2, <1>3, <2>1, <4>1
      <4>3. LastTick(rounds, 1) = rounds[2].start - 1
        BY <3>2, <4>1, <4>2 DEF LastTick
      <4> QED BY <2>1, <4>2, <4>3
    <3>3. CASE rounds[1].end = None /\ ~(1 < m)
      BY <3>3 DEF LastTick
    <3> QED BY <3>1, <3>2, <3>3
  <2>3. 1 \in NotOver(rounds, tick) /\ \A i \in NotOver(rounds, tick) : i \in 1..m /\ 1 <= i
    BY <1>6, <2>1, <2>2
  <2>4. (CHOOSE i \in NotOver(rounds, tick) : \A j \in NotOver(rounds, tick) : i <= j) = 1
    <3>1. \A i \in NotOver(rounds, tick) : (\A j \in NotOver(rounds, tick) : i <= j) => i = 1
      BY <2>3
    <3> QED BY <2>3, <3>1
  <2>5. Place(rounds, tick) = None
    BY <2>1, <2>3, <2>4 DEF Place, PostRound
  <2>6. ASSUME NEW i \in 1..m
        PROVE  ~(rounds[i].start = None \/ rounds[i].start <= tick)
    <3>1. i = 1 \/ 1 < i
      OBVIOUS
    <3>2. rounds[i].start # None /\ rounds[i].start \in Nat /\ rounds[1].start <= rounds[i].start
      BY <1>2, <1>3, <2>1, <3>1
    <3> QED BY <2>1, <3>2
  <2>7. RoundsAround(tick) = {}
    BY <2>6 DEF RoundsAround, LeftInTurn
  <2> QED BY <1>9, <2>5, <2>7
<1> QED BY <1>1, <1>7, <1>8, <1>9

\* When no round's end is missing, the rounds left lie in turn.
LEMMA LeftTidy ==
  ASSUME MInv, on, pc = "done", Left, NEW n \in Nat, n = Len(played), NEW s \in {0, 1}, s = Skipped,
         NEW m \in Nat, m = Len(rounds), \A j \in 1..n : EndAt(j) = played[j].end
  PROVE  /\ LeftInTurn /\ m + s <= n
         /\ \A i \in 1..m :
              /\ s + i \in 1..n /\ rounds[i].end = played[s + i].end
              /\ rounds[i].start \in {None, played[s + i].shown}
              /\ s + i > 1 => rounds[i].start = played[s + i].shown /\ rounds[i].start # None
         /\ s = 1 => played[1].end = None
         /\ cut # None => m + s < n /\ cut = played[m + s + 1].shown
         /\ cut = None => m + s = n
<1>1. /\ Recorded /\ rounds \in Seq(Round) /\ PlayedInTurn /\ played \in Seq(Played)
  BY DEF MInv, TypeOK, Recorded, PlayedInTurn
<1>2. /\ m + s <= n /\ (cut # None => m + s < n /\ cut = played[m + s + 1].shown)
      /\ cut = None => m + s = n
  BY DEF Left, Merged
<1>3. \A j \in 1..n :
        /\ played[j].shown \in Nat \cup {None} /\ played[j].end \in Nat \cup {None}
        /\ played[j].heard \in BOOLEAN /\ (j > 1 => played[j].heard)
        /\ played[j].heard => played[j].shown # None
        /\ played[j].shown # None /\ played[j].end # None => played[j].shown < played[j].end
  BY <1>1, PlayedType DEF PlayedInTurn
<1>4. \A i, j \in 1..n : i < j =>
        /\ played[i].shown # None => played[i].shown < played[j].shown
        /\ played[i].end # None => played[i].end < played[j].shown
  BY <1>1 DEF PlayedInTurn
<1>5. ASSUME NEW i \in 1..m
      PROVE  /\ s + i \in 1..n /\ rounds[i].end = played[s + i].end
             /\ rounds[i].start \in {None, played[s + i].shown}
             /\ s + i > 1 => rounds[i].start = played[s + i].shown /\ rounds[i].start # None
  <2>1. s + i \in 1..n
    BY <1>2
  <2>2. /\ rounds[i].end = EndAt(s + i)
        /\ IF played[s + i].heard THEN rounds[i].start = played[s + i].shown
           ELSE i = 1 /\ s = 0 /\ rounds[i].start \in {None, played[s + i].shown}
    BY DEF Left
  <2> QED BY <1>3, <2>1, <2>2
<1>6. ASSUME NEW i \in 1..m, rounds[i].start # None, rounds[i].end # None
      PROVE  rounds[i].start < rounds[i].end
  BY <1>3, <1>5, <1>6
<1>7. ASSUME NEW i \in 1..m, NEW j \in 1..m, i < j
      PROVE  /\ rounds[j].start # None
             /\ rounds[i].end # None => rounds[i].end < rounds[j].start
             /\ rounds[i].start # None => rounds[i].start < rounds[j].start
  <2>1. /\ s + i \in 1..n /\ s + j \in 1..n /\ s + i < s + j /\ s + j > 1
        /\ rounds[i].end = played[s + i].end /\ rounds[i].start \in {None, played[s + i].shown}
        /\ rounds[j].start = played[s + j].shown /\ rounds[j].start # None
    <3>1. s + i < s + j /\ s + j > 1
      BY <1>7
    <3> QED BY <1>5, <3>1
  <2> QED BY <1>4, <2>1
<1>8. LeftInTurn
  BY <1>1, <1>6, <1>7 DEF LeftInTurn
<1>9. s = 1 => played[1].end = None
  <2>1. s = 1 => EndAt(1) = None /\ played # <<>>
    BY DEF Skipped
  <2>2. played # <<>> => 1 \in 1..n
    BY <1>1
  <2> QED BY <2>1, <2>2
<1> QED BY <1>2, <1>5, <1>8, <1>9

\* A hold is the stretch its change began.
LEMMA HoldIs ==
  ASSUME MInv, GhostInv, on, pc = "done", Left, NEW n \in Nat, n = Len(played),
         \A j \in 1..n : EndAt(j) = played[j].end,
         NEW i \in Taken(carrier_changes), NEW c \in carried, Began(c, i), InDemo(c.tick)
  PROVE  Capped(RawHold(carrier_changes, i))
           = [tick |-> c.tick, entity_id |-> c.entity_id, end_tick |-> c.end_tick,
              round_index |-> FoundAs(c.round)]
<1> PICK s \in {0, 1} : s = Skipped
  BY DEF Skipped
<1> PICK m \in Nat : m = Len(rounds)
  BY DEF MInv, TypeOK
<1>1. /\ LeftInTurn /\ m + s <= n
      /\ \A k \in 1..m :
           /\ s + k \in 1..n /\ rounds[k].end = played[s + k].end
           /\ rounds[k].start \in {None, played[s + k].shown}
           /\ s + k > 1 => rounds[k].start = played[s + k].shown /\ rounds[k].start # None
      /\ s = 1 => played[1].end = None
      /\ cut # None => m + s < n /\ cut = played[m + s + 1].shown
      /\ cut = None => m + s = n
  BY LeftTidy
<1> PICK p \in 1..n : p = c.round
  BY DEF Began
<1>2. /\ c.tick = carrier_changes[i].tick /\ c.entity_id = carrier_changes[i].entity_id
      /\ c.end_tick = StretchEnd(i, p)
      /\ played[p].shown # None => played[p].shown <= c.tick
      /\ played[p].end # None => c.tick < played[p].end
      /\ p < n => c.tick < played[p + 1].shown
  BY DEF Began
<1>3. c.tick \in Nat /\ c.end_tick \in Nat \cup {None}
  <2>1. c \in StretchType
    BY DEF GhostInv, GhostType
  <2> QED BY <2>1 DEF StretchType
<1>4. /\ Recorded /\ played \in Seq(Played) /\ PlayedInTurn
      /\ \A j \in 1..n : j > 1 => played[j].shown \in Nat
      /\ \A j, k \in 1..n : j < k /\ j > 1 => played[j].shown < played[k].shown
  <2>1. Recorded /\ played \in Seq(Played) /\ PlayedInTurn
    BY DEF MInv, Recorded, PlayedInTurn
  <2> QED BY <2>1, InTurn
<1>5. p <= m + s
  <2> SUFFICES ASSUME m + s < p PROVE FALSE
    OBVIOUS
  <2>1. cut # None /\ m + s + 1 \in 1..n /\ (m + s + 1 = p \/ m + s + 1 < p)
    BY <1>1
  <2>2. p > 1 /\ played[p].shown \in Nat /\ played[p].shown <= c.tick
    <3>1. p > 1
      <4>1. CASE m + s > 0
        BY <4>1
      <4>2. CASE m + s = 0
        BY <4>2, <2>1 DEF Left, Merged
      <4> QED BY <4>1, <4>2
    <3> QED BY <1>2, <1>4, <3>1, NoneNoNat
  <2>3. m + s + 1 > 1
    BY <2>1 DEF Left, Merged
  <2>4. played[m + s + 1].shown \in Nat /\ played[m + s + 1].shown <= played[p].shown
    BY <1>4, <2>1, <2>2, <2>3
  <2>5. c.tick < played[m + s + 1].shown
    BY <1>1, <2>1 DEF InDemo
  <2> QED BY <1>3, <2>2, <2>4, <2>5
<1> PICK q \in 0..m : p = s + q
  <2>1. p - s \in 0..m /\ p = s + (p - s)
    BY <1>5
  <2> QED BY <2>1
<1>6. Inside(q, c.tick)
  <2>1. ASSUME q > 0
        PROVE  /\ rounds[q].start # None => rounds[q].start <= c.tick
               /\ rounds[q].end # None => c.tick < rounds[q].end
    BY <1>1, <1>2, <2>1
  <2>2. ASSUME q < m
        PROVE  rounds[q + 1].start # None /\ c.tick < rounds[q + 1].start
    <3>1. q + 1 \in 1..m /\ s + (q + 1) = p + 1 /\ p + 1 > 1 /\ p < n
      BY <1>1, <2>2
    <3>2. rounds[q + 1].start = played[p + 1].shown /\ rounds[q + 1].start # None
      BY <1>1, <3>1
    <3> QED BY <1>2, <3>1, <3>2
  <2> QED BY <2>1, <2>2 DEF Inside
<1>7. /\ Place(rounds, c.tick) = IF q = 0 THEN None ELSE During(q)
      /\ RoundsAround(c.tick) = IF q = 0 \/ rounds[q].end = None THEN {} ELSE {q}
  BY <1>1, <1>3, <1>6, PlacedInside
<1>8. FoundAs(p) = IF q = 0 THEN None ELSE q
  <2>1. Found = (s + 1)..n /\ \A j \in Found : FoundBy(j) = j - s
    BY <1>4, FoundAre
  <2>2. p \in Found <=> q > 0
    BY <2>1
  <2> QED BY <2>1, <2>2 DEF FoundAs
<1> DEFINE h == RawHold(carrier_changes, i)
<1>9. h = [tick |-> c.tick, entity_id |-> c.entity_id, end_tick |-> NextChange(i),
           round_index |-> FoundAs(p)]
  <2>1. During(q) # None /\ During(q).index = q
    <3>1. During(q) \in RoundPlace
      BY DEF During, RoundPlace
    <3> QED BY <3>1, RoundsAssumption DEF During
  <2>2. (IF Place(rounds, c.tick) = None THEN None ELSE Place(rounds, c.tick).index) = FoundAs(p)
    BY <1>7, <1>8, <2>1
  <2> QED BY <1>2, <2>2 DEF RawHold, NextChange
<1>10. h.tick = c.tick /\ h.end_tick = NextChange(i)
  BY <1>9
<1> HIDE DEF h
<1>11. CASE q = 0 \/ rounds[q].end = None
  <2>1. Capped(h) = h
    BY <1>7, <1>10, <1>11 DEF Capped
  <2>2. played[p].end = None
    BY <1>1, <1>11
  <2>3. c.end_tick = NextChange(i)
    BY <1>2, <2>2 DEF StretchEnd
  <2> QED BY <1>9, <2>1, <2>3 DEF h
<1>12. CASE q # 0 /\ rounds[q].end # None
  <2>1. q \in 1..m /\ RoundsAround(h.tick) = {q} /\ rounds[q].end = played[p].end
    BY <1>1, <1>7, <1>10, <1>12
  <2>2. (CHOOSE k \in {q} : \A j \in {q} : k <= j) = q
    OBVIOUS
  <2>3. Capped(h) = IF NextChange(i) = None \/ NextChange(i) > played[p].end
                      THEN [h EXCEPT !.end_tick = played[p].end] ELSE h
    BY <1>10, <2>1, <2>2 DEF Capped
  <2>4. c.end_tick = IF NextChange(i) = None \/ NextChange(i) > played[p].end
                       THEN played[p].end ELSE NextChange(i)
    BY <1>2, <1>12, <2>1 DEF StretchEnd
  <2>5. CASE NextChange(i) = None \/ NextChange(i) > played[p].end
    BY <1>9, <2>3, <2>4, <2>5 DEF h
  <2>6. CASE ~(NextChange(i) = None \/ NextChange(i) > played[p].end)
    BY <1>9, <2>3, <2>4, <2>6 DEF h
  <2> QED BY <2>5, <2>6
<1> QED BY <1>11, <1>12 DEF h

LEMMA HoldsShow ==
  ASSUME MInv, GhostInv, LeftInv
  PROVE  HoldsAsCarried
<1> SUFFICES ASSUME pc = "done", on, \A p \in DOMAIN played : RecordedEnd(played[p]) = played[p].end
             PROVE  {h \in {Holds[i] : i \in DOMAIN Holds} : InDemo(h.tick) /\ h.tick # stale}
                      = {[tick |-> c.tick, entity_id |-> c.entity_id, end_tick |-> c.end_tick,
                          round_index |-> FoundAs(c.round)] : c \in {c \in carried : InDemo(c.tick)}}
  BY DEF HoldsAsCarried
<1> DEFINE Told(c) == [tick |-> c.tick, entity_id |-> c.entity_id, end_tick |-> c.end_tick,
                       round_index |-> FoundAs(c.round)]
<1> PICK n \in Nat : n = Len(played)
  BY DEF MInv, Recorded, PlayedInTurn
<1>1. Left /\ \A j \in 1..n : EndAt(j) = played[j].end
  BY DEF LeftInv, EndAt, MInv, Recorded, PlayedInTurn
<1>2. DOMAIN Holds = Taken(carrier_changes)
      /\ \A i \in Taken(carrier_changes) : Holds[i] = Capped(RawHold(carrier_changes, i))
  BY DEF Holds, RawHolds
<1>3. \A i \in Taken(carrier_changes), c \in carried :
        Began(c, i) /\ InDemo(c.tick) => Holds[i] = Told(c)
  BY <1>1, <1>2, HoldIs
<1>4. \A c : Told(c).tick = c.tick
  OBVIOUS
<1>5. \A i \in Taken(carrier_changes) : Holds[i].tick = carrier_changes[i].tick
  <2> SUFFICES ASSUME NEW i \in Taken(carrier_changes)
               PROVE  Capped(RawHold(carrier_changes, i)).tick = carrier_changes[i].tick
    BY <1>2
  <2> QED BY DEF Capped, RawHold
<1> HIDE DEF Told
<1>6. ASSUME NEW h \in {Holds[i] : i \in DOMAIN Holds}, InDemo(h.tick), h.tick # stale
      PROVE  \E c \in carried : InDemo(c.tick) /\ h = Told(c)
  <2>1. PICK i \in Taken(carrier_changes) : h = Holds[i]
    BY <1>2
  <2>2. h.tick = carrier_changes[i].tick /\ carrier_changes[i].tick # stale
    BY <1>5, <1>6, <2>1
  <2>3. PICK c \in carried : c.tick = carrier_changes[i].tick
    BY <2>2 DEF GhostInv, Stretches
  <2>4. PICK j \in Taken(carrier_changes) : Began(c, j)
    BY DEF GhostInv, Stretches
  <2>5. i = j
    <3>1. i \in 1..Len(carrier_changes) /\ j \in 1..Len(carrier_changes)
          /\ carrier_changes[i].tick \in Nat /\ carrier_changes[j].tick \in Nat
      BY ChangeType DEF GhostInv, Taken
    <3>2. carrier_changes[i].tick = carrier_changes[j].tick
      BY <2>3, <2>4 DEF Began
    <3>3. ~(i < j) /\ ~(j < i)
      BY <3>1, <3>2 DEF GhostInv, CarrierKnown
    <3> QED BY <3>1, <3>3
  <2> QED BY <1>3, <1>6, <2>1, <2>2, <2>3, <2>4, <2>5
<1>7. ASSUME NEW c \in carried, InDemo(c.tick)
      PROVE  Told(c) \in {Holds[i] : i \in DOMAIN Holds} /\ InDemo(Told(c).tick) /\ Told(c).tick # stale
  <2>1. PICK i \in Taken(carrier_changes) : carrier_changes[i].tick # stale /\ Began(c, i)
    BY DEF GhostInv, Stretches
  <2>2. Told(c) = Holds[i]
    BY <1>3, <1>7, <2>1
  <2>3. Told(c).tick = c.tick /\ c.tick = carrier_changes[i].tick
    BY <1>4, <2>1 DEF Began
  <2> QED BY <1>2, <1>7, <2>1, <2>2, <2>3
<1>8. {h \in {Holds[i] : i \in DOMAIN Holds} : InDemo(h.tick) /\ h.tick # stale}
        = {Told(c) : c \in {c \in carried : InDemo(c.tick)}}
  BY <1>6, <1>7
<1> QED BY <1>8 DEF Told

\* In matches of any length, the holds are the stretches players carried the
\* ghost in, each with its holder, its end and its round, over aborted rounds, a
\* recording that joins or stops within one, ties and a cut (ghost_holds.rs).
THEOREM HoldsRight == CapturesSpec => []HoldsAsCarried
<1>1. CapturesInit => MInv /\ GhostInv /\ LeftInv
  <2>1. CapturesInit => ~on
    BY DEF CapturesInit, GhostInit, MatchInit
  <2> QED BY <2>1, MInvCaptures, GhostInvInit DEF CapturesInit, LeftInv
<1>2. MInv /\ GhostInv /\ LeftInv /\ [CapturesNext]_<<allVars, capture>> => (MInv /\ GhostInv /\ LeftInv)'
  BY MInvCaptures, GhostInvStep, LeftStep
<1>3. MInv /\ GhostInv /\ LeftInv => HoldsAsCarried
  BY HoldsShow
<1> QED BY <1>1, <1>2, <1>3, PTL DEF CapturesSpec

-----------------------------------------------------------------------------
(* The zones around a round's end                                          *)

ZoneChange == [tick : Nat, entity_id : Zone, active : BOOLEAN]

\* Every member of a finite set is in the sequence SetToSeq makes of it.
LEMMA SetSeq ==
  ASSUME NEW S, IsFiniteSet(S)
  PROVE  /\ SetToSeq(S) \in Seq(S) /\ Len(SetToSeq(S)) \in Nat
         /\ \A x \in S : \E i \in 1..Len(SetToSeq(S)) : SetToSeq(S)[i] = x
<1> PICK n \in Nat : n = Cardinality(S)
  BY FS_CardinalityType
<1>1. ExistsBijection(1..n, S)
  BY FS_CardinalityType
<1>2. \E f \in [1..n -> S] : IsInjective(f)
  BY <1>1 DEF ExistsBijection, Bijection, Injection, Surjection
<1> PICK f : f = SetToSeq(S)
  OBVIOUS
<1>3. f \in [1..n -> S] /\ IsInjective(f)
  BY <1>2 DEF SetToSeq
<1>4. f \in Injection(1..n, S)
  BY <1>3 DEF Injection
<1>5. Cardinality(1..n) = n
  <2>1. Cardinality(1..n) = IF 1 > n THEN 0 ELSE n - 1 + 1
    <3>1. 1 \in Int /\ n \in Int
      OBVIOUS
    <3> QED BY <3>1, FS_Interval
  <2> QED BY <2>1
<1>6. f \in Surjection(1..n, S)
  BY <1>4, <1>5, FS_Injection
<1>7. f \in Seq(S) /\ Len(f) = n
  BY <1>3
<1> QED BY <1>6, <1>7 DEF Surjection

\* The last of some positions.
LEMMA LastOf ==
  ASSUME NEW n \in Nat, NEW S, S \subseteq 1..n, S # {}
  PROVE  Max(S) \in S /\ \A y \in S : y <= Max(S)
<1> DEFINE T == {n - x : x \in S}
<1>1. T \subseteq Nat /\ T # {}
  <2>1. \A x \in S : n - x \in Nat
    OBVIOUS
  <2> QED BY <2>1
<1>2. PICK t \in T : \A u \in T : t <= u
  BY <1>1, Least
<1>3. PICK x \in S : t = n - x
  OBVIOUS
<1>4. \A y \in S : x >= y
  <2> SUFFICES ASSUME NEW y \in S PROVE x >= y
    OBVIOUS
  <2>1. n - y \in T
    BY Zenon
  <2>2. x \in 1..n /\ y \in 1..n
    OBVIOUS
  <2>3. n - x <= n - y
    BY <1>2, <1>3, <2>1
  <2> QED BY <2>2, <2>3
<1>5. Max(S) \in S /\ \A y \in S : Max(S) >= y
  BY <1>4 DEF Max
<1> QED BY <1>5

ZoneType ==
  /\ active \in {{}, Zone} /\ zones \in [Zone -> BOOLEAN \cup {None}]
  /\ zone_changes \in Seq(ZoneChange)
  /\ \A i \in 1..Len(zone_changes) : zone_changes[i].tick <= clock

\* What apply_zone adds.
LEMMA ZonesAdded ==
  ASSUME ZoneType, ApplyZones, active' \subseteq Zone, clock' \in Nat, NEW n \in Nat, n = Len(zone_changes)
  PROVE  /\ zone_changes' \in Seq(ZoneChange) /\ n <= Len(zone_changes')
         /\ \A i \in 1..n : zone_changes'[i] = zone_changes[i]
         /\ \A i \in 1..Len(zone_changes') : i > n =>
              LET c == zone_changes'[i]
              IN c.tick = clock' /\ ApplyZone(c.entity_id) /\ c.active = (c.entity_id \in active')
         /\ \A z \in Zone : ApplyZone(z) =>
              \E i \in 1..Len(zone_changes') : i > n /\ zone_changes'[i].entity_id = z
<1> DEFINE Seen(z) == [tick |-> clock', entity_id |-> z, active |-> z \in active']
<1> DEFINE changed == {z \in Zone : ApplyZone(z)}
           S == {Seen(z) : z \in changed}
<1>1. zone_changes' = zone_changes \o SetToSeq(S)
  BY DEF ApplyZones
<1>2. \A z \in changed : Seen(z) \in ZoneChange
  BY DEF ZoneChange
<1>3. IsFiniteSet(S)
  <2> DEFINE f == [z \in changed |-> Seen(z)]
  <2>1. f \in Surjection(changed, S)
    BY DEF Surjection
  <2>2. IsFiniteSet(changed)
    BY CapturesAssumption, FS_Subset
  <2> HIDE DEF f, S, changed
  <2> QED BY <2>1, <2>2, FS_Surjection
<1>4. /\ SetToSeq(S) \in Seq(S) /\ Len(SetToSeq(S)) \in Nat
      /\ \A x \in S : \E i \in 1..Len(SetToSeq(S)) : SetToSeq(S)[i] = x
  <2> HIDE DEF S
  <2> QED BY <1>3, SetSeq
<1> PICK new : new = SetToSeq(S)
  OBVIOUS
<1> PICK m \in Nat : m = Len(new)
  BY <1>4
<1>5. \A z \in changed : Seen(z).tick = clock' /\ Seen(z).entity_id = z /\ Seen(z).active = (z \in active')
  OBVIOUS
<1>6. S \subseteq ZoneChange /\ \A x \in S : \E z \in changed : x = Seen(z)
  BY <1>2
<1>7. \A z \in changed : Seen(z) \in S
  OBVIOUS
<1>8. new \in Seq(ZoneChange) /\ new \in Seq(S) /\ \A x \in S : \E i \in 1..m : new[i] = x
  <2> HIDE DEF S
  <2>1. new \in Seq(S) /\ \A i \in 1..m : new[i] \in S
    BY <1>4
  <2>2. \A i \in 1..m : new[i] \in ZoneChange
    BY <1>6, <2>1
  <2> QED BY <1>4, <2>1, <2>2
<1> HIDE DEF S, Seen
<1>9. /\ zone_changes' \in Seq(ZoneChange) /\ Len(zone_changes') = n + m
      /\ \A i \in 1..n : zone_changes'[i] = zone_changes[i]
      /\ \A i \in 1..m : zone_changes'[n + i] = new[i]
  BY <1>1, <1>8 DEF ZoneType
<1>10. ASSUME NEW i \in 1..Len(zone_changes'), i > n
       PROVE  LET c == zone_changes'[i]
              IN c.tick = clock' /\ ApplyZone(c.entity_id) /\ c.active = (c.entity_id \in active')
  <2>1. PICK k \in 1..m : i = n + k
    <3>1. i - n \in 1..m /\ i = n + (i - n)
      BY <1>9, <1>10
    <3> QED BY <3>1
  <2>2. zone_changes'[i] = new[k] /\ new[k] \in S
    BY <1>8, <1>9, <2>1
  <2>3. PICK z \in changed : zone_changes'[i] = Seen(z)
    BY <1>6, <2>2
  <2> QED BY <1>5, <2>3
<1>11. ASSUME NEW z \in Zone, ApplyZone(z)
       PROVE  \E i \in 1..Len(zone_changes') : i > n /\ zone_changes'[i].entity_id = z
  <2>1. PICK i \in 1..m : new[i] = Seen(z)
    BY <1>7, <1>8, <1>11
  <2>2. n + i \in 1..Len(zone_changes') /\ n + i > n
    BY <1>9
  <2>3. zone_changes'[n + i].entity_id = z
    BY <1>5, <1>9, <1>11, <2>1
  <2> QED BY <2>2, <2>3
<1> QED BY <1>9, <1>10, <1>11

LEMMA ZoneTicks ==
  ASSUME ZoneType
  PROVE  /\ Len(zone_changes) \in Nat /\ DOMAIN zone_changes = 1..Len(zone_changes)
         /\ \A i \in 1..Len(zone_changes) :
              /\ zone_changes[i].tick \in Nat /\ zone_changes[i].tick <= clock
              /\ zone_changes[i].entity_id \in Zone /\ zone_changes[i].active \in BOOLEAN
<1>1. ASSUME NEW i \in 1..Len(zone_changes)
      PROVE  /\ zone_changes[i].tick \in Nat
             /\ zone_changes[i].entity_id \in Zone /\ zone_changes[i].active \in BOOLEAN
  <2>1. zone_changes[i] \in ZoneChange
    BY DEF ZoneType
  <2> QED BY <2>1 DEF ZoneChange
<1> QED BY <1>1 DEF ZoneType

\* New changes leave it alone what was lit before them, and tell what is now.
LEMMA LitApplied ==
  ASSUME ZoneType, ApplyZones, active' \subseteq Zone, clock' \in Nat, clock \in Nat, clock < clock',
         NEW z \in Zone, NEW tick \in Int
  PROVE  /\ tick < clock' => (LitBy(z, tick)' <=> LitBy(z, tick))
         /\ tick >= clock' => (LitBy(z, tick)' <=> IF ApplyZone(z) THEN z \in active' ELSE LitBy(z, tick))
<1> PICK n \in Nat : n = Len(zone_changes)
  BY ZoneTicks
<1>1. /\ zone_changes' \in Seq(ZoneChange) /\ n <= Len(zone_changes')
      /\ \A i \in 1..n : zone_changes'[i] = zone_changes[i]
      /\ \A i \in 1..Len(zone_changes') : i > n =>
           /\ zone_changes'[i].tick = clock' /\ ApplyZone(zone_changes'[i].entity_id)
           /\ zone_changes'[i].active = (zone_changes'[i].entity_id \in active')
      /\ ApplyZone(z) =>
           \E i \in 1..Len(zone_changes') : i > n /\ zone_changes'[i].entity_id = z
  BY ZonesAdded
<1> PICK m \in Nat : m = Len(zone_changes')
  BY <1>1
<1>2. DOMAIN zone_changes = 1..n /\ DOMAIN zone_changes' = 1..m
  BY <1>1 DEF ZoneType
<1> PICK S : S = {i \in 1..n : zone_changes[i].entity_id = z /\ zone_changes[i].tick <= tick}
  OBVIOUS
<1> PICK T : T = {i \in 1..m : zone_changes'[i].entity_id = z /\ zone_changes'[i].tick <= tick}
  OBVIOUS
<1>3. LitBy(z, tick) <=> S # {} /\ zone_changes[Max(S)].active
  BY <1>2 DEF LitBy
<1>4. LitBy(z, tick)' <=> T # {} /\ zone_changes'[Max(T)].active
  BY <1>2 DEF LitBy
<1>5. \A i \in 1..n : i \in S <=> i \in T
  BY <1>1
<1>6. ASSUME tick < clock' \/ ~ApplyZone(z)
      PROVE  LitBy(z, tick)' <=> LitBy(z, tick)
  <2>1. ASSUME NEW i \in T, i \notin 1..n
        PROVE  FALSE
    <3>1. i \in 1..m /\ i > n
      BY <2>1
    <3>2. zone_changes'[i].tick = clock' /\ ApplyZone(z) /\ zone_changes'[i].tick <= tick
      BY <1>1, <3>1
    <3> QED BY <1>6, <3>2
  <2>2. S = T
    BY <1>5, <2>1
  <2>3. S # {} => Max(S) \in 1..n
    BY LastOf
  <2> QED BY <1>1, <1>3, <1>4, <2>2, <2>3
<1>7. ASSUME tick >= clock', ApplyZone(z)
      PROVE  LitBy(z, tick)' <=> z \in active'
  <2>1. PICK i \in 1..m : i > n /\ zone_changes'[i].entity_id = z
    BY <1>1, <1>7
  <2>2. i \in T
    BY <1>1, <1>7, <2>1
  <2>3. T # {} /\ Max(T) \in T /\ i <= Max(T)
    <3>1. T \subseteq 1..m /\ T # {}
      BY <2>2
    <3> QED BY <2>2, <3>1, LastOf
  <2>4. Max(T) \in 1..m /\ Max(T) > n /\ zone_changes'[Max(T)].entity_id = z
    BY <2>1, <2>3
  <2>5. zone_changes'[Max(T)].active = (z \in active')
    BY <1>1, <2>4
  <2> QED BY <1>4, <2>3, <2>5
<1> QED BY <1>6, <1>7

\* The carrier before a limit stays, and after the last change is the present one.
LEMMA CarrierStays ==
  ASSUME GhostType, NEW limit \in Int, clock' \in Nat, limit <= clock',
         NEW n \in Nat, n = Len(carrier_changes), NEW m \in Nat, m = Len(carrier_changes'),
         DOMAIN carrier_changes' = 1..m, n <= m,
         \A i \in 1..n : carrier_changes'[i] = carrier_changes[i],
         \A i \in 1..m : i > n => carrier_changes'[i].tick = clock'
  PROVE  CarrierBefore(limit)' = CarrierBefore(limit)
<1>1. DOMAIN carrier_changes = 1..n
  BY ChangeType
<1> PICK S : S = {i \in 1..n : carrier_changes[i].tick < limit}
  OBVIOUS
<1> PICK T : T = {i \in 1..m : carrier_changes'[i].tick < limit}
  OBVIOUS
<1>2. CarrierBefore(limit) = IF S = {} THEN 0 ELSE carrier_changes[Max(S)].entity_id
  BY <1>1 DEF CarrierBefore
<1>3. CarrierBefore(limit)' = IF T = {} THEN 0 ELSE carrier_changes'[Max(T)].entity_id
  BY DEF CarrierBefore
<1>4. \A i \in T : i \in 1..n
  <2> SUFFICES ASSUME NEW i \in 1..m, i > n PROVE i \notin T
    OBVIOUS
  <2> QED OBVIOUS
<1>5. S = T
  BY <1>4
<1>6. S # {} => Max(S) \in 1..n
  BY LastOf
<1>7. S # {} => carrier_changes'[Max(S)] = carrier_changes[Max(S)]
  BY <1>6
<1>8. CarrierBefore(limit)' = IF S = {} THEN 0 ELSE carrier_changes'[Max(S)].entity_id
  BY <1>3, <1>5
<1>9. CASE S = {}
  BY <1>2, <1>8, <1>9
<1>10. CASE S # {}
  <2>1. CarrierBefore(limit)' = carrier_changes'[Max(S)].entity_id
    BY <1>8, <1>10
  <2>2. CarrierBefore(limit) = carrier_changes[Max(S)].entity_id
    BY <1>2, <1>10
  <2> QED BY <1>7, <1>10, <2>1, <2>2
<1> QED BY <1>9, <1>10

LastBefore(cs, limit) ==
  LET is == {i \in DOMAIN cs : cs[i].tick < limit}
  IN IF is = {} THEN 0 ELSE cs[Max(is)].entity_id

LEMMA LastNow ==
  ASSUME NEW cs \in Seq(CarrierChange), NEW limit \in Int, \A i \in 1..Len(cs) : cs[i].tick < limit
  PROVE  LastBefore(cs, limit) = IF cs = <<>> THEN 0 ELSE cs[Len(cs)].entity_id
<1> PICK n \in Nat : n = Len(cs)
  OBVIOUS
<1>1. LastBefore(cs, limit) = IF 1..n = {} THEN 0 ELSE cs[Max(1..n)].entity_id
  <2>1. {i \in DOMAIN cs : cs[i].tick < limit} = 1..n
    OBVIOUS
  <2> QED BY <2>1 DEF LastBefore
<1>2. CASE n = 0
  <2>1. cs = <<>>
    <3>1. Len(cs) = 0
      BY <1>2
    <3> QED BY <3>1, EmptySeq
  <2>2. 1..n = {}
    BY <1>2
  <2> QED BY <1>1, <2>1, <2>2
<1>3. CASE n > 0
  <2>1. 1..n # {} /\ n \in 1..n /\ cs # <<>>
    BY <1>3
  <2>2. Max(1..n) \in 1..n /\ n <= Max(1..n)
    BY <2>1, LastOf
  <2>3. Max(1..n) = n
    BY <2>2
  <2> QED BY <1>1, <2>1, <2>3
<1> QED BY <1>2, <1>3

LEMMA CarrierNow ==
  /\ GhostInv /\ on /\ clock \in Nat =>
       \A limit \in Int : clock < limit => CarrierBefore(limit) = ghoster
  /\ (GhostInv /\ on /\ clock \in Nat)' =>
       \A limit \in Int : clock' < limit => CarrierBefore(limit)' = ghoster'
<1>1. ASSUME GhostInv, on, clock \in Nat, NEW limit \in Int, clock < limit
      PROVE  CarrierBefore(limit) = ghoster
  <2>1. /\ carrier_changes \in Seq(CarrierChange)
        /\ \A i \in 1..Len(carrier_changes) : carrier_changes[i].tick < limit
    <3>1. \A i \in 1..Len(carrier_changes) :
            carrier_changes[i].tick \in Nat /\ carrier_changes[i].tick <= clock
      BY <1>1, ChangeType DEF GhostInv, CarrierKnown
    <3> QED BY <1>1, <3>1 DEF GhostInv, GhostType
  <2>2. CarrierBefore(limit) = LastBefore(carrier_changes, limit)
    BY DEF CarrierBefore, LastBefore
  <2> QED BY <1>1, <2>1, <2>2, LastNow DEF GhostInv, CarrierKnown
<1>2. ASSUME GhostInv', on', clock' \in Nat, NEW limit \in Int, clock' < limit
      PROVE  CarrierBefore(limit)' = ghoster'
  <2>1. /\ carrier_changes' \in Seq(CarrierChange)
        /\ \A i \in 1..Len(carrier_changes') : carrier_changes'[i].tick < limit
    <3>1. carrier_changes' \in Seq(CarrierChange)
      BY <1>2 DEF GhostInv, GhostType
    <3>2. ASSUME NEW i \in 1..Len(carrier_changes')
          PROVE  carrier_changes'[i].tick < limit
      <4>1. carrier_changes'[i] \in CarrierChange /\ carrier_changes'[i].tick <= clock'
        BY <1>2, <3>1 DEF GhostInv, CarrierKnown
      <4>2. carrier_changes'[i].tick \in Nat
        BY <4>1 DEF CarrierChange
      <4> QED BY <1>2, <4>1, <4>2
    <3> QED BY <3>1, <3>2
  <2>2. CarrierBefore(limit)' = LastBefore(carrier_changes', limit)
    BY DEF CarrierBefore, LastBefore
  <2>3. ghoster' = IF carrier_changes' = <<>> THEN 0
                   ELSE carrier_changes'[Len(carrier_changes')].entity_id
    BY <1>2 DEF GhostInv, CarrierKnown
  <2> QED BY <2>1, <2>2, <2>3, LastNow
<1> QED BY <1>1, <1>2

-----------------------------------------------------------------------------

\* The carrier on the end tick, or before it when it was cleared on it.
CarrierAt(end) == IF CarrierBefore(end + 1) # 0 THEN CarrierBefore(end + 1) ELSE CarrierBefore(end)

\* Before a round's end all zones are lit, and within the window after it they
\* are off when it was won by a capture, by the carrier, and lit else.
EndKnown(end) ==
  /\ \A z \in Zone : LitBy(z, end - EndWindow - 1)
  /\ (\E c \in captures : c.tick = end) \/ \A z \in Zone : LitBy(z, end + EndWindow)
  /\ \A c \in captures :
       c.tick = end => /\ \A z \in Zone : ~LitBy(z, end + EndWindow)
                       /\ c.entity_id # 0 /\ c.entity_id = CarrierAt(end)

\* The changes recorded tell which zones are lit.
ZonesKnown ==
  IF on THEN \A z \in Zone : /\ zones[z] = (z \in active)
                             /\ \A tick \in Int : tick >= clock => (LitBy(z, tick) <=> z \in active)
  ELSE zone_changes = <<>> /\ captures = {} /\ \A z \in Zone : zones[z] = None

ZoneInv ==
  /\ ZoneType /\ ZonesKnown
  /\ \A c \in captures : c.tick \in Nat /\ c.tick <= clock
  /\ pc = "record" /\ phase \in {"freeze", "live"} => active = Zone
  /\ \A j \in 1..Len(played) : played[j].end # None => EndKnown(played[j].end)

\* What a step that applies the zones leaves of them.
LEMMA ZonesStep ==
  ASSUME ZoneInv, ApplyZones, active' \in {{}, Zone}, clock \in Nat, clock' \in Nat, clock < clock',
         on => on', on' \in BOOLEAN
  PROVE  /\ ZoneType'
         /\ on' => /\ \A z \in Zone : zones'[z] = (z \in active')
                   /\ \A z \in Zone, tick \in Int :
                        /\ tick < clock' => (LitBy(z, tick)' <=> LitBy(z, tick))
                        /\ tick >= clock' => (LitBy(z, tick)' <=> z \in active')
         /\ ~on' => zone_changes' = <<>> /\ \A z \in Zone : zones'[z] = None
<1> PICK n \in Nat : n = Len(zone_changes)
  BY ZoneTicks DEF ZoneInv
<1>1. /\ ZoneType /\ ZonesKnown /\ active' \subseteq Zone
  BY DEF ZoneInv
<1>2. /\ zone_changes' \in Seq(ZoneChange) /\ n <= Len(zone_changes')
      /\ \A i \in 1..n : zone_changes'[i] = zone_changes[i]
      /\ \A i \in 1..Len(zone_changes') : i > n =>
           zone_changes'[i].tick = clock' /\ ApplyZone(zone_changes'[i].entity_id)
  BY <1>1, ZonesAdded
<1>3. zones' = [z \in Zone |-> IF ApplyZone(z) THEN z \in active' ELSE zones[z]]
  BY DEF ApplyZones
<1>4. zones' \in [Zone -> BOOLEAN \cup {None}]
  <2>1. \A z \in Zone : (IF ApplyZone(z) THEN z \in active' ELSE zones[z]) \in BOOLEAN \cup {None}
    BY <1>1 DEF ZoneType
  <2> HIDE DEF ApplyZone
  <2> QED BY <1>3, <2>1
<1>5. \A i \in 1..Len(zone_changes') : zone_changes'[i].tick <= clock'
  <2> SUFFICES ASSUME NEW i \in 1..Len(zone_changes') PROVE zone_changes'[i].tick <= clock'
    OBVIOUS
  <2>1. CASE i > n
    BY <1>2, <2>1
  <2>2. CASE i \in 1..n
    BY <1>1, <1>2, <2>2, ZoneTicks
  <2> QED BY <1>2, <2>1, <2>2
<1>6. ZoneType'
  BY <1>2, <1>4, <1>5 DEF ZoneType
<1>7. ASSUME ~on'
      PROVE  zone_changes' = <<>> /\ \A z \in Zone : zones'[z] = None
  <2>1. \A z : ~ApplyZone(z)
    BY <1>7 DEF ApplyZone
  <2>2. zone_changes = <<>> /\ \A z \in Zone : zones[z] = None
    BY <1>1, <1>7 DEF ZonesKnown
  <2>3. Len(zone_changes') = 0
    BY <1>2, <2>1, <2>2
  <2> QED BY <1>2, <1>3, <2>1, <2>2, <2>3
<1>8. ASSUME on', NEW z \in Zone
      PROVE  /\ zones'[z] = (z \in active')
             /\ \A tick \in Int : /\ tick < clock' => (LitBy(z, tick)' <=> LitBy(z, tick))
                                  /\ tick >= clock' => (LitBy(z, tick)' <=> z \in active')
  <2>1. ApplyZone(z) <=> zones[z] # (z \in active')
    BY <1>8 DEF ApplyZone
  <2>2. zones'[z] = (z \in active')
    BY <1>3, <2>1
  <2>3. ASSUME NEW tick \in Int, tick >= clock', ~ApplyZone(z)
        PROVE  LitBy(z, tick) <=> z \in active'
    <3>1. on /\ zones[z] = (z \in active) /\ (LitBy(z, tick) <=> z \in active)
      <4>1. on
        <5>1. zones[z] = (z \in active') /\ (z \in active') \in BOOLEAN
          BY <2>1, <2>3
        <5>2. zones[z] \in BOOLEAN
          BY <5>1
        <5>3. zones[z] # None
          BY <5>2, CapturesAssumption
        <5> QED BY <1>1, <5>3 DEF ZonesKnown
      <4> QED BY <1>1, <2>3, <4>1 DEF ZonesKnown
    <3> QED BY <2>1, <2>3, <3>1
  <2>4. \A tick \in Int :
          /\ tick < clock' => (LitBy(z, tick)' <=> LitBy(z, tick))
          /\ tick >= clock' => (LitBy(z, tick)' <=> IF ApplyZone(z) THEN z \in active' ELSE LitBy(z, tick))
    BY <1>1, LitApplied
  <2> QED BY <2>2, <2>3, <2>4
<1> QED BY <1>6, <1>7, <1>8

LEMMA LimitStays ==
  ASSUME GhostInv, on', ApplyRules, ghoster' \in Nat, clock \in Nat, clock' \in Nat, clock < clock',
         NEW limit \in Int, limit <= clock'
  PROVE  CarrierBefore(limit)' = CarrierBefore(limit)
<1> PICK n \in Nat : n = Len(carrier_changes)
  BY ChangeType DEF GhostInv
<1> PICK m : m = Len(carrier_changes')
  OBVIOUS
<1>1. /\ m \in Nat /\ DOMAIN carrier_changes' = 1..m /\ n <= m
      /\ \A i \in 1..n : carrier_changes'[i] = carrier_changes[i]
      /\ \A i \in 1..m : i > n => carrier_changes'[i].tick = clock'
  <2>1. /\ carrier_changes' \in Seq(CarrierChange)
        /\ ghoster' = carrier => carrier_changes' = carrier_changes
        /\ ghoster' # carrier =>
             /\ Len(carrier_changes') = Len(carrier_changes) + 1
             /\ carrier_changes'[Len(carrier_changes) + 1] = [tick |-> clock', entity_id |-> ghoster']
        /\ \A i \in 1..Len(carrier_changes) : carrier_changes'[i] = carrier_changes[i]
    BY RulesApplied DEF GhostInv
  <2>2. m \in Nat /\ DOMAIN carrier_changes' = 1..m
    BY <2>1
  <2>3. CASE ghoster' = carrier
    BY <2>1, <2>2, <2>3
  <2>4. CASE ghoster' # carrier
    <3>1. m = n + 1 /\ carrier_changes'[n + 1].tick = clock'
      BY <2>1, <2>4
    <3> QED BY <2>1, <2>2, <3>1
  <2> QED BY <2>3, <2>4
<1> QED BY <1>1, CarrierStays DEF GhostInv

\* What is known of an end stays known as the match goes on.
LEMMA EndStays ==
  ASSUME MInv, GhostInv, on, on', NextTick, ApplyRules, ghoster' \in Nat,
         NEW e \in Nat, e <= clock, EndKnown(e),
         \A z \in Zone, tick \in Int : tick < clock' => (LitBy(z, tick)' <=> LitBy(z, tick)),
         captures \subseteq captures', \A c \in captures' : c \in captures \/ c.tick = clock'
  PROVE  EndKnown(e)'
<1>1. clock \in Nat /\ clock' \in Nat /\ clock < clock'
  BY Later DEF MInv, MatchType
<1>2. /\ e - EndWindow - 1 \in Int /\ e + EndWindow \in Int /\ e \in Int /\ e + 1 \in Int
      /\ e - EndWindow - 1 < clock' /\ e + EndWindow < clock' /\ e <= clock' /\ e + 1 <= clock'
      /\ e # clock'
  <2>1. clock' = clock + Gap /\ Gap \in Nat /\ EndWindow \in Nat /\ EndWindow < Gap
    BY CapturesAssumption, RecordedMatchAssumption DEF NextTick
  <2> QED BY <1>1, <2>1
<1>3. CarrierBefore(e)' = CarrierBefore(e) /\ CarrierBefore(e + 1)' = CarrierBefore(e + 1)
  BY <1>1, <1>2, LimitStays
<1>4. CarrierAt(e)' = CarrierAt(e)
  BY <1>3 DEF CarrierAt
<1>5. \A z \in Zone : /\ LitBy(z, e - EndWindow - 1)' <=> LitBy(z, e - EndWindow - 1)
                      /\ LitBy(z, e + EndWindow)' <=> LitBy(z, e + EndWindow)
  BY <1>2
<1>6. \A c \in captures' : c.tick = e => c \in captures
  BY <1>2
<1> QED BY <1>4, <1>5, <1>6 DEF EndKnown

\* A round ends, by a capture or not.
LEMMA EndBecomesKnown ==
  ASSUME MInv, GhostInv, GhostInv', ZoneInv, on, on', NextTick, ApplyRules, pc = "record", phase = "live",
         ghoster' \in {ghoster, 0}, NEW e \in Nat, e = clock', active' \in {{}, Zone},
         \A z \in Zone, tick \in Int :
           /\ tick < clock' => (LitBy(z, tick)' <=> LitBy(z, tick))
           /\ tick >= clock' => (LitBy(z, tick)' <=> z \in active'),
         \/ /\ ghoster # 0 /\ active' = {}
            /\ captures' = captures \cup {[tick |-> clock', entity_id |-> ghoster]}
         \/ UNCHANGED <<active, captures>>
  PROVE  EndKnown(e)'
<1>1. clock \in Nat /\ clock' \in Nat /\ clock < clock' /\ active = Zone
  BY Later DEF MInv, MatchType, ZoneInv
<1>2. /\ e - EndWindow - 1 \in Int /\ e + EndWindow \in Int /\ e \in Int /\ e + 1 \in Int
      /\ e - EndWindow - 1 < clock' /\ e - EndWindow - 1 >= clock /\ e + EndWindow >= clock'
      /\ clock < e /\ clock' < e + 1
  <2>1. clock' = clock + Gap /\ Gap \in Nat /\ EndWindow \in Nat /\ EndWindow < Gap
    BY CapturesAssumption, RecordedMatchAssumption DEF NextTick
  <2> QED BY <1>1, <2>1
<1>3. \A z \in Zone : LitBy(z, e - EndWindow - 1)'
  BY <1>1, <1>2 DEF ZoneInv, ZonesKnown
<1>4. \A z \in Zone : LitBy(z, e + EndWindow)' <=> z \in active'
  BY <1>2
<1>5. \A c \in captures : c.tick # e
  BY <1>1 DEF ZoneInv
<1>6. CASE UNCHANGED <<active, captures>>
  <2>1. \A c \in captures' : c.tick # e
    BY <1>5, <1>6
  <2>2. \A z \in Zone : LitBy(z, e + EndWindow)'
    BY <1>1, <1>4, <1>6
  <2> QED BY <1>3, <2>1, <2>2 DEF EndKnown
<1>7. CASE /\ ghoster # 0 /\ active' = {}
           /\ captures' = captures \cup {[tick |-> clock', entity_id |-> ghoster]}
  <2>1. CarrierBefore(e)' = ghoster
    <3>1. CarrierBefore(e) = ghoster
      BY <1>1, <1>2, CarrierNow
    <3>2. ghoster' \in Nat
      BY DEF GhostInv, GhostType
    <3>3. CarrierBefore(e)' = CarrierBefore(e)
      BY <1>1, <1>2, <3>2, LimitStays
    <3> QED BY <3>1, <3>3
  <2>2. CarrierBefore(e + 1)' = ghoster'
    BY <1>1, <1>2, CarrierNow
  <2>3. CarrierAt(e)' = ghoster
    BY <2>1, <2>2 DEF CarrierAt
  <2>4. \A c \in captures' : c.tick = e => c.entity_id = ghoster
    BY <1>5, <1>7
  <2>5. \E c \in captures' : c.tick = e
    <3>1. [tick |-> clock', entity_id |-> ghoster].tick = e
      OBVIOUS
    <3>2. [tick |-> clock', entity_id |-> ghoster] \in captures'
      BY <1>7
    <3> QED BY <3>1, <3>2
  <2>6. \A z \in Zone : ~LitBy(z, e + EndWindow)'
    BY <1>4, <1>7
  <2> QED BY <1>3, <1>7, <2>3, <2>4, <2>5, <2>6 DEF EndKnown
<1> QED BY <1>6, <1>7

LEMMA ZoneInvInit == CapturesInit => ZoneInv
<1> SUFFICES ASSUME CapturesInit PROVE ZoneInv
  OBVIOUS
<1>1. /\ ~on /\ played = <<>> /\ phase = "idle"
      /\ active = {} /\ zones = [z \in Zone |-> None] /\ zone_changes = <<>> /\ captures = {}
  BY DEF CapturesInit, GhostInit, MatchInit
<1>2. ZoneType /\ ZonesKnown
  BY <1>1 DEF ZoneType, ZonesKnown
<1> QED BY <1>1, <1>2 DEF ZoneInv

\* The ends of the rounds played so far stay known.
LEMMA EndsStay ==
  ASSUME MInv, GhostInv, ZoneInv, on, on', NextTick, ApplyRules, ghoster' \in Nat,
         \A z \in Zone, tick \in Int : tick < clock' => (LitBy(z, tick)' <=> LitBy(z, tick)),
         captures \subseteq captures', \A c \in captures' : c \in captures \/ c.tick = clock',
         NEW j \in 1..Len(played), NEW e, e = played[j].end, e # None
  PROVE  EndKnown(e)'
<1>1. e \in Nat /\ e <= clock
  BY PlayedType DEF MInv, Recorded, PlayedInTurn
<1>2. EndKnown(e)
  BY DEF ZoneInv
<1> QED BY <1>1, <1>2, EndStays

\* The zones as the ghost changes hands, a round begins or ends, and the
\* recording begins.
LEMMA ZonesTaken ==
  ASSUME MInv, GhostInv, ZoneInv, TakeOrDrop, UNCHANGED capture
  PROVE  ZoneInv'
<1>1. /\ UNCHANGED <<phase, on, played, active, zones, zone_changes, captures>> /\ NextTick /\ ApplyRules
      /\ pc' = pc /\ ghoster' \in Nat
  BY GhostHoldsAssumption DEF TakeOrDrop, capture, vars
<1>2. clock \in Nat /\ clock' \in Nat /\ clock < clock'
  BY <1>1, Later DEF MInv, MatchType
<1>3. \A z, tick : LitBy(z, tick)' <=> LitBy(z, tick)
  BY <1>1 DEF LitBy
<1>4. ZoneType'
  <2>1. \A i \in 1..Len(zone_changes) : zone_changes[i].tick <= clock'
    BY <1>2, ZoneTicks DEF ZoneInv
  <2> QED BY <1>1, <2>1 DEF ZoneInv, ZoneType
<1>5. ZonesKnown'
  BY <1>1, <1>2, <1>3 DEF ZoneInv, ZonesKnown
<1>6. ASSUME NEW j \in 1..Len(played), NEW e, e = played[j].end, e # None
      PROVE  EndKnown(e)'
  <2>1. CASE on
    BY <1>1, <1>3, <1>6, <2>1, EndsStay
  <2>2. CASE ~on
    BY <1>6, <2>2, EmptySeq DEF MInv, MatchType, TakeOrDrop
  <2> QED BY <2>1, <2>2
<1>7. \A c \in captures' : c.tick \in Nat /\ c.tick <= clock'
  BY <1>1, <1>2 DEF ZoneInv
<1>8. \A j \in 1..Len(played') : played'[j].end # None => \A e : e = played'[j].end => EndKnown(e)'
  BY <1>1, <1>6
<1> QED BY <1>1, <1>4, <1>5, <1>7, <1>8 DEF ZoneInv

LEMMA ZonesBegin ==
  ASSUME MInv, GhostInv, ZoneInv, CaptureBegins
  PROVE  ZoneInv'
<1>1. /\ UNCHANGED <<on, captures>> /\ NextTick /\ ApplyRules /\ ApplyZones /\ BeginRound
      /\ pc' = pc /\ ghoster' = 0 /\ active' = Zone /\ on \in BOOLEAN /\ pc = "record"
  BY DEF CaptureBegins, RoundBegins, BeginRound, MInv, MatchType
<1>2. clock \in Nat /\ clock' \in Nat /\ clock < clock'
  BY <1>1, Later DEF MInv, MatchType
<1>3. /\ ZoneType'
      /\ on' => /\ \A z \in Zone : zones'[z] = (z \in active')
                /\ \A z \in Zone, tick \in Int :
                     /\ tick < clock' => (LitBy(z, tick)' <=> LitBy(z, tick))
                     /\ tick >= clock' => (LitBy(z, tick)' <=> z \in active')
      /\ ~on' => zone_changes' = <<>> /\ \A z \in Zone : zones'[z] = None
  BY <1>1, <1>2, ZonesStep
<1>4. ZonesKnown'
  BY <1>1, <1>3 DEF ZoneInv, ZonesKnown
<1>5. ASSUME NEW j \in 1..Len(played'), NEW e, e = played'[j].end, e # None
      PROVE  EndKnown(e)'
  <2>1. CASE on
    <3> PICK q : q = [number |-> number', heard |-> TRUE, shown |-> clock', end |-> None]
      OBVIOUS
    <3> PICK n \in Nat : n = Len(played)
      BY <2>1 DEF MInv, Recorded, PlayedInTurn
    <3>1. q.end = None /\ played' = Append(played, q) /\ played \in Seq(Played)
      BY <1>1, <2>1 DEF BeginRound, MInv, Recorded, PlayedInTurn
    <3>2. Len(played') = n + 1 /\ played'[n + 1] = q /\ \A i \in 1..n : played'[i] = played[i]
      BY <3>1
    <3>3. j \in 1..n
      BY <1>5, <3>1, <3>2
    <3>4. e = played[j].end
      BY <1>5, <3>2, <3>3
    <3> QED BY <1>1, <1>3, <1>5, <2>1, <3>3, <3>4, EndsStay
  <2>2. CASE ~on
    <3>1. played' = <<>>
      BY <1>1, <2>2 DEF BeginRound, MInv, MatchType
    <3> QED BY <1>5, <3>1, EmptySeq
  <2> QED BY <2>1, <2>2
<1>6. \A c \in captures' : c.tick \in Nat /\ c.tick <= clock'
  BY <1>1, <1>2 DEF ZoneInv
<1>7. \A j \in 1..Len(played') : played'[j].end # None => \A e : e = played'[j].end => EndKnown(e)'
  BY <1>5
<1> QED BY <1>1, <1>3, <1>4, <1>6, <1>7 DEF ZoneInv

LEMMA ZonesEnd ==
  ASSUME MInv, GhostInv, GhostInv', ZoneInv, CaptureEnds
  PROVE  ZoneInv'
<1>1. /\ on' = on /\ NextTick /\ ApplyRules /\ ApplyZones /\ EndRound
      /\ pc' = pc /\ ghoster' \in {ghoster, 0} /\ on \in BOOLEAN /\ pc = "record"
      /\ phase = "live" /\ phase' = "over" /\ ghoster' \in Nat
  BY DEF CaptureEnds, RoundEnds, EndRound, MInv, MatchType, GhostInv, GhostType
<1>2. clock \in Nat /\ clock' \in Nat /\ clock < clock'
  BY <1>1, Later DEF MInv, MatchType
<1>3. \/ /\ ghoster # 0 /\ active' = {}
         /\ captures' = IF on THEN captures \cup {[tick |-> clock', entity_id |-> ghoster]} ELSE captures
      \/ UNCHANGED <<active, captures>>
  BY DEF CaptureEnds
<1>4. active' \in {{}, Zone} /\ captures \subseteq captures'
      /\ (~on => captures' = captures)
      /\ \A c \in captures' : c \in captures \/ c.tick = clock'
  BY <1>3 DEF ZoneInv, ZoneType
<1>5. /\ ZoneType'
      /\ on' => /\ \A z \in Zone : zones'[z] = (z \in active')
                /\ \A z \in Zone, tick \in Int :
                     /\ tick < clock' => (LitBy(z, tick)' <=> LitBy(z, tick))
                     /\ tick >= clock' => (LitBy(z, tick)' <=> z \in active')
      /\ ~on' => zone_changes' = <<>> /\ \A z \in Zone : zones'[z] = None
  BY <1>1, <1>2, <1>4, ZonesStep
<1>6. ZonesKnown'
  BY <1>1, <1>4, <1>5 DEF ZoneInv, ZonesKnown
<1>7. ASSUME NEW j \in 1..Len(played'), NEW e, e = played'[j].end, e # None
      PROVE  EndKnown(e)'
  <2>1. CASE on
    <3> PICK n \in Nat \ {0} :
          /\ n = Len(played) /\ n = Len(played') /\ played'[n].end = clock'
          /\ \A i \in 1..(n - 1) : played'[i] = played[i]
      BY <1>1, <2>1, EndPlayed
    <3>1. CASE j = n
      <4>1. e \in Nat /\ e = clock'
        BY <1>2, <1>7, <3>1
      <4> QED BY <1>1, <1>3, <1>4, <1>5, <2>1, <4>1, EndBecomesKnown
    <3>2. CASE j # n
      <4>1. j \in 1..n /\ e = played[j].end
        BY <1>7, <3>2
      <4> QED BY <1>1, <1>4, <1>5, <1>7, <2>1, <4>1, EndsStay
    <3> QED BY <3>1, <3>2
  <2>2. CASE ~on
    <3>1. played' = <<>>
      BY <1>1, <2>2 DEF EndRound, MInv, MatchType
    <3> QED BY <1>7, <3>1, EmptySeq
  <2> QED BY <2>1, <2>2
<1>8. \A c \in captures' : c.tick \in Nat /\ c.tick <= clock'
  <2> SUFFICES ASSUME NEW c \in captures' PROVE c.tick \in Nat /\ c.tick <= clock'
    OBVIOUS
  <2>1. CASE c \in captures
    <3>1. c.tick \in Nat /\ c.tick <= clock
      BY <2>1 DEF ZoneInv
    <3> QED BY <1>2, <3>1
  <2> QED BY <1>2, <1>4, <2>1
<1>9. \A j \in 1..Len(played') : played'[j].end # None => \A e : e = played'[j].end => EndKnown(e)'
  BY <1>7
<1> QED BY <1>1, <1>5, <1>6, <1>8, <1>9 DEF ZoneInv

LEMMA ZonesJoined ==
  ASSUME MInv, GhostInv, ZoneInv, CaptureRecordingBegins
  PROVE  ZoneInv'
<1>1. /\ UNCHANGED <<active, captures, phase>> /\ NextTick /\ ApplyZones /\ pc' = pc /\ ~on /\ on'
      /\ BeginRecording /\ on' = TRUE
  BY DEF CaptureRecordingBegins, RecordingBegins, BeginRecording
<1>2. clock \in Nat /\ clock' \in Nat /\ clock < clock'
  BY <1>1, Later DEF MInv, MatchType
<1>3. active' \in {{}, Zone} /\ on' \in BOOLEAN
  BY <1>1 DEF ZoneInv, ZoneType
<1>4. /\ ZoneType'
      /\ on' => /\ \A z \in Zone : zones'[z] = (z \in active')
                /\ \A z \in Zone, tick \in Int :
                     /\ tick < clock' => (LitBy(z, tick)' <=> LitBy(z, tick))
                     /\ tick >= clock' => (LitBy(z, tick)' <=> z \in active')
      /\ ~on' => zone_changes' = <<>> /\ \A z \in Zone : zones'[z] = None
  BY <1>1, <1>2, <1>3, ZonesStep
<1>5. ZonesKnown'
  BY <1>1, <1>4 DEF ZonesKnown
<1>6. \A j \in 1..Len(played') : played'[j].end = None
  <2>1. PICK q : q.end = None /\ played' \in {<<q>>, <<>>}
    <3>1. PICK heard \in BOOLEAN :
            played' = IF phase \in {"freeze", "live"}
                        THEN <<[number |-> number, heard |-> heard, end |-> None,
                                shown |-> IF phase = "freeze" THEN clock' ELSE None]>>
                        ELSE <<>>
      BY <1>1 DEF BeginRecording
    <3> PICK q : q = [number |-> number, heard |-> heard, end |-> None,
                      shown |-> IF phase = "freeze" THEN clock' ELSE None]
      OBVIOUS
    <3>2. q.end = None /\ played' \in {<<q>>, <<>>}
      BY <3>1
    <3> QED BY <3>2
  <2>2. CASE played' = <<q>>
    <3>1. Len(played') = 1 /\ played'[1] = q
      BY <2>2
    <3> QED BY <2>1, <3>1
  <2>3. CASE played' = <<>>
    BY <2>3, EmptySeq
  <2> QED BY <2>1, <2>2, <2>3
<1>7. captures' = {}
  BY <1>1 DEF ZoneInv, ZonesKnown
<1> QED BY <1>1, <1>4, <1>5, <1>6, <1>7 DEF ZoneInv

LEMMA ZonesLeft ==
  ASSUME ZoneInv, UNCHANGED <<capture, ghost, clock, on, played>>,
         pc' = "record" => pc = "record" /\ (phase' \in {"freeze", "live"} => phase \in {"freeze", "live"})
  PROVE  ZoneInv'
<1>1. UNCHANGED <<active, zones, zone_changes, captures, carrier_changes>>
  BY DEF capture, ghost
<1>2. \A z, tick : LitBy(z, tick)' <=> LitBy(z, tick)
  BY <1>1 DEF LitBy
<1>3. \A e : EndKnown(e)' <=> EndKnown(e)
  <2>1. \A e : CarrierAt(e)' = CarrierAt(e)
    BY <1>1 DEF CarrierAt, CarrierBefore
  <2> QED BY <1>1, <1>2, <2>1 DEF EndKnown
<1>4. ZoneType' /\ ZonesKnown'
  BY <1>1, <1>2 DEF ZoneInv, ZoneType, ZonesKnown
<1>5. \A j \in 1..Len(played') : played'[j].end # None => \A e : e = played'[j].end => EndKnown(e)'
  BY <1>3 DEF ZoneInv
<1> QED BY <1>1, <1>4, <1>5 DEF ZoneInv

LEMMA ZoneInvStep ==
  MInv /\ GhostInv /\ ZoneInv /\ [CapturesNext]_<<allVars, capture>> => ZoneInv'
<1> SUFFICES ASSUME MInv, GhostInv, ZoneInv, [CapturesNext]_<<allVars, capture>> PROVE ZoneInv'
  OBVIOUS
<1>1. CASE TakeOrDrop /\ UNCHANGED capture
  BY <1>1, ZonesTaken
<1>2. CASE CaptureBegins
  BY <1>2, ZonesBegin
<1>3. CASE CaptureEnds
  BY <1>3, GhostInvStep, ZonesEnd
<1>4. CASE CaptureRecordingBegins
  BY <1>4, ZonesJoined
<1>5. CASE UNCHANGED <<ghost, capture>>
           /\ (GoLive \/ StopRecording \/ (Next /\ UNCHANGED match) \/ UNCHANGED <<vars, match>>)
  <2>1. UNCHANGED <<capture, ghost, clock, on, played>>
    BY <1>5 DEF GoLive, StopRecording, match
  <2>2. pc' = "record" => pc = "record" /\ (phase' \in {"freeze", "live"} => phase \in {"freeze", "live"})
    <3>1. CASE GoLive
      BY <3>1 DEF GoLive, vars
    <3>2. CASE StopRecording
      BY <3>2 DEF StopRecording
    <3>3. CASE Next /\ UNCHANGED match
      BY <3>3 DEF Next, Derive, SortEnds, Close, OpenNext, KeepOpen, NumberRounds, StartFirst, CutAfter,
                  CutAt, Done, Over, vars
    <3>4. CASE UNCHANGED <<vars, match>>
      BY <3>4 DEF vars, match
    <3> QED BY <1>5, <3>1, <3>2, <3>3, <3>4
  <2> QED BY <2>1, <2>2, ZonesLeft
<1> QED BY <1>1, <1>2, <1>3, <1>4, <1>5 DEF CapturesNext, allVars

LEMMA CapturersShow ==
  ASSUME MInv, LeftInv, ZoneInv
  PROVE  CapturersAsPlayed
<1> SUFFICES ASSUME pc = "done", on, NEW i \in 1..Len(rounds), rounds[i].end # None
             PROVE  Capturer(rounds[i].end) =
                      IF \E c \in captures : c.tick = rounds[i].end
                        THEN (CHOOSE c \in captures : c.tick = rounds[i].end).entity_id ELSE None
  <2>1. rounds \in Seq(Round)
    BY DEF MInv, TypeOK
  <2>2. \A r \in Range(rounds) : \E i \in 1..Len(rounds) : r = rounds[i]
    BY <2>1 DEF Range
  <2> QED BY <2>2 DEF CapturersAsPlayed
<1> PICK s \in {0, 1} : s = Skipped
  BY DEF Skipped
<1> PICK e : e = rounds[i].end
  OBVIOUS
<1>1. EndKnown(e)
  <2>1. Left /\ rounds \in Seq(Round) /\ played \in Seq(Played)
    BY DEF LeftInv, MInv, TypeOK, Recorded, PlayedInTurn
  <2>2. Len(rounds) + s <= Len(played) /\ Len(rounds) \in Nat /\ Len(played) \in Nat
    BY <2>1 DEF Left, Merged
  <2>3. s + i \in 1..Len(played)
    BY <2>2
  <2>4. e = EndAt(s + i)
    BY <2>1 DEF Left
  <2>5. e = played[s + i].end
    BY <2>1, <2>3, <2>4, EndAtType
  <2> QED BY <2>3, <2>5 DEF ZoneInv
<1>2. /\ \A z \in Zone : LitBy(z, e - EndWindow - 1)
      /\ (\E c \in captures : c.tick = e) \/ \A z \in Zone : LitBy(z, e + EndWindow)
      /\ \A c \in captures :
           c.tick = e => /\ \A z \in Zone : ~LitBy(z, e + EndWindow)
                         /\ c.entity_id # 0 /\ c.entity_id = CarrierAt(e)
  BY <1>1 DEF EndKnown
<1>3. ZonesSwitchedOff(e) <=> \A z \in Zone : ~LitBy(z, e + EndWindow)
  <2>1. {z \in Zone : LitBy(z, e - EndWindow - 1)} = Zone
    BY <1>2
  <2> QED BY <2>1, CapturesAssumption DEF ZonesSwitchedOff
<1>4. Capturer(e) = IF ~ZonesSwitchedOff(e) \/ CarrierAt(e) = 0 THEN None ELSE CarrierAt(e)
  BY DEF Capturer, CarrierAt
<1>5. CASE \E c \in captures : c.tick = e
  <2>1. PICK c \in captures : c.tick = e /\ c = CHOOSE d \in captures : d.tick = e
    BY <1>5
  <2>2. ZonesSwitchedOff(e) /\ c.entity_id # 0 /\ c.entity_id = CarrierAt(e)
    BY <1>2, <1>3, <2>1
  <2> QED BY <1>4, <1>5, <2>1, <2>2
<1>6. CASE ~\E c \in captures : c.tick = e
  <2>1. ~ZonesSwitchedOff(e)
    BY <1>2, <1>3, <1>6, CapturesAssumption
  <2> QED BY <1>4, <1>6, <2>1
<1> QED BY <1>5, <1>6

\* In matches of any length, a round has a capturer exactly when it was won by a
\* capture, and it is the player who carried the ghost, whether the game clears
\* the carrier with the capture or leaves it (rounds.rs, capturer).
THEOREM CapturersRight == CapturesSpec => []CapturersAsPlayed
<1>1. CapturesInit => MInv /\ GhostInv /\ LeftInv /\ ZoneInv
  <2>1. CapturesInit => ~on
    BY DEF CapturesInit, GhostInit, MatchInit
  <2> QED BY <2>1, MInvCaptures, GhostInvInit, ZoneInvInit DEF CapturesInit, LeftInv
<1>2. MInv /\ GhostInv /\ LeftInv /\ ZoneInv /\ [CapturesNext]_<<allVars, capture>>
        => (MInv /\ GhostInv /\ LeftInv /\ ZoneInv)'
  BY MInvCaptures, GhostInvStep, LeftStep, ZoneInvStep
<1>3. MInv /\ GhostInv /\ LeftInv /\ ZoneInv => CapturersAsPlayed
  BY CapturersShow
<1> QED BY <1>1, <1>2, <1>3, PTL DEF CapturesSpec
==============================================================================
