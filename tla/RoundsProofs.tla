---------------------------- MODULE RoundsProofs ----------------------------
(***************************************************************************)
(* Proofs about Rounds, for every recording: types, that the rounds derive *)
(* makes are in tick order and do not overlap, and that place finds them.  *)
(***************************************************************************)
EXTENDS Rounds, SequenceTheorems, FiniteSetTheorems, WellFoundedInduction, TLAPS

LEMMA ResultsType ==
  ASSUME NEW r \in Recording
  PROVE  Results(r) \in Seq(End)
BY DEF Results, Recording

\* Sorting the ends keeps them ends, and puts them in tick order.
LEMMA SortedEnds ==
  ASSUME NEW es \in Seq(End), NEW p \in Order(es)
  PROVE  LET sorted == [i \in 1..Len(es) |-> es[p[i]]]
         IN sorted \in Seq(End) /\ InTickOrder(sorted)
<1> DEFINE sorted == [i \in 1..Len(es) |-> es[p[i]]]
<1>1. p \in [1..Len(es) -> 1..Len(es)]
  BY DEF Order
<1>2. \A i \in 1..Len(es) : es[p[i]] \in End
  BY <1>1
<1>3. sorted \in Seq(End) /\ Len(sorted) = Len(es)
  BY <1>2
<1>4. ASSUME NEW i \in 1..Len(es), NEW j \in 1..Len(es), i < j
      PROVE  es[p[i]].tick <= es[p[j]].tick
  <2>1. es[p[i]].tick \in Nat /\ es[p[j]].tick \in Nat
    BY <1>2 DEF End
  <2>2. es[p[i]].tick < es[p[j]].tick \/ es[p[i]].tick = es[p[j]].tick
    BY <1>4 DEF Order
  <2> QED BY <2>1, <2>2
<1>5. InTickOrder(sorted)
  BY <1>3, <1>4 DEF InTickOrder
<1> QED BY <1>3, <1>5

LEMMA UnstartedType == Unstarted \in Round
BY DEF Unstarted, Round

LEMMA StartedType ==
  ASSUME NEW s \in Start
  PROVE  Started(s) \in Round /\ Started(s).start = s.tick /\ Started(s).end = None
<1>1. s.number \in Int \cup {None} /\ s.tick \in Nat \cup {None}
  BY DEF Start
<1> DEFINE numbered == [Unstarted EXCEPT !.number = s.number]
<1>2. numbered \in Round /\ numbered.end = None
  BY <1>1, UnstartedType DEF Unstarted, Round
<1>3. Started(s) = [numbered EXCEPT !.start = s.tick]
  BY DEF Started
<1> HIDE DEF numbered
<1> QED BY <1>1, <1>2, <1>3 DEF Round

LEMMA EndedType ==
  ASSUME NEW r \in Round, NEW e \in End
  PROVE  Ended(r, e) \in Round /\ Ended(r, e).start = r.start /\ Ended(r, e).end = e.tick
BY RoundsAssumption DEF Ended, Round, End

\* What derive's numbering gives is a number.
LEMMA NumberOfType ==
  ASSUME NEW rs \in Seq(Round), NEW i \in 1..Len(rs)
  PROVE  NumberOf(rs, i) \in Int
<1>1. rs[i] \in Round /\ rs[i].number \in Int \cup {None}
  <2>1. rs[i] \in Round
    OBVIOUS
  <2> QED BY <2>1 DEF Round
<1>2. CASE i < Len(rs)
  <2>1. rs[i + 1] \in Round
    BY <1>2
  <2>2. rs[i + 1].number \in Int \cup {None}
    BY <2>1 DEF Round
  <2> QED BY <1>1, <2>2 DEF NumberOf
<1>3. CASE ~(i < Len(rs))
  BY <1>1, <1>3 DEF NumberOf
<1> QED BY <1>2, <1>3

LEMMA FirstFreezeType ==
  ASSUME NEW r \in Round, rec \in Recording
  PROVE  FirstFreeze(r) \in Nat \cup {None}
<1>1. rec.freezes \in Seq(Freeze)
  BY DEF Recording
<1>2. rec.freezes # <<>> => rec.freezes[1] \in Freeze
  BY <1>1
<1> QED BY <1>2 DEF FirstFreeze, Freeze

LEMMA TypeStep == TypeOK /\ [Next]_vars => TypeOK'
<1> SUFFICES ASSUME TypeOK, [Next]_vars PROVE TypeOK'
  OBVIOUS
<1>1. CASE SortEnds
  <2>1. Results(rec) \in Seq(End)
    BY ResultsType DEF TypeOK
  <2>2. ends' \in Seq(End)
    BY <1>1, <2>1, SortedEnds DEF SortEnds
  <2> QED BY <1>1, <2>2 DEF SortEnds, TypeOK, Over
<1>2. CASE Close
  <2>1. ends # <<>> /\ ends \in Seq(End)
    BY <1>2 DEF Close, TypeOK
  <2>2. Head(ends) \in End /\ Tail(ends) \in Seq(End)
    BY <2>1
  <2>3. (IF open = None THEN Unstarted ELSE open) \in Round
    BY UnstartedType DEF TypeOK
  <2>4. Ended(IF open = None THEN Unstarted ELSE open, Head(ends)) \in Round
    BY <2>2, <2>3, EndedType
  <2>5. rounds' \in Seq(Round)
    BY <1>2, <2>4 DEF Close, TypeOK
  <2> QED BY <1>2, <2>2, <2>5 DEF Close, TypeOK, Over
<1>3. CASE OpenNext
  <2>1. starts # <<>> /\ starts \in Seq(Start)
    BY <1>3 DEF OpenNext, TypeOK
  <2>2. Head(starts) \in Start /\ Tail(starts) \in Seq(Start)
    BY <2>1
  <2>3. open' \in Round
    BY <1>3, <2>2, StartedType DEF OpenNext
  <2>4. rounds' \in Seq(Round)
    BY <1>3 DEF OpenNext, TypeOK
  <2> QED BY <1>3, <2>2, <2>3, <2>4 DEF OpenNext, TypeOK, Over
<1>4. CASE KeepOpen
  <2>1. rounds' \in Seq(Round)
    BY <1>4 DEF KeepOpen, TypeOK
  <2> QED BY <1>4, <2>1 DEF KeepOpen, TypeOK, Over
<1>5. CASE NumberRounds
  <2>1. rounds \in Seq(Round)
    BY DEF TypeOK
  <2>2. ASSUME NEW i \in 1..Len(rounds)
        PROVE  /\ [rounds[i] EXCEPT !.number = NumberOf(rounds, i)] \in Round
               /\ [rounds[i] EXCEPT !.number = NumberOf(rounds, i)].number # None
    <3>1. NumberOf(rounds, i) \in Int
      BY <2>1, NumberOfType
    <3>2. rounds[i] \in Round
      BY <2>1
    <3> QED BY <3>1, <3>2, RoundsAssumption DEF Round
  <2> DEFINE new(i) == [rounds[i] EXCEPT !.number = NumberOf(rounds, i)]
  <2>3. rounds' = [i \in 1..Len(rounds) |-> new(i)]
    BY <1>5 DEF NumberRounds
  <2>4. \A i \in 1..Len(rounds) : new(i) \in Round /\ new(i).number # None
    BY <2>2
  <2> HIDE DEF new
  <2>5. rounds' \in Seq(Round) /\ Len(rounds') = Len(rounds)
    BY <2>1, <2>3, <2>4
  <2>6. \A i \in 1..Len(rounds') : rounds'[i].number # None
    BY <2>1, <2>3, <2>4, <2>5
  <2> QED BY <1>5, <2>5, <2>6 DEF NumberRounds, TypeOK, Over
<1>6. CASE StartFirst
  <2>1. rounds \in Seq(Round) /\ \A i \in 1..Len(rounds) : rounds[i].number # None
    BY <1>6 DEF StartFirst, TypeOK
  <2>2. CASE rounds # <<>> /\ rounds[1].start = None
    <3>1. rounds[1] \in Round
      BY <2>1, <2>2
    <3>2. FirstFreeze(rounds[1]) \in Nat \cup {None}
      BY <3>1, FirstFreezeType DEF TypeOK
    <3> DEFINE new == [rounds[1] EXCEPT !.start = FirstFreeze(rounds[1])]
    <3>3. new \in Round
      BY <3>1, <3>2 DEF Round
    <3>4. new.number = rounds[1].number
      BY <3>1 DEF Round
    <3>5. rounds' = [rounds EXCEPT ![1] = new] /\ 1 \in 1..Len(rounds)
      BY <1>6, <2>1, <2>2 DEF StartFirst
    <3> HIDE DEF new
    <3>6. rounds' \in Seq(Round) /\ Len(rounds') = Len(rounds)
      BY <2>1, <3>3, <3>5
    <3>7. \A i \in 1..Len(rounds') : rounds'[i].number = rounds[i].number
      BY <2>1, <3>4, <3>5, <3>6
    <3>8. \A i \in 1..Len(rounds') : rounds'[i].number # None
      BY <2>1, <3>6, <3>7
    <3> QED BY <1>6, <3>6, <3>8 DEF StartFirst, TypeOK, Over
  <2>3. CASE ~(rounds # <<>> /\ rounds[1].start = None)
    BY <1>6, <2>1, <2>3 DEF StartFirst, TypeOK, Over
  <2> QED BY <2>2, <2>3
<1>7. CASE CutAfter
  <2>1. rounds \in Seq(Round) /\ \A i \in 1..Len(rounds) : rounds[i].number # None
    BY <1>7 DEF CutAfter, TypeOK
  <2>2. CASE UNCHANGED <<rounds, cut>> /\ pc' \in Over
    BY <1>7, <2>1, <2>2 DEF CutAfter, TypeOK
  <2>3. ASSUME NEW i \in FirstAfter(rounds, rec.last), CutAt(i)
        PROVE  TypeOK'
    <3>1. i \in 1..Len(rounds)
      BY DEF FirstAfter
    <3>2. rounds[i] \in Round
      BY <2>1, <3>1
    <3>. cut' \in Nat
      BY <2>3, <3>2 DEF CutAt, Round
    <3>3. /\ rounds' \in Seq(Round) /\ Len(rounds') = i - 1
          /\ \A k \in 1..(i - 1) : rounds'[k] = rounds[k]
      BY <2>1, <2>3, <3>1 DEF CutAt
    <3>4. \A k \in 1..Len(rounds') : rounds'[k].number # None
      BY <2>1, <3>1, <3>3
    <3> QED BY <1>7, <2>3, <3>2, <3>3, <3>4 DEF CutAfter, CutAt, TypeOK, Over
  <2> QED BY <1>7, <2>2, <2>3 DEF CutAfter, Over
<1>8. CASE Done \/ UNCHANGED vars
  BY <1>8 DEF Done, vars, TypeOK, Over
<1> QED BY <1>1, <1>2, <1>3, <1>4, <1>5, <1>6, <1>7, <1>8 DEF Next, Derive

\* Whatever recording derive is given, its variables keep their types, and
\* once numbered no round is without a number (rounds.rs:347-357).
THEOREM TypeCorrect == Spec => []TypeOK
<1>1. Init => TypeOK
  BY RoundsAssumption DEF Init, TypeOK, Recording, Over
<1> QED BY <1>1, TypeStep, PTL DEF Spec

-----------------------------------------------------------------------------

\* The marks still to come are in tick order, and there are none after the
\* merge loop; outside it no round is open.
Queued ==
  /\ InTickOrder(starts) /\ InTickOrder(ends)
  /\ pc # "merge" => open = None
  /\ pc = "sort" => rounds = <<>>
  /\ pc \notin {"sort", "merge"} => starts = <<>> /\ ends = <<>>

\* Round r has a mark, and lies before the marks still to come.
Before(r, ss, es) ==
  /\ r.start # None \/ r.end # None
  /\ \A k \in 1..Len(ss) : /\ r.start # None => r.start <= ss[k].tick
                           /\ r.end # None => r.end < ss[k].tick
  /\ \A k \in 1..Len(es) : /\ r.start # None => r.start <= es[k].tick
                           /\ r.end # None => r.end <= es[k].tick

\* Every round found so far, the open one with them.
AllBefore == \A i \in 1..Len(SoFar) : Before(SoFar[i], starts, ends)

\* The inductive invariant.
RInv == TypeOK /\ Queued /\ AllBefore /\ NoOverlap

LEMMA AppendApart ==
  ASSUME NEW rs \in Seq(Round), NEW r \in Round, Apart(rs), Proper(r),
         \A i \in 1..Len(rs) : Precedes(rs[i], r)
  PROVE  Apart(Append(rs, r))
<1> DEFINE new == Append(rs, r)
<1>1. Len(new) = Len(rs) + 1 /\ new[Len(rs) + 1] = r /\ Len(rs) \in Nat
  OBVIOUS
<1>2. \A i \in 1..Len(rs) : new[i] = rs[i]
  OBVIOUS
<1>3. \A i \in 1..Len(new) : i \in 1..Len(rs) \/ i = Len(rs) + 1
  BY <1>1
<1> HIDE DEF new
<1>4. \A i \in 1..Len(new) : Proper(new[i])
  BY <1>1, <1>2, <1>3 DEF Apart
<1>5. ASSUME NEW i \in 1..Len(new), NEW j \in 1..Len(new), i < j
      PROVE  Precedes(new[i], new[j])
  <2>1. i \in 1..Len(rs)
    BY <1>1, <1>5
  <2> QED BY <1>1, <1>2, <1>3, <1>5, <2>1 DEF Apart
<1>6. Apart(new)
  BY <1>4, <1>5 DEF Apart
<1> QED BY <1>6 DEF new

LEMMA FrontApart ==
  ASSUME NEW rs \in Seq(Round), NEW r \in Round, Apart(Append(rs, r))
  PROVE  Apart(rs) /\ Proper(r) /\ \A i \in 1..Len(rs) : Precedes(rs[i], r)
<1> DEFINE new == Append(rs, r)
<1>1. Len(new) = Len(rs) + 1 /\ new[Len(rs) + 1] = r /\ Len(rs) \in Nat
  OBVIOUS
<1>2. \A i \in 1..Len(rs) : new[i] = rs[i]
  OBVIOUS
<1>3. Apart(new)
  OBVIOUS
<1> HIDE DEF new
<1> QED BY <1>1, <1>2, <1>3 DEF Apart

\* The head of a queue in tick order is no later than any mark behind it.
LEMMA HeadFirst ==
  ASSUME NEW S, NEW s \in Seq(S), s # <<>>, InTickOrder(s), \A x \in S : x.tick \in Nat
  PROVE  /\ Head(s) \in S /\ Tail(s) \in Seq(S) /\ InTickOrder(Tail(s))
         /\ \A k \in 1..Len(s) : Head(s).tick <= s[k].tick
         /\ \A k \in 1..Len(Tail(s)) : k + 1 \in 1..Len(s) /\ Tail(s)[k] = s[k + 1]
<1>1. /\ Head(s) = s[1] /\ s[1] \in S /\ Len(s) \in Nat /\ 1 \in 1..Len(s)
      /\ Tail(s) \in Seq(S) /\ Len(Tail(s)) = Len(s) - 1
  OBVIOUS
<1>2. \A k \in 1..Len(Tail(s)) : k + 1 \in 1..Len(s) /\ Tail(s)[k] = s[k + 1]
  BY <1>1
<1>3. \A k \in 1..Len(s) : Head(s).tick <= s[k].tick
  BY <1>1 DEF InTickOrder
<1>4. InTickOrder(Tail(s))
  BY <1>1, <1>2 DEF InTickOrder
<1> QED BY <1>1, <1>2, <1>3, <1>4

LEMMA SoFarType ==
  ASSUME TypeOK
  PROVE  /\ SoFar \in Seq(Round)
         /\ \A i \in 1..Len(rounds) : i \in 1..Len(SoFar) /\ SoFar[i] = rounds[i]
         /\ open # None => /\ open \in Round
                           /\ Len(SoFar) = Len(rounds) + 1 /\ SoFar[Len(SoFar)] = open
BY DEF TypeOK, SoFar

\* Closing a round: the end is after every mark of the rounds so far, by the
\* order of the ends, and before every start to come, by Close's guard.
LEMMA CloseStep ==
  ASSUME RInv, Close
  PROVE  Queued' /\ AllBefore' /\ NoOverlap'
<1> DEFINE e == Head(ends)
           last == IF open = None THEN Unstarted ELSE open
<1>1. /\ starts \in Seq(Start) /\ ends \in Seq(End) /\ ends # <<>> /\ rounds \in Seq(Round)
      /\ InTickOrder(starts) /\ InTickOrder(ends)
  BY DEF RInv, TypeOK, Queued, Close
<1>2. /\ e \in End /\ e.tick \in Nat /\ InTickOrder(Tail(ends)) /\ Tail(ends) \in Seq(End)
      /\ \A k \in 1..Len(ends) : e.tick <= ends[k].tick
      /\ \A k \in 1..Len(Tail(ends)) : k + 1 \in 1..Len(ends) /\ Tail(ends)[k] = ends[k + 1]
  <2>1. \A x \in End : x.tick \in Nat
    BY DEF End
  <2> QED BY <1>1, <2>1, HeadFirst
<1>3. \A k \in 1..Len(starts) : e.tick < starts[k].tick /\ starts[k].tick \in Nat
  <2> SUFFICES ASSUME NEW k \in 1..Len(starts)
               PROVE  e.tick < starts[k].tick /\ starts[k].tick \in Nat
    OBVIOUS
  <2>1. starts # <<>> /\ starts[k] \in Start
    BY <1>1
  <2>2. Head(starts).tick <= starts[k].tick /\ Head(starts) \in Start
    <3>1. \A x \in Start : x.tick \in Nat
      BY DEF Start
    <3> QED BY <1>1, <2>1, <3>1, HeadFirst
  <2>3. e.tick < Head(starts).tick
    BY <2>1 DEF Close
  <2> QED BY <1>2, <2>1, <2>2, <2>3 DEF Start
<1>4. last \in Round
  BY UnstartedType DEF RInv, TypeOK
<1>5. ends[1] = e /\ 1 \in 1..Len(ends)
  BY <1>1
<1>6. last.start # None =>
        /\ last.start \in Nat /\ last.start <= e.tick
        /\ \A k \in 1..Len(starts) : last.start <= starts[k].tick
        /\ \A k \in 1..Len(ends) : last.start <= ends[k].tick
  <2>1. CASE open = None
    BY <2>1 DEF Unstarted
  <2>2. CASE open # None
    <3>1. Before(open, starts, ends)
      <4>1. SoFar \in Seq(Round) /\ Len(SoFar) = Len(rounds) + 1 /\ SoFar[Len(SoFar)] = open
        BY <2>2, SoFarType DEF RInv
      <4>2. Len(SoFar) \in 1..Len(SoFar)
        BY <1>1, <4>1
      <4> QED BY <4>1, <4>2 DEF RInv, AllBefore
    <3> QED BY <1>4, <1>5, <2>2, <3>1 DEF Before, Round
  <2> QED BY <2>1, <2>2
<1>7. Apart(rounds) /\ \A i \in 1..Len(rounds) : Precedes(rounds[i], last)
  <2>1. CASE open = None
    BY <2>1 DEF RInv, NoOverlap, SoFar, Precedes, Unstarted
  <2>2. CASE open # None
    BY <1>1, <1>4, <2>2, FrontApart DEF RInv, NoOverlap, SoFar
  <2> QED BY <2>1, <2>2
<1>8. \A i \in 1..Len(rounds) : rounds[i] \in Round /\ Before(rounds[i], starts, ends)
  BY <1>1, SoFarType DEF RInv, AllBefore
<1> DEFINE new == Ended(last, e)
<1>9. new \in Round /\ new.start = last.start /\ new.end = e.tick
  BY <1>2, <1>4, EndedType
<1>10. SoFar' = Append(rounds, new)
  BY DEF Close, SoFar
<1> HIDE DEF e, last, new
<1>11. Proper(new)
  BY <1>6, <1>9 DEF Proper
<1>12. \A i \in 1..Len(rounds) : Precedes(rounds[i], new)
  <2> SUFFICES ASSUME NEW i \in 1..Len(rounds) PROVE Precedes(rounds[i], new)
    OBVIOUS
  <2>1. rounds[i].end # None => rounds[i].end <= e.tick
    BY <1>5, <1>8 DEF Before
  <2> QED BY <1>7, <1>9, <2>1 DEF Precedes
<1>13. NoOverlap'
  BY <1>1, <1>7, <1>9, <1>10, <1>11, <1>12, AppendApart DEF NoOverlap
<1>14. ends' = Tail(ends) /\ starts' = starts /\ open' = None /\ pc' = pc /\ pc = "merge"
  BY DEF Close
<1>15. Queued'
  BY <1>1, <1>2, <1>14 DEF Queued
<1>16. ASSUME NEW r \in Round, Before(r, starts, ends)
       PROVE  Before(r, starts', ends')
  BY <1>2, <1>14, <1>16 DEF Before
<1>17. Before(new, starts', ends')
  <2>1. new.end # None
    BY <1>2, <1>9, RoundsAssumption
  <2>2. \A k \in 1..Len(starts) : /\ new.start # None => new.start <= starts[k].tick
                                  /\ new.end # None => new.end < starts[k].tick
    BY <1>3, <1>6, <1>9
  <2>3. \A k \in 1..Len(Tail(ends)) : /\ new.start # None => new.start <= Tail(ends)[k].tick
                                      /\ new.end # None => new.end <= Tail(ends)[k].tick
    BY <1>2, <1>6, <1>9
  <2>4. Before(new, starts, Tail(ends))
    BY <2>1, <2>2, <2>3 DEF Before
  <2> QED BY <1>14, <2>4
<1>18. AllBefore'
  <2> SUFFICES ASSUME NEW i \in 1..Len(SoFar') PROVE Before(SoFar'[i], starts', ends')
    BY DEF AllBefore
  <2>1. \/ i \in 1..Len(rounds) /\ SoFar'[i] = rounds[i]
        \/ SoFar'[i] = new
    BY <1>1, <1>9, <1>10
  <2> QED BY <1>8, <1>16, <1>17, <2>1
<1> QED BY <1>13, <1>15, <1>18

\* Starting a round: its tick is no earlier than any mark so far and after
\* every end, and the ends left are not before it.
LEMMA OpenNextStep ==
  ASSUME RInv, OpenNext
  PROVE  Queued' /\ AllBefore' /\ NoOverlap'
<1> DEFINE s == Head(starts)
           new == Started(s)
<1>1. /\ starts \in Seq(Start) /\ ends \in Seq(End) /\ starts # <<>> /\ SoFar \in Seq(Round)
      /\ InTickOrder(starts) /\ InTickOrder(ends)
  BY SoFarType DEF RInv, TypeOK, Queued, OpenNext
<1>2. /\ s \in Start /\ s.tick \in Nat /\ InTickOrder(Tail(starts)) /\ Tail(starts) \in Seq(Start)
      /\ \A k \in 1..Len(starts) : s.tick <= starts[k].tick
      /\ \A k \in 1..Len(Tail(starts)) : k + 1 \in 1..Len(starts) /\ Tail(starts)[k] = starts[k + 1]
  <2>1. \A x \in Start : x.tick \in Nat
    BY DEF Start
  <2> QED BY <1>1, <2>1, HeadFirst
<1>3. \A k \in 1..Len(ends) : s.tick <= ends[k].tick
  <2> SUFFICES ASSUME NEW k \in 1..Len(ends) PROVE s.tick <= ends[k].tick
    OBVIOUS
  <2>1. ends # <<>> /\ ends[k] \in End
    BY <1>1
  <2>2. Head(ends).tick <= ends[k].tick /\ Head(ends) \in End
    <3>1. \A x \in End : x.tick \in Nat
      BY DEF End
    <3> QED BY <1>1, <2>1, <3>1, HeadFirst
  <2>3. Head(ends).tick >= s.tick
    BY <2>1 DEF OpenNext
  <2> QED BY <1>2, <2>1, <2>2, <2>3 DEF End
<1>4. starts[1] = s /\ 1 \in 1..Len(starts)
  BY <1>1
<1>5. new \in Round /\ new.start = s.tick /\ new.end = None
  BY <1>2, StartedType
<1>6. SoFar' = Append(SoFar, new)
  <2>1. open' = new /\ open' # None
    BY <1>5, RoundsAssumption DEF OpenNext
  <2> QED BY <2>1 DEF OpenNext, SoFar
<1> HIDE DEF s, new
<1>7. Proper(new)
  BY <1>5 DEF Proper
<1>8. \A i \in 1..Len(SoFar) : SoFar[i] \in Round /\ Before(SoFar[i], starts, ends)
  BY <1>1 DEF RInv, AllBefore
<1>9. \A i \in 1..Len(SoFar) : Precedes(SoFar[i], new)
  BY <1>4, <1>5, <1>8 DEF Before, Precedes
<1>10. NoOverlap'
  BY <1>1, <1>5, <1>6, <1>7, <1>9, AppendApart DEF RInv, NoOverlap
<1>11. ends' = ends /\ starts' = Tail(starts) /\ pc' = pc /\ pc = "merge"
  BY DEF OpenNext
<1>12. Queued'
  BY <1>1, <1>2, <1>11 DEF Queued
<1>13. ASSUME NEW r \in Round, Before(r, starts, ends)
       PROVE  Before(r, starts', ends')
  BY <1>2, <1>11, <1>13 DEF Before
<1>14. Before(new, starts', ends')
  <2>1. new.start # None
    BY <1>2, <1>5, RoundsAssumption
  <2>2. \A k \in 1..Len(Tail(starts)) : new.start <= Tail(starts)[k].tick
    BY <1>2, <1>5
  <2>3. \A k \in 1..Len(ends) : new.start <= ends[k].tick
    BY <1>3, <1>5
  <2> QED BY <1>5, <1>11, <2>1, <2>2, <2>3 DEF Before
<1>15. AllBefore'
  <2> SUFFICES ASSUME NEW i \in 1..Len(SoFar') PROVE Before(SoFar'[i], starts', ends')
    BY DEF AllBefore
  <2>1. \/ i \in 1..Len(SoFar) /\ SoFar'[i] = SoFar[i]
        \/ SoFar'[i] = new
    BY <1>1, <1>5, <1>6
  <2> QED BY <1>8, <1>13, <1>14, <2>1
<1> QED BY <1>10, <1>12, <1>15

\* Keeping the open round at the end leaves the rounds so far as they are.
LEMMA KeepOpenStep ==
  ASSUME RInv, KeepOpen
  PROVE  Queued' /\ AllBefore' /\ NoOverlap'
<1>1. /\ SoFar' = SoFar /\ starts' = starts /\ ends' = ends /\ open' = None /\ pc' = "number"
      /\ starts = <<>> /\ ends = <<>>
  BY DEF KeepOpen, SoFar
<1>2. Queued'
  BY <1>1 DEF RInv, Queued
<1>3. AllBefore'
  BY <1>1 DEF RInv, AllBefore
<1>4. NoOverlap'
  BY <1>1 DEF RInv, NoOverlap
<1> QED BY <1>2, <1>3, <1>4

\* Rounds with the same ticks, or the first few of them, are as far apart.
LEMMA SameTicks ==
  ASSUME NEW rs, NEW ss, Apart(rs), Len(rs) \in Nat, Len(ss) \in 0..Len(rs),
         \A i \in 1..Len(ss) : ss[i].start = rs[i].start /\ ss[i].end = rs[i].end
  PROVE  Apart(ss)
<1>1. \A i \in 1..Len(ss) : i \in 1..Len(rs)
  OBVIOUS
<1>2. \A i \in 1..Len(ss) : Proper(ss[i])
  BY <1>1 DEF Apart, Proper
<1>3. \A i, j \in 1..Len(ss) : i < j => Precedes(ss[i], ss[j])
  BY <1>1 DEF Apart, Precedes
<1> QED BY <1>2, <1>3 DEF Apart

\* Numbering the rounds leaves their ticks alone.
LEMMA NumberStep ==
  ASSUME RInv, NumberRounds
  PROVE  Queued' /\ AllBefore' /\ NoOverlap'
<1>1. /\ open = None /\ open' = None /\ starts' = starts /\ ends' = ends
      /\ pc = "number" /\ pc' = "freeze" /\ rounds \in Seq(Round)
  BY DEF RInv, TypeOK, Queued, NumberRounds
<1>2. SoFar = rounds /\ SoFar' = rounds'
  BY <1>1 DEF SoFar
<1> DEFINE new(i) == [rounds[i] EXCEPT !.number = NumberOf(rounds, i)]
<1>3. \A i \in 1..Len(rounds) : new(i).start = rounds[i].start /\ new(i).end = rounds[i].end
  <2> SUFFICES ASSUME NEW i \in 1..Len(rounds)
               PROVE  new(i).start = rounds[i].start /\ new(i).end = rounds[i].end
    OBVIOUS
  <2>1. rounds[i] \in Round
    BY <1>1
  <2> QED BY <2>1 DEF Round
<1>4. rounds' = [i \in 1..Len(rounds) |-> new(i)]
  BY DEF NumberRounds
<1> HIDE DEF new
<1>5. Len(rounds') = Len(rounds) /\ Len(rounds) \in Nat
  BY <1>1, <1>4
<1>6. \A i \in 1..Len(rounds') : rounds'[i].start = rounds[i].start /\ rounds'[i].end = rounds[i].end
  BY <1>3, <1>4, <1>5
<1>7. Queued'
  BY <1>1 DEF RInv, Queued
<1>8. AllBefore'
  <2> SUFFICES ASSUME NEW i \in 1..Len(rounds') PROVE Before(rounds'[i], starts', ends')
    BY <1>2 DEF AllBefore
  <2>1. Before(rounds[i], starts, ends)
    BY <1>2, <1>5 DEF RInv, AllBefore
  <2> QED BY <1>1, <1>6, <2>1 DEF Before
<1>9. NoOverlap'
  BY <1>2, <1>5, <1>6, SameTicks DEF RInv, NoOverlap
<1> QED BY <1>7, <1>8, <1>9

\* The start a joined first round is given is no later than its end, and so
\* before the start of every later round.
LEMMA StartFirstStep ==
  ASSUME RInv, StartFirst
  PROVE  Queued' /\ AllBefore' /\ NoOverlap'
<1>1. /\ open = None /\ open' = None /\ starts' = starts /\ ends' = ends
      /\ pc = "freeze" /\ pc' = "cut" /\ rounds \in Seq(Round)
      /\ starts = <<>> /\ ends = <<>> /\ rec \in Recording
  BY DEF RInv, TypeOK, Queued, StartFirst
<1>2. SoFar = rounds /\ SoFar' = rounds'
  BY <1>1 DEF SoFar
<1>3. Queued'
  BY <1>1 DEF RInv, Queued
<1>4. CASE ~(rounds # <<>> /\ rounds[1].start = None)
  <2>1. rounds' = rounds
    BY <1>4 DEF StartFirst
  <2> QED BY <1>1, <1>2, <1>3, <2>1 DEF RInv, AllBefore, NoOverlap
<1>5. CASE rounds # <<>> /\ rounds[1].start = None
  <2> DEFINE first == FirstFreeze(rounds[1])
             new == [rounds[1] EXCEPT !.start = first]
  <2>1. 1 \in 1..Len(rounds) /\ rounds[1] \in Round
    BY <1>1, <1>5
  <2>2. Before(rounds[1], starts, ends)
    BY <1>2, <2>1 DEF RInv, AllBefore
  <2>3. rounds[1].end # None /\ rounds[1].end \in Nat
    BY <1>5, <2>1, <2>2 DEF Before, Round
  <2>4. first # None => first \in Nat /\ first <= rounds[1].end
    BY <1>1, <2>1, <2>3, FirstFreezeType DEF FirstFreeze
  <2>5. new.start = first /\ new.end = rounds[1].end
    BY <2>1 DEF Round
  <2>6. rounds' = [rounds EXCEPT ![1] = new]
    BY <1>1, <1>5, <2>1 DEF StartFirst
  <2> HIDE DEF first, new
  <2>7. /\ Len(rounds') = Len(rounds) /\ rounds'[1] = new
        /\ \A j \in 1..Len(rounds) : j # 1 => rounds'[j] = rounds[j]
    BY <1>1, <2>1, <2>6
  <2>8. Apart(rounds)
    BY <1>2 DEF RInv, NoOverlap
  <2>9. \A j \in 1..Len(rounds) : rounds[j] \in Round
    BY <1>1
  <2>10. \A j \in 1..Len(rounds') : Proper(rounds'[j])
    BY <2>4, <2>5, <2>7, <2>8 DEF Apart, Proper
  <2>11. ASSUME NEW j \in 1..Len(rounds), j # 1
         PROVE  Precedes(new, rounds[j])
    <3>1. Precedes(rounds[1], rounds[j])
      BY <1>1, <2>1, <2>8, <2>11 DEF Apart
    <3>2. rounds[j].start # None => rounds[1].end < rounds[j].start /\ rounds[j].start \in Nat
      BY <2>3, <2>9, <3>1 DEF Precedes, Round
    <3> QED BY <2>3, <2>4, <2>5, <3>1, <3>2 DEF Precedes
  <2>12. ASSUME NEW i \in 1..Len(rounds'), NEW j \in 1..Len(rounds'), i < j
         PROVE  Precedes(rounds'[i], rounds'[j])
    <3>1. j # 1 /\ rounds'[j] = rounds[j] /\ i \in 1..Len(rounds) /\ j \in 1..Len(rounds)
      BY <1>1, <2>7, <2>12
    <3>2. CASE i = 1
      BY <2>7, <2>11, <3>1, <3>2
    <3>3. CASE i # 1
      BY <2>7, <2>8, <2>12, <3>1, <3>3 DEF Apart
    <3> QED BY <3>2, <3>3
  <2>13. NoOverlap'
    BY <1>2, <2>10, <2>12 DEF NoOverlap, Apart
  <2>14. AllBefore'
    <3> SUFFICES ASSUME NEW i \in 1..Len(rounds') PROVE Before(rounds'[i], starts', ends')
      BY <1>2 DEF AllBefore
    <3>1. Before(rounds[i], starts, ends)
      BY <1>2, <2>7 DEF RInv, AllBefore
    <3>2. rounds'[i].start # None \/ rounds'[i].end # None
      BY <2>3, <2>5, <2>7, <3>1 DEF Before
    <3> QED BY <1>1, <3>2 DEF Before
  <2> QED BY <1>3, <2>13, <2>14
<1> QED BY <1>4, <1>5

\* The rounds the cut keeps are the first of those there were.
LEMMA CutStep ==
  ASSUME RInv, CutAfter
  PROVE  Queued' /\ AllBefore' /\ NoOverlap'
<1>1. /\ open = None /\ open' = None /\ starts' = starts /\ ends' = ends
      /\ pc = "cut" /\ rounds \in Seq(Round) /\ starts = <<>> /\ ends = <<>>
  BY DEF RInv, TypeOK, Queued, CutAfter
<1>2. pc' \in Over
  BY DEF CutAfter, CutAt, Over
<1>3. SoFar = rounds /\ SoFar' = rounds'
  BY <1>1 DEF SoFar
<1>4. Queued'
  BY <1>1, <1>2 DEF RInv, Queued, Over
<1>5. /\ Len(rounds') \in 0..Len(rounds)
      /\ \A i \in 1..Len(rounds') : rounds'[i] = rounds[i]
  <2>1. CASE rounds' = rounds
    BY <1>1, <2>1
  <2>2. ASSUME NEW i \in FirstAfter(rounds, rec.last), CutAt(i)
        PROVE  <1>5!1 /\ <1>5!2
    <3>1. i \in 1..Len(rounds)
      BY DEF FirstAfter
    <3> QED BY <1>1, <2>2, <3>1 DEF CutAt
  <2> QED BY <2>1, <2>2 DEF CutAfter
<1>6. AllBefore'
  <2> SUFFICES ASSUME NEW i \in 1..Len(rounds') PROVE Before(rounds'[i], starts', ends')
    BY <1>3 DEF AllBefore
  <2>1. Before(rounds[i], starts, ends) /\ rounds'[i] = rounds[i]
    BY <1>1, <1>3, <1>5 DEF RInv, AllBefore
  <2> QED BY <1>1, <2>1 DEF Before
<1>7. NoOverlap'
  BY <1>1, <1>3, <1>5, SameTicks DEF RInv, NoOverlap
<1> QED BY <1>4, <1>6, <1>7

\* SortEnds starts the merge with no round found and both queues in order.
LEMMA SortEndsStep ==
  ASSUME RInv, SortEnds
  PROVE  Queued' /\ AllBefore' /\ NoOverlap'
<1>1. Results(rec) \in Seq(End)
  BY ResultsType DEF RInv, TypeOK
<1>2. InTickOrder(ends')
  BY <1>1, SortedEnds DEF SortEnds
<1>3. /\ starts' = starts /\ InTickOrder(starts) /\ pc' = "merge" /\ SoFar' = <<>>
  BY DEF RInv, Queued, SortEnds, SoFar
<1>4. Queued'
  BY <1>2, <1>3 DEF Queued
<1>5. AllBefore' /\ NoOverlap'
  BY <1>3 DEF AllBefore, NoOverlap, Apart
<1> QED BY <1>4, <1>5

LEMMA RInvInit == Init => RInv
<1> SUFFICES ASSUME Init PROVE RInv
  OBVIOUS
<1>1. TypeOK
  BY RoundsAssumption DEF Init, TypeOK, Recording, Over
<1>2. SoFar = <<>> /\ ends = <<>> /\ InTickOrder(starts) /\ pc = "sort" /\ open = None
      /\ rounds = <<>>
  BY RoundsAssumption DEF Init, SoFar
<1>3. Queued
  BY <1>2 DEF Queued, InTickOrder
<1>4. AllBefore /\ NoOverlap
  BY <1>2 DEF AllBefore, NoOverlap, Apart
<1> QED BY <1>1, <1>3, <1>4 DEF RInv

LEMMA RInvStep == RInv /\ [Next]_vars => RInv'
<1> SUFFICES ASSUME RInv, [Next]_vars PROVE RInv'
  OBVIOUS
<1>1. TypeOK'
  BY TypeStep DEF RInv
<1>2. CASE Derive
  BY <1>1, <1>2, SortEndsStep, CloseStep, OpenNextStep, KeepOpenStep, NumberStep,
     StartFirstStep, CutStep DEF Derive, RInv
<1>3. CASE Done \/ UNCHANGED vars
  <2>1. UNCHANGED <<starts, ends, open, rounds, pc>>
    BY <1>3 DEF Done, vars
  <2>2. SoFar' = SoFar
    BY <2>1 DEF SoFar
  <2> QED BY <1>1, <2>1, <2>2 DEF RInv, Queued, AllBefore, NoOverlap
<1> QED BY <1>2, <1>3 DEF Next

\* Whatever recording derive is given, the rounds it has found so far are in
\* tick order, each starts by its own end and after the end of every earlier
\* round (rounds.rs:314-345).
THEOREM RoundsApart == Spec => []NoOverlap
<1>1. RInv => NoOverlap
  BY DEF RInv
<1> QED BY <1>1, RInvInit, RInvStep, PTL DEF Spec

-----------------------------------------------------------------------------

\* place takes the first round that is not over.
LEMMA PlaceAt ==
  ASSUME NEW rs, NEW t, NEW i \in NotOver(rs, t), i \in Nat,
         \A j \in NotOver(rs, t) : j \in Nat /\ i <= j
  PROVE  Place(rs, t) = IF rs[i].start = None \/ rs[i].start <= t
                          THEN During(i) ELSE PostRound(i - 1)
<1> DEFINE first == CHOOSE k \in NotOver(rs, t) : \A j \in NotOver(rs, t) : k <= j
<1>1. first \in NotOver(rs, t) /\ \A j \in NotOver(rs, t) : first <= j
  OBVIOUS
<1>2. first = i
  <2>1. i <= first /\ first <= i /\ first \in Nat
    BY <1>1
  <2> HIDE DEF first
  <2> QED BY <2>1
<1>3. Place(rs, t) = IF rs[first].start = None \/ rs[first].start <= t
                       THEN During(first) ELSE PostRound(first - 1)
  BY DEF Place
<1> HIDE DEF first
<1> QED BY <1>2, <1>3

LEMMA LastTickType ==
  ASSUME NEW rs \in Seq(Round), NEW i \in 1..Len(rs)
  PROVE  LastTick(rs, i) \in Int \cup {None}
<1>1. rs[i] \in Round
  OBVIOUS
<1>2. i < Len(rs) => rs[i + 1] \in Round
  OBVIOUS
<1> QED BY <1>1, <1>2 DEF LastTick, Round

\* If some round is not over, one is the first that is not.
LEMMA FirstNotOver ==
  ASSUME NEW rs \in Seq(Round), NEW t, NotOver(rs, t) # {}
  PROVE  \E i \in NotOver(rs, t) : \A j \in NotOver(rs, t) : i <= j
<1>1. NotOver(rs, t) \subseteq Nat
  BY DEF NotOver
<1> DEFINE less == OpToRel(<, Nat)
<1>2. IsWellFoundedOn(less, Nat) /\ \A i, j \in Nat : i < j => <<i, j>> \in less
  BY NatLessThanWellFounded DEF OpToRel
<1> HIDE DEF less
<1>3. PICK i \in NotOver(rs, t) : \A j \in NotOver(rs, t) : ~(<<j, i>> \in less)
  BY <1>1, <1>2, WFMin
<1>4. \A j \in NotOver(rs, t) : i <= j
  <2> SUFFICES ASSUME NEW j \in NotOver(rs, t) PROVE i <= j
    OBVIOUS
  <2>1. ~(<<j, i>> \in less) /\ i \in Nat /\ j \in Nat
    BY <1>1, <1>3
  <2>2. ~(j < i)
    BY <1>2, <2>1
  <2> QED BY <2>1, <2>2
<1> QED BY <1>4

\* Place q is where p is, or further on.
Onward(p, q) ==
  p # None => /\ q # None
              /\ \/ p.index < q.index
                 \/ p.index = q.index /\ (p.post_round => q.post_round)

LEMMA OnwardFrom ==
  ASSUME NEW i \in Nat, NEW k \in Nat, i <= k
  PROVE  /\ Onward(During(i), During(k))
         /\ i # 0 => Onward(During(i), PostRound(k))
         /\ Onward(PostRound(i), PostRound(k))
         /\ i < k => Onward(PostRound(i), During(k))
<1> DEFINE dur(n) == [index |-> n, post_round |-> FALSE]
           post(n) == [index |-> n, post_round |-> TRUE]
<1>1. \A n \in Nat : dur(n) # None /\ post(n) # None
  <2> SUFFICES ASSUME NEW n \in Nat PROVE dur(n) # None /\ post(n) # None
    OBVIOUS
  <2>1. dur(n) \in RoundPlace /\ post(n) \in RoundPlace
    BY DEF RoundPlace
  <2> HIDE DEF dur, post
  <2> QED BY <2>1, RoundsAssumption
<1>2. \A n \in Nat : /\ dur(n).index = n /\ ~dur(n).post_round
                     /\ post(n).index = n /\ post(n).post_round
  OBVIOUS
<1>3. \A n \in Nat : During(n) = dur(n) /\ PostRound(n) = IF n = 0 THEN None ELSE post(n)
  BY DEF During, PostRound
<1> HIDE DEF dur, post
<1>4. Onward(dur(i), dur(k)) /\ Onward(dur(i), post(k))
      /\ Onward(post(i), post(k)) /\ (i < k => Onward(post(i), dur(k)))
  BY <1>1, <1>2 DEF Onward
<1>5. Onward(None, dur(k)) /\ Onward(None, post(k)) /\ Onward(None, None)
  BY DEF Onward
<1> QED BY <1>3, <1>4, <1>5

\* For every recording, place never moves back to an earlier round as the tick
\* grows, and from a round's post round never back into it (rounds.rs:425-448):
\* the rounds not over at the next tick are among those not over at this one.
THEOREM PlaceNeverBack ==
  ASSUME MaxTick \in Nat
  PROVE  Spec => []PlacesInOrder
<1>1. TypeOK => PlacesInOrder
  <2> SUFFICES ASSUME TypeOK, NEW t \in 0..MaxTick - 1
               PROVE  Onward(Place(rounds, t), Place(rounds, t + 1))
    BY DEF PlacesInOrder, Onward
  <2> DEFINE n == Len(rounds)
             p == Place(rounds, t)
             q == Place(rounds, t + 1)
  <2>1. rounds \in Seq(Round) /\ n \in Nat /\ t \in Int
    BY DEF TypeOK
  <2>2. NotOver(rounds, t + 1) \subseteq NotOver(rounds, t)
    <3> SUFFICES ASSUME NEW i \in NotOver(rounds, t + 1) PROVE i \in NotOver(rounds, t)
      OBVIOUS
    <3>1. i \in 1..Len(rounds) /\ LastTick(rounds, i) \in Int \cup {None}
      BY <2>1, LastTickType DEF NotOver
    <3> QED BY <2>1, <3>1, RoundsAssumption DEF NotOver
  <2>3. CASE NotOver(rounds, t) = {}
    <3>1. p = PostRound(n) /\ q = PostRound(n)
      BY <2>2, <2>3 DEF Place
    <3> QED BY <2>1, <3>1, OnwardFrom
  <2>4. CASE NotOver(rounds, t) # {}
    <3>1. PICK i \in NotOver(rounds, t) : \A j \in NotOver(rounds, t) : i <= j
      BY <2>1, <2>4, FirstNotOver
    <3>2. i \in 1..n /\ \A j \in NotOver(rounds, t) : j \in Nat
      BY DEF NotOver
    <3>3. p = IF rounds[i].start = None \/ rounds[i].start <= t
                THEN During(i) ELSE PostRound(i - 1)
      BY <3>1, <3>2, PlaceAt
    <3>4. CASE NotOver(rounds, t + 1) = {}
      <4>1. q = PostRound(n)
        BY <3>4 DEF Place
      <4> QED BY <2>1, <3>2, <3>3, <4>1, OnwardFrom
    <3>5. CASE NotOver(rounds, t + 1) # {}
      <4>1. PICK k \in NotOver(rounds, t + 1) : \A j \in NotOver(rounds, t + 1) : k <= j
        BY <2>1, <3>5, FirstNotOver
      <4>2. k \in 1..n /\ \A j \in NotOver(rounds, t + 1) : j \in Nat
        BY DEF NotOver
      <4>3. q = IF rounds[k].start = None \/ rounds[k].start <= t + 1
                  THEN During(k) ELSE PostRound(k - 1)
        BY <4>1, <4>2, PlaceAt
      <4>4. i <= k
        BY <2>2, <3>1
      <4>5. rounds[i] \in Round
        BY <2>1, <3>2
      <4>6. rounds[i].start = None \/ rounds[i].start \in Nat
        BY <4>5 DEF Round
      <4>7. CASE i = k
        BY <2>1, <3>2, <3>3, <4>3, <4>6, <4>7, OnwardFrom
      <4>8. CASE i < k
        BY <2>1, <3>2, <3>3, <4>2, <4>3, <4>8, OnwardFrom
      <4> QED BY <3>2, <4>2, <4>4, <4>7, <4>8
    <3> QED BY <3>4, <3>5
  <2> QED BY <2>3, <2>4
<1> QED BY <1>1, TypeCorrect, PTL

-----------------------------------------------------------------------------

\* A round is left without an end only when the start of the next one, or the
\* end of the recording, cut it off.
OpenUntilNext(rs) == \A i \in 1..(Len(rs) - 1) : rs[i].end = None => rs[i + 1].start # None

CutOffByStart ==
  /\ OpenUntilNext(SoFar)
  /\ pc = "merge" /\ open = None /\ rounds # <<>> => rounds[Len(rounds)].end # None

LEMMA AppendOpen ==
  ASSUME NEW rs \in Seq(Round), NEW r \in Round, OpenUntilNext(rs),
         rs # <<>> /\ rs[Len(rs)].end = None => r.start # None
  PROVE  OpenUntilNext(Append(rs, r))
<1> DEFINE new == Append(rs, r)
<1>1. Len(new) = Len(rs) + 1 /\ new[Len(rs) + 1] = r /\ Len(rs) \in Nat
  OBVIOUS
<1>2. \A i \in 1..Len(rs) : new[i] = rs[i]
  OBVIOUS
<1>3. ASSUME NEW i \in 1..(Len(new) - 1), new[i].end = None
      PROVE  new[i + 1].start # None
  <2>1. CASE i = Len(rs)
    <3>1. rs # <<>> /\ rs[Len(rs)].end = None
      BY <1>1, <1>2, <1>3, <2>1
    <3> QED BY <1>1, <2>1, <3>1
  <2>2. CASE i # Len(rs)
    <3>1. i \in 1..(Len(rs) - 1) /\ i \in 1..Len(rs) /\ i + 1 \in 1..Len(rs)
      BY <1>1, <2>2
    <3>2. new[i] = rs[i] /\ new[i + 1] = rs[i + 1]
      BY <1>2, <3>1
    <3> HIDE DEF new
    <3> QED BY <1>3, <3>1, <3>2 DEF OpenUntilNext
  <2> QED BY <2>1, <2>2
<1> QED BY <1>3 DEF OpenUntilNext

LEMMA CloseOpen ==
  ASSUME TypeOK, CutOffByStart, Close
  PROVE  CutOffByStart'
<1> DEFINE last == IF open = None THEN Unstarted ELSE open
           new == Ended(last, Head(ends))
<1>1. rounds \in Seq(Round) /\ last \in Round /\ Head(ends) \in End
  BY UnstartedType DEF TypeOK, Close
<1>2. new \in Round /\ new.start = last.start /\ new.end \in Nat
  BY <1>1, EndedType DEF End
<1>3. SoFar' = Append(rounds, new) /\ rounds' = Append(rounds, new) /\ pc = "merge"
  BY DEF Close, SoFar
<1>4. OpenUntilNext(rounds)
  <2> SUFFICES ASSUME NEW i \in 1..(Len(rounds) - 1), rounds[i].end = None
               PROVE  rounds[i + 1].start # None
    BY DEF OpenUntilNext
  <2>1. /\ i \in 1..(Len(SoFar) - 1)
        /\ SoFar[i] = rounds[i] /\ SoFar[i + 1] = rounds[i + 1]
    BY <1>1 DEF SoFar
  <2> QED BY <2>1 DEF CutOffByStart, OpenUntilNext
<1>5. ASSUME rounds # <<>>, rounds[Len(rounds)].end = None
      PROVE  new.start # None
  <2>1. open # None
    BY <1>3, <1>5 DEF CutOffByStart
  <2>2. /\ Len(rounds) \in 1..(Len(SoFar) - 1)
        /\ SoFar[Len(rounds)] = rounds[Len(rounds)] /\ SoFar[Len(rounds) + 1] = open
    BY <1>1, <1>5, <2>1 DEF SoFar
  <2>3. open.start # None
    BY <1>5, <2>2 DEF CutOffByStart, OpenUntilNext
  <2> QED BY <1>2, <2>1, <2>3
<1> HIDE DEF last, new
<1>6. OpenUntilNext(SoFar')
  BY <1>1, <1>2, <1>3, <1>4, <1>5, AppendOpen
<1>7. rounds'[Len(rounds')].end # None
  BY <1>1, <1>2, <1>3, RoundsAssumption
<1> QED BY <1>6, <1>7 DEF CutOffByStart

LEMMA OpenNextOpen ==
  ASSUME TypeOK, CutOffByStart, OpenNext
  PROVE  CutOffByStart'
<1> DEFINE new == Started(Head(starts))
<1>1. Head(starts) \in Start /\ SoFar \in Seq(Round)
  BY SoFarType DEF TypeOK, OpenNext
<1>2. new \in Round /\ new.start \in Nat
  BY <1>1, StartedType DEF Start
<1>3. open' = new /\ open' # None
  BY <1>2, RoundsAssumption DEF OpenNext
<1>4. SoFar' = Append(SoFar, new)
  BY <1>3 DEF OpenNext, SoFar
<1> HIDE DEF new
<1>5. OpenUntilNext(SoFar')
  BY <1>1, <1>2, <1>4, RoundsAssumption, AppendOpen DEF CutOffByStart
<1> QED BY <1>3, <1>5 DEF CutOffByStart

\* After the merge a step keeps the ends, and every start but the first.
LEMMA KeepsOpen ==
  ASSUME NEW rs \in Seq(Round), NEW ss, OpenUntilNext(rs), Len(ss) \in 0..Len(rs),
         \A i \in 1..Len(ss) : ss[i].end = rs[i].end /\ (i # 1 => ss[i].start = rs[i].start)
  PROVE  OpenUntilNext(ss)
<1> SUFFICES ASSUME NEW i \in 1..(Len(ss) - 1), ss[i].end = None
             PROVE  ss[i + 1].start # None
  BY DEF OpenUntilNext
<1>1. i \in 1..(Len(rs) - 1) /\ i \in 1..Len(ss) /\ i + 1 \in 1..Len(ss) /\ i + 1 # 1
  OBVIOUS
<1>2. rs[i].end = None
  BY <1>1
<1>3. rs[i + 1].start # None
  BY <1>1, <1>2 DEF OpenUntilNext
<1> QED BY <1>1, <1>3

LEMMA CutOffStep ==
  ASSUME RInv, CutOffByStart, [Next]_vars
  PROVE  CutOffByStart'
<1>1. rounds \in Seq(Round) /\ OpenUntilNext(SoFar)
  BY DEF RInv, TypeOK, CutOffByStart
<1>2. CASE SortEnds
  <2>1. rounds' = <<>> /\ open' = None /\ SoFar' = <<>>
    BY <1>2 DEF SortEnds, SoFar, RInv, Queued
  <2> QED BY <2>1 DEF CutOffByStart, OpenUntilNext
<1>3. CASE Close
  BY <1>3, CloseOpen DEF RInv
<1>4. CASE OpenNext
  BY <1>4, OpenNextOpen DEF RInv
<1>5. CASE KeepOpen
  <2>1. SoFar' = SoFar /\ pc' = "number"
    BY <1>5 DEF KeepOpen, SoFar
  <2> QED BY <1>1, <2>1 DEF CutOffByStart
<1>6. CASE NumberRounds \/ StartFirst \/ CutAfter
  <2>1. open = None /\ open' = None /\ SoFar = rounds /\ SoFar' = rounds' /\ pc' # "merge"
    BY <1>6 DEF RInv, Queued, NumberRounds, StartFirst, CutAfter, CutAt, SoFar
  <2>2. /\ Len(rounds') \in 0..Len(rounds)
        /\ \A i \in 1..Len(rounds') : /\ rounds'[i].end = rounds[i].end
                                      /\ i # 1 => rounds'[i].start = rounds[i].start
    <3>0. Len(rounds) \in Nat /\ \A i \in 1..Len(rounds) : rounds[i] \in Round
      BY <1>1
    <3>1. CASE NumberRounds
      <4> DEFINE new(i) == [rounds[i] EXCEPT !.number = NumberOf(rounds, i)]
      <4>1. \A i \in 1..Len(rounds) : new(i).start = rounds[i].start /\ new(i).end = rounds[i].end
        BY <3>0 DEF Round
      <4>2. rounds' = [i \in 1..Len(rounds) |-> new(i)]
        BY <3>1 DEF NumberRounds
      <4> HIDE DEF new
      <4>3. Len(rounds') = Len(rounds)
        BY <3>0, <4>2
      <4> QED BY <3>0, <4>1, <4>2, <4>3
    <3>2. CASE StartFirst
      <4>1. CASE ~(rounds # <<>> /\ rounds[1].start = None)
        BY <3>0, <3>2, <4>1 DEF StartFirst
      <4>2. CASE rounds # <<>> /\ rounds[1].start = None
        <5> DEFINE new == [rounds[1] EXCEPT !.start = FirstFreeze(rounds[1])]
        <5>1. 1 \in 1..Len(rounds)
          BY <1>1, <4>2
        <5>2. new.end = rounds[1].end
          BY <3>0, <5>1 DEF Round
        <5>3. rounds' = [rounds EXCEPT ![1] = new]
          BY <1>1, <3>2, <4>2, <5>1 DEF StartFirst
        <5> HIDE DEF new
        <5>4. /\ Len(rounds') = Len(rounds) /\ rounds'[1] = new
              /\ \A j \in 1..Len(rounds) : j # 1 => rounds'[j] = rounds[j]
          BY <1>1, <5>1, <5>3
        <5> QED BY <3>0, <5>2, <5>4
      <4> QED BY <4>1, <4>2
    <3>3. CASE CutAfter
      <4>1. CASE rounds' = rounds
        BY <3>0, <4>1
      <4>2. ASSUME NEW i \in FirstAfter(rounds, rec.last), CutAt(i)
            PROVE  Len(rounds') \in 0..Len(rounds) /\ \A k \in 1..Len(rounds') : rounds'[k] = rounds[k]
        <5>1. i \in 1..Len(rounds)
          BY DEF FirstAfter
        <5> QED BY <1>1, <4>2, <5>1 DEF CutAt
      <4> QED BY <3>3, <4>1, <4>2 DEF CutAfter
    <3> QED BY <1>6, <3>1, <3>2, <3>3
  <2>3. OpenUntilNext(rounds')
    BY <1>1, <2>1, <2>2, KeepsOpen
  <2> QED BY <2>1, <2>3 DEF CutOffByStart
<1>7. CASE Done \/ UNCHANGED vars
  <2>1. UNCHANGED <<open, rounds, pc>>
    BY <1>7 DEF Done, vars
  <2>2. SoFar' = SoFar
    BY <2>1 DEF SoFar
  <2> QED BY <2>1, <2>2 DEF CutOffByStart
<1> QED BY <1>2, <1>3, <1>4, <1>5, <1>6, <1>7 DEF Next, Derive

\* For every recording, place finds a round at each tick from its start to its
\* end (rounds.rs:425-448): every earlier round is over by then, at its own
\* end or because a start no later than this round's cut it off.
THEOREM PlacedWithin ==
  ASSUME MaxTick \in Nat
  PROVE  Spec => []PlacedInItsRound
<1>1. Init => CutOffByStart
  BY DEF Init, CutOffByStart, SoFar, OpenUntilNext
<1>2. RInv /\ CutOffByStart => PlacedInItsRound
  <2> SUFFICES ASSUME RInv, CutOffByStart, pc = "done",
                      NEW i \in 1..Len(rounds), NEW t \in 0..MaxTick,
                      rounds[i].start # None, rounds[i].end # None,
                      rounds[i].start <= t, t <= rounds[i].end
               PROVE  Place(rounds, t) = [index |-> i, post_round |-> FALSE]
    BY DEF PlacedInItsRound
  <2>1. /\ rounds \in Seq(Round) /\ SoFar = rounds /\ t \in Nat
        /\ Apart(rounds) /\ OpenUntilNext(rounds)
    BY DEF RInv, TypeOK, Queued, NoOverlap, CutOffByStart, SoFar
  <2>2. \A j \in 1..Len(rounds) : /\ rounds[j].start \in Nat \cup {None}
                                  /\ rounds[j].end \in Nat \cup {None}
    <3>1. \A j \in 1..Len(rounds) : rounds[j] \in Round
      BY <2>1
    <3> QED BY <3>1 DEF Round
  <2>3. i \in NotOver(rounds, t)
    BY DEF NotOver, LastTick
  <2>4. ASSUME NEW j \in NotOver(rounds, t)
        PROVE  j \in Nat /\ i <= j
    <3>1. j \in 1..Len(rounds)
      BY DEF NotOver
    <3>2. SUFFICES ASSUME j < i PROVE FALSE
      BY <2>1, <3>1
    <3>3. Precedes(rounds[j], rounds[i])
      BY <2>1, <3>1, <3>2 DEF Apart
    <3>4. CASE rounds[j].end # None
      <4>1. rounds[j].end < rounds[i].start /\ rounds[j].end \in Nat /\ rounds[i].start \in Nat
        BY <2>2, <3>1, <3>3, <3>4 DEF Precedes
      <4>2. LastTick(rounds, j) = rounds[j].end
        BY <3>4 DEF LastTick
      <4> QED BY <2>1, <3>4, <4>1, <4>2 DEF NotOver
    <3>5. CASE rounds[j].end = None
      <4>1. j < Len(rounds) /\ j + 1 \in 1..Len(rounds) /\ j \in 1..(Len(rounds) - 1)
        BY <2>1, <3>1, <3>2
      <4>2. rounds[j + 1].start # None
        BY <2>1, <3>5, <4>1 DEF OpenUntilNext
      <4>3. rounds[j + 1].start \in Nat /\ rounds[i].start \in Nat
        BY <2>2, <4>1, <4>2
      <4>4. rounds[j + 1].start <= rounds[i].start
        <5>1. CASE j + 1 = i
          BY <4>3, <5>1
        <5>2. CASE j + 1 # i
          <6>1. Precedes(rounds[j + 1], rounds[i])
            BY <2>1, <3>1, <3>2, <4>1, <5>2 DEF Apart
          <6> QED BY <4>2, <6>1 DEF Precedes
        <5> QED BY <5>1, <5>2
      <4>5. LastTick(rounds, j) = rounds[j + 1].start - 1
        BY <3>5, <4>1, <4>2 DEF LastTick
      <4>6. LastTick(rounds, j) # None /\ ~(t <= LastTick(rounds, j))
        BY <2>1, <4>3, <4>4, <4>5, RoundsAssumption
      <4> QED BY <4>6 DEF NotOver
    <3> QED BY <3>4, <3>5
  <2>5. Place(rounds, t) = During(i)
    BY <2>3, <2>4, PlaceAt
  <2> QED BY <2>5 DEF During
<1> QED BY <1>1, <1>2, RInvInit, RInvStep, CutOffStep, PTL DEF Spec

-----------------------------------------------------------------------------

\* The rounds before position i are over by the same ticks without those from
\* i on, when i began at the tick cut.
LEMMA NotOverKept ==
  ASSUME NEW rs \in Seq(Round), NEW i \in 2..Len(rs), rs[i].start # None,
         NEW t \in Nat, t < rs[i].start
  PROVE  \A k \in 1..(i - 1) :
           k \in NotOver(rs, t) <=> k \in NotOver(SubSeq(rs, 1, i - 1), t)
<1> DEFINE kept == SubSeq(rs, 1, i - 1)
<1>1. /\ Len(rs) \in Nat /\ Len(kept) = i - 1
      /\ \A k \in 1..(i - 1) : kept[k] = rs[k]
  OBVIOUS
<1>2. \A k \in 1..Len(rs) : rs[k].start \in Nat \cup {None} /\ rs[k].end \in Nat \cup {None}
  <2>1. \A k \in 1..Len(rs) : rs[k] \in Round
    OBVIOUS
  <2> QED BY <2>1 DEF Round
<1> HIDE DEF kept
<1> SUFFICES ASSUME NEW k \in 1..(i - 1)
             PROVE  k \in NotOver(rs, t) <=> k \in NotOver(kept, t)
  BY DEF kept
<1>3. k \in 1..Len(rs) /\ k \in 1..Len(kept) /\ kept[k] = rs[k] /\ k + 1 \in 1..Len(rs)
  BY <1>1
<1>4. CASE rs[k].end # None
  BY <1>3, <1>4 DEF NotOver, LastTick
<1>5. CASE rs[k].end = None /\ k < i - 1
  <2>1. kept[k + 1] = rs[k + 1] /\ k < Len(rs) /\ k < Len(kept)
    BY <1>1, <1>5
  <2> QED BY <1>3, <1>5, <2>1 DEF NotOver, LastTick
<1>6. CASE rs[k].end = None /\ k = i - 1
  <2>1. LastTick(kept, k) = None
    BY <1>1, <1>3, <1>6 DEF LastTick
  <2>2. rs[i].start \in Nat /\ LastTick(rs, k) = rs[i].start - 1
    BY <1>1, <1>2, <1>3, <1>6 DEF LastTick
  <2>3. t <= LastTick(rs, k)
    BY <2>2
  <2> QED BY <1>3, <2>1, <2>3 DEF NotOver
<1> QED BY <1>1, <1>4, <1>5, <1>6

\* Every tick before the cut is placed among the kept rounds as it was.
LEMMA PlaceKept ==
  ASSUME NEW rs \in Seq(Round), Apart(rs), NEW i \in 2..Len(rs), rs[i].start # None,
         NEW t \in Nat, t < rs[i].start
  PROVE  Place(SubSeq(rs, 1, i - 1), t) = Place(rs, t)
<1> DEFINE kept == SubSeq(rs, 1, i - 1)
<1>1. /\ Len(rs) \in Nat /\ Len(kept) = i - 1 /\ kept \in Seq(Round)
      /\ \A k \in 1..(i - 1) : kept[k] = rs[k]
  OBVIOUS
<1>2. \A k \in 1..(i - 1) : k \in NotOver(rs, t) <=> k \in NotOver(kept, t)
  BY NotOverKept
<1> HIDE DEF kept
<1>3. NotOver(kept, t) \subseteq 1..(i - 1) /\ NotOver(rs, t) \subseteq 1..Len(rs)
  BY <1>1 DEF NotOver
<1>4. CASE NotOver(kept, t) # {}
  <2>1. PICK k \in NotOver(kept, t) : \A j \in NotOver(kept, t) : k <= j
    BY <1>1, <1>4, FirstNotOver
  <2>2. k \in 1..(i - 1) /\ k \in NotOver(rs, t)
    BY <1>2, <1>3
  <2>3. ASSUME NEW j \in NotOver(rs, t) PROVE j \in Nat /\ k <= j
    <3>1. CASE j \in 1..(i - 1)
      BY <1>2, <2>1, <3>1
    <3>2. CASE j \notin 1..(i - 1)
      BY <1>3, <2>2, <3>2
    <3> QED BY <3>1, <3>2
  <2>4. \A j \in NotOver(kept, t) : j \in Nat /\ k <= j
    BY <1>3, <2>1
  <2>5. /\ Place(rs, t) = IF rs[k].start = None \/ rs[k].start <= t
                            THEN During(k) ELSE PostRound(k - 1)
        /\ Place(kept, t) = IF kept[k].start = None \/ kept[k].start <= t
                              THEN During(k) ELSE PostRound(k - 1)
    BY <2>2, <2>3, <2>4, PlaceAt
  <2> QED BY <1>1, <2>2, <2>5 DEF kept
<1>5. CASE NotOver(kept, t) = {}
  <2>1. Place(kept, t) = PostRound(i - 1)
    BY <1>1, <1>5 DEF Place
  <2>2. \A j \in 1..Len(rs) : rs[j].start \in Nat \cup {None} /\ rs[j].end \in Nat \cup {None}
    <3>1. \A j \in 1..Len(rs) : rs[j] \in Round
      OBVIOUS
    <3> QED BY <3>1 DEF Round
  <2>3. i \in 1..Len(rs) /\ rs[i].start \in Nat
    BY <1>1, <2>2
  <2>4. i \in NotOver(rs, t)
    <3>1. CASE rs[i].end # None
      <4>1. rs[i].start <= rs[i].end /\ rs[i].end \in Nat
        BY <2>2, <2>3, <3>1 DEF Apart, Proper
      <4> QED BY <2>3, <3>1, <4>1 DEF NotOver, LastTick
    <3>2. CASE rs[i].end = None /\ i < Len(rs) /\ rs[i + 1].start # None
      <4>1. i + 1 \in 1..Len(rs)
        BY <1>1, <2>3, <3>2
      <4>2. Precedes(rs[i], rs[i + 1])
        BY <2>3, <4>1 DEF Apart
      <4>3. rs[i].start <= rs[i + 1].start /\ rs[i + 1].start \in Nat
        BY <2>2, <3>2, <4>1, <4>2 DEF Precedes
      <4>4. LastTick(rs, i) = rs[i + 1].start - 1
        BY <3>2 DEF LastTick
      <4>5. t <= LastTick(rs, i)
        BY <2>3, <4>3, <4>4
      <4> QED BY <2>3, <4>5 DEF NotOver
    <3>3. CASE rs[i].end = None /\ ~(i < Len(rs) /\ rs[i + 1].start # None)
      BY <2>3, <3>3 DEF NotOver, LastTick
    <3> QED BY <3>1, <3>2, <3>3
  <2>5. ASSUME NEW j \in NotOver(rs, t) PROVE j \in Nat /\ i <= j
    <3>1. j \notin 1..(i - 1) /\ j \in 1..Len(rs)
      BY <1>2, <1>3, <1>5
    <3> QED BY <1>1, <3>1
  <2>6. Place(rs, t) = PostRound(i - 1)
    <3>1. ~(rs[i].start = None \/ rs[i].start <= t)
      BY <2>3
    <3> QED BY <2>3, <2>4, <2>5, <3>1, PlaceAt
  <2> QED BY <2>1, <2>6 DEF kept
<1> QED BY <1>4, <1>5

\* For every recording and every last round, what cut_after keeps lies wholly
\* before the tick it returns, is numbered no later than asked for, and keeps
\* the place of every tick before the cut (rounds.rs:400-423).
THEOREM CutSpares == Spec => CutSparesWhatItKeeps
<1> DEFINE Spares ==
      rounds' # rounds /\ pc = "cut" =>
        /\ \A i \in 1..Len(rounds') :
             /\ rounds'[i].number <= rec.last
             /\ rounds'[i].start # None => rounds'[i].start <= cut'
             /\ rounds'[i].end # None => rounds'[i].end < cut'
        /\ \A t \in 0..cut' - 1 : Place(rounds', t) = Place(rounds, t)
<1>1. RInv /\ [Next]_vars => [Spares]_vars
  <2> SUFFICES ASSUME RInv, [Next]_vars, rounds' # rounds, pc = "cut" PROVE Spares
    OBVIOUS
  <2>1. CutAfter
    BY DEF Next, Derive, SortEnds, Close, OpenNext, KeepOpen, NumberRounds, StartFirst,
           Done, vars
  <2>2. PICK i \in FirstAfter(rounds, rec.last) : CutAt(i)
    BY <2>1 DEF CutAfter
  <2>3. rounds \in Seq(Round) /\ Apart(rounds) /\ rounds = SoFar
    BY DEF RInv, TypeOK, Queued, NoOverlap, SoFar
  <2>4. /\ i \in 2..Len(rounds) /\ \A j \in 1..(i - 1) : rounds[j].number <= rec.last
        /\ rounds[i].start # None /\ cut' = rounds[i].start
        /\ rounds' = SubSeq(rounds, 1, i - 1)
    BY <2>2, <2>3 DEF FirstAfter, CutAt
  <2>5. rounds[i].start \in Nat
    <3>1. rounds[i] \in Round
      BY <2>3, <2>4
    <3> QED BY <2>4, <3>1 DEF Round
  <2>6. Len(rounds') = i - 1 /\ \A k \in 1..(i - 1) : rounds'[k] = rounds[k]
    BY <2>3, <2>4
  <2>7. ASSUME NEW k \in 1..Len(rounds')
        PROVE  /\ rounds'[k].number <= rec.last
               /\ rounds'[k].start # None => rounds'[k].start <= cut'
               /\ rounds'[k].end # None => rounds'[k].end < cut'
    <3>1. k \in 1..(i - 1) /\ rounds'[k] = rounds[k] /\ k \in 1..Len(rounds)
      BY <2>4, <2>6
    <3>2. Precedes(rounds[k], rounds[i])
      BY <2>3, <2>4, <3>1 DEF Apart
    <3> QED BY <2>4, <3>1, <3>2 DEF Precedes
  <2>8. ASSUME NEW t \in 0..cut' - 1
        PROVE  Place(rounds', t) = Place(rounds, t)
    BY <2>3, <2>4, <2>5, PlaceKept
  <2> QED BY <2>7, <2>8
<1>2. Spec => [][Spares]_vars
  BY <1>1, RInvInit, RInvStep, PTL DEF Spec
<1> QED BY <1>2 DEF CutSparesWhatItKeeps

-----------------------------------------------------------------------------

LEMMA CountToType ==
  ASSUME NEW marks, NEW k \in Nat
  PROVE  /\ IsFiniteSet({j \in 1..k : marks[j] # None})
         /\ CountTo(marks, k) \in 0..k
<1>1. IsFiniteSet(1..k) /\ Cardinality(1..k) = k
  BY FS_Interval
<1>2. {j \in 1..k : marks[j] # None} \in SUBSET (1..k)
  OBVIOUS
<1>3. /\ IsFiniteSet({j \in 1..k : marks[j] # None})
      /\ Cardinality({j \in 1..k : marks[j] # None}) <= k
  BY <1>1, <1>2, FS_Subset
<1>4. Cardinality({j \in 1..k : marks[j] # None}) \in Nat
  BY <1>3, FS_CardinalityType
<1> QED BY <1>3, <1>4 DEF CountTo

LEMMA CountToNat ==
  ASSUME NEW marks, NEW k \in Nat
  PROVE  CountTo(marks, k) \in Nat
<1>1. CountTo(marks, k) \in 0..k
  BY CountToType
<1> QED BY <1>1

\* One more round counts when it has the mark.
LEMMA CountNext ==
  ASSUME NEW marks, NEW k \in Nat
  PROVE  CountTo(marks, k + 1) = CountTo(marks, k) + IF marks[k + 1] = None THEN 0 ELSE 1
<1> DEFINE had == {j \in 1..k : marks[j] # None}
           has == {j \in 1..(k + 1) : marks[j] # None}
<1>1. IsFiniteSet(had) /\ Cardinality(had) \in Nat
  <2>1. IsFiniteSet(1..k) /\ had \in SUBSET (1..k)
    BY FS_Interval
  <2> HIDE DEF had
  <2>2. IsFiniteSet(had)
    BY <2>1, FS_Subset
  <2> QED BY <2>2, FS_CardinalityType
<1>2. CASE marks[k + 1] = None
  <2>1. has = had
    BY <1>2
  <2> QED BY <1>1, <1>2, <2>1 DEF CountTo
<1>3. CASE marks[k + 1] # None
  <2>1. has = had \cup {k + 1} /\ k + 1 \notin had
    BY <1>3
  <2>2. Cardinality(has) = Cardinality(had) + 1
    BY <1>1, <2>1, FS_AddElement
  <2> QED BY <1>3, <2>2 DEF CountTo
<1> QED BY <1>2, <1>3

\* A round after those counted does not change the count.
LEMMA CountSame ==
  ASSUME NEW S, NEW marks \in Seq(S), NEW m \in S
  PROVE  \A k \in 0..Len(marks) : CountTo(Append(marks, m), k) = CountTo(marks, k)
<1> SUFFICES ASSUME NEW k \in 0..Len(marks)
             PROVE  CountTo(Append(marks, m), k) = CountTo(marks, k)
  OBVIOUS
<1>1. \A j \in 1..k : Append(marks, m)[j] = marks[j]
  OBVIOUS
<1>2. {j \in 1..k : Append(marks, m)[j] # None} = {j \in 1..k : marks[j] # None}
  BY <1>1
<1> QED BY <1>2 DEF CountTo

\* A round without the mark leaves the shares as they are.
LEMMA SharedNone ==
  ASSUME NEW S, NEW marks \in Seq(S \cup {None}), NEW left \in Seq(S), NEW all \in Seq(S)
  PROVE  Shared(Append(marks, None), left, all) <=> Shared(marks, left, all)
<1> DEFINE new == Append(marks, None)
           n == Len(marks)
<1>1. /\ n \in Nat /\ Len(new) = n + 1 /\ new[n + 1] = None
      /\ \A k \in 1..n : new[k] = marks[k]
  OBVIOUS
<1>2. \A k \in 0..n : CountTo(new, k) = CountTo(marks, k)
  BY CountSame
<1>3. CountTo(marks, n) \in Nat
  BY <1>1, CountToNat
<1> HIDE DEF new
<1>4. CountTo(new, n + 1) = CountTo(new, n) /\ CountTo(new, n) = CountTo(marks, n)
  <2>1. CountTo(new, n) = CountTo(marks, n)
    BY <1>1, <1>2
  <2> QED BY <1>1, <1>3, <2>1, CountNext
<1>5. \A k \in 1..(n + 1) : k \in 1..n \/ k = n + 1
  BY <1>1
<1>6. (\A k \in 1..Len(new) : new[k] # None => new[k] = all[CountTo(new, k)])
        <=> (\A k \in 1..n : marks[k] # None => marks[k] = all[CountTo(marks, k)])
  <2>1. \A k \in 1..n : k \in 1..Len(new) /\ k \in 0..n
    BY <1>1
  <2> QED BY <1>1, <1>2, <1>5, <2>1
<1> QED BY <1>1, <1>4, <1>6 DEF Shared, new

\* A round that takes the next mark to come leaves every mark in one place.
LEMMA SharedHead ==
  ASSUME NEW S, None \notin S, NEW marks \in Seq(S \cup {None}), NEW left \in Seq(S),
         NEW all \in Seq(S), left # <<>>, Shared(marks, left, all)
  PROVE  Shared(Append(marks, Head(left)), Tail(left), all)
<1> DEFINE h == Head(left)
           new == Append(marks, h)
           n == Len(marks)
           c == CountTo(marks, n)
<1>1. /\ h \in S /\ h = left[1] /\ Len(left) \in Nat \ {0} /\ Len(Tail(left)) = Len(left) - 1
      /\ \A k \in 1..Len(Tail(left)) : Tail(left)[k] = left[k + 1]
  OBVIOUS
<1>2. /\ n \in Nat /\ Len(new) = n + 1 /\ new[n + 1] = h
      /\ \A k \in 1..n : new[k] = marks[k]
  BY <1>1
<1>3. \A k \in 0..n : CountTo(new, k) = CountTo(marks, k)
  BY <1>1, CountSame
<1>4. c \in Nat
  BY <1>2, CountToNat
<1> HIDE DEF new, h
<1>5. CountTo(new, n) = c
  BY <1>2, <1>3
<1>6. CountTo(new, n + 1) = c + 1
  BY <1>1, <1>2, <1>4, <1>5, CountNext
<1>7. /\ c + Len(left) = Len(all)
      /\ \A k \in 1..n : marks[k] # None => marks[k] = all[CountTo(marks, k)]
      /\ \A k \in 1..Len(left) : left[k] = all[c + k]
  BY DEF Shared
<1> HIDE DEF c
<1>8. CountTo(new, Len(new)) + Len(Tail(left)) = Len(all)
  BY <1>1, <1>2, <1>4, <1>6, <1>7
<1>9. ASSUME NEW k \in 1..Len(new), new[k] # None
      PROVE  new[k] = all[CountTo(new, k)]
  <2>1. CASE k \in 1..n
    BY <1>2, <1>3, <1>7, <1>9, <2>1
  <2>2. CASE k = n + 1
    <3>1. left[1] = all[c + 1]
      BY <1>1, <1>7
    <3> QED BY <1>1, <1>2, <1>6, <2>2, <3>1
  <2> QED BY <1>2, <2>1, <2>2
<1>10. ASSUME NEW k \in 1..Len(Tail(left))
       PROVE  Tail(left)[k] = all[CountTo(new, Len(new)) + k]
  <2>1. k + 1 \in 1..Len(left) /\ c + 1 + k = c + (k + 1)
    BY <1>1, <1>4
  <2> QED BY <1>1, <1>2, <1>6, <1>7, <2>1
<1>11. Shared(new, Tail(left), all)
  BY <1>8, <1>9, <1>10 DEF Shared
<1> QED BY <1>11 DEF new, h

\* The start of round r, and its end, as StartsIn and EndsIn have them.
StartOf(r) == IF r.start = None THEN None ELSE [tick |-> r.start, number |-> r.number]
EndOf(r) == IF r.end = None THEN None ELSE [tick |-> r.end, winner |-> r.winner]

\* A round open or closed has the number of its start marker, and a winner
\* when it has an end.
FromMarks(r) ==
  /\ r.start # None => r.number \in Nat \cup {None}
  /\ r.end # None => r.winner \in Winner

LEMMA MarksType ==
  ASSUME NEW rs \in Seq(Round), \A k \in 1..Len(rs) : FromMarks(rs[k])
  PROVE  /\ StartsIn(rs) \in Seq(Start \cup {None}) /\ Len(StartsIn(rs)) = Len(rs)
         /\ EndsIn(rs) \in Seq(End \cup {None}) /\ Len(EndsIn(rs)) = Len(rs)
<1>1. DOMAIN rs = 1..Len(rs) /\ Len(rs) \in Nat
  OBVIOUS
<1>2. ASSUME NEW k \in 1..Len(rs)
      PROVE  StartOf(rs[k]) \in Start \cup {None} /\ EndOf(rs[k]) \in End \cup {None}
  <2>1. rs[k] \in Round /\ FromMarks(rs[k])
    OBVIOUS
  <2> QED BY <2>1 DEF FromMarks, StartOf, EndOf, Round, Start, End
<1>3. /\ StartsIn(rs) = [k \in 1..Len(rs) |-> StartOf(rs[k])]
      /\ EndsIn(rs) = [k \in 1..Len(rs) |-> EndOf(rs[k])]
  BY <1>1 DEF StartsIn, EndsIn, StartOf, EndOf
<1> QED BY <1>1, <1>2, <1>3

LEMMA MarksAppend ==
  ASSUME NEW rs \in Seq(Round), NEW r \in Round,
         \A k \in 1..Len(rs) : FromMarks(rs[k]), FromMarks(r)
  PROVE  /\ StartsIn(Append(rs, r)) = Append(StartsIn(rs), StartOf(r))
         /\ EndsIn(Append(rs, r)) = Append(EndsIn(rs), EndOf(r))
<1> DEFINE new == Append(rs, r)
<1>1. /\ DOMAIN new = 1..(Len(rs) + 1) /\ DOMAIN rs = 1..Len(rs) /\ Len(rs) \in Nat
      /\ new[Len(rs) + 1] = r /\ \A k \in 1..Len(rs) : new[k] = rs[k]
      /\ new \in Seq(Round) /\ Len(new) = Len(rs) + 1
  OBVIOUS
<1>2. /\ StartsIn(rs) \in Seq(Start \cup {None}) /\ Len(StartsIn(rs)) = Len(rs)
      /\ EndsIn(rs) \in Seq(End \cup {None}) /\ Len(EndsIn(rs)) = Len(rs)
  BY MarksType
<1>3. /\ StartsIn(rs) = [k \in 1..Len(rs) |-> StartOf(rs[k])]
      /\ EndsIn(rs) = [k \in 1..Len(rs) |-> EndOf(rs[k])]
  BY <1>1 DEF StartsIn, EndsIn, StartOf, EndOf
<1> HIDE DEF new
<1>4. /\ StartsIn(new) = [k \in 1..(Len(rs) + 1) |-> StartOf(new[k])]
      /\ EndsIn(new) = [k \in 1..(Len(rs) + 1) |-> EndOf(new[k])]
  BY <1>1 DEF StartsIn, EndsIn, StartOf, EndOf
<1>5. /\ Append(StartsIn(rs), StartOf(r)) = [k \in 1..(Len(rs) + 1) |-> StartOf(new[k])]
      /\ Append(EndsIn(rs), EndOf(r)) = [k \in 1..(Len(rs) + 1) |-> EndOf(new[k])]
  BY <1>1, <1>2, <1>3
<1> QED BY <1>4, <1>5 DEF new

\* EveryMarkInOneRound with what makes it inductive: the queue of starts before
\* the merge, where the rounds' fields come from, and that an open round has no
\* end yet.
MarksKept ==
  /\ pc = "sort" => starts = rec.starts
  /\ pc \in {"sort", "merge", "number"} => \A k \in 1..Len(SoFar) : FromMarks(SoFar[k])
  /\ open # None => open.end = None
  /\ EveryMarkInOneRound

LEMMA MarksSortEnds ==
  ASSUME RInv, MarksKept, SortEnds
  PROVE  MarksKept'
<1> DEFINE es == Results(rec)
<1>1. rounds = <<>> /\ starts = rec.starts /\ open = None
  BY DEF RInv, Queued, MarksKept, SortEnds
<1>2. SoFar' = <<>> /\ pc' = "merge" /\ open' = None /\ rec' = rec /\ starts' = rec.starts
  BY <1>1 DEF SortEnds, SoFar
<1>3. PICK p \in Order(es) : ends' = [i \in 1..Len(es) |-> es[p[i]]]
  BY DEF SortEnds
<1>4. es \in Seq(End) /\ rec.starts \in Seq(Start)
  BY ResultsType DEF RInv, TypeOK, Recording
<1>5. ends' \in Seq(End)
  BY <1>3, <1>4, SortedEnds
<1>6. StartsIn(<<>>) = <<>> /\ EndsIn(<<>>) = <<>>
  BY DEF StartsIn, EndsIn
<1>7. ASSUME NEW S, NEW all \in Seq(S) PROVE Shared(<<>>, all, all)
  <2>1. {j \in 1..0 : <<>>[j] # None} = {}
    OBVIOUS
  <2>2. CountTo(<<>>, 0) = 0
    BY <2>1, FS_EmptySet DEF CountTo
  <2> QED BY <2>2 DEF Shared
<1>8. Shared(StartsIn(SoFar'), starts', rec'.starts)
  BY <1>2, <1>4, <1>6, <1>7
<1>9. Shared(EndsIn(SoFar'), ends', [i \in 1..Len(es) |-> es[p[i]]])
  BY <1>2, <1>3, <1>5, <1>6, <1>7
<1>10. Results(rec') = es
  BY <1>2
<1>11. EveryMarkInOneRound'
  BY <1>2, <1>8, <1>9, <1>10 DEF EveryMarkInOneRound
<1> QED BY <1>2, <1>11 DEF MarksKept

\* Closing a round leaves the starts where they are and gives the next end to
\* a round that had none.
LEMMA MarksClose ==
  ASSUME RInv, MarksKept, Close
  PROVE  MarksKept'
<1> DEFINE e == Head(ends)
           last == IF open = None THEN Unstarted ELSE open
           new == Ended(last, e)
<1>1. /\ starts \in Seq(Start) /\ ends \in Seq(End) /\ ends # <<>> /\ rounds \in Seq(Round)
      /\ rec.starts \in Seq(Start) /\ pc = "merge" /\ pc' = "merge" /\ rec' = rec
      /\ starts' = starts /\ ends' = Tail(ends) /\ open' = None
  BY DEF RInv, TypeOK, Recording, Close
<1>2. e \in End /\ last \in Round /\ e.tick \in Nat /\ e.winner \in Winner
      /\ e = [tick |-> e.tick, winner |-> e.winner]
  <2>1. e \in End
    BY <1>1
  <2>2. last \in Round
    BY UnstartedType DEF RInv, TypeOK
  <2> QED BY <2>1, <2>2 DEF End
<1>3. /\ new \in Round /\ new.start = last.start /\ new.number = last.number
      /\ new.end = e.tick /\ new.winner = e.winner
  BY <1>2, EndedType DEF Ended, Round
<1>4. SoFar' = Append(rounds, new)
  BY DEF Close, SoFar
<1>5. /\ \A k \in 1..Len(rounds) : FromMarks(rounds[k])
      /\ FromMarks(last) /\ last.end = None
  <2>1. \A k \in 1..Len(rounds) : FromMarks(rounds[k])
    BY <1>1, SoFarType DEF RInv, MarksKept
  <2>2. CASE open = None
    BY <2>1, <2>2 DEF Unstarted, FromMarks
  <2>3. CASE open # None
    <3>1. SoFar \in Seq(Round) /\ Len(SoFar) = Len(rounds) + 1 /\ SoFar[Len(SoFar)] = open
      BY <2>3, SoFarType DEF RInv
    <3>2. Len(SoFar) \in 1..Len(SoFar)
      BY <1>1, <3>1
    <3> QED BY <1>1, <2>1, <2>3, <3>1, <3>2 DEF MarksKept
  <2> QED BY <2>2, <2>3
<1> HIDE DEF e, last, new
<1>6. FromMarks(new)
  BY <1>2, <1>3, <1>5, RoundsAssumption DEF FromMarks
<1>7. /\ StartsIn(SoFar') = Append(StartsIn(rounds), StartOf(last))
      /\ EndsIn(SoFar') = Append(EndsIn(rounds), e)
  <2>1. StartOf(new) = StartOf(last) /\ EndOf(new) = e
    BY <1>2, <1>3, RoundsAssumption DEF StartOf, EndOf
  <2> QED BY <1>1, <1>3, <1>4, <1>5, <1>6, <2>1, MarksAppend
<1>8. /\ StartsIn(rounds) \in Seq(Start \cup {None})
      /\ EndsIn(rounds) \in Seq(End \cup {None})
  BY <1>1, <1>5, MarksType
<1>9. PICK p \in Order(Results(rec)) :
        Shared(EndsIn(SoFar), ends, [i \in 1..Len(Results(rec)) |-> Results(rec)[p[i]]])
  BY <1>1 DEF MarksKept, EveryMarkInOneRound
<1> DEFINE sorted == [i \in 1..Len(Results(rec)) |-> Results(rec)[p[i]]]
<1>10. sorted \in Seq(End)
  BY ResultsType, SortedEnds DEF RInv, TypeOK
<1>11. Shared(StartsIn(SoFar), starts, rec.starts)
  BY <1>1 DEF MarksKept, EveryMarkInOneRound
<1> HIDE DEF sorted
<1>12. /\ Shared(Append(StartsIn(rounds), StartOf(last)), starts, rec.starts)
       /\ Shared(EndsIn(rounds), ends, sorted)
  <2>1. CASE open = None
    <3>1. SoFar = rounds /\ StartOf(last) = None
      BY <2>1 DEF SoFar, last, Unstarted, StartOf
    <3>2. Shared(Append(StartsIn(rounds), None), starts, rec.starts)
      BY <1>1, <1>8, <1>11, <3>1, SharedNone
    <3> QED BY <1>9, <3>1, <3>2 DEF sorted
  <2>2. CASE open # None
    <3>1. SoFar = Append(rounds, last) /\ EndOf(last) = None
      BY <1>5, <2>2 DEF SoFar, last, EndOf
    <3>2. /\ StartsIn(SoFar) = Append(StartsIn(rounds), StartOf(last))
          /\ EndsIn(SoFar) = Append(EndsIn(rounds), None)
      BY <1>1, <1>2, <1>5, <3>1, MarksAppend
    <3>3. Shared(Append(EndsIn(rounds), None), ends, sorted)
      BY <1>9, <3>2 DEF sorted
    <3>4. Shared(EndsIn(rounds), ends, sorted)
      BY <1>1, <1>8, <1>10, <3>3, SharedNone
    <3> QED BY <1>11, <3>2, <3>4
  <2> QED BY <2>1, <2>2
<1>13. Shared(EndsIn(SoFar'), ends', sorted)
  <2>1. Shared(Append(EndsIn(rounds), Head(ends)), Tail(ends), sorted)
    BY <1>1, <1>8, <1>10, <1>12, RoundsAssumption, SharedHead
  <2> QED BY <1>1, <1>7, <2>1 DEF e
<1>14. EveryMarkInOneRound'
  BY <1>1, <1>7, <1>12, <1>13 DEF EveryMarkInOneRound, sorted
<1>15. \A k \in 1..Len(SoFar') : FromMarks(SoFar'[k])
  <2>1. \A k \in 1..Len(SoFar') : k \in 1..Len(rounds) \/ k = Len(rounds) + 1
    BY <1>1, <1>3, <1>4
  <2>2. /\ SoFar'[Len(rounds) + 1] = new
        /\ \A k \in 1..Len(rounds) : SoFar'[k] = rounds[k]
    BY <1>1, <1>3, <1>4
  <2> QED BY <1>5, <1>6, <2>1, <2>2
<1> QED BY <1>1, <1>14, <1>15 DEF MarksKept

\* Opening a round gives it the next start, and leaves the ends where they are.
LEMMA MarksOpenNext ==
  ASSUME RInv, MarksKept, OpenNext
  PROVE  MarksKept'
<1> DEFINE h == Head(starts)
           new == Started(h)
<1>1. /\ starts \in Seq(Start) /\ ends \in Seq(End) /\ starts # <<>> /\ SoFar \in Seq(Round)
      /\ rec.starts \in Seq(Start) /\ pc = "merge" /\ pc' = "merge" /\ rec' = rec
      /\ starts' = Tail(starts) /\ ends' = ends
  BY SoFarType DEF RInv, TypeOK, Recording, OpenNext
<1>2. h \in Start /\ h.tick \in Nat /\ h.number \in Nat \cup {None}
      /\ h = [tick |-> h.tick, number |-> h.number]
  <2>1. h \in Start
    BY <1>1
  <2> QED BY <2>1 DEF Start
<1>3. new \in Round /\ new.start = h.tick /\ new.end = None /\ new.number = h.number
  BY <1>2, StartedType DEF Started, Unstarted
<1>4. open' = new /\ open' # None /\ new.start # None
  BY <1>2, <1>3, RoundsAssumption DEF OpenNext
<1>5. SoFar' = Append(SoFar, new)
  BY <1>4 DEF OpenNext, SoFar
<1>6. \A k \in 1..Len(SoFar) : FromMarks(SoFar[k])
  BY <1>1 DEF MarksKept
<1> HIDE DEF h, new
<1>7. FromMarks(new)
  BY <1>2, <1>3 DEF FromMarks
<1>8. /\ StartsIn(SoFar') = Append(StartsIn(SoFar), h)
      /\ EndsIn(SoFar') = Append(EndsIn(SoFar), None)
  <2>1. StartOf(new) = h /\ EndOf(new) = None
    BY <1>2, <1>3, <1>4 DEF StartOf, EndOf
  <2> QED BY <1>1, <1>3, <1>5, <1>6, <1>7, <2>1, MarksAppend
<1>9. /\ StartsIn(SoFar) \in Seq(Start \cup {None})
      /\ EndsIn(SoFar) \in Seq(End \cup {None})
  BY <1>1, <1>6, MarksType
<1>10. PICK p \in Order(Results(rec)) :
         Shared(EndsIn(SoFar), ends, [i \in 1..Len(Results(rec)) |-> Results(rec)[p[i]]])
  BY <1>1 DEF MarksKept, EveryMarkInOneRound
<1> DEFINE sorted == [i \in 1..Len(Results(rec)) |-> Results(rec)[p[i]]]
<1>11. sorted \in Seq(End)
  BY ResultsType, SortedEnds DEF RInv, TypeOK
<1>12. Shared(StartsIn(SoFar), starts, rec.starts)
  BY <1>1 DEF MarksKept, EveryMarkInOneRound
<1>13. Shared(EndsIn(SoFar), ends, sorted)
  BY <1>10
<1> HIDE DEF sorted
<1>14. Shared(StartsIn(SoFar'), starts', rec'.starts)
  <2>1. Shared(Append(StartsIn(SoFar), Head(starts)), Tail(starts), rec.starts)
    BY <1>1, <1>9, <1>12, RoundsAssumption, SharedHead
  <2> QED BY <1>1, <1>8, <2>1 DEF h
<1>15. Shared(EndsIn(SoFar'), ends', sorted)
  <2>1. Shared(Append(EndsIn(SoFar), None), ends, sorted)
    BY <1>1, <1>9, <1>11, <1>13, SharedNone
  <2> QED BY <1>1, <1>8, <2>1
<1>16. EveryMarkInOneRound'
  BY <1>1, <1>14, <1>15 DEF EveryMarkInOneRound, sorted
<1>17. \A k \in 1..Len(SoFar') : FromMarks(SoFar'[k])
  <2>1. \A k \in 1..Len(SoFar') : k \in 1..Len(SoFar) \/ k = Len(SoFar) + 1
    BY <1>1, <1>3, <1>5
  <2>2. /\ SoFar'[Len(SoFar) + 1] = new
        /\ \A k \in 1..Len(SoFar) : SoFar'[k] = SoFar[k]
    BY <1>1, <1>3, <1>5
  <2> QED BY <1>6, <1>7, <2>1, <2>2
<1> QED BY <1>1, <1>3, <1>4, <1>16, <1>17 DEF MarksKept

LEMMA MarksStep ==
  ASSUME RInv, MarksKept, [Next]_vars
  PROVE  MarksKept'
<1>1. CASE SortEnds
  BY <1>1, MarksSortEnds
<1>2. CASE Close
  BY <1>2, MarksClose
<1>3. CASE OpenNext
  BY <1>3, MarksOpenNext
<1>4. CASE KeepOpen
  <2>1. /\ SoFar' = SoFar /\ pc = "merge" /\ pc' = "number" /\ open' = None
        /\ UNCHANGED <<rec, starts, ends>>
    BY <1>4 DEF KeepOpen, SoFar
  <2> QED BY <2>1 DEF MarksKept, EveryMarkInOneRound
<1>5. CASE NumberRounds \/ StartFirst \/ CutAfter
  <2>1. open = None /\ open' = None /\ pc' \notin {"sort", "merge", "number"}
    BY <1>5 DEF RInv, Queued, NumberRounds, StartFirst, CutAfter, CutAt
  <2> QED BY <2>1 DEF MarksKept, EveryMarkInOneRound
<1>6. CASE Done \/ UNCHANGED vars
  <2>1. UNCHANGED vars
    BY <1>6 DEF Done
  <2> QED BY <2>1 DEF vars, MarksKept, EveryMarkInOneRound, SoFar
<1> QED BY <1>1, <1>2, <1>3, <1>4, <1>5, <1>6 DEF Next, Derive

\* For every recording, derive loses no start and no end and uses none twice,
\* whatever rounds were aborted, cut off or joined late (rounds.rs:314-345).
THEOREM MarksAccounted == Spec => []EveryMarkInOneRound
<1>1. Init => MarksKept
  <2> SUFFICES ASSUME Init PROVE MarksKept
    OBVIOUS
  <2>1. SoFar = <<>> /\ pc = "sort" /\ open = None /\ starts = rec.starts
    BY DEF Init, SoFar
  <2> QED BY <2>1 DEF MarksKept, EveryMarkInOneRound
<1>2. MarksKept => EveryMarkInOneRound
  BY DEF MarksKept
<1> QED BY <1>1, <1>2, RInvInit, RInvStep, MarksStep, PTL DEF Spec
==============================================================================
