----------------------------- MODULE AliveProofs -----------------------------
(***************************************************************************)
(* Proofs about Alive: what slot_changes makes of any resource rows, any   *)
(* deaths and any round starts, and that the counts are the game's.        *)
(***************************************************************************)
EXTENDS Alive, WellFoundedInduction, TLAPS

-----------------------------------------------------------------------------
(* Least and greatest elements                                             *)

LEMMA LeastNat ==
  ASSUME NEW S, S \subseteq Nat, S # {}
  PROVE  \E m \in S : \A n \in S : m <= n
<1> DEFINE less == OpToRel(<, Nat)
<1>1. IsWellFoundedOn(less, Nat)
  BY NatLessThanWellFounded
<1>2. \A a, b \in Nat : a < b => <<a, b>> \in less
  BY DEF OpToRel
<1> HIDE DEF less
<1>3. PICK m \in S : \A n \in S : ~(<<n, m>> \in less)
  BY <1>1, WFMin
<1>4. ASSUME NEW n \in S
      PROVE  m <= n
  <2>1. ~(<<n, m>> \in less) /\ m \in Nat /\ n \in Nat
    BY <1>3
  <2>2. ~(n < m)
    BY <1>2, <2>1
  <2> QED BY <2>1, <2>2
<1> QED BY <1>4

\* Numbers up to some bound have a greatest one among them.
LEMMA GreatestNat ==
  ASSUME NEW S, S \subseteq Nat, S # {}, NEW b \in Nat, \A n \in S : n <= b
  PROVE  Max(S) \in S /\ \A n \in S : n <= Max(S)
<1> DEFINE T == {b - n : n \in S}
<1>1. T \subseteq Nat /\ T # {}
  <2>1. \A n \in S : b - n \in Nat
    OBVIOUS
  <2> QED BY <2>1
<1>2. PICK m \in T : \A n \in T : m <= n
  BY <1>1, LeastNat
<1>3. PICK x \in S : m = b - x
  BY <1>2
<1>4. ASSUME NEW n \in S
      PROVE  x >= n
  <2>1. b - x <= b - n /\ x \in Nat /\ n \in Nat
    BY <1>2, <1>3
  <2> QED BY <2>1
<1>5. \E y \in S : \A n \in S : y >= n
  BY <1>4
<1>6. Max(S) \in S /\ \A n \in S : Max(S) >= n
  BY <1>5 DEF Max
<1>7. \A n \in S : n \in Nat
  OBVIOUS
<1> QED BY <1>6, <1>7

LEMMA MaxOfTwo ==
  ASSUME NEW a \in Nat, NEW b \in Nat
  PROVE  Max({a, b}) \in Nat /\ a <= Max({a, b}) /\ b <= Max({a, b})
<1>1. \A n \in {a, b} : n <= a + b
  OBVIOUS
<1>2. Max({a, b}) \in {a, b} /\ \A n \in {a, b} : n <= Max({a, b})
  BY <1>1, GreatestNat
<1> QED BY <1>2

-----------------------------------------------------------------------------
(* Types of the game                                                       *)

GameType ==
  /\ now \in 0..MaxTick /\ slots \in [Slot -> State] /\ read \in [Slot -> State]
  /\ rows \in [Slot -> Seq(Sample)] /\ deaths \in [Slot -> Seq(0..MaxTick)]
  /\ starts \in Seq(0..MaxTick) /\ pc \in {"game", "slot", "done"}

LEMMA GameTypeHappen ==
  ASSUME GameType, Happen
  PROVE  GameType'
<1>1. /\ now' = now /\ read' = read /\ rows' = rows /\ pc' = pc
      /\ now \in 0..MaxTick /\ slots \in [Slot -> State] /\ deaths \in [Slot -> Seq(0..MaxTick)]
      /\ starts \in Seq(0..MaxTick)
  BY DEF Happen, GameType
<1>2. slots' \in [Slot -> State] /\ deaths' \in [Slot -> Seq(0..MaxTick)]
      /\ starts' \in Seq(0..MaxTick)
  <2>1. CASE StartRound
    <3>1. starts' = Append(starts, now) /\ deaths' = deaths
      BY <2>1 DEF StartRound
    <3>2. ASSUME NEW s \in Slot
          PROVE  [slots[s] EXCEPT !.alive = TRUE] \in State /\ slots[s] \in State
      <4>1. slots[s] \in State
        BY <1>1
      <4> QED BY <4>1 DEF State
    <3>3. slots' \in [Slot -> State]
      BY <2>1, <3>2 DEF StartRound
    <3> QED BY <1>1, <3>1, <3>3
  <2>2. ASSUME NEW s \in Slot, Kill(s)
        PROVE  /\ slots' \in [Slot -> State] /\ deaths' \in [Slot -> Seq(0..MaxTick)]
               /\ starts' = starts
    <3>1. slots' = [slots EXCEPT ![s].alive = FALSE, ![s].deaths = @ + 1]
          /\ deaths' = [deaths EXCEPT ![s] = Append(@, now)] /\ starts' = starts
      BY <2>2 DEF Kill
    <3>2. slots' = [slots EXCEPT ![s] = [slots[s] EXCEPT !.alive = FALSE, !.deaths = @ + 1]]
      BY <1>1, <3>1 DEF State
    <3>3. [slots[s] EXCEPT !.alive = FALSE, !.deaths = @ + 1] \in State
      <4>1. slots[s] \in State
        BY <1>1
      <4>2. slots[s].deaths + 1 \in Nat
        BY <4>1 DEF State
      <4> QED BY <4>1, <4>2 DEF State
    <3>4. slots' \in [Slot -> State]
      BY <1>1, <3>2, <3>3
    <3>5. Append(deaths[s], now) \in Seq(0..MaxTick)
      BY <1>1
    <3>6. deaths' \in [Slot -> Seq(0..MaxTick)]
      BY <1>1, <3>1, <3>5
    <3> QED BY <3>1, <3>4, <3>6
  <2>3. ASSUME NEW s \in Slot, NEW st \in State, Unannounced(s, st)
        PROVE  slots' \in [Slot -> State] /\ deaths' = deaths /\ starts' = starts
    BY <1>1, <2>3 DEF Unannounced
  <2>4. ASSUME NEW s \in Slot, Leave(s) \/ Join(s) \/ SwitchTeam(s) \/ SpawnLate(s)
        PROVE  \E st \in State : Unannounced(s, st)
    <3>1. slots[s] \in State
      BY <1>1
    <3>2. CASE Leave(s)
      <4>1. [slots[s] EXCEPT !.connected = FALSE] \in State
        BY <3>1 DEF State
      <4> QED BY <3>2, <4>1 DEF Leave
    <3>3. CASE Join(s)
      <4>1. PICK t \in Team :
              Unannounced(s, [team |-> t, alive |-> FALSE, connected |-> TRUE, deaths |-> 0])
        BY <3>3 DEF Join
      <4>2. [team |-> t, alive |-> FALSE, connected |-> TRUE, deaths |-> 0] \in State
        BY DEF State
      <4> QED BY <4>1, <4>2
    <3>4. CASE SwitchTeam(s)
      <4>1. PICK t \in Team : Unannounced(s, [slots[s] EXCEPT !.team = t])
        BY <3>4 DEF SwitchTeam
      <4>2. [slots[s] EXCEPT !.team = t] \in State
        BY <3>1 DEF State
      <4> QED BY <4>1, <4>2
    <3>5. CASE SpawnLate(s)
      <4>1. [slots[s] EXCEPT !.alive = TRUE] \in State
        BY <3>1 DEF State
      <4> QED BY <3>5, <4>1 DEF SpawnLate
    <3> QED BY <2>4, <3>2, <3>3, <3>4, <3>5
  <2> QED BY <1>1, <2>1, <2>2, <2>3, <2>4 DEF Happen
<1> QED BY <1>1, <1>2 DEF GameType, Happen

LEMMA GameTypeNext == GameType /\ [Next]_vars => GameType'
<1> SUFFICES ASSUME GameType, [Next]_vars PROVE GameType'
  OBVIOUS
<1>1. CASE Happen
  BY <1>1, GameTypeHappen
<1>2. CASE Refresh
  BY <1>2 DEF GameType, Refresh
<1>3. CASE Tick
  <2>1. /\ slots' = slots /\ read' = read /\ deaths' = deaths /\ starts' = starts
        /\ rows' = rows \/ Show(now)
        /\ (now' = now + 1 /\ now < MaxTick /\ pc' = pc) \/ (now' = now /\ pc' = "slot")
    BY <1>3 DEF Tick
  <2>2. now \in Nat /\ now' \in 0..MaxTick
    <3>1. now \in 0..MaxTick /\ MaxTick \in Nat
      BY AliveAssumption DEF GameType
    <3> QED BY <2>1, <3>1
  <2>3. rows' \in [Slot -> Seq(Sample)]
    <3>1. CASE Show(now)
      <4>1. PICK other \in SUBSET Slot :
              rows' = [s \in Slot |->
                IF rows[s] # <<>> /\ rows[s][Len(rows[s])].state = read[s] /\ s \notin other
                  THEN rows[s] ELSE Append(rows[s], [tick |-> now, state |-> read[s]])]
        BY <3>1 DEF Show
      <4>2. ASSUME NEW s \in Slot
            PROVE  rows[s] \in Seq(Sample)
                   /\ Append(rows[s], [tick |-> now, state |-> read[s]]) \in Seq(Sample)
        <5>1. rows[s] \in Seq(Sample) /\ read[s] \in State
          BY DEF GameType
        <5>2. [tick |-> now, state |-> read[s]] \in Sample
          BY <2>2, <5>1 DEF Sample
        <5> QED BY <5>1, <5>2
      <4> QED BY <4>1, <4>2
    <3> QED BY <2>1, <3>1 DEF GameType
  <2> QED BY <2>1, <2>2, <2>3 DEF GameType
<1>4. CASE SlotChanges \/ Done \/ UNCHANGED vars
  <2>1. /\ now' = now /\ slots' = slots /\ read' = read /\ rows' = rows /\ deaths' = deaths
        /\ starts' = starts /\ pc' \in {pc, "done"}
    BY <1>4 DEF SlotChanges, TakeDeath, TakeRow, TakeLastDeath, NextSlot, Done, vars, game
  <2> QED BY <2>1 DEF GameType
<1> QED BY <1>1, <1>2, <1>3, <1>4 DEF Next, Game

-----------------------------------------------------------------------------
(* slot_changes                                                            *)

SlotType ==
  /\ todo \subseteq Slot /\ i \in Nat \ {0} /\ d \in Nat \ {0} /\ deathCount \in Nat
  /\ latest \in Change \cup {None} /\ lastDeath \in [tick : Nat, count : Nat] \cup {None}
  /\ changes \in [Slot -> Seq(Change)]

\* latest is the last change of the slot at hand, which has none before its
\* first; nor has a slot not yet reached.
LatestIsLast ==
  /\ latest # None => /\ todo # {} /\ changes[This] # <<>>
                      /\ latest = changes[This][Len(changes[This])]
  /\ \A s \in todo : s # This \/ latest = None => changes[s] = <<>>

SInv ==
  /\ GameType
  /\ SlotType
  /\ LatestIsLast
  /\ ChangesInOrder

LEMMA ThisInTodo ==
  ASSUME todo # {}
  PROVE  This \in todo
<1> QED BY DEF This

\* A change not before the slot's latest keeps its changes in order.
LEMMA PushKeeps ==
  ASSUME SInv, todo # {}, NEW c \in Change, latest # None => latest.tick <= c.tick,
         todo' = todo, latest' = c, changes' = [changes EXCEPT ![This] = Append(@, c)]
  PROVE  /\ latest' \in Change \cup {None} /\ changes' \in [Slot -> Seq(Change)]
         /\ LatestIsLast' /\ ChangesInOrder'
<1> DEFINE s == This
           cs == changes[s]
           n == Len(cs)
<1>1. s \in todo /\ s \in Slot /\ cs \in Seq(Change) /\ n \in Nat
      /\ changes \in [Slot -> Seq(Change)]
  BY ThisInTodo DEF SInv, SlotType
<1>2. This' = This
  BY DEF This
<1>3. c # None
  BY AliveAssumption
<1>4. latest = None => cs = <<>>
  BY <1>1 DEF SInv, LatestIsLast
<1>5. latest # None => cs # <<>> /\ latest = cs[n]
  BY DEF SInv, LatestIsLast
<1>6. changes' = [changes EXCEPT ![s] = Append(cs, c)]
  OBVIOUS
<1> HIDE DEF s, cs, n
<1>7. /\ Append(cs, c) \in Seq(Change) /\ Len(Append(cs, c)) = n + 1
      /\ Append(cs, c)[n + 1] = c /\ \A k \in 1..n : Append(cs, c)[k] = cs[k]
  BY <1>1 DEF n
<1>8. changes' \in [Slot -> Seq(Change)] /\ changes'[s] = Append(cs, c)
      /\ \A r \in Slot : r # s => changes'[r] = changes[r]
  BY <1>1, <1>6, <1>7
<1>9. LatestIsLast'
  <2>1. changes'[s] # <<>> /\ latest' = changes'[s][Len(changes'[s])]
    BY <1>1, <1>7, <1>8
  <2>2. \A r \in todo : r # s => changes'[r] = <<>>
    BY <1>1, <1>8 DEF SInv, SlotType, LatestIsLast, s
  <2> QED BY <1>2, <1>3, <2>1, <2>2 DEF LatestIsLast, s
<1>10. ChangesInOrder'
  <2> SUFFICES ASSUME NEW r \in Slot, NEW k \in 1..(Len(changes'[r]) - 1)
               PROVE  changes'[r][k].tick <= changes'[r][k + 1].tick
    BY DEF ChangesInOrder
  <2>1. CASE r # s
    BY <1>8, <2>1 DEF SInv, ChangesInOrder
  <2>2. CASE r = s
    <3>1. k \in 1..n
      BY <1>1, <1>7, <1>8, <2>2
    <3>2. CASE k = n
      <4>1. changes'[r][k] = latest /\ changes'[r][k + 1] = c /\ latest # None
        BY <1>1, <1>4, <1>5, <1>7, <1>8, <2>2, <3>1, <3>2 DEF n
      <4> QED BY <4>1
    <3>3. CASE k # n
      <4>1. k \in 1..(n - 1) /\ k \in 1..n /\ k + 1 \in 1..n
        BY <1>1, <3>1, <3>3
      <4>2. changes'[r][k] = cs[k] /\ changes'[r][k + 1] = cs[k + 1]
        BY <1>7, <1>8, <2>2, <4>1
      <4>3. cs[k].tick <= cs[k + 1].tick
        BY <1>1, <4>1 DEF SInv, ChangesInOrder, cs, n
      <4> QED BY <4>2, <4>3
    <3> QED BY <3>2, <3>3
  <2> QED BY <2>1, <2>2
<1> QED BY <1>8, <1>9, <1>10

\* A death taken leaves the slot's changes in order.
LEMMA OutKeeps ==
  ASSUME SInv, todo # {}, todo' = todo, NEW death \in Nat, Out(death)
  PROVE  /\ latest' \in Change \cup {None} /\ changes' \in [Slot -> Seq(Change)]
         /\ LatestIsLast' /\ ChangesInOrder'
<1>1. CASE latest # None /\ latest.alive
  <2> DEFINE c == [tick |-> Max({death, latest.tick}), team |-> latest.team, alive |-> FALSE]
  <2>1. latest \in Change
    BY <1>1 DEF SInv, SlotType
  <2>2. Max({death, latest.tick}) \in Nat /\ latest.tick <= Max({death, latest.tick})
    <3>1. latest.tick \in Nat
      BY <2>1 DEF Change
    <3> QED BY <3>1, MaxOfTwo
  <2>3. c \in Change /\ latest.tick <= c.tick
    BY <2>1, <2>2 DEF Change
  <2>4. latest' = c /\ changes' = [changes EXCEPT ![This] = Append(@, c)]
    BY <1>1 DEF Out
  <2> HIDE DEF c
  <2> QED BY <2>3, <2>4, PushKeeps
<1>2. CASE ~(latest # None /\ latest.alive)
  <2>1. latest' = latest /\ changes' = changes
    BY <1>2 DEF Out
  <2> QED BY <2>1 DEF SInv, SlotType, LatestIsLast, ChangesInOrder, This
<1> QED BY <1>1, <1>2

LEMMA StartBehindType ==
  ASSUME SInv, NEW tick \in Nat
  PROVE  StartBehind(tick) \in Nat \cup {None}
<1> DEFINE behind == {starts[k] : k \in {k \in 1..Len(starts) :
                                     starts[k] <= tick /\ tick - starts[k] <= ResourceLag}}
<1>1. behind \subseteq Nat /\ \A b \in behind : b <= tick
  <2>1. \A k \in 1..Len(starts) : starts[k] \in Nat
    <3>1. starts \in Seq(0..MaxTick) /\ MaxTick \in Nat
      BY AliveAssumption DEF SInv, GameType
    <3>2. \A k \in 1..Len(starts) : starts[k] \in 0..MaxTick
      BY <3>1
    <3> QED BY <3>1, <3>2
  <2> QED BY <2>1
<1>2. CASE behind = {}
  BY <1>2 DEF StartBehind
<1>3. CASE behind # {}
  <2>1. StartBehind(tick) = Max(behind)
    BY <1>3 DEF StartBehind
  <2> HIDE DEF behind
  <2>2. Max(behind) \in behind
    BY <1>1, <1>3, GreatestNat
  <2> QED BY <1>1, <2>1, <2>2
<1> QED BY <1>2, <1>3

\* A row's change has a tick not before the latest.
LEMMA ChangeTickType ==
  ASSUME SInv, NEW row \in Sample
  PROVE  ChangeTick(row) \in Nat /\ (latest # None => latest.tick <= ChangeTick(row))
<1> DEFINE event == IF Living(row.state) /\ ~(latest # None /\ latest.alive)
                      THEN StartBehind(row.tick) ELSE None
           own == IF event = None THEN row.tick ELSE event
           before == IF latest = None THEN 0 ELSE latest.tick
<1>1. row.tick \in Nat
  BY DEF Sample
<1>2. own \in Nat
  BY <1>1, StartBehindType
<1>3. before \in Nat
  BY DEF SInv, SlotType, Change
<1>4. ChangeTick(row) = Max({own, before})
  BY DEF ChangeTick
<1> HIDE DEF own
<1>5. Max({own, before}) \in Nat /\ before <= Max({own, before})
  BY <1>2, <1>3, MaxOfTwo
<1> QED BY <1>4, <1>5

LEMMA RowKeeps ==
  ASSUME SInv, TakeRow
  PROVE  SInv'
<1>1. /\ todo # {} /\ todo' = todo /\ i' = i + 1 /\ deathCount' = Row.state.deaths /\ d' = d
      /\ lastDeath' = lastDeath /\ i <= Len(rows[This]) /\ This \in Slot /\ [Next]_vars
  BY ThisInTodo DEF TakeRow, SInv, SlotType, Next, SlotChanges
<1>2. Row \in Sample
  <2>1. rows[This] \in Seq(Sample) /\ i \in Nat \ {0}
    BY <1>1 DEF SInv, GameType, SlotType
  <2> QED BY <1>1, <2>1 DEF Row
<1>3. Row.tick \in Nat /\ Row.state \in State /\ Row.state.team \in Team /\ Row.state.deaths \in Nat
      /\ Living(Row.state) \in BOOLEAN
  <2>1. Row.tick \in Nat /\ Row.state \in State
    BY <1>2 DEF Sample
  <2> QED BY <2>1 DEF State, Living
<1>4. /\ latest' \in Change \cup {None} /\ changes' \in [Slot -> Seq(Change)]
      /\ LatestIsLast' /\ ChangesInOrder'
  <2>1. CASE Stale(Row) \/ Known(Row)
    <3>1. latest' = latest /\ changes' = changes
      BY <2>1 DEF TakeRow
    <3> QED BY <1>1, <3>1 DEF SInv, SlotType, LatestIsLast, ChangesInOrder, This
  <2>2. CASE ~(Stale(Row) \/ Known(Row))
    <3> DEFINE c == [tick |-> ChangeTick(Row), team |-> Row.state.team, alive |-> Living(Row.state)]
    <3>1. c \in Change /\ (latest # None => latest.tick <= c.tick)
      BY <1>2, <1>3, ChangeTickType DEF Change
    <3>2. latest' = c /\ changes' = [changes EXCEPT ![This] = Append(@, c)]
      BY <2>2 DEF TakeRow
    <3> HIDE DEF c
    <3> QED BY <1>1, <3>1, <3>2, PushKeeps
  <2> QED BY <2>1, <2>2
<1>5. SlotType'
  BY <1>1, <1>3, <1>4 DEF SInv, SlotType
<1>6. GameType'
  BY <1>1, GameTypeNext DEF SInv
<1> QED BY <1>4, <1>5, <1>6 DEF SInv

LEMMA DeathKeeps ==
  ASSUME SInv, TakeDeath \/ TakeLastDeath
  PROVE  SInv'
<1>1. /\ todo # {} /\ todo' = todo /\ i' = i /\ deathCount' = deathCount /\ d' = d + 1
      /\ d <= Len(deaths[This]) /\ Out(NextDeath) /\ This \in Slot /\ [Next]_vars
      /\ lastDeath' \in {lastDeath, [tick |-> NextDeath, count |-> deathCount]}
  BY ThisInTodo DEF TakeDeath, TakeLastDeath, SInv, SlotType, Next, SlotChanges
<1>2. NextDeath \in Nat
  <2>1. deaths[This] \in Seq(0..MaxTick) /\ d \in Nat \ {0}
    BY <1>1 DEF SInv, GameType, SlotType
  <2>2. Len(deaths[This]) \in Nat /\ d \in 1..Len(deaths[This]) /\ MaxTick \in Nat
    BY <1>1, <2>1, AliveAssumption
  <2>3. deaths[This][d] \in 0..MaxTick
    BY <2>1, <2>2
  <2> QED BY <2>2, <2>3 DEF NextDeath
<1>3. /\ latest' \in Change \cup {None} /\ changes' \in [Slot -> Seq(Change)]
      /\ LatestIsLast' /\ ChangesInOrder'
  BY <1>1, <1>2, OutKeeps
<1>4. SlotType'
  BY <1>1, <1>2, <1>3 DEF SInv, SlotType
<1>5. GameType'
  BY <1>1, GameTypeNext DEF SInv
<1> QED BY <1>3, <1>4, <1>5 DEF SInv

LEMMA SInvInit == Init => SInv
<1> SUFFICES ASSUME Init PROVE SInv
  OBVIOUS
<1>1. GameType
  <2>1. slots \in [Slot -> State]
    <3>1. slots \in [Slot -> [team : Team, alive : BOOLEAN, connected : {TRUE}, deaths : {0}]]
      BY DEF Init
    <3>2. [team : Team, alive : BOOLEAN, connected : {TRUE}, deaths : {0}] \subseteq State
      <4>1. {TRUE} \subseteq BOOLEAN /\ {0} \subseteq Nat
        OBVIOUS
      <4> QED BY <4>1, Zenon DEF State
    <3> QED BY <3>1, <3>2
  <2> QED BY <2>1, AliveAssumption DEF Init, GameType
<1>2. SlotType /\ LatestIsLast
  BY DEF Init, SlotType, LatestIsLast
<1>3. ChangesInOrder
  BY DEF Init, ChangesInOrder
<1> QED BY <1>1, <1>2, <1>3 DEF SInv

LEMMA SInvStep == SInv /\ [Next]_vars => SInv'
<1> SUFFICES ASSUME SInv, [Next]_vars PROVE SInv'
  OBVIOUS
<1>1. GameType'
  BY GameTypeNext DEF SInv
<1>2. CASE TakeRow
  BY <1>2, RowKeeps
<1>3. CASE TakeDeath \/ TakeLastDeath
  BY <1>3, DeathKeeps
<1>4. CASE NextSlot
  <2>1. /\ todo # {} /\ todo' = todo \ {This} /\ i' = 1 /\ d' = 1 /\ latest' = None
        /\ lastDeath' = None /\ deathCount' = 0 /\ changes' = changes
    BY <1>4 DEF NextSlot
  <2>2. SlotType' /\ ChangesInOrder'
    BY <2>1 DEF SInv, SlotType, ChangesInOrder
  <2>3. LatestIsLast'
    BY <2>1 DEF SInv, LatestIsLast
  <2> QED BY <1>1, <2>2, <2>3 DEF SInv
<1>5. CASE Game \/ Done \/ UNCHANGED vars
  <2>1. /\ todo' = todo /\ i' = i /\ d' = d /\ latest' = latest /\ lastDeath' = lastDeath
        /\ deathCount' = deathCount /\ changes' = changes
    BY <1>5 DEF Game, Happen, Refresh, Tick, Done, vars, slotVars
  <2>2. SlotType' /\ ChangesInOrder'
    BY <2>1 DEF SInv, SlotType, ChangesInOrder
  <2>3. LatestIsLast'
    BY <2>1 DEF SInv, LatestIsLast, This
  <2> QED BY <1>1, <2>2, <2>3 DEF SInv
<1> QED BY <1>2, <1>3, <1>4, <1>5 DEF Next, SlotChanges

LEMMA SInvHolds == Spec => []SInv
<1> QED BY SInvInit, SInvStep, PTL DEF Spec

\* Every variable keeps its type, and latest is the slot's last change.
THEOREM TypeCorrect == Spec => []TypeOK
<1>1. SInv => TypeOK
  BY DEF SInv, GameType, SlotType, LatestIsLast, TypeOK
<1> QED BY <1>1, SInvHolds, PTL

\* A slot's changes stay in tick order, although a death and a respawn are
\* moved back from the rows that show them, whatever the lag and the rows.
THEOREM OrderKept == Spec => []ChangesInOrder
<1>1. SInv => ChangesInOrder
  BY DEF SInv
<1> QED BY <1>1, SInvHolds, PTL

-----------------------------------------------------------------------------
(* The resource's teams                                                    *)

\* The ticks whose end has been recorded.
Past(t) == t < now \/ pc # "game"

\* The slot changed without an event in the ticks from first to last.
LateIn(s, first, last) == \E t \in 0..MaxTick : first <= t /\ t <= last /\ s \in late[t]

TeamType ==
  /\ GameType
  /\ truth \in [0..MaxTick -> [Slot -> State]] /\ late \in [0..MaxTick -> SUBSET Slot]
  /\ readAt \in Int /\ shown \in BOOLEAN

\* The resource was read on the last tick of a refresh, or is due again.
ReadOnTime ==
  readAt = IF Due THEN IF now = 0 THEN -1 ELSE now - Period ELSE now - (now % Period)

\* A slot's rows are in tick order and past, and all slots' begin together.
RowsPast ==
  /\ \A s \in Slot :
       /\ \A k \in 1..Len(rows[s]) : rows[s][k].tick <= now /\ Past(rows[s][k].tick)
       /\ \A k, m \in 1..Len(rows[s]) : k < m => rows[s][k].tick < rows[s][m].tick
       /\ deaths[s] # <<>> => rows[s] # <<>>
  /\ \A s, r \in Slot : rows[s] # <<>> => rows[r] # <<>> /\ rows[r][1].tick = rows[s][1].tick

\* What the resource holds, and what the last rows show, has a slot's team
\* unless the slot changed since.
TeamsTrail ==
  \A s \in Slot :
    /\ read[s].team = slots[s].team \/ LateIn(s, readAt, now)
    /\ rows[s] # <<>> =>
         LET last == rows[s][Len(rows[s])].state
         IN IF shown THEN last = read[s]
            ELSE last.team = slots[s].team \/ LateIn(s, readAt - Period, now)

\* Row k is the last of the slot's by tick t.
LastBy(s, k, t) ==
  rows[s][k].tick <= t /\ (k < Len(rows[s]) => rows[s][k + 1].tick > t)

\* So it was at the end of every tick.
TeamsTrailed ==
  \A s \in Slot, t \in 0..MaxTick : Past(t) =>
    \A k \in 1..Len(rows[s]) : LastBy(s, k, t) =>
      rows[s][k].state.team = truth[t][s].team \/ LateIn(s, t - Period - Delay, t)

TInv ==
  /\ TeamType
  /\ ReadOnTime
  /\ RowsPast
  /\ TeamsTrail
  /\ TeamsTrailed

\* What is left of a tick's number after whole refreshes.
LEMMA ModNext ==
  ASSUME NEW P \in Nat \ {0}, NEW x \in Nat
  PROVE  /\ x % P \in 0..(P - 1)
         /\ (x + 1) % P = IF x % P = P - 1 THEN 0 ELSE (x % P) + 1
<1> DEFINE q == x \div P
           r == x % P
<1>1. q \in Nat /\ r \in 0..(P - 1) /\ x = P * q + r
  OBVIOUS
<1> HIDE DEF q, r
<1>2. ASSUME NEW n \in Nat, NEW m \in 0..(P - 1)
      PROVE  (P * n + m) % P = m
  OBVIOUS
<1>3. CASE r = P - 1
  <2>1. x + 1 = P * (q + 1) + 0
    BY <1>1, <1>3
  <2>2. q + 1 \in Nat /\ 0 \in 0..(P - 1)
    BY <1>1
  <2>3. (x + 1) % P = 0
    BY <1>2, <2>1, <2>2
  <2> QED BY <1>1, <1>3, <2>3 DEF r
<1>4. CASE r # P - 1
  <2>1. x + 1 = P * q + (r + 1) /\ r + 1 \in 0..(P - 1)
    BY <1>1, <1>4
  <2>2. (x + 1) % P = r + 1
    BY <1>1, <1>2, <2>1
  <2> QED BY <1>1, <1>4, <2>2 DEF r
<1> QED BY <1>3, <1>4

LEMMA TeamTypes ==
  ASSUME TeamType
  PROVE  /\ now \in Nat /\ now <= MaxTick /\ MaxTick \in Nat /\ now \in 0..MaxTick
         /\ Period \in Nat \ {0} /\ Delay \in Nat /\ readAt \in Int
<1>1. /\ now \in 0..MaxTick /\ MaxTick \in Nat /\ Period \in Nat \ {0} /\ Delay \in Nat
      /\ readAt \in Int
  BY AliveAssumption DEF TeamType, GameType
<1> QED BY <1>1

\* A slot's team changes on a tick on which it is late.
LEMMA TeamsHappen ==
  ASSUME TeamType, Happen
  PROVE  /\ late' \in [0..MaxTick -> SUBSET Slot]
         /\ \A t \in 0..MaxTick : late[t] \subseteq late'[t] /\ (t # now => late'[t] = late[t])
         /\ \A s \in Slot : slots'[s].team = slots[s].team \/ s \in late'[now]
<1>1. now \in 0..MaxTick /\ slots \in [Slot -> State] /\ late \in [0..MaxTick -> SUBSET Slot]
  BY TeamTypes DEF TeamType, GameType
<1>2. ASSUME StartRound
      PROVE  late' = late /\ \A s \in Slot : slots'[s].team = slots[s].team
  <2>1. late' = late
        /\ slots' = [s \in Slot |-> IF slots[s].connected THEN [slots[s] EXCEPT !.alive = TRUE]
                                    ELSE slots[s]]
    BY <1>2 DEF StartRound
  <2>2. ASSUME NEW s \in Slot
        PROVE  slots'[s].team = slots[s].team
    <3>1. slots[s] \in State
      BY <1>1
    <3> QED BY <2>1, <3>1 DEF State
  <2> QED BY <2>1, <2>2
<1>3. ASSUME NEW r \in Slot, Kill(r)
      PROVE  late' = late /\ \A s \in Slot : slots'[s].team = slots[s].team
  <2>1. late' = late /\ slots' = [slots EXCEPT ![r].alive = FALSE, ![r].deaths = @ + 1]
    BY <1>3 DEF Kill
  <2>2. ASSUME NEW s \in Slot
        PROVE  slots'[s].team = slots[s].team
    <3>1. slots[s] \in State /\ slots[r] \in State
      BY <1>1
    <3> QED BY <1>1, <2>1, <3>1 DEF State
  <2> QED BY <2>1, <2>2
<1>4. ASSUME NEW r \in Slot, NEW st, Unannounced(r, st)
      PROVE  /\ late' = [late EXCEPT ![now] = @ \cup {r}]
             /\ \A s \in Slot : slots'[s].team = slots[s].team \/ s = r
  BY <1>1, <1>4 DEF Unannounced
<1>5. \/ StartRound
      \/ \E r \in Slot : Kill(r)
      \/ \E r \in Slot : \E st : Unannounced(r, st)
  BY DEF Happen, Leave, Join, SwitchTeam, SpawnLate
<1>6. CASE late' = late
  BY <1>1, <1>2, <1>3, <1>4, <1>5, <1>6
<1>7. ASSUME NEW r \in Slot, late' = [late EXCEPT ![now] = @ \cup {r}],
             \A s \in Slot : slots'[s].team = slots[s].team \/ s = r
      PROVE  /\ late' \in [0..MaxTick -> SUBSET Slot]
             /\ \A t \in 0..MaxTick : late[t] \subseteq late'[t] /\ (t # now => late'[t] = late[t])
             /\ \A s \in Slot : slots'[s].team = slots[s].team \/ s \in late'[now]
  BY <1>1, <1>7
<1> QED BY <1>1, <1>2, <1>3, <1>4, <1>5, <1>7

\* What happens is after the first rows.
LEMMA HappenKeepsTeams ==
  ASSUME TInv, Happen
  PROVE  TInv'
<1>1. /\ pc = "game" /\ pc' = pc /\ now' = now /\ read' = read /\ readAt' = readAt /\ shown' = shown
      /\ rows' = rows /\ truth' = truth /\ \A s \in Slot : rows[s] # <<>>
  BY DEF Happen
<1>2. TeamType /\ now \in Nat /\ now \in 0..MaxTick /\ readAt \in Int /\ Period \in Nat
      /\ Delay \in Nat /\ MaxTick \in Nat
  BY TeamTypes DEF TInv
<1>3. /\ late' \in [0..MaxTick -> SUBSET Slot]
      /\ \A t \in 0..MaxTick : late[t] \subseteq late'[t] /\ (t # now => late'[t] = late[t])
      /\ \A s \in Slot : slots'[s].team = slots[s].team \/ s \in late'[now]
  BY <1>2, TeamsHappen
<1>4. GameType'
  BY <1>2, GameTypeHappen DEF TeamType
<1>5. TeamType'
  BY <1>1, <1>3, <1>4 DEF TInv, TeamType
<1>6. ReadOnTime'
  BY <1>1 DEF TInv, ReadOnTime, Due
<1>7. RowsPast'
  BY <1>1 DEF TInv, RowsPast, Past
<1>8. TeamsTrail'
  <2>1. readAt <= now /\ readAt - Period <= now
    <3>1. now % Period \in 0..(Period - 1)
      BY <1>2, TeamTypes, ModNext
    <3> QED BY <1>2, <3>1 DEF TInv, ReadOnTime
  <2>2. ASSUME NEW s \in Slot, NEW st, NEW first \in Int, first <= now,
               st = slots[s].team \/ LateIn(s, first, now)
        PROVE  st = slots'[s].team \/ LateIn(s, first, now)'
    <3>1. CASE LateIn(s, first, now)
      BY <1>1, <1>3, <3>1 DEF LateIn
    <3>2. CASE s \in late'[now]
      BY <1>1, <1>2, <2>2, <3>2 DEF LateIn
    <3> QED BY <1>3, <2>2, <3>1, <3>2
  <2> SUFFICES ASSUME NEW s \in Slot
               PROVE  /\ read[s].team = slots'[s].team \/ LateIn(s, readAt, now)'
                      /\ rows[s] # <<>> =>
                           LET last == rows[s][Len(rows[s])].state
                           IN IF shown THEN last = read[s]
                              ELSE last.team = slots'[s].team \/ LateIn(s, readAt - Period, now)'
    BY <1>1 DEF TeamsTrail
  <2>3. readAt' = readAt /\ now' = now /\ readAt - Period \in Int
    BY <1>1, <1>2
  <2>4. read[s].team = slots'[s].team \/ LateIn(s, readAt, now)'
    <3>1. read[s].team = slots[s].team \/ LateIn(s, readAt, now)
      BY DEF TInv, TeamsTrail
    <3> QED BY <1>2, <2>1, <2>2, <2>3, <3>1 DEF LateIn
  <2>5. ASSUME rows[s] # <<>>, ~shown
        PROVE  rows[s][Len(rows[s])].state.team = slots'[s].team
               \/ LateIn(s, readAt - Period, now)'
    <3>1. rows[s][Len(rows[s])].state.team = slots[s].team \/ LateIn(s, readAt - Period, now)
      BY <2>5 DEF TInv, TeamsTrail
    <3> QED BY <2>1, <2>2, <2>3, <3>1 DEF LateIn
  <2>6. rows[s] # <<>> /\ shown => rows[s][Len(rows[s])].state = read[s]
    BY DEF TInv, TeamsTrail
  <2> QED BY <2>4, <2>5, <2>6
<1>9. TeamsTrailed'
  BY <1>1, <1>3 DEF TInv, TeamsTrailed, Past, LastBy, LateIn
<1> QED BY <1>5, <1>6, <1>7, <1>8, <1>9 DEF TInv

\* The resource is read anew once what it held was shown.
LEMMA RefreshKeepsTeams ==
  ASSUME TInv, Refresh
  PROVE  TInv'
<1>1. /\ pc = "game" /\ pc' = pc /\ Due /\ shown /\ read' = slots /\ readAt' = now /\ shown' = FALSE
      /\ now' = now /\ slots' = slots /\ rows' = rows /\ deaths' = deaths /\ truth' = truth
      /\ late' = late /\ starts' = starts
  BY DEF Refresh
<1>2. TeamType /\ now \in Nat /\ now \in 0..MaxTick /\ readAt \in Int /\ Period \in Nat \ {0}
      /\ Delay \in Nat /\ MaxTick \in Nat
  BY TeamTypes DEF TInv
<1>3. TeamType'
  <2>1. GameType'
    <3>1. [Next]_vars
      BY DEF Next, Game
    <3> QED BY <1>2, <3>1, GameTypeNext DEF TeamType
  <2>2. readAt' \in Int /\ truth' = truth /\ late' = late
    BY <1>1, <1>2
  <2>3. shown' \in BOOLEAN
    <3>1. shown' = FALSE
      BY <1>1
    <3> QED BY <3>1, Zenon
  <2> QED BY <1>2, <2>1, <2>2, <2>3 DEF TeamType
<1>4. now % Period = 0
  BY <1>1 DEF Due
<1>5. ReadOnTime'
  BY <1>1, <1>2, <1>4 DEF ReadOnTime, Due
<1>6. RowsPast' /\ TeamsTrailed'
  BY <1>1 DEF TInv, RowsPast, Past, TeamsTrailed, LastBy, LateIn
<1>7. readAt >= now - Period
  BY <1>1, <1>2 DEF TInv, ReadOnTime
<1>8. TeamsTrail'
  <2> SUFFICES ASSUME NEW s \in Slot, rows[s] # <<>>
               PROVE  rows[s][Len(rows[s])].state.team = slots[s].team
                      \/ LateIn(s, now - Period, now)
    BY <1>1 DEF TeamsTrail, LateIn
  <2>1. rows[s][Len(rows[s])].state.team = slots[s].team \/ LateIn(s, readAt, now)
    BY <1>1 DEF TInv, TeamsTrail
  <2>2. CASE LateIn(s, readAt, now)
    BY <1>2, <1>7, <2>2 DEF LateIn
  <2> QED BY <2>1, <2>2
<1> QED BY <1>3, <1>5, <1>6, <1>8 DEF TInv

\* A packet at most adds a row to a slot, of what was read.
LEMMA ShowRows ==
  ASSUME TInv, Show(now), NEW s \in Slot
  PROVE  \/ /\ rows'[s] = rows[s] /\ rows[s] # <<>> /\ rows[s][Len(rows[s])].state = read[s]
         \/ rows'[s] = Append(rows[s], [tick |-> now, state |-> read[s]])
<1>1. PICK other \in SUBSET Slot :
        rows' = [r \in Slot |->
          IF rows[r] # <<>> /\ rows[r][Len(rows[r])].state = read[r] /\ r \notin other
            THEN rows[r] ELSE Append(rows[r], [tick |-> now, state |-> read[r]])]
  BY DEF Show
<1> QED BY <1>1

\* The rows after a tick: those of before, and perhaps one of the tick's.
LEMMA TickRows ==
  ASSUME TInv, Tick, NEW s \in Slot
  PROVE  LET n == Len(rows[s]) IN
         /\ rows[s] \in Seq(Sample) /\ n \in Nat
         /\ \/ rows'[s] = rows[s]
            \/ /\ Len(rows'[s]) = n + 1 /\ rows'[s] # <<>>
               /\ rows'[s][n + 1] = [tick |-> now, state |-> read[s]]
               /\ \A k \in 1..n : rows'[s][k] = rows[s][k]
         /\ shown' /\ rows'[s] # <<>> => rows'[s][Len(rows'[s])].state = read[s]
         /\ ~shown' => ~shown /\ rows'[s] = rows[s] /\ now < readAt + Delay
<1> DEFINE n == Len(rows[s])
           f == [tick |-> now, state |-> read[s]]
<1>1. rows[s] \in Seq(Sample) /\ n \in Nat /\ f \in Sample
  <2>1. rows[s] \in Seq(Sample) /\ read[s] \in State /\ now \in Nat
    BY TeamTypes DEF TInv, TeamType, GameType
  <2> QED BY <2>1 DEF Sample
<1>2. \/ ~shown /\ Show(now) /\ shown' = TRUE
      \/ (shown \/ now < readAt + Delay) /\ rows' = rows /\ shown' = shown
  BY DEF Tick
<1>3. CASE ~shown /\ Show(now) /\ shown' = TRUE
  <2>1. CASE rows'[s] = Append(rows[s], f)
    <3> HIDE DEF f
    <3>1. /\ Len(rows'[s]) = n + 1 /\ rows'[s] # <<>> /\ rows'[s][n + 1] = f
          /\ \A k \in 1..n : rows'[s][k] = rows[s][k]
      BY <1>1, <2>1
    <3>2. rows'[s][Len(rows'[s])].state = read[s]
      BY <3>1 DEF f
    <3> QED BY <1>1, <1>3, <3>1, <3>2 DEF f
  <2>2. CASE rows'[s] = rows[s] /\ rows[s] # <<>> /\ rows[s][n].state = read[s]
    BY <1>1, <1>3, <2>2
  <2> QED BY <1>3, <2>1, <2>2, ShowRows
<1>4. CASE (shown \/ now < readAt + Delay) /\ rows' = rows /\ shown' = shown
  <2>1. shown /\ rows[s] # <<>> => rows[s][n].state = read[s]
    BY DEF TInv, TeamsTrail
  <2> QED BY <1>1, <1>4, <2>1
<1> QED BY <1>2, <1>3, <1>4

LEMMA TickKeepsTeams ==
  ASSUME TInv, Tick
  PROVE  TInv'
<1>1. /\ pc = "game" /\ ~Due /\ slots' = slots /\ read' = read /\ readAt' = readAt
      /\ deaths' = deaths /\ starts' = starts /\ late' = late
      /\ truth' = [truth EXCEPT ![now] = slots]
      /\ (now < MaxTick /\ now' = now + 1 /\ pc' = pc) \/ (now >= MaxTick /\ now' = now /\ pc' = "slot")
  <2>1. now \in Nat /\ MaxTick \in Nat
    BY TeamTypes DEF TInv
  <2> QED BY <2>1 DEF Tick
<1>2. TeamType /\ now \in Nat /\ now \in 0..MaxTick /\ readAt \in Int /\ Period \in Nat \ {0}
      /\ Delay \in Nat /\ MaxTick \in Nat
  BY TeamTypes DEF TInv
<1>3. /\ truth \in [0..MaxTick -> [Slot -> State]] /\ slots \in [Slot -> State]
      /\ late \in [0..MaxTick -> SUBSET Slot] /\ shown \in BOOLEAN
  BY <1>2 DEF TeamType, GameType
<1>4. \A t \in 0..MaxTick : t < now' \/ pc' # "game" => t < now \/ t = now
  BY <1>1, <1>2
<1>5. (now < now' \/ pc' # "game") /\ \A t : Past(t) <=> t < now
  BY <1>1, <1>2 DEF Past
<1>6. now <= now' /\ readAt = now - (now % Period) /\ now - readAt < Period
  <2>1. now % Period \in 0..(Period - 1)
    BY <1>2, ModNext
  <2>2. readAt = now - (now % Period)
    BY <1>1 DEF TInv, ReadOnTime
  <2> QED BY <1>1, <1>2, <2>1, <2>2
<1>7. TeamType'
  <2>1. GameType'
    <3>1. [Next]_vars
      BY DEF Next, Game
    <3> QED BY <1>2, <3>1, GameTypeNext DEF TeamType
  <2>2. shown' \in BOOLEAN
    BY <1>3 DEF Tick
  <2>3. truth' \in [0..MaxTick -> [Slot -> State]]
    BY <1>1, <1>2, <1>3
  <2> QED BY <1>1, <1>2, <1>3, <2>1, <2>2, <2>3 DEF TeamType
<1>8. ReadOnTime'
  <2>1. CASE now' = now
    BY <1>1, <2>1 DEF TInv, ReadOnTime, Due
  <2>2. CASE now' = now + 1
    <3>1. (now + 1) % Period = IF now % Period = Period - 1 THEN 0 ELSE (now % Period) + 1
      BY <1>2, ModNext
    <3>2. now % Period \in 0..(Period - 1)
      BY <1>2, ModNext
    <3>3. CASE now % Period = Period - 1
      <4>1. Due' /\ now' # 0 /\ now' - Period = readAt
        BY <1>1, <1>2, <1>6, <2>2, <3>1, <3>3 DEF Due
      <4> QED BY <1>1, <4>1 DEF ReadOnTime
    <3>4. CASE now % Period # Period - 1
      <4>1. now' % Period = (now % Period) + 1 /\ ~Due' /\ readAt = now' - (now' % Period)
        BY <1>2, <1>6, <2>2, <3>1, <3>2, <3>4 DEF Due
      <4> QED BY <1>1, <4>1 DEF ReadOnTime
    <3> QED BY <3>3, <3>4
  <2> QED BY <1>1, <2>1, <2>2
<1>9. RowsPast'
  <2> DEFINE PastNow(t) == t <= now' /\ (t < now' \/ pc' # "game")
  <2>1. ASSUME NEW s \in Slot
        PROVE  /\ \A k \in 1..Len(rows'[s]) : PastNow(rows'[s][k].tick)
               /\ \A k, m \in 1..Len(rows'[s]) : k < m => rows'[s][k].tick < rows'[s][m].tick
               /\ rows[s] # <<>> => rows'[s] # <<>> /\ rows'[s][1].tick = rows[s][1].tick
               /\ rows[s] = <<>> => rows'[s] = <<>> \/ (rows'[s] # <<>> /\ rows'[s][1].tick = now)
    <3> DEFINE n == Len(rows[s])
    <3>1. rows[s] \in Seq(Sample) /\ n \in Nat
      BY TickRows
    <3>2. /\ \A k \in 1..n : rows[s][k].tick \in Nat /\ rows[s][k].tick < now
          /\ \A k, m \in 1..n : k < m => rows[s][k].tick < rows[s][m].tick
      <4>1. \A k \in 1..n : rows[s][k] \in Sample
        BY <3>1
      <4> QED BY <1>5, <4>1 DEF TInv, RowsPast, Sample
    <3>3. \A t \in Nat : t <= now => PastNow(t)
      BY <1>1, <1>2, <1>6
    <3> HIDE DEF PastNow
    <3>4. CASE rows'[s] = rows[s]
      BY <1>2, <3>2, <3>3, <3>4
    <3>5. CASE /\ Len(rows'[s]) = n + 1 /\ rows'[s] # <<>>
               /\ rows'[s][n + 1] = [tick |-> now, state |-> read[s]]
               /\ \A k \in 1..n : rows'[s][k] = rows[s][k]
      <4>1. rows'[s][n + 1].tick = now /\ \A k \in 1..(n + 1) : k \in 1..n \/ k = n + 1
        BY <3>1, <3>5
      <4>2. rows[s] # <<>> => 1 \in 1..n
        BY <3>1
      <4>3. rows[s] = <<>> => n = 0
        OBVIOUS
      <4> HIDE DEF n
      <4>4. \A k \in 1..(n + 1) : PastNow(rows'[s][k].tick)
        BY <1>2, <3>2, <3>3, <3>5, <4>1
      <4>5. \A k, m \in 1..(n + 1) : k < m => rows'[s][k].tick < rows'[s][m].tick
        BY <3>1, <3>2, <3>5, <4>1
      <4> QED BY <3>1, <3>5, <4>1, <4>2, <4>3, <4>4, <4>5
    <3> QED BY <3>4, <3>5, TickRows
  <2>2. ASSUME NEW s \in Slot, NEW r \in Slot, rows'[s] # <<>>
        PROVE  rows'[r] # <<>> /\ rows'[r][1].tick = rows'[s][1].tick
    <3>1. CASE rows[s] # <<>>
      <4>1. rows[r] # <<>> /\ rows[r][1].tick = rows[s][1].tick
        BY <3>1 DEF TInv, RowsPast
      <4> QED BY <2>1, <3>1, <4>1
    <3>2. CASE rows[s] = <<>>
      <4>1. rows[r] = <<>>
        BY <3>2 DEF TInv, RowsPast
      <4>2. Show(now)
        BY <2>2, <3>2 DEF Tick
      <4>3. rows'[r] # <<>>
        <5>1. rows'[r] = Append(rows[r], [tick |-> now, state |-> read[r]])
          BY <4>1, <4>2, ShowRows
        <5> QED BY <4>1, <5>1
      <4> QED BY <2>1, <2>2, <3>2, <4>1, <4>3
    <3> QED BY <3>1, <3>2
  <2>3. ASSUME NEW s \in Slot, deaths'[s] # <<>>
        PROVE  rows'[s] # <<>>
    BY <1>1, <2>1, <2>3 DEF TInv, RowsPast
  <2> QED BY <2>1, <2>2, <2>3 DEF RowsPast, Past
<1>10. ASSUME NEW s \in Slot
       PROVE  /\ read[s].team = slots[s].team \/ LateIn(s, readAt, now)
              /\ shown' /\ rows'[s] # <<>> => rows'[s][Len(rows'[s])].state = read[s]
              /\ ~shown' /\ rows'[s] # <<>> =>
                   /\ rows'[s][Len(rows'[s])].state.team = slots[s].team
                      \/ LateIn(s, readAt - Period, now)
                   /\ now < readAt + Delay
  BY TickRows DEF TInv, TeamsTrail
<1>11. TeamsTrail'
  <2> SUFFICES ASSUME NEW s \in Slot
               PROVE  /\ read[s].team = slots[s].team \/ LateIn(s, readAt, now)'
                      /\ rows'[s] # <<>> =>
                           LET last == rows'[s][Len(rows'[s])].state
                           IN IF shown' THEN last = read[s]
                              ELSE last.team = slots[s].team \/ LateIn(s, readAt - Period, now)'
    BY <1>1 DEF TeamsTrail
  <2>1. ASSUME NEW first \in Int, LateIn(s, first, now)
        PROVE  \E t \in 0..MaxTick : first <= t /\ t <= now' /\ s \in late'[t]
    <3>1. PICK t \in 0..MaxTick : first <= t /\ t <= now /\ s \in late[t]
      BY <2>1 DEF LateIn
    <3>2. t <= now'
      BY <1>1, <1>2, <3>1
    <3> QED BY <1>1, <3>1, <3>2
  <2>2. LateIn(s, readAt, now) => LateIn(s, readAt, now)'
    BY <1>1, <1>2, <2>1 DEF LateIn
  <2>3. LateIn(s, readAt - Period, now) => LateIn(s, readAt - Period, now)'
    BY <1>1, <1>2, <2>1 DEF LateIn
  <2> QED BY <1>10, <2>2, <2>3
<1>12. TeamsTrailed'
  <2> SUFFICES ASSUME NEW s \in Slot, NEW t \in 0..MaxTick, t < now' \/ pc' # "game",
                      NEW k \in 1..Len(rows'[s]), LastBy(s, k, t)'
               PROVE  rows'[s][k].state.team = truth'[t][s].team
                      \/ LateIn(s, t - Period - Delay, t)
    BY <1>1 DEF TeamsTrailed, Past, LateIn
  <2> DEFINE n == Len(rows[s])
  <2>1. /\ rows[s] \in Seq(Sample) /\ n \in Nat
        /\ \/ rows'[s] = rows[s]
           \/ /\ Len(rows'[s]) = n + 1 /\ rows'[s][n + 1].tick = now
              /\ \A m \in 1..n : rows'[s][m] = rows[s][m]
    <3>1. /\ rows[s] \in Seq(Sample) /\ n \in Nat
          /\ \/ rows'[s] = rows[s]
             \/ /\ Len(rows'[s]) = n + 1
                /\ rows'[s][n + 1] = [tick |-> now, state |-> read[s]]
                /\ \A m \in 1..n : rows'[s][m] = rows[s][m]
      BY TickRows
    <3> HIDE DEF n
    <3> QED BY <3>1
  <2>2. rows'[s][k].tick <= t /\ (k < Len(rows'[s]) => rows'[s][k + 1].tick > t)
    BY DEF LastBy
  <2>3. CASE t = now
    <3>1. k = Len(rows'[s]) /\ rows'[s] # <<>>
      <4>1. k < Len(rows'[s]) => k + 1 \in 1..Len(rows'[s])
        BY <2>1
      <4>2. \A m \in 1..Len(rows'[s]) : ~(rows'[s][m].tick > now)
        <5>1. \A m \in 1..n : rows[s][m].tick <= now /\ rows[s][m].tick \in Nat
          <6>1. \A m \in 1..n : rows[s][m] \in Sample
            BY <2>1
          <6> QED BY <6>1 DEF TInv, RowsPast, Sample
        <5>2. \A m \in 1..(n + 1) : m \in 1..n \/ m = n + 1
          BY <2>1
        <5> HIDE DEF n
        <5> QED BY <1>2, <2>1, <5>1, <5>2 DEF n
      <4>3. Len(rows'[s]) \in Nat
        BY <2>1
      <4> QED BY <2>2, <2>3, <4>1, <4>2, <4>3
    <3>2. truth'[t][s] = slots[s]
      BY <1>1, <1>2, <1>3, <2>3
    <3>3. ASSUME NEW first \in Int, LateIn(s, first, now), first >= now - Period - Delay
          PROVE  LateIn(s, t - Period - Delay, t)
      BY <1>2, <2>3, <3>3 DEF LateIn
    <3>4. CASE shown'
      <4>1. readAt >= now - Period - Delay
        BY <1>2, <1>6
      <4> QED BY <1>2, <1>10, <3>1, <3>2, <3>3, <3>4, <4>1
    <3>5. CASE ~shown'
      <4>1. readAt - Period >= now - Period - Delay /\ readAt - Period \in Int
        BY <1>2, <1>10, <3>1, <3>5
      <4> QED BY <1>10, <3>1, <3>2, <3>3, <3>5, <4>1
    <3> QED BY <3>4, <3>5
  <2>4. CASE t # now
    <3>1. Past(t) /\ t < now /\ truth'[t] = truth[t]
      BY <1>1, <1>3, <1>4, <1>5, <2>4
    <3>2. k \in 1..n /\ rows'[s][k] = rows[s][k] /\ LastBy(s, k, t)
      <4>1. CASE rows'[s] = rows[s]
        BY <2>1, <2>2, <4>1 DEF LastBy
      <4>2. CASE /\ Len(rows'[s]) = n + 1 /\ rows'[s][n + 1].tick = now
                 /\ \A m \in 1..n : rows'[s][m] = rows[s][m]
        <5>1. k # n + 1
          BY <1>2, <2>2, <3>1, <4>2
        <5>2. k \in 1..n /\ k < Len(rows'[s]) /\ (k < n => k + 1 \in 1..n)
          BY <2>1, <4>2, <5>1
        <5> QED BY <2>2, <4>2, <5>2 DEF LastBy
      <4> QED BY <2>1, <4>1, <4>2
    <3> QED BY <3>1, <3>2 DEF TInv, TeamsTrailed
  <2> QED BY <2>3, <2>4
<1> QED BY <1>7, <1>8, <1>9, <1>11, <1>12 DEF TInv

LEMMA TInvStep == TInv /\ [Next]_vars => TInv'
<1> SUFFICES ASSUME TInv, [Next]_vars PROVE TInv'
  OBVIOUS
<1>1. CASE Happen
  BY <1>1, HappenKeepsTeams
<1>2. CASE Refresh
  BY <1>2, RefreshKeepsTeams
<1>3. CASE Tick
  BY <1>3, TickKeepsTeams
<1>4. CASE SlotChanges \/ Done \/ UNCHANGED vars
  <2>1. /\ now' = now /\ slots' = slots /\ read' = read /\ readAt' = readAt /\ shown' = shown
        /\ rows' = rows /\ deaths' = deaths /\ starts' = starts /\ truth' = truth /\ late' = late
        /\ pc' = pc \/ (pc = "slot" /\ pc' = "done")
    BY <1>4 DEF SlotChanges, TakeDeath, TakeRow, TakeLastDeath, NextSlot, Done, vars, game
  <2>2. TeamType' /\ ReadOnTime'
    BY <2>1 DEF TInv, TeamType, GameType, ReadOnTime, Due
  <2>3. \A t : Past(t)' <=> Past(t)
    BY <2>1 DEF Past
  <2>4. RowsPast' /\ TeamsTrail'
    BY <2>1, <2>3 DEF TInv, RowsPast, TeamsTrail, LateIn
  <2>5. TeamsTrailed'
    BY <2>1, <2>3 DEF TInv, TeamsTrailed, LastBy, LateIn
  <2> QED BY <2>2, <2>4, <2>5 DEF TInv
<1> QED BY <1>1, <1>2, <1>3, <1>4 DEF Next, Game

LEMMA TInvInit == Init => TInv
<1> SUFFICES ASSUME Init PROVE TInv
  OBVIOUS
<1>1. GameType
  BY SInvInit DEF SInv
<1>2. TeamType /\ Period \in Nat \ {0} /\ now = 0 /\ pc = "game" /\ readAt = -1
  BY <1>1, AliveAssumption DEF Init, TeamType, GameType
<1>3. now % Period = 0
  BY <1>2, ModNext
<1>4. ReadOnTime
  BY <1>2, <1>3 DEF ReadOnTime, Due
<1>5. \A s \in Slot : rows[s] = <<>> /\ Len(rows[s]) = 0 /\ deaths[s] = <<>> /\ read[s] = slots[s]
  BY DEF Init
<1>6. RowsPast /\ TeamsTrail /\ TeamsTrailed
  BY <1>5 DEF RowsPast, TeamsTrail, TeamsTrailed
<1> QED BY <1>2, <1>4, <1>6 DEF TInv

LEMMA TInvHolds == Spec => []TInv
<1> QED BY TInvInit, TInvStep, PTL DEF Spec

\* The team place_teams gives is the last row's, although it only looks at
\* the rows that change it.
LEMMA TeamAtIsLast ==
  ASSUME TInv, NEW s \in Slot, NEW t \in Nat, rows[s] # <<>>, rows[s][1].tick <= t
  PROVE  \E k \in 1..Len(rows[s]) : LastBy(s, k, t) /\ TeamAt(s, t) = rows[s][k].state.team
<1> DEFINE n == Len(rows[s])
           by == {k \in 1..n : rows[s][k].tick <= t}
           upTo == {k \in TeamChanges(s) : rows[s][k].tick <= t}
           last == Max(by)
           m == Max(upTo)
<1>1. rows[s] \in Seq(Sample) /\ n \in Nat /\ 1 \in 1..n
  BY DEF TInv, TeamType, GameType
<1>2. /\ \A k \in 1..n : rows[s][k].tick \in Nat
      /\ \A k, l \in 1..n : k < l => rows[s][k].tick < rows[s][l].tick
  <2>1. \A k \in 1..n : rows[s][k] \in Sample
    BY <1>1
  <2> QED BY <2>1 DEF TInv, RowsPast, Sample
<1>3. last \in by /\ \A k \in by : k <= last
  <2>1. by \subseteq Nat /\ by # {} /\ \A k \in by : k <= n
    BY <1>1
  <2> HIDE DEF by
  <2> QED BY <1>1, <2>1, GreatestNat
<1>4. m \in upTo /\ \A k \in upTo : k <= m
  <2>1. upTo \subseteq Nat /\ upTo # {} /\ \A k \in upTo : k <= n
    BY <1>1 DEF TeamChanges
  <2> HIDE DEF upTo
  <2> QED BY <1>1, <2>1, GreatestNat
<1>5. TeamAt(s, t) = rows[s][m].state.team
  BY <1>4 DEF TeamAt
<1>6. upTo \subseteq by
  BY DEF TeamChanges
<1>7. m \in 1..n /\ last \in 1..n /\ m <= last /\ rows[s][last].tick <= t
  BY <1>3, <1>4, <1>6
<1> HIDE DEF last, m, upTo, by
<1>8. LastBy(s, last, t)
  <2>1. CASE last < n
    <3>1. last + 1 \in 1..n /\ ~(last + 1 <= last)
      BY <1>1, <1>7, <2>1
    <3>2. ~(rows[s][last + 1].tick <= t)
      BY <1>3, <3>1 DEF by
    <3> QED BY <1>2, <1>7, <3>1, <3>2 DEF LastBy
  <2> QED BY <1>7, <2>1 DEF LastBy
<1>9. rows[s][last].state.team = rows[s][m].state.team
  <2> DEFINE other == {k \in m..last : rows[s][k].state.team # rows[s][m].state.team}
  <2> SUFFICES ASSUME other # {} PROVE FALSE
    BY <1>7
  <2>1. PICK k \in other : \A l \in other : k <= l
    <3>1. other \subseteq Nat
      BY <1>7
    <3> HIDE DEF other
    <3> QED BY <3>1, LeastNat
  <2>2. /\ k \in m..last /\ k # m /\ k - 1 \in m..last /\ k \in 1..n /\ k > 1 /\ ~(k <= k - 1)
        /\ k - 1 \in 1..n
    BY <1>1, <1>7, <2>1
  <2>3. rows[s][k - 1].state.team = rows[s][m].state.team
    BY <2>1, <2>2
  <2>4. rows[s][k].state.team # rows[s][m].state.team
    BY <2>1
  <2>5. k \in TeamChanges(s)
    BY <2>2, <2>3, <2>4 DEF TeamChanges
  <2>6. rows[s][k].tick <= t
    <3>1. k = last \/ k < last
      BY <1>7, <2>2
    <3> QED BY <1>2, <1>7, <2>2, <3>1
  <2>7. k <= m
    BY <1>4, <2>5, <2>6 DEF upTo
  <2> QED BY <1>7, <2>2, <2>7
<1> QED BY <1>5, <1>7, <1>8, <1>9

\* A death's team is the one its player was on, whatever the refreshes and
\* their delays, unless the slot changed in a refresh and its delay before.
THEOREM TeamsRight == Spec => []DeathTeamsAsPlayed
<1>1. TInv => DeathTeamsAsPlayed
  <2> SUFFICES ASSUME TInv, pc = "done", NEW s \in Slot, NEW k \in 1..Len(deaths[s]),
                      FirstShown <= deaths[s][k], Settled(deaths[s][k])
               PROVE  TeamAt(s, deaths[s][k]) = truth[deaths[s][k]][s].team
    BY DEF DeathTeamsAsPlayed
  <2> DEFINE t == deaths[s][k]
  <2>1. t \in 0..MaxTick /\ t \in Nat /\ deaths[s] # <<>>
    <3>1. deaths[s] \in Seq(0..MaxTick) /\ MaxTick \in Nat
      BY TeamTypes DEF TInv, TeamType, GameType
    <3>2. deaths[s][k] \in 0..MaxTick
      BY <3>1
    <3> QED BY <3>1, <3>2
  <2>2. Period \in Nat /\ Delay \in Nat
    BY TeamTypes DEF TInv
  <2>3. rows[s] # <<>> /\ rows[s][1].tick \in Nat
    <3>1. rows[s] \in Seq(Sample) /\ rows[s] # <<>>
      BY <2>1 DEF TInv, TeamType, GameType, RowsPast
    <3>2. rows[s][1] \in Sample
      BY <3>1
    <3> QED BY <3>1, <3>2 DEF Sample
  <2>4. {rows[r][1].tick : r \in Slot} = {rows[s][1].tick}
    <3>1. \A r \in Slot : rows[r][1].tick = rows[s][1].tick
      BY <2>3 DEF TInv, RowsPast
    <3> QED BY <3>1
  <2>5. FirstShown = rows[s][1].tick
    <3> DEFINE first == rows[s][1].tick
    <3>1. first \in Nat
      BY <2>3
    <3> HIDE DEF first
    <3>2. Min({first}) = first
      BY <3>1 DEF Min
    <3> QED BY <3>2, <2>4 DEF FirstShown, first
  <2> HIDE DEF t
  <2>6. PICK n \in 1..Len(rows[s]) : LastBy(s, n, t) /\ TeamAt(s, t) = rows[s][n].state.team
    <3>1. rows[s][1].tick <= t
      BY <2>5 DEF t
    <3> QED BY <2>1, <2>3, <3>1, TeamAtIsLast
  <2>7. Past(t)
    BY DEF Past
  <2>8. rows[s][n].state.team = truth[t][s].team \/ LateIn(s, t - Period - Delay, t)
    BY <2>1, <2>6, <2>7 DEF TInv, TeamsTrailed
  <2>9. ~LateIn(s, t - Period - Delay, t)
    <3> SUFFICES ASSUME NEW u \in 0..MaxTick, t - Period - Delay <= u, u <= t, s \in late[u]
                 PROVE  FALSE
      BY DEF LateIn
    <3>1. u \in 0..t /\ t - u <= Period + Delay
      BY <2>1, <2>2
    <3>2. late[u] = {}
      BY <3>1 DEF Settled, t
    <3> QED BY <3>2
  <2> QED BY <2>6, <2>8, <2>9 DEF t
<1> QED BY <1>1, TInvHolds, PTL

-----------------------------------------------------------------------------
(* What becomes of a slot                                                  *)

\* h[t] is a slot's state at the end of tick t, n the tick of the game, sc the
\* slot's since; died, lates and begun are the ticks of its players' deaths, of
\* its changes without an event, and of the round starts.

\* A tick changes a slot by a death, without an event, or by a round start.
Steps(h, n, died, lates, begun) ==
  \A t \in 1..n :
    IF t \in died
      THEN Living(h[t - 1]) /\ h[t] = [h[t - 1] EXCEPT !.alive = FALSE, !.deaths = @ + 1]
      ELSE \/ h[t] = h[t - 1] \/ t \in lates
           \/ /\ t \in begun /\ h[t - 1].connected /\ ~h[t - 1].alive
              /\ h[t] = [h[t - 1] EXCEPT !.alive = TRUE]

\* A life lasts until the resource has shown it.
Lives(h, n, died, lates) ==
  \A t \in 1..n : (t \in died \/ t \in lates) /\ Living(h[t - 1]) =>
    \A u \in 0..(t - 1) : u >= t - 1 - Period - Delay => h[u] = h[t - 1]

\* Who spawns without a round start does so well after it.
LateSpawns(h, n, lates, begun) ==
  \A t \in 1..n : t \in lates /\ ~Living(h[t - 1]) /\ Living(h[t]) =>
    \A x \in begun : x <= t => t - x > ResourceLag

\* A death counts as long as a row can trail it.
CountsRise(h, n, died) ==
  \A t \in died : \A u \in t..n : u <= t + ResourceLag => h[u].deaths > h[t - 1].deaths

\* The slot since its last spawn, leave or change of team.
SinceChange(h, n, sc, died, lates) ==
  /\ Living(h[n]) => \A t \in 0..n : t >= sc => h[t] = h[n]
  /\ sc # n /\ n \notin died => n \notin lates /\ (n > 0 => h[n - 1] = h[n])
  /\ ~h[n].connected => \A t \in died : t <= sc

Apart(begun) == \A x, y \in begun : x < y => y - x > ResourceLag

History(h, n, sc, died, lates, begun) ==
  /\ h \in [0..n -> State] /\ sc \in Int /\ sc <= n
  /\ died \subseteq 1..n /\ lates \subseteq 1..n /\ begun \subseteq 1..n
  /\ Apart(begun) /\ Steps(h, n, died, lates, begun) /\ Lives(h, n, died, lates)
  /\ LateSpawns(h, n, lates, begun) /\ CountsRise(h, n, died) /\ SinceChange(h, n, sc, died, lates)

LEMMA Lags ==
  /\ Period \in Nat \ {0} /\ Delay \in Nat /\ ResourceLag \in Nat /\ JoinTime \in Nat
  /\ MaxTick \in Nat /\ Period + Delay <= ResourceLag /\ ResourceLag < JoinTime
<1> QED BY AliveAssumption

\* Another slot's change leaves this one's history, and so does a round start.
LEMMA SameHistory ==
  ASSUME NEW n \in Nat, NEW h, NEW sc, NEW died, NEW lates, NEW begun,
         History(h, n, sc, died, lates, begun), n > 0,
         sc # n, n \notin died, \A x \in begun : n - x > ResourceLag
  PROVE  History(h, n, sc, died, lates, begun \cup {n})
<1> DEFINE more == begun \cup {n}
<1>1. more \subseteq 1..n
  BY DEF History
<1>2. Apart(more)
  <2>1. \A x \in begun : x \in Int /\ x <= n
    BY DEF History
  <2> QED BY <2>1, Lags DEF History, Apart
<1>3. Steps(h, n, died, lates, more)
  BY DEF History, Steps
<1>4. LateSpawns(h, n, lates, more)
  <2> SUFFICES ASSUME NEW t \in 1..n, t \in lates, ~Living(h[t - 1]), Living(h[t]),
                      NEW x \in more, x <= t
               PROVE  t - x > ResourceLag
    BY DEF LateSpawns
  <2>1. n \notin lates
    BY DEF History, SinceChange
  <2>2. t < n
    BY <2>1
  <2>3. x \in begun
    BY <2>2
  <2> QED BY <2>3 DEF History, LateSpawns
<1> QED BY <1>1, <1>2, <1>3, <1>4 DEF History

\* A death of its player.
LEMMA DeathHistory ==
  ASSUME NEW n \in Nat, NEW h, NEW sc, NEW died, NEW lates, NEW begun,
         History(h, n, sc, died, lates, begun), n > 0,
         sc # n, n \notin died, Living(h[n]), n - sc > Period + Delay,
         NEW st, st = [h[n] EXCEPT !.alive = FALSE, !.deaths = @ + 1],
         NEW g, g = [h EXCEPT ![n] = st]
  PROVE  History(g, n, sc, died \cup {n}, lates, begun)
<1> DEFINE dead == died \cup {n}
<1>0. /\ h \in [0..n -> State] /\ sc \in Int /\ sc <= n /\ died \subseteq 1..n /\ lates \subseteq 1..n
      /\ begun \subseteq 1..n
  BY DEF History
<1>1. h[n] \in State /\ n \notin lates /\ h[n - 1] = h[n]
  BY <1>0 DEF History, SinceChange
<1>2. st \in State /\ ~Living(st) /\ st.connected /\ st.deaths = h[n].deaths + 1
  <2>1. h[n].deaths + 1 \in Nat
    BY <1>1 DEF State
  <2> QED BY <1>1, <2>1 DEF State, Living
<1>3. g \in [0..n -> State] /\ g[n] = st /\ \A t \in 0..n : t # n => g[t] = h[t]
  <2>1. n \in 0..n
    OBVIOUS
  <2>2. g = [t \in 0..n |-> IF t = n THEN st ELSE h[t]]
    BY <1>0
  <2> QED BY <1>0, <1>2, <2>1, <2>2
<1>4. dead \subseteq 1..n
  BY <1>0
<1>5. g[n - 1] = h[n]
  BY <1>1, <1>3
<1>6. Steps(g, n, dead, lates, begun)
  <2> SUFFICES ASSUME NEW t \in 1..n
               PROVE  IF t \in dead
                        THEN Living(g[t - 1]) /\ g[t] = [g[t - 1] EXCEPT !.alive = FALSE, !.deaths = @ + 1]
                        ELSE \/ g[t] = g[t - 1] \/ t \in lates
                             \/ /\ t \in begun /\ g[t - 1].connected /\ ~g[t - 1].alive
                                /\ g[t] = [g[t - 1] EXCEPT !.alive = TRUE]
    BY DEF Steps
  <2>1. CASE t = n
    BY <1>3, <1>5, <2>1
  <2>2. CASE t # n
    <3>1. g[t] = h[t] /\ g[t - 1] = h[t - 1] /\ (t \in dead <=> t \in died)
      BY <1>3, <2>2
    <3> HIDE DEF dead
    <3> QED BY <3>1 DEF History, Steps
  <2> QED BY <2>1, <2>2
<1>7. Lives(g, n, dead, lates)
  <2> SUFFICES ASSUME NEW t \in 1..n, t \in dead \/ t \in lates, Living(g[t - 1]),
                      NEW u \in 0..(t - 1), u >= t - 1 - Period - Delay
               PROVE  g[u] = g[t - 1]
    BY DEF Lives
  <2>1. g[u] = h[u] /\ g[t - 1] = h[t - 1]
    BY <1>3
  <2>2. CASE t = n
    <3>1. u >= sc
      BY <1>0, <2>2, Lags
    <3> QED BY <1>1, <2>1, <2>2, <3>1 DEF History, SinceChange
  <2>3. CASE t # n
    BY <2>1, <2>3 DEF History, Lives
  <2> QED BY <2>2, <2>3
<1>8. LateSpawns(g, n, lates, begun)
  <2> SUFFICES ASSUME NEW t \in 1..n, t \in lates, ~Living(g[t - 1]), Living(g[t]),
                      NEW x \in begun, x <= t
               PROVE  t - x > ResourceLag
    BY DEF LateSpawns
  <2>1. t # n
    BY <1>1
  <2>2. g[t] = h[t] /\ g[t - 1] = h[t - 1]
    BY <1>3, <2>1
  <2> QED BY <2>2 DEF History, LateSpawns
<1>9. CountsRise(g, n, dead)
  <2> SUFFICES ASSUME NEW t \in dead, NEW u \in t..n, u <= t + ResourceLag
               PROVE  g[u].deaths > g[t - 1].deaths
    BY DEF CountsRise
  <2>1. t \in 1..n /\ u \in 1..n
    BY <1>4
  <2>2. CASE t = n
    <3>1. u = n
      BY <2>2
    <3>2. h[n].deaths \in Nat
      BY <1>1 DEF State
    <3>3. g[u] = st /\ g[t - 1] = h[n]
      BY <1>3, <1>5, <2>2, <3>1
    <3>4. g[u].deaths = h[n].deaths + 1 /\ g[t - 1].deaths = h[n].deaths
      BY <1>2, <3>3
    <3> QED BY <3>2, <3>4
  <2>3. CASE t # n
    <3>1. t \in died /\ g[t - 1] = h[t - 1] /\ h[u].deaths > h[t - 1].deaths
      BY <1>3, <2>1, <2>3 DEF History, CountsRise
    <3>2. CASE u # n
      BY <1>3, <2>1, <3>1, <3>2
    <3>3. CASE u = n
      <4>1. h[t - 1] \in State /\ h[n].deaths \in Nat
        BY <1>0, <1>1, <2>1 DEF State
      <4>2. h[t - 1].deaths \in Nat
        BY <4>1 DEF State
      <4>3. g[u] = st /\ u = n
        BY <1>3, <3>3
      <4> QED BY <1>2, <3>1, <4>1, <4>2, <4>3
    <3> QED BY <3>2, <3>3
  <2> QED BY <2>2, <2>3
<1>10. SinceChange(g, n, sc, dead, lates)
  BY <1>2, <1>3 DEF SinceChange
<1> QED BY <1>0, <1>3, <1>4, <1>6, <1>7, <1>8, <1>9, <1>10 DEF History

\* A history with its last state changed.
LEMMA Changed ==
  ASSUME NEW n \in Nat, NEW h \in [0..n -> State], NEW st \in State,
         NEW g, g = [h EXCEPT ![n] = st]
  PROVE  g \in [0..n -> State] /\ g[n] = st /\ \A t \in 0..n : t # n => g[t] = h[t]
<1>1. n \in 0..n
  OBVIOUS
<1>2. g \in [0..n -> State]
  OBVIOUS
<1>3. g[n] = st /\ \A t \in 0..n : t # n => g[t] = h[t]
  BY <1>1
<1> QED BY <1>2, <1>3

\* A round start that brings its player in.
LEMMA StartHistory ==
  ASSUME NEW n \in Nat, NEW h, NEW sc, NEW died, NEW lates, NEW begun,
         History(h, n, sc, died, lates, begun), n > 0,
         sc # n, n \notin died, \A x \in begun : n - x > ResourceLag,
         h[n].connected, ~h[n].alive,
         NEW st, st = [h[n] EXCEPT !.alive = TRUE],
         NEW g, g = [h EXCEPT ![n] = st]
  PROVE  History(g, n, n, died, lates, begun \cup {n})
<1> DEFINE more == begun \cup {n}
<1>0. /\ h \in [0..n -> State] /\ died \subseteq 1..n /\ lates \subseteq 1..n /\ more \subseteq 1..n
  BY DEF History
<1>1. h[n] \in State /\ n \notin lates /\ h[n - 1] = h[n]
  BY <1>0 DEF History, SinceChange
<1>2. st \in State /\ st.connected /\ st.deaths = h[n].deaths
  BY <1>1 DEF State
<1>3. g \in [0..n -> State] /\ g[n] = st /\ \A t \in 0..n : t # n => g[t] = h[t]
  <2>1. n \in 0..n
    OBVIOUS
  <2>2. g = [t \in 0..n |-> IF t = n THEN st ELSE h[t]]
    BY <1>0
  <2> QED BY <1>0, <1>2, <2>1, <2>2
<1>4. g[n - 1] = h[n]
  BY <1>1, <1>3
<1>5. Apart(more)
  <2>1. \A x \in begun : x \in Int /\ x <= n
    BY DEF History
  <2> QED BY <2>1, Lags DEF History, Apart
<1>6. Steps(g, n, died, lates, more)
  <2> SUFFICES ASSUME NEW t \in 1..n
               PROVE  IF t \in died
                        THEN Living(g[t - 1]) /\ g[t] = [g[t - 1] EXCEPT !.alive = FALSE, !.deaths = @ + 1]
                        ELSE \/ g[t] = g[t - 1] \/ t \in lates
                             \/ /\ t \in more /\ g[t - 1].connected /\ ~g[t - 1].alive
                                /\ g[t] = [g[t - 1] EXCEPT !.alive = TRUE]
    BY DEF Steps
  <2>1. CASE t = n
    BY <1>3, <1>4, <2>1
  <2>2. CASE t # n
    <3>1. g[t] = h[t] /\ g[t - 1] = h[t - 1] /\ (t \in more <=> t \in begun)
      BY <1>3, <2>2
    <3> HIDE DEF more
    <3> QED BY <3>1 DEF History, Steps
  <2> QED BY <2>1, <2>2
<1>7. Lives(g, n, died, lates)
  <2> SUFFICES ASSUME NEW t \in 1..n, t \in died \/ t \in lates, Living(g[t - 1]),
                      NEW u \in 0..(t - 1), u >= t - 1 - Period - Delay
               PROVE  g[u] = g[t - 1]
    BY DEF Lives
  <2>1. g[u] = h[u] /\ g[t - 1] = h[t - 1]
    BY <1>3
  <2> QED BY <2>1 DEF History, Lives
<1>8. LateSpawns(g, n, lates, more)
  <2> SUFFICES ASSUME NEW t \in 1..n, t \in lates, ~Living(g[t - 1]), Living(g[t]),
                      NEW x \in more, x <= t
               PROVE  t - x > ResourceLag
    BY DEF LateSpawns
  <2>1. t # n
    BY <1>1
  <2>2. g[t] = h[t] /\ g[t - 1] = h[t - 1] /\ x \in begun
    BY <1>3, <2>1
  <2> QED BY <2>2 DEF History, LateSpawns
<1>9. CountsRise(g, n, died)
  <2> SUFFICES ASSUME NEW t \in died, NEW u \in t..n, u <= t + ResourceLag
               PROVE  g[u].deaths > g[t - 1].deaths
    BY DEF CountsRise
  <2>1. t \in 1..n /\ u \in 1..n
    BY <1>0
  <2>2. g[t - 1] = h[t - 1] /\ h[u].deaths > h[t - 1].deaths
    BY <1>3, <2>1 DEF History, CountsRise
  <2>3. g[u].deaths = h[u].deaths
    BY <1>2, <1>3, <2>1
  <2> QED BY <2>2, <2>3
<1>10. SinceChange(g, n, n, died, lates)
  BY <1>2, <1>3 DEF SinceChange
<1> QED BY <1>0, <1>3, <1>5, <1>6, <1>7, <1>8, <1>9, <1>10 DEF History

\* A change without an event.
LEMMA LateHistory ==
  ASSUME NEW n \in Nat, NEW h, NEW sc, NEW died, NEW lates, NEW begun,
         History(h, n, sc, died, lates, begun), n > 0,
         sc # n, n \notin died, Living(h[n]) => n - sc > Period + Delay,
         NEW st \in State, NEW g, g = [h EXCEPT ![n] = st],
         st.deaths = h[n].deaths \/ (~h[n].connected /\ n - sc >= JoinTime),
         Living(st) /\ ~Living(h[n]) => \A x \in begun : n - x > ResourceLag
  PROVE  History(g, n, n, died, lates \cup {n}, begun)
<1> DEFINE more == lates \cup {n}
<1>0. /\ h \in [0..n -> State] /\ died \subseteq 1..n /\ more \subseteq 1..n /\ begun \subseteq 1..n
      /\ sc \in Int /\ sc <= n
  BY DEF History
<1>1. h[n] \in State /\ h[n - 1] = h[n]
  BY <1>0 DEF History, SinceChange
<1>3. g \in [0..n -> State] /\ g[n] = st /\ \A t \in 0..n : t # n => g[t] = h[t]
  BY <1>0, Changed
<1>4. g[n - 1] = h[n]
  BY <1>1, <1>3
<1>6. Steps(g, n, died, more, begun)
  <2> SUFFICES ASSUME NEW t \in 1..n
               PROVE  IF t \in died
                        THEN Living(g[t - 1]) /\ g[t] = [g[t - 1] EXCEPT !.alive = FALSE, !.deaths = @ + 1]
                        ELSE \/ g[t] = g[t - 1] \/ t \in more
                             \/ /\ t \in begun /\ g[t - 1].connected /\ ~g[t - 1].alive
                                /\ g[t] = [g[t - 1] EXCEPT !.alive = TRUE]
    BY DEF Steps
  <2>1. CASE t = n
    BY <2>1
  <2>2. CASE t # n
    <3>1. g[t] = h[t] /\ g[t - 1] = h[t - 1] /\ (t \in more <=> t \in lates)
      BY <1>3, <2>2
    <3> HIDE DEF more
    <3> QED BY <3>1 DEF History, Steps
  <2> QED BY <2>1, <2>2
<1>7. Lives(g, n, died, more)
  <2> SUFFICES ASSUME NEW t \in 1..n, t \in died \/ t \in more, Living(g[t - 1]),
                      NEW u \in 0..(t - 1), u >= t - 1 - Period - Delay
               PROVE  g[u] = g[t - 1]
    BY DEF Lives
  <2>1. g[u] = h[u] /\ g[t - 1] = h[t - 1]
    BY <1>3
  <2>2. CASE t = n
    <3>1. Living(h[n])
      BY <1>4, <2>2
    <3>2. u >= sc
      BY <1>0, <2>2, <3>1, Lags
    <3> QED BY <1>1, <2>1, <2>2, <3>1, <3>2 DEF History, SinceChange
  <2>3. CASE t # n
    BY <2>1, <2>3 DEF History, Lives
  <2> QED BY <2>2, <2>3
<1>8. LateSpawns(g, n, more, begun)
  <2> SUFFICES ASSUME NEW t \in 1..n, t \in more, ~Living(g[t - 1]), Living(g[t]),
                      NEW x \in begun, x <= t
               PROVE  t - x > ResourceLag
    BY DEF LateSpawns
  <2>1. CASE t = n
    BY <1>3, <1>4, <2>1
  <2>2. CASE t # n
    <3>1. g[t] = h[t] /\ g[t - 1] = h[t - 1] /\ t \in lates
      BY <1>3, <2>2
    <3> QED BY <3>1 DEF History, LateSpawns
  <2> QED BY <2>1, <2>2
<1>9. CountsRise(g, n, died)
  <2> SUFFICES ASSUME NEW t \in died, NEW u \in t..n, u <= t + ResourceLag
               PROVE  g[u].deaths > g[t - 1].deaths
    BY DEF CountsRise
  <2>1. t \in 1..n /\ u \in 1..n
    BY <1>0
  <2>2. g[t - 1] = h[t - 1] /\ h[u].deaths > h[t - 1].deaths
    BY <1>3, <2>1 DEF History, CountsRise
  <2>3. u = n => h[n].connected \/ n - sc < JoinTime
    <3>1. ~h[n].connected => t <= sc
      BY DEF History, SinceChange
    <3> QED BY <1>0, <2>1, <3>1, Lags
  <2>4. g[u].deaths = h[u].deaths
    <3>1. CASE u = n
      BY <1>3, <2>3, <3>1, <1>0, Lags
    <3> QED BY <1>3, <2>1, <3>1
  <2> QED BY <2>2, <2>4
<1>10. SinceChange(g, n, n, died, more)
  BY <1>0, <1>3 DEF SinceChange
<1> QED BY <1>0, <1>3, <1>6, <1>7, <1>8, <1>9, <1>10 DEF History

\* Nothing has happened on the next tick yet.
LEMMA TickHistory ==
  ASSUME NEW n \in Nat, NEW h, NEW sc, NEW died, NEW lates, NEW begun,
         History(h, n, sc, died, lates, begun),
         NEW g, g = [t \in 0..(n + 1) |-> IF t <= n THEN h[t] ELSE h[n]]
  PROVE  History(g, n + 1, sc, died, lates, begun)
<1>0. /\ h \in [0..n -> State] /\ died \subseteq 1..n /\ lates \subseteq 1..n /\ begun \subseteq 1..n
      /\ sc \in Int /\ sc <= n
  BY DEF History
<1>1. g[n + 1] = h[n] /\ g[n] = h[n] /\ \A t \in 0..n : g[t] = h[t]
  OBVIOUS
<1>2. g \in [0..(n + 1) -> State]
  BY <1>0
<1>3. \A t \in 1..(n + 1) : t \in 1..n \/ t = n + 1
  OBVIOUS
<1>4. \A t \in 1..n : t - 1 \in 0..n /\ t \in 0..n /\ g[t] = h[t] /\ g[t - 1] = h[t - 1]
  BY <1>1
<1>5. n + 1 \notin died /\ n + 1 \notin lates
  BY <1>0
<1>6. Steps(g, n + 1, died, lates, begun)
  <2> SUFFICES ASSUME NEW t \in 1..(n + 1)
               PROVE  IF t \in died
                        THEN Living(g[t - 1]) /\ g[t] = [g[t - 1] EXCEPT !.alive = FALSE, !.deaths = @ + 1]
                        ELSE \/ g[t] = g[t - 1] \/ t \in lates
                             \/ /\ t \in begun /\ g[t - 1].connected /\ ~g[t - 1].alive
                                /\ g[t] = [g[t - 1] EXCEPT !.alive = TRUE]
    BY DEF Steps
  <2>1. CASE t = n + 1
    BY <1>1, <1>5, <2>1
  <2>2. CASE t \in 1..n
    <3>1. g[t] = h[t] /\ g[t - 1] = h[t - 1]
      BY <1>4, <2>2
    <3> QED BY <2>2, <3>1 DEF History, Steps
  <2> QED BY <1>3, <2>1, <2>2
<1>7. Lives(g, n + 1, died, lates)
  <2> SUFFICES ASSUME NEW t \in 1..(n + 1), t \in died \/ t \in lates, Living(g[t - 1]),
                      NEW u \in 0..(t - 1), u >= t - 1 - Period - Delay
               PROVE  g[u] = g[t - 1]
    BY DEF Lives
  <2>1. t \in 1..n
    BY <1>3, <1>5
  <2>2. g[u] = h[u] /\ g[t - 1] = h[t - 1]
    BY <1>1, <2>1
  <2> QED BY <2>1, <2>2 DEF History, Lives
<1>8. LateSpawns(g, n + 1, lates, begun)
  <2> SUFFICES ASSUME NEW t \in 1..(n + 1), t \in lates, ~Living(g[t - 1]), Living(g[t]),
                      NEW x \in begun, x <= t
               PROVE  t - x > ResourceLag
    BY DEF LateSpawns
  <2>1. t \in 1..n
    BY <1>3, <1>5
  <2>2. g[t] = h[t] /\ g[t - 1] = h[t - 1]
    BY <1>4, <2>1
  <2> QED BY <2>1, <2>2 DEF History, LateSpawns
<1>9. CountsRise(g, n + 1, died)
  <2> SUFFICES ASSUME NEW t \in died, NEW u \in t..(n + 1), u <= t + ResourceLag
               PROVE  g[u].deaths > g[t - 1].deaths
    BY DEF CountsRise
  <2>1. t \in 1..n /\ g[t - 1] = h[t - 1]
    BY <1>0, <1>4
  <2>2. CASE u \in t..n
    <3>1. g[u] = h[u]
      BY <1>1, <2>1, <2>2
    <3> QED BY <2>1, <2>2, <3>1 DEF History, CountsRise
  <2>3. CASE u = n + 1
    <3>1. n \in t..n /\ n <= t + ResourceLag /\ g[u] = h[n]
      BY <1>1, <2>1, <2>3, Lags
    <3> QED BY <2>1, <3>1 DEF History, CountsRise
  <2> QED BY <2>1, <2>2, <2>3
<1>10. SinceChange(g, n + 1, sc, died, lates)
  <2>1. \A t \in 0..(n + 1) : g[t] = IF t <= n THEN h[t] ELSE h[n]
    OBVIOUS
  <2>2. Living(g[n + 1]) => \A t \in 0..(n + 1) : t >= sc => g[t] = g[n + 1]
    BY <1>1, <2>1 DEF History, SinceChange
  <2>3. n + 1 > 0 => g[n + 1 - 1] = g[n + 1]
    BY <1>1
  <2>4. ~g[n + 1].connected => \A t \in died : t <= sc
    BY <1>1 DEF History, SinceChange
  <2> QED BY <1>5, <2>2, <2>3, <2>4 DEF SinceChange
<1> QED BY <1>0, <1>2, <1>6, <1>7, <1>8, <1>9, <1>10 DEF History

LEMMA FirstHistory ==
  ASSUME NEW h \in [0..0 -> State], NEW sc \in Int, sc <= 0
  PROVE  History(h, 0, sc, {}, {}, {})
<1> QED BY DEF History, Apart, Steps, Lives, LateSpawns, CountsRise, SinceChange

-----------------------------------------------------------------------------
(* What the rows show of it                                                *)

\* rs are the slot's rows; p ticks are past, st is what the resource holds,
\* at the tick it was read on, sh whether that was shown.

\* The tick of the refresh that a packet shows.
ReadOf(t) == t - (t % Period)

\* The slot before or after what happened to it on the tick it was read.
ShowsAt(h, st, r) == st = h[r] \/ (r > 0 /\ st = h[r - 1])

\* Row k is the last by tick t.
LastRow(rs, k, t) == rs[k].tick <= t /\ (k < Len(rs) => rs[k + 1].tick > t)

RowsShow(rs, h) ==
  \A k \in 1..Len(rs) :
    /\ rs[k].tick <= ReadOf(rs[k].tick) + Delay
    /\ ShowsAt(h, rs[k].state, ReadOf(rs[k].tick))
    /\ \A m \in 1..Len(rs) : k < m => ReadOf(rs[k].tick) < ReadOf(rs[m].tick)

\* The last row by a tick is of a refresh not long ago, after the row's own and
\* before the next row's.
Keeps(rs, h, p, last) ==
  \A t \in 0..(p - 1) : \A k \in 1..Len(rs) : LastRow(rs, k, t) =>
    \E r \in 0..t :
      /\ ReadOf(rs[k].tick) <= r /\ t < r + Period + Delay /\ ShowsAt(h, rs[k].state, r)
      /\ IF k < Len(rs) THEN r < ReadOf(rs[k + 1].tick) ELSE r <= last

\* The last refresh that was shown.
LastShown(at, sh) == IF sh THEN at ELSE at - Period

Shows(rs, h, n, p, st, at, sh) ==
  /\ at \in Int /\ at <= n /\ (at >= 0 => ShowsAt(h, st, at)) /\ (~sh => p <= at + Delay)
  /\ rs # <<>> =>
       /\ LastShown(at, sh) >= 0 /\ ReadOf(rs[Len(rs)].tick) <= LastShown(at, sh)
       /\ ShowsAt(h, rs[Len(rs)].state, LastShown(at, sh))
       /\ sh => rs[Len(rs)].state = st
  /\ rs = <<>> => at = (IF sh THEN -1 ELSE 0) /\ (sh => p = 0) /\ p <= Delay

Reading(rs, h, n, p, st, at, sh) ==
  /\ rs \in Seq(Sample) /\ sh \in BOOLEAN /\ n \in Nat /\ p \in n..(n + 1)
  /\ \A k \in 1..Len(rs) : rs[k].tick \in 0..(p - 1)
  /\ \A k, m \in 1..Len(rs) : k < m => rs[k].tick < rs[m].tick
  /\ RowsShow(rs, h) /\ Keeps(rs, h, p, LastShown(at, sh)) /\ Shows(rs, h, n, p, st, at, sh)

LEMMA ReadOfType ==
  ASSUME NEW t \in Nat
  PROVE  ReadOf(t) \in 0..t /\ t < ReadOf(t) + Period
<1> DEFINE q == t \div Period
           m == t % Period
<1>1. q \in Nat /\ m \in 0..(Period - 1) /\ t = Period * q + m
  BY Lags
<1>2. Period * q \in Nat
  BY <1>1, Lags
<1> DEFINE z == Period * q
<1> HIDE DEF q, m, z
<1>3. ReadOf(t) = t - m
  BY DEF ReadOf, m
<1>4. m <= t
  BY <1>1, <1>2 DEF z
<1> QED BY <1>1, <1>3, <1>4, Lags

\* What happens to a slot leaves what was read of it before or after it.
LEMMA StillShows ==
  ASSUME NEW n \in Nat, n > 0, NEW h, NEW g, NEW st, NEW r \in 0..n, ShowsAt(h, st, r),
         h[n - 1] = h[n], \A t \in 0..n : t # n => g[t] = h[t]
  PROVE  ShowsAt(g, st, r)
<1>1. CASE r # n
  <2>1. g[r] = h[r]
    BY <1>1
  <2>2. r > 0 => g[r - 1] = h[r - 1]
    BY <1>1
  <2> QED BY <2>1, <2>2 DEF ShowsAt
<1>2. CASE r = n
  <2>1. g[n - 1] = h[n - 1] /\ n > 0
    OBVIOUS
  <2> QED BY <1>2, <2>1 DEF ShowsAt
<1> QED BY <1>1, <1>2

LEMMA RowTicks ==
  ASSUME NEW rs, NEW h, NEW n, NEW p, NEW st, NEW at, NEW sh, Reading(rs, h, n, p, st, at, sh)
  PROVE  /\ Len(rs) \in Nat /\ n \in Nat /\ p \in Nat /\ p <= n + 1 /\ n <= p
         /\ \A k \in 1..Len(rs) : /\ rs[k].tick \in Nat /\ rs[k].tick < p /\ rs[k].tick <= n
                                  /\ ReadOf(rs[k].tick) \in 0..n /\ ReadOf(rs[k].tick) \in Nat
                                  /\ rs[k].tick < ReadOf(rs[k].tick) + Period
                                  /\ ReadOf(rs[k].tick) <= rs[k].tick
<1>1. Len(rs) \in Nat /\ n \in Nat /\ p \in Nat /\ p <= n + 1 /\ n <= p
  BY DEF Reading
<1>2. ASSUME NEW k \in 1..Len(rs)
      PROVE  /\ rs[k].tick \in Nat /\ rs[k].tick < p /\ rs[k].tick <= n
             /\ ReadOf(rs[k].tick) \in 0..n /\ ReadOf(rs[k].tick) \in Nat
             /\ rs[k].tick < ReadOf(rs[k].tick) + Period /\ ReadOf(rs[k].tick) <= rs[k].tick
  <2> DEFINE x == rs[k].tick
  <2>1. x \in Nat /\ x < p /\ x <= n
    BY <1>1 DEF Reading
  <2> HIDE DEF x
  <2>2. ReadOf(x) \in 0..x /\ x < ReadOf(x) + Period
    BY <2>1, ReadOfType
  <2> QED BY <1>1, <2>1, <2>2 DEF x
<1> QED BY <1>1, <1>2

\* A history that agrees where rows were read, or may be read.
LEMMA ReadingKept ==
  ASSUME NEW rs, NEW h, NEW n, NEW p, NEW st, NEW at, NEW sh, Reading(rs, h, n, p, st, at, sh),
         NEW g, NEW m, m \in Nat, m >= n, p >= m, p <= m + 1,
         \A x, r : r \in 0..n /\ ShowsAt(h, x, r) => ShowsAt(g, x, r)
  PROVE  Reading(rs, g, m, p, st, at, sh)
<1>1. /\ Len(rs) \in Nat /\ n \in Nat /\ p \in Nat /\ p <= n + 1 /\ n <= p
      /\ \A k \in 1..Len(rs) : ReadOf(rs[k].tick) \in 0..n
  BY RowTicks
<1>2. RowsShow(rs, g)
  BY <1>1 DEF Reading, RowsShow
<1>3. Keeps(rs, g, p, LastShown(at, sh))
  <2> SUFFICES ASSUME NEW t \in 0..(p - 1), NEW k \in 1..Len(rs), LastRow(rs, k, t)
               PROVE  \E r \in 0..t :
                        /\ ReadOf(rs[k].tick) <= r /\ t < r + Period + Delay
                        /\ ShowsAt(g, rs[k].state, r)
                        /\ IF k < Len(rs) THEN r < ReadOf(rs[k + 1].tick) ELSE r <= LastShown(at, sh)
    BY DEF Keeps
  <2>1. PICK r \in 0..t :
          /\ ReadOf(rs[k].tick) <= r /\ t < r + Period + Delay /\ ShowsAt(h, rs[k].state, r)
          /\ IF k < Len(rs) THEN r < ReadOf(rs[k + 1].tick) ELSE r <= LastShown(at, sh)
    BY DEF Reading, Keeps
  <2>2. r \in 0..n
    BY <1>1
  <2>3. ShowsAt(g, rs[k].state, r)
    BY <2>1, <2>2
  <2> QED BY <2>1, <2>3
<1>4. at \in Int /\ at <= n /\ (sh \in BOOLEAN)
  BY DEF Reading, Shows
<1>5. LastShown(at, sh) <= n /\ LastShown(at, sh) \in Int
  BY <1>1, <1>4, Lags DEF LastShown
<1>6. Shows(rs, g, m, p, st, at, sh)
  <2>1. at >= 0 => ShowsAt(g, st, at)
    BY <1>1, <1>4 DEF Reading, Shows
  <2>2. rs # <<>> => ShowsAt(g, rs[Len(rs)].state, LastShown(at, sh))
    BY <1>1, <1>5 DEF Reading, Shows
  <2>3. at <= m
    BY <1>1, <1>4
  <2> QED BY <2>1, <2>2, <2>3 DEF Reading, Shows
<1>7. p \in m..(m + 1)
  BY <1>1
<1> QED BY <1>2, <1>3, <1>6, <1>7 DEF Reading

\* The resource is read again once what it held was shown.
LEMMA RefreshReading ==
  ASSUME NEW rs, NEW h, NEW n, NEW p, NEW st, NEW at, NEW sh, Reading(rs, h, n, p, st, at, sh),
         sh, p = n, at = IF n = 0 THEN -1 ELSE n - Period
  PROVE  Reading(rs, h, n, p, h[n], n, FALSE)
<1>1. n \in Nat /\ Len(rs) \in Nat
  BY RowTicks
<1>2. LastShown(at, sh) = at /\ LastShown(n, FALSE) = n - Period
  BY DEF LastShown
<1>3. rs # <<>> => at = n - Period
  <2>1. rs # <<>> => at >= 0
    BY <1>2 DEF Reading, Shows
  <2> QED BY <1>1, <2>1
<1>4. rs = <<>> => n = 0
  BY DEF Reading, Shows
<1>5. Keeps(rs, h, p, n - Period)
  <2>1. CASE rs = <<>>
    BY <2>1 DEF Keeps
  <2>2. CASE rs # <<>>
    BY <1>2, <1>3, <2>2 DEF Reading
  <2> QED BY <2>1, <2>2
<1>6. ShowsAt(h, h[n], n)
  BY DEF ShowsAt
<1>7. Shows(rs, h, n, p, h[n], n, FALSE)
  <2>1. rs # <<>> =>
          /\ n - Period >= 0 /\ ReadOf(rs[Len(rs)].tick) <= n - Period
          /\ ShowsAt(h, rs[Len(rs)].state, n - Period)
    BY <1>2, <1>3 DEF Reading, Shows
  <2>2. rs = <<>> => n = 0 /\ p <= Delay
    BY <1>4 DEF Reading, Shows
  <2>3. p <= n + Delay
    BY <1>1, Lags
  <2>4. n \in Int /\ n <= n /\ (n >= 0 => ShowsAt(h, h[n], n)) /\ (~FALSE => p <= n + Delay)
    BY <1>1, <1>6, <2>3
  <2>5. rs # <<>> =>
          /\ LastShown(n, FALSE) >= 0 /\ ReadOf(rs[Len(rs)].tick) <= LastShown(n, FALSE)
          /\ ShowsAt(h, rs[Len(rs)].state, LastShown(n, FALSE))
    BY <1>2, <2>1
  <2> QED BY <2>2, <2>4, <2>5 DEF Shows
<1> QED BY <1>2, <1>5, <1>7 DEF Reading

\* A tick whose packet adds no row.
LEMMA TickSame ==
  ASSUME NEW rs, NEW h, NEW n, NEW p, NEW st, NEW at, NEW sh, Reading(rs, h, n, p, st, at, sh),
         p = n, at = ReadOf(n), NEW now2, now2 \in BOOLEAN, NEW q \in Nat, q = n + 1,
         \/ now2 = sh /\ (sh \/ n < at + Delay)
         \/ now2 = TRUE /\ ~sh /\ rs # <<>> /\ rs[Len(rs)].state = st
  PROVE  Reading(rs, h, n, q, st, at, now2)
<1> DEFINE old == LastShown(at, sh)
           last == LastShown(at, now2)
<1>1. /\ Len(rs) \in Nat /\ n \in Nat /\ at \in 0..n /\ n < at + Period /\ at \in Nat
      /\ Period \in Nat /\ Delay \in Nat /\ Period > 0
  BY RowTicks, ReadOfType, Lags
<1>2. old \in Int /\ last \in Int /\ old <= last /\ last <= n
  BY <1>1 DEF LastShown, Reading
<1>3. rs # <<>> => /\ last >= 0 /\ ReadOf(rs[Len(rs)].tick) <= last
                   /\ ShowsAt(h, rs[Len(rs)].state, last) /\ (now2 => rs[Len(rs)].state = st)
  <2>1. rs # <<>> => old >= 0 /\ ReadOf(rs[Len(rs)].tick) <= old /\ ShowsAt(h, rs[Len(rs)].state, old)
                     /\ (sh => rs[Len(rs)].state = st)
    BY DEF Reading, Shows
  <2>2. rs # <<>> => Len(rs) \in 1..Len(rs)
    BY <1>1 DEF Reading
  <2>3. rs # <<>> => ReadOf(rs[Len(rs)].tick) \in Nat
    BY <2>2, RowTicks
  <2>4. CASE now2 = sh
    BY <2>1, <2>4
  <2>5. CASE now2 = TRUE /\ ~sh /\ rs # <<>> /\ rs[Len(rs)].state = st
    <3>1. last = at /\ ShowsAt(h, st, at)
      BY <1>1, <2>5 DEF LastShown, Reading, Shows
    <3>2. last >= 0 /\ ReadOf(rs[Len(rs)].tick) <= last
      BY <1>1, <1>2, <2>1, <2>3, <2>5, <3>1
    <3> HIDE DEF last, old
    <3> QED BY <2>5, <3>1, <3>2
  <2> QED BY <2>4, <2>5
<1>4. rs # <<>> => n < last + Period + Delay
  BY <1>1 DEF LastShown
<1>5. ~now2 => n < at + Delay
  OBVIOUS
<1> HIDE DEF last, old
<1>6. Keeps(rs, h, q, last)
  <2> SUFFICES ASSUME NEW t \in 0..(q - 1), NEW k \in 1..Len(rs), LastRow(rs, k, t)
               PROVE  \E r \in 0..t :
                        /\ ReadOf(rs[k].tick) <= r /\ t < r + Period + Delay
                        /\ ShowsAt(h, rs[k].state, r)
                        /\ IF k < Len(rs) THEN r < ReadOf(rs[k + 1].tick) ELSE r <= last
    BY DEF Keeps
  <2>1. CASE t = n
    <3>1. k = Len(rs)
      <4>1. k < Len(rs) => k + 1 \in 1..Len(rs)
        BY <1>1
      <4>2. k < Len(rs) => rs[k + 1].tick <= n /\ rs[k + 1].tick \in Nat
        BY <4>1, RowTicks
      <4> QED BY <1>1, <2>1, <4>2 DEF LastRow
    <3>2. rs # <<>>
      BY <1>1, <3>1
    <3>3. last \in 0..t
      BY <1>1, <1>2, <1>3, <2>1, <3>2
    <3> QED BY <1>1, <1>3, <1>4, <2>1, <3>1, <3>2, <3>3
  <2>2. CASE t # n
    <3>1. t \in 0..(p - 1)
      BY <1>1, <2>2
    <3>2. PICK r \in 0..t :
            /\ ReadOf(rs[k].tick) <= r /\ t < r + Period + Delay /\ ShowsAt(h, rs[k].state, r)
            /\ IF k < Len(rs) THEN r < ReadOf(rs[k + 1].tick) ELSE r <= old
      BY <3>1 DEF Reading, Keeps, old
    <3>3. k < Len(rs) \/ r <= last
      BY <1>2, <3>2
    <3> QED BY <3>2, <3>3
  <2> QED BY <2>1, <2>2
<1>7. Shows(rs, h, n, q, st, at, now2)
  <2>1. at \in Int /\ at <= n /\ (at >= 0 => ShowsAt(h, st, at)) /\ (~now2 => q <= at + Delay)
    BY <1>1, <1>5 DEF Reading, Shows
  <2>2. rs = <<>> => at = (IF now2 THEN -1 ELSE 0) /\ (now2 => q = 0) /\ q <= Delay
    <3>1. rs = <<>> => at = (IF sh THEN -1 ELSE 0) /\ now2 = sh
      BY DEF Reading, Shows
    <3>2. rs = <<>> => ~sh /\ at = 0 /\ ~now2
      BY <1>1, <3>1
    <3> QED BY <1>1, <1>5, <3>2
  <2> QED BY <1>3, <2>1, <2>2 DEF Shows, last
<1>8. \A k \in 1..Len(rs) : rs[k].tick \in 0..(q - 1)
  BY <1>1, RowTicks
<1>9. q \in n..(n + 1)
  BY <1>1
<1> QED BY <1>6, <1>7, <1>8, <1>9 DEF Reading, last

\* A tick whose packet adds a row.
LEMMA TickRow ==
  ASSUME NEW rs, NEW h, NEW n, NEW p, NEW st, NEW at, NEW sh, Reading(rs, h, n, p, st, at, sh),
         p = n, at = ReadOf(n), ~sh, NEW sw, sw \in BOOLEAN, sw, NEW q \in Nat, q = n + 1,
         NEW rt, rt \in Seq(Sample), Len(rt) = Len(rs) + 1,
         rt[Len(rs) + 1].tick = n, rt[Len(rs) + 1].state = st,
         \A k \in 1..Len(rs) : rt[k] = rs[k]
  PROVE  Reading(rt, h, n, q, st, at, sw)
<1> DEFINE old == at - Period
           m == Len(rs)
<1>1. /\ m \in Nat /\ n \in Nat /\ at \in 0..n /\ n < at + Period /\ at \in Nat
      /\ Period \in Nat /\ Delay \in Nat /\ Period > 0
  BY RowTicks, ReadOfType, Lags
<1>2. /\ LastShown(at, sh) = old /\ LastShown(at, sw) = at
  BY DEF LastShown
<1>3. \A k \in 1..m : /\ rt[k] = rs[k] /\ rs[k].tick \in Nat /\ rs[k].tick < n
                      /\ ReadOf(rs[k].tick) \in Nat /\ ReadOf(rs[k].tick) <= old
  <2> SUFFICES ASSUME NEW k \in 1..m
               PROVE  /\ rs[k].tick \in Nat /\ rs[k].tick < n
                      /\ ReadOf(rs[k].tick) \in Nat /\ ReadOf(rs[k].tick) <= old
    OBVIOUS
  <2>1. rs # <<>> /\ m \in 1..m
    BY <1>1
  <2>2. ReadOf(rs[m].tick) <= old
    BY <1>2, <2>1 DEF Reading, Shows
  <2>3. rs[k].tick \in Nat /\ rs[k].tick < n /\ ReadOf(rs[k].tick) \in Nat /\ ReadOf(rs[m].tick) \in Nat
    BY <2>1, RowTicks
  <2>4. k < m => ReadOf(rs[k].tick) < ReadOf(rs[m].tick)
    BY <2>1 DEF Reading, RowsShow
  <2>5. k = m \/ k < m
    BY <1>1
  <2> DEFINE x == ReadOf(rs[k].tick)
             y == ReadOf(rs[m].tick)
  <2>6. old \in Int
    BY <1>1
  <2> HIDE DEF old, x, y
  <2>7. x <= old
    <3>1. y <= old /\ x \in Nat /\ y \in Nat /\ (k < m => x < y) /\ (k = m => x = y)
      BY <2>2, <2>3, <2>4 DEF x, y
    <3> QED BY <2>5, <2>6, <3>1
  <2> QED BY <2>3, <2>7 DEF x
<1>4. ShowsAt(h, st, at) /\ n <= at + Delay /\ old < at
  BY <1>1 DEF Reading, Shows
<1>5. \A k \in 1..Len(rt) : k \in 1..m \/ k = m + 1
  BY <1>1
<1>6. rt # <<>> /\ Len(rt) = m + 1 /\ rt[m + 1].tick = n /\ rt[m + 1].state = st
  BY <1>1
<1> HIDE DEF m, old
<1>7. RowsShow(rt, h)
  <2> SUFFICES ASSUME NEW k \in 1..Len(rt)
               PROVE  /\ rt[k].tick <= ReadOf(rt[k].tick) + Delay
                      /\ ShowsAt(h, rt[k].state, ReadOf(rt[k].tick))
                      /\ \A l \in 1..Len(rt) : k < l => ReadOf(rt[k].tick) < ReadOf(rt[l].tick)
    BY DEF RowsShow
  <2>1. CASE k = m + 1
    <3>1. ReadOf(rt[k].tick) = at
      BY <1>6, <2>1
    <3>2. ~(\E l \in 1..Len(rt) : k < l)
      BY <1>1, <1>6, <2>1
    <3> QED BY <1>4, <1>6, <2>1, <3>1, <3>2
  <2>2. CASE k \in 1..m
    <3>1. rs[k].tick <= ReadOf(rs[k].tick) + Delay /\ ShowsAt(h, rs[k].state, ReadOf(rs[k].tick))
      BY <2>2 DEF Reading, RowsShow, m
    <3>2. ASSUME NEW l \in 1..Len(rt), k < l
          PROVE  ReadOf(rs[k].tick) < ReadOf(rt[l].tick)
      <4>1. CASE l \in 1..m
        <5>1. rt[l] = rs[l]
          BY <1>3, <4>1
        <5> QED BY <2>2, <3>2, <4>1, <5>1 DEF Reading, RowsShow, m
      <4>2. CASE l = m + 1
        <5>1. ReadOf(rt[l].tick) = at
          BY <1>6, <4>2
        <5>2. ReadOf(rs[k].tick) <= old /\ ReadOf(rs[k].tick) \in Nat
          BY <1>3, <2>2
        <5> QED BY <1>1, <1>4, <5>1, <5>2 DEF old
      <4> QED BY <1>5, <4>1, <4>2
    <3>3. rt[k] = rs[k]
      BY <1>3, <2>2
    <3> QED BY <3>1, <3>2, <3>3
  <2> QED BY <1>5, <2>1, <2>2
<1>8. Keeps(rt, h, q, at)
  <2> SUFFICES ASSUME NEW t \in 0..(q - 1), NEW k \in 1..Len(rt), LastRow(rt, k, t)
               PROVE  \E r \in 0..t :
                        /\ ReadOf(rt[k].tick) <= r /\ t < r + Period + Delay
                        /\ ShowsAt(h, rt[k].state, r)
                        /\ IF k < Len(rt) THEN r < ReadOf(rt[k + 1].tick) ELSE r <= at
    BY DEF Keeps
  <2>0. t \in Nat /\ t <= n /\ k \in Nat
    BY <1>1, <1>6
  <2>1. CASE t = n
    <3>1. k = m + 1
      <4>1. k \in 1..m => rt[k + 1].tick <= n /\ rt[k + 1].tick \in Nat /\ k < Len(rt)
        <5> SUFFICES ASSUME k \in 1..m
                     PROVE  rt[k + 1].tick <= n /\ rt[k + 1].tick \in Nat /\ k < Len(rt)
          OBVIOUS
        <5>1. (k + 1 \in 1..m \/ k + 1 = m + 1) /\ k < Len(rt)
          BY <1>1, <1>6
        <5>2. CASE k + 1 \in 1..m
          <6>1. rt[k + 1] = rs[k + 1] /\ rs[k + 1].tick \in Nat /\ rs[k + 1].tick < n
            BY <1>3, <5>2
          <6> QED BY <1>1, <5>1, <6>1
        <5>3. CASE k + 1 = m + 1
          <6>1. rt[k + 1].tick = n
            BY <1>6, <5>3
          <6> QED BY <1>1, <5>1, <6>1
        <5> QED BY <5>1, <5>2, <5>3
      <4> QED BY <1>1, <1>5, <2>1, <4>1 DEF LastRow
    <3>2. ReadOf(rt[k].tick) = at /\ ~(k < Len(rt)) /\ rt[k].state = st
      BY <1>1, <1>6, <3>1
    <3>3. at \in 0..t /\ t < at + Period + Delay
      BY <1>1, <2>1
    <3> QED BY <1>1, <1>4, <3>2, <3>3
  <2>2. CASE t # n
    <3>1. t \in 0..(p - 1) /\ t < n
      BY <1>1, <2>0, <2>2
    <3>2. k \in 1..m
      <4>1. k # m + 1
        BY <1>1, <1>6, <2>0, <3>1 DEF LastRow
      <4> QED BY <1>5, <4>1
    <3>3. rt[k] = rs[k] /\ (k < m => rt[k + 1] = rs[k + 1] /\ k < Len(rt))
      <4>1. k < m => k + 1 \in 1..m
        BY <1>1, <3>2
      <4> QED BY <1>1, <1>3, <1>6, <3>2, <4>1
    <3>4. LastRow(rs, k, t)
      BY <3>3 DEF LastRow, m
    <3>5. PICK r \in 0..t :
            /\ ReadOf(rs[k].tick) <= r /\ t < r + Period + Delay /\ ShowsAt(h, rs[k].state, r)
            /\ IF k < Len(rs) THEN r < ReadOf(rs[k + 1].tick) ELSE r <= old
      BY <1>2, <3>1, <3>2, <3>4 DEF Reading, Keeps, m
    <3>6. k < Len(rt) /\ r < ReadOf(rt[k + 1].tick)
      <4>1. CASE k < m
        BY <3>3, <3>5, <4>1 DEF m
      <4>2. CASE ~(k < m)
        <5>1. k = m /\ r <= old /\ ReadOf(rt[k + 1].tick) = at
          BY <1>1, <1>6, <3>2, <3>5, <4>2 DEF m
        <5> QED BY <1>1, <1>4, <1>6, <5>1 DEF old
      <4> QED BY <4>1, <4>2
    <3> QED BY <3>3, <3>5, <3>6
  <2> QED BY <2>1, <2>2
<1>9. Shows(rt, h, n, q, st, at, sw)
  <2>1. rt[Len(rt)].state = st /\ ReadOf(rt[Len(rt)].tick) = at /\ ShowsAt(h, rt[Len(rt)].state, at)
    BY <1>4, <1>6
  <2>2. at \in Int /\ at <= n /\ at >= 0
    BY <1>1
  <2>3. /\ at \in Int /\ at <= n /\ (at >= 0 => ShowsAt(h, st, at))
        /\ (~sw => q <= at + Delay)
    BY <1>4, <2>2
  <2>4. /\ LastShown(at, sw) >= 0 /\ ReadOf(rt[Len(rt)].tick) <= LastShown(at, sw)
        /\ ShowsAt(h, rt[Len(rt)].state, LastShown(at, sw)) /\ rt[Len(rt)].state = st
    <3>1. LastShown(at, sw) = at
      BY <1>2
    <3>2. LastShown(at, sw) >= 0 /\ ReadOf(rt[Len(rt)].tick) <= LastShown(at, sw)
      <4> DEFINE x == ReadOf(rt[Len(rt)].tick)
                 y == LastShown(at, sw)
      <4>1. x = at /\ y = at /\ at \in Int /\ at >= 0
        BY <2>1, <2>2, <3>1
      <4> HIDE DEF x, y
      <4>2. y >= 0 /\ x <= y
        BY <4>1
      <4> QED BY <4>2 DEF x, y
    <3>3. ShowsAt(h, rt[Len(rt)].state, LastShown(at, sw))
      BY <2>1, <3>1, Zenon
    <3> QED BY <2>1, <3>2, <3>3
  <2> QED BY <1>6, <2>3, <2>4 DEF Shows
<1>10. \A k \in 1..Len(rt) : rt[k].tick \in 0..(q - 1)
  <2> SUFFICES ASSUME NEW k \in 1..Len(rt) PROVE rt[k].tick \in Nat /\ rt[k].tick <= n
    BY <1>1
  <2>1. CASE k = m + 1
    BY <1>1, <1>6, <2>1
  <2>2. CASE k \in 1..m
    <3>1. rt[k] = rs[k] /\ rs[k].tick \in Nat /\ rs[k].tick < n
      BY <1>3, <2>2
    <3> QED BY <1>1, <3>1
  <2> QED BY <1>5, <2>1, <2>2
<1>11. \A k, l \in 1..Len(rt) : k < l => rt[k].tick < rt[l].tick
  <2> SUFFICES ASSUME NEW k \in 1..Len(rt), NEW l \in 1..Len(rt), k < l
               PROVE  rt[k].tick < rt[l].tick
    OBVIOUS
  <2>1. k \in 1..m /\ rt[k] = rs[k] /\ rs[k].tick < n
    BY <1>1, <1>3, <1>5, <1>6
  <2>2. CASE l = m + 1
    BY <1>6, <2>1, <2>2
  <2>3. CASE l \in 1..m
    <3>1. rt[l] = rs[l]
      BY <1>3, <2>3
    <3>2. rs[k].tick < rs[l].tick
      BY <2>1, <2>3 DEF Reading, m
    <3> QED BY <2>1, <3>1, <3>2
  <2> QED BY <1>5, <2>2, <2>3
<1>12. q \in n..(n + 1)
  BY <1>1
<1>13. rt \in Seq(Sample) /\ sw \in BOOLEAN
  OBVIOUS
<1>14. Keeps(rt, h, q, LastShown(at, sw))
  BY <1>2, <1>8
<1> QED BY <1>1, <1>7, <1>9, <1>10, <1>11, <1>12, <1>13, <1>14 DEF Reading

-----------------------------------------------------------------------------
(* A slot over the whole recording                                         *)

Told(h, died, lates, begun) == \E sc : History(h, MaxTick, sc, died, lates, begun)

\* A round start that brings its player in.
Spawn(h, begun, b) == b \in begun /\ ~Living(h[b - 1]) /\ Living(h[b])

LEMMA ToldTypes ==
  ASSUME NEW h, NEW died, NEW lates, NEW begun, Told(h, died, lates, begun)
  PROVE  /\ MaxTick \in Nat /\ died \subseteq 1..MaxTick /\ lates \subseteq 1..MaxTick
         /\ begun \subseteq 1..MaxTick /\ \A t \in 0..MaxTick : h[t] \in State /\ Living(h[t]) \in BOOLEAN
<1>1. /\ MaxTick \in Nat /\ died \subseteq 1..MaxTick /\ lates \subseteq 1..MaxTick
      /\ begun \subseteq 1..MaxTick /\ h \in [0..MaxTick -> State]
  BY Lags DEF Told, History
<1>2. \A t \in 0..MaxTick : h[t] \in State
  BY <1>1
<1>3. \A t \in 0..MaxTick : Living(h[t]) \in BOOLEAN
  BY DEF Living
<1> QED BY <1>1, <1>2, <1>3

\* What one tick can do.
LEMMA StepIs ==
  ASSUME NEW h, NEW died, NEW lates, NEW begun, Told(h, died, lates, begun), NEW t \in 1..MaxTick
  PROVE  /\ t \notin died /\ t \notin lates /\ Living(h[t - 1]) => h[t] = h[t - 1]
         /\ t \notin died /\ t \notin lates /\ ~Living(h[t - 1]) =>
              h[t] = h[t - 1] \/ Spawn(h, begun, t)
         /\ t \notin lates => h[t].team = h[t - 1].team
         /\ t \in died => Living(h[t - 1]) /\ ~Living(h[t]) /\ h[t].team = h[t - 1].team
         /\ ~Living(h[t - 1]) /\ Living(h[t]) => t \in lates \/ t \in begun
<1>1. h[t - 1] \in State /\ h[t] \in State
  BY ToldTypes
<1>2. IF t \in died
        THEN Living(h[t - 1]) /\ h[t] = [h[t - 1] EXCEPT !.alive = FALSE, !.deaths = @ + 1]
        ELSE \/ h[t] = h[t - 1] \/ t \in lates
             \/ /\ t \in begun /\ h[t - 1].connected /\ ~h[t - 1].alive
                /\ h[t] = [h[t - 1] EXCEPT !.alive = TRUE]
  BY DEF Told, History, Steps
<1>3. CASE t \in died
  <2>1. ~Living(h[t]) /\ h[t].team = h[t - 1].team
    BY <1>1, <1>2, <1>3 DEF State, Living
  <2> QED BY <1>2, <1>3, <2>1
<1>4. CASE t \notin died /\ t \in begun /\ h[t - 1].connected /\ ~h[t - 1].alive
           /\ h[t] = [h[t - 1] EXCEPT !.alive = TRUE]
  <2>1. ~Living(h[t - 1]) /\ Living(h[t]) /\ h[t].team = h[t - 1].team
    BY <1>1, <1>4 DEF State, Living
  <2> QED BY <1>4, <2>1 DEF Spawn
<1>5. CASE t \notin died /\ (h[t] = h[t - 1] \/ t \in lates)
  BY <1>5
<1> QED BY <1>2, <1>3, <1>4, <1>5

\* Without deaths and late changes the living stay as they are, and the others
\* until a round start.
LEMMA Holds ==
  ASSUME NEW h, NEW died, NEW lates, NEW begun, Told(h, died, lates, begun),
         NEW x \in Nat, NEW t \in Nat, x <= t, t <= MaxTick,
         \A y \in died \cup lates : y <= x \/ y > t
  PROVE  h[t] = h[x]
         \/ (~Living(h[x]) /\ \E b \in Nat : x < b /\ b <= t /\ Spawn(h, begun, b))
<1> DEFINE other == {y \in x..t : h[y] # h[x]}
<1> SUFFICES ASSUME other # {}
             PROVE  ~Living(h[x]) /\ \E b \in Nat : x < b /\ b <= t /\ Spawn(h, begun, b)
  OBVIOUS
<1>1. PICK y \in other : \A z \in other : y <= z
  <2>1. other \subseteq Nat
    OBVIOUS
  <2> HIDE DEF other
  <2> QED BY <2>1, LeastNat
<1>2. y \in x..t /\ h[y] # h[x] /\ y # x
  BY <1>1
<1>3. y - 1 \in x..t /\ ~(y <= y - 1) /\ y \in 1..MaxTick /\ y \in Nat /\ x < y /\ y <= t
  BY <1>2, ToldTypes
<1>4. h[y - 1] = h[x]
  BY <1>1, <1>3
<1>5. y \notin died /\ y \notin lates
  BY <1>3
<1> HIDE DEF other
<1>6. ~Living(h[x]) /\ Spawn(h, begun, y)
  BY <1>2, <1>3, <1>4, <1>5, StepIs
<1> QED BY <1>3, <1>6

LEMMA TeamHolds ==
  ASSUME NEW h, NEW died, NEW lates, NEW begun, Told(h, died, lates, begun),
         NEW x \in Nat, NEW t \in Nat, x <= t, t <= MaxTick, h[t].team # h[x].team
  PROVE  \E y \in lates : x < y /\ y <= t
<1> DEFINE other == {y \in x..t : h[y].team # h[x].team}
<1>1. PICK y \in other : \A z \in other : y <= z
  <2>1. other \subseteq Nat /\ other # {}
    OBVIOUS
  <2> HIDE DEF other
  <2> QED BY <2>1, LeastNat
<1>2. y \in x..t /\ h[y].team # h[x].team /\ y # x
  BY <1>1
<1>3. y - 1 \in x..t /\ ~(y <= y - 1) /\ y \in 1..MaxTick /\ x < y /\ y <= t
  BY <1>2, ToldTypes
<1>4. h[y - 1].team = h[x].team
  BY <1>1, <1>3
<1> HIDE DEF other
<1>5. y \in lates
  BY <1>2, <1>3, <1>4, StepIs
<1> QED BY <1>3, <1>5

\* Who is alive after not having been spawned in between.
LEMMA SpawnBetween ==
  ASSUME NEW h, NEW died, NEW lates, NEW begun, Told(h, died, lates, begun),
         NEW x \in Nat, NEW t \in Nat, x <= t, t <= MaxTick, ~Living(h[x]), Living(h[t])
  PROVE  \E y \in Nat : /\ x < y /\ y <= t /\ ~Living(h[y - 1]) /\ Living(h[y])
                        /\ y \in lates \/ y \in begun
<1> DEFINE other == {y \in x..t : Living(h[y])}
<1>1. PICK y \in other : \A z \in other : y <= z
  <2>1. other \subseteq Nat /\ other # {}
    OBVIOUS
  <2> HIDE DEF other
  <2> QED BY <2>1, LeastNat
<1>2. y \in x..t /\ Living(h[y]) /\ y # x
  BY <1>1
<1>3. y - 1 \in x..t /\ ~(y <= y - 1) /\ y \in 1..MaxTick /\ x < y /\ y <= t /\ y \in Nat
  BY <1>2, ToldTypes
<1>4. ~Living(h[y - 1])
  BY <1>1, <1>3
<1> HIDE DEF other
<1>5. y \in lates \/ y \in begun
  BY <1>2, <1>3, <1>4, StepIs
<1> QED BY <1>2, <1>3, <1>4, <1>5

\* A life a round start began lasts until the resource has shown it.
LEMMA LifeShown ==
  ASSUME NEW h, NEW died, NEW lates, NEW begun, Told(h, died, lates, begun),
         NEW b \in Nat, Spawn(h, begun, b), NEW t \in Nat, b <= t, t <= MaxTick,
         t <= b + Period + Delay
  PROVE  h[t] = h[b] /\ Living(h[t])
<1> DEFINE other == {y \in b..t : h[y] # h[b]}
<1>0. Living(h[b]) /\ ~Living(h[b - 1]) /\ b >= 1 /\ b - 1 \in Nat
  BY ToldTypes DEF Spawn
<1> SUFFICES ASSUME other # {} PROVE FALSE
  BY <1>0
<1>1. PICK y \in other : \A z \in other : y <= z
  <2>1. other \subseteq Nat
    OBVIOUS
  <2> HIDE DEF other
  <2> QED BY <2>1, LeastNat
<1>2. y \in b..t /\ h[y] # h[b] /\ y # b
  BY <1>1
<1>3. y - 1 \in b..t /\ ~(y <= y - 1) /\ y \in 1..MaxTick
  BY <1>0, <1>2, ToldTypes
<1>4. h[y - 1] = h[b]
  BY <1>1, <1>3
<1> HIDE DEF other
<1>5. y \in died \/ y \in lates
  BY <1>0, <1>2, <1>3, <1>4, StepIs
<1>6. b - 1 \in 0..(y - 1) /\ b - 1 >= y - 1 - Period - Delay
  BY <1>0, <1>2, Lags
<1>7. h[b - 1] = h[y - 1]
  BY <1>0, <1>3, <1>4, <1>5, <1>6 DEF Told, History, Lives
<1> QED BY <1>0, <1>4, <1>7

\* Before a death the player was as the resource has shown them.
LEMMA DeathSeen ==
  ASSUME NEW h, NEW died, NEW lates, NEW begun, Told(h, died, lates, begun), NEW t \in died
  PROVE  /\ t \in Nat /\ t >= 1 /\ t <= MaxTick /\ t - 1 \in Nat
         /\ Living(h[t - 1]) /\ ~Living(h[t]) /\ h[t].team = h[t - 1].team
         /\ \A u \in Nat : u < t /\ t - 1 - Period - Delay <= u => h[u] = h[t - 1]
         /\ \A u \in Nat : t <= u /\ u <= MaxTick /\ u <= t + ResourceLag =>
              h[u].deaths > h[t - 1].deaths
<1>1. t \in 1..MaxTick
  BY ToldTypes
<1>2. Living(h[t - 1]) /\ ~Living(h[t]) /\ h[t].team = h[t - 1].team
  BY <1>1, StepIs
<1>3. ASSUME NEW u \in Nat, u < t, t - 1 - Period - Delay <= u
      PROVE  h[u] = h[t - 1]
  <2>1. u \in 0..(t - 1)
    BY <1>1, <1>3, ToldTypes
  <2> QED BY <1>1, <1>2, <1>3, <2>1 DEF Told, History, Lives
<1>4. ASSUME NEW u \in Nat, t <= u, u <= MaxTick, u <= t + ResourceLag
      PROVE  h[u].deaths > h[t - 1].deaths
  <2>1. u \in t..MaxTick
    BY <1>1, <1>4, ToldTypes
  <2> QED BY <1>4, <2>1 DEF Told, History, CountsRise
<1>5. t \in Nat /\ t >= 1 /\ t <= MaxTick /\ t - 1 \in Nat
  BY <1>1, ToldTypes
<1> QED BY <1>2, <1>3, <1>4, <1>5

\* Before the first tick there is nothing to show.
LEMMA FirstReading ==
  ASSUME NEW h, NEW st, NEW sw, sw \in BOOLEAN, sw, NEW at, at = -1, NEW rs, rs = <<>>
  PROVE  Reading(rs, h, 0, 0, st, at, sw)
<1>1. rs \in Seq(Sample) /\ Len(rs) = 0 /\ 1..Len(rs) = {}
  OBVIOUS
<1>2. RowsShow(rs, h) /\ Keeps(rs, h, 0, LastShown(at, sw))
  BY <1>1 DEF RowsShow, Keeps
<1>3. Shows(rs, h, 0, 0, st, at, sw)
  BY Lags DEF Shows
<1>4. 0 \in Nat /\ 0 \in 0..(0 + 1)
  OBVIOUS
<1>5. /\ \A k \in 1..Len(rs) : rs[k].tick \in 0..(0 - 1)
      /\ \A k, m \in 1..Len(rs) : k < m => rs[k].tick < rs[m].tick
  BY <1>1
<1> QED BY <1>1, <1>2, <1>3, <1>4, <1>5 DEF Reading

-----------------------------------------------------------------------------
(* slot_changes over the whole recording                                   *)

\* rs are the slot's rows, ds the deaths; the first j rows and the first e
\* deaths were taken, l is latest, c deathCount, ld lastDeath, cs the changes.

\* A refresh and its delay.
Trail == Period + Delay

TicksOf(ds) == {ds[k] : k \in 1..Len(ds)}

Recording(rs, ds, h, lates, begun) ==
  /\ Told(h, TicksOf(ds), lates, begun)
  /\ \E st, at, sh : Reading(rs, h, MaxTick, MaxTick + 1, st, at, sh)
  /\ rs # <<>> /\ Len(ds) \in Nat
  /\ \A k, m \in 1..Len(ds) : k < m => ds[k] < ds[m]
  /\ \A x \in TicksOf(ds) \cup begun : rs[1].tick < x

\* The tick from whose end row k has the slot's state.
W(rs, h, k) ==
  LET r == ReadOf(rs[k].tick) IN IF r > 0 /\ h[r - 1] = rs[k].state THEN r - 1 ELSE r

LEMMA Trails == Trail \in Nat /\ Trail >= 1 /\ Trail >= Delay + 1 /\ Trail <= ResourceLag /\ ResourceLag \in Nat
<1> QED BY Lags DEF Trail

LEMMA RowRead ==
  ASSUME NEW rs, NEW ds, NEW h, NEW lates, NEW begun, Recording(rs, ds, h, lates, begun)
  PROVE  /\ Len(rs) \in Nat /\ Len(rs) >= 1 /\ MaxTick \in Nat
         /\ \A k \in 1..Len(rs) :
              /\ rs[k].tick \in Nat /\ rs[k].tick <= MaxTick
              /\ rs[k].state \in State
              /\ W(rs, h, k) \in Nat /\ W(rs, h, k) <= rs[k].tick
              /\ rs[k].tick <= W(rs, h, k) + Trail /\ h[W(rs, h, k)] = rs[k].state
              /\ W(rs, h, k) <= ReadOf(rs[k].tick) /\ ReadOf(rs[k].tick) <= W(rs, h, k) + 1
              /\ ReadOf(rs[k].tick) \in Nat
         /\ \A k, m \in 1..Len(rs) : k < m => rs[k].tick < rs[m].tick /\ W(rs, h, k) <= W(rs, h, m)
                                              /\ ReadOf(rs[k].tick) < ReadOf(rs[m].tick)
<1>1. PICK st, at, sh : Reading(rs, h, MaxTick, MaxTick + 1, st, at, sh)
  BY DEF Recording
<1>2. /\ Len(rs) \in Nat /\ MaxTick \in Nat
      /\ \A k \in 1..Len(rs) : /\ rs[k].tick \in Nat /\ rs[k].tick <= MaxTick
                               /\ ReadOf(rs[k].tick) \in Nat
                               /\ rs[k].tick < ReadOf(rs[k].tick) + Period
                               /\ ReadOf(rs[k].tick) <= rs[k].tick
  BY <1>1, RowTicks
<1>3. rs \in Seq(Sample) /\ Len(rs) >= 1
  <2>1. rs \in Seq(Sample) /\ rs # <<>>
    BY <1>1 DEF Reading, Recording
  <2> QED BY <2>1
<1>4. ASSUME NEW k \in 1..Len(rs)
      PROVE  /\ rs[k].state \in State
             /\ W(rs, h, k) \in Nat /\ W(rs, h, k) <= rs[k].tick
             /\ rs[k].tick <= W(rs, h, k) + Trail /\ h[W(rs, h, k)] = rs[k].state
             /\ W(rs, h, k) <= ReadOf(rs[k].tick) /\ ReadOf(rs[k].tick) <= W(rs, h, k) + 1
  <2>1. rs[k].state \in State
    <3>1. rs[k] \in Sample
      BY <1>3
    <3> QED BY <3>1 DEF Sample
  <2> DEFINE r == ReadOf(rs[k].tick)
             x == rs[k].tick
  <2>2. r \in Nat /\ x \in Nat /\ r <= x /\ x <= r + Delay /\ ShowsAt(h, rs[k].state, r)
    BY <1>1, <1>2 DEF Reading, RowsShow
  <2>3. W(rs, h, k) = IF r > 0 /\ h[r - 1] = rs[k].state THEN r - 1 ELSE r
    BY DEF W
  <2>4. h[W(rs, h, k)] = rs[k].state
    BY <2>2, <2>3 DEF ShowsAt
  <2> HIDE DEF r, x
  <2>5. W(rs, h, k) = r \/ (r > 0 /\ W(rs, h, k) = r - 1)
    BY <2>3
  <2>6. W(rs, h, k) \in Nat /\ W(rs, h, k) <= x /\ x <= W(rs, h, k) + Trail
        /\ W(rs, h, k) <= r /\ r <= W(rs, h, k) + 1
    BY <2>2, <2>5, Trails, Lags
  <2> QED BY <2>1, <2>4, <2>6 DEF r, x
<1>5. ASSUME NEW k \in 1..Len(rs), NEW m \in 1..Len(rs), k < m
      PROVE  /\ rs[k].tick < rs[m].tick /\ W(rs, h, k) <= W(rs, h, m)
             /\ ReadOf(rs[k].tick) < ReadOf(rs[m].tick)
  <2>1. rs[k].tick < rs[m].tick /\ ReadOf(rs[k].tick) < ReadOf(rs[m].tick)
    BY <1>1, <1>5 DEF Reading, RowsShow
  <2>2. W(rs, h, k) <= ReadOf(rs[k].tick) /\ ReadOf(rs[m].tick) <= W(rs, h, m) + 1
        /\ W(rs, h, k) \in Nat /\ W(rs, h, m) \in Nat
    BY <1>4
  <2>3. ReadOf(rs[k].tick) \in Nat /\ ReadOf(rs[m].tick) \in Nat
    BY <1>2
  <2> QED BY <2>1, <2>2, <2>3
<1> QED BY <1>2, <1>3, <1>4, <1>5

\* While a row is the slot's last, the slot was lately as it shows.
LEMMA RowKept ==
  ASSUME NEW rs, NEW ds, NEW h, NEW lates, NEW begun, Recording(rs, ds, h, lates, begun),
         NEW k \in 1..Len(rs), NEW t \in Nat, t <= MaxTick, rs[k].tick <= t,
         k < Len(rs) => t < rs[k + 1].tick
  PROVE  \E u \in Nat : /\ u <= t /\ t <= u + Trail /\ W(rs, h, k) <= u /\ h[u] = rs[k].state
                        /\ k < Len(rs) => u <= W(rs, h, k + 1)
<1>1. PICK st, at, sh : Reading(rs, h, MaxTick, MaxTick + 1, st, at, sh)
  BY DEF Recording
<1> DEFINE q == MaxTick + 1
<1>2. LastRow(rs, k, t) /\ t \in 0..(q - 1)
  <2>1. k < Len(rs) => rs[k + 1].tick \in Nat
    <3>1. k < Len(rs) => k + 1 \in 1..Len(rs)
      BY RowRead
    <3> QED BY <3>1, RowRead
  <2> QED BY <2>1, Lags DEF LastRow
<1>3. PICK r \in 0..t :
        /\ ReadOf(rs[k].tick) <= r /\ t < r + Period + Delay /\ ShowsAt(h, rs[k].state, r)
        /\ k < Len(rs) => r < ReadOf(rs[k + 1].tick)
  <2>1. Keeps(rs, h, q, LastShown(at, sh))
    BY <1>1 DEF Reading
  <2> HIDE DEF q
  <2>2. PICK r \in 0..t :
          /\ ReadOf(rs[k].tick) <= r /\ t < r + Period + Delay /\ ShowsAt(h, rs[k].state, r)
          /\ IF k < Len(rs) THEN r < ReadOf(rs[k + 1].tick) ELSE r <= LastShown(at, sh)
    BY <1>2, <2>1 DEF Keeps
  <2> QED BY <2>2
<1>4. k < Len(rs) => /\ ReadOf(rs[k + 1].tick) <= W(rs, h, k + 1) + 1
                     /\ ReadOf(rs[k + 1].tick) \in Nat /\ W(rs, h, k + 1) \in Nat
  <2>1. k < Len(rs) => k + 1 \in 1..Len(rs)
    BY RowRead
  <2> QED BY <2>1, RowRead
<1>5. /\ W(rs, h, k) \in Nat /\ W(rs, h, k) <= ReadOf(rs[k].tick) /\ ReadOf(rs[k].tick) \in Nat
      /\ ReadOf(rs[k].tick) <= W(rs, h, k) + 1
  BY RowRead
<1> DEFINE a == ReadOf(rs[k].tick)
           b == ReadOf(rs[k + 1].tick)
<1>6. CASE h[r] = rs[k].state
  <2> HIDE DEF a, b
  <2>1. r \in Nat /\ r <= t /\ t <= r + Trail /\ W(rs, h, k) <= r /\ (k < Len(rs) => r <= W(rs, h, k + 1))
    BY <1>3, <1>4, <1>5, Lags DEF Trail
  <2> QED BY <1>6, <2>1
<1>7. CASE h[r] # rs[k].state
  <2>1. r > 0 /\ h[r - 1] = rs[k].state
    BY <1>3, <1>7 DEF ShowsAt
  <2>2. r = a => W(rs, h, k) = r - 1
    BY <2>1 DEF W
  <2> HIDE DEF a, b
  <2>3. W(rs, h, k) <= r - 1
    <3>1. W(rs, h, k) <= a /\ a <= r
      BY <1>3, <1>5 DEF a
    <3> QED BY <1>3, <1>5, <2>2, <3>1 DEF a
  <2>4. r - 1 \in Nat /\ r - 1 <= t /\ t <= r - 1 + Trail /\ (k < Len(rs) => r - 1 <= W(rs, h, k + 1))
    BY <1>3, <1>4, <1>5, <2>1, Lags DEF Trail
  <2> QED BY <2>1, <2>3, <2>4
<1> QED BY <1>6, <1>7

LEMMA DeathTicks ==
  ASSUME NEW rs, NEW ds, NEW h, NEW lates, NEW begun, Recording(rs, ds, h, lates, begun)
  PROVE  /\ Told(h, TicksOf(ds), lates, begun) /\ Len(ds) \in Nat
         /\ \A k \in 1..Len(ds) : /\ ds[k] \in TicksOf(ds) /\ ds[k] \in Nat /\ ds[k] - 1 \in Nat
                                  /\ ds[k] >= 1 /\ ds[k] <= MaxTick /\ rs[1].tick < ds[k]
         /\ \A k, m \in 1..Len(ds) : k < m => ds[k] < ds[m]
<1>1. Told(h, TicksOf(ds), lates, begun) /\ Len(ds) \in Nat
      /\ \A k, m \in 1..Len(ds) : k < m => ds[k] < ds[m]
  BY DEF Recording
<1>2. ASSUME NEW k \in 1..Len(ds)
      PROVE  /\ ds[k] \in TicksOf(ds) /\ ds[k] \in Nat /\ ds[k] - 1 \in Nat
             /\ ds[k] >= 1 /\ ds[k] <= MaxTick /\ rs[1].tick < ds[k]
  <2>1. ds[k] \in TicksOf(ds)
    BY DEF TicksOf
  <2>2. ds[k] \in Nat /\ ds[k] - 1 \in Nat /\ ds[k] >= 1 /\ ds[k] <= MaxTick
    BY <1>1, <2>1, DeathSeen
  <2> QED BY <2>1, <2>2 DEF Recording
<1> QED BY <1>1, <1>2

\* A row read before a death is not the last for long after it.
LEMMA HiddenBrief ==
  ASSUME NEW rs, NEW ds, NEW h, NEW lates, NEW begun, Recording(rs, ds, h, lates, begun),
         NEW k \in 1..Len(rs), NEW x \in 1..Len(ds), W(rs, h, k) < ds[x],
         rs[k].state = h[ds[x] - 1], NEW t \in Nat, t <= MaxTick, LastRow(rs, k, t)
  PROVE  t < ds[x] + Trail
<1> DEFINE D == ds[x]
           z == D + Trail
<1> SUFFICES ASSUME z <= t PROVE FALSE
  <2>1. z \in Nat
    BY DeathTicks, Trails
  <2> HIDE DEF z
  <2>2. z <= t \/ t < z
    BY <2>1
  <2> QED BY <2>2 DEF z
<1>1. D \in Nat /\ D \in TicksOf(ds) /\ Told(h, TicksOf(ds), lates, begun)
  BY DeathTicks
<1>2. /\ W(rs, h, k) \in Nat /\ rs[k].tick \in Nat /\ rs[k].tick <= W(rs, h, k) + Trail
      /\ (k < Len(rs) => rs[k + 1].tick \in Nat) /\ MaxTick \in Nat
  <2>1. k < Len(rs) => k + 1 \in 1..Len(rs)
    BY RowRead
  <2> QED BY <2>1, RowRead
<1>3. W(rs, h, k) < D
  OBVIOUS
<1>4. z \in Nat /\ z <= MaxTick /\ rs[k].tick <= z /\ (k < Len(rs) => z < rs[k + 1].tick)
  <2>1. k < Len(rs) => t < rs[k + 1].tick
    BY <1>2 DEF LastRow
  <2>2. z \in Nat /\ z <= t
    BY <1>1, Trails
  <2>3. rs[k].tick <= z
    <3> HIDE DEF D
    <3> QED BY <1>1, <1>2, <1>3, Trails
  <2> HIDE DEF z
  <2> QED BY <1>2, <2>1, <2>2, <2>3
<1>5. PICK u \in Nat : u <= z /\ z <= u + Trail /\ h[u] = rs[k].state
  <2> HIDE DEF z
  <2> QED BY <1>4, RowKept
<1> HIDE DEF D
<1>6. D <= u /\ u <= MaxTick /\ u <= D + ResourceLag
  BY <1>1, <1>2, <1>4, <1>5, Trails
<1>7. h[u].deaths > h[D - 1].deaths /\ h[D - 1] \in State
  <2>1. D - 1 \in 0..MaxTick
    <3>1. D >= 1 /\ D <= MaxTick
      BY <1>1, DeathSeen
    <3> QED BY <1>1, <1>2, <3>1
  <2> QED BY <1>1, <1>6, <2>1, DeathSeen, ToldTypes
<1>8. h[u] = h[D - 1]
  BY <1>5 DEF D
<1> QED BY <1>7, <1>8 DEF State

\* The tick whose state latest stands for.
At(rs, ds, h, j, e) == IF e > 0 /\ W(rs, h, j) < ds[e] THEN ds[e] ELSE W(rs, h, j)

\* A row is taken after the deaths up to its tick.
Place(rs, ds, j, e) ==
  /\ j \in 1..Len(rs) /\ e \in 0..Len(ds)
  /\ e > 0 /\ j < Len(rs) => ds[e] <= rs[j + 1].tick
  /\ e < Len(ds) => rs[j].tick < ds[e + 1]

Stands(rs, ds, h, j, e, l) ==
  /\ l \in Change /\ l.alive = Living(h[At(rs, ds, h, j, e)]) /\ l.team = h[At(rs, ds, h, j, e)].team
  /\ l.tick <= rs[j].tick \/ (e > 0 /\ l.tick <= ds[e])
  /\ e > 0 /\ W(rs, h, j) < ds[e] => rs[j].state = h[ds[e] - 1]

Midway(rs, ds, h, lates, begun, j, e, l) ==
  Recording(rs, ds, h, lates, begun) /\ Place(rs, ds, j, e) /\ Stands(rs, ds, h, j, e, l)

LEMMA MidwayTypes ==
  ASSUME NEW rs, NEW ds, NEW h, NEW lates, NEW begun, NEW j, NEW e, NEW l,
         Midway(rs, ds, h, lates, begun, j, e, l)
  PROVE  /\ Recording(rs, ds, h, lates, begun) /\ j \in 1..Len(rs) /\ j \in Nat /\ j >= 1
         /\ Len(rs) \in Nat /\ e \in Nat /\ Len(ds) \in Nat
         /\ W(rs, h, j) \in Nat /\ rs[j].tick \in Nat /\ rs[j].tick <= W(rs, h, j) + Trail
         /\ W(rs, h, j) <= rs[j].tick /\ h[W(rs, h, j)] = rs[j].state
         /\ rs[j].tick <= MaxTick /\ MaxTick \in Nat
         /\ j < Len(rs) => /\ j + 1 \in 1..Len(rs) /\ rs[j + 1].tick \in Nat /\ W(rs, h, j + 1) \in Nat
                           /\ rs[j].tick < rs[j + 1].tick /\ W(rs, h, j) <= W(rs, h, j + 1)
                           /\ rs[j + 1].tick <= W(rs, h, j + 1) + Trail
                           /\ W(rs, h, j + 1) <= rs[j + 1].tick /\ rs[j + 1].tick <= MaxTick
                           /\ h[W(rs, h, j + 1)] = rs[j + 1].state
         /\ e > 0 => e \in 1..Len(ds) /\ ds[e] \in Nat /\ ds[e] >= 1 /\ ds[e] <= MaxTick
                     /\ ds[e] \in TicksOf(ds)
         /\ e < Len(ds) => e + 1 \in 1..Len(ds) /\ ds[e + 1] \in Nat /\ ds[e + 1] >= 1
                           /\ ds[e + 1] <= MaxTick /\ ds[e + 1] \in TicksOf(ds)
                           /\ (e > 0 => ds[e] < ds[e + 1])
         /\ At(rs, ds, h, j, e) \in Nat /\ At(rs, ds, h, j, e) <= MaxTick
         /\ W(rs, h, j) <= At(rs, ds, h, j, e) /\ (e > 0 => ds[e] <= At(rs, ds, h, j, e))
         /\ l.alive \in BOOLEAN /\ l.tick \in Nat
<1>1. Recording(rs, ds, h, lates, begun) /\ j \in 1..Len(rs) /\ e \in 0..Len(ds) /\ l \in Change
  BY DEF Midway, Place, Stands
<1>2. Len(rs) \in Nat /\ Len(ds) \in Nat
  BY <1>1, RowRead, DeathTicks
<1>3. j \in Nat /\ j >= 1 /\ e \in Nat
  BY <1>1, <1>2
<1>4. /\ W(rs, h, j) \in Nat /\ rs[j].tick \in Nat /\ rs[j].tick <= W(rs, h, j) + Trail
      /\ W(rs, h, j) <= rs[j].tick /\ h[W(rs, h, j)] = rs[j].state
      /\ rs[j].tick <= MaxTick /\ MaxTick \in Nat
  BY <1>1, RowRead
<1>5. j < Len(rs) => /\ j + 1 \in 1..Len(rs) /\ rs[j + 1].tick \in Nat /\ W(rs, h, j + 1) \in Nat
                     /\ rs[j].tick < rs[j + 1].tick /\ W(rs, h, j) <= W(rs, h, j + 1)
                     /\ rs[j + 1].tick <= W(rs, h, j + 1) + Trail
                     /\ W(rs, h, j + 1) <= rs[j + 1].tick /\ rs[j + 1].tick <= MaxTick
                     /\ h[W(rs, h, j + 1)] = rs[j + 1].state
  <2>1. j < Len(rs) => j + 1 \in 1..Len(rs) /\ j < j + 1
    BY <1>2, <1>3
  <2> QED BY <1>1, <2>1, RowRead
<1>6. e > 0 => e \in 1..Len(ds) /\ ds[e] \in Nat /\ ds[e] >= 1 /\ ds[e] <= MaxTick
               /\ ds[e] \in TicksOf(ds)
  <2>1. e > 0 => e \in 1..Len(ds)
    BY <1>1, <1>2, <1>3
  <2> QED BY <1>1, <2>1, DeathTicks
<1>7. e < Len(ds) => e + 1 \in 1..Len(ds) /\ ds[e + 1] \in Nat /\ ds[e + 1] >= 1
                     /\ ds[e + 1] <= MaxTick /\ ds[e + 1] \in TicksOf(ds)
                     /\ (e > 0 => ds[e] < ds[e + 1])
  <2>1. e < Len(ds) => e + 1 \in 1..Len(ds) /\ e < e + 1
    BY <1>1, <1>2, <1>3
  <2> QED BY <1>1, <1>6, <2>1, DeathTicks
<1>8. /\ At(rs, ds, h, j, e) \in Nat /\ At(rs, ds, h, j, e) <= MaxTick
      /\ W(rs, h, j) <= At(rs, ds, h, j, e) /\ (e > 0 => ds[e] <= At(rs, ds, h, j, e))
  BY <1>3, <1>4, <1>6 DEF At
<1>9. l.alive \in BOOLEAN /\ l.tick \in Nat
  BY <1>1 DEF Change
<1> QED BY <1>1, <1>2, <1>3, <1>4, <1>5, <1>6, <1>7, <1>8, <1>9

\* While a row is the last and a death the latest, latest stands for the slot's
\* state not long ago.
LEMMA Base ==
  ASSUME NEW rs, NEW ds, NEW h, NEW lates, NEW begun, NEW j, NEW e, NEW l,
         Midway(rs, ds, h, lates, begun, j, e, l),
         NEW t \in Nat, t <= MaxTick, LastRow(rs, j, t), e > 0 => ds[e] <= t
  PROVE  \E b \in Nat :
           /\ b <= t /\ t <= b + Trail /\ At(rs, ds, h, j, e) <= b
           /\ l.alive = Living(h[b]) /\ l.team = h[b].team
           /\ j < Len(rs) /\ (e > 0 => ds[e] <= W(rs, h, j + 1)) => b <= W(rs, h, j + 1)
<1> DEFINE X == At(rs, ds, h, j, e)
<1>1. /\ Recording(rs, ds, h, lates, begun) /\ j \in 1..Len(rs) /\ X \in Nat
      /\ W(rs, h, j) \in Nat /\ h[W(rs, h, j)] = rs[j].state
      /\ e \in Nat /\ (e > 0 => e \in 1..Len(ds) /\ ds[e] \in Nat)
  BY MidwayTypes
<1>2. l.alive = Living(h[X]) /\ l.team = h[X].team
  BY DEF Midway, Stands
<1>3. CASE e > 0 /\ W(rs, h, j) < ds[e]
  <2>1. X = ds[e]
    BY <1>3 DEF At
  <2>2. t < ds[e] + Trail
    <3>1. rs[j].state = h[ds[e] - 1]
      BY <1>3 DEF Midway, Stands
    <3> QED BY <1>1, <1>3, <3>1, HiddenBrief
  <2>3. X \in Nat /\ X <= t /\ t <= X + Trail /\ X <= X
        /\ (j < Len(rs) /\ (e > 0 => ds[e] <= W(rs, h, j + 1)) => X <= W(rs, h, j + 1))
    <3> HIDE DEF X
    <3> QED BY <1>1, <1>3, <2>1, <2>2, Trails
  <2> QED BY <1>2, <2>3
<1>4. CASE ~(e > 0 /\ W(rs, h, j) < ds[e])
  <2>1. X = W(rs, h, j)
    BY <1>4 DEF At
  <2>2. PICK u \in Nat : /\ u <= t /\ t <= u + Trail /\ W(rs, h, j) <= u /\ h[u] = rs[j].state
                         /\ j < Len(rs) => u <= W(rs, h, j + 1)
    <3>1. rs[j].tick <= t /\ (j < Len(rs) => t < rs[j + 1].tick)
      BY MidwayTypes DEF LastRow
    <3> QED BY <1>1, <3>1, RowKept
  <2>3. h[u] = h[X]
    BY <1>1, <2>1, <2>2
  <2> QED BY <1>2, <2>1, <2>2, <2>3
<1> QED BY <1>3, <1>4

\* The changes show a round start's spawn only once a row tells of it.
Pending(rs, ds, h, begun, j, e, l, t) ==
  /\ ~l.alive /\ l.tick <= t
  /\ \E b \in Nat : b <= t /\ Spawn(h, begun, b) /\ At(rs, ds, h, j, e) < b

\* Ticks to be right on.
Timely(rs, lates, t) ==
  /\ t \in Nat /\ rs[1].tick <= t /\ t + Trail <= MaxTick
  /\ \A x \in lates : x <= t => x + Trail < t

Matches(l, h, t) == l.alive = Living(h[t]) /\ (l.alive => l.team = h[t].team)

LEMMA Extends ==
  ASSUME NEW rs, NEW ds, NEW h, NEW lates, NEW begun, NEW j, NEW e, NEW l,
         Midway(rs, ds, h, lates, begun, j, e, l),
         NEW t, Timely(rs, lates, t), LastRow(rs, j, t),
         e > 0 => ds[e] <= t, e < Len(ds) => t < ds[e + 1]
  PROVE  Matches(l, h, t) \/ Pending(rs, ds, h, begun, j, e, l, t)
<1> DEFINE X == At(rs, ds, h, j, e)
           died == TicksOf(ds)
<1>1. /\ t \in Nat /\ t <= MaxTick /\ t + Trail <= MaxTick
      /\ \A x \in lates : x <= t => x + Trail < t
  BY MidwayTypes, Trails DEF Timely
<1>2. PICK b \in Nat : /\ b <= t /\ t <= b + Trail /\ X <= b
                       /\ l.alive = Living(h[b]) /\ l.team = h[b].team
  BY <1>1, Base
<1>3. /\ Told(h, died, lates, begun) /\ X \in Nat /\ (e > 0 => ds[e] <= X) /\ e \in 0..Len(ds)
      /\ Len(ds) \in Nat /\ e \in Nat /\ Recording(rs, ds, h, lates, begun)
      /\ (e > 0 => e \in 1..Len(ds)) /\ (e < Len(ds) => e + 1 \in 1..Len(ds))
  BY MidwayTypes, DeathTicks DEF Midway, Place
<1>4. \A y \in died \cup lates : y <= b \/ y > t
  <2>1. ASSUME NEW y \in lates
        PROVE  y <= b \/ y > t
    <3>1. y \in Nat
      BY <1>3, ToldTypes
    <3>2. y <= t => y + Trail < t
      BY <1>1
    <3> HIDE DEF X
    <3> QED BY <1>1, <1>2, <3>1, <3>2, Trails
  <2>2. ASSUME NEW k \in 1..Len(ds)
        PROVE  ds[k] <= b \/ ds[k] > t
    <3>1. ds[k] \in Nat
      BY <1>3, DeathTicks
    <3>2. CASE k <= e
      <4>1. e > 0 /\ (k = e \/ k < e) /\ e \in 1..Len(ds)
        BY <1>3, <3>2
      <4>2. ds[k] <= ds[e] /\ ds[e] \in Nat
        BY <1>3, <3>1, <4>1, DeathTicks
      <4> HIDE DEF X
      <4> QED BY <1>2, <1>3, <3>1, <4>1, <4>2
    <3>3. CASE ~(k <= e)
      <4>1. e < Len(ds) /\ (k = e + 1 \/ e + 1 < k) /\ e + 1 \in 1..Len(ds)
        BY <1>3, <3>3
      <4>2. ds[e + 1] <= ds[k] /\ ds[e + 1] \in Nat
        BY <1>3, <3>1, <4>1, DeathTicks
      <4> QED BY <1>1, <3>1, <4>1, <4>2
    <3> QED BY <3>2, <3>3
  <2> QED BY <2>1, <2>2 DEF TicksOf
<1>5. h[t] = h[b] \/ (~Living(h[b]) /\ \E y \in Nat : b < y /\ y <= t /\ Spawn(h, begun, y))
  <2> HIDE DEF died
  <2> QED BY <1>1, <1>2, <1>3, <1>4, Holds
<1>6. CASE h[t] = h[b]
  BY <1>2, <1>6 DEF Matches
<1>7. CASE ~Living(h[b]) /\ \E y \in Nat : b < y /\ y <= t /\ Spawn(h, begun, y)
  <2>1. PICK y \in Nat : b < y /\ y <= t /\ Spawn(h, begun, y)
    BY <1>7
  <2>2. X < y
    <3> HIDE DEF X
    <3> QED BY <1>2, <1>3, <2>1
  <2>3. l.tick <= t
    <3>1. l.tick <= rs[j].tick \/ (e > 0 /\ l.tick <= ds[e])
      BY DEF Midway, Stands
    <3>2. rs[j].tick <= t /\ rs[j].tick \in Nat /\ l.tick \in Nat /\ (e > 0 => ds[e] \in Nat)
      BY MidwayTypes DEF LastRow
    <3> QED BY <1>1, <3>1, <3>2
  <2>4. ~l.alive
    BY <1>2, <1>7
  <2> QED BY <2>1, <2>2, <2>3, <2>4 DEF Pending
<1> QED BY <1>5, <1>6, <1>7

\* A row tells of a spawn before the refresh and the delay after it are over.
LEMMA PendingBrief ==
  ASSUME NEW rs, NEW ds, NEW h, NEW lates, NEW begun, NEW j, NEW e, NEW l,
         Midway(rs, ds, h, lates, begun, j, e, l), ~l.alive,
         NEW b \in Nat, Spawn(h, begun, b), At(rs, ds, h, j, e) < b, b + Trail <= MaxTick
  PROVE  j < Len(rs) /\ rs[j + 1].tick <= b + Trail
<1> DEFINE X == At(rs, ds, h, j, e)
           z == b + Trail
<1>1. /\ Recording(rs, ds, h, lates, begun) /\ j \in 1..Len(rs) /\ X \in Nat
      /\ W(rs, h, j) \in Nat /\ h[W(rs, h, j)] = rs[j].state /\ W(rs, h, j) <= X
      /\ e \in Nat /\ (e > 0 => e \in 1..Len(ds) /\ ds[e] \in Nat /\ ds[e] <= X)
      /\ rs[j].tick \in Nat /\ rs[j].tick <= W(rs, h, j) + Trail
      /\ j \in Nat /\ Len(rs) \in Nat /\ (j < Len(rs) => rs[j + 1].tick \in Nat)
      /\ Told(h, TicksOf(ds), lates, begun)
  BY MidwayTypes DEF Recording
<1>2. z \in Nat /\ z <= MaxTick /\ rs[j].tick <= z
  <2> HIDE DEF X
  <2> QED BY <1>1, Trails DEF X
<1> SUFFICES ASSUME j < Len(rs) => z < rs[j + 1].tick PROVE FALSE
  <2> HIDE DEF z
  <2>1. CASE j < Len(rs) /\ ~(z < rs[j + 1].tick)
    BY <1>1, <1>2, <2>1 DEF z
  <2> QED BY <2>1
<1>3. PICK u \in Nat : u <= z /\ z <= u + Trail /\ h[u] = rs[j].state
  <2> HIDE DEF z
  <2> QED BY <1>1, <1>2, RowKept
<1>4. Living(h[u])
  <2>1. b <= u /\ u <= b + Period + Delay /\ u <= MaxTick
    <3>1. b + Trail = b + Period + Delay
      BY Lags DEF Trail
    <3>2. b <= u /\ u <= b + Trail /\ MaxTick \in Nat
      BY <1>3, Trails, Lags
    <3> QED BY <1>2, <1>3, <3>1, <3>2, Trails
  <2> QED BY <1>1, <2>1, LifeShown
<1>5. l.alive = Living(h[X])
  BY DEF Midway, Stands
<1>6. X # W(rs, h, j)
  BY <1>1, <1>3, <1>4, <1>5
<1>7. e > 0 /\ W(rs, h, j) < ds[e] /\ X = ds[e]
  BY <1>6 DEF At
<1>8. rs[j].state = h[ds[e] - 1]
  BY <1>7 DEF Midway, Stands
<1>9. LastRow(rs, j, z)
  <2> HIDE DEF z
  <2> QED BY <1>1, <1>2 DEF LastRow
<1>10. z < ds[e] + Trail
  <2> HIDE DEF z
  <2> QED BY <1>1, <1>2, <1>7, <1>8, <1>9, HiddenBrief
<1>11. ds[e] < b
  BY <1>7
<1> HIDE DEF X
<1> QED BY <1>1, <1>7, <1>10, <1>11, Trails

\* The last change by tick t is as the slot was.
Right(cs, h, t) ==
  \E k \in 1..Len(cs) : /\ cs[k].tick <= t /\ \A m \in 1..Len(cs) : m > k => cs[m].tick > t
                        /\ Matches(cs[k], h, t)

\* So they are on every tick before the rows and the deaths to come.
Caught(rs, ds, h, lates, begun, j, e, l, cs) ==
  /\ cs \in Seq(Change) /\ Len(cs) > 0 /\ cs[Len(cs)] = l
  /\ \A t : /\ Timely(rs, lates, t)
            /\ j < Len(rs) => t < rs[j + 1].tick
            /\ e < Len(ds) => t < ds[e + 1]
            => Right(cs, h, t) \/ Pending(rs, ds, h, begun, j, e, l, t)

LEMMA LastRight ==
  ASSUME NEW cs \in Seq(Change), Len(cs) > 0, NEW h, NEW t \in Nat,
         cs[Len(cs)].tick <= t, Matches(cs[Len(cs)], h, t)
  PROVE  Right(cs, h, t)
<1>1. Len(cs) \in 1..Len(cs) /\ \A m \in 1..Len(cs) : ~(m > Len(cs))
  OBVIOUS
<1> QED BY <1>1 DEF Right

LEMMA PushRight ==
  ASSUME NEW cs \in Seq(Change), NEW c \in Change, NEW ct, ct = Append(cs, c), NEW h, NEW t \in Nat,
         \/ c.tick > t /\ Right(cs, h, t)
         \/ c.tick <= t /\ Matches(c, h, t)
  PROVE  Right(ct, h, t)
<1> DEFINE n == Len(cs)
<1>1. /\ n \in Nat /\ ct \in Seq(Change) /\ Len(ct) = n + 1 /\ ct[n + 1] = c
      /\ \A k \in 1..n : ct[k] = cs[k]
  OBVIOUS
<1>2. CASE c.tick > t /\ Right(cs, h, t)
  <2>1. PICK k \in 1..n : /\ cs[k].tick <= t /\ \A m \in 1..n : m > k => cs[m].tick > t
                          /\ Matches(cs[k], h, t)
    BY <1>2 DEF Right
  <2> HIDE DEF n
  <2>2. k \in 1..(n + 1) /\ ct[k] = cs[k]
    BY <1>1
  <2>3. ASSUME NEW m \in 1..(n + 1), m > k
        PROVE  ct[m].tick > t
    <3>1. m = n + 1 \/ m \in 1..n
      BY <1>1
    <3> QED BY <1>1, <1>2, <2>1, <2>3, <3>1
  <2> QED BY <1>1, <2>1, <2>2, <2>3 DEF Right
<1>3. CASE c.tick <= t /\ Matches(c, h, t)
  <2> HIDE DEF n
  <2>1. Len(ct) > 0 /\ ct[Len(ct)] = c
    BY <1>1
  <2> QED BY <1>1, <1>3, <2>1, LastRight
<1> QED BY <1>2, <1>3

\* The player of a death was shown alive.
LEMMA DeathBase ==
  ASSUME NEW rs, NEW ds, NEW h, NEW lates, NEW begun, NEW j, NEW e, NEW l,
         Midway(rs, ds, h, lates, begun, j, e, l),
         e < Len(ds), j < Len(rs) => ds[e + 1] <= rs[j + 1].tick
  PROVE  /\ l.alive /\ l.tick < ds[e + 1] /\ l.team = h[ds[e + 1]].team /\ ~Living(h[ds[e + 1]])
         /\ W(rs, h, j) < ds[e + 1] /\ rs[j].state = h[ds[e + 1] - 1]
<1> DEFINE X == At(rs, ds, h, j, e)
           n == ds[e + 1]
           t == n - 1
<1>1. /\ Recording(rs, ds, h, lates, begun) /\ j \in 1..Len(rs) /\ X \in Nat
      /\ W(rs, h, j) \in Nat /\ h[W(rs, h, j)] = rs[j].state /\ W(rs, h, j) <= rs[j].tick
      /\ e \in Nat /\ (e > 0 => e \in 1..Len(ds) /\ ds[e] \in Nat /\ ds[e] \in TicksOf(ds))
      /\ rs[j].tick \in Nat /\ (j < Len(rs) => rs[j + 1].tick \in Nat) /\ l.tick \in Nat
      /\ n \in Nat /\ n >= 1 /\ n <= MaxTick /\ n \in TicksOf(ds) /\ (e > 0 => ds[e] < n)
      /\ MaxTick \in Nat /\ Told(h, TicksOf(ds), lates, begun)
  BY MidwayTypes DEF Recording
<1>2. rs[j].tick < n
  BY DEF Midway, Place
<1>3. t \in Nat /\ t <= MaxTick /\ rs[j].tick <= t /\ (j < Len(rs) => t < rs[j + 1].tick)
  <2>1. j < Len(rs) => n <= rs[j + 1].tick
    OBVIOUS
  <2> HIDE DEF n
  <2> QED BY <1>1, <1>2, <2>1
<1>4. PICK u \in Nat : u <= t /\ t <= u + Trail /\ W(rs, h, j) <= u /\ h[u] = rs[j].state
  <2> HIDE DEF t
  <2> QED BY <1>1, <1>3, RowKept
<1>5. /\ Living(h[n - 1]) /\ ~Living(h[n]) /\ h[n].team = h[n - 1].team
      /\ \A v \in Nat : v < n /\ n - 1 - Period - Delay <= v => h[v] = h[n - 1]
  <2> HIDE DEF n
  <2> QED BY <1>1, DeathSeen
<1>6. \A v \in Nat : v < n /\ n - 1 <= v + Trail => h[v] = h[n - 1]
  <2> HIDE DEF n
  <2>1. ASSUME NEW v \in Nat, n - 1 <= v + Trail
        PROVE  n - 1 - Period - Delay <= v
    BY <1>1, <2>1, Lags DEF Trail
  <2> QED BY <1>5, <2>1
<1>7. rs[j].state = h[n - 1]
  <2> HIDE DEF n
  <2>1. u < n /\ n - 1 <= u + Trail
    BY <1>1, <1>4
  <2> QED BY <1>4, <1>6, <2>1
<1>8. ~(e > 0 /\ W(rs, h, j) < ds[e])
  <2> SUFFICES ASSUME e > 0, W(rs, h, j) < ds[e] PROVE FALSE
    OBVIOUS
  <2>1. rs[j].state = h[ds[e] - 1]
    BY DEF Midway, Stands
  <2>2. LastRow(rs, j, t)
    <3> HIDE DEF t
    <3> QED BY <1>1, <1>3 DEF LastRow
  <2>3. t < ds[e] + Trail
    <3> HIDE DEF t
    <3> QED BY <1>1, <1>3, <2>1, <2>2, HiddenBrief
  <2>4. ds[e] < n /\ n - 1 <= ds[e] + Trail
    <3> HIDE DEF n
    <3> QED BY <1>1, <2>3, Trails
  <2>5. h[ds[e]] = h[n - 1]
    <3> HIDE DEF n
    <3> QED BY <1>1, <1>6, <2>4
  <2>6. ~Living(h[ds[e]])
    BY <1>1, DeathSeen
  <2> QED BY <1>5, <2>5, <2>6
<1>9. X = W(rs, h, j)
  BY <1>8 DEF At
<1>10. l.alive /\ l.team = h[n].team
  <2>1. l.alive = Living(h[X]) /\ l.team = h[X].team
    BY DEF Midway, Stands
  <2> QED BY <1>1, <1>5, <1>7, <1>9, <2>1
<1>11. l.tick < n
  <2>1. l.tick <= rs[j].tick \/ (e > 0 /\ l.tick <= ds[e])
    BY DEF Midway, Stands
  <2> HIDE DEF n
  <2> QED BY <1>1, <1>2, <2>1
<1>12. W(rs, h, j) < n
  <2> HIDE DEF n
  <2> QED BY <1>1, <1>2
<1> QED BY <1>5, <1>7, <1>10, <1>11, <1>12

\* A death takes a player out who is shown alive, on its own tick.
LEMMA DeathCaught ==
  ASSUME NEW rs, NEW ds, NEW h, NEW lates, NEW begun, NEW j, NEW e, NEW l, NEW cs,
         Midway(rs, ds, h, lates, begun, j, e, l), Caught(rs, ds, h, lates, begun, j, e, l, cs),
         e < Len(ds), j < Len(rs) => ds[e + 1] <= rs[j + 1].tick,
         NEW lt, lt = [tick |-> ds[e + 1], team |-> l.team, alive |-> FALSE],
         NEW q, q = e + 1, NEW ct, ct = Append(cs, lt)
  PROVE  Midway(rs, ds, h, lates, begun, j, q, lt) /\ Caught(rs, ds, h, lates, begun, j, q, lt, ct)
<1>1. /\ Recording(rs, ds, h, lates, begun) /\ j \in 1..Len(rs) /\ Len(ds) \in Nat /\ e \in Nat
      /\ W(rs, h, j) \in Nat /\ rs[j].tick \in Nat /\ (j < Len(rs) => rs[j + 1].tick \in Nat)
      /\ ds[q] \in Nat /\ l \in Change /\ q \in 1..Len(ds)
  BY MidwayTypes DEF Midway, Stands
<1>2. /\ l.alive /\ l.tick < ds[q] /\ l.team = h[ds[q]].team /\ ~Living(h[ds[q]])
      /\ W(rs, h, j) < ds[q] /\ rs[j].state = h[ds[q] - 1]
  BY DeathBase
<1>3. lt \in Change /\ lt.tick = ds[q] /\ lt.team = l.team /\ lt.alive = FALSE
  BY <1>1 DEF Change
<1>4. Place(rs, ds, j, q)
  <2>1. rs[j].tick < ds[q]
    BY DEF Midway, Place
  <2>2. q < Len(ds) => ds[q] < ds[q + 1] /\ ds[q + 1] \in Nat
    <3>1. q < Len(ds) => q + 1 \in 1..Len(ds) /\ q < q + 1
      BY <1>1
    <3> QED BY <1>1, <3>1, DeathTicks
  <2>3. q < Len(ds) => rs[j].tick < ds[q + 1]
    BY <1>1, <2>1, <2>2
  <2>4. q \in 0..Len(ds)
    BY <1>1
  <2> QED BY <1>1, <2>3, <2>4 DEF Place
<1>5. At(rs, ds, h, j, q) = ds[q] /\ q > 0
  BY <1>1, <1>2 DEF At
<1>6. Midway(rs, ds, h, lates, begun, j, q, lt)
  <2>1. lt.tick <= ds[q]
    BY <1>1, <1>3
  <2>2. lt.alive = Living(h[At(rs, ds, h, j, q)]) /\ lt.team = h[At(rs, ds, h, j, q)].team
    BY <1>2, <1>3, <1>5 DEF Living
  <2>3. Stands(rs, ds, h, j, q, lt)
    BY <1>2, <1>3, <1>5, <2>1, <2>2 DEF Stands
  <2> QED BY <1>1, <1>4, <2>3 DEF Midway
<1>7. cs \in Seq(Change) /\ Len(cs) > 0
  BY DEF Caught
<1>8. ct \in Seq(Change) /\ Len(ct) > 0 /\ ct[Len(ct)] = lt
  BY <1>3, <1>7
<1>9. ASSUME NEW t, Timely(rs, lates, t), j < Len(rs) => t < rs[j + 1].tick,
             q < Len(ds) => t < ds[q + 1]
      PROVE  Right(ct, h, t) \/ Pending(rs, ds, h, begun, j, q, lt, t)
  <2>1. t \in Nat
    BY <1>9 DEF Timely
  <2>2. CASE t < ds[q]
    <3>1. Right(cs, h, t)
      BY <1>2, <1>9, <2>2 DEF Caught, Pending
    <3>2. lt.tick > t
      BY <1>1, <1>3, <2>1, <2>2
    <3> QED BY <1>3, <1>7, <2>1, <3>1, <3>2, PushRight
  <2>3. CASE ds[q] <= t
    <3>1. rs[j].tick < ds[q]
      BY DEF Midway, Place
    <3>2. LastRow(rs, j, t)
      BY <1>1, <1>9, <2>1, <2>3, <3>1 DEF LastRow
    <3>3. Matches(lt, h, t) \/ Pending(rs, ds, h, begun, j, q, lt, t)
      BY <1>6, <1>9, <2>3, <3>2, Extends
    <3> QED BY <1>3, <1>7, <2>1, <2>3, <3>3, PushRight
  <2> QED BY <1>1, <2>1, <2>2, <2>3
<1> QED BY <1>6, <1>8, <1>9 DEF Caught

\* A row is stale when it was read before the death, which it then trails.
LEMMA StaleHidden ==
  ASSUME NEW rs, NEW ds, NEW h, NEW lates, NEW begun, NEW j, NEW e, NEW l,
         Midway(rs, ds, h, lates, begun, j, e, l), j < Len(rs), NEW k, k = j + 1, e > 0
  PROVE  /\ W(rs, h, k) < ds[e] => rs[k].state = h[ds[e] - 1]
         /\ (/\ Living(rs[k].state) /\ rs[k].tick - ds[e] <= ResourceLag
             /\ rs[k].state.deaths <= h[ds[e] - 1].deaths) <=> W(rs, h, k) < ds[e]
<1> DEFINE D == ds[e]
           w == W(rs, h, k)
<1>1. /\ k \in 1..Len(rs) /\ rs[k].tick \in Nat /\ w \in Nat /\ rs[k].tick <= w + Trail
      /\ w <= rs[k].tick /\ rs[k].tick <= MaxTick /\ h[w] = rs[k].state /\ MaxTick \in Nat
      /\ D \in Nat /\ D >= 1 /\ D <= MaxTick /\ D \in TicksOf(ds) /\ Told(h, TicksOf(ds), lates, begun)
  BY MidwayTypes DEF Recording
<1>2. D <= rs[k].tick
  BY DEF Midway, Place
<1>3. /\ Living(h[D - 1])
      /\ \A v \in Nat : v < D /\ D - 1 - Period - Delay <= v => h[v] = h[D - 1]
      /\ \A v \in Nat : D <= v /\ v <= MaxTick /\ v <= D + ResourceLag => h[v].deaths > h[D - 1].deaths
  <2> HIDE DEF D
  <2> QED BY <1>1, DeathSeen
<1>4. ASSUME w < D
      PROVE  /\ rs[k].state = h[D - 1] /\ Living(rs[k].state) /\ rs[k].tick - D <= ResourceLag
             /\ rs[k].state.deaths <= h[D - 1].deaths
  <2>1. D - 1 - Period - Delay <= w
    <3> HIDE DEF D, w
    <3> QED BY <1>1, <1>2, Lags DEF Trail
  <2>2. h[w] = h[D - 1]
    <3> HIDE DEF D, w
    <3> QED BY <1>1, <1>3, <1>4, <2>1
  <2>3. rs[k].state = h[D - 1]
    BY <1>1, <2>2
  <2>4. rs[k].tick - D <= ResourceLag
    <3> HIDE DEF D, w
    <3> QED BY <1>1, <1>4, Trails
  <2>5. h[D - 1].deaths <= h[D - 1].deaths
    <3>1. D - 1 \in 0..MaxTick
      <4> HIDE DEF D
      <4> QED BY <1>1
    <3>2. h[D - 1] \in State
      <4> HIDE DEF D
      <4> QED BY <1>1, <3>1, ToldTypes
    <3>3. h[D - 1].deaths \in Nat
      BY <3>2 DEF State
    <3> QED BY <3>3
  <2> QED BY <1>3, <2>3, <2>4, <2>5
<1>5. ASSUME ~(w < D), rs[k].tick - D <= ResourceLag, rs[k].state.deaths <= h[D - 1].deaths
      PROVE  FALSE
  <2>1. D <= w /\ w <= MaxTick /\ w <= D + ResourceLag
    <3> HIDE DEF D, w
    <3> QED BY <1>1, <1>5, Trails
  <2>2. h[w].deaths > h[D - 1].deaths
    <3> HIDE DEF D, w
    <3> QED BY <1>1, <1>3, <2>1
  <2>3. D - 1 \in 0..MaxTick /\ w \in 0..MaxTick
    <3> HIDE DEF D, w
    <3> QED BY <1>1, <2>1
  <2>4. h[D - 1] \in State /\ h[w] \in State
    <3> HIDE DEF D, w
    <3> QED BY <1>1, <2>3, ToldTypes
  <2>5. h[D - 1].deaths \in Nat /\ h[w].deaths \in Nat /\ h[w].deaths <= h[D - 1].deaths
    BY <1>1, <1>5, <2>4 DEF State
  <2> QED BY <2>2, <2>5
<1> QED BY <1>4, <1>5

\* What a row leaves to be right before its tick.
LEMMA RowCaught ==
  ASSUME NEW rs, NEW ds, NEW h, NEW lates, NEW begun, NEW j, NEW e, NEW l, NEW cs,
         Midway(rs, ds, h, lates, begun, j, e, l), j < Len(rs), NEW k, k = j + 1,
         e < Len(ds) => rs[k].tick < ds[e + 1],
         NEW lt, lt \in Change, lt.tick <= rs[k].tick,
         lt.alive = Living(h[At(rs, ds, h, k, e)]), lt.team = h[At(rs, ds, h, k, e)].team,
         cs \in Seq(Change), Len(cs) > 0, cs[Len(cs)] = lt,
         \A t : Timely(rs, lates, t) /\ t < rs[k].tick =>
           Right(cs, h, t) \/ Pending(rs, ds, h, begun, k, e, lt, t)
  PROVE  Midway(rs, ds, h, lates, begun, k, e, lt) /\ Caught(rs, ds, h, lates, begun, k, e, lt, cs)
<1>1. /\ Recording(rs, ds, h, lates, begun) /\ j \in Nat /\ Len(rs) \in Nat
      /\ k \in 1..Len(rs) /\ rs[k].tick \in Nat
      /\ e \in Nat /\ (e > 0 => ds[e] \in Nat) /\ e \in 0..Len(ds)
  BY MidwayTypes DEF Midway, Place
<1>2. k < Len(rs) => rs[k + 1].tick \in Nat /\ rs[k].tick < rs[k + 1].tick
  <2>1. k < Len(rs) => k + 1 \in 1..Len(rs) /\ k < k + 1
    BY <1>1
  <2> QED BY <1>1, <2>1, RowRead
<1>3. e > 0 => ds[e] <= rs[k].tick
  BY DEF Midway, Place
<1>4. e > 0 /\ k < Len(rs) => ds[e] <= rs[k + 1].tick
  BY <1>1, <1>2, <1>3
<1>5. Place(rs, ds, k, e)
  BY <1>1, <1>4 DEF Place
<1>6. e > 0 /\ W(rs, h, k) < ds[e] => rs[k].state = h[ds[e] - 1]
  BY StaleHidden
<1>7. Midway(rs, ds, h, lates, begun, k, e, lt)
  BY <1>1, <1>5, <1>6 DEF Midway, Stands
<1>8. ASSUME NEW t, Timely(rs, lates, t), k < Len(rs) => t < rs[k + 1].tick,
             e < Len(ds) => t < ds[e + 1]
      PROVE  Right(cs, h, t) \/ Pending(rs, ds, h, begun, k, e, lt, t)
  <2>1. t \in Nat /\ lt.tick \in Nat
    BY <1>8 DEF Timely, Change
  <2>2. CASE t < rs[k].tick
    BY <1>8, <2>2
  <2>3. CASE rs[k].tick <= t
    <3>1. LastRow(rs, k, t)
      BY <1>1, <1>2, <1>8, <2>1, <2>3 DEF LastRow
    <3>2. e > 0 => ds[e] <= t
      BY <1>1, <1>3, <2>1, <2>3
    <3>3. Matches(lt, h, t) \/ Pending(rs, ds, h, begun, k, e, lt, t)
      BY <1>7, <1>8, <3>1, <3>2, Extends
    <3>4. lt.tick <= t
      BY <1>1, <2>1, <2>3
    <3> QED BY <2>1, <3>3, <3>4, LastRight
  <2> QED BY <1>1, <2>1, <2>2, <2>3
<1> QED BY <1>7, <1>8 DEF Caught

\* Spawns pending at a row are no older than a refresh and its delay, and the
\* row shows those it was read after.
LEMMA PendingAtRow ==
  ASSUME NEW rs, NEW ds, NEW h, NEW lates, NEW begun, NEW j, NEW e, NEW l,
         Midway(rs, ds, h, lates, begun, j, e, l), j < Len(rs), NEW k, k = j + 1,
         NEW t, Timely(rs, lates, t), t < rs[k].tick, Pending(rs, ds, h, begun, j, e, l, t)
  PROVE  \E b \in Nat : /\ b <= t /\ Spawn(h, begun, b) /\ At(rs, ds, h, j, e) < b
                        /\ rs[k].tick <= b + Trail /\ (b <= W(rs, h, k) => Living(h[W(rs, h, k)]))
<1>1. PICK b \in Nat : b <= t /\ Spawn(h, begun, b) /\ At(rs, ds, h, j, e) < b
  BY DEF Pending
<1>2. t \in Nat /\ t + Trail <= MaxTick /\ ~l.alive
  BY DEF Timely, Pending
<1>3. b + Trail <= MaxTick
  BY <1>1, <1>2, Trails, Lags
<1>4. rs[k].tick <= b + Trail
  BY <1>1, <1>2, <1>3, PendingBrief
<1>5. ASSUME b <= W(rs, h, k)
      PROVE  Living(h[W(rs, h, k)])
  <2>1. /\ W(rs, h, k) \in Nat /\ W(rs, h, k) <= rs[k].tick /\ rs[k].tick <= MaxTick
        /\ rs[k].tick \in Nat /\ MaxTick \in Nat /\ Told(h, TicksOf(ds), lates, begun)
    BY MidwayTypes DEF Recording
  <2>2. W(rs, h, k) <= b + Period + Delay /\ W(rs, h, k) <= MaxTick
    BY <1>4, <2>1, Lags DEF Trail
  <2> QED BY <1>1, <1>5, <2>1, <2>2, LifeShown
<1> QED BY <1>1, <1>4, <1>5

LEMMA StaleCaught ==
  ASSUME NEW rs, NEW ds, NEW h, NEW lates, NEW begun, NEW j, NEW e, NEW l, NEW cs,
         Midway(rs, ds, h, lates, begun, j, e, l), Caught(rs, ds, h, lates, begun, j, e, l, cs),
         j < Len(rs), NEW k, k = j + 1, e < Len(ds) => rs[k].tick < ds[e + 1],
         e > 0, W(rs, h, k) < ds[e]
  PROVE  Midway(rs, ds, h, lates, begun, k, e, l) /\ Caught(rs, ds, h, lates, begun, k, e, l, cs)
<1>1. /\ W(rs, h, j) \in Nat /\ W(rs, h, k) \in Nat /\ W(rs, h, j) <= W(rs, h, k) /\ ds[e] \in Nat
      /\ rs[j].tick \in Nat /\ rs[k].tick \in Nat /\ rs[j].tick < rs[k].tick /\ l.tick \in Nat
      /\ (e < Len(ds) => ds[e + 1] \in Nat)
  BY MidwayTypes
<1>2. W(rs, h, j) < ds[e]
  BY <1>1
<1>3. At(rs, ds, h, k, e) = ds[e] /\ At(rs, ds, h, j, e) = ds[e]
  BY <1>2 DEF At
<1>4. /\ l \in Change /\ l.alive = Living(h[At(rs, ds, h, k, e)]) /\ l.team = h[At(rs, ds, h, k, e)].team
      /\ l.tick <= rs[j].tick \/ l.tick <= ds[e]
  BY <1>3 DEF Midway, Stands
<1>5. l.tick <= rs[k].tick
  <2>1. ds[e] <= rs[k].tick
    BY DEF Midway, Place
  <2> QED BY <1>1, <1>4, <2>1
<1>6. ASSUME NEW t, Timely(rs, lates, t), t < rs[k].tick
      PROVE  Right(cs, h, t) \/ Pending(rs, ds, h, begun, k, e, l, t)
  <2>1. e < Len(ds) => t < ds[e + 1]
    BY <1>1, <1>6 DEF Timely
  <2>2. Right(cs, h, t) \/ Pending(rs, ds, h, begun, j, e, l, t)
    BY <1>6, <2>1 DEF Caught
  <2> QED BY <1>3, <2>2 DEF Pending
<1>7. cs \in Seq(Change) /\ Len(cs) > 0 /\ cs[Len(cs)] = l
  BY DEF Caught
<1> QED BY <1>4, <1>5, <1>6, <1>7, RowCaught

\* A row that was not read before the death.
LEMMA RowOpen ==
  ASSUME NEW rs, NEW ds, NEW h, NEW lates, NEW begun, NEW j, NEW e, NEW l, NEW cs,
         Midway(rs, ds, h, lates, begun, j, e, l), Caught(rs, ds, h, lates, begun, j, e, l, cs),
         j < Len(rs), NEW k, k = j + 1, e < Len(ds) => rs[k].tick < ds[e + 1],
         ~(e > 0 /\ W(rs, h, k) < ds[e])
  PROVE  /\ At(rs, ds, h, k, e) = W(rs, h, k) /\ h[W(rs, h, k)] = rs[k].state
         /\ W(rs, h, k) \in Nat /\ W(rs, h, k) <= rs[k].tick /\ rs[k].tick <= W(rs, h, k) + Trail
         /\ rs[k].tick \in Nat /\ rs[k].tick <= MaxTick /\ MaxTick \in Nat /\ rs[k].state \in State
         /\ rs[j].tick \in Nat /\ rs[j].tick < rs[k].tick
         /\ l \in Change /\ l.tick \in Nat /\ l.tick <= rs[k].tick /\ l.alive \in BOOLEAN
         /\ cs \in Seq(Change) /\ Len(cs) > 0 /\ cs[Len(cs)] = l
         /\ Told(h, TicksOf(ds), lates, begun)
         /\ \A t : Timely(rs, lates, t) /\ t < rs[k].tick =>
              Right(cs, h, t) \/ Pending(rs, ds, h, begun, j, e, l, t)
         /\ l.team # rs[k].state.team \/ l.alive # Living(rs[k].state) =>
              \E b \in Nat : /\ b < rs[k].tick /\ rs[k].tick <= b + 1 + Trail
                             /\ l.alive = Living(h[b]) /\ l.team = h[b].team /\ b <= W(rs, h, k)
<1>1. /\ Recording(rs, ds, h, lates, begun)
      /\ k \in 1..Len(rs) /\ W(rs, h, k) \in Nat /\ W(rs, h, k) <= rs[k].tick
      /\ rs[k].tick <= W(rs, h, k) + Trail /\ h[W(rs, h, k)] = rs[k].state
      /\ rs[k].tick \in Nat /\ rs[k].tick <= MaxTick /\ MaxTick \in Nat
      /\ rs[j].tick \in Nat /\ rs[j].tick < rs[k].tick
      /\ l.tick \in Nat /\ l.alive \in BOOLEAN /\ e \in Nat
      /\ (e > 0 => ds[e] \in Nat) /\ (e < Len(ds) => ds[e + 1] \in Nat)
  BY MidwayTypes
<1>2. /\ Told(h, TicksOf(ds), lates, begun) /\ rs[k].state \in State
  BY <1>1, RowRead DEF Recording
<1>3. At(rs, ds, h, k, e) = W(rs, h, k)
  BY DEF At
<1>4. e > 0 => ds[e] <= rs[k].tick
  BY DEF Midway, Place
<1>5. l \in Change /\ (l.tick <= rs[j].tick \/ (e > 0 /\ l.tick <= ds[e]))
  BY DEF Midway, Stands
<1>6. l.tick <= rs[k].tick
  BY <1>1, <1>4, <1>5
<1>7. cs \in Seq(Change) /\ Len(cs) > 0 /\ cs[Len(cs)] = l
  BY DEF Caught
<1>8. ASSUME NEW t, Timely(rs, lates, t), t < rs[k].tick
      PROVE  Right(cs, h, t) \/ Pending(rs, ds, h, begun, j, e, l, t)
  <2>1. e < Len(ds) => t < ds[e + 1]
    BY <1>1, <1>8 DEF Timely
  <2> QED BY <1>8, <2>1 DEF Caught
<1>9. ASSUME l.team # rs[k].state.team \/ l.alive # Living(rs[k].state)
      PROVE  \E b \in Nat : /\ b < rs[k].tick /\ rs[k].tick <= b + 1 + Trail
                            /\ l.alive = Living(h[b]) /\ l.team = h[b].team /\ b <= W(rs, h, k)
  <2>1. l.alive = Living(h[At(rs, ds, h, j, e)]) /\ l.team = h[At(rs, ds, h, j, e)].team
    BY DEF Midway, Stands
  <2>2. At(rs, ds, h, j, e) # W(rs, h, k)
    BY <1>1, <1>9, <2>1
  <2>3. e > 0 => ds[e] < rs[k].tick
    <3> SUFFICES ASSUME e > 0, ds[e] = rs[k].tick PROVE FALSE
      BY <1>1, <1>4
    <3>1. W(rs, h, k) = ds[e]
      BY <1>1
    <3>2. W(rs, h, j) < ds[e]
      <4>1. W(rs, h, j) \in Nat /\ W(rs, h, j) <= rs[j].tick
        BY MidwayTypes
      <4> QED BY <1>1, <4>1
    <3>3. At(rs, ds, h, j, e) = ds[e]
      BY <3>2 DEF At
    <3> QED BY <2>2, <3>1, <3>3
  <2> DEFINE t == rs[k].tick - 1
  <2>4. /\ t \in Nat /\ t <= MaxTick /\ LastRow(rs, j, t) /\ (e > 0 => ds[e] <= t)
        /\ (e > 0 => ds[e] <= W(rs, h, k))
    <3>1. /\ t \in Nat /\ t <= MaxTick /\ rs[j].tick <= t /\ t < rs[k].tick
      <4>1. /\ rs[k].tick \in Nat /\ rs[k].tick <= MaxTick /\ MaxTick \in Nat
            /\ rs[j].tick \in Nat /\ rs[j].tick < rs[k].tick
        BY <1>1
      <4> QED BY <4>1
    <3>2. LastRow(rs, j, t)
      BY <3>1 DEF LastRow
    <3>3. e > 0 => ds[e] <= t /\ ds[e] <= W(rs, h, k)
      BY <1>1, <2>3
    <3> QED BY <3>1, <3>2, <3>3
  <2>5. PICK b \in Nat : /\ b <= t /\ t <= b + Trail
                         /\ l.alive = Living(h[b]) /\ l.team = h[b].team /\ b <= W(rs, h, k)
    <3> HIDE DEF t
    <3> QED BY <2>4, Base
  <2>6. b < rs[k].tick /\ rs[k].tick <= b + 1 + Trail
    BY <1>1, <2>5, Trails
  <2> QED BY <2>5, <2>6
<1> QED BY <1>1, <1>2, <1>3, <1>5, <1>6, <1>7, <1>8, <1>9

\* A row that shows what latest has.
LEMMA KnownCaught ==
  ASSUME NEW rs, NEW ds, NEW h, NEW lates, NEW begun, NEW j, NEW e, NEW l, NEW cs,
         Midway(rs, ds, h, lates, begun, j, e, l), Caught(rs, ds, h, lates, begun, j, e, l, cs),
         j < Len(rs), NEW k, k = j + 1, e < Len(ds) => rs[k].tick < ds[e + 1],
         ~(e > 0 /\ W(rs, h, k) < ds[e]),
         l.team = rs[k].state.team, l.alive = Living(rs[k].state)
  PROVE  Midway(rs, ds, h, lates, begun, k, e, l) /\ Caught(rs, ds, h, lates, begun, k, e, l, cs)
<1>1. /\ At(rs, ds, h, k, e) = W(rs, h, k) /\ h[W(rs, h, k)] = rs[k].state
      /\ W(rs, h, k) \in Nat /\ l \in Change /\ l.tick <= rs[k].tick
      /\ cs \in Seq(Change) /\ Len(cs) > 0 /\ cs[Len(cs)] = l
      /\ \A t : Timely(rs, lates, t) /\ t < rs[k].tick =>
           Right(cs, h, t) \/ Pending(rs, ds, h, begun, j, e, l, t)
  BY RowOpen
<1>2. ASSUME NEW t, Timely(rs, lates, t), t < rs[k].tick, Pending(rs, ds, h, begun, j, e, l, t)
      PROVE  Pending(rs, ds, h, begun, k, e, l, t)
  <2>1. PICK b \in Nat : /\ b <= t /\ Spawn(h, begun, b)
                         /\ (b <= W(rs, h, k) => Living(h[W(rs, h, k)]))
    BY <1>2, PendingAtRow
  <2>2. ~l.alive /\ l.tick <= t
    BY <1>2 DEF Pending
  <2>3. W(rs, h, k) < b
    BY <1>1, <2>1, <2>2
  <2> QED BY <1>1, <2>1, <2>2, <2>3 DEF Pending
<1>3. \A t : Timely(rs, lates, t) /\ t < rs[k].tick =>
        Right(cs, h, t) \/ Pending(rs, ds, h, begun, k, e, l, t)
  BY <1>1, <1>2
<1>4. l.alive = Living(h[At(rs, ds, h, k, e)]) /\ l.team = h[At(rs, ds, h, k, e)].team
  BY <1>1
<1> QED BY <1>1, <1>3, <1>4, RowCaught

\* The round starts a row's tick trails.
Behind(begun, t) == {x \in begun : x <= t /\ t - x <= ResourceLag}

\* A change on the row's own tick: nothing can be pending.
LEMMA RowPushed ==
  ASSUME NEW rs, NEW ds, NEW h, NEW lates, NEW begun, NEW j, NEW e, NEW l, NEW cs,
         Midway(rs, ds, h, lates, begun, j, e, l), Caught(rs, ds, h, lates, begun, j, e, l, cs),
         j < Len(rs), NEW k, k = j + 1, e < Len(ds) => rs[k].tick < ds[e + 1],
         ~(e > 0 /\ W(rs, h, k) < ds[e]),
         l.team # rs[k].state.team \/ l.alive # Living(rs[k].state),
         Living(rs[k].state) /\ ~l.alive => Behind(begun, rs[k].tick) = {},
         NEW lt \in Change, lt.tick = rs[k].tick, lt.team = rs[k].state.team,
         lt.alive = Living(rs[k].state),
         NEW ct, ct = Append(cs, lt)
  PROVE  Midway(rs, ds, h, lates, begun, k, e, lt) /\ Caught(rs, ds, h, lates, begun, k, e, lt, ct)
<1> DEFINE w == W(rs, h, k)
           x == rs[k].tick
<1>1. /\ At(rs, ds, h, k, e) = w /\ h[w] = rs[k].state /\ w \in Nat /\ w <= x /\ x <= w + Trail
      /\ x \in Nat /\ x <= MaxTick /\ rs[k].state \in State
      /\ cs \in Seq(Change) /\ Len(cs) > 0 /\ l.alive \in BOOLEAN
      /\ Told(h, TicksOf(ds), lates, begun)
      /\ \A t : Timely(rs, lates, t) /\ t < x =>
           Right(cs, h, t) \/ Pending(rs, ds, h, begun, j, e, l, t)
  BY RowOpen
<1>2. PICK a \in Nat : a < x /\ x <= a + 1 + Trail /\ l.alive = Living(h[a]) /\ l.team = h[a].team /\ a <= w
  <2>1. \E b \in Nat : /\ b < rs[k].tick /\ rs[k].tick <= b + 1 + Trail
                       /\ l.alive = Living(h[b]) /\ l.team = h[b].team /\ b <= W(rs, h, k)
    BY RowOpen
  <2> QED BY <2>1
<1>3. lt \in Change /\ lt.tick = x /\ lt.team = rs[k].state.team /\ lt.alive = Living(rs[k].state)
  OBVIOUS
<1>4. ASSUME NEW t, Timely(rs, lates, t), t < x, Pending(rs, ds, h, begun, j, e, l, t)
      PROVE  FALSE
  <2>1. PICK b \in Nat : /\ b <= t /\ Spawn(h, begun, b) /\ x <= b + Trail
                         /\ (b <= w => Living(h[w]))
    BY <1>4, PendingAtRow
  <2>2. ~l.alive /\ t \in Nat /\ b \in begun
    BY <1>4, <2>1 DEF Pending, Timely, Spawn
  <2>3. b \in Behind(begun, x)
    <3> HIDE DEF x, w
    <3>1. b <= x /\ x - b <= ResourceLag
      BY <1>1, <1>4, <2>1, <2>2, Trails
    <3> QED BY <2>2, <3>1 DEF Behind
  <2>4. ~Living(rs[k].state)
    BY <2>2, <2>3
  <2>5. w < b
    <3>1. ~(b <= w)
      BY <1>1, <2>1, <2>4
    <3> HIDE DEF w
    <3> QED BY <1>1, <3>1
  <2>6. l.team # rs[k].state.team
    <3>1. l.alive = FALSE /\ Living(rs[k].state) = FALSE
      BY <1>1, <2>2, <2>4 DEF Living
    <3> QED BY <3>1
  <2>7. PICK y \in lates : a < y /\ y <= w
    <3>1. h[w].team # h[a].team /\ w <= MaxTick
      BY <1>1, <1>2, <2>6, Lags
    <3> HIDE DEF w, x
    <3> QED BY <1>1, <1>2, <3>1, TeamHolds
  <2>8. y \in Nat
    BY <1>1, ToldTypes
  <2>9. y <= t => y + Trail < t
    BY <1>4 DEF Timely
  <2> HIDE DEF w, x
  <2> QED BY <1>1, <1>2, <1>4, <2>1, <2>2, <2>5, <2>7, <2>8, <2>9, Trails
<1>5. \A t : Timely(rs, lates, t) /\ t < x =>
        Right(ct, h, t) \/ Pending(rs, ds, h, begun, k, e, lt, t)
  <2> SUFFICES ASSUME NEW t, Timely(rs, lates, t), t < x PROVE Right(ct, h, t)
    OBVIOUS
  <2>1. Right(cs, h, t) /\ t \in Nat
    BY <1>1, <1>4 DEF Timely
  <2>2. lt.tick > t
    <3> HIDE DEF x
    <3> QED BY <1>1, <1>3, <2>1
  <2> QED BY <1>1, <1>3, <2>1, <2>2, PushRight
<1>6. ct \in Seq(Change) /\ Len(ct) > 0 /\ ct[Len(ct)] = lt
  BY <1>1, <1>3
<1>7. lt.tick <= x
  <2> HIDE DEF x
  <2> QED BY <1>1, <1>3
<1>8. lt.alive = Living(h[At(rs, ds, h, k, e)]) /\ lt.team = h[At(rs, ds, h, k, e)].team
  BY <1>1, <1>3
<1>9. \A t : Timely(rs, lates, t) /\ t < rs[k].tick =>
        Right(ct, h, t) \/ Pending(rs, ds, h, begun, k, e, lt, t)
  BY <1>5
<1>10. lt \in Change /\ lt.tick <= rs[k].tick
  BY <1>3, <1>7
<1> HIDE DEF w, x
<1> QED BY <1>6, <1>8, <1>9, <1>10, RowCaught

\* A respawn moved back to the round start behind its row: the player has lived
\* since that start, unless they changed without an event shortly before the row.
LEMMA StartPushed ==
  ASSUME NEW rs, NEW ds, NEW h, NEW lates, NEW begun, NEW j, NEW e, NEW l, NEW cs,
         Midway(rs, ds, h, lates, begun, j, e, l), Caught(rs, ds, h, lates, begun, j, e, l, cs),
         j < Len(rs), NEW k, k = j + 1, e < Len(ds) => rs[k].tick < ds[e + 1],
         ~(e > 0 /\ W(rs, h, k) < ds[e]),
         Living(rs[k].state), ~l.alive, NEW z \in Behind(begun, rs[k].tick),
         NEW lt \in Change, lt.tick = z \/ lt.tick = l.tick, z <= lt.tick, l.tick <= lt.tick,
         lt.team = rs[k].state.team, lt.alive = Living(rs[k].state),
         NEW ct, ct = Append(cs, lt)
  PROVE  Midway(rs, ds, h, lates, begun, k, e, lt) /\ Caught(rs, ds, h, lates, begun, k, e, lt, ct)
<1> DEFINE w == W(rs, h, k)
           x == rs[k].tick
<1>1. /\ At(rs, ds, h, k, e) = w /\ h[w] = rs[k].state /\ w \in Nat /\ w <= x /\ x <= w + Trail
      /\ x \in Nat /\ x <= MaxTick /\ MaxTick \in Nat /\ l.tick \in Nat /\ l.tick <= x
      /\ cs \in Seq(Change) /\ Len(cs) > 0 /\ Told(h, TicksOf(ds), lates, begun)
      /\ \A t : Timely(rs, lates, t) /\ t < x =>
           Right(cs, h, t) \/ Pending(rs, ds, h, begun, j, e, l, t)
  BY RowOpen
<1>2. PICK a \in Nat : a < x /\ x <= a + 1 + Trail /\ l.alive = Living(h[a]) /\ a <= w
  <2>1. \E b \in Nat : /\ b < rs[k].tick /\ rs[k].tick <= b + 1 + Trail
                       /\ l.alive = Living(h[b]) /\ l.team = h[b].team /\ b <= W(rs, h, k)
    BY RowOpen
  <2> QED BY <2>1
<1>3. /\ z \in begun /\ z \in Nat /\ z >= 1 /\ z <= x /\ x - z <= ResourceLag
      /\ begun \subseteq 1..MaxTick /\ Apart(begun)
  <2>1. begun \subseteq 1..MaxTick /\ Apart(begun)
    BY <1>1, ToldTypes DEF Told, History
  <2> QED BY <1>1, <2>1 DEF Behind
<1>4. lt.tick \in Nat /\ lt.tick <= x
  <2> HIDE DEF x
  <2> QED BY <1>1, <1>3
\* Who is pending spawned on that start.
<1>5. ASSUME NEW t, Timely(rs, lates, t), t < x, t < lt.tick, Pending(rs, ds, h, begun, j, e, l, t)
      PROVE  FALSE
  <2>1. PICK b \in Nat : b <= t /\ Spawn(h, begun, b) /\ x <= b + Trail
    BY <1>5, PendingAtRow
  <2>2. l.tick <= t /\ t \in Nat /\ b \in begun
    BY <1>5, <2>1 DEF Pending, Timely, Spawn
  <2>3. b = z
    <3>1. b < z => z - b > ResourceLag
      BY <1>3, <2>2 DEF Apart
    <3>2. z < b => b - z > ResourceLag
      BY <1>3, <2>2 DEF Apart
    <3> HIDE DEF x
    <3> QED BY <1>1, <1>3, <1>5, <2>1, <2>2, <3>1, <3>2, Trails
  <2> QED BY <1>3, <1>4, <1>5, <2>1, <2>2, <2>3
\* From the change on it is right.
<1>6. ASSUME NEW t, Timely(rs, lates, t), t < x, lt.tick <= t
      PROVE  Matches(lt, h, t)
  <2>1. t \in Nat /\ \A v \in lates : v <= t => v + Trail < t
    BY <1>6 DEF Timely
  <2>2. PICK y \in Nat : /\ a < y /\ y <= w /\ ~Living(h[y - 1]) /\ Living(h[y])
                         /\ y \in lates \/ y \in begun
    <3>1. ~Living(h[a]) /\ Living(h[w])
      BY <1>1, <1>2
    <3>2. w <= MaxTick
      <4> HIDE DEF w, x
      <4> QED BY <1>1
    <3> HIDE DEF w
    <3> QED BY <1>1, <1>2, <3>1, <3>2, SpawnBetween
  <2>3. x <= y + Trail /\ y <= x
    <3> HIDE DEF w, x
    <3> QED BY <1>1, <1>2, <2>2, Trails
  <2>4. z <= t
    <3> HIDE DEF x
    <3> QED BY <1>3, <1>4, <1>6, <2>1
  <2>5. y \notin lates
    <3> SUFFICES ASSUME y \in lates PROVE FALSE
      OBVIOUS
    <3>1. y \in 1..MaxTick
      BY <1>1, ToldTypes
    <3>2. z <= y => y - z > ResourceLag
      BY <1>1, <1>3, <2>2, <3>1 DEF Told, History, LateSpawns
    <3>3. y < z
      <4> HIDE DEF x
      <4> QED BY <1>1, <1>3, <2>3, <3>2, Trails
    <3>4. y + Trail < t
      BY <1>3, <2>1, <2>4, <3>3
    <3> HIDE DEF x
    <3> QED BY <1>1, <1>6, <2>1, <2>3, <3>4, Trails
  <2>6. y = z
    <3>1. y \in begun
      BY <2>2, <2>5
    <3>2. y < z => z - y > ResourceLag
      BY <1>3, <3>1 DEF Apart
    <3>3. z < y => y - z > ResourceLag
      BY <1>3, <3>1 DEF Apart
    <3> HIDE DEF x
    <3> QED BY <1>1, <1>3, <2>3, <3>2, <3>3, Trails
  <2>7. Spawn(h, begun, z)
    BY <2>2, <2>5, <2>6 DEF Spawn
  <2>8. z + Trail = z + Period + Delay
    BY <1>3, Lags DEF Trail
  <2>9. h[t] = h[z] /\ Living(h[t])
    <3>1. t <= z + Period + Delay /\ t <= MaxTick
      <4> HIDE DEF x
      <4>1. x \in Nat /\ x <= MaxTick /\ t < x
        BY <1>1, <1>6
      <4>2. x <= z + Trail
        BY <2>3, <2>6
      <4>3. z + Trail \in Nat /\ MaxTick \in Nat
        BY <1>3, AliveAssumption, Trails
      <4> QED BY <2>1, <2>8, <4>1, <4>2, <4>3
    <3> QED BY <1>1, <1>3, <2>1, <2>4, <2>7, <3>1, LifeShown
  <2>10. h[w] = h[z]
    <3>1. z <= w /\ w \in Nat /\ w <= x /\ x \in Nat /\ x <= MaxTick /\ MaxTick \in Nat
      BY <1>1, <2>2, <2>6
    <3>2. x <= z + Trail
      BY <2>3, <2>6
    <3>3. w <= z + Period + Delay /\ w <= MaxTick
      <4> HIDE DEF x, w
      <4> QED BY <1>3, <2>8, <3>1, <3>2, Trails
    <3> HIDE DEF w
    <3> QED BY <1>1, <1>3, <2>7, <3>1, <3>3, LifeShown
  <2> QED BY <1>1, <2>9, <2>10 DEF Matches
<1>7. ASSUME NEW t, Timely(rs, lates, t), t < x
      PROVE  Right(ct, h, t)
  <2>1. t \in Nat
    BY <1>7 DEF Timely
  <2>2. CASE t < lt.tick
    <3>1. Right(cs, h, t) /\ lt.tick > t
      BY <1>1, <1>4, <1>5, <1>7, <2>1, <2>2
    <3> QED BY <1>1, <2>1, <3>1, PushRight
  <2>3. CASE lt.tick <= t
    BY <1>1, <1>6, <1>7, <2>1, <2>3, PushRight
  <2> QED BY <1>4, <2>1, <2>2, <2>3
<1>8. ct \in Seq(Change) /\ Len(ct) > 0 /\ ct[Len(ct)] = lt
  BY <1>1
<1>9. \A t : Timely(rs, lates, t) /\ t < rs[k].tick =>
        Right(ct, h, t) \/ Pending(rs, ds, h, begun, k, e, lt, t)
  BY <1>7
<1>10. lt.tick <= rs[k].tick
  BY <1>4
<1>11. lt.alive = Living(h[At(rs, ds, h, k, e)]) /\ lt.team = h[At(rs, ds, h, k, e)].team
  BY <1>1
<1> HIDE DEF w, x
<1> QED BY <1>8, <1>9, <1>10, <1>11, RowCaught

\* The first row has no death and no round start before it.
LEMMA FirstCaught ==
  ASSUME NEW rs, NEW ds, NEW h, NEW lates, NEW begun, Recording(rs, ds, h, lates, begun),
         NEW lt \in Change, lt.tick = rs[1].tick, lt.team = rs[1].state.team,
         lt.alive = Living(rs[1].state), NEW ct, ct = Append(<<>>, lt)
  PROVE  Midway(rs, ds, h, lates, begun, 1, 0, lt) /\ Caught(rs, ds, h, lates, begun, 1, 0, lt, ct)
<1>1. /\ Len(rs) \in Nat /\ 1 \in 1..Len(rs) /\ rs[1].tick \in Nat /\ Len(ds) \in Nat
      /\ h[W(rs, h, 1)] = rs[1].state
  BY RowRead, DeathTicks
<1>2. 0 < Len(ds) => rs[1].tick < ds[0 + 1]
  <2>1. 0 < Len(ds) => 1 \in 1..Len(ds)
    BY <1>1
  <2> QED BY <2>1, DeathTicks
<1>3. Place(rs, ds, 1, 0)
  BY <1>1, <1>2 DEF Place
<1>4. At(rs, ds, h, 1, 0) = W(rs, h, 1)
  BY DEF At
<1>5. lt.alive = Living(h[At(rs, ds, h, 1, 0)]) /\ lt.team = h[At(rs, ds, h, 1, 0)].team
  BY <1>1, <1>4
<1>6. Midway(rs, ds, h, lates, begun, 1, 0, lt)
  BY <1>1, <1>3, <1>5 DEF Midway, Stands
<1>7. ct \in Seq(Change) /\ Len(ct) > 0 /\ ct[Len(ct)] = lt
  OBVIOUS
<1>8. ASSUME NEW t, Timely(rs, lates, t), 1 < Len(rs) => t < rs[1 + 1].tick,
             0 < Len(ds) => t < ds[0 + 1]
      PROVE  Right(ct, h, t) \/ Pending(rs, ds, h, begun, 1, 0, lt, t)
  <2>1. t \in Nat /\ rs[1].tick <= t
    BY <1>8 DEF Timely
  <2>2. LastRow(rs, 1, t)
    <3>1. 1 < Len(rs) => rs[1 + 1].tick \in Nat
      <4>1. 1 < Len(rs) => 1 + 1 \in 1..Len(rs)
        BY <1>1
      <4> QED BY <4>1, RowRead
    <3> QED BY <1>8, <2>1, <3>1 DEF LastRow
  <2>3. Matches(lt, h, t) \/ Pending(rs, ds, h, begun, 1, 0, lt, t)
    BY <1>6, <1>8, <2>2, Extends
  <2> QED BY <1>7, <2>1, <2>3, LastRight
<1> QED BY <1>6, <1>7, <1>8 DEF Caught

\* After the last row and the last death nothing is pending.
LEMMA AllRight ==
  ASSUME NEW rs, NEW ds, NEW h, NEW lates, NEW begun, NEW j, NEW e, NEW l, NEW cs,
         Midway(rs, ds, h, lates, begun, j, e, l), Caught(rs, ds, h, lates, begun, j, e, l, cs),
         ~(j < Len(rs)), ~(e < Len(ds)), NEW t, Timely(rs, lates, t)
  PROVE  Right(cs, h, t)
<1> SUFFICES ASSUME Pending(rs, ds, h, begun, j, e, l, t) PROVE FALSE
  BY DEF Caught
<1>1. PICK b \in Nat : b <= t /\ Spawn(h, begun, b) /\ At(rs, ds, h, j, e) < b
  BY DEF Pending
<1>2. ~l.alive /\ t \in Nat /\ t + Trail <= MaxTick
  BY DEF Pending, Timely
<1>3. b + Trail <= MaxTick
  BY <1>1, <1>2, Trails, Lags
<1> QED BY <1>1, <1>2, <1>3, PendingBrief

-----------------------------------------------------------------------------
(* The game behind it                                                      *)

Story(s) == [t \in 0..now |-> IF Past(t) THEN truth[t][s] ELSE slots[s]]

LateTicks(s) == {t \in 0..MaxTick : s \in late[t]}

PastTicks == IF pc = "game" THEN now ELSE now + 1

\* What the game has done to a slot and shown of it.
Tracked(s) ==
  /\ since[s] \in Int
  /\ History(Story(s), now, since[s], TicksOf(deaths[s]), LateTicks(s), TicksOf(starts))
  /\ Reading(rows[s], Story(s), now, PastTicks, read[s], readAt, shown)
  /\ \A k, m \in 1..Len(deaths[s]) : k < m => deaths[s][k] < deaths[s][m]
  /\ \A x \in TicksOf(deaths[s]) \cup TicksOf(starts) : rows[s] # <<>> /\ rows[s][1].tick < x

GInv ==
  /\ TInv
  /\ since \in [Slot -> Int] /\ (pc # "game" => now = MaxTick)
  /\ \A s \in Slot : Tracked(s)

LEMMA StoryType ==
  ASSUME TInv, NEW s \in Slot
  PROVE  /\ now \in Nat /\ Story(s) \in [0..now -> State] /\ slots[s] \in State
         /\ \A t \in 0..now : Story(s)[t] = IF Past(t) THEN truth[t][s] ELSE slots[s]
         /\ pc = "game" => Story(s)[now] = slots[s]
<1>1. /\ now \in Nat /\ now <= MaxTick /\ MaxTick \in Nat /\ slots[s] \in State
      /\ truth \in [0..MaxTick -> [Slot -> State]]
  BY TeamTypes DEF TInv, TeamType, GameType
<1>2. \A t \in 0..now : t \in 0..MaxTick /\ truth[t][s] \in State
  <2>1. \A t \in 0..now : t \in 0..MaxTick
    BY <1>1
  <2> QED BY <1>1, <2>1
<1>3. Story(s) \in [0..now -> State]
  BY <1>1, <1>2 DEF Story
<1>4. \A t \in 0..now : Story(s)[t] = IF Past(t) THEN truth[t][s] ELSE slots[s]
  BY DEF Story
<1>5. pc = "game" => now \in 0..now /\ ~Past(now)
  BY <1>1 DEF Past
<1> QED BY <1>1, <1>3, <1>4, <1>5

LEMMA TicksOfAppend ==
  ASSUME NEW S, NEW q \in Seq(S), NEW x
  PROVE  TicksOf(Append(q, x)) = TicksOf(q) \cup {x}
<1> DEFINE r == Append(q, x)
           n == Len(q)
<1>1. n \in Nat /\ Len(r) = n + 1 /\ r[n + 1] = x /\ \A k \in 1..n : r[k] = q[k]
  OBVIOUS
<1>2. 1..(n + 1) = 1..n \cup {n + 1}
  BY <1>1
<1> HIDE DEF r, n
<1>3. {r[k] : k \in 1..Len(r)} = {q[k] : k \in 1..n} \cup {x}
  BY <1>1, <1>2
<1> QED BY <1>3 DEF TicksOf, r, n

\* What happens keeps all but what it says of a slot.
Happened ==
  /\ pc = "game" /\ pc' = pc /\ now' = now /\ truth' = truth
  /\ rows' = rows /\ read' = read /\ readAt' = readAt /\ shown' = shown
  /\ \A s \in Slot : rows[s] # <<>>

LEMMA HappenedLate ==
  ASSUME GInv, Happened, NEW s \in Slot
  PROVE  /\ now > 0 /\ rows[s] # <<>> /\ rows[s][1].tick < now /\ now \in Nat
         /\ PastTicks = now /\ PastTicks' = now
<1>1. PastTicks = now /\ PastTicks' = now /\ now \in Nat
  BY StoryType DEF Happened, PastTicks, GInv
<1>2. Reading(rows[s], Story(s), now, now, read[s], readAt, shown) /\ rows[s] # <<>>
  BY <1>1 DEF GInv, Tracked, Happened
<1>3. rows[s] \in Seq(Sample) /\ rows[s][1].tick \in Nat /\ rows[s][1].tick < now
  <2>1. rows[s] \in Seq(Sample)
    BY <1>2 DEF Reading
  <2>2. 1 \in 1..Len(rows[s])
    BY <1>2, <2>1
  <2> QED BY <1>2, <2>1, <2>2, RowTicks
<1> QED BY <1>1, <1>2, <1>3

\* The rows go on showing a slot that something happens to.
LEMMA HappenedReading ==
  ASSUME GInv, Happened, NEW s \in Slot, NEW g, \A t \in 0..now : t # now => g[t] = Story(s)[t],
         Story(s)[now - 1] = Story(s)[now]
  PROVE  Reading(rows[s], g, now, now, read[s], readAt, shown)
<1>1. now \in Nat /\ now > 0 /\ PastTicks = now
  BY HappenedLate
<1>2. Reading(rows[s], Story(s), now, now, read[s], readAt, shown)
  BY <1>1 DEF GInv, Tracked
<1>3. \A x, r : r \in 0..now /\ ShowsAt(Story(s), x, r) => ShowsAt(g, x, r)
  BY <1>1, StillShows
<1>4. now >= now /\ now <= now + 1
  BY <1>1
<1> QED BY <1>1, <1>2, <1>3, <1>4, ReadingKept

LEMMA StaysTracked ==
  ASSUME GInv, Happened, NEW s \in Slot, slots'[s] = slots[s], since'[s] = since[s],
         deaths'[s] = deaths[s], LateTicks(s)' = LateTicks(s), starts' = starts
  PROVE  Tracked(s)'
<1>1. Story(s)' = Story(s)
  BY DEF Story, Past, Happened
<1>2. PastTicks' = PastTicks
  BY DEF PastTicks, Happened
<1>3. Tracked(s)
  BY DEF GInv
<1> QED BY <1>1, <1>2, <1>3 DEF Tracked, Happened

\* A fresh slot is as it was a tick ago.
LEMMA FreshSlot ==
  ASSUME GInv, Happened, NEW s \in Slot, Fresh(s)
  PROVE  /\ since[s] # now /\ now \notin TicksOf(deaths[s]) /\ Story(s)[now - 1] = Story(s)[now]
         /\ Story(s)[now] = slots[s] /\ slots[s] \in State /\ since[s] \in Int
         /\ Story(s) \in [0..now -> State] /\ now \in Nat /\ now > 0 /\ now - 1 \in 0..now
         /\ History(Story(s), now, since[s], TicksOf(deaths[s]), LateTicks(s), TicksOf(starts))
<1>1. since[s] # now /\ now \notin TicksOf(deaths[s])
  BY DEF Fresh, TicksOf
<1>2. now \in Nat /\ now > 0 /\ now - 1 \in 0..now
  <2>1. now \in Nat /\ now > 0
    BY HappenedLate
  <2> QED BY <2>1
<1>3. Story(s)[now] = slots[s] /\ slots[s] \in State /\ Story(s) \in [0..now -> State]
  BY StoryType DEF GInv, Happened
<1>4. History(Story(s), now, since[s], TicksOf(deaths[s]), LateTicks(s), TicksOf(starts))
      /\ since[s] \in Int
  BY DEF GInv, Tracked
<1>5. Story(s)[now - 1] = Story(s)[now]
  BY <1>1, <1>2, <1>4 DEF History, SinceChange
<1> QED BY <1>1, <1>2, <1>3, <1>4, <1>5

\* What happens to a slot is the last of its story.
LEMMA StoryBecomes ==
  ASSUME GInv, Happened, NEW s \in Slot, NEW st, st = slots'[s]
  PROVE  Story(s)' = [Story(s) EXCEPT ![now] = st]
<1>1. now \in Nat /\ Story(s) \in [0..now -> State]
      /\ \A t \in 0..now : Story(s)[t] = IF Past(t) THEN truth[t][s] ELSE slots[s]
  BY StoryType DEF GInv
<1>2. Story(s)' = [t \in 0..now |-> IF Past(t)' THEN truth[t][s] ELSE st]
  BY DEF Story, Happened
<1>3. \A t \in 0..now : Past(t)' = Past(t) /\ (Past(t) <=> t # now)
  BY <1>1 DEF Past, Happened
<1>4. ASSUME NEW t \in 0..now
      PROVE  (IF Past(t)' THEN truth[t][s] ELSE st) = [Story(s) EXCEPT ![now] = st][t]
  <2>1. CASE t = now
    BY <1>1, <1>3, <2>1
  <2>2. CASE t # now
    BY <1>1, <1>3, <2>2
  <2> QED BY <2>1, <2>2
<1> DEFINE g == [Story(s) EXCEPT ![now] = st]
<1>5. g = [t \in 0..now |-> g[t]]
  BY <1>1
<1> QED BY <1>2, <1>4, <1>5

LEMMA BecomesTracked ==
  ASSUME GInv, Happened, NEW s \in Slot, Fresh(s), since'[s] \in Int,
         NEW g, g = Story(s)', \A t \in 0..now : t # now => g[t] = Story(s)[t],
         History(g, now, since'[s], TicksOf(deaths[s])', LateTicks(s)', TicksOf(starts)'),
         deaths'[s] = deaths[s] \/ (deaths[s] \in Seq(0..MaxTick) /\ deaths'[s] = Append(deaths[s], now)),
         starts' = starts \/ (starts \in Seq(0..MaxTick) /\ starts' = Append(starts, now))
  PROVE  Tracked(s)'
<1>1. /\ now \in Nat /\ now > 0 /\ PastTicks' = now /\ now' = now
      /\ rows[s] # <<>> /\ rows[s][1].tick < now /\ rows' = rows
  BY HappenedLate DEF Happened
<1>2. Reading(rows[s], g, now, now, read[s], readAt, shown)
  <2>1. Story(s)[now - 1] = Story(s)[now]
    BY FreshSlot
  <2> QED BY <2>1, HappenedReading
<1>3. Tracked(s)
  BY DEF GInv
<1>4. \A k, m \in 1..Len(deaths'[s]) : k < m => deaths'[s][k] < deaths'[s][m]
  <2>1. CASE deaths'[s] = deaths[s]
    BY <1>3, <2>1 DEF Tracked
  <2>2. CASE deaths[s] \in Seq(0..MaxTick) /\ deaths'[s] = Append(deaths[s], now)
    <3> DEFINE q == deaths[s]
               n == Len(q)
               r == deaths'[s]
    <3>1. n \in Nat /\ Len(r) = n + 1 /\ r[n + 1] = now /\ \A k \in 1..n : r[k] = q[k]
      BY <2>2
    <3>2. \A k \in 1..n : q[k] < now
      <4>1. TicksOf(q) \subseteq 1..now /\ now \notin TicksOf(q)
        BY FreshSlot DEF History
      <4>2. \A k \in 1..n : q[k] \in TicksOf(q)
        BY DEF TicksOf
      <4> HIDE DEF q, n
      <4>3. ASSUME NEW k \in 1..n
            PROVE  q[k] < now
        <5>1. q[k] \in 1..now /\ q[k] # now
          BY <4>1, <4>2
        <5> QED BY <1>1, <5>1
      <4> QED BY <4>3
    <3>3. \A k, m \in 1..n : k < m => q[k] < q[m]
      BY <1>3 DEF Tracked
    <3> HIDE DEF q, n, r
    <3>4. ASSUME NEW k \in 1..Len(r), NEW m \in 1..Len(r), k < m
          PROVE  r[k] < r[m]
      <4>1. k \in 1..n /\ (m = n + 1 \/ m \in 1..n)
        BY <3>1, <3>4
      <4> QED BY <3>1, <3>2, <3>3, <3>4, <4>1
    <3> QED BY <3>4 DEF r
  <2> QED BY <2>1, <2>2
<1>5. \A x \in TicksOf(deaths'[s]) \cup TicksOf(starts') : rows[s] # <<>> /\ rows[s][1].tick < x
  <2>1. TicksOf(deaths'[s]) \subseteq TicksOf(deaths[s]) \cup {now}
    BY TicksOfAppend
  <2>2. TicksOf(starts') \subseteq TicksOf(starts) \cup {now}
    BY TicksOfAppend
  <2>3. \A x \in TicksOf(deaths[s]) \cup TicksOf(starts) : rows[s][1].tick < x
    BY <1>3 DEF Tracked
  <2> QED BY <1>1, <2>1, <2>2, <2>3
<1>6. TicksOf(deaths[s])' = TicksOf(deaths'[s]) /\ TicksOf(starts)' = TicksOf(starts')
  BY DEF TicksOf
<1> QED BY <1>1, <1>2, <1>4, <1>5, <1>6 DEF Tracked, Happened

LEMMA KillTracked ==
  ASSUME GInv, Happened, NEW r \in Slot, Kill(r), NEW s \in Slot
  PROVE  Tracked(s)' /\ since'[s] \in Int
<1>1. /\ Living(slots[r]) /\ Fresh(r) /\ Shown(r)
      /\ slots' = [slots EXCEPT ![r].alive = FALSE, ![r].deaths = @ + 1]
      /\ deaths' = [deaths EXCEPT ![r] = Append(@, now)]
      /\ since' = since /\ starts' = starts /\ late' = late
  BY DEF Kill
<1>2. /\ slots \in [Slot -> State] /\ deaths \in [Slot -> Seq(0..MaxTick)]
      /\ since \in [Slot -> Int] /\ slots[r] \in State /\ deaths[r] \in Seq(0..MaxTick)
  BY DEF GInv, TInv, TeamType, GameType
<1>3. LateTicks(s)' = LateTicks(s)
  BY <1>1 DEF LateTicks
<1>4. CASE s # r
  <2>1. slots'[s] = slots[s] /\ since'[s] = since[s] /\ deaths'[s] = deaths[s] /\ starts' = starts
    BY <1>1, <1>2, <1>4
  <2> QED BY <1>1, <1>2, <1>3, <2>1, StaysTracked
<1>5. CASE s = r
  <2> DEFINE st == [slots[s] EXCEPT !.alive = FALSE, !.deaths = @ + 1]
             g == [Story(s) EXCEPT ![now] = st]
  <2>1. slots'[s] = st /\ deaths'[s] = Append(deaths[s], now) /\ since'[s] = since[s]
    BY <1>1, <1>2, <1>5
  <2>2. g = Story(s)'
    <3> HIDE DEF st
    <3> QED BY <2>1, StoryBecomes
  <2>3. /\ since[s] # now /\ now \notin TicksOf(deaths[s]) /\ Story(s)[now] = slots[s]
        /\ since[s] \in Int /\ Story(s) \in [0..now -> State] /\ now \in Nat /\ now > 0
        /\ History(Story(s), now, since[s], TicksOf(deaths[s]), LateTicks(s), TicksOf(starts))
    BY <1>1, <1>5, FreshSlot
  <2>4. Living(Story(s)[now]) /\ now - since[s] > Period + Delay
    BY <1>1, <1>5, <2>3 DEF Shown
  <2>5. st = [Story(s)[now] EXCEPT !.alive = FALSE, !.deaths = @ + 1]
    BY <2>3
  <2>6. TicksOf(deaths[s])' = TicksOf(deaths[s]) \cup {now} /\ deaths[s] \in Seq(0..MaxTick)
    <3>1. TicksOf(deaths[s])' = TicksOf(deaths'[s])
      BY DEF TicksOf
    <3>2. deaths[s] \in Seq(0..MaxTick)
      BY <1>2, <1>5
    <3>3. TicksOf(Append(deaths[s], now)) = TicksOf(deaths[s]) \cup {now}
      BY <3>2, TicksOfAppend
    <3> QED BY <2>1, <3>1, <3>2, <3>3
  <2> HIDE DEF st
  <2>7. \A t \in 0..now : t # now => g[t] = Story(s)[t]
    BY <2>3
  <2> HIDE DEF g
  <2>8. History(g, now, since[s], TicksOf(deaths[s]) \cup {now}, LateTicks(s), TicksOf(starts))
    BY <2>3, <2>4, <2>5, DeathHistory DEF g
  <2>9. TicksOf(starts)' = TicksOf(starts)
    BY <1>1 DEF TicksOf
  <2>10. History(g, now, since'[s], TicksOf(deaths[s])', LateTicks(s)', TicksOf(starts)')
    BY <1>3, <2>1, <2>6, <2>8, <2>9
  <2>11. Tracked(s)'
    BY <1>1, <1>5, <2>1, <2>2, <2>3, <2>6, <2>7, <2>10, BecomesTracked
  <2> QED BY <2>1, <2>3, <2>11
<1> QED BY <1>4, <1>5

LEMMA LateTracked ==
  ASSUME GInv, Happened, NEW r \in Slot, NEW st \in State, Unannounced(r, st),
         st.deaths = slots[r].deaths \/ (~slots[r].connected /\ now - since[r] >= JoinTime),
         Living(st) /\ ~Living(slots[r]) => \A k \in 1..Len(starts) : now - starts[k] > ResourceLag,
         NEW s \in Slot
  PROVE  Tracked(s)' /\ since'[s] \in Int
<1>1. /\ Fresh(r) /\ Shown(r)
      /\ slots' = [slots EXCEPT ![r] = st]
      /\ since' = [since EXCEPT ![r] = now]
      /\ late' = [late EXCEPT ![now] = @ \cup {r}]
      /\ deaths' = deaths /\ starts' = starts
  BY DEF Unannounced
<1>2. /\ slots \in [Slot -> State] /\ late \in [0..MaxTick -> SUBSET Slot]
      /\ since \in [Slot -> Int] /\ now \in 0..MaxTick /\ now \in Nat
  BY TeamTypes DEF GInv, TInv, TeamType, GameType
<1>3. /\ late'[now] = late[now] \cup {r}
      /\ \A t \in 0..MaxTick : t # now => late'[t] = late[t]
  BY <1>1, <1>2
<1>4. LateTicks(s)' = IF s = r THEN LateTicks(s) \cup {now} ELSE LateTicks(s)
  BY <1>2, <1>3 DEF LateTicks
<1>5. TicksOf(starts)' = TicksOf(starts) /\ TicksOf(deaths[s])' = TicksOf(deaths[s])
  BY <1>1 DEF TicksOf
<1>6. CASE s # r
  <2>1. slots'[s] = slots[s] /\ since'[s] = since[s] /\ deaths'[s] = deaths[s] /\ starts' = starts
    BY <1>1, <1>2, <1>6
  <2>2. LateTicks(s)' = LateTicks(s)
    BY <1>4, <1>6
  <2> QED BY <1>2, <2>1, <2>2, StaysTracked
<1>7. CASE s = r
  <2> DEFINE g == [Story(s) EXCEPT ![now] = st]
  <2>1. slots'[s] = st /\ deaths'[s] = deaths[s] /\ since'[s] = now
    BY <1>1, <1>2, <1>7
  <2>2. g = Story(s)'
    BY <2>1, StoryBecomes
  <2>3. /\ since[s] # now /\ now \notin TicksOf(deaths[s]) /\ Story(s)[now] = slots[s]
        /\ since[s] \in Int /\ Story(s) \in [0..now -> State] /\ now \in Nat /\ now > 0
        /\ History(Story(s), now, since[s], TicksOf(deaths[s]), LateTicks(s), TicksOf(starts))
    BY <1>1, <1>7, FreshSlot
  <2>4. Living(Story(s)[now]) => now - since[s] > Period + Delay
    BY <1>1, <1>7, <2>3 DEF Shown
  <2>5. st.deaths = Story(s)[now].deaths \/ (~Story(s)[now].connected /\ now - since[s] >= JoinTime)
    BY <1>7, <2>3
  <2>6. Living(st) /\ ~Living(Story(s)[now]) => \A x \in TicksOf(starts) : now - x > ResourceLag
    BY <1>7, <2>3 DEF TicksOf
  <2>7. \A t \in 0..now : t # now => g[t] = Story(s)[t]
    BY <2>3
  <2> HIDE DEF g
  <2>8. History(g, now, now, TicksOf(deaths[s]), LateTicks(s) \cup {now}, TicksOf(starts))
    BY <2>3, <2>4, <2>5, <2>6, LateHistory DEF g
  <2>9. History(g, now, since'[s], TicksOf(deaths[s])', LateTicks(s)', TicksOf(starts)')
    BY <1>4, <1>5, <1>7, <2>1, <2>8
  <2>10. since'[s] \in Int
    BY <1>2, <2>1
  <2>11. Tracked(s)'
    BY <1>1, <1>7, <2>1, <2>2, <2>7, <2>9, <2>10, BecomesTracked
  <2> QED BY <2>10, <2>11
<1> QED BY <1>6, <1>7

LEMMA StartTracked ==
  ASSUME GInv, Happened, StartRound, NEW s \in Slot
  PROVE  Tracked(s)' /\ since'[s] \in Int
<1>1. /\ \A k \in 1..Len(starts) : now - starts[k] > ResourceLag
      /\ Fresh(s) /\ starts' = Append(starts, now) /\ deaths' = deaths /\ late' = late
      /\ slots' = [r \in Slot |-> IF slots[r].connected THEN [slots[r] EXCEPT !.alive = TRUE] ELSE slots[r]]
      /\ since' = [r \in Slot |-> IF slots'[r] # slots[r] THEN now ELSE since[r]]
  BY DEF StartRound
<1>2. slots'[s] = IF slots[s].connected THEN [slots[s] EXCEPT !.alive = TRUE] ELSE slots[s]
  BY <1>1
<1>3. since'[s] = IF slots'[s] # slots[s] THEN now ELSE since[s]
  BY <1>1
<1>4. LateTicks(s)' = LateTicks(s) /\ TicksOf(deaths[s])' = TicksOf(deaths[s])
  BY <1>1 DEF LateTicks, TicksOf
<1>5. TicksOf(starts)' = TicksOf(starts) \cup {now} /\ starts \in Seq(0..MaxTick)
  <2>1. starts \in Seq(0..MaxTick)
    BY DEF GInv, TInv, TeamType, GameType
  <2>2. TicksOf(starts)' = TicksOf(starts')
    BY DEF TicksOf
  <2>3. TicksOf(Append(starts, now)) = TicksOf(starts) \cup {now}
    BY <2>1, TicksOfAppend
  <2> QED BY <1>1, <2>1, <2>2, <2>3
<1>6. \A x \in TicksOf(starts) : now - x > ResourceLag
  BY <1>1 DEF TicksOf
<1>7. /\ since[s] # now /\ now \notin TicksOf(deaths[s]) /\ Story(s)[now] = slots[s]
      /\ since[s] \in Int /\ Story(s) \in [0..now -> State] /\ now \in Nat /\ now > 0
      /\ slots[s] \in State
      /\ History(Story(s), now, since[s], TicksOf(deaths[s]), LateTicks(s), TicksOf(starts))
  BY <1>1, FreshSlot
<1>8. since'[s] \in Int
  BY <1>3, <1>7
<1> DEFINE st == slots'[s]
           g == [Story(s) EXCEPT ![now] = st]
<1>9. g = Story(s)'
  BY StoryBecomes
<1>10. \A t \in 0..now : t # now => g[t] = Story(s)[t]
  BY <1>7
<1>11. History(g, now, since'[s], TicksOf(deaths[s]), LateTicks(s), TicksOf(starts) \cup {now})
  <2>1. CASE slots[s].connected /\ ~slots[s].alive
    <3>1. st = [Story(s)[now] EXCEPT !.alive = TRUE]
      BY <1>2, <1>7, <2>1
    <3>2. st.alive # slots[s].alive
      BY <1>2, <1>7, <2>1 DEF State
    <3>3. since'[s] = now
      BY <1>3, <3>2
    <3>4. Story(s)[now].connected /\ ~Story(s)[now].alive
      BY <1>7, <2>1
    <3> HIDE DEF st
    <3>5. History(g, now, now, TicksOf(deaths[s]), LateTicks(s), TicksOf(starts) \cup {now})
      BY <1>6, <1>7, <3>1, <3>4, StartHistory
    <3> QED BY <3>3, <3>5
  <2>2. CASE ~(slots[s].connected /\ ~slots[s].alive)
    <3>1. st = slots[s]
      <4>1. slots[s].connected => slots[s].alive = TRUE
        BY <1>7, <2>2 DEF State
      <4> QED BY <1>2, <1>7, <4>1 DEF State
    <3>2. since'[s] = since[s] /\ g = Story(s)
      BY <1>3, <1>7, <3>1
    <3> HIDE DEF st, g
    <3> QED BY <1>6, <1>7, <3>2, SameHistory
  <2> QED BY <2>1, <2>2
<1> HIDE DEF st, g
<1>12. History(g, now, since'[s], TicksOf(deaths[s])', LateTicks(s)', TicksOf(starts)')
  BY <1>4, <1>5, <1>11
<1>13. deaths'[s] = deaths[s]
  BY <1>1
<1> QED BY <1>1, <1>5, <1>8, <1>9, <1>10, <1>12, <1>13, BecomesTracked

LEMMA HappenTracked ==
  ASSUME GInv, Happen
  PROVE  since' \in [Slot -> Int] /\ \A s \in Slot : Tracked(s)'
<1>1. Happened
  BY DEF Happen, Happened
<1>2. slots \in [Slot -> State] /\ since \in [Slot -> Int] /\ now \in Int
  BY TeamTypes DEF GInv, TInv, TeamType, GameType
<1>3. CASE StartRound
  <2>1. \A s \in Slot : Tracked(s)' /\ since'[s] \in Int
    BY <1>1, <1>3, StartTracked
  <2>2. since' \in [Slot -> Int]
    BY <1>2, <1>3 DEF StartRound
  <2> QED BY <2>1, <2>2
<1>4. ASSUME NEW r \in Slot, Kill(r)
      PROVE  since' \in [Slot -> Int] /\ \A s \in Slot : Tracked(s)'
  <2>1. \A s \in Slot : Tracked(s)'
    BY <1>1, <1>4, KillTracked
  <2>2. since' = since
    BY <1>4 DEF Kill
  <2> QED BY <1>2, <2>1, <2>2
<1>5. ASSUME NEW r \in Slot, NEW st \in State, Unannounced(r, st),
             st.deaths = slots[r].deaths \/ (~slots[r].connected /\ now - since[r] >= JoinTime),
             Living(st) /\ ~Living(slots[r]) => \A k \in 1..Len(starts) : now - starts[k] > ResourceLag
      PROVE  since' \in [Slot -> Int] /\ \A s \in Slot : Tracked(s)'
  <2>1. \A s \in Slot : Tracked(s)'
    BY <1>1, <1>5, LateTracked
  <2>2. since' = [since EXCEPT ![r] = now]
    BY <1>5 DEF Unannounced
  <2> QED BY <1>2, <2>1, <2>2
<1>6. ASSUME NEW r \in Slot, Leave(r)
      PROVE  since' \in [Slot -> Int] /\ \A s \in Slot : Tracked(s)'
  <2> DEFINE st == [slots[r] EXCEPT !.connected = FALSE]
  <2>1. Unannounced(r, st) /\ slots[r] \in State
    BY <1>2, <1>6 DEF Leave
  <2>2. st \in State /\ st.deaths = slots[r].deaths /\ ~Living(st)
    BY <2>1 DEF State, Living
  <2> HIDE DEF st
  <2> QED BY <1>5, <2>1, <2>2
<1>7. ASSUME NEW r \in Slot, Join(r)
      PROVE  since' \in [Slot -> Int] /\ \A s \in Slot : Tracked(s)'
  <2>1. PICK t \in Team : Unannounced(r, [team |-> t, alive |-> FALSE, connected |-> TRUE, deaths |-> 0])
    BY <1>7 DEF Join
  <2> DEFINE st == [team |-> t, alive |-> FALSE, connected |-> TRUE, deaths |-> 0]
  <2>2. ~slots[r].connected /\ now - since[r] >= JoinTime
    BY <1>7 DEF Join
  <2>3. st \in State /\ ~Living(st) /\ Unannounced(r, st)
    BY <2>1 DEF State, Living
  <2> HIDE DEF st
  <2> QED BY <1>5, <2>2, <2>3
<1>8. ASSUME NEW r \in Slot, SwitchTeam(r)
      PROVE  since' \in [Slot -> Int] /\ \A s \in Slot : Tracked(s)'
  <2>1. PICK t \in Team : Unannounced(r, [slots[r] EXCEPT !.team = t])
    BY <1>8 DEF SwitchTeam
  <2> DEFINE st == [slots[r] EXCEPT !.team = t]
  <2>2. slots[r] \in State
    BY <1>2
  <2>3. st \in State /\ st.deaths = slots[r].deaths /\ (Living(st) => Living(slots[r]))
        /\ Unannounced(r, st)
    BY <2>1, <2>2 DEF State, Living
  <2> HIDE DEF st
  <2> QED BY <1>5, <2>3
<1>9. ASSUME NEW r \in Slot, SpawnLate(r)
      PROVE  since' \in [Slot -> Int] /\ \A s \in Slot : Tracked(s)'
  <2> DEFINE st == [slots[r] EXCEPT !.alive = TRUE]
  <2>1. Unannounced(r, st) /\ slots[r] \in State /\ \A k \in 1..Len(starts) : now - starts[k] > ResourceLag
    BY <1>2, <1>9 DEF SpawnLate
  <2>2. st \in State /\ st.deaths = slots[r].deaths
    BY <2>1 DEF State
  <2> HIDE DEF st
  <2> QED BY <1>5, <2>1, <2>2
<1> QED BY <1>3, <1>4, <1>6, <1>7, <1>8, <1>9 DEF Happen

LEMMA RefreshTracked ==
  ASSUME GInv, Refresh, NEW s \in Slot
  PROVE  Tracked(s)'
<1>1. /\ pc = "game" /\ Due /\ shown /\ read' = slots /\ readAt' = now /\ shown' = FALSE
      /\ now' = now /\ slots' = slots /\ since' = since /\ rows' = rows /\ deaths' = deaths
      /\ starts' = starts /\ truth' = truth /\ late' = late /\ pc' = pc
  BY DEF Refresh
<1>2. /\ Story(s)' = Story(s) /\ PastTicks = now /\ PastTicks' = now
      /\ TicksOf(deaths[s])' = TicksOf(deaths[s]) /\ TicksOf(starts)' = TicksOf(starts)
      /\ LateTicks(s)' = LateTicks(s)
  BY <1>1 DEF Story, Past, PastTicks, TicksOf, LateTicks
<1>3. Tracked(s)
  BY DEF GInv
<1>4. readAt = IF now = 0 THEN -1 ELSE now - Period
  BY <1>1 DEF GInv, TInv, ReadOnTime
<1>5. Story(s)[now] = slots[s]
  BY <1>1, StoryType DEF GInv
<1>6. Reading(rows[s], Story(s), now, now, slots[s], now, FALSE)
  <2>1. Reading(rows[s], Story(s), now, now, read[s], readAt, shown)
    BY <1>2, <1>3 DEF Tracked
  <2>2. Reading(rows[s], Story(s), now, now, Story(s)[now], now, FALSE)
    BY <1>1, <1>4, <2>1, RefreshReading
  <2> QED BY <1>5, <2>2
<1>7. Reading(rows[s], Story(s), now, PastTicks, read[s], readAt, shown)'
  BY <1>1, <1>2, <1>6
<1> QED BY <1>1, <1>2, <1>3, <1>7 DEF Tracked

\* A packet adds at most a row of what was read.
LEMMA TickReading ==
  ASSUME GInv, Tick, NEW s \in Slot, NEW q \in Nat, q = now + 1
  PROVE  /\ Reading(rows'[s], Story(s), now, q, read[s], readAt, shown')
         /\ rows[s] # <<>> => rows'[s] # <<>> /\ rows'[s][1] = rows[s][1]
<1>1. /\ pc = "game" /\ ~Due
      /\ \/ ~shown /\ Show(now) /\ shown' = TRUE
         \/ (shown \/ now < readAt + Delay) /\ rows' = rows /\ shown' = shown
  BY DEF Tick
<1>2. /\ now \in Nat /\ read[s] \in State /\ shown \in BOOLEAN /\ rows[s] \in Seq(Sample)
      /\ PastTicks = now
  BY <1>1, TeamTypes DEF GInv, TInv, TeamType, GameType, PastTicks
<1>3. readAt = ReadOf(now)
  BY <1>1 DEF GInv, TInv, ReadOnTime, ReadOf
<1>4. Reading(rows[s], Story(s), now, now, read[s], readAt, shown)
  BY <1>2 DEF GInv, Tracked
<1>5. CASE (shown \/ now < readAt + Delay) /\ rows' = rows /\ shown' = shown
  <2>1. Reading(rows[s], Story(s), now, q, read[s], readAt, shown')
    BY <1>2, <1>3, <1>4, <1>5, TickSame
  <2> QED BY <1>5, <2>1
<1>6. CASE ~shown /\ Show(now) /\ shown' = TRUE
  <2>1. \/ rows'[s] = rows[s] /\ rows[s] # <<>> /\ rows[s][Len(rows[s])].state = read[s]
        \/ rows'[s] = Append(rows[s], [tick |-> now, state |-> read[s]])
    BY <1>6 DEF Show
  <2>2. CASE rows'[s] = rows[s] /\ rows[s] # <<>> /\ rows[s][Len(rows[s])].state = read[s]
    <3>1. Reading(rows[s], Story(s), now, q, read[s], readAt, shown')
      BY <1>2, <1>3, <1>4, <1>6, <2>2, TickSame
    <3> QED BY <2>2, <3>1
  <2>3. CASE rows'[s] = Append(rows[s], [tick |-> now, state |-> read[s]])
    <3> DEFINE row == [tick |-> now, state |-> read[s]]
               rs == rows[s]
               rt == rows'[s]
    <3>1. row \in Sample /\ row.tick = now /\ row.state = read[s]
      BY <1>2 DEF Sample
    <3> HIDE DEF row
    <3>2. rt = Append(rs, row) /\ rs \in Seq(Sample)
      BY <1>2, <2>3 DEF row
    <3> HIDE DEF rs, rt
    <3>3. /\ rt \in Seq(Sample) /\ Len(rt) = Len(rs) + 1 /\ rt[Len(rs) + 1] = row
          /\ \A k \in 1..Len(rs) : rt[k] = rs[k]
      BY <3>1, <3>2
    <3>4. rs # <<>> => rt # <<>> /\ rt[1] = rs[1]
      BY <3>2, <3>3
    <3>5. shown' \in BOOLEAN /\ shown' /\ ~shown
      BY <1>6
    <3>6. Reading(rt, Story(s), now, q, read[s], readAt, shown')
      BY <1>2, <1>3, <1>4, <3>1, <3>3, <3>5, TickRow DEF rs
    <3> QED BY <3>4, <3>6 DEF rs, rt
  <2> QED BY <2>1, <2>2, <2>3
<1> QED BY <1>1, <1>5, <1>6

LEMMA TickTracked ==
  ASSUME GInv, Tick, NEW s \in Slot
  PROVE  Tracked(s)'
<1> DEFINE q == now + 1
<1>1. /\ pc = "game" /\ truth' = [truth EXCEPT ![now] = slots]
      /\ slots' = slots /\ since' = since /\ read' = read /\ readAt' = readAt
      /\ deaths' = deaths /\ starts' = starts /\ late' = late
      /\ IF now < MaxTick THEN now' = q /\ pc' = pc ELSE now' = now /\ pc' = "slot"
  BY DEF Tick
<1>2. /\ now \in Nat /\ now <= MaxTick /\ MaxTick \in Nat /\ q \in Nat /\ now \in 0..MaxTick
      /\ truth \in [0..MaxTick -> [Slot -> State]] /\ Story(s)[now] = slots[s]
      /\ Story(s) \in [0..now -> State]
      /\ \A t \in 0..now : Story(s)[t] = IF Past(t) THEN truth[t][s] ELSE slots[s]
  BY <1>1, TeamTypes, StoryType DEF GInv, TInv, TeamType
<1>3. Tracked(s)
  BY DEF GInv
<1>4. TicksOf(deaths[s])' = TicksOf(deaths[s]) /\ TicksOf(starts)' = TicksOf(starts)
      /\ LateTicks(s)' = LateTicks(s)
  BY <1>1 DEF TicksOf, LateTicks
<1>5. /\ Reading(rows'[s], Story(s), now, q, read[s], readAt, shown')
      /\ rows[s] # <<>> => rows'[s] # <<>> /\ rows'[s][1] = rows[s][1]
  <2> HIDE DEF q
  <2> QED BY <1>2, TickReading DEF q
<1>6. \A t \in 0..now : truth'[t][s] = Story(s)[t]
  <2> SUFFICES ASSUME NEW t \in 0..now PROVE truth'[t][s] = Story(s)[t]
    OBVIOUS
  <2>1. CASE t = now
    BY <1>1, <1>2, <2>1
  <2>2. CASE t # now
    <3>1. Past(t) /\ t \in 0..MaxTick
      BY <1>2, <2>2 DEF Past
    <3> QED BY <1>1, <1>2, <2>2, <3>1
  <2> QED BY <2>1, <2>2
<1>7. /\ \A k, m \in 1..Len(deaths'[s]) : k < m => deaths'[s][k] < deaths'[s][m]
      /\ \A x \in TicksOf(deaths[s])' \cup TicksOf(starts)' : rows'[s] # <<>> /\ rows'[s][1].tick < x
      /\ since'[s] \in Int
  BY <1>1, <1>3, <1>4, <1>5 DEF Tracked
<1>8. CASE now < MaxTick
  <2>1. now' = q /\ pc' = "game" /\ PastTicks' = q
    BY <1>1, <1>8 DEF PastTicks
  <2> DEFINE g == [t \in 0..(now + 1) |-> IF t <= now THEN Story(s)[t] ELSE Story(s)[now]]
  <2>2. Story(s)' = g
    <3>1. Story(s)' = [t \in 0..q |-> IF Past(t)' THEN truth'[t][s] ELSE slots[s]]
      BY <1>1, <2>1 DEF Story
    <3>2. \A t \in 0..q : Past(t)' <=> t <= now
      BY <1>2, <2>1 DEF Past
    <3>3. \A t \in 0..q : t <= now => t \in 0..now
      BY <1>2
    <3> QED BY <1>2, <1>6, <3>1, <3>2, <3>3
  <2>3. History(g, now + 1, since[s], TicksOf(deaths[s]), LateTicks(s), TicksOf(starts))
    BY <1>2, <1>3, TickHistory DEF Tracked
  <2>4. Reading(rows'[s], g, q, q, read[s], readAt, shown')
    <3>1. \A t \in 0..now : t \in 0..(now + 1) /\ t <= now /\ g[t] = Story(s)[t]
      BY <1>2
    <3> HIDE DEF g
    <3>2. ASSUME NEW x, NEW r \in 0..now, ShowsAt(Story(s), x, r)
          PROVE  ShowsAt(g, x, r)
      <4>1. g[r] = Story(s)[r] /\ (r > 0 => r - 1 \in 0..now)
        BY <1>2, <3>1
      <4>2. r > 0 => g[r - 1] = Story(s)[r - 1]
        BY <3>1, <4>1
      <4> QED BY <3>2, <4>1, <4>2 DEF ShowsAt
    <3>3. q >= now /\ q >= q /\ q <= q + 1
      BY <1>2
    <3> HIDE DEF q
    <3> QED BY <1>2, <1>5, <3>2, <3>3, ReadingKept
  <2> HIDE DEF g
  <2>5. History(Story(s), now, since[s], TicksOf(deaths[s]), LateTicks(s), TicksOf(starts))'
    BY <1>1, <1>4, <2>1, <2>2, <2>3
  <2>6. Reading(rows[s], Story(s), now, PastTicks, read[s], readAt, shown)'
    <3> HIDE DEF q
    <3> QED BY <1>1, <2>1, <2>2, <2>4
  <2> QED BY <1>7, <2>5, <2>6 DEF Tracked
<1>9. CASE ~(now < MaxTick)
  <2>1. now' = now /\ pc' = "slot" /\ PastTicks' = q
    BY <1>1, <1>9 DEF PastTicks
  <2>2. Story(s)' = Story(s)
    <3>1. Story(s)' = [t \in 0..now |-> IF Past(t)' THEN truth'[t][s] ELSE slots[s]]
      BY <1>1, <2>1 DEF Story
    <3>2. \A t \in 0..now : Past(t)'
      BY <2>1 DEF Past
    <3>3. Story(s) = [t \in 0..now |-> Story(s)[t]]
      BY <1>2
    <3> QED BY <1>6, <3>1, <3>2, <3>3
  <2>3. History(Story(s), now, since[s], TicksOf(deaths[s]), LateTicks(s), TicksOf(starts))'
    BY <1>1, <1>3, <1>4, <2>1, <2>2 DEF Tracked
  <2>4. Reading(rows[s], Story(s), now, PastTicks, read[s], readAt, shown)'
    <3> HIDE DEF q
    <3> QED BY <1>1, <1>5, <2>1, <2>2
  <2> QED BY <1>7, <2>3, <2>4 DEF Tracked
<1> QED BY <1>8, <1>9

LEMMA GInvInit == Init => GInv
<1> SUFFICES ASSUME Init PROVE GInv
  OBVIOUS
<1>1. TInv
  BY TInvInit
<1>2. /\ now = 0 /\ pc = "game" /\ starts = <<>> /\ readAt = -1 /\ shown = TRUE
      /\ since = [s \in Slot |-> -JoinTime] /\ deaths = [s \in Slot |-> <<>>]
      /\ rows = [s \in Slot |-> <<>>] /\ late = [t \in 0..MaxTick |-> {}]
  BY DEF Init
<1>3. since \in [Slot -> Int]
  BY <1>2, Lags
<1>4. ASSUME NEW s \in Slot
      PROVE  Tracked(s)
  <2>1. rows[s] = <<>> /\ deaths[s] = <<>> /\ since[s] = -JoinTime
    BY <1>2
  <2>2. TicksOf(deaths[s]) = {} /\ TicksOf(starts) = {} /\ LateTicks(s) = {} /\ PastTicks = 0
    BY <1>2, <2>1 DEF TicksOf, LateTicks, PastTicks
  <2>3. Story(s) \in [0..0 -> State]
    BY <1>1, <1>2, StoryType
  <2>4. since[s] \in Int /\ since[s] <= 0
    BY <2>1, Lags
  <2>5. History(Story(s), 0, since[s], {}, {}, {})
    BY <2>3, <2>4, FirstHistory
  <2>6. Reading(rows[s], Story(s), 0, 0, read[s], readAt, shown)
    BY <1>2, <2>1, FirstReading
  <2>7. \A k, m \in 1..Len(deaths[s]) : k < m => deaths[s][k] < deaths[s][m]
    BY <2>1
  <2> QED BY <1>2, <2>2, <2>4, <2>5, <2>6, <2>7 DEF Tracked
<1> QED BY <1>1, <1>2, <1>3, <1>4 DEF GInv

LEMMA GInvStep == GInv /\ [Next]_vars => GInv'
<1> SUFFICES ASSUME GInv, [Next]_vars PROVE GInv'
  OBVIOUS
<1>1. TInv'
  BY TInvStep DEF GInv
<1>2. since \in [Slot -> Int] /\ (pc # "game" => now = MaxTick) /\ \A s \in Slot : Tracked(s)
  BY DEF GInv
<1>3. CASE Happen
  BY <1>1, <1>3, HappenTracked DEF GInv, Happen
<1>4. CASE Refresh
  <2>1. since' = since /\ pc' = pc /\ now' = now
    BY <1>4 DEF Refresh
  <2> QED BY <1>1, <1>2, <1>4, <2>1, RefreshTracked DEF GInv
<1>5. CASE Tick
  <2>1. since' = since /\ (pc' # "game" => now' = MaxTick)
    <3>1. now <= MaxTick /\ now \in Nat /\ MaxTick \in Nat
      BY TeamTypes DEF GInv, TInv
    <3> QED BY <1>5, <3>1 DEF Tick
  <2> QED BY <1>1, <1>2, <1>5, <2>1, TickTracked DEF GInv
<1>6. CASE SlotChanges \/ Done \/ UNCHANGED vars
  <2>1. /\ UNCHANGED game
        /\ pc' = pc \/ (pc # "game" /\ pc' # "game")
    BY <1>6 DEF SlotChanges, TakeDeath, TakeRow, TakeLastDeath, NextSlot, Done, vars
  <2>2. ASSUME NEW s \in Slot
        PROVE  Tracked(s)'
    <3>1. Story(s)' = Story(s) /\ PastTicks' = PastTicks
      BY <2>1 DEF Story, Past, PastTicks, game
    <3>2. TicksOf(deaths[s])' = TicksOf(deaths[s]) /\ TicksOf(starts)' = TicksOf(starts)
          /\ LateTicks(s)' = LateTicks(s)
      BY <2>1 DEF TicksOf, LateTicks, game
    <3> QED BY <1>2, <2>1, <3>1, <3>2 DEF Tracked, game
  <2>3. since' = since /\ now' = now
    BY <2>1 DEF game
  <2> QED BY <1>1, <1>2, <2>1, <2>2, <2>3 DEF GInv
<1> QED BY <1>3, <1>4, <1>5, <1>6 DEF Next, Game

LEMMA GInvHolds == Spec => []GInv
<1> QED BY GInvInit, GInvStep, PTL DEF Spec

\* When the game is over, every slot has its recording.
LEMMA Recorded ==
  ASSUME GInv, pc # "game", NEW s \in Slot
  PROVE  /\ rows[s] # <<>> => Recording(rows[s], deaths[s], Story(s), LateTicks(s), TicksOf(starts))
         /\ rows[s] = <<>> => MaxTick + 1 <= Delay
         /\ \A t \in 0..MaxTick : Story(s)[t] = truth[t][s]
<1>1. now = MaxTick /\ PastTicks = MaxTick + 1 /\ Tracked(s)
  BY DEF GInv, PastTicks
<1>2. History(Story(s), MaxTick, since[s], TicksOf(deaths[s]), LateTicks(s), TicksOf(starts))
      /\ Reading(rows[s], Story(s), MaxTick, MaxTick + 1, read[s], readAt, shown)
  BY <1>1 DEF Tracked
<1>3. Told(Story(s), TicksOf(deaths[s]), LateTicks(s), TicksOf(starts))
  BY <1>2 DEF Told
<1>4. Len(deaths[s]) \in Nat
  <2>1. deaths[s] \in Seq(0..MaxTick)
    BY DEF GInv, TInv, TeamType, GameType
  <2> QED BY <2>1
<1>5. rows[s] # <<>> => Recording(rows[s], deaths[s], Story(s), LateTicks(s), TicksOf(starts))
  BY <1>1, <1>2, <1>3, <1>4 DEF Recording, Tracked
<1>6. rows[s] = <<>> => MaxTick + 1 <= Delay
  BY <1>2 DEF Reading, Shows
<1>7. \A t \in 0..MaxTick : Story(s)[t] = truth[t][s]
  BY <1>1, StoryType DEF GInv, Past
<1> QED BY <1>5, <1>6, <1>7

-----------------------------------------------------------------------------
(* slot_changes behind the game                                            *)

\* latest, lastDeath and deathCount after j rows and e deaths.
Loop(rs, ds, h, lates, begun, j, e, l, ld, c, cs) ==
  /\ j \in Nat /\ e \in Nat
  /\ j = 0 => e = 0 /\ l = None /\ ld = None /\ cs = <<>>
  /\ j > 0 => /\ Midway(rs, ds, h, lates, begun, j, e, l)
              /\ Caught(rs, ds, h, lates, begun, j, e, l, cs)
              /\ c = rs[j].state.deaths
  /\ j < Len(rs) => ld = IF e = 0 THEN None ELSE [tick |-> ds[e], count |-> h[ds[e] - 1].deaths]

AtWork(s) ==
  Loop(rows[s], deaths[s], Story(s), LateTicks(s), TicksOf(starts),
       i - 1, d - 1, latest, lastDeath, deathCount, changes[s])

Finished(s) == \A t : Timely(rows[s], LateTicks(s), t) => Right(changes[s], Story(s), t)

CInv ==
  /\ SInv
  /\ GInv
  /\ pc = "game" => todo = Slot /\ i = 1 /\ d = 1 /\ latest = None /\ lastDeath = None
  /\ pc # "game" => /\ todo # {} /\ rows[This] # <<>> => AtWork(This)
                    /\ \A s \in Slot \ todo : rows[s] # <<>> => Finished(s)
  /\ pc = "done" => todo = {}

LEMMA MaxIs ==
  ASSUME NEW a \in Nat, NEW b \in Nat
  PROVE  /\ Max({a, b}) \in {a, b} /\ a <= Max({a, b}) /\ b <= Max({a, b})
         /\ b <= a => Max({a, b}) = a
<1>1. \A n \in {a, b} : n <= a + b
  OBVIOUS
<1>2. Max({a, b}) \in {a, b} /\ \A n \in {a, b} : n <= Max({a, b})
  BY <1>1, GreatestNat
<1> QED BY <1>2

\* A death takes a living player out on its own tick.
LEMMA DeathWork ==
  ASSUME CInv, pc = "slot", todo # {}, NEW s, s = This, rows[s] # <<>>,
         d <= Len(deaths[s]), Out(deaths[s][d]),
         i <= Len(rows[s]) => /\ deaths[s][d] <= rows[s][i].tick
                              /\ lastDeath' = [tick |-> deaths[s][d], count |-> deathCount]
  PROVE  Loop(rows[s], deaths[s], Story(s), LateTicks(s), TicksOf(starts),
              i - 1, d, latest', lastDeath', deathCount, changes'[s])
<1> DEFINE rs == rows[s]
           ds == deaths[s]
           h == Story(s)
           lates == LateTicks(s)
           begun == TicksOf(starts)
           j == i - 1
           e == d - 1
           n == ds[d]
<1>1. s \in todo /\ s \in Slot /\ i \in Nat \ {0} /\ d \in Nat \ {0} /\ changes \in [Slot -> Seq(Change)]
  BY ThisInTodo DEF CInv, SInv, SlotType
<1>2. Loop(rs, ds, h, lates, begun, j, e, latest, lastDeath, deathCount, changes[s])
  BY DEF CInv, AtWork
<1>3. Recording(rs, ds, h, lates, begun)
  BY <1>1, Recorded DEF CInv
<1>4. /\ j \in Nat /\ e \in Nat /\ i = j + 1 /\ d = e + 1 /\ d \in Nat /\ e < Len(ds) /\ d > 0
      /\ (j < Len(rs) => i <= Len(rs)) /\ Len(rs) \in Nat /\ Len(rs) >= 1 /\ Len(ds) \in Nat
      /\ (i <= Len(rs) => j < Len(rs))
  <2>1. Len(rs) \in Nat /\ Len(rs) >= 1 /\ Len(ds) \in Nat
    <3> HIDE DEF rs, ds, h, lates, begun
    <3> QED BY <1>3, RowRead, DeathTicks
  <2> HIDE DEF rs
  <2> QED BY <1>1, <2>1
<1>5. d \in 1..Len(ds) /\ j < Len(rs) => n <= rs[j + 1].tick
  <2>1. j < Len(rs) => n <= rs[i].tick
    BY <1>4
  <2> QED BY <1>4, <2>1
<1>6. n \in Nat
  <2>1. d \in 1..Len(ds)
    BY <1>4
  <2> HIDE DEF rs, ds, h, lates, begun, n
  <2> QED BY <1>3, <2>1, DeathTicks DEF n
<1> HIDE DEF rs, ds, h, lates, begun, j, e
<1>7. j > 0
  <2> SUFFICES ASSUME j = 0 PROVE FALSE
    BY <1>4
  <2>1. d = 1 /\ j + 1 = 1 /\ j < Len(rs) /\ d \in 1..Len(ds)
    BY <1>2, <1>4 DEF Loop
  <2>2. ds[1] <= rs[1].tick
    BY <1>5, <2>1
  <2>3. rs[1].tick < ds[1] /\ ds[1] \in Nat
    BY <1>3, <2>1, DeathTicks
  <2>4. rs[1].tick \in Nat
    <3>1. 1 \in 1..Len(rs)
      BY <1>4
    <3> QED BY <1>3, <3>1, RowRead
  <2> QED BY <2>2, <2>3, <2>4
<1>8. /\ Midway(rs, ds, h, lates, begun, j, e, latest)
      /\ Caught(rs, ds, h, lates, begun, j, e, latest, changes[s])
      /\ deathCount = rs[j].state.deaths
  BY <1>2, <1>7 DEF Loop
<1>9. e < Len(ds) /\ (j < Len(rs) => ds[e + 1] <= rs[j + 1].tick) /\ ds[e + 1] = n
  <2>1. d \in 1..Len(ds) /\ ds[e + 1] = n
    BY <1>4
  <2> QED BY <1>4, <1>5, <2>1
<1>10. latest.alive /\ latest.tick < n /\ rs[j].state = h[n - 1]
  BY <1>8, <1>9, DeathBase
<1>11. latest \in Change /\ latest # None /\ latest.tick \in Nat
  <2>1. latest \in Change
    BY <1>8 DEF Midway, Stands
  <2> QED BY <2>1, AliveAssumption DEF Change
<1> DEFINE lt == [tick |-> n, team |-> latest.team, alive |-> FALSE]
           ct == Append(changes[s], lt)
<1>12. latest' = lt /\ changes'[s] = ct
  <2>1. Max({n, latest.tick}) = n
    <3> DEFINE m == latest.tick
    <3>1. m \in Nat /\ m < n
      BY <1>10, <1>11
    <3> HIDE DEF m, n
    <3>2. m <= n
      BY <1>6, <3>1
    <3>3. Max({n, m}) = n
      BY <1>6, <3>1, <3>2, MaxIs
    <3> QED BY <3>3 DEF m
  <2>2. latest' = lt /\ changes' = [changes EXCEPT ![s] = Append(@, lt)]
    BY <1>10, <1>11, <2>1 DEF Out, ds
  <2> QED BY <1>1, <2>2
<1>13. Midway(rs, ds, h, lates, begun, j, d, lt) /\ Caught(rs, ds, h, lates, begun, j, d, lt, ct)
  <2>1. lt = [tick |-> ds[e + 1], team |-> latest.team, alive |-> FALSE]
    BY <1>9
  <2> HIDE DEF lt, n
  <2> QED BY <1>4, <1>8, <1>9, <2>1, DeathCaught
<1>14. j < Len(rs) => lastDeath' = [tick |-> n, count |-> h[n - 1].deaths]
  <2>1. j < Len(rs) => lastDeath' = [tick |-> n, count |-> deathCount]
    BY <1>4 DEF rs, ds
  <2> QED BY <1>8, <1>10, <2>1
<1>15. Loop(rs, ds, h, lates, begun, j, d, latest', lastDeath', deathCount, changes'[s])
  <2>1. d # 0 /\ j # 0
    BY <1>4, <1>7
  <2>2. j < Len(rs) => lastDeath' = IF d = 0 THEN None ELSE [tick |-> ds[d], count |-> h[ds[d] - 1].deaths]
    BY <1>14, <2>1
  <2> HIDE DEF lt, ct, n
  <2> QED BY <1>4, <1>7, <1>8, <1>12, <1>13, <2>1, <2>2 DEF Loop
<1> QED BY <1>15 DEF rs, ds, h, lates, begun, j

LEMMA BehindIs ==
  ASSUME TicksOf(starts) \subseteq Nat, NEW t \in Nat
  PROVE  /\ Behind(TicksOf(starts), t) = {} => StartBehind(t) = None
         /\ Behind(TicksOf(starts), t) # {} =>
              /\ StartBehind(t) \in Behind(TicksOf(starts), t)
              /\ StartBehind(t) \in Nat /\ StartBehind(t) # None
<1> DEFINE behind == {starts[k] : k \in {k \in 1..Len(starts) :
                                     starts[k] <= t /\ t - starts[k] <= ResourceLag}}
<1>1. behind = Behind(TicksOf(starts), t)
  BY DEF Behind, TicksOf
<1>2. StartBehind(t) = IF behind = {} THEN None ELSE Max(behind)
  BY DEF StartBehind
<1>3. behind \subseteq Nat /\ \A n \in behind : n <= t
  BY <1>1 DEF Behind
<1> HIDE DEF behind
<1>4. behind # {} => Max(behind) \in behind
  BY <1>3, GreatestNat
<1>5. None \notin Nat
  BY AliveAssumption
<1> QED BY <1>1, <1>2, <1>3, <1>4, <1>5

\* What TakeRow makes of a row: nothing of a stale or a known one.
LEMMA RowTaken ==
  ASSUME CInv, pc = "slot", todo # {}, NEW s, s = This, i <= Len(rows[s]),
         d <= Len(deaths[s]) => deaths[s][d] > rows[s][i].tick,
         NEW row, row = rows[s][i],
         Stale(row) \/ Known(row) => latest' = latest /\ changes' = changes,
         ~(Stale(row) \/ Known(row)) =>
           /\ latest' = [tick |-> ChangeTick(row), team |-> row.state.team, alive |-> Living(row.state)]
           /\ changes' = [changes EXCEPT ![s] = Append(@, latest')]
  PROVE  /\ Midway(rows[s], deaths[s], Story(s), LateTicks(s), TicksOf(starts), i, d - 1, latest')
         /\ Caught(rows[s], deaths[s], Story(s), LateTicks(s), TicksOf(starts), i, d - 1, latest',
                   changes'[s])
<1> DEFINE rs == rows[s]
           ds == deaths[s]
           h == Story(s)
           lates == LateTicks(s)
           begun == TicksOf(starts)
           cs == changes[s]
           j == i - 1
           e == d - 1
           lt == [tick |-> ChangeTick(row), team |-> row.state.team, alive |-> Living(row.state)]
<1>1. s \in todo /\ s \in Slot /\ i \in Nat \ {0} /\ d \in Nat \ {0}
      /\ changes \in [Slot -> Seq(Change)] /\ rs \in Seq(Sample)
  BY ThisInTodo DEF CInv, SInv, SlotType, GInv, TInv, TeamType, GameType
<1>2. i \in 1..Len(rs) /\ rs # <<>> /\ Len(rs) \in Nat
  BY <1>1
<1>3. Loop(rs, ds, h, lates, begun, j, e, latest, lastDeath, deathCount, cs)
  BY <1>2 DEF CInv, AtWork
<1>4. Recording(rs, ds, h, lates, begun)
  BY <1>1, <1>2, Recorded DEF CInv
<1>5. row \in Sample /\ row.tick \in Nat /\ row.state \in State /\ row.state.team \in Team
      /\ Living(row.state) \in BOOLEAN
  <2>1. row \in Sample
    BY <1>1, <1>2
  <2> QED BY <2>1 DEF Sample, State, Living
<1>6. begun \subseteq Nat /\ (\A x \in begun : rs[1].tick < x)
  <2>1. begun \subseteq 1..MaxTick
    <3> HIDE DEF rs, ds, h, lates, begun
    <3> QED BY <1>4, ToldTypes DEF Recording
  <2> QED BY <1>4, <2>1 DEF Recording
<1>7. ChangeTick(row) \in Nat
  BY <1>5, ChangeTickType DEF CInv
<1>8. lt \in Change /\ lt.tick = ChangeTick(row) /\ lt.team = row.state.team
      /\ lt.alive = Living(row.state)
  BY <1>5, <1>7 DEF Change
<1>9. cs \in Seq(Change) /\ (~(Stale(row) \/ Known(row)) => latest' = lt /\ changes'[s] = Append(cs, lt))
  BY <1>1
<1>10. Stale(row) \/ Known(row) => latest' = latest /\ changes'[s] = cs
  OBVIOUS
<1>11. j \in Nat /\ e \in Nat /\ i = j + 1 /\ d = e + 1 /\ j < Len(rs) /\ Len(ds) \in Nat
       /\ (e < Len(ds) => row.tick < ds[e + 1]) /\ row = rs[j + 1]
  <2>1. Len(ds) \in Nat /\ (d <= Len(ds) => ds[d] \in Nat)
    <3> HIDE DEF rs, ds, h, lates, begun
    <3>1. Len(ds) \in Nat
      BY <1>4, DeathTicks
    <3>2. d <= Len(ds) => d \in 1..Len(ds)
      BY <1>1, <3>1
    <3> QED BY <1>4, <3>1, <3>2, DeathTicks
  <2>2. d <= Len(ds) => row.tick < ds[d]
    BY <1>5, <2>1
  <2>3. j \in Nat /\ e \in Nat /\ i = j + 1 /\ d = e + 1 /\ j < Len(rs)
    BY <1>1, <1>2
  <2> HIDE DEF rs, ds
  <2>4. e < Len(ds) => d <= Len(ds)
    BY <2>1, <2>3
  <2> QED BY <2>1, <2>2, <2>3, <2>4 DEF rs
<1>12. lastDeath = IF e = 0 THEN None ELSE [tick |-> ds[e], count |-> h[ds[e] - 1].deaths]
  <2> HIDE DEF rs, ds, h, lates, begun, j, e, cs
  <2> QED BY <1>3, <1>11 DEF Loop
<1> HIDE DEF rs, ds, h, lates, begun, cs, j, e, lt
<1>13. CASE j = 0
  <2>1. e = 0 /\ latest = None /\ cs = <<>> /\ lastDeath = None /\ i = 1 /\ row = rs[1]
    BY <1>3, <1>11, <1>12, <1>13 DEF Loop
  <2>2. ~Stale(row) /\ ~Known(row)
    BY <2>1 DEF Stale, Known
  <2>3. ChangeTick(row) = row.tick
    <3>1. Behind(begun, row.tick) = {}
      <4>1. \A x \in begun : x \in Nat /\ row.tick < x
        BY <1>6, <2>1
      <4> QED BY <1>5, <4>1 DEF Behind
    <3>2. StartBehind(row.tick) = None
      BY <1>5, <1>6, <3>1, BehindIs DEF begun
    <3>3. ChangeTick(row) = Max({row.tick, 0})
      BY <2>1, <3>2 DEF ChangeTick
    <3>4. 0 <= row.tick /\ 0 \in Nat
      BY <1>5
    <3> QED BY <1>5, <3>3, <3>4, MaxIs
  <2>4. latest' = lt /\ changes'[s] = Append(<<>>, lt)
    BY <1>9, <2>1, <2>2
  <2>5. Midway(rs, ds, h, lates, begun, 1, 0, lt) /\ Caught(rs, ds, h, lates, begun, 1, 0, lt, Append(<<>>, lt))
    BY <1>4, <1>8, <2>1, <2>3, FirstCaught
  <2> QED BY <2>1, <2>4, <2>5 DEF rs, ds, h, lates, begun, e
<1>14. CASE j > 0
  <2>1. /\ Midway(rs, ds, h, lates, begun, j, e, latest)
        /\ Caught(rs, ds, h, lates, begun, j, e, latest, cs)
    BY <1>3, <1>14 DEF Loop
  <2>2. latest \in Change /\ latest # None /\ latest.tick \in Nat /\ latest.alive \in BOOLEAN
    <3>1. latest \in Change
      BY <2>1 DEF Midway, Stands
    <3> QED BY <3>1, AliveAssumption DEF Change
  <2>3. Stale(row) <=> e > 0 /\ W(rs, h, i) < ds[e]
    <3>1. CASE e = 0
      <4>1. ~Stale(row)
        BY <1>12, <3>1 DEF Stale
      <4> QED BY <3>1, <4>1
    <3>2. CASE e # 0
      <4>1. e > 0 /\ lastDeath = [tick |-> ds[e], count |-> h[ds[e] - 1].deaths]
        BY <1>11, <1>12, <3>2
      <4>2. lastDeath # None
        <5>1. lastDeath \in [tick : Nat, count : Nat] \cup {None}
          BY DEF CInv, SInv, SlotType
        <5>2. ds[e] \in Nat /\ h[ds[e] - 1].deaths \in Nat
          <6>1. ds[e] \in Nat /\ ds[e] >= 1 /\ ds[e] <= MaxTick /\ MaxTick \in Nat
            BY <2>1, <4>1, MidwayTypes
          <6>2. ds[e] - 1 \in 0..MaxTick
            BY <6>1
          <6>3. h[ds[e] - 1] \in State
            BY <1>4, <6>2, ToldTypes DEF Recording
          <6> QED BY <6>1, <6>3 DEF State
        <5>3. lastDeath \in [tick : Nat, count : Nat]
          BY <4>1, <5>2
        <5> QED BY <5>3, AliveAssumption
      <4>3. Stale(row) <=> /\ Living(row.state) /\ row.tick - ds[e] <= ResourceLag
                           /\ row.state.deaths <= h[ds[e] - 1].deaths
        BY <4>1, <4>2 DEF Stale
      <4>4. row = rs[i]
        BY <1>11
      <4>5. (/\ Living(rs[i].state) /\ rs[i].tick - ds[e] <= ResourceLag
             /\ rs[i].state.deaths <= h[ds[e] - 1].deaths) <=> W(rs, h, i) < ds[e]
        BY <1>11, <2>1, <4>1, StaleHidden
      <4> QED BY <4>1, <4>3, <4>4, <4>5
    <3> QED BY <3>1, <3>2
  <2>4. row = rs[i] /\ (e < Len(ds) => rs[i].tick < ds[e + 1])
    BY <1>11
  <2>5. CASE Stale(row)
    <3>1. /\ Midway(rs, ds, h, lates, begun, i, e, latest)
          /\ Caught(rs, ds, h, lates, begun, i, e, latest, cs)
      BY <1>11, <2>1, <2>3, <2>4, <2>5, StaleCaught
    <3> QED BY <1>10, <2>5, <3>1 DEF rs, ds, h, lates, begun, e
  <2>6. CASE ~Stale(row) /\ Known(row)
    <3>1. latest.team = rs[i].state.team /\ latest.alive = Living(rs[i].state)
      BY <2>4, <2>6 DEF Known
    <3>2. /\ Midway(rs, ds, h, lates, begun, i, e, latest)
          /\ Caught(rs, ds, h, lates, begun, i, e, latest, cs)
      BY <1>11, <2>1, <2>3, <2>4, <2>6, <3>1, KnownCaught
    <3> QED BY <1>10, <2>6, <3>2 DEF rs, ds, h, lates, begun, e
  <2>7. CASE ~Stale(row) /\ ~Known(row)
    <3>1. latest' = lt /\ changes'[s] = Append(cs, lt)
      BY <1>9, <2>7
    <3>2. latest.team # rs[i].state.team \/ latest.alive # Living(rs[i].state)
      BY <2>2, <2>4, <2>7 DEF Known
    <3>3. ~(e > 0 /\ W(rs, h, i) < ds[e])
      BY <2>3, <2>7
    <3>4. lt.team = rs[i].state.team /\ lt.alive = Living(rs[i].state)
      BY <1>8, <2>4
    <3> DEFINE respawn == Living(row.state) /\ ~latest.alive
               own == IF respawn /\ Behind(begun, row.tick) # {} THEN StartBehind(row.tick) ELSE row.tick
    <3>5. ChangeTick(row) = Max({own, latest.tick}) /\ own \in Nat
      <4>1. Behind(begun, row.tick) = {} => StartBehind(row.tick) = None
        BY <1>5, <1>6, BehindIs DEF begun
      <4>2. Behind(begun, row.tick) # {} => StartBehind(row.tick) \in Nat /\ StartBehind(row.tick) # None
        BY <1>5, <1>6, BehindIs DEF begun
      <4>3. (IF (IF respawn THEN StartBehind(row.tick) ELSE None) = None THEN row.tick
              ELSE (IF respawn THEN StartBehind(row.tick) ELSE None)) = own
        <5> HIDE DEF respawn
        <5> QED BY <4>1, <4>2
      <4> QED BY <1>5, <2>2, <4>2, <4>3 DEF ChangeTick
    <3>6. /\ Midway(rs, ds, h, lates, begun, i, e, lt)
          /\ Caught(rs, ds, h, lates, begun, i, e, lt, Append(cs, lt))
      <4>1. CASE respawn /\ Behind(begun, row.tick) # {}
        <5>1. own \in Behind(begun, rs[i].tick)
          BY <1>5, <1>6, <2>4, <4>1, BehindIs DEF begun
        <5>2. Living(rs[i].state) /\ ~latest.alive
          BY <2>4, <4>1
        <5> HIDE DEF own
        <5>3. /\ lt.tick = own \/ lt.tick = latest.tick
              /\ own <= lt.tick /\ latest.tick <= lt.tick
          <6> DEFINE b == latest.tick
          <6>1. own \in Nat /\ b \in Nat /\ lt.tick = Max({own, b})
            BY <1>8, <2>2, <3>5
          <6> HIDE DEF b
          <6>2. Max({own, b}) \in {own, b} /\ own <= Max({own, b}) /\ b <= Max({own, b})
            BY <6>1, MaxIs
          <6> QED BY <6>1, <6>2 DEF b
        <5> QED BY <1>8, <1>11, <2>1, <2>4, <3>3, <3>4, <5>1, <5>2, <5>3, StartPushed
      <4>2. CASE ~(respawn /\ Behind(begun, row.tick) # {})
        <5>1. own = row.tick
          BY <4>2
        <5>2. latest.tick <= rs[i].tick
          BY <1>11, <2>1, <2>4, <3>3, RowOpen
        <5>3. lt.tick = rs[i].tick
          <6> DEFINE a == row.tick
                     b == latest.tick
          <6>1. b <= a /\ a \in Nat /\ b \in Nat
            BY <1>5, <2>2, <2>4, <5>2
          <6>2. ChangeTick(row) = Max({a, b})
            BY <3>5, <5>1
          <6> HIDE DEF a, b
          <6>3. Max({a, b}) = a
            BY <6>1, MaxIs
          <6> QED BY <1>8, <2>4, <6>2, <6>3 DEF a
        <5>4. Living(rs[i].state) /\ ~latest.alive => Behind(begun, rs[i].tick) = {}
          BY <2>4, <4>2
        <5> HIDE DEF respawn, own
        <5>5. j < Len(rs) /\ i = j + 1 /\ (e < Len(ds) => rs[i].tick < ds[e + 1]) /\ lt \in Change
          BY <1>8, <1>11, <2>4
        <5> QED BY <2>1, <3>2, <3>3, <3>4, <5>3, <5>4, <5>5, RowPushed, ZenonT(30)
      <4> QED BY <4>1, <4>2
    <3> QED BY <3>1, <3>6 DEF rs, ds, h, lates, begun, e
  <2> QED BY <2>5, <2>6, <2>7
<1>15. j = 0 \/ j > 0
  BY <1>11
<1> QED BY <1>13, <1>14, <1>15

\* A step of slot_changes within a slot is the slot's own.
LEMMA WorkKept ==
  ASSUME CInv, [Next]_vars, pc = "slot", todo # {}, UNCHANGED <<game, pc, todo>>,
         \A s \in Slot : s # This => changes'[s] = changes[s],
         rows[This] # <<>> =>
           Loop(rows[This], deaths[This], Story(This), LateTicks(This), TicksOf(starts),
                i' - 1, d' - 1, latest', lastDeath', deathCount', changes'[This])
  PROVE  CInv'
<1>1. SInv' /\ GInv'
  BY SInvStep, GInvStep DEF CInv
<1>2. This' = This /\ This \in todo /\ todo \subseteq Slot
  BY ThisInTodo DEF This, CInv, SInv, SlotType
<1>3. ASSUME NEW s \in Slot
      PROVE  Story(s)' = Story(s) /\ LateTicks(s)' = LateTicks(s) /\ TicksOf(starts)' = TicksOf(starts)
  BY DEF Story, Past, LateTicks, TicksOf, game
<1>4. ASSUME rows[This]' # <<>>
      PROVE  AtWork(This)'
  <2>1. Story(This)' = Story(This)
    BY <1>2 DEF Story, Past, game
  <2>2. LateTicks(This)' = LateTicks(This) /\ TicksOf(starts)' = TicksOf(starts)
        /\ rows[This]' = rows[This] /\ deaths[This]' = deaths[This] /\ changes[This]' = changes'[This]
    BY <1>2 DEF LateTicks, TicksOf, game
  <2> QED BY <1>4, <2>1, <2>2 DEF AtWork
<1>5. ASSUME NEW s \in Slot \ todo, rows'[s] # <<>>
      PROVE  Finished(s)'
  <2>1. Finished(s) /\ changes'[s] = changes[s]
    BY <1>2, <1>5 DEF CInv, game
  <2> QED BY <1>3, <2>1 DEF Finished, game
<1> QED BY <1>1, <1>2, <1>4, <1>5 DEF CInv

LEMMA CInvStep == CInv /\ [Next]_vars => CInv'
<1> SUFFICES ASSUME CInv, [Next]_vars PROVE CInv'
  OBVIOUS
<1>1. SInv' /\ GInv'
  BY SInvStep, GInvStep DEF CInv
<1>2. CASE Happen \/ Refresh
  <2>1. pc = "game" /\ pc' = pc /\ UNCHANGED slotVars
    BY <1>2 DEF Happen, Refresh
  <2> QED BY <1>1, <2>1 DEF CInv, slotVars
<1>3. CASE Tick
  <2>1. /\ pc = "game" /\ (pc' = "game" \/ pc' = "slot")
        /\ todo' = Slot /\ i' = 1 /\ d' = 1 /\ latest' = None /\ lastDeath' = None
    BY <1>3 DEF Tick, slotVars, CInv
  <2>2. ASSUME todo' # {}
        PROVE  AtWork(This)'
    <3>1. changes'[This'] = <<>>
      <4>1. This' \in todo'
        BY <2>2 DEF This
      <4>2. LatestIsLast'
        BY <1>1 DEF SInv
      <4> QED BY <2>1, <4>1, <4>2 DEF LatestIsLast
    <3>2. i' - 1 = 0 /\ d' - 1 = 0
      BY <2>1
    <3>3. \A rs, ds, h, lates, begun, c : Loop(rs, ds, h, lates, begun, 0, 0, None, None, c, <<>>)
      BY DEF Loop
    <3>4. Loop(rows'[This'], deaths'[This'], Story(This)', LateTicks(This)', TicksOf(starts)',
               i' - 1, d' - 1, latest', lastDeath', deathCount', changes'[This'])
      BY <2>1, <3>1, <3>2, <3>3
    <3> QED BY <3>4 DEF AtWork
  <2> QED BY <1>1, <2>1, <2>2 DEF CInv
<1>4. CASE TakeDeath \/ TakeLastDeath
  <2> DEFINE s == This
  <2>1. /\ pc = "slot" /\ todo # {} /\ d <= Len(deaths[s]) /\ Out(deaths[s][d]) /\ d' = d + 1
        /\ UNCHANGED <<game, pc, todo, i, deathCount>>
        /\ i <= Len(rows[s]) => /\ deaths[s][d] <= rows[s][i].tick
                                /\ lastDeath' = [tick |-> deaths[s][d], count |-> deathCount]
    <3>1. ASSUME TakeDeath
          PROVE  /\ pc = "slot" /\ todo # {} /\ d <= Len(deaths[s]) /\ Out(deaths[s][d]) /\ d' = d + 1
                 /\ UNCHANGED <<game, pc, todo, i, deathCount>>
                 /\ deaths[s][d] <= rows[s][i].tick
                 /\ lastDeath' = [tick |-> deaths[s][d], count |-> deathCount]
      BY <3>1 DEF TakeDeath, Row, NextDeath
    <3>2. ASSUME TakeLastDeath
          PROVE  /\ pc = "slot" /\ todo # {} /\ d <= Len(deaths[s]) /\ Out(deaths[s][d]) /\ d' = d + 1
                 /\ UNCHANGED <<game, pc, todo, i, deathCount>> /\ i > Len(rows[s])
      BY <3>2 DEF TakeLastDeath, NextDeath
    <3>3. i > Len(rows[s]) => ~(i <= Len(rows[s]))
      <4>1. i \in Nat /\ Len(rows[s]) \in Nat
        <5>1. s \in Slot
          BY <1>4, ThisInTodo, <3>1, <3>2 DEF CInv, SInv, SlotType
        <5>2. rows[s] \in Seq(Sample)
          BY <5>1 DEF CInv, GInv, TInv, TeamType, GameType
        <5> QED BY <5>2 DEF CInv, SInv, SlotType
      <4> QED BY <4>1
    <3> QED BY <1>4, <3>1, <3>2, <3>3
  <2>2. \A r \in Slot : r # s => changes'[r] = changes[r]
    BY <2>1 DEF Out, CInv, SInv, SlotType
  <2>3. d' - 1 = d /\ i' = i /\ deathCount' = deathCount
    BY <2>1 DEF CInv, SInv, SlotType
  <2>4. rows[s] # <<>> => Loop(rows[s], deaths[s], Story(s), LateTicks(s), TicksOf(starts),
                               i - 1, d, latest', lastDeath', deathCount, changes'[s])
    <3> HIDE DEF s
    <3> QED BY <2>1, DeathWork DEF s
  <2>5. UNCHANGED <<game, pc, todo>>
    BY <2>1
  <2> QED BY <2>1, <2>2, <2>3, <2>4, <2>5, WorkKept
<1>5. CASE TakeRow
  <2> DEFINE s == This
             row == rows[s][i]
  <2>1. /\ pc = "slot" /\ todo # {} /\ i <= Len(rows[s])
        /\ (d <= Len(deaths[s]) => deaths[s][d] > rows[s][i].tick)
        /\ deathCount' = row.state.deaths /\ i' = i + 1
        /\ UNCHANGED <<game, pc, todo, d, lastDeath>>
        /\ (Stale(row) \/ Known(row) => latest' = latest /\ changes' = changes)
        /\ (~(Stale(row) \/ Known(row)) =>
              /\ latest' = [tick |-> ChangeTick(row), team |-> row.state.team, alive |-> Living(row.state)]
              /\ changes' = [changes EXCEPT ![s] = Append(@, latest')])
    BY <1>5 DEF TakeRow, Row, NextDeath
  <2>2. s \in Slot /\ i \in Nat \ {0} /\ d \in Nat \ {0} /\ changes \in [Slot -> Seq(Change)]
        /\ rows[s] \in Seq(Sample) /\ Len(rows[s]) \in Nat
    BY <2>1, ThisInTodo DEF CInv, SInv, SlotType, GInv, TInv, TeamType, GameType
  <2>3. \A r \in Slot : r # s => changes'[r] = changes[r]
    BY <2>1, <2>2
  <2>4. i' - 1 = i /\ d' - 1 = d - 1 /\ lastDeath' = lastDeath
    BY <2>1, <2>2
  <2>5. rows[s] # <<>>
    BY <2>1, <2>2
  <2>6. Loop(rows[s], deaths[s], Story(s), LateTicks(s), TicksOf(starts),
             i - 1, d - 1, latest, lastDeath, deathCount, changes[s])
    BY <2>1, <2>5 DEF CInv, AtWork
  <2>7. /\ Midway(rows[s], deaths[s], Story(s), LateTicks(s), TicksOf(starts), i, d - 1, latest')
        /\ Caught(rows[s], deaths[s], Story(s), LateTicks(s), TicksOf(starts), i, d - 1, latest', changes'[s])
    <3> HIDE DEF s, row
    <3> QED BY <2>1, RowTaken DEF s, row
  <2>8. Loop(rows[s], deaths[s], Story(s), LateTicks(s), TicksOf(starts),
             i, d - 1, latest', lastDeath, deathCount', changes'[s])
    <3>1. i \in Nat /\ d - 1 \in Nat /\ i # 0 /\ i - 1 < Len(rows[s])
      BY <2>1, <2>2
    <3>2. deathCount' = rows[s][i].state.deaths
      BY <2>1
    <3>3. lastDeath = IF d - 1 = 0 THEN None
                      ELSE [tick |-> deaths[s][d - 1], count |-> Story(s)[deaths[s][d - 1] - 1].deaths]
      BY <2>6, <3>1 DEF Loop
    <3> HIDE DEF s, row
    <3> QED BY <2>7, <3>1, <3>2, <3>3 DEF Loop
  <2>9. UNCHANGED <<game, pc, todo>>
    BY <2>1
  <2> QED BY <2>1, <2>3, <2>4, <2>8, <2>9, WorkKept
<1>6. CASE NextSlot
  <2> DEFINE s == This
  <2>1. /\ pc = "slot" /\ todo # {} /\ i > Len(rows[s]) /\ d > Len(deaths[s])
        /\ todo' = todo \ {s} /\ i' = 1 /\ d' = 1 /\ latest' = None /\ lastDeath' = None
        /\ pc' = (IF todo' = {} THEN "done" ELSE pc) /\ UNCHANGED <<game, changes>>
    BY <1>6 DEF NextSlot
  <2>2. s \in Slot /\ s \in todo /\ i \in Nat \ {0} /\ d \in Nat \ {0}
        /\ rows[s] \in Seq(Sample) /\ deaths[s] \in Seq(0..MaxTick) /\ Len(rows[s]) \in Nat
        /\ Len(deaths[s]) \in Nat
    <3>1. s \in Slot /\ s \in todo /\ i \in Nat \ {0} /\ d \in Nat \ {0}
      BY <2>1, ThisInTodo DEF CInv, SInv, SlotType
    <3>2. rows[s] \in Seq(Sample) /\ deaths[s] \in Seq(0..MaxTick)
      BY <3>1 DEF CInv, SInv, GameType
    <3> QED BY <3>1, <3>2
  <2>3. rows[s] # <<>> => Finished(s)
    <3> SUFFICES ASSUME rows[s] # <<>>, NEW t, Timely(rows[s], LateTicks(s), t)
                 PROVE  Right(changes[s], Story(s), t)
      BY DEF Finished
    <3>1. Loop(rows[s], deaths[s], Story(s), LateTicks(s), TicksOf(starts),
               i - 1, d - 1, latest, lastDeath, deathCount, changes[s])
      BY <2>1 DEF CInv, AtWork
    <3>2. Len(rows[s]) > 0
      BY <2>2
    <3>3. i - 1 > 0 /\ ~(i - 1 < Len(rows[s])) /\ ~(d - 1 < Len(deaths[s]))
      BY <2>1, <2>2, <3>2
    <3> HIDE DEF s
    <3>4. /\ Midway(rows[s], deaths[s], Story(s), LateTicks(s), TicksOf(starts), i - 1, d - 1, latest)
          /\ Caught(rows[s], deaths[s], Story(s), LateTicks(s), TicksOf(starts), i - 1, d - 1, latest, changes[s])
      BY <3>1, <3>3 DEF Loop
    <3> QED BY <3>3, <3>4, AllRight
  <2>4. ASSUME NEW r \in Slot
        PROVE  Finished(r)' <=> Finished(r)
    BY <2>1 DEF Finished, Story, Past, LateTicks, game, CInv
  <2>5. ASSUME todo' # {}
        PROVE  AtWork(This)'
    <3>1. changes'[This'] = <<>>
      <4>1. This' \in todo'
        BY <2>5 DEF This
      <4>2. LatestIsLast'
        BY <1>1 DEF SInv
      <4> QED BY <2>1, <4>1, <4>2 DEF LatestIsLast
    <3>2. i' - 1 = 0 /\ d' - 1 = 0
      BY <2>1
    <3>3. \A rs, ds, h, lates, begun, c : Loop(rs, ds, h, lates, begun, 0, 0, None, None, c, <<>>)
      BY DEF Loop
    <3>4. Loop(rows'[This'], deaths'[This'], Story(This)', LateTicks(This)', TicksOf(starts)',
               i' - 1, d' - 1, latest', lastDeath', deathCount', changes'[This'])
      BY <2>1, <3>1, <3>2, <3>3
    <3> QED BY <3>4 DEF AtWork
  <2>6. ASSUME NEW r \in Slot \ todo', rows'[r] # <<>>
        PROVE  Finished(r)'
    <3>1. rows[r] # <<>> /\ (r = s \/ r \notin todo)
      BY <2>1, <2>6 DEF game
    <3>2. Finished(r)
      BY <2>1, <2>3, <3>1 DEF CInv
    <3> QED BY <2>4, <3>2
  <2>7. pc' # "game" /\ (pc' = "done" => todo' = {})
    BY <2>1
  <2> HIDE DEF s
  <2> QED BY <1>1, <2>5, <2>6, <2>7 DEF CInv
<1>7. CASE Done \/ UNCHANGED vars
  <2>1. UNCHANGED vars
    BY <1>7 DEF Done
  <2> QED BY <1>1, <2>1 DEF CInv, AtWork, Finished, This, Story, Past, LateTicks, vars, game, slotVars
<1> QED BY <1>2, <1>3, <1>4, <1>5, <1>6, <1>7 DEF Next, Game, SlotChanges

LEMMA CInvHolds == Spec => []CInv
<1>1. Init => CInv
  BY SInvInit, GInvInit DEF Init, CInv
<1> QED BY <1>1, CInvStep, PTL DEF Spec

\* The changes a count at t has behind it.
UpTo(cs, t) == {k \in 1..Len(cs) : cs[k].tick <= t}

\* A slot counts for a team when it lives in it.
LEMMA CountIs ==
  ASSUME NEW cs \in Seq(Change), NEW h, NEW t \in Nat, Right(cs, h, t), NEW team
  PROVE  (UpTo(cs, t) # {} /\ cs[Max(UpTo(cs, t))].team = team /\ cs[Max(UpTo(cs, t))].alive)
         <=> h[t].team = team /\ Living(h[t])
<1>1. PICK k \in 1..Len(cs) : /\ cs[k].tick <= t /\ \A m \in 1..Len(cs) : m > k => cs[m].tick > t
                              /\ Matches(cs[k], h, t)
  BY DEF Right
<1>2. \A m \in 1..Len(cs) : cs[m].tick \in Nat /\ cs[m].alive \in BOOLEAN
  <2>1. \A m \in 1..Len(cs) : cs[m] \in Change
    OBVIOUS
  <2> QED BY <2>1 DEF Change
<1>3. k \in UpTo(cs, t) /\ UpTo(cs, t) \subseteq Nat /\ \A m \in UpTo(cs, t) : m <= Len(cs)
  BY <1>1 DEF UpTo
<1>4. Max(UpTo(cs, t)) \in UpTo(cs, t) /\ k <= Max(UpTo(cs, t))
  <2>1. Len(cs) \in Nat
    OBVIOUS
  <2> QED BY <1>3, <2>1, GreatestNat
<1>5. Max(UpTo(cs, t)) = k
  <2> SUFFICES ASSUME Max(UpTo(cs, t)) > k PROVE FALSE
    BY <1>3, <1>4
  <2>1. Max(UpTo(cs, t)) \in 1..Len(cs) /\ cs[Max(UpTo(cs, t))].tick <= t
    BY <1>4 DEF UpTo
  <2> QED BY <1>1, <1>2, <2>1
<1>6. cs[k].alive = Living(h[t]) /\ (cs[k].alive => cs[k].team = h[t].team) /\ cs[k].alive \in BOOLEAN
  BY <1>1, <1>2 DEF Matches
<1>7. UpTo(cs, t) # {}
  BY <1>3
<1> QED BY <1>5, <1>6, <1>7

\* The counts are the game's on every tick: a death is counted on its own tick
\* and a round start's spawns on its own, whatever the refreshes, their delays
\* and the number of slots, unless a slot changed in a refresh and its delay
\* before.
THEOREM CountsRight == Spec => []CountsFollowGame
<1>1. CInv => CountsFollowGame
  <2> SUFFICES ASSUME CInv, pc = "done", NEW t \in 0..(MaxTick - Period - Delay),
                      FirstShown <= t, Settled(t), NEW team \in Team
               PROVE  Count(team, t)
                      = Cardinality({s \in Slot : truth[t][s].team = team /\ Living(truth[t][s])})
    BY DEF CountsFollowGame
  <2>1. t \in Nat /\ t + Trail <= MaxTick /\ t \in 0..MaxTick /\ MaxTick \in Nat
    BY Lags DEF Trail
  <2>2. ASSUME NEW s \in Slot
        PROVE  /\ changes[s] \in Seq(Change) /\ Right(changes[s], Story(s), t)
               /\ Story(s)[t] = truth[t][s]
    <3>1. pc # "game" /\ todo = {} /\ changes[s] \in Seq(Change)
      BY DEF CInv, SInv, SlotType
    <3>2. /\ rows[s] = <<>> => MaxTick + 1 <= Delay
          /\ \A u \in 0..MaxTick : Story(s)[u] = truth[u][s]
      BY <3>1, Recorded DEF CInv
    <3>3. rows[s] # <<>>
      BY <2>1, <3>2, Trails, Lags
    <3>4. FirstShown = rows[s][1].tick
      <4> DEFINE first == rows[s][1].tick
      <4>1. \A r \in Slot : rows[r][1].tick = first
        BY <3>3 DEF CInv, GInv, TInv, RowsPast
      <4>2. {rows[r][1].tick : r \in Slot} = {first}
        BY <4>1
      <4>3. first \in Nat
        <5>1. rows[s] \in Seq(Sample) /\ rows[s] # <<>>
          BY <3>3 DEF CInv, GInv, TInv, TeamType, GameType
        <5>2. rows[s][1] \in Sample
          BY <5>1
        <5> QED BY <5>2 DEF Sample
      <4> HIDE DEF first
      <4>4. Min({first}) = first
        BY <4>3 DEF Min
      <4> QED BY <4>2, <4>4 DEF FirstShown, first
    <3>5. \A x \in LateTicks(s) : x <= t => x + Trail < t
      <4> SUFFICES ASSUME NEW x \in LateTicks(s), x <= t PROVE x + Trail < t
        OBVIOUS
      <4>1. x \in 0..MaxTick /\ s \in late[x]
        BY DEF LateTicks
      <4>2. x \in 0..t /\ x \in Nat
        BY <2>1, <4>1
      <4>3. ~(t - x <= Period + Delay)
        BY <4>1, <4>2 DEF Settled
      <4> QED BY <2>1, <4>2, <4>3, Lags DEF Trail
    <3>6. Timely(rows[s], LateTicks(s), t)
      BY <2>1, <3>4, <3>5 DEF Timely
    <3>7. Finished(s)
      BY <3>1, <3>3 DEF CInv
    <3> QED BY <2>1, <3>1, <3>2, <3>6, <3>7 DEF Finished
  <2> DEFINE Counts(s) ==
        LET upTo == {k \in 1..Len(changes[s]) : changes[s][k].tick <= t}
        IN upTo # {} /\ changes[s][Max(upTo)].team = team /\ changes[s][Max(upTo)].alive
  <2>3. ASSUME NEW s \in Slot
        PROVE  Counts(s) <=> truth[t][s].team = team /\ Living(truth[t][s])
    <3> DEFINE cs == changes[s]
               h == Story(s)
    <3>1. cs \in Seq(Change) /\ Right(cs, h, t) /\ h[t] = truth[t][s]
      BY <2>2
    <3>2. Counts(s) <=> UpTo(cs, t) # {} /\ cs[Max(UpTo(cs, t))].team = team
                        /\ cs[Max(UpTo(cs, t))].alive
      BY DEF UpTo
    <3> HIDE DEF cs, h, Counts
    <3>3. (UpTo(cs, t) # {} /\ cs[Max(UpTo(cs, t))].team = team /\ cs[Max(UpTo(cs, t))].alive)
          <=> h[t].team = team /\ Living(h[t])
      BY <2>1, <3>1, CountIs
    <3> QED BY <3>1, <3>2, <3>3
  <2>4. Count(team, t) = Cardinality({s \in Slot : Counts(s)})
    BY DEF Count
  <2> HIDE DEF Counts
  <2>5. {s \in Slot : Counts(s)} = {s \in Slot : truth[t][s].team = team /\ Living(truth[t][s])}
    BY <2>3
  <2> QED BY <2>4, <2>5
<1> QED BY <1>1, CInvHolds, PTL
==============================================================================
