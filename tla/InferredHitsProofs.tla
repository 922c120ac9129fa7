------------------------- MODULE InferredHitsProofs --------------------------
(***************************************************************************)
(* Proofs about EntityPass and InferredHits: the samples of any recording  *)
(* of any game of the model, and the hits infer makes of them.             *)
(***************************************************************************)
EXTENDS InferredHits, FiniteSetTheorems, WellFoundedInduction, TLAPS

-----------------------------------------------------------------------------
(* What the invariants speak of                                            *)

\* The worlds of the game: living players, and they alone, have a weapon out,
\* which is there and is nobody else's.
AliveIn(w, p) == w[p].health > 0 /\ w[p].team # 0

World ==
  {w \in [Entity -> PlayerEntity \cup WeaponEntity \cup {None}] :
     /\ \A p \in Player : w[p] \in PlayerEntity \cup {None}
     /\ \A x \in Weapon : w[x] \in WeaponEntity \cup {None}
     /\ \A p \in Player : w[p] # None =>
          /\ w[p].team \in {0, TeamOf[p]}
          /\ AliveIn(w, p) <=> w[p].weapon # None
          /\ w[p].weapon # None => w[w[p].weapon] # None
          /\ \A q \in Player : q # p /\ w[q] # None /\ w[p].weapon # None => w[q].weapon # w[p].weapon}

Death == [victim : Player, attacker : Player \cup {None}]
Packet == [tick : Nat, world : World, view : SUBSET Entity, deaths : Seq(Death)]

\* One death for each victim, who is then not alive.
OnceEach(ds) == \A m, n \in 1..Len(ds) : m # n => ds[m].victim # ds[n].victim

GameOK ==
  /\ far \in BOOLEAN /\ world \in World /\ nextSerial \in Nat /\ tick \in Nat /\ over \in BOOLEAN
  /\ diedAt \in [Player -> Nat \cup {None}]
  /\ fired \in Seq(Death) /\ truth \in Seq(Packet)
  /\ deaths \in Seq([tick : Nat, victim : Player, attacker : Player \cup {None}])
  /\ OnceEach(fired) /\ \A n \in 1..Len(fired) : world[fired[n].victim] # None => ~Alive(fired[n].victim)
  /\ \A i \in 1..Len(truth) : OnceEach(truth[i].deaths)

\* Packets are told apart by their ticks.
Ticks ==
  /\ \A i, j \in 1..Len(truth) : i < j => truth[i].tick < truth[j].tick
  /\ \A i \in 1..Len(truth) : truth[i].tick <= tick
  /\ truth # <<>> => truth[Len(truth)].tick = tick

\* The same entity in two worlds.
Same(a, b) == a # None /\ b # None /\ a.serial = b.serial

\* An entity keeps its kind, and was there in between.
Serials ==
  /\ \A e \in Entity : world[e] # None => world[e].serial < nextSerial
  /\ \A i \in 1..Len(truth), e \in Entity :
       /\ truth[i].world[e] # None => truth[i].world[e].serial < nextSerial
       /\ Same(truth[i].world[e], world[e]) =>
            /\ truth[i].world[e].kind = world[e].kind
            /\ \A h \in i..Len(truth) : Same(truth[i].world[e], truth[h].world[e])
  /\ \A j \in 1..Len(truth), i \in 1..Len(truth), e \in Entity :
       i < j /\ Same(truth[i].world[e], truth[j].world[e]) =>
         /\ truth[i].world[e].kind = truth[j].world[e].kind
         /\ \A h \in i..j : Same(truth[i].world[e], truth[h].world[e])

\* A player's deaths are a respawn apart, and every death event is that of
\* one of them.
Dies(packet, v) == \E n \in 1..Len(packet.deaths) : packet.deaths[n].victim = v

DeathsApart ==
  /\ \A i \in 1..Len(truth), v \in Player : Dies(truth[i], v) => diedAt[v] # None /\ truth[i].tick <= diedAt[v]
  /\ \A i, j \in 1..Len(truth), v \in Player :
       i < j /\ Dies(truth[i], v) /\ Dies(truth[j], v) => truth[i].tick + RespawnTime <= truth[j].tick

IsDeathOf(event, packet, death) ==
  /\ event.tick \in packet.tick..packet.tick + DeathWindow
  /\ event.victim = death.victim /\ event.attacker = death.attacker

DeathEvents ==
  /\ \A n \in 1..Len(deaths) : \E i \in 1..Len(truth) : \E m \in 1..Len(truth[i].deaths) :
       IsDeathOf(deaths[n], truth[i], truth[i].deaths[m])
  /\ \A i \in 1..Len(truth) : \A m \in 1..Len(truth[i].deaths) : \E n \in 1..Len(deaths) :
       IsDeathOf(deaths[n], truth[i], truth[i].deaths[m])

-----------------------------------------------------------------------------

\* What the packet before the last one showed, None before the first.
ShownAt(i, e) == IF i = 0 THEN None ELSE Shown(i, e)

\* The update of an entity from what was shown of it to what is, when it is there.
From(was, is, there, u) ==
  /\ u.kind = IF there = None THEN None ELSE there.kind
  /\ \/ was = None /\ is # None /\ u.type = "enter" /\ u.props = is
     \/ was # None /\ is = None /\ u.type = IF there = None THEN "delete" ELSE "leave"
     \/ /\ was # None /\ is # None /\ u.type = "preserve"
        /\ u.props = [f \in {f \in DOMAIN is : is[f] # was[f]} |-> is[f]]

\* The last packet of which the pass has taken e.
TakenTo(e) == IF inbox[e] = None THEN Len(truth) ELSE Len(truth) - 1

Updates ==
  /\ sent = [e \in Entity |-> ShownAt(Len(truth), e)] /\ inbox \in [Entity -> UpdateType \cup {None}]
  /\ ~Taken => truth # <<>> /\ world = truth[Len(truth)].world /\ ~over
  /\ \A e \in Entity : inbox[e] # None =>
       From(ShownAt(Len(truth) - 1, e), ShownAt(Len(truth), e), truth[Len(truth)].world[e], inbox[e])

PassType ==
  /\ players \in [Player -> PlayerStateType \cup {None}]
  /\ samples \in Seq(Row)
  /\ entity_classes \in [Entity -> WeaponClass \cup {"player", None}]
  /\ \A w \in Weapon : entity_classes[w] # "player"

\* The samples of a player come one a packet at most.
SampleTicks ==
  /\ \A l \in 1..Len(samples) : \E i \in 1..Len(truth) : samples[l].tick = truth[i].tick
  /\ \A l, m \in 1..Len(samples) : l < m => samples[l].tick <= samples[m].tick
  /\ \A l, m \in 1..Len(samples) :
       l < m /\ samples[l].entity_id = samples[m].entity_id => samples[l].tick < samples[m].tick
  /\ \A l \in 1..Len(samples) : samples[l].tick = tick => inbox[samples[l].entity_id] = None

\* The last sample of a player is what was last shown of them.
Carried(i, p) ==
  LET w == ShownBefore(i + 1, p)
      s == Latest(p, truth[i].tick)
  IN IF w = None THEN SamplesBy(p, truth[i].tick) = {}
     ELSE /\ SamplesBy(p, truth[i].tick) # {}
          /\ s.aim = w.aim /\ s.health = w.health /\ s.team = w.team /\ s.alive = (w.health > 0)
          /\ s.in_pvs <=> Shown(i, p) # None

Named(i, p) ==
  LET w == Shown(i, p)
      s == Latest(p, truth[i].tick)
  IN w # None /\ w.weapon # None /\ SeenBefore(w.weapon, i, s.tick) => s.weapon = truth[i].world[w.weapon].kind

\* What the pass has of a player, and of a weapon, after packet i.
Known(i, p) ==
  LET w == ShownBefore(i + 1, p)
      is == ShownAt(i, p)
  IN /\ players[p] # None =>
          w # None /\ players[p].team = w.team /\ players[p].health = w.health /\ players[p].aim = w.aim
     /\ is # None => /\ players[p] # None /\ entity_classes[p] = "player"
                     /\ is.weapon # None => players[p].weapon = is.weapon

Classed(i, w) ==
  \A j \in 1..i :
    w \in truth[j].view /\ Same(truth[j].world[w], truth[i].world[w])
      => entity_classes[w] = truth[j].world[w].kind

PassOK ==
  /\ SampleTicks /\ \A w \in Weapon : Classed(TakenTo(w), w)
  /\ \A p \in Player : Known(TakenTo(p), p) /\ \A i \in 1..TakenTo(p) : Carried(i, p) /\ Named(i, p)

-----------------------------------------------------------------------------

\* Player p's last sample before sample l, and that of sample l's player.
EarlierBy(l, p) == {m \in 1..(l - 1) : samples[m].entity_id = p}
LastBefore(l, p) == IF EarlierBy(l, p) = {} THEN None ELSE samples[Max(EarlierBy(l, p))]
Previous(l) == LastBefore(l, samples[l].entity_id)

\* Sample l is a drop of health, and hit h is its.
Drops(l) ==
  /\ Previous(l) # None /\ Previous(l).alive /\ samples[l].health < Previous(l).health
  /\ samples[l].team \in {2, 3}

IsHitOf(h, l) ==
  /\ h.tick = samples[l].tick /\ h.victim = samples[l].entity_id
  /\ h.damage = Previous(l).health - samples[l].health

HitType ==
  [tick : Nat, victim : Player, attacker : Player \cup {None}, damage : Nat \ {0},
   method : {"kill-event", "aim-v1", "none"}]

\* The death events of a victim about a tick.
DeathsAbout(t, v) == {n \in 1..Len(deaths) : deaths[n].victim = v /\ deaths[n].tick - t \in -DeathWindow..DeathWindow}

\* A fatal hit with a death event has the killer of one; any other one has an
\* attacker when an enemy's last sample aims at the victim.
AimsNow(l, a, v) ==
  LET s == LastBefore(l, a)
  IN /\ s # None /\ s.alive /\ s.team # Previous(l).team /\ s.team \in {2, 3} /\ ~CannotHit(s.weapon)
     /\ s.aim = v

Attributed(h, l) ==
  /\ samples[l].health = 0 /\ DeathsAbout(h.tick, h.victim) # {} =>
       h.method = "kill-event" /\ \E n \in DeathsAbout(h.tick, h.victim) : deaths[n].attacker = h.attacker
  /\ h.method # "kill-event" /\ h.attacker = None => \A a \in Player \ {h.victim} : ~AimsNow(l, a, h.victim)

HitsOK ==
  /\ k \in Nat /\ k <= Len(samples) + 1
  /\ k # 0 => over
  /\ state = [p \in Player |-> LastBefore(k, p)] /\ hits \in Seq(HitType)
  /\ \A n \in 1..Len(hits) : \E l \in 1..(k - 1) : Drops(l) /\ IsHitOf(hits[n], l) /\ Attributed(hits[n], l)
  /\ \A l \in 1..(k - 1) : Drops(l) => \E n \in 1..Len(hits) : IsHitOf(hits[n], l)
  /\ \A m, n \in 1..Len(hits) : m # n => hits[m].tick # hits[n].tick \/ hits[m].victim # hits[n].victim

-----------------------------------------------------------------------------
(* Least and greatest elements                                             *)

LEMMA LeastNat ==
  ASSUME NEW S, S \subseteq Nat, S # {}
  PROVE  Min(S) \in S /\ \A n \in S : Min(S) <= n
<1> DEFINE less == OpToRel(<, Nat)
<1>1. IsWellFoundedOn(less, Nat)
  BY NatLessThanWellFounded
<1>2. \A a, b \in Nat : a < b => <<a, b>> \in less
  BY DEF OpToRel
<1> HIDE DEF less
<1>3. PICK m \in S : \A n \in S : ~(<<n, m>> \in less)
  BY <1>1, WFMin
<1>4. ASSUME NEW n \in S
      PROVE  m <= n
  <2>1. ~(<<n, m>> \in less) /\ m \in Nat /\ n \in Nat
    BY <1>3
  <2>2. ~(n < m)
    BY <1>2, <2>1
  <2> QED BY <2>1, <2>2
<1> QED BY <1>4 DEF Min

\* Numbers up to some bound have a greatest one among them.
LEMMA GreatestNat ==
  ASSUME NEW S, S \subseteq Nat, S # {}, NEW b \in Nat, \A n \in S : n <= b
  PROVE  Max(S) \in S /\ \A n \in S : n <= Max(S)
<1> DEFINE T == {b - n : n \in S}
<1>1. T \subseteq Nat /\ T # {}
  <2>1. \A n \in S : b - n \in Nat
    OBVIOUS
  <2> QED BY <2>1
<1>2. PICK m \in T : \A n \in T : m <= n
  BY <1>1, LeastNat
<1>3. PICK x \in S : m = b - x
  BY <1>2
<1>4. ASSUME NEW n \in S
      PROVE  x >= n
  <2>1. b - x <= b - n /\ x \in Nat /\ n \in Nat
    BY <1>2, <1>3
  <2> QED BY <2>1
<1>5. \E y \in S : \A n \in S : y >= n
  BY <1>4
<1>6. Max(S) \in S /\ \A n \in S : Max(S) >= n
  BY <1>5 DEF Max
<1>7. \A n \in S : n \in Nat
  OBVIOUS
<1> QED BY <1>6, <1>7

\* So have finitely many numbers.
LEMMA GreatestFinite ==
  ASSUME NEW S, S \subseteq Nat, S # {}, IsFiniteSet(S)
  PROVE  Max(S) \in S
<1> DEFINE Bounded(T) == \E b \in Nat : \A n \in T : n <= b
           sizes == {Cardinality(T) : T \in {T \in SUBSET S : ~Bounded(T)}}
<1>1. ASSUME NEW T \in SUBSET S
      PROVE  IsFiniteSet(T) /\ Cardinality(T) \in Nat
  BY FS_Subset, FS_CardinalityType
<1>2. sizes \subseteq Nat
  BY <1>1
<1>3. Bounded(S)
  <2> SUFFICES ASSUME ~Bounded(S) PROVE FALSE
    OBVIOUS
  <2>1. Cardinality(S) \in sizes
    OBVIOUS
  <2>2. Min(sizes) \in sizes /\ \A n \in sizes : Min(sizes) <= n
    BY <1>2, <2>1, LeastNat
  <2>3. PICK T \in SUBSET S : ~Bounded(T) /\ Cardinality(T) = Min(sizes)
    BY <2>2
  <2>4. PICK x \in T : x \in Nat
    <3>1. T # {}
      <4>1. Bounded({})
        BY 0 \in Nat
      <4> QED BY <2>3, <4>1
    <3> QED BY <3>1
  <2>5. T \ {x} \in SUBSET S /\ Cardinality(T \ {x}) = Cardinality(T) - 1
    BY <1>1, <2>4, FS_RemoveElement
  <2>6. Bounded(T \ {x})
    <3> SUFFICES ASSUME ~Bounded(T \ {x}) PROVE FALSE
      OBVIOUS
    <3>1. Cardinality(T \ {x}) \in sizes
      BY <2>5
    <3>2. Min(sizes) <= Cardinality(T \ {x})
      BY <2>2, <3>1
    <3> HIDE DEF sizes
    <3>3. Cardinality(T) \in Nat
      BY <1>1
    <3> QED BY <2>3, <2>5, <3>2, <3>3
  <2>7. PICK b \in Nat : \A n \in T \ {x} : n <= b
    BY <2>6
  <2>8. b + x \in Nat /\ \A n \in T : n <= b + x
    BY <2>4, <2>7
  <2>9. Bounded(T)
    BY <2>8
  <2> QED BY <2>3, <2>9
<1>4. PICK b \in Nat : \A n \in S : n <= b
  BY <1>3
<1> QED BY <1>4, GreatestNat
-----------------------------------------------------------------------------
(* The game's worlds                                                       *)

LEMMA Apart ==
  /\ Player \cap Weapon = {} /\ 0 \notin Entity /\ Entity \subseteq Nat
  /\ \A x \in PlayerEntity \cup WeaponEntity : x # None
  /\ None \notin Player /\ None \notin Weapon
<1>1. \A p \in Player, x \in Weapon : p # x
  BY EntityPassAssumption
<1>2. 0 \notin Entity /\ Entity \subseteq Nat
  BY EntityPassAssumption DEF Entity
<1>3. None \notin Nat /\ None \notin PlayerEntity /\ None \notin WeaponEntity
  BY EntityPassAssumption
<1> QED BY <1>1, <1>2, <1>3 DEF Entity

LEMMA WorldIs ==
  ASSUME NEW w \in World
  PROVE  /\ w \in [Entity -> PlayerEntity \cup WeaponEntity \cup {None}]
         /\ \A p \in Player : w[p] # None => w[p] \in PlayerEntity
         /\ \A x \in Weapon : w[x] # None => w[x] \in WeaponEntity
         /\ \A p \in Player : w[p] # None =>
              /\ w[p].team \in {0, TeamOf[p]} /\ w[p].weapon \in Weapon \cup {None}
              /\ AliveIn(w, p) <=> w[p].weapon # None
              /\ w[p].weapon # None => w[w[p].weapon] # None
              /\ \A q \in Player : q # p /\ w[q] # None /\ w[p].weapon # None => w[q].weapon # w[p].weapon
BY DEF World, PlayerEntity

\* A change of one player keeps the worlds when it leaves the player, and what
\* they have out, in order.
LEMMA OnePlayer ==
  ASSUME GameOK, NEW p \in Player, NEW w \in [Entity -> PlayerEntity \cup WeaponEntity \cup {None}],
         w[p] \in PlayerEntity \cup {None}, \A e \in Entity \ {p} : w[e] = world[e],
         w[p] # None =>
           /\ w[p].team \in {0, TeamOf[p]}
           /\ AliveIn(w, p) <=> w[p].weapon # None
           /\ w[p].weapon # None => w[p].weapon \in Weapon /\ world[w[p].weapon] # None
           /\ \A q \in Player : q # p /\ world[q] # None /\ w[p].weapon # None
                                 => world[q].weapon # w[p].weapon
  PROVE  w \in World
<1>1. \A q \in Player \ {p} : w[q] = world[q]
  BY DEF Entity
<1>2. \A x \in Weapon : w[x] = world[x]
  BY Apart DEF Entity
<1>3. ASSUME NEW q \in Player, w[q] # None
      PROVE  /\ w[q].team \in {0, TeamOf[q]}
             /\ AliveIn(w, q) <=> w[q].weapon # None
             /\ w[q].weapon # None => w[w[q].weapon] # None
             /\ \A r \in Player : r # q /\ w[r] # None /\ w[q].weapon # None => w[r].weapon # w[q].weapon
  <2>1. CASE q = p
    BY <1>1, <1>2, <1>3, <2>1
  <2>2. CASE q # p
    <3>1. w[q] = world[q] /\ world[q] # None
      BY <1>1, <1>3, <2>2
    <3>2. /\ w[q].team \in {0, TeamOf[q]} /\ w[q].weapon \in Weapon \cup {None}
          /\ AliveIn(world, q) <=> world[q].weapon # None
          /\ world[q].weapon # None => world[world[q].weapon] # None
      BY <3>1, WorldIs DEF GameOK
    <3>3. ASSUME NEW r \in Player, r # q, w[r] # None, w[q].weapon # None
          PROVE  w[r].weapon # w[q].weapon
      <4>1. CASE r = p
        BY <3>1, <3>3, <4>1, <2>2
      <4>2. CASE r # p
        BY <1>1, <3>1, <3>3, <4>2, WorldIs DEF GameOK
      <4> QED BY <4>1, <4>2
    <3> QED BY <1>2, <3>1, <3>2, <3>3 DEF AliveIn
  <2> QED BY <2>1, <2>2
<1>4. \A q \in Player : w[q] \in PlayerEntity \cup {None}
  BY <1>1, WorldIs DEF GameOK
<1>5. \A x \in Weapon : w[x] \in WeaponEntity \cup {None}
  BY <1>2, WorldIs DEF GameOK
<1> QED BY <1>3, <1>4, <1>5 DEF World

LEMMA TurnWorld ==
  ASSUME GameOK, NEW p \in Player, Turn(p)
  PROVE  world' \in World
<1>1. PICK a \in Player \cup {None} : world' = [world EXCEPT ![p].aim = a]
  BY DEF Turn, Enemies
<1>2. world[p] # None /\ world[p] \in PlayerEntity
  BY WorldIs DEF GameOK, Turn, Alive
<1>3. /\ world' \in [Entity -> PlayerEntity \cup WeaponEntity \cup {None}]
      /\ world'[p] \in PlayerEntity /\ \A e \in Entity \ {p} : world'[e] = world[e]
      /\ world'[p].team = world[p].team /\ world'[p].health = world[p].health
      /\ world'[p].weapon = world[p].weapon
  BY <1>1, <1>2, WorldIs DEF GameOK, PlayerEntity, Entity
<1>4. /\ world[p].team \in {0, TeamOf[p]} /\ world[p].weapon \in Weapon \cup {None}
      /\ AliveIn(world, p) <=> world[p].weapon # None
      /\ world[p].weapon # None => world[world[p].weapon] # None
      /\ \A q \in Player : q # p /\ world[q] # None /\ world[p].weapon # None => world[q].weapon # world[p].weapon
  BY <1>2, WorldIs DEF GameOK
<1>5. AliveIn(world', p) <=> AliveIn(world, p)
  BY <1>3 DEF AliveIn
<1> QED BY <1>3, <1>4, <1>5, OnePlayer

LEMMA HurtWorld ==
  ASSUME GameOK, NEW v \in Player, Hurt(v)
  PROVE  world' \in World
<1>1. PICK h \in 0..(world[v].health - 1) :
        world' = [world EXCEPT ![v].health = h, ![v].weapon = IF h = 0 THEN None ELSE @]
  BY DEF Hurt
<1>2. world[v] # None /\ world[v] \in PlayerEntity /\ AliveIn(world, v)
  BY WorldIs DEF GameOK, Hurt, Alive, AliveIn
<1>3. h \in Nat
  BY <1>2 DEF PlayerEntity
<1>4. /\ world' \in [Entity -> PlayerEntity \cup WeaponEntity \cup {None}]
      /\ world'[v] \in PlayerEntity /\ \A e \in Entity \ {v} : world'[e] = world[e]
      /\ world'[v].team = world[v].team /\ world'[v].health = h
      /\ world'[v].weapon = IF h = 0 THEN None ELSE world[v].weapon
  BY <1>1, <1>2, <1>3, WorldIs DEF GameOK, PlayerEntity, Entity
<1>5. /\ world[v].team \in {0, TeamOf[v]} /\ world[v].weapon \in Weapon /\ world[world[v].weapon] # None
      /\ \A q \in Player : q # v /\ world[q] # None => world[q].weapon # world[v].weapon
  BY <1>2, WorldIs DEF GameOK
<1>6. world[v].weapon # None /\ (AliveIn(world', v) <=> h # 0)
  BY <1>2, <1>3, <1>4, <1>5, Apart DEF AliveIn
<1>7. CASE h = 0
  BY <1>4, <1>5, <1>6, <1>7, OnePlayer
<1>8. CASE h # 0
  BY <1>4, <1>5, <1>6, <1>8, OnePlayer
<1> QED BY <1>7, <1>8

LEMMA SwitchWorld ==
  ASSUME GameOK, NEW p \in Player, Switch(p)
  PROVE  world' \in World
<1>1. PICK x \in Weapon \ Held : world[x] # None /\ world' = [world EXCEPT ![p].weapon = x]
  BY DEF Switch
<1>2. world[p] # None /\ world[p] \in PlayerEntity /\ AliveIn(world, p)
  BY WorldIs DEF GameOK, Switch, Alive, AliveIn
<1>3. /\ world' \in [Entity -> PlayerEntity \cup WeaponEntity \cup {None}]
      /\ world'[p] \in PlayerEntity /\ \A e \in Entity \ {p} : world'[e] = world[e]
      /\ world'[p].team = world[p].team /\ world'[p].health = world[p].health
      /\ world'[p].weapon = x
  BY <1>1, <1>2, WorldIs DEF GameOK, PlayerEntity, Entity
<1>4. x \in Weapon /\ x # None /\ \A q \in Player : world[q] # None => world[q].weapon # x
  BY <1>1, Apart DEF Held
<1>5. /\ world'[p].team \in {0, TeamOf[p]} /\ AliveIn(world', p)
      /\ world'[p].weapon \in Weapon /\ world[world'[p].weapon] # None
      /\ \A q \in Player : world[q] # None => world[q].weapon # world'[p].weapon
  <2>1. world[p].team \in {0, TeamOf[p]}
    BY <1>2, WorldIs DEF GameOK
  <2>2. AliveIn(world', p)
    BY <1>2, <1>3 DEF AliveIn
  <2> QED BY <1>1, <1>3, <1>4, <2>1, <2>2
<1>6. world'[p].weapon # None
  BY <1>3, <1>4
<1> QED BY <1>3, <1>5, <1>6, OnePlayer DEF GameOK

\* So does taking away weapons that nobody has out any more.
LEMMA WeaponsGone ==
  ASSUME GameOK, NEW w \in [Entity -> PlayerEntity \cup WeaponEntity \cup {None}],
         \A q \in Player : w[q] \in {world[q], None},
         \A x \in Weapon : w[x] \in {world[x], None},
         \A q \in Player : w[q] # None /\ w[q].weapon # None => w[w[q].weapon] = world[w[q].weapon]
  PROVE  w \in World
<1>1. ASSUME NEW q \in Player, w[q] # None
      PROVE  /\ w[q].team \in {0, TeamOf[q]}
             /\ AliveIn(w, q) <=> w[q].weapon # None
             /\ w[q].weapon # None => w[w[q].weapon] # None
             /\ \A r \in Player : r # q /\ w[r] # None /\ w[q].weapon # None => w[r].weapon # w[q].weapon
  <2>1. w[q] = world[q] /\ \A r \in Player : w[r] # None => w[r] = world[r]
    BY <1>1
  <2>2. /\ world[q].team \in {0, TeamOf[q]}
        /\ AliveIn(world, q) <=> world[q].weapon # None
        /\ world[q].weapon # None => world[world[q].weapon] # None
        /\ \A r \in Player : r # q /\ world[r] # None /\ world[q].weapon # None
                              => world[r].weapon # world[q].weapon
    BY <1>1, <2>1, WorldIs DEF GameOK
  <2>3. w[q].weapon # None => w[w[q].weapon] # None
    BY <1>1, <2>1, <2>2
  <2> QED BY <2>1, <2>2, <2>3 DEF AliveIn
<1>2. \A q \in Player : w[q] \in PlayerEntity \cup {None}
  BY WorldIs DEF GameOK
<1>3. \A x \in Weapon : w[x] \in WeaponEntity \cup {None}
  BY WorldIs DEF GameOK
<1> QED BY <1>1, <1>2, <1>3 DEF World

LEMMA RemoveWorld ==
  ASSUME GameOK, NEW x \in Weapon, RemoveWeapon(x)
  PROVE  world' \in World
<1>1. x \notin Held /\ world' = [world EXCEPT ![x] = None]
  BY DEF RemoveWeapon
<1>2. /\ world' \in [Entity -> PlayerEntity \cup WeaponEntity \cup {None}]
      /\ world'[x] = None /\ \A e \in Entity \ {x} : world'[e] = world[e]
  BY <1>1, WorldIs DEF GameOK, Entity
<1>3. \A q \in Player : world[q] # None => world[q].weapon # x
  BY <1>1, Apart DEF Held
<1>4. \A q \in Player : world'[q] = world[q]
  BY <1>2, Apart DEF Entity
<1>5. \A q \in Player : world[q] # None /\ world[q].weapon # None => world'[world[q].weapon] = world[world[q].weapon]
  <2> SUFFICES ASSUME NEW q \in Player, world[q] # None, world[q].weapon # None
               PROVE  world'[world[q].weapon] = world[world[q].weapon]
    OBVIOUS
  <2>1. world[q].weapon \in Weapon /\ world[q].weapon # x
    BY <1>3, WorldIs DEF GameOK
  <2> QED BY <1>2, <2>1 DEF Entity
<1>6. \A y \in Weapon : world'[y] \in {world[y], None}
  BY <1>2 DEF Entity
<1> QED BY <1>2, <1>4, <1>5, <1>6, WeaponsGone

LEMMA SpawnWorld ==
  ASSUME GameOK, NEW p \in Player, Spawn(p)
  PROVE  world' \in World
<1>1. PICK x \in Weapon, c \in WeaponClass, h \in Full :
        /\ world[x] = None
        /\ world' = [e \in Entity |->
             IF e = p THEN [world[p] EXCEPT !.health = h, !.team = TeamOf[p], !.weapon = x]
             ELSE IF e = x THEN [kind |-> c, serial |-> nextSerial]
             ELSE IF e = world[p].weapon THEN None ELSE world[e]]
  BY DEF Spawn, Unused
<1>2. world[p] # None /\ world[p] \in PlayerEntity
  BY WorldIs DEF GameOK, Spawn
<1>3. h \in Nat \ {0} /\ TeamOf[p] \in {2, 3} /\ x # p /\ p \in Entity /\ x \in Entity
  BY EntityPassAssumption, Apart DEF Entity
<1>4. /\ world' \in [Entity -> PlayerEntity \cup WeaponEntity \cup {None}]
      /\ world'[p] \in PlayerEntity /\ world'[p].team = TeamOf[p] /\ world'[p].health = h
      /\ world'[p].weapon = x /\ world'[x] \in WeaponEntity
      /\ \A e \in Entity \ {p, x} : world'[e] = IF e = world[p].weapon THEN None ELSE world[e]
  <2> DEFINE new == [world[p] EXCEPT !.health = h, !.team = TeamOf[p], !.weapon = x]
             it == [kind |-> c, serial |-> nextSerial]
  <2>1. new \in PlayerEntity /\ new.team = TeamOf[p] /\ new.health = h /\ new.weapon = x
    BY <1>2, <1>3 DEF PlayerEntity
  <2>2. it \in WeaponEntity
    BY DEF GameOK, WeaponEntity
  <2>3. /\ world'[p] = new /\ world'[x] = it
        /\ \A e \in Entity \ {p, x} : world'[e] = IF e = world[p].weapon THEN None ELSE world[e]
    BY <1>1, <1>3
  <2> HIDE DEF new, it
  <2>4. world' = [e \in Entity |-> world'[e]]
    BY <1>1
  <2>5. \A e \in Entity : world'[e] \in PlayerEntity \cup WeaponEntity \cup {None}
    BY <2>1, <2>2, <2>3, WorldIs DEF GameOK
  <2> QED BY <2>1, <2>2, <2>3, <2>4, <2>5
<1>5. world[p].weapon \in Weapon \cup {None} /\ world[p].weapon \notin Player
  BY <1>2, WorldIs, Apart DEF GameOK
<1>6. \A q \in Player \ {p} : world'[q] = world[q]
  BY <1>3, <1>4, <1>5, Apart DEF Entity
<1>7. \A q \in Player \ {p} : world[q] # None => world[q].weapon # x
  BY <1>1, <1>3, WorldIs, Apart DEF GameOK
<1>8. ASSUME NEW q \in Player, world'[q] # None
      PROVE  /\ world'[q].team \in {0, TeamOf[q]}
             /\ AliveIn(world', q) <=> world'[q].weapon # None
             /\ world'[q].weapon # None => world'[world'[q].weapon] # None
  <2>1. CASE q = p
    BY <1>3, <1>4, <2>1, Apart DEF AliveIn
  <2>2. CASE q # p
    <3>1. world'[q] = world[q]
      BY <1>6, <2>2
    <3>2. world[q].weapon # None => world[q].weapon # world[p].weapon
      BY <1>2, <1>8, <2>2, <3>1, WorldIs DEF GameOK
    <3>3. world[q].weapon # None => world'[world[q].weapon] = world[world[q].weapon]
      <4> SUFFICES ASSUME world[q].weapon # None PROVE world'[world[q].weapon] = world[world[q].weapon]
        OBVIOUS
      <4>1. world[q].weapon \in Weapon /\ world[q].weapon # x
        BY <1>7, <1>8, <2>2, <3>1, WorldIs DEF GameOK
      <4>2. world[q].weapon \in Entity \ {p, x}
        BY <4>1, Apart DEF Entity
      <4> QED BY <1>4, <3>2, <4>2
    <3> QED BY <1>8, <3>1, <3>3, WorldIs DEF GameOK, AliveIn
  <2> QED BY <2>1, <2>2
<1>9. ASSUME NEW q \in Player, NEW r \in Player, r # q, world'[q] # None, world'[r] # None,
             world'[q].weapon # None
      PROVE  world'[r].weapon # world'[q].weapon
  <2>1. CASE q = p
    BY <1>4, <1>6, <1>7, <1>9, <2>1
  <2>2. CASE r = p
    BY <1>4, <1>6, <1>7, <1>9, <2>2
  <2>3. CASE q # p /\ r # p
    BY <1>6, <1>9, <2>3, WorldIs DEF GameOK
  <2> QED BY <2>1, <2>2, <2>3
<1>10. \A y \in Weapon : world'[y] \in WeaponEntity \cup {None}
  BY <1>3, <1>4, WorldIs, Apart DEF GameOK, Entity
<1>11. \A q \in Player : world'[q] \in PlayerEntity \cup {None}
  BY <1>4, <1>6, WorldIs DEF GameOK
<1> QED BY <1>4, <1>8, <1>9, <1>10, <1>11 DEF World

LEMMA DisconnectWorld ==
  ASSUME GameOK, NEW p \in Player, Disconnect(p)
  PROVE  world' \in World
<1>1. /\ world[p] # None
      /\ world' = [e \in Entity |-> IF e \in {p, world[p].weapon} THEN None ELSE world[e]]
  BY DEF Disconnect
<1>2. world[p] \in PlayerEntity /\ world[p].weapon \in Weapon \cup {None} /\ world[p].weapon \notin Player
  BY <1>1, WorldIs, Apart DEF GameOK
<1>3. /\ world' \in [Entity -> PlayerEntity \cup WeaponEntity \cup {None}]
      /\ world'[p] = None /\ \A q \in Player \ {p} : world'[q] = world[q]
      /\ \A x \in Weapon : world'[x] = IF x = world[p].weapon THEN None ELSE world[x]
  BY <1>1, <1>2, WorldIs, Apart DEF GameOK, Entity
<1>4. ASSUME NEW q \in Player, world'[q] # None, world'[q].weapon # None
      PROVE  world'[world'[q].weapon] = world[world'[q].weapon]
  <2>1. q # p /\ world'[q] = world[q]
    BY <1>3, <1>4
  <2>2. world[q].weapon \in Weapon /\ world[q].weapon # world[p].weapon
    BY <1>1, <1>4, <2>1, WorldIs DEF GameOK
  <2> QED BY <1>3, <2>1, <2>2
<1> QED BY <1>3, <1>4, WeaponsGone

LEMMA ConnectWorld ==
  ASSUME GameOK, NEW p \in Player, Connect(p)
  PROVE  world' \in World
<1> DEFINE new == [kind |-> "player", serial |-> nextSerial, team |-> 0, health |-> 1, aim |-> None,
                   weapon |-> None]
<1>1. world' = [world EXCEPT ![p] = new]
  BY DEF Connect
<1>2. new \in PlayerEntity /\ new.team = 0 /\ new.weapon = None
  BY DEF GameOK, PlayerEntity
<1> HIDE DEF new
<1>3. /\ world' \in [Entity -> PlayerEntity \cup WeaponEntity \cup {None}]
      /\ world'[p] = new /\ \A e \in Entity \ {p} : world'[e] = world[e]
  BY <1>1, <1>2, WorldIs DEF GameOK, Entity
<1> QED BY <1>2, <1>3, WorldIs, OnePlayer, Apart DEF GameOK, AliveIn
-----------------------------------------------------------------------------
(* What happens between packets                                            *)

\* The entities that a step leaves are the same ones.
Evolves ==
  \A e \in Entity :
    \/ world'[e] = None
    \/ world[e] # None /\ world'[e].serial = world[e].serial /\ world'[e].kind = world[e].kind
    \/ world'[e].serial = nextSerial /\ nextSerial' = nextSerial + 1

\* A death is of a player alive before, and the dead stay so.
Deaths ==
  \/ fired' = fired /\ \A v \in Player : world'[v] = world[v] \/ Alive(v) \/ ~Alive(v)' \/ v \notin Victims
  \/ \E v \in Player, a \in Player \cup {None} :
       /\ Alive(v) /\ ~Alive(v)' /\ \A q \in Player \ {v} : world'[q] = world[q]
       /\ fired' = Append(fired, [victim |-> v, attacker |-> a])

GameFrame ==
  /\ ~over /\ Taken /\ truth # <<>>
  /\ far' \in BOOLEAN /\ nextSerial' \in {nextSerial, nextSerial + 1}
  /\ UNCHANGED <<sent, tick, diedAt, truth, over, deaths, pass>>

LEMMA OldWorld ==
  ASSUME GameOK, NEW e \in Entity, world[e] # None
  PROVE  world[e] \in PlayerEntity \cup WeaponEntity /\ world[e].serial \in Nat
<1>1. world[e] \in PlayerEntity \cup WeaponEntity
  BY WorldIs DEF GameOK
<1> QED BY <1>1 DEF PlayerEntity, WeaponEntity

LEMMA TurnStep ==
  ASSUME GameOK, NEW p \in Player, Turn(p)
  PROVE  world' \in World /\ Evolves /\ Deaths /\ GameFrame
<1>1. PICK a \in Player \cup {None} : world' = [world EXCEPT ![p].aim = a]
  BY DEF Turn, Enemies
<1>2. GameFrame /\ Alive(p) /\ fired' = fired
  BY DEF Turn, Happen, GameFrame, pass, GameOK
<1>3. world[p] \in PlayerEntity /\ world[p] # None /\ p \in Entity /\ world \in [Entity -> PlayerEntity \cup WeaponEntity \cup {None}]
  BY <1>2, WorldIs DEF GameOK, Alive, Entity
<1>4. /\ \A e \in Entity \ {p} : world'[e] = world[e]
      /\ world'[p].serial = world[p].serial /\ world'[p].kind = world[p].kind
  BY <1>1, <1>3 DEF PlayerEntity
<1>5. Evolves
  BY <1>3, <1>4 DEF Evolves
<1>6. Deaths
  BY <1>2, <1>4, Apart DEF Deaths, Entity
<1> QED BY <1>2, <1>5, <1>6, TurnWorld

LEMMA HurtStep ==
  ASSUME GameOK, NEW v \in Player, Hurt(v)
  PROVE  world' \in World /\ Evolves /\ Deaths /\ GameFrame
<1>1. PICK a \in Dealers(v), h \in 0..(world[v].health - 1) :
        /\ world' = [world EXCEPT ![v].health = h, ![v].weapon = IF h = 0 THEN None ELSE @]
        /\ fired' = IF h = 0 THEN Append(fired, [victim |-> v, attacker |-> a]) ELSE fired
  BY DEF Hurt
<1>2. GameFrame /\ Alive(v) /\ a \in Player \cup {None}
  BY DEF Hurt, Happen, GameFrame, pass, GameOK, Dealers, Enemies
<1>3. world[v] \in PlayerEntity /\ world[v] # None /\ v \in Entity /\ world \in [Entity -> PlayerEntity \cup WeaponEntity \cup {None}]
  BY <1>2, WorldIs DEF GameOK, Alive, Entity
<1>4. /\ \A e \in Entity \ {v} : world'[e] = world[e]
      /\ world'[v].serial = world[v].serial /\ world'[v].kind = world[v].kind /\ world'[v].health = h
  BY <1>1, <1>3 DEF PlayerEntity
<1>5. Evolves
  BY <1>3, <1>4 DEF Evolves
<1>6. \A q \in Player \ {v} : world'[q] = world[q]
  BY <1>4 DEF Entity
<1>7. CASE h = 0
  <2>1. ~Alive(v)'
    BY <1>4, <1>7 DEF Alive
  <2> QED BY <1>1, <1>2, <1>5, <1>6, <1>7, <2>1, HurtWorld DEF Deaths
<1>8. CASE h # 0
  <2>1. Deaths
    BY <1>1, <1>2, <1>6, <1>8 DEF Deaths
  <2> QED BY <1>2, <1>5, <2>1, HurtWorld
<1> QED BY <1>7, <1>8

LEMMA SwitchStep ==
  ASSUME GameOK, NEW p \in Player, Switch(p)
  PROVE  world' \in World /\ Evolves /\ Deaths /\ GameFrame
<1>1. PICK x \in Weapon : world' = [world EXCEPT ![p].weapon = x]
  BY DEF Switch
<1>2. GameFrame /\ Alive(p) /\ fired' = fired
  BY DEF Switch, Happen, GameFrame, pass, GameOK
<1>3. world[p] \in PlayerEntity /\ world[p] # None /\ p \in Entity /\ world \in [Entity -> PlayerEntity \cup WeaponEntity \cup {None}]
  BY <1>2, WorldIs DEF GameOK, Alive, Entity
<1>4. /\ \A e \in Entity \ {p} : world'[e] = world[e]
      /\ world'[p].serial = world[p].serial /\ world'[p].kind = world[p].kind
  BY <1>1, <1>3 DEF PlayerEntity
<1>5. Evolves
  BY <1>3, <1>4 DEF Evolves
<1>6. Deaths
  BY <1>2, <1>4 DEF Deaths, Entity
<1> QED BY <1>2, <1>5, <1>6, SwitchWorld

LEMMA RemoveStep ==
  ASSUME GameOK, NEW x \in Weapon, RemoveWeapon(x)
  PROVE  world' \in World /\ Evolves /\ Deaths /\ GameFrame
<1>1. world' = [world EXCEPT ![x] = None] /\ GameFrame /\ fired' = fired
  BY DEF RemoveWeapon, Happen, GameFrame, pass, GameOK
<1>2. world \in [Entity -> PlayerEntity \cup WeaponEntity \cup {None}]
  BY WorldIs DEF GameOK
<1>3. \A e \in Entity : world'[e] \in {world[e], None} /\ (e # x => world'[e] = world[e])
  BY <1>1, <1>2
<1>4. Evolves
  BY <1>3 DEF Evolves
<1>5. Deaths
  BY <1>1, <1>3, Apart DEF Deaths, Entity
<1> QED BY <1>1, <1>4, <1>5, RemoveWorld

LEMMA SpawnStep ==
  ASSUME GameOK, NEW p \in Player, Spawn(p)
  PROVE  world' \in World /\ Evolves /\ Deaths /\ GameFrame
<1>1. PICK x \in Weapon, c \in WeaponClass, h \in Full :
        world' = [e \in Entity |->
             IF e = p THEN [world[p] EXCEPT !.health = h, !.team = TeamOf[p], !.weapon = x]
             ELSE IF e = x THEN [kind |-> c, serial |-> nextSerial]
             ELSE IF e = world[p].weapon THEN None ELSE world[e]]
  BY DEF Spawn
<1>2. /\ GameFrame /\ world[p] # None /\ fired' = fired /\ nextSerial' = nextSerial + 1
      /\ p \notin {d.victim : d \in Range(fired)}
  BY DEF Spawn, Happen, GameFrame, pass, GameOK
<1>3. world[p] \in PlayerEntity /\ p \in Entity /\ x \in Entity /\ x # p
  BY <1>2, WorldIs, Apart DEF GameOK, Entity
<1>4. /\ world'[p].serial = world[p].serial /\ world'[p].kind = world[p].kind
      /\ world'[x].serial = nextSerial
      /\ \A e \in Entity \ {p, x} : world'[e] = IF e = world[p].weapon THEN None ELSE world[e]
  BY <1>1, <1>3 DEF PlayerEntity
<1>5. Evolves
  BY <1>2, <1>3, <1>4 DEF Evolves
<1>6. p \notin Victims /\ world[p].weapon \notin Player
  BY <1>2, WorldIs, Apart DEF GameOK, Victims
<1>7. \A q \in Player \ {p} : world'[q] = world[q]
  BY <1>3, <1>4, <1>6, Apart DEF Entity
<1>8. Deaths
  BY <1>2, <1>6, <1>7 DEF Deaths
<1> QED BY <1>2, <1>5, <1>8, SpawnWorld

LEMMA DisconnectStep ==
  ASSUME GameOK, NEW p \in Player, Disconnect(p)
  PROVE  world' \in World /\ Evolves /\ Deaths /\ GameFrame
<1>1. /\ world[p] # None /\ GameFrame /\ fired' = fired
      /\ world' = [e \in Entity |-> IF e \in {p, world[p].weapon} THEN None ELSE world[e]]
  BY DEF Disconnect, Happen, GameFrame, pass, GameOK
<1>2. world[p].weapon \notin Player /\ p \in Entity
  BY <1>1, WorldIs, Apart DEF GameOK, Entity
<1>3. /\ world'[p] = None /\ \A q \in Player \ {p} : world'[q] = world[q]
      /\ \A e \in Entity : world'[e] \in {world[e], None}
  BY <1>1, <1>2 DEF Entity
<1>4. Evolves
  BY <1>3 DEF Evolves
<1>5. Deaths
  BY <1>1, <1>3 DEF Deaths, Alive
<1> QED BY <1>1, <1>4, <1>5, DisconnectWorld

LEMMA ConnectStep ==
  ASSUME GameOK, NEW p \in Player, Connect(p)
  PROVE  world' \in World /\ Evolves /\ Deaths /\ GameFrame
<1>1. /\ GameFrame /\ fired' = fired /\ nextSerial' = nextSerial + 1
      /\ world' = [world EXCEPT ![p] = [kind |-> "player", serial |-> nextSerial, team |-> 0,
                                        health |-> 1, aim |-> None, weapon |-> None]]
  BY DEF Connect, Happen, GameFrame, pass, GameOK
<1>2. world \in [Entity -> PlayerEntity \cup WeaponEntity \cup {None}] /\ p \in Entity
  BY WorldIs DEF GameOK, Entity
<1>3. /\ \A e \in Entity \ {p} : world'[e] = world[e]
      /\ world'[p].serial = nextSerial /\ world'[p].team = 0
  BY <1>1, <1>2
<1>4. Evolves
  BY <1>1, <1>3 DEF Evolves
<1>5. ~Alive(p)' /\ \A q \in Player \ {p} : world'[q] = world[q]
  BY <1>3 DEF Alive, Entity
<1>6. Deaths
  BY <1>1, <1>5 DEF Deaths
<1> QED BY <1>1, <1>4, <1>6, ConnectWorld

LEMMA MoveStep ==
  ASSUME GameOK, Move
  PROVE  world' \in World /\ Evolves /\ Deaths /\ GameFrame
<1>1. world' = world /\ fired' = fired /\ GameFrame
  BY DEF Move, Happen, GameFrame, pass, GameOK
<1> QED BY <1>1 DEF GameOK, Evolves, Deaths

LEMMA GameSteps ==
  ASSUME GameOK, Game
  PROVE  world' \in World /\ Evolves /\ Deaths /\ GameFrame
BY TurnStep, HurtStep, SwitchStep, RemoveStep, SpawnStep, DisconnectStep, ConnectStep, MoveStep DEF Game
-----------------------------------------------------------------------------
(* The game's history                                                      *)

GameInv == GameOK /\ Ticks /\ Serials /\ DeathsApart /\ DeathEvents

LEMMA FiredAre ==
  ASSUME GameOK, NEW n \in 1..Len(fired)
  PROVE  /\ fired[n].victim \in Player /\ fired[n].attacker \in Player \cup {None}
         /\ ~Alive(fired[n].victim)
<1>1. fired \in Seq(Death)
  BY DEF GameOK
<1>2. fired[n] \in Death
  BY <1>1
<1>3. fired[n].victim \in Player /\ fired[n].attacker \in Player \cup {None}
  BY <1>2 DEF Death
<1>4. world[fired[n].victim] # None => ~Alive(fired[n].victim)
  BY DEF GameOK
<1> QED BY <1>3, <1>4 DEF Alive

LEMMA PacketsAre ==
  ASSUME GameOK, NEW i \in 1..Len(truth)
  PROVE  /\ truth[i] \in Packet /\ truth[i].tick \in Nat /\ truth[i].world \in World
         /\ truth[i].view \subseteq Entity /\ truth[i].deaths \in Seq(Death)
<1>1. truth \in Seq(Packet)
  BY DEF GameOK
<1>2. truth[i] \in Packet
  BY <1>1
<1> QED BY <1>2 DEF Packet

LEMMA VictimsAre ==
  ASSUME GameOK
  PROVE  Victims = {fired[n].victim : n \in 1..Len(fired)} /\ Victims \subseteq Player
<1>1. fired \in Seq(Death)
  BY DEF GameOK
<1>2. Range(fired) = {fired[n] : n \in 1..Len(fired)} /\ \A n \in 1..Len(fired) : fired[n] \in Death
  BY <1>1 DEF Range
<1>3. \A d \in Death : d.victim \in Player
  BY DEF Death
<1> QED BY <1>2, <1>3 DEF Victims

LEMMA GameKeepsOK ==
  ASSUME GameOK, Game
  PROVE  GameOK'
<1>1. world' \in World /\ Deaths /\ GameFrame
  BY GameSteps
<1>2. /\ far' \in BOOLEAN /\ world' \in World /\ nextSerial' \in Nat /\ tick' \in Nat /\ over' \in BOOLEAN
      /\ diedAt' \in [Player -> Nat \cup {None}] /\ truth' \in Seq(Packet)
      /\ deaths' \in Seq([tick : Nat, victim : Player, attacker : Player \cup {None}])
      /\ \A i \in 1..Len(truth') : OnceEach(truth'[i].deaths)
  BY <1>1 DEF GameOK, GameFrame
<1>3. \A n \in 1..Len(fired) : fired[n].victim \in Player /\ ~Alive(fired[n].victim)
  BY FiredAre
<1>4. CASE fired' = fired /\ \A v \in Player : world'[v] = world[v] \/ Alive(v) \/ ~Alive(v)' \/ v \notin Victims
  <2>1. \A n \in 1..Len(fired) : ~Alive(fired[n].victim)'
    <3> SUFFICES ASSUME NEW n \in 1..Len(fired) PROVE ~Alive(fired[n].victim)'
      OBVIOUS
    <3>1. fired[n].victim \in Victims /\ fired[n].victim \in Player /\ ~Alive(fired[n].victim)
      BY <1>3, VictimsAre
    <3>2. world'[fired[n].victim] = world[fired[n].victim] \/ ~Alive(fired[n].victim)'
      BY <1>4, <3>1
    <3> QED BY <1>4, <3>1, <3>2 DEF Alive
  <2> QED BY <1>2, <1>4, <2>1 DEF GameOK
<1>5. CASE \E v \in Player, a \in Player \cup {None} :
             /\ Alive(v) /\ ~Alive(v)' /\ \A q \in Player \ {v} : world'[q] = world[q]
             /\ fired' = Append(fired, [victim |-> v, attacker |-> a])
  <2>1. PICK v \in Player, a \in Player \cup {None} :
             /\ Alive(v) /\ ~Alive(v)' /\ \A q \in Player \ {v} : world'[q] = world[q]
             /\ fired' = Append(fired, [victim |-> v, attacker |-> a])
    BY <1>5
  <2>2. /\ fired' \in Seq(Death) /\ Len(fired') = Len(fired) + 1 /\ fired'[Len(fired) + 1].victim = v
        /\ \A n \in 1..Len(fired) : fired'[n] = fired[n]
    <3>1. fired \in Seq(Death) /\ [victim |-> v, attacker |-> a] \in Death
      BY DEF GameOK, Death
    <3> QED BY <2>1, <3>1
  <2>3. \A n \in 1..Len(fired) : fired[n].victim # v
    BY <1>3, <2>1
  <2>4. OnceEach(fired')
    <3>1. Len(fired) \in Nat /\ \A m \in 1..Len(fired') : m \in 1..Len(fired) \/ m = Len(fired) + 1
      BY <2>2 DEF GameOK
    <3>2. \A m, n \in 1..Len(fired) : m # n => fired[m].victim # fired[n].victim
      BY DEF GameOK, OnceEach
    <3> QED BY <2>2, <2>3, <3>1, <3>2 DEF OnceEach
  <2>5. ASSUME NEW n \in 1..Len(fired')
        PROVE  ~Alive(fired[n].victim)'
    <3>1. CASE n = Len(fired) + 1
      BY <2>1, <2>2, <3>1 DEF Alive
    <3>2. CASE n \in 1..Len(fired)
      <4>1. world'[fired[n].victim] = world[fired[n].victim] /\ ~Alive(fired[n].victim)
        BY <1>3, <2>1, <2>3, <3>2
      <4> QED BY <2>2, <3>2, <4>1 DEF Alive
    <3>3. n \in 1..Len(fired) \/ n = Len(fired) + 1
      BY <2>2 DEF GameOK
    <3> QED BY <3>1, <3>2, <3>3
  <2> QED BY <1>2, <2>2, <2>4, <2>5 DEF GameOK
<1> QED BY <1>1, <1>4, <1>5 DEF Deaths

LEMMA GameKeepsSerials ==
  ASSUME GameOK, Serials, Game
  PROVE  Serials'
<1>1. Evolves /\ truth' = truth /\ nextSerial' \in {nextSerial, nextSerial + 1} /\ nextSerial \in Nat
  BY GameSteps DEF GameFrame, GameOK
<1>2. ASSUME NEW e \in Entity, world'[e] # None
      PROVE  /\ world'[e].serial < nextSerial' /\ world'[e].serial \in Nat
             /\ \/ /\ world[e] # None /\ world'[e].serial = world[e].serial /\ world'[e].kind = world[e].kind
                \/ world'[e].serial = nextSerial
  <2>1. \/ world[e] # None /\ world'[e].serial = world[e].serial /\ world'[e].kind = world[e].kind
        \/ world'[e].serial = nextSerial /\ nextSerial' = nextSerial + 1
    BY <1>1, <1>2 DEF Evolves
  <2>2. world[e] # None => world[e].serial \in Nat /\ world[e].serial < nextSerial
    BY OldWorld DEF Serials
  <2> QED BY <1>1, <2>1, <2>2
<1>3. ASSUME NEW i \in 1..Len(truth), NEW e \in Entity
      PROVE  /\ truth[i].world[e] # None => truth[i].world[e].serial < nextSerial'
             /\ Same(truth[i].world[e], world'[e]) =>
                  /\ truth[i].world[e].kind = world'[e].kind
                  /\ \A h \in i..Len(truth) : Same(truth[i].world[e], truth[h].world[e])
  <2>1. truth[i].world[e] # None => truth[i].world[e].serial \in Nat /\ truth[i].world[e].serial < nextSerial
    <3>1. truth[i].world \in World
      BY PacketsAre
    <3>2. truth[i].world[e] # None => truth[i].world[e] \in PlayerEntity \cup WeaponEntity
      BY <3>1, WorldIs
    <3>3. truth[i].world[e] # None => truth[i].world[e].serial \in Nat
      BY <3>2 DEF PlayerEntity, WeaponEntity
    <3> QED BY <3>3 DEF Serials
  <2>2. ASSUME Same(truth[i].world[e], world'[e])
        PROVE  Same(truth[i].world[e], world[e]) /\ world'[e].kind = world[e].kind
    <3>1. world'[e].serial # nextSerial /\ world'[e] # None
      BY <1>1, <2>1, <2>2 DEF Same
    <3> QED BY <1>2, <2>2, <3>1 DEF Same
  <2>3. Same(truth[i].world[e], world[e]) =>
                  /\ truth[i].world[e].kind = world[e].kind
                  /\ \A h \in i..Len(truth) : Same(truth[i].world[e], truth[h].world[e])
    BY DEF Serials
  <2> QED BY <1>1, <2>1, <2>2, <2>3
<1> QED BY <1>1, <1>2, <1>3 DEF Serials

LEMMA GameKeeps ==
  ASSUME GameInv, Game
  PROVE  GameInv'
<1>1. GameOK' /\ Serials' /\ GameFrame
  BY GameKeepsOK, GameKeepsSerials, GameSteps DEF GameInv
<1>2. Ticks' /\ DeathsApart' /\ DeathEvents'
  BY <1>1 DEF GameFrame, GameInv, Ticks, DeathsApart, DeathEvents
<1> QED BY <1>1, <1>2 DEF GameInv

-----------------------------------------------------------------------------
(* A packet                                                                *)

\* What RecordPacket makes of the history.
LEMMA PacketIs ==
  ASSUME GameInv, RecordPacket
  PROVE  /\ ~over /\ Taken
         /\ tick' \in Nat /\ tick' > tick
         /\ Len(truth') = Len(truth) + 1 /\ truth' \in Seq(Packet)
         /\ \A i \in 1..Len(truth) : truth'[i] = truth[i]
         /\ truth'[Len(truth) + 1] = [tick |-> tick', world |-> world, view |-> View, deaths |-> fired]
         /\ View \subseteq Entity
         /\ fired' = <<>> /\ diedAt' = [p \in Player |-> IF p \in Victims THEN tick' ELSE diedAt[p]]
         /\ \A p \in Respawned : tick' >= diedAt[p] + RespawnTime
         /\ UNCHANGED <<far, world, nextSerial, over, entity_classes, players, samples>>
<1>1. tick \in Nat /\ truth \in Seq(Packet) /\ world \in World /\ fired \in Seq(Death)
  BY DEF GameInv, GameOK
<1>2. RespawnTime \in Nat /\ RespawnTime > 0
  BY EntityPassAssumption
<1>3. tick' \in Nat /\ tick' > tick
  BY <1>1, <1>2 DEF RecordPacket
<1>4. View \subseteq Entity
  BY DEF View, Near
<1>5. [tick |-> tick', world |-> world, view |-> View, deaths |-> fired] \in Packet
  BY <1>1, <1>3, <1>4 DEF Packet
<1>6. truth' = Append(truth, [tick |-> tick', world |-> world, view |-> View, deaths |-> fired])
  BY DEF RecordPacket
<1> HIDE DEF View
<1>7. /\ Len(truth') = Len(truth) + 1 /\ truth' \in Seq(Packet)
      /\ \A i \in 1..Len(truth) : truth'[i] = truth[i]
      /\ truth'[Len(truth) + 1] = [tick |-> tick', world |-> world, view |-> View, deaths |-> fired]
  BY <1>1, <1>5, <1>6
<1> QED BY <1>3, <1>4, <1>7 DEF RecordPacket

LEMMA PacketKeepsOK ==
  ASSUME GameInv, RecordPacket
  PROVE  GameOK' /\ Ticks' /\ Serials'
<1> DEFINE n == Len(truth)
<1>1. n \in Nat /\ truth \in Seq(Packet) /\ tick \in Nat
  BY DEF GameInv, GameOK
<1>2. GameOK'
  <2>1. diedAt' \in [Player -> Nat \cup {None}]
    BY PacketIs DEF GameInv, GameOK
  <2>2. deaths' \in Seq([tick : Nat, victim : Player, attacker : Player \cup {None}])
    <3>1. PICK late \in 0..DeathWindow :
            deaths' = deaths \o [i \in 1..Len(fired) |-> [tick |-> tick' + late, victim |-> fired[i].victim,
                                                          attacker |-> fired[i].attacker]]
      BY DEF RecordPacket
    <3>2. tick' + late \in Nat
      BY <3>1, PacketIs, EntityPassAssumption
    <3>3. \A i \in 1..Len(fired) : fired[i].victim \in Player /\ fired[i].attacker \in Player \cup {None}
      BY FiredAre DEF GameInv
    <3>4. [i \in 1..Len(fired) |-> [tick |-> tick' + late, victim |-> fired[i].victim, attacker |-> fired[i].attacker]]
            \in Seq([tick : Nat, victim : Player, attacker : Player \cup {None}])
      <4>1. Len(fired) \in Nat
        BY DEF GameInv, GameOK
      <4> QED BY <3>2, <3>3, <4>1
    <3> QED BY <3>1, <3>4 DEF GameInv, GameOK
  <2>3. \A i \in 1..Len(truth') : OnceEach(truth'[i].deaths)
    <3> SUFFICES ASSUME NEW i \in 1..(n + 1) PROVE OnceEach(truth'[i].deaths)
      BY PacketIs
    <3>1. CASE i \in 1..n
      BY <3>1, PacketIs DEF GameInv, GameOK
    <3>2. CASE i = n + 1
      <4>1. truth'[i].deaths = fired
        BY <3>2, PacketIs
      <4> QED BY <4>1 DEF GameInv, GameOK
    <3> QED BY <1>1, <3>1, <3>2
  <2>4. OnceEach(fired') /\ fired' \in Seq(Death) /\ 1..Len(fired') = {}
    BY PacketIs DEF OnceEach
  <2> QED BY <2>1, <2>2, <2>3, <2>4, PacketIs DEF GameInv, GameOK
<1>3. Ticks'
  <2>1. \A i \in 1..n : truth[i].tick \in Nat /\ truth[i].tick <= tick
    BY PacketsAre DEF GameInv, Ticks
  <2>2. truth'[n + 1].tick = tick' /\ tick' > tick /\ tick' \in Nat
    BY PacketIs
  <2>3. \A i \in 1..n : truth'[i].tick = truth[i].tick
    BY PacketIs
  <2>4. \A i, j \in 1..(n + 1) : i < j => truth'[i].tick < truth'[j].tick
    <3> SUFFICES ASSUME NEW i \in 1..(n + 1), NEW j \in 1..(n + 1), i < j PROVE truth'[i].tick < truth'[j].tick
      OBVIOUS
    <3>1. CASE j \in 1..n
      <4>1. i \in 1..n
        BY <1>1, <3>1
      <4> QED BY <2>3, <3>1, <4>1 DEF GameInv, Ticks
    <3>2. CASE j = n + 1
      <4>1. i \in 1..n
        BY <1>1, <3>2
      <4> QED BY <1>1, <2>1, <2>2, <2>3, <3>2, <4>1
    <3> QED BY <1>1, <3>1, <3>2
  <2>5. \A i \in 1..(n + 1) : truth'[i].tick <= tick'
    <3> SUFFICES ASSUME NEW i \in 1..(n + 1) PROVE truth'[i].tick <= tick'
      OBVIOUS
    <3>1. CASE i \in 1..n
      BY <1>1, <2>1, <2>2, <2>3, <3>1
    <3>2. CASE i = n + 1
      BY <2>2, <3>2
    <3> QED BY <1>1, <3>1, <3>2
  <2> QED BY <2>2, <2>4, <2>5, PacketIs DEF Ticks
<1>4. Serials'
  <2> DEFINE W(i) == truth'[i].world
  <2>1. world' = world /\ nextSerial' = nextSerial /\ Len(truth') = n + 1
    BY PacketIs
  <2>2. W(n + 1) = world /\ \A i \in 1..n : W(i) = truth[i].world
    BY PacketIs
  <2> HIDE DEF W
  <2>3. ASSUME NEW i \in 1..n, NEW e \in Entity, Same(W(i)[e], world[e])
        PROVE  /\ W(i)[e].kind = world[e].kind
               /\ \A h \in i..(n + 1) : Same(W(i)[e], W(h)[e])
    <3>1. W(i)[e].kind = world[e].kind /\ \A h \in i..n : Same(W(i)[e], W(h)[e])
      BY <1>1, <2>2, <2>3 DEF GameInv, Serials
    <3>2. \A h \in i..(n + 1) : h \in i..n \/ h = n + 1
      BY <1>1
    <3> QED BY <2>2, <2>3, <3>1, <3>2
  <2>4. ASSUME NEW e \in Entity, world[e] # None
        PROVE  \A h \in (n + 1)..(n + 1) : Same(world[e], W(h)[e])
    BY <1>1, <2>2, <2>4 DEF Same
  <2>5. ASSUME NEW i \in 1..(n + 1), NEW e \in Entity
        PROVE  /\ W(i)[e] # None => W(i)[e].serial < nextSerial
               /\ Same(W(i)[e], world[e]) => /\ W(i)[e].kind = world[e].kind
                                            /\ \A h \in i..(n + 1) : Same(W(i)[e], W(h)[e])
    <3>1. CASE i \in 1..n
      BY <2>2, <2>3, <3>1 DEF GameInv, Serials
    <3>2. CASE i = n + 1
      BY <2>2, <2>4, <3>2 DEF GameInv, Serials, Same
    <3> QED BY <1>1, <3>1, <3>2
  <2>6. ASSUME NEW j \in 1..(n + 1), NEW i \in 1..(n + 1), NEW e \in Entity, i < j, Same(W(i)[e], W(j)[e])
        PROVE  W(i)[e].kind = W(j)[e].kind /\ \A h \in i..j : Same(W(i)[e], W(h)[e])
    <3>1. i \in 1..n
      BY <1>1, <2>6
    <3>2. CASE j = n + 1
      BY <2>2, <2>3, <2>6, <3>1, <3>2
    <3>3. CASE j \in 1..n
      <4>1. \A h \in i..j : h \in 1..n
        BY <1>1, <3>3
      <4> QED BY <2>2, <2>6, <3>1, <3>3, <4>1 DEF GameInv, Serials
    <3> QED BY <1>1, <3>2, <3>3
  <2>7. \A e \in Entity : world[e] # None => world[e].serial < nextSerial
    BY DEF GameInv, Serials
  <2> QED BY <2>1, <2>5, <2>6, <2>7 DEF Serials, W
<1> QED BY <1>2, <1>3, <1>4

LEMMA PacketKeepsDeaths ==
  ASSUME GameInv, RecordPacket
  PROVE  DeathsApart' /\ DeathEvents'
<1> DEFINE n == Len(truth)
<1>1. n \in Nat /\ truth \in Seq(Packet) /\ Len(truth') = n + 1 /\ \A i \in 1..n : truth'[i] = truth[i]
  BY PacketIs DEF GameInv, GameOK
<1>2. truth'[n + 1].deaths = fired /\ truth'[n + 1].tick = tick' /\ tick' \in Nat
  BY PacketIs
<1>3. \A i \in 1..n : truth[i].tick \in Nat /\ truth[i].tick < tick'
  BY <1>2, PacketIs, PacketsAre DEF GameInv, Ticks, GameOK
<1>4. ASSUME NEW v \in Player
      PROVE  /\ \A i \in 1..n : Dies(truth'[i], v) <=> Dies(truth[i], v)
             /\ Dies(truth'[n + 1], v) <=> v \in Victims
  <2>1. \A i \in 1..n : Dies(truth'[i], v) <=> Dies(truth[i], v)
    BY <1>1 DEF Dies
  <2>2. Dies(truth'[n + 1], v) <=> \E m \in 1..Len(fired) : fired[m].victim = v
    BY <1>1, <1>2 DEF Dies
  <2> QED BY <2>1, <2>2, VictimsAre DEF GameInv
<1>5. DeathsApart'
  <2>1. ASSUME NEW v \in Player, NEW i \in 1..n, Dies(truth[i], v)
        PROVE  /\ diedAt[v] \in Nat /\ truth[i].tick <= diedAt[v]
               /\ v \in Victims => truth[i].tick + RespawnTime <= tick'
    <3>1. diedAt[v] # None /\ truth[i].tick <= diedAt[v] /\ diedAt[v] \in Nat
      BY <2>1 DEF GameInv, DeathsApart, GameOK
    <3>2. v \in Victims => tick' >= diedAt[v] + RespawnTime
      BY <3>1, PacketIs DEF Respawned
    <3> QED BY <1>2, <1>3, <3>1, <3>2, EntityPassAssumption
  <2>2. \A v \in Player : diedAt'[v] = IF v \in Victims THEN tick' ELSE diedAt[v]
    BY PacketIs
  <2>3. None \notin Nat
    BY EntityPassAssumption
  <2>4. ASSUME NEW i \in 1..(n + 1), NEW v \in Player, Dies(truth'[i], v)
        PROVE  diedAt'[v] # None /\ truth'[i].tick <= diedAt'[v]
    <3>1. CASE i \in 1..n
      <4>1. Dies(truth[i], v) /\ truth'[i].tick = truth[i].tick
        BY <1>1, <1>4, <2>4, <3>1
      <4> QED BY <1>2, <1>3, <2>1, <2>2, <2>3, <3>1, <4>1
    <3>2. CASE i = n + 1
      <4>1. v \in Victims
        BY <1>4, <2>4, <3>2
      <4> QED BY <1>2, <2>2, <2>3, <3>2, <4>1
    <3> QED BY <1>1, <3>1, <3>2
  <2>5. ASSUME NEW i \in 1..(n + 1), NEW j \in 1..(n + 1), NEW v \in Player, i < j, Dies(truth'[i], v), Dies(truth'[j], v)
        PROVE  truth'[i].tick + RespawnTime <= truth'[j].tick
    <3>1. i \in 1..n /\ Dies(truth[i], v) /\ truth'[i].tick = truth[i].tick
      BY <1>1, <1>4, <2>5
    <3>2. CASE j \in 1..n
      <4>1. Dies(truth[j], v) /\ truth'[j].tick = truth[j].tick
        BY <1>1, <1>4, <2>5, <3>2
      <4> QED BY <2>5, <3>1, <3>2, <4>1 DEF GameInv, DeathsApart
    <3>3. CASE j = n + 1
      <4>1. v \in Victims
        BY <1>4, <2>5, <3>3
      <4> QED BY <1>2, <2>1, <3>1, <3>3, <4>1
    <3> QED BY <1>1, <3>2, <3>3
  <2> QED BY <1>1, <2>4, <2>5 DEF DeathsApart
<1>6. DeathEvents'
  <2> DEFINE d == Len(deaths)
  <2>1. PICK late \in 0..DeathWindow :
          deaths' = deaths \o [i \in 1..Len(fired) |-> [tick |-> tick' + late, victim |-> fired[i].victim,
                                                        attacker |-> fired[i].attacker]]
    BY DEF RecordPacket
  <2>2. d \in Nat /\ Len(fired) \in Nat
    BY DEF GameInv, GameOK
  <2>3. /\ Len(deaths') = d + Len(fired) /\ \A m \in 1..d : deaths'[m] = deaths[m]
        /\ \A m \in 1..Len(fired) : deaths'[d + m] = [tick |-> tick' + late, victim |-> fired[m].victim,
                                                      attacker |-> fired[m].attacker]
    BY <2>1, <2>2 DEF GameInv, GameOK
  <2>4. ASSUME NEW m \in 1..Len(fired)
        PROVE  IsDeathOf(deaths'[d + m], truth'[n + 1], fired[m])
    <3>1. tick' + late \in tick'..tick' + DeathWindow
      <4>1. late \in Nat /\ late <= DeathWindow /\ DeathWindow \in Nat
        BY <2>1, EntityPassAssumption
      <4>2. \A t \in Nat : t + late \in t..t + DeathWindow
        BY <4>1
      <4> HIDE DEF n
      <4> QED BY <1>2, <4>2
    <3>2. deaths'[d + m].tick = tick' + late /\ deaths'[d + m].victim = fired[m].victim
          /\ deaths'[d + m].attacker = fired[m].attacker
      <4>1. deaths'[d + m] = [tick |-> tick' + late, victim |-> fired[m].victim, attacker |-> fired[m].attacker]
        BY <2>3
      <4> QED BY <4>1
    <3> QED BY <1>2, <3>1, <3>2 DEF IsDeathOf
  <2>5. ASSUME NEW m \in 1..Len(deaths')
        PROVE  \E i \in 1..(n + 1) : \E h \in 1..Len(truth'[i].deaths) :
                 IsDeathOf(deaths'[m], truth'[i], truth'[i].deaths[h])
    <3>1. CASE m \in 1..d
      <4>1. PICK i \in 1..n : \E h \in 1..Len(truth[i].deaths) : IsDeathOf(deaths[m], truth[i], truth[i].deaths[h])
        BY <3>1 DEF GameInv, DeathEvents
      <4>2. truth'[i] = truth[i] /\ deaths'[m] = deaths[m] /\ i \in 1..(n + 1)
        BY <1>1, <2>3, <3>1
      <4> QED BY <4>1, <4>2
    <3>2. CASE m \notin 1..d
      <4>1. PICK h \in 1..Len(fired) : m = d + h
        <5>1. m - d \in 1..Len(fired) /\ m = d + (m - d)
          BY <2>2, <2>3, <3>2
        <5> QED BY <5>1
      <4>2. IsDeathOf(deaths'[m], truth'[n + 1], fired[h])
        BY <2>4, <4>1
      <4>3. n + 1 \in 1..(n + 1)
        BY <1>1
      <4> QED BY <1>2, <4>2, <4>3
    <3> QED BY <3>1, <3>2
  <2>6. ASSUME NEW i \in 1..(n + 1), NEW h \in 1..Len(truth'[i].deaths)
        PROVE  \E m \in 1..Len(deaths') : IsDeathOf(deaths'[m], truth'[i], truth'[i].deaths[h])
    <3>1. CASE i \in 1..n
      <4>1. truth'[i] = truth[i] /\ h \in 1..Len(truth[i].deaths)
        BY <1>1, <3>1
      <4>2. PICK m \in 1..d : IsDeathOf(deaths[m], truth[i], truth[i].deaths[h])
        BY <3>1, <4>1 DEF GameInv, DeathEvents
      <4>3. deaths'[m] = deaths[m] /\ m \in 1..Len(deaths')
        BY <2>2, <2>3
      <4> QED BY <4>1, <4>2, <4>3
    <3>2. CASE i = n + 1
      <4>1. h \in 1..Len(fired)
        BY <1>2, <3>2
      <4>2. d + h \in 1..Len(deaths')
        BY <2>2, <2>3, <4>1
      <4>3. IsDeathOf(deaths'[d + h], truth'[n + 1], fired[h])
        BY <2>4, <4>1
      <4> QED BY <1>2, <3>2, <4>2, <4>3
    <3> QED BY <1>1, <3>1, <3>2
  <2> QED BY <1>1, <2>5, <2>6 DEF DeathEvents
<1> QED BY <1>5, <1>6

LEMMA GameInvInit == Init => GameInv
<1> SUFFICES ASSUME Init PROVE GameInv
  OBVIOUS
<1>1. PICK held \in {h \in [Player -> Weapon] : \A p, q \in Player : p < q => h[p] < h[q]},
           kinds \in [Weapon -> WeaponClass \cup {None}], aims \in [Player -> Player \cup {None}] :
        /\ \A w \in Weapon : kinds[w] = None => w \notin Range(held)
        /\ world = [e \in Entity |->
            IF e \in Player THEN [kind |-> "player", serial |-> 0, team |-> TeamOf[e], health |-> Max(Full),
                                  aim |-> aims[e], weapon |-> held[e]]
            ELSE IF kinds[e] = None THEN None ELSE [kind |-> kinds[e], serial |-> 0]]
  BY DEF Init, EntityInit
<1>2. Max(Full) \in Nat /\ Max(Full) > 0
  <2>1. Full \subseteq Nat /\ Full # {} /\ IsFiniteSet(Full) /\ \A h \in Full : h > 0
    BY EntityPassAssumption
  <2> QED BY <2>1, GreatestFinite
<1>3. \A e \in Player : TeamOf[e] \in {2, 3}
  BY EntityPassAssumption
<1>4. \A w \in Weapon : w \notin Player /\ w \in Entity
  BY Apart DEF Entity
<1>5. \A p \in Player : world[p] = [kind |-> "player", serial |-> 0, team |-> TeamOf[p], health |-> Max(Full),
                                    aim |-> aims[p], weapon |-> held[p]]
  BY <1>1 DEF Entity
<1>6. ASSUME NEW p \in Player
      PROVE  /\ world[p] \in PlayerEntity /\ AliveIn(world, p) /\ world[p].team = TeamOf[p]
             /\ world[p].weapon = held[p] /\ held[p] \in Weapon
  <2>1. held[p] \in Weapon /\ aims[p] \in Player \cup {None} /\ TeamOf[p] \in {2, 3}
    BY <1>3
  <2>2. world[p] = [kind |-> "player", serial |-> 0, team |-> TeamOf[p], health |-> Max(Full),
                    aim |-> aims[p], weapon |-> held[p]]
    BY <1>5
  <2>3. world[p].health = Max(Full) /\ world[p].team = TeamOf[p] /\ world[p].weapon = held[p]
    BY <2>2
  <2>4. AliveIn(world, p)
    BY <1>2, <2>1, <2>3 DEF AliveIn
  <2>5. world[p] \in PlayerEntity
    BY <1>2, <2>1, <2>2 DEF PlayerEntity
  <2> QED BY <2>1, <2>3, <2>4, <2>5
<1>7. ASSUME NEW w \in Weapon
      PROVE  world[w] = IF kinds[w] = None THEN None ELSE [kind |-> kinds[w], serial |-> 0]
  BY <1>1, <1>4
<1>8. \A w \in Weapon : world[w] \in WeaponEntity \cup {None}
  <2> SUFFICES ASSUME NEW w \in Weapon, kinds[w] # None PROVE world[w] \in WeaponEntity
    BY <1>7
  <2>1. kinds[w] \in WeaponClass /\ world[w] = [kind |-> kinds[w], serial |-> 0]
    BY <1>7
  <2> QED BY <2>1 DEF WeaponEntity
<1>9. \A p \in Player : world[held[p]] # None
  <2> SUFFICES ASSUME NEW p \in Player PROVE world[held[p]] # None
    OBVIOUS
  <2>1. held[p] \in Weapon /\ held[p] \in Range(held)
    BY DEF Range
  <2>2. kinds[held[p]] # None
    BY <1>1, <2>1
  <2>3. [kind |-> kinds[held[p]], serial |-> 0] \in WeaponEntity
    BY <2>1, <2>2 DEF WeaponEntity
  <2> QED BY <1>7, <2>1, <2>2, <2>3, Apart
<1>10. \A p, q \in Player : p # q => held[p] # held[q]
  <2> SUFFICES ASSUME NEW p \in Player, NEW q \in Player, p # q PROVE held[p] # held[q]
    OBVIOUS
  <2>1. p \in Nat /\ q \in Nat /\ held[p] \in Nat /\ held[q] \in Nat
    BY EntityPassAssumption
  <2>2. held[p] < held[q] \/ held[q] < held[p]
    BY <2>1
  <2> QED BY <2>1, <2>2
<1>11. world \in World
  <2>1. world = [e \in Entity |-> world[e]]
    BY <1>1
  <2>2. \A e \in Entity : world[e] \in PlayerEntity \cup WeaponEntity \cup {None}
    BY <1>6, <1>8 DEF Entity
  <2>3. world \in [Entity -> PlayerEntity \cup WeaponEntity \cup {None}]
    BY <2>1, <2>2
  <2> QED BY <1>6, <1>8, <1>9, <1>10, <2>3, Apart DEF World
<1>12. /\ far \in BOOLEAN /\ nextSerial = 1 /\ tick = 0 /\ diedAt = [p \in Player |-> None] /\ fired = <<>>
       /\ truth = <<>> /\ over = FALSE /\ deaths = <<>>
  BY DEF Init, EntityInit
<1>13. GameOK
  <2>1. \A S : <<>> \in Seq(S)
    OBVIOUS
  <2>2. 1..Len(<<>>) = {}
    OBVIOUS
  <2>3. diedAt \in [Player -> Nat \cup {None}]
    BY <1>12
  <2> QED BY <1>11, <1>12, <2>1, <2>2, <2>3 DEF GameOK, OnceEach
<1>14. ASSUME NEW e \in Entity, world[e] # None
       PROVE  world[e].serial < nextSerial
  <2>1. CASE e \in Player
    <3>1. world[e] = [kind |-> "player", serial |-> 0, team |-> TeamOf[e], health |-> Max(Full),
                      aim |-> aims[e], weapon |-> held[e]]
      BY <1>5, <2>1
    <3> QED BY <1>12, <3>1
  <2>2. CASE e \in Weapon
    <3>1. world[e] = [kind |-> kinds[e], serial |-> 0]
      BY <1>7, <1>14, <2>2
    <3> QED BY <1>12, <3>1
  <2> QED BY <2>1, <2>2 DEF Entity
<1>15. Ticks /\ Serials /\ DeathsApart /\ DeathEvents
  BY <1>12, <1>14 DEF Ticks, Serials, DeathsApart, DeathEvents
<1> QED BY <1>13, <1>15 DEF GameInv

LEMMA SameGame ==
  ASSUME GameInv, UNCHANGED <<far, world, nextSerial, tick, diedAt, fired, truth, deaths>>, over' \in BOOLEAN
  PROVE  GameInv'
<1>1. GameOK'
  BY DEF GameInv, GameOK, Alive
<1>2. Ticks' /\ Serials'
  BY DEF GameInv, Ticks, Serials
<1>3. DeathsApart' /\ DeathEvents'
  BY DEF GameInv, DeathsApart, DeathEvents
<1> QED BY <1>1, <1>2, <1>3 DEF GameInv

LEMMA GameInvStep == GameInv /\ [Next]_vars => GameInv'
<1> SUFFICES ASSUME GameInv, [Next]_vars PROVE GameInv'
  OBVIOUS
<1>1. CASE Game
  BY <1>1, GameKeeps
<1>2. CASE RecordPacket
  BY <1>2, PacketKeepsOK, PacketKeepsDeaths DEF GameInv
<1>3. CASE StopRecording
  BY <1>3, SameGame DEF StopRecording
<1>4. CASE TakeOther \/ TakeGone \/ TakeUpdate \/ Infer \/ InferSample \/ UNCHANGED vars
  <2>1. UNCHANGED game
    BY <1>4 DEF TakeOther, TakeGone, TakeUpdate, Take, Infer, InferSample, vars, entityVars
  <2> QED BY <2>1, SameGame DEF game, GameInv, GameOK
<1> QED BY <1>1, <1>2, <1>3, <1>4 DEF Next, EntityNext

LEMMA GameInvHolds == Spec => []GameInv
BY GameInvInit, GameInvStep, PTL DEF Spec
-----------------------------------------------------------------------------
(* The updates of a packet                                                 *)

LEMMA EntityIs ==
  ASSUME NEW w \in World, NEW e \in Entity, w[e] # None
  PROVE  /\ e \in Player => w[e] \in PlayerEntity
         /\ e \in Weapon => w[e] \in WeaponEntity
BY WorldIs

\* The update is right, and there is none when nothing changed.
LEMMA UpdateIs ==
  ASSUME GameOK, NEW e \in Entity, NEW view \in SUBSET Entity,
         e \in Player => sent[e] \in PlayerEntity \cup {None},
         e \in Weapon => sent[e] \in WeaponEntity \cup {None}
  PROVE  LET is == IF e \in view THEN world[e] ELSE None
         IN /\ UpdateOf(e, view) \in UpdateType \cup {None}
            /\ UpdateOf(e, view) = None => sent[e] = is
            /\ UpdateOf(e, view) # None => From(sent[e], is, world[e], UpdateOf(e, view))
<1> DEFINE is == IF e \in view THEN world[e] ELSE None
           values == Nat \cup WeaponClass \cup {"player", None}
           names == {"kind", "serial", "team", "health", "aim", "weapon"}
<1>1. None \notin UpdateType /\ None \notin PlayerEntity /\ None \notin WeaponEntity
  BY EntityPassAssumption
<1>2. world[e] # None => /\ e \in Player => world[e] \in PlayerEntity
                         /\ e \in Weapon => world[e] \in WeaponEntity
  BY WorldIs DEF GameOK
<1>3. e \in Player \/ e \in Weapon
  BY DEF Entity
<1>4. \A p \in Player \cup Weapon : p \in Nat
  BY EntityPassAssumption
<1>5. ASSUME world[e] # None
      PROVE  /\ world[e] = [f \in DOMAIN world[e] |-> world[e][f]]
             /\ DOMAIN world[e] \in SUBSET names /\ \A f \in DOMAIN world[e] : world[e][f] \in values
             /\ world[e].kind \in WeaponClass \cup {"player"}
  <2>1. CASE world[e] \in PlayerEntity
    BY <1>4, <2>1 DEF PlayerEntity
  <2>2. CASE world[e] \in WeaponEntity
    BY <2>2 DEF WeaponEntity
  <2> QED BY <1>2, <1>3, <1>5, <2>1, <2>2
<1>6. ASSUME world[e] # None, NEW props \in SUBSET DOMAIN world[e], NEW type \in {"enter", "preserve", "leave"}
      PROVE  Update(e, type, props) \in UpdateType
  <2>1. [f \in props |-> world[e][f]] \in [props -> values]
    BY <1>5, <1>6
  <2>2. props \in SUBSET names
    BY <1>5, <1>6
  <2>3. [f \in props |-> world[e][f]] \in UNION {[fields -> values] : fields \in SUBSET names}
    BY <2>1, <2>2
  <2>4. type # "delete"
    BY <1>6
  <2> HIDE DEF values, names
  <2> DEFINE sentNow == [f \in props |-> world[e][f]]
  <2>5. Update(e, type, props) = [type |-> type, kind |-> world[e].kind, props |-> sentNow]
    BY <2>4 DEF Update
  <2> HIDE DEF sentNow
  <2> QED BY <1>5, <1>6, <2>3, <2>5 DEF UpdateType, sentNow, values, names
<1>7. Update(e, "delete", {}) \in UpdateType
  <2> DEFINE nothing == [f \in {} |-> world[e][f]]
  <2>1. nothing \in [{} -> values]
    OBVIOUS
  <2>2. nothing \in UNION {[fields -> values] : fields \in SUBSET names}
    BY <2>1
  <2>3. Update(e, "delete", {}) = [type |-> "delete", kind |-> None, props |-> nothing]
    BY DEF Update
  <2> HIDE DEF nothing
  <2> QED BY <2>2, <2>3 DEF UpdateType
<1>8. CASE sent[e] = None /\ e \in view /\ world[e] # None
  <2>1. UpdateOf(e, view) = Update(e, "enter", DOMAIN world[e])
    BY <1>8 DEF UpdateOf
  <2>2. /\ Update(e, "enter", DOMAIN world[e]).type = "enter" /\ Update(e, "enter", DOMAIN world[e]).kind = world[e].kind
        /\ Update(e, "enter", DOMAIN world[e]).props = world[e]
    BY <1>5, <1>8 DEF Update
  <2>3. Update(e, "enter", DOMAIN world[e]) \in UpdateType
    BY <1>6, <1>8
  <2> QED BY <1>1, <1>8, <2>1, <2>2, <2>3 DEF From
<1>9. CASE sent[e] = None /\ ~(e \in view /\ world[e] # None)
  BY <1>9 DEF UpdateOf
<1>10. CASE sent[e] # None /\ world[e] = None
  <2>1. UpdateOf(e, view) = Update(e, "delete", {})
    BY <1>10 DEF UpdateOf
  <2>2. Update(e, "delete", {}).type = "delete" /\ Update(e, "delete", {}).kind = None
    BY DEF Update
  <2> QED BY <1>1, <1>7, <1>10, <2>1, <2>2 DEF From
<1>11. CASE sent[e] # None /\ world[e] # None /\ e \notin view
  <2>1. UpdateOf(e, view) = Update(e, "leave", {})
    BY <1>11 DEF UpdateOf
  <2>2. Update(e, "leave", {}).type = "leave" /\ Update(e, "leave", {}).kind = world[e].kind
    BY DEF Update
  <2>3. Update(e, "leave", {}) \in UpdateType
    BY <1>6, <1>11
  <2> QED BY <1>1, <1>11, <2>1, <2>2, <2>3 DEF From
<1>12. CASE sent[e] # None /\ world[e] # None /\ e \in view
  <2>1. CASE Changed(e) = {}
    <3>1. UpdateOf(e, view) = None
      BY <1>12, <2>1 DEF UpdateOf
    <3>2. \A f \in DOMAIN world[e] : world[e][f] = sent[e][f]
      BY <2>1 DEF Changed
    <3>3. \/ world[e] \in PlayerEntity /\ sent[e] \in PlayerEntity
          \/ world[e] \in WeaponEntity /\ sent[e] \in WeaponEntity
      BY <1>2, <1>3, <1>12
    <3>4. sent[e] = [f \in DOMAIN sent[e] |-> sent[e][f]] /\ DOMAIN sent[e] = DOMAIN world[e]
      BY <3>3 DEF PlayerEntity, WeaponEntity
    <3>5. sent[e] = world[e]
      BY <1>5, <1>12, <3>2, <3>4
    <3> QED BY <1>12, <3>1, <3>5
  <2>2. CASE Changed(e) # {}
    <3>1. UpdateOf(e, view) = Update(e, "preserve", Changed(e))
      BY <1>12, <2>2 DEF UpdateOf
    <3>2. /\ Update(e, "preserve", Changed(e)).type = "preserve"
          /\ Update(e, "preserve", Changed(e)).kind = world[e].kind
          /\ Update(e, "preserve", Changed(e)).props
               = [f \in {f \in DOMAIN world[e] : world[e][f] # sent[e][f]} |-> world[e][f]]
      BY DEF Update, Changed
    <3>3. Changed(e) \in SUBSET DOMAIN world[e]
      BY DEF Changed
    <3>4. Update(e, "preserve", Changed(e)) \in UpdateType
      BY <1>6, <1>12, <3>3
    <3> QED BY <1>1, <1>12, <3>1, <3>2, <3>4 DEF From
  <2> QED BY <2>1, <2>2
<1> QED BY <1>8, <1>9, <1>10, <1>11, <1>12

LEMMA ShownIs ==
  ASSUME GameOK, NEW i \in 0..Len(truth), NEW e \in Entity
  PROVE  /\ e \in Player => ShownAt(i, e) \in PlayerEntity \cup {None}
         /\ e \in Weapon => ShownAt(i, e) \in WeaponEntity \cup {None}
         /\ i # 0 => ShownAt(i, e) = Shown(i, e) /\ Shown(i, e) \in {None, truth[i].world[e]}
<1>1. CASE i = 0
  BY <1>1 DEF ShownAt
<1>2. CASE i # 0
  <2>1. i \in 1..Len(truth)
    BY <1>2 DEF GameOK
  <2>2. truth[i].world \in World
    BY <2>1, PacketsAre
  <2>3. truth[i].world[e] # None => /\ e \in Player => truth[i].world[e] \in PlayerEntity
                                    /\ e \in Weapon => truth[i].world[e] \in WeaponEntity
    BY <2>2, EntityIs
  <2>4. ShownAt(i, e) = Shown(i, e)
    BY <1>2 DEF ShownAt
  <2> QED BY <1>2, <2>3, <2>4 DEF Shown
<1> QED BY <1>1, <1>2

\* A packet adds what it shows to what was shown.
LEMMA PacketShows ==
  ASSUME GameInv, RecordPacket, NEW n \in Nat, n = Len(truth), NEW e
  PROVE  /\ \A i \in 0..n : ShownAt(i, e)' = ShownAt(i, e)
         /\ \A i \in 1..n : Shown(i, e)' = Shown(i, e)
         /\ ShownAt(n + 1, e)' = (IF e \in View THEN world[e] ELSE None)
         /\ Shown(n + 1, e)' = (IF e \in View THEN world[e] ELSE None)
<1>1. \A i \in 1..n : Shown(i, e)' = Shown(i, e)
  BY PacketIs DEF Shown
<1>2. Shown(n + 1, e)' = IF e \in View THEN world[e] ELSE None
  <2>1. truth'[n + 1].view = View /\ truth'[n + 1].world = world
    BY PacketIs
  <2> QED BY <2>1 DEF Shown
<1>3. n + 1 # 0 /\ \A i \in 0..n : i # 0 => i \in 1..n
  OBVIOUS
<1> QED BY <1>1, <1>2, <1>3 DEF ShownAt

LEMMA UpdatesPacket ==
  ASSUME GameInv, Updates, RecordPacket, NEW n \in Nat, n = Len(truth)
  PROVE  /\ Updates'
         /\ \A e \in Entity : inbox'[e] = None => ShownAt(n + 1, e)' = ShownAt(n, e)
<1>1. /\ inbox' = [e \in Entity |-> UpdateOf(e, View)] /\ sent' = [e \in Entity |-> IF e \in View THEN world[e] ELSE None]
      /\ Len(truth') = n + 1 /\ truth'[n + 1].world = world /\ world' = world /\ ~over' /\ View \subseteq Entity
  <2>1. truth'[n + 1] = [tick |-> tick', world |-> world, view |-> View, deaths |-> fired]
    BY PacketIs
  <2>2. truth'[n + 1].world = world
    BY <2>1
  <2>3. Len(truth') = n + 1 /\ world' = world /\ ~over' /\ View \subseteq Entity
    BY PacketIs
  <2>4. /\ inbox' = [e \in Entity |-> UpdateOf(e, View)]
        /\ sent' = [e \in Entity |-> IF e \in View THEN world[e] ELSE None]
    BY DEF RecordPacket
  <2> QED BY <2>2, <2>3, <2>4
<1>2. ASSUME NEW e \in Entity
      PROVE  /\ inbox'[e] \in UpdateType \cup {None}
             /\ inbox'[e] = None => ShownAt(n + 1, e)' = ShownAt(n, e)
             /\ inbox'[e] # None => From(ShownAt(n, e)', ShownAt(n + 1, e)', world[e], inbox'[e])
  <2>1. sent[e] = ShownAt(n, e) /\ inbox'[e] = UpdateOf(e, View)
    BY <1>1 DEF Updates
  <2>2. ShownAt(n, e)' = ShownAt(n, e) /\ ShownAt(n + 1, e)' = (IF e \in View THEN world[e] ELSE None)
    BY PacketShows
  <2>3. GameOK /\ n \in 0..Len(truth)
    BY DEF GameInv
  <2>4. /\ e \in Player => sent[e] \in PlayerEntity \cup {None}
        /\ e \in Weapon => sent[e] \in WeaponEntity \cup {None}
    BY <2>1, <2>3, ShownIs
  <2> HIDE DEF View
  <2>5. /\ UpdateOf(e, View) \in UpdateType \cup {None}
        /\ UpdateOf(e, View) = None => sent[e] = IF e \in View THEN world[e] ELSE None
        /\ UpdateOf(e, View) # None => From(sent[e], IF e \in View THEN world[e] ELSE None, world[e], UpdateOf(e, View))
    BY <1>1, <2>3, <2>4, UpdateIs
  <2> QED BY <2>1, <2>2, <2>5
<1>3. inbox' \in [Entity -> UpdateType \cup {None}]
  BY <1>1, <1>2
<1>4. sent' = [e \in Entity |-> ShownAt(n + 1, e)']
  BY <1>1, PacketShows
<1>5. truth' # <<>>
  <2>1. truth' = Append(truth, [tick |-> tick', world |-> world, view |-> View, deaths |-> fired]) /\ truth \in Seq(Packet)
    BY DEF RecordPacket, GameInv, GameOK
  <2> QED BY <2>1
<1>6. n + 1 - 1 = n
  OBVIOUS
<1>7. \A e : ShownAt(Len(truth), e)' = ShownAt(n + 1, e)' /\ ShownAt(Len(truth) - 1, e)' = ShownAt(n, e)'
  BY <1>1, <1>6 DEF ShownAt, Shown
<1> QED BY <1>1, <1>2, <1>3, <1>4, <1>5, <1>7 DEF Updates

-----------------------------------------------------------------------------
(* Taking an update                                                        *)

TakeAny == TakeOther \/ TakeGone \/ TakeUpdate

LEMMA TakeIs ==
  ASSUME GameInv, Updates, TakeAny
  PROVE  /\ Id \in Entity /\ inbox[Id] # None /\ inbox[Id] \in UpdateType
         /\ inbox' = [inbox EXCEPT ![Id] = None]
         /\ entity_classes' = [entity_classes EXCEPT ![Id] = inbox[Id].kind]
         /\ UNCHANGED game
         /\ Len(truth) \in Nat \ {0} /\ world = truth[Len(truth)].world /\ ~over
<1>1. Take
  BY DEF TakeAny, TakeOther, TakeGone, TakeUpdate
<1> DEFINE waiting == {e \in Entity : inbox[e] # None}
<1>2. waiting # {} /\ waiting \subseteq Nat
  BY <1>1, Apart DEF Take, Taken
<1>3. Id \in waiting
  BY <1>2, LeastNat DEF Id
<1>4. Len(truth) # 0 /\ Len(truth) \in Nat
  BY <1>1 DEF Take, Updates, GameInv, GameOK
<1> QED BY <1>1, <1>3, <1>4 DEF Take, Updates

LEMMA TakeKeepsUpdates ==
  ASSUME GameInv, Updates, TakeAny
  PROVE  Updates'
<1>1. PICK id \in Entity : id = Id /\ inbox' = [inbox EXCEPT ![id] = None]
  BY TakeIs
<1>2. truth' = truth /\ sent' = sent /\ world' = world /\ over' = over
  BY TakeIs DEF game
<1>3. \A e \in Entity : inbox'[e] = inbox[e] \/ inbox'[e] = None
  BY <1>1 DEF Updates
<1>4. \A e \in Entity : ShownAt(Len(truth), e)' = ShownAt(Len(truth), e) /\ ShownAt(Len(truth) - 1, e)' = ShownAt(Len(truth) - 1, e)
  BY <1>2 DEF ShownAt, Shown
<1>5. inbox' \in [Entity -> UpdateType \cup {None}]
  BY <1>1 DEF Updates
<1>6. Taken => Taken'
  BY <1>3 DEF Taken
<1> QED BY <1>2, <1>3, <1>4, <1>5, <1>6 DEF Updates

-----------------------------------------------------------------------------
(* The last sample, and the last packet that showed a player               *)

LEMMA FirstShown == ASSUME NEW e PROVE ShownBefore(1, e) = None
BY DEF ShownBefore

LEMMA NextShown ==
  ASSUME NEW i \in Nat \ {0}, NEW e
  PROVE  ShownBefore(i + 1, e) = IF Shown(i, e) # None THEN Shown(i, e) ELSE ShownBefore(i, e)
<1> DEFINE upto == {j \in 1..i : Shown(j, e) # None}
           before == {j \in 1..(i - 1) : Shown(j, e) # None}
<1>1. ShownBefore(i + 1, e) = IF upto = {} THEN None ELSE Shown(Max(upto), e)
  <2>1. i + 1 - 1 = i
    OBVIOUS
  <2> QED BY <2>1 DEF ShownBefore
<1>2. ShownBefore(i, e) = IF before = {} THEN None ELSE Shown(Max(before), e)
  BY DEF ShownBefore
<1>3. CASE Shown(i, e) # None
  <2>1. i \in upto /\ upto \subseteq Nat /\ \A j \in upto : j <= i
    BY <1>3
  <2>2. Max(upto) \in upto /\ i <= Max(upto)
    BY <2>1, GreatestNat
  <2>3. Max(upto) = i
    BY <2>1, <2>2
  <2> QED BY <1>1, <1>3, <2>1, <2>3
<1>4. CASE Shown(i, e) = None
  <2>1. upto = before
    <3>1. \A j \in 1..i : j \in 1..(i - 1) \/ j = i
      OBVIOUS
    <3>2. \A j \in 1..(i - 1) : j \in 1..i
      OBVIOUS
    <3> QED BY <1>4, <3>1, <3>2
  <2> QED BY <1>1, <1>2, <1>4, <2>1
<1> QED BY <1>3, <1>4

\* The samples of a player up to a tick, and the last of them.
LEMMA LatestIs ==
  ASSUME NEW p, NEW t, SamplesBy(p, t) # {}, samples \in Seq(Row)
  PROVE  \E m \in 1..Len(samples) :
           /\ Latest(p, t) = samples[m] /\ samples[m].entity_id = p /\ samples[m].tick <= t
           /\ \A l \in SamplesBy(p, t) : l <= m
<1>1. SamplesBy(p, t) \subseteq 1..Len(samples) /\ Len(samples) \in Nat
  BY DEF SamplesBy
<1>2. SamplesBy(p, t) \subseteq Nat /\ \A l \in SamplesBy(p, t) : l <= Len(samples)
  BY <1>1
<1>3. Max(SamplesBy(p, t)) \in SamplesBy(p, t) /\ \A l \in SamplesBy(p, t) : l <= Max(SamplesBy(p, t))
  BY <1>1, <1>2, GreatestNat
<1> QED BY <1>1, <1>3 DEF SamplesBy, Latest

\* No sample in between: the last one is the same.
LEMMA SameLatest ==
  ASSUME NEW p, NEW t, NEW u, SamplesBy(p, t) = SamplesBy(p, u)
  PROVE  Latest(p, t) = Latest(p, u)
BY DEF Latest

\* A sample more is the last one from its tick on, and leaves the others.
LEMMA SampleAdded ==
  ASSUME samples \in Seq(Row), NEW s \in Row, samples' = Append(samples, s), NEW p, NEW t
  PROVE  /\ s.entity_id # p \/ ~(s.tick <= t) =>
              SamplesBy(p, t)' = SamplesBy(p, t) /\ (SamplesBy(p, t) # {} => Latest(p, t)' = Latest(p, t))
         /\ s.entity_id = p /\ s.tick <= t => SamplesBy(p, t)' # {} /\ Latest(p, t)' = s
<1> DEFINE n == Len(samples)
<1>1. n \in Nat
  OBVIOUS
<1>2. /\ DOMAIN samples = 1..n /\ DOMAIN samples' = 1..(n + 1)
      /\ \A l \in 1..n : samples'[l] = samples[l]
      /\ samples'[n + 1] = s
  OBVIOUS
<1>3. SamplesBy(p, t) = {l \in 1..n : samples[l].entity_id = p /\ samples[l].tick <= t}
  BY <1>2 DEF SamplesBy
<1>4. SamplesBy(p, t)' = {l \in 1..(n + 1) : samples'[l].entity_id = p /\ samples'[l].tick <= t}
  BY <1>2 DEF SamplesBy
<1>5. 1..(n + 1) = 1..n \cup {n + 1}
  BY <1>1
<1> HIDE DEF n
<1>6. SamplesBy(p, t)' = SamplesBy(p, t) \cup (IF s.entity_id = p /\ s.tick <= t THEN {n + 1} ELSE {})
  BY <1>2, <1>3, <1>4, <1>5
<1>7. CASE s.entity_id # p \/ ~(s.tick <= t)
  <2>1. SamplesBy(p, t)' = SamplesBy(p, t)
    BY <1>6, <1>7
  <2>2. ASSUME SamplesBy(p, t) # {}
        PROVE  Latest(p, t)' = Latest(p, t)
    <3>1. SamplesBy(p, t) \subseteq Nat /\ \A l \in SamplesBy(p, t) : l <= n
      BY <1>1, <1>3
    <3>2. Max(SamplesBy(p, t)) \in SamplesBy(p, t)
      BY <1>1, <2>2, <3>1, GreatestNat
    <3>3. Max(SamplesBy(p, t)) \in 1..n
      BY <1>3, <3>2
    <3>4. samples'[Max(SamplesBy(p, t))] = samples[Max(SamplesBy(p, t))]
      BY <1>2, <3>3
    <3> QED BY <2>1, <3>4 DEF Latest
  <2> QED BY <1>7, <2>1, <2>2
<1>8. CASE s.entity_id = p /\ s.tick <= t
  <2> DEFINE S == SamplesBy(p, t)'
  <2>1. n + 1 \in S /\ S \subseteq Nat /\ \A l \in S : l <= n + 1
    BY <1>1, <1>3, <1>6, <1>8
  <2>2. Max(S) \in S /\ \A l \in S : l <= Max(S)
    BY <1>1, <2>1, GreatestNat
  <2>3. Max(S) = n + 1
    <3>1. Max(S) <= n + 1 /\ n + 1 <= Max(S) /\ Max(S) \in Nat
      BY <2>1, <2>2
    <3> QED BY <1>1, <3>1
  <2>4. Latest(p, t)' = samples'[Max(S)]
    BY DEF Latest
  <2> QED BY <1>2, <1>8, <2>1, <2>3, <2>4
<1> QED BY <1>7, <1>8

LEMMA NextShownThen ==
  (\A i \in Nat \ {0}, e \in Entity :
     ShownBefore(i + 1, e) = IF Shown(i, e) # None THEN Shown(i, e) ELSE ShownBefore(i, e))'
<1>1. \A i \in Nat \ {0}, e \in Entity :
        ShownBefore(i + 1, e) = IF Shown(i, e) # None THEN Shown(i, e) ELSE ShownBefore(i, e)
  BY NextShown
<1> QED BY <1>1, PTL

\* What was shown before some packet stays so.
LEMMA SameShown ==
  ASSUME NEW n \in Nat, NEW e, \A i \in 1..n : Shown(i, e)' = Shown(i, e)
  PROVE  \A i \in 1..(n + 1) : ShownBefore(i, e)' = ShownBefore(i, e)
<1> SUFFICES ASSUME NEW i \in 1..(n + 1) PROVE ShownBefore(i, e)' = ShownBefore(i, e)
  OBVIOUS
<1> DEFINE before == {j \in 1..(i - 1) : Shown(j, e) # None}
           later == {j \in 1..(i - 1) : Shown(j, e)' # None}
<1>1. \A j \in 1..(i - 1) : j \in 1..n
  OBVIOUS
<1>2. before = later
  BY <1>1
<1>3. before # {} => Max(before) \in 1..(i - 1)
  <2>1. before \subseteq Nat /\ \A j \in before : j <= i - 1
    OBVIOUS
  <2>2. before # {} => i - 1 \in Nat
    OBVIOUS
  <2> QED BY <2>1, <2>2, GreatestNat
<1>4. ShownBefore(i, e) = IF before = {} THEN None ELSE Shown(Max(before), e)
  BY DEF ShownBefore
<1>5. PICK m : m = Max(before)
  OBVIOUS
<1>6. ShownBefore(i, e)' = IF later = {} THEN None
                           ELSE Shown(m, e)'
  <2>1. ShownBefore(i, e)' = IF later = {} THEN None
                             ELSE IF e \in truth'[Max(later)].view THEN truth'[Max(later)].world[e] ELSE None
    BY DEF ShownBefore, Shown
  <2>2. Max(later) = m
    BY <1>2, <1>5
  <2> HIDE DEF before, later
  <2> QED BY <1>2, <2>1, <2>2 DEF Shown
<1> QED BY <1>1, <1>2, <1>3, <1>4, <1>5, <1>6

LEMMA SamplesAre ==
  ASSUME GameInv, PassType, SampleTicks, NEW l \in 1..Len(samples)
  PROVE  /\ samples[l] \in Row /\ samples[l].tick \in Nat /\ samples[l].entity_id \in Player
         /\ samples[l].tick <= tick /\ Len(truth) > 0
<1>1. samples[l] \in Row
  BY DEF PassType
<1>2. samples[l].tick \in Nat /\ samples[l].entity_id \in Player
  BY <1>1 DEF Row
<1>3. PICK i \in 1..Len(truth) : samples[l].tick = truth[i].tick
  BY DEF SampleTicks
<1>4. samples[l].tick <= tick
  BY <1>3 DEF GameInv, Ticks
<1>5. Len(truth) \in Nat
  BY DEF GameInv, GameOK
<1> QED BY <1>1, <1>2, <1>3, <1>4, <1>5

\* Between packets nothing of this changes.
LEMMA SamePass ==
  ASSUME PassType, PassOK, Updates, UNCHANGED <<truth, tick, sent, inbox, pass>>,
         Taken \/ (world' = world /\ over' = over)
  PROVE  PassType' /\ PassOK' /\ Updates'
<1>1. UNCHANGED <<inbox, entity_classes, players, samples>>
  BY DEF pass
<1>2. PassType'
  BY <1>1 DEF PassType
<1>3. \A e : TakenTo(e)' = TakenTo(e)
  BY <1>1 DEF TakenTo
<1>4. \A i, e : Shown(i, e)' = Shown(i, e) /\ ShownAt(i, e)' = ShownAt(i, e) /\ ShownBefore(i, e)' = ShownBefore(i, e)
  BY DEF Shown, ShownAt, ShownBefore
<1>5. \A p, t : SamplesBy(p, t)' = SamplesBy(p, t) /\ Latest(p, t)' = Latest(p, t)
  BY <1>1 DEF SamplesBy, Latest
<1>6. ASSUME NEW i, NEW p
      PROVE  Carried(i, p)' <=> Carried(i, p)
  <2>1. PICK t : t = truth[i].tick /\ t = truth'[i].tick
    OBVIOUS
  <2>2. PICK s : s = Latest(p, t) /\ s = Latest(p, t)'
    BY <1>5
  <2>3. PICK w : w = ShownBefore(i + 1, p) /\ w = ShownBefore(i + 1, p)'
    BY <1>4
  <2>4. (SamplesBy(p, t) = {}) <=> (SamplesBy(p, t)' = {})
    BY <1>5
  <2>5. (Shown(i, p) # None) <=> (Shown(i, p)' # None)
    BY <1>4
  <2> QED BY <2>1, <2>2, <2>3, <2>4, <2>5 DEF Carried
<1>7. \A i, p : Named(i, p)' = Named(i, p)
  BY <1>4, <1>5 DEF Named, SeenBefore
<1>8. \A i, p : Known(i, p)' = Known(i, p)
  BY <1>1, <1>4 DEF Known
<1>9. \A i, w : Classed(i, w)' = Classed(i, w)
  BY <1>1 DEF Classed
<1>10. SampleTicks'
  BY <1>1 DEF PassOK, SampleTicks
<1>11. PassOK'
  BY <1>3, <1>6, <1>7, <1>8, <1>9, <1>10 DEF PassOK
<1>12. Updates'
  BY <1>1, <1>4 DEF Updates, Taken
<1> QED BY <1>2, <1>11, <1>12

-----------------------------------------------------------------------------
(* A packet arrives                                                        *)

PassInv == PassType /\ PassOK /\ Updates

\* Two packets and the entities between them.
LEMMA SameBetween ==
  ASSUME GameOK, Serials, NEW j \in 1..Len(truth), NEW h \in 1..Len(truth), NEW i \in 1..Len(truth),
         NEW e \in Entity, j <= h, h <= i, Same(truth[j].world[e], truth[i].world[e])
  PROVE  /\ Same(truth[j].world[e], truth[h].world[e]) /\ Same(truth[h].world[e], truth[i].world[e])
         /\ truth[j].world[e].kind = truth[i].world[e].kind /\ truth[j].world[e].kind = truth[h].world[e].kind
<1>1. CASE j = i
  <2>1. h = i
    BY <1>1
  <2> QED BY <1>1, <2>1
<1>2. CASE j < i
  <2>1. truth[j].world[e].kind = truth[i].world[e].kind /\ Same(truth[j].world[e], truth[h].world[e])
    BY <1>2 DEF Serials
  <2>2. Same(truth[h].world[e], truth[i].world[e])
    BY <2>1 DEF Same
  <2>3. truth[h].world[e].kind = truth[i].world[e].kind
    <3>1. h < i \/ h = i
      OBVIOUS
    <3> QED BY <2>2, <3>1 DEF Serials
  <2> QED BY <2>1, <2>2, <2>3
<1> QED BY <1>1, <1>2

LEMMA PacketKeepsTicks ==
  ASSUME GameInv, PassType, SampleTicks, RecordPacket
  PROVE  SampleTicks'
<1>1. PICK n \in Nat : n = Len(truth)
  BY DEF GameInv, GameOK
<1>2. /\ Len(truth') = n + 1 /\ \A i \in 1..n : truth'[i] = truth[i]
      /\ samples' = samples /\ tick' > tick
  BY <1>1, PacketIs
<1>3. ASSUME NEW l \in 1..Len(samples)
      PROVE  samples[l].tick # tick' /\ \E i \in 1..(n + 1) : samples[l].tick = truth'[i].tick
  <2>1. samples[l].tick \in Nat /\ samples[l].tick <= tick /\ tick \in Nat /\ tick' \in Nat
    BY SamplesAre, PacketIs DEF GameInv, GameOK
  <2>2. PICK i \in 1..n : samples[l].tick = truth[i].tick
    BY <1>1 DEF SampleTicks
  <2>3. i \in 1..(n + 1) /\ truth'[i] = truth[i]
    BY <1>2
  <2> QED BY <1>2, <2>1, <2>2, <2>3
<1> QED BY <1>2, <1>3 DEF SampleTicks

\* What a packet leaves as it was.
LEMMA PacketLeaves ==
  ASSUME GameInv, PassInv, RecordPacket, NEW n \in Nat, n = Len(truth), NEW p \in Player
  PROVE  /\ \A i \in 1..(n + 1) : ShownBefore(i, p)' = ShownBefore(i, p)
         /\ \A t : SamplesBy(p, t)' = SamplesBy(p, t) /\ Latest(p, t)' = Latest(p, t)
         /\ \A i \in 1..n : Carried(i, p) => Carried(i, p)'
         /\ \A i \in 1..n : Carried(i, p) /\ Named(i, p) => Named(i, p)'
         /\ Known(n, p) => Known(n, p)'
<1>1. /\ Len(truth') = n + 1 /\ \A i \in 1..n : truth'[i] = truth[i]
      /\ UNCHANGED <<samples, players, entity_classes>>
      /\ truth'[n + 1].tick = tick' /\ tick' > tick /\ tick' \in Nat
  BY PacketIs
<1>2. /\ \A i \in 0..n : ShownAt(i, p)' = ShownAt(i, p)
      /\ \A i \in 1..n : Shown(i, p)' = Shown(i, p)
  BY PacketShows
<1>3. \A i \in 1..(n + 1) : ShownBefore(i, p)' = ShownBefore(i, p)
  BY <1>2, SameShown
<1>4. \A t : SamplesBy(p, t)' = SamplesBy(p, t) /\ Latest(p, t)' = Latest(p, t)
  BY <1>1 DEF SamplesBy, Latest
<1>5. ASSUME NEW i \in 1..n, Carried(i, p)
      PROVE  Carried(i, p)'
  <2>1. PICK t : t = truth[i].tick /\ t = truth'[i].tick
    BY <1>1
  <2>2. PICK s : s = Latest(p, t) /\ s = Latest(p, t)'
    BY <1>4
  <2>3. PICK w : w = ShownBefore(i + 1, p) /\ w = ShownBefore(i + 1, p)'
    BY <1>3
  <2>4. (SamplesBy(p, t) = {}) <=> (SamplesBy(p, t)' = {})
    BY <1>4
  <2>5. (Shown(i, p) # None) <=> (Shown(i, p)' # None)
    BY <1>2
  <2> QED BY <1>5, <2>1, <2>2, <2>3, <2>4, <2>5 DEF Carried
<1>6. ASSUME NEW i \in 1..n, Carried(i, p), Named(i, p)
      PROVE  Named(i, p)'
  <2>1. PICK t : t = truth[i].tick /\ t = truth'[i].tick
    BY <1>1
  <2>2. PICK s : s = Latest(p, t) /\ s = Latest(p, t)'
    BY <1>4
  <2>3. PICK w : w = Shown(i, p) /\ w = Shown(i, p)'
    BY <1>2
  <2>4. CASE w = None
    BY <2>3, <2>4 DEF Named
  <2>5. CASE w # None
    <3>1. ShownBefore(i + 1, p) # None
      <4>1. i \in Nat \ {0}
        OBVIOUS
      <4>2. ShownBefore(i + 1, p) = IF Shown(i, p) # None THEN Shown(i, p) ELSE ShownBefore(i, p)
        BY <4>1, NextShown
      <4> QED BY <2>3, <2>5, <4>2
    <3>2. SamplesBy(p, t) # {}
      BY <1>6, <2>1, <3>1 DEF Carried
    <3>3. s.tick <= tick /\ s.tick \in Nat
      <4>1. samples \in Seq(Row)
        BY DEF PassInv, PassType
      <4>2. \E l \in 1..Len(samples) : Latest(p, t) = samples[l]
        BY <3>2, <4>1, LatestIs
      <4>3. PICK l \in 1..Len(samples) : s = samples[l]
        BY <2>2, <4>2
      <4> QED BY <4>3, SamplesAre DEF PassInv, PassOK
    <3>4. SeenBefore(w.weapon, i, s.tick)' => SeenBefore(w.weapon, i, s.tick)
      <4> SUFFICES ASSUME SeenBefore(w.weapon, i, s.tick)' PROVE SeenBefore(w.weapon, i, s.tick)
        OBVIOUS
      <4>1. PICK j \in 1..(n + 1) :
              /\ truth'[j].tick < s.tick /\ w.weapon \in truth'[j].view /\ truth'[j].world[w.weapon] # None
              /\ truth'[j].world[w.weapon].serial = truth'[i].world[w.weapon].serial
        <5>1. DOMAIN truth' = 1..(n + 1)
          BY <1>1, PacketIs
        <5> QED BY <5>1 DEF SeenBefore
      <4>2. tick \in Nat
        BY DEF GameInv, GameOK
      <4>3. j # n + 1
        BY <1>1, <3>3, <4>1, <4>2
      <4>4. j \in 1..n /\ truth'[j] = truth[j] /\ truth'[i] = truth[i]
        BY <1>1, <4>3
      <4>5. j \in DOMAIN truth
        BY <4>4 DEF GameInv, GameOK
      <4> QED BY <4>1, <4>4, <4>5 DEF SeenBefore
    <3>5. truth'[i] = truth[i]
      BY <1>1
    <3> QED BY <1>6, <2>1, <2>2, <2>3, <3>4, <3>5 DEF Named
  <2> QED BY <2>4, <2>5
<1>7. ASSUME Known(n, p)
      PROVE  Known(n, p)'
  <2>1. PICK w : w = ShownBefore(n + 1, p) /\ w = ShownBefore(n + 1, p)'
    BY <1>3
  <2>2. PICK is : is = ShownAt(n, p) /\ is = ShownAt(n, p)'
    BY <1>2
  <2> QED BY <1>1, <1>7, <2>1, <2>2 DEF Known
<1> QED BY <1>3, <1>4, <1>5, <1>6, <1>7

\* A packet that has no update of a player shows what was last shown.
LEMMA PacketSkips ==
  ASSUME GameInv, PassInv, RecordPacket, NEW n \in Nat, n = Len(truth), NEW p \in Player, inbox'[p] = None,
         Known(n, p), n > 0 => Carried(n, p) /\ Named(n, p), Serials'
  PROVE  Carried(n + 1, p)' /\ Named(n + 1, p)' /\ Known(n + 1, p)'
<1>1. /\ Len(truth') = n + 1 /\ \A i \in 1..n : truth'[i] = truth[i]
      /\ UNCHANGED <<samples, players, entity_classes>>
      /\ truth'[n + 1].tick = tick' /\ tick' > tick /\ tick' \in Nat /\ tick \in Nat
      /\ DOMAIN truth' = 1..(n + 1) /\ DOMAIN truth = 1..n
  <2>1. truth \in Seq(Packet) /\ tick \in Nat
    BY DEF GameInv, GameOK
  <2>2. /\ Len(truth') = n + 1 /\ truth' \in Seq(Packet) /\ \A i \in 1..n : truth'[i] = truth[i]
        /\ tick' > tick /\ tick' \in Nat /\ UNCHANGED <<samples, players, entity_classes>>
    BY PacketIs
  <2>3. truth'[n + 1].tick = tick'
    BY PacketIs
  <2> QED BY <2>1, <2>2, <2>3
<1>2. p \in Entity /\ GameOK /\ samples \in Seq(Row) /\ SampleTicks
  BY DEF Entity, GameInv, PassInv, PassType, PassOK
<1>3. PICK is : is = ShownAt(n, p) /\ is = ShownAt(n + 1, p)' /\ is = Shown(n + 1, p)' /\ is = ShownAt(n, p)'
  <2>1. ShownAt(n + 1, p)' = ShownAt(n, p)
    BY <1>2, UpdatesPacket DEF PassInv
  <2>2. /\ \A i \in 0..n : ShownAt(i, p)' = ShownAt(i, p)
        /\ ShownAt(n + 1, p)' = (IF p \in View THEN world[p] ELSE None)
        /\ Shown(n + 1, p)' = (IF p \in View THEN world[p] ELSE None)
    BY PacketShows
  <2>3. n \in 0..n
    OBVIOUS
  <2> QED BY <2>1, <2>2, <2>3
<1>4. PICK w : w = ShownBefore(n + 1, p) /\ w = ShownBefore(n + 2, p)'
  <2>1. ShownBefore(n + 1, p)' = ShownBefore(n + 1, p)
    BY PacketLeaves
  <2>2. ShownBefore(n + 2, p)' = IF is # None THEN is ELSE ShownBefore(n + 1, p)'
    <3>1. n + 1 \in Nat \ {0} /\ n + 1 + 1 = n + 2
      OBVIOUS
    <3>2. ShownBefore(n + 1 + 1, p)' = IF Shown(n + 1, p)' # None THEN Shown(n + 1, p)' ELSE ShownBefore(n + 1, p)'
      BY <1>2, <3>1, NextShownThen
    <3> QED BY <1>3, <3>1, <3>2
  <2>3. is # None => ShownBefore(n + 1, p) = is
    <3> SUFFICES ASSUME is # None PROVE ShownBefore(n + 1, p) = is
      OBVIOUS
    <3>1. n \in Nat \ {0} /\ Shown(n, p) = is
      BY <1>3 DEF ShownAt
    <3>2. ShownBefore(n + 1, p) = IF Shown(n, p) # None THEN Shown(n, p) ELSE ShownBefore(n, p)
      BY <3>1, NextShown
    <3> QED BY <3>1, <3>2
  <2> QED BY <2>1, <2>2, <2>3
<1>5. Known(n + 1, p)'
  <2>1. n + 1 + 1 = n + 2
    OBVIOUS
  <2> QED BY <1>1, <1>3, <1>4, <2>1 DEF Known
<1>6. PICK now \in Nat, later \in Nat : now = tick /\ later = tick'
  BY <1>1
<1>7. SamplesBy(p, now) = SamplesBy(p, later)
  <2>1. \A l \in 1..Len(samples) : samples[l].tick \in Nat /\ samples[l].tick <= tick
    BY <1>2, SamplesAre DEF PassInv
  <2>2. \A l \in 1..Len(samples) : samples[l].tick <= later /\ samples[l].tick <= now
    BY <1>1, <1>6, <2>1
  <2>3. DOMAIN samples = 1..Len(samples)
    BY <1>2
  <2> QED BY <2>2, <2>3 DEF SamplesBy
<1>8. PICK S : S = SamplesBy(p, now) /\ S = SamplesBy(p, later)'
  BY <1>7, PacketLeaves
<1>9. PICK s : s = Latest(p, now) /\ s = Latest(p, later)'
  <2>1. Latest(p, now) = Latest(p, later)
    BY <1>7, SameLatest
  <2> QED BY <2>1, PacketLeaves
<1>10. n > 0 => truth[n].tick = now
  <2>1. n > 0 => truth # <<>>
    BY DEF GameInv, GameOK
  <2> QED BY <1>6, <2>1 DEF GameInv, Ticks
<1>11. Carried(n + 1, p)'
  <2>1. n + 1 + 1 = n + 2 /\ later = truth'[n + 1].tick
    BY <1>1, <1>6
  <2>2. CASE n = 0
    <3>1. w = None
      BY <1>4, <2>2, FirstShown
    <3>2. Len(samples) = 0
      <4>1. Len(samples) \in Nat
        BY <1>2
      <4>2. ~(1 \in 1..Len(samples))
        BY <1>2, <2>2, SamplesAre DEF PassInv
      <4> QED BY <4>1, <4>2
    <3>3. S = {}
      BY <1>2, <1>8, <3>2 DEF SamplesBy
    <3> QED BY <1>4, <1>8, <2>1, <3>1, <3>3 DEF Carried
  <2>3. CASE n > 0
    <3>1. /\ w = None => S = {}
          /\ w # None => /\ S # {}
                         /\ s.aim = w.aim /\ s.health = w.health /\ s.team = w.team /\ s.alive = (w.health > 0)
                         /\ s.in_pvs <=> is # None
      <4>1. Shown(n, p) = is
        BY <1>3, <2>3 DEF ShownAt
      <4> QED BY <1>4, <1>8, <1>9, <1>10, <2>3, <4>1 DEF Carried
    <3> QED BY <1>3, <1>4, <1>8, <1>9, <2>1, <3>1 DEF Carried
  <2> QED BY <2>2, <2>3
<1>12. Named(n + 1, p)'
  <2> SUFFICES ASSUME is # None, is.weapon # None, SeenBefore(is.weapon, n + 1, s.tick)'
               PROVE  s.weapon = truth'[n + 1].world[is.weapon].kind
    BY <1>1, <1>3, <1>6, <1>9 DEF Named
  <2>1. n > 0 /\ Shown(n, p) = is
    BY <1>3 DEF ShownAt
  <2>2. s.tick \in Nat /\ s.tick <= now
    <3>1. ShownBefore(n + 1, p) # None
      <4>1. n \in Nat \ {0}
        BY <2>1
      <4>2. ShownBefore(n + 1, p) = IF Shown(n, p) # None THEN Shown(n, p) ELSE ShownBefore(n, p)
        BY <4>1, NextShown
      <4> QED BY <2>1, <4>2
    <3>2. SamplesBy(p, now) # {}
      BY <1>10, <2>1, <3>1 DEF Carried
    <3>3. \E l \in 1..Len(samples) : Latest(p, now) = samples[l]
      BY <1>2, <3>2, LatestIs
    <3>4. PICK l \in 1..Len(samples) : s = samples[l]
      BY <1>9, <3>3
    <3> QED BY <1>2, <1>6, <3>4, SamplesAre DEF PassInv
  <2>3. PICK j \in 1..(n + 1) :
          /\ truth'[j].tick < s.tick /\ is.weapon \in truth'[j].view /\ truth'[j].world[is.weapon] # None
          /\ truth'[j].world[is.weapon].serial = truth'[n + 1].world[is.weapon].serial
    BY <1>1 DEF SeenBefore
  <2>4. j \in 1..n
    BY <1>1, <1>6, <2>2, <2>3
  <2>5. is.weapon \in Weapon /\ is.weapon \in Entity /\ truth'[n + 1].world[is.weapon] # None
    <3>1. truth'[n + 1].world[p] = is /\ truth'[n + 1].world = world
      <4>1. truth'[n + 1] = [tick |-> tick', world |-> world, view |-> View, deaths |-> fired]
        BY PacketIs
      <4>2. Shown(n + 1, p)' = (IF p \in View THEN world[p] ELSE None)
        BY PacketShows
      <4> QED BY <1>3, <4>1, <4>2
    <3>2. world[p] # None /\ world[p].weapon # None /\ world[p].weapon \in Weapon \cup {None}
          /\ world[world[p].weapon] # None
      BY <1>2, <3>1, WorldIs DEF GameOK
    <3> QED BY <3>1, <3>2 DEF Entity
  <2>6. PICK x \in Entity : x = is.weapon
    BY <2>5
  <2>7. GameOK'
    BY PacketKeepsOK
  <2>8. Same(truth'[j].world[x], truth'[n + 1].world[x])
    BY <2>3, <2>5, <2>6 DEF Same
  <2>9. /\ Same(truth'[j].world[x], truth'[n].world[x]) /\ truth'[j].world[x].kind = truth'[n + 1].world[x].kind
        /\ truth'[j].world[x].kind = truth'[n].world[x].kind
    <3>1. j < n + 1 /\ n \in j..(n + 1)
      BY <2>4
    <3>2. Same(truth'[j].world[x], truth'[n].world[x]) /\ truth'[j].world[x].kind = truth'[n + 1].world[x].kind
      BY <1>1, <2>8, <3>1 DEF Serials
    <3>3. n \in 1..(n + 1) /\ (j < n \/ j = n)
      BY <2>1, <2>4
    <3>4. truth'[j].world[x].kind = truth'[n].world[x].kind
      BY <1>1, <3>2, <3>3 DEF Serials
    <3> QED BY <3>2, <3>4
  <2>10. SeenBefore(x, n, s.tick)
    <3>1. truth'[j] = truth[j] /\ truth'[n] = truth[n] /\ j \in DOMAIN truth
      BY <1>1, <2>1, <2>4
    <3>2. truth[j].tick < s.tick /\ x \in truth[j].view /\ truth[j].world[x] # None
          /\ truth[j].world[x].serial = truth[n].world[x].serial
      BY <2>3, <2>6, <2>9, <3>1 DEF Same
    <3> QED BY <3>1, <3>2 DEF SeenBefore
  <2>11. s.weapon = truth[n].world[x].kind
    BY <1>9, <1>10, <2>1, <2>6, <2>10 DEF Named
  <2> QED BY <1>1, <2>1, <2>4, <2>6, <2>9, <2>11
<1> QED BY <1>5, <1>11, <1>12

\* So it is with a weapon's class.
LEMMA PacketClasses ==
  ASSUME GameInv, PassInv, RecordPacket, NEW n \in Nat, n = Len(truth), NEW w \in Weapon, Classed(n, w), Serials'
  PROVE  Classed(n, w)' /\ (inbox'[w] = None => Classed(n + 1, w)')
<1>1. /\ Len(truth') = n + 1 /\ \A i \in 1..n : truth'[i] = truth[i]
      /\ entity_classes' = entity_classes
  BY PacketIs
<1>2. Classed(n, w)'
  <2> SUFFICES ASSUME NEW j \in 1..n, w \in truth'[j].view, Same(truth'[j].world[w], truth'[n].world[w])
               PROVE  entity_classes'[w] = truth'[j].world[w].kind
    BY DEF Classed
  <2>1. truth'[j] = truth[j] /\ truth'[n] = truth[n]
    BY <1>1
  <2> QED BY <1>1, <2>1 DEF Classed
<1>3. ASSUME inbox'[w] = None
      PROVE  Classed(n + 1, w)'
  <2> SUFFICES ASSUME NEW j \in 1..(n + 1), w \in truth'[j].view, Same(truth'[j].world[w], truth'[n + 1].world[w])
               PROVE  entity_classes'[w] = truth'[j].world[w].kind
    BY DEF Classed
  <2>1. w \in Entity /\ GameOK
    BY DEF Entity, GameInv
  <2>2. CASE j \in 1..n
    <3>1. j < n + 1 /\ n \in j..(n + 1) /\ j \in 1..(n + 1)
      BY <2>2
    <3>2. Same(truth'[j].world[w], truth'[n].world[w])
      BY <1>1, <2>1, <3>1 DEF Serials
    <3>3. truth'[j] = truth[j] /\ truth'[n] = truth[n]
      BY <1>1, <2>2
    <3> QED BY <1>1, <2>2, <3>2, <3>3 DEF Classed
  <2>3. CASE j = n + 1
    <3>1. Shown(n + 1, w)' = truth'[n + 1].world[w] /\ truth'[n + 1].world[w] # None
      BY <2>3 DEF Shown, Same
    <3>2. ShownAt(n + 1, w)' = ShownAt(n, w)
      BY <1>3, <2>1, UpdatesPacket DEF PassInv
    <3>3. ShownAt(n + 1, w)' = Shown(n + 1, w)'
      BY PacketShows
    <3>4. n # 0 /\ Shown(n, w) = truth'[n + 1].world[w]
      BY <3>1, <3>2, <3>3 DEF ShownAt
    <3>5. n \in 1..n /\ w \in truth[n].view /\ truth[n].world[w] = truth'[n + 1].world[w]
      BY <3>1, <3>4 DEF Shown
    <3>6. Same(truth[n].world[w], truth[n].world[w])
      BY <3>1, <3>5 DEF Same
    <3>7. entity_classes[w] = truth[n].world[w].kind
      BY <3>5, <3>6 DEF Classed
    <3> QED BY <1>1, <2>3, <3>5, <3>7
  <2>4. j \in 1..n \/ j = n + 1
    OBVIOUS
  <2> QED BY <2>2, <2>3, <2>4
<1> QED BY <1>2, <1>3

LEMMA PacketKeepsPass ==
  ASSUME GameInv, PassInv, RecordPacket
  PROVE  PassInv'
<1>1. PICK n \in Nat : n = Len(truth)
  BY DEF GameInv, GameOK
<1>2. Taken /\ Len(truth') = n + 1 /\ UNCHANGED <<players, samples, entity_classes>>
  BY <1>1, PacketIs
<1>3. PassType'
  BY <1>2 DEF PassInv, PassType
<1>4. Updates' /\ Serials'
  BY <1>1, UpdatesPacket, PacketKeepsOK DEF PassInv
<1>5. SampleTicks'
  BY PacketKeepsTicks DEF PassInv, PassOK
<1>6. \A e \in Entity : TakenTo(e) = n
  BY <1>1, <1>2 DEF TakenTo, Taken
<1>7. \A e \in Entity : TakenTo(e)' = IF inbox'[e] = None THEN n + 1 ELSE n
  BY <1>1, <1>2 DEF TakenTo
<1>8. ASSUME NEW w \in Weapon
      PROVE  Classed(TakenTo(w), w)'
  <2>1. Classed(n, w) /\ w \in Entity
    BY <1>6 DEF PassInv, PassOK, Entity
  <2>2. Classed(n, w)' /\ (inbox'[w] = None => Classed(n + 1, w)')
    BY <1>1, <1>4, <2>1, PacketClasses
  <2>3. PICK t : t = TakenTo(w)'
    OBVIOUS
  <2>4. Classed(t, w)'
    BY <1>7, <2>1, <2>2, <2>3
  <2> QED BY <2>3, <2>4
<1>9. ASSUME NEW p \in Player
      PROVE  /\ Known(TakenTo(p), p)'
             /\ \A i \in 1..TakenTo(p)' : Carried(i, p)' /\ Named(i, p)'
  <2>1. Known(n, p) /\ p \in Entity /\ \A i \in 1..n : Carried(i, p) /\ Named(i, p)
    BY <1>6 DEF PassInv, PassOK, Entity
  <2>2. Known(n, p)' /\ \A i \in 1..n : Carried(i, p)' /\ Named(i, p)'
    BY <1>1, <2>1, PacketLeaves
  <2>3. n > 0 => Carried(n, p) /\ Named(n, p)
    BY <2>1
  <2>4. inbox'[p] = None => Carried(n + 1, p)' /\ Named(n + 1, p)' /\ Known(n + 1, p)'
    BY <1>1, <1>4, <2>1, <2>3, PacketSkips
  <2>5. PICK t : t = TakenTo(p)'
    OBVIOUS
  <2>6. t = IF inbox'[p] = None THEN n + 1 ELSE n
    BY <1>7, <2>1, <2>5
  <2>7. Known(t, p)' /\ \A i \in 1..t : Carried(i, p)' /\ Named(i, p)'
    <3>1. \A i \in 1..(n + 1) : i \in 1..n \/ i = n + 1
      OBVIOUS
    <3> QED BY <2>2, <2>4, <2>6, <3>1
  <2> QED BY <2>5, <2>7
<1> QED BY <1>3, <1>4, <1>5, <1>8, <1>9 DEF PassInv, PassOK

-----------------------------------------------------------------------------
(* An update is taken                                                      *)

\* Update e's sample, if there is one.
Grown(e) ==
  \/ samples' = samples
  \/ \E s \in Row : samples' = Append(samples, s) /\ s.entity_id = e /\ s.tick = tick

LEMMA TakeSame ==
  ASSUME GameInv, PassInv, TakeAny
  PROVE  /\ truth' = truth /\ tick' = tick
         /\ \A i, e : Shown(i, e)' = Shown(i, e) /\ ShownAt(i, e)' = ShownAt(i, e) /\ ShownBefore(i, e)' = ShownBefore(i, e)
         /\ \A e \in Entity : TakenTo(e)' = IF e = Id THEN Len(truth) ELSE TakenTo(e)
         /\ TakenTo(Id) = Len(truth) - 1
<1>1. truth' = truth /\ tick' = tick
  BY TakeIs DEF game, PassInv
<1>2. \A i, e : Shown(i, e)' = Shown(i, e) /\ ShownAt(i, e)' = ShownAt(i, e) /\ ShownBefore(i, e)' = ShownBefore(i, e)
  BY <1>1 DEF Shown, ShownAt, ShownBefore
<1>3. Id \in Entity /\ inbox[Id] # None /\ inbox' = [inbox EXCEPT ![Id] = None] /\ DOMAIN inbox = Entity
  BY TakeIs DEF PassInv, Updates
<1>4. PICK id \in Entity : id = Id
  BY <1>3
<1>5. \A e \in Entity : inbox'[e] = IF e = id THEN None ELSE inbox[e]
  BY <1>3, <1>4
<1>6. \A e \in Entity : TakenTo(e)' = IF e = id THEN Len(truth) ELSE TakenTo(e)
  BY <1>1, <1>5 DEF TakenTo
<1> QED BY <1>1, <1>2, <1>3, <1>4, <1>6 DEF TakenTo

LEMMA TakeTicks ==
  ASSUME GameInv, PassInv, TakeAny, Grown(Id)
  PROVE  SampleTicks'
<1>1. PICK e \in Entity : e = Id /\ inbox[e] # None /\ inbox' = [inbox EXCEPT ![e] = None]
  BY TakeIs DEF PassInv
<1>2. truth' = truth /\ tick' = tick /\ tick \in Nat /\ samples \in Seq(Row) /\ SampleTicks
  BY TakeSame DEF PassInv, PassType, PassOK, GameInv, GameOK
<1>3. \A q \in Entity : inbox'[q] = inbox[q] \/ inbox'[q] = None
  BY <1>1 DEF PassInv, Updates
<1>4. CASE samples' = samples
  <2>1. \A l \in 1..Len(samples) : samples[l].entity_id \in Entity
    BY <1>2, SamplesAre DEF PassInv, Entity
  <2>2. \A l \in 1..Len(samples) : samples[l].tick = tick => inbox'[samples[l].entity_id] = None
    BY <1>2, <1>3, <2>1 DEF SampleTicks
  <2> QED BY <1>2, <1>4, <2>2 DEF SampleTicks
<1>5. ASSUME NEW s \in Row, samples' = Append(samples, s), s.entity_id = e, s.tick = tick
      PROVE  SampleTicks'
  <2> DEFINE n == Len(samples)
  <2>1. n \in Nat /\ Len(samples') = n + 1 /\ samples'[n + 1] = s /\ \A l \in 1..n : samples'[l] = samples[l]
    BY <1>2, <1>5
  <2>2. \A l \in 1..n : /\ samples[l].tick \in Nat /\ samples[l].tick <= tick
                        /\ samples[l].entity_id \in Entity
    BY <1>2, SamplesAre DEF PassInv, Entity
  <2>3. \A l \in 1..n : samples[l].entity_id = e => samples[l].tick < tick
    BY <1>1, <1>2, <2>2 DEF SampleTicks
  <2>4. \E i \in 1..Len(truth) : truth[i].tick = tick
    <3>1. Len(truth) \in Nat \ {0}
      BY TakeIs DEF PassInv
    <3>2. truth # <<>>
      BY <3>1
    <3> QED BY <3>1, <3>2 DEF GameInv, Ticks
  <2> HIDE DEF n
  <2>5. \A l \in 1..(n + 1) : l \in 1..n \/ l = n + 1
    BY <2>1
  <2>6. \A l \in 1..(n + 1) : \E i \in 1..Len(truth) : samples'[l].tick = truth[i].tick
    BY <1>2, <1>5, <2>1, <2>4, <2>5 DEF SampleTicks, n
  <2>7. ASSUME NEW l \in 1..(n + 1), NEW m \in 1..(n + 1), l < m
        PROVE  /\ samples'[l].tick <= samples'[m].tick
               /\ samples'[l].entity_id = samples'[m].entity_id => samples'[l].tick < samples'[m].tick
    <3>1. l \in 1..n
      BY <2>1, <2>7
    <3>2. CASE m \in 1..n
      BY <1>2, <2>1, <2>7, <3>1, <3>2 DEF SampleTicks, n
    <3>3. CASE m = n + 1
      BY <1>5, <2>1, <2>2, <2>3, <3>1, <3>3
    <3> QED BY <2>5, <3>2, <3>3
  <2>8. ASSUME NEW l \in 1..(n + 1), samples'[l].tick = tick
        PROVE  inbox'[samples'[l].entity_id] = None
    <3>1. CASE l \in 1..n
      BY <1>2, <1>3, <2>1, <2>2, <2>8, <3>1 DEF SampleTicks, n
    <3>2. CASE l = n + 1
      BY <1>1, <1>5, <2>1, <3>2 DEF PassInv, Updates
    <3> QED BY <2>5, <3>1, <3>2
  <2> QED BY <1>2, <2>1, <2>6, <2>7, <2>8 DEF SampleTicks
<1> QED BY <1>1, <1>4, <1>5 DEF Grown

\* The samples before this packet, and of the others, are left.
LEMMA TakeLeaves ==
  ASSUME GameInv, PassInv, TakeAny, Grown(Id), NEW p \in Player, NEW i \in 1..Len(truth),
         p # Id \/ i < Len(truth), Carried(i, p)
  PROVE  Carried(i, p)' /\ (Named(i, p) => Named(i, p)')
<1>1. PICK t \in Nat : t = truth[i].tick /\ t = truth'[i].tick
  <2>1. truth[i].tick \in Nat /\ truth' = truth
    BY TakeSame, PacketsAre DEF GameInv
  <2> QED BY <2>1
<1>2. samples \in Seq(Row)
  BY DEF PassInv, PassType
<1>3. p # Id \/ ~(tick <= t)
  <2>1. ASSUME i < Len(truth)
        PROVE  ~(tick <= t)
    <3>1. Len(truth) \in 1..Len(truth) /\ truth # <<>>
      BY DEF GameInv, GameOK
    <3>2. truth[i].tick < truth[Len(truth)].tick /\ truth[Len(truth)].tick = tick
      BY <2>1, <3>1 DEF GameInv, Ticks
    <3> QED BY <1>1, <3>2 DEF GameInv, GameOK
  <2> QED BY <2>1
<1>4. SamplesBy(p, t)' = SamplesBy(p, t) /\ (SamplesBy(p, t) # {} => Latest(p, t)' = Latest(p, t))
  <2>1. CASE samples' = samples
    BY <2>1 DEF SamplesBy, Latest
  <2>2. ASSUME NEW s \in Row, samples' = Append(samples, s), s.entity_id = Id, s.tick = tick
        PROVE  SamplesBy(p, t)' = SamplesBy(p, t) /\ (SamplesBy(p, t) # {} => Latest(p, t)' = Latest(p, t))
    BY <1>2, <1>3, <2>2, SampleAdded
  <2> QED BY <2>1, <2>2 DEF Grown
<1>5. PICK w : w = ShownBefore(i + 1, p) /\ w = ShownBefore(i + 1, p)'
  BY TakeSame
<1>6. PICK is : is = Shown(i, p) /\ is = Shown(i, p)'
  BY TakeSame
<1>7. w # None => SamplesBy(p, t) # {}
  BY <1>1, <1>5, Carried(i, p) DEF Carried
<1>8. Carried(i, p)'
  <2>1. CASE w = None
    BY <1>1, <1>4, <1>5, <2>1, Carried(i, p) DEF Carried
  <2>2. CASE w # None
    <3>1. PICK s : s = Latest(p, t) /\ s = Latest(p, t)'
      BY <1>4, <1>7, <2>2
    <3> QED BY <1>1, <1>4, <1>5, <1>6, <2>2, <3>1, Carried(i, p) DEF Carried
  <2> QED BY <2>1, <2>2
<1>9. ASSUME Named(i, p)
      PROVE  Named(i, p)'
  <2>1. CASE is = None
    BY <1>6, <2>1 DEF Named
  <2>2. CASE is # None
    <3>1. w # None
      <4>1. i \in Nat \ {0}
        OBVIOUS
      <4>2. ShownBefore(i + 1, p) = IF Shown(i, p) # None THEN Shown(i, p) ELSE ShownBefore(i, p)
        BY <4>1, NextShown
      <4> QED BY <1>5, <1>6, <2>2, <4>2
    <3>2. PICK s : s = Latest(p, t) /\ s = Latest(p, t)'
      BY <1>4, <1>7, <3>1
    <3>3. \A x, u : SeenBefore(x, i, u)' <=> SeenBefore(x, i, u)
      BY TakeSame DEF SeenBefore
    <3>4. truth' = truth
      BY TakeSame
    <3> QED BY <1>1, <1>6, <1>9, <3>2, <3>3, <3>4 DEF Named
  <2> QED BY <2>1, <2>2
<1> QED BY <1>8, <1>9

\* What is left to show of a step: the update's own player, and the types.
LEMMA TakeKeeps ==
  ASSUME GameInv, PassInv, TakeAny, Grown(Id), NEW n \in Nat \ {0}, n = Len(truth), NEW e \in Entity, e = Id,
         \A p \in Player \ {e} : players'[p] = players[p],
         e \in Player => Known(n, e)' /\ Carried(n, e)' /\ Named(n, e)',
         PassType'
  PROVE  PassInv'
<1>1. truth' = truth /\ SampleTicks' /\ Updates'
  BY TakeSame, TakeTicks, TakeKeepsUpdates DEF PassInv
<1>2. entity_classes' = [entity_classes EXCEPT ![e] = inbox[e].kind] /\ entity_classes \in [Entity -> WeaponClass \cup {"player", None}]
  BY TakeIs DEF PassInv, PassType
<1>3. /\ \A q \in Entity : TakenTo(q)' = IF q = e THEN n ELSE TakenTo(q)
      /\ TakenTo(e) = n - 1 /\ \A q \in Entity : TakenTo(q) \in {n - 1, n}
  BY TakeSame DEF TakenTo
<1>4. ASSUME NEW w \in Weapon
      PROVE  Classed(TakenTo(w), w)'
  <2>1. w \in Entity
    BY DEF Entity
  <2>2. CASE w = e
    <3>1. PICK t : t = TakenTo(w)' /\ t = n
      BY <1>3, <2>2
    <3>2. Classed(t, w)'
      <4> SUFFICES ASSUME NEW j \in 1..n, w \in truth[j].view, Same(truth[j].world[w], truth[n].world[w])
                   PROVE  entity_classes'[w] = truth[j].world[w].kind
        BY <1>1, <3>1 DEF Classed
      <4>1. From(ShownAt(n - 1, e), ShownAt(n, e), truth[n].world[e], inbox[e])
        BY TakeIs DEF PassInv, Updates
      <4>2. truth[n].world[w] # None
        BY DEF Same
      <4>3. inbox[e].kind = truth[n].world[w].kind
        BY <2>2, <4>1, <4>2 DEF From
      <4>4. truth[j].world[w].kind = truth[n].world[w].kind
        <5>1. j < n \/ j = n
          OBVIOUS
        <5> QED BY <2>1, <5>1 DEF GameInv, Serials
      <4> QED BY <1>2, <2>2, <4>3, <4>4
    <3> QED BY <3>1, <3>2
  <2>3. CASE w # e
    <3>1. PICK t : t = TakenTo(w)' /\ t = TakenTo(w)
      BY <1>3, <2>1, <2>3
    <3>2. Classed(t, w) /\ entity_classes'[w] = entity_classes[w]
      BY <1>2, <2>1, <2>3, <3>1 DEF PassInv, PassOK
    <3>3. Classed(t, w)'
      BY <1>1, <3>2 DEF Classed
    <3> QED BY <3>1, <3>3
  <2> QED BY <2>2, <2>3
<1>5. ASSUME NEW p \in Player
      PROVE  /\ Known(TakenTo(p), p)'
             /\ \A i \in 1..TakenTo(p)' : Carried(i, p)' /\ Named(i, p)'
  <2>1. p \in Entity /\ Known(TakenTo(p), p) /\ \A i \in 1..TakenTo(p) : Carried(i, p) /\ Named(i, p)
    BY DEF PassInv, PassOK, Entity
  <2>2. CASE p = e
    <3>1. PICK t : t = TakenTo(p)' /\ t = n
      BY <1>3, <2>2
    <3>2. ASSUME NEW i \in 1..n
          PROVE  Carried(i, p)' /\ Named(i, p)'
      <4>1. CASE i = n
        BY <2>2, <4>1
      <4>2. CASE i # n
        <5>1. i \in 1..(n - 1) /\ i < Len(truth) /\ i \in 1..Len(truth)
          BY <4>2
        <5>2. Carried(i, p) /\ Named(i, p)
          BY <1>3, <2>1, <2>2, <5>1
        <5> QED BY <5>1, <5>2, TakeLeaves
      <4> QED BY <4>1, <4>2
    <3> QED BY <2>2, <3>1, <3>2
  <2>3. CASE p # e
    <3>1. PICK t : t = TakenTo(p)' /\ t = TakenTo(p)
      BY <1>3, <2>1, <2>3
    <3>2. entity_classes'[p] = entity_classes[p] /\ players'[p] = players[p]
      BY <1>2, <2>1, <2>3
    <3>3. Known(t, p)'
      <4>1. PICK w : w = ShownBefore(t + 1, p) /\ w = ShownBefore(t + 1, p)'
        BY TakeSame
      <4>2. PICK is : is = ShownAt(t, p) /\ is = ShownAt(t, p)'
        BY TakeSame
      <4> QED BY <2>1, <3>1, <3>2, <4>1, <4>2 DEF Known
    <3>4. ASSUME NEW i \in 1..t
          PROVE  Carried(i, p)' /\ Named(i, p)'
      <4>1. i \in 1..Len(truth)
        BY <1>3, <2>1, <3>1
      <4>2. Carried(i, p) /\ Named(i, p)
        BY <2>1, <3>1
      <4> QED BY <2>3, <4>1, <4>2, TakeLeaves
    <3> QED BY <3>1, <3>3, <3>4
  <2> QED BY <2>2, <2>3
<1> QED BY <1>1, <1>4, <1>5 DEF PassInv, PassOK

\* The class of an update's entity is the entity's, known for a deletion too.
LEMMA ClassIs ==
  ASSUME GameInv, PassInv, TakeAny, NEW n \in Nat \ {0}, n = Len(truth)
  PROVE  /\ Id \in Player <=> Class = "player"
         /\ From(ShownAt(n - 1, Id), ShownAt(n, Id), truth[n].world[Id], inbox[Id])
         /\ inbox[Id].type # "delete" => truth[n].world[Id] # None
<1>1. PICK e \in Entity : e = Id /\ inbox[e] # None /\ TakenTo(e) = n - 1
  BY TakeIs, TakeSame DEF PassInv
<1>2. From(ShownAt(n - 1, e), ShownAt(n, e), truth[n].world[e], inbox[e])
  BY <1>1 DEF PassInv, Updates
<1>3. n \in 1..Len(truth) /\ n \in 0..Len(truth) /\ n - 1 \in 0..Len(truth) /\ GameOK
  BY DEF GameInv
<1>4. truth[n].world \in World
  BY <1>3, PacketsAre
<1>5. truth[n].world[e] # None =>
        /\ e \in Player => truth[n].world[e].kind = "player"
        /\ e \in Weapon => truth[n].world[e].kind \in WeaponClass
  BY <1>4, EntityIs DEF PlayerEntity, WeaponEntity
<1>6. "player" \notin WeaponClass /\ e \in Player \cup Weapon
  BY EntityPassAssumption DEF Entity
<1>7. CASE inbox[e].type = "delete"
  <2>1. ShownAt(n - 1, e) # None
    BY <1>2, <1>7 DEF From
  <2>2. e \in Player => entity_classes[e] = "player"
    BY <1>1, <2>1 DEF PassInv, PassOK, Known
  <2>3. e \in Weapon => entity_classes[e] # "player"
    BY DEF PassInv, PassType
  <2>4. Class = entity_classes[e]
    BY <1>1, <1>7 DEF Class
  <2> QED BY <1>1, <1>2, <1>6, <1>7, <2>2, <2>3, <2>4
<1>8. CASE inbox[e].type # "delete"
  <2>1. truth[n].world[e] # None
    <3>1. ShownAt(n, e) \in {None, truth[n].world[e]}
      BY <1>3, ShownIs
    <3> QED BY <1>2, <1>8, <3>1 DEF From
  <2>2. Class = truth[n].world[e].kind
    BY <1>1, <1>2, <1>8, <2>1 DEF Class, From
  <2> QED BY <1>1, <1>2, <1>5, <1>6, <2>1, <2>2
<1> QED BY <1>7, <1>8

LEMMA TakeClasses ==
  ASSUME GameInv, PassInv, TakeAny
  PROVE  /\ entity_classes' \in [Entity -> WeaponClass \cup {"player", None}]
         /\ \A w \in Weapon : entity_classes'[w] # "player"
<1>1. PICK e \in Entity, n \in Nat \ {0} : e = Id /\ n = Len(truth)
  BY TakeIs DEF PassInv
<1>2. /\ entity_classes' = [entity_classes EXCEPT ![e] = inbox[e].kind]
      /\ inbox[e] \in UpdateType /\ entity_classes \in [Entity -> WeaponClass \cup {"player", None}]
  BY <1>1, TakeIs DEF PassInv, PassType
<1>3. inbox[e].kind \in WeaponClass \cup {"player", None}
  BY <1>2 DEF UpdateType
<1>4. e \in Weapon => inbox[e].kind # "player"
  <2>1. From(ShownAt(n - 1, e), ShownAt(n, e), truth[n].world[e], inbox[e])
    BY <1>1, ClassIs
  <2>2. truth[n].world \in World /\ None # "player" /\ "player" \notin WeaponClass
    BY <1>1, PacketsAre, EntityPassAssumption DEF GameInv
  <2>3. e \in Weapon /\ truth[n].world[e] # None => truth[n].world[e].kind \in WeaponClass
    BY <2>2, EntityIs DEF WeaponEntity
  <2> QED BY <2>1, <2>2, <2>3 DEF From
<1> QED BY <1>2, <1>3, <1>4 DEF PassInv, PassType, Entity

LEMMA SampleIs ==
  ASSUME GameInv, NEW e \in Player, NEW p \in PlayerStateType, NEW in_pvs \in BOOLEAN,
         NEW classes \in [Entity -> WeaponClass \cup {"player", None}], NEW s, s = Sample(e, p, classes, in_pvs)
  PROVE  /\ s \in Row /\ s.tick = tick /\ s.entity_id = e /\ s.aim = p.aim /\ s.health = p.health
         /\ s.team = p.team /\ s.alive = (p.health > 0) /\ s.in_pvs = in_pvs
         /\ s.weapon = WeaponName(classes, p)
<1>1. tick \in Nat
  BY DEF GameInv, GameOK
<1>2. WeaponName(classes, p) \in WeaponClass \cup {None}
  BY DEF WeaponName
<1>3. (p.health > 0) \in BOOLEAN /\ p.aim \in Player \cup {None} /\ p.health \in Nat /\ p.team \in {0, 2, 3}
  BY DEF PlayerStateType
<1> HIDE DEF WeaponName
<1> QED BY <1>1, <1>2, <1>3 DEF Sample, Row

LEMMA TakeOtherKeeps ==
  ASSUME GameInv, PassInv, TakeOther
  PROVE  PassInv'
<1>1. TakeAny /\ UNCHANGED <<players, samples>> /\ Grown(Id)
  BY DEF TakeAny, TakeOther, Grown
<1>2. PICK e \in Entity, n \in Nat \ {0} : e = Id /\ n = Len(truth)
  BY <1>1, TakeIs DEF PassInv
<1>3. e \notin Player
  BY <1>1, <1>2, ClassIs DEF TakeOther
<1>4. PassType'
  BY <1>1, TakeClasses DEF PassInv, PassType
<1> QED BY <1>1, <1>2, <1>3, <1>4, TakeKeeps

LEMMA TakeGoneKeeps ==
  ASSUME GameInv, PassInv, TakeGone
  PROVE  PassInv'
<1>1. TakeAny /\ inbox[Id].type \in {"leave", "delete"} /\ Class = "player"
  BY DEF TakeAny, TakeGone
<1>2. PICK e \in Entity, n \in Nat \ {0} : e = Id /\ n = Len(truth) /\ TakenTo(e) = n - 1
  BY <1>1, TakeIs, TakeSame DEF PassInv
<1>3. e \in Player /\ From(ShownAt(n - 1, e), ShownAt(n, e), truth[n].world[e], inbox[e])
  BY <1>1, <1>2, ClassIs
<1>4. ShownAt(n - 1, e) # None /\ ShownAt(n, e) = None
  BY <1>1, <1>2, <1>3 DEF From
<1>5. PICK w : w = ShownBefore(n, e)
  OBVIOUS
<1>6. /\ players[e] # None /\ w # None
      /\ players[e].team = w.team /\ players[e].health = w.health /\ players[e].aim = w.aim
  <2>1. Known(n - 1, e) /\ n - 1 + 1 = n
    BY <1>2, <1>3 DEF PassInv, PassOK
  <2> QED BY <1>4, <1>5, <2>1 DEF Known
<1>7. Shown(n, e)' = None /\ ShownAt(n, e)' = None /\ ShownBefore(n + 1, e)' = w
  <2>1. Shown(n, e) = None
    BY <1>4 DEF ShownAt
  <2>2. ShownBefore(n + 1, e) = IF Shown(n, e) # None THEN Shown(n, e) ELSE ShownBefore(n, e)
    BY NextShown
  <2> QED BY <1>1, <1>4, <1>5, <2>1, <2>2, TakeSame
<1>8. /\ players[e] \in PlayerStateType /\ players \in [Player -> PlayerStateType \cup {None}] /\ samples \in Seq(Row)
      /\ entity_classes' \in [Entity -> WeaponClass \cup {"player", None}]
      /\ \A x \in Weapon : entity_classes'[x] # "player"
  BY <1>1, <1>3, <1>6, TakeClasses DEF PassInv, PassType
<1>9. PICK s \in Row :
        /\ samples' = Append(samples, s)
        /\ s.tick = tick /\ s.entity_id = e /\ s.aim = w.aim /\ s.health = w.health
        /\ s.team = w.team /\ s.alive = (w.health > 0) /\ s.in_pvs = FALSE
  <2>1. PICK s : s = Sample(e, players[e], entity_classes', FALSE)
    OBVIOUS
  <2>2. PICK q \in PlayerStateType, classes \in [Entity -> WeaponClass \cup {"player", None}] :
          q = players[e] /\ classes = entity_classes'
    BY <1>8
  <2>3. PICK gone \in BOOLEAN : gone = FALSE /\ s = Sample(e, q, classes, gone)
    BY <2>1, <2>2 DEF Sample
  <2>4. /\ s \in Row /\ s.tick = tick /\ s.entity_id = e /\ s.aim = q.aim /\ s.health = q.health
        /\ s.team = q.team /\ s.alive = (q.health > 0) /\ s.in_pvs = gone
    BY <1>3, <2>3, SampleIs
  <2>5. samples' = Append(samples, s)
    BY <1>2, <1>6, <2>1 DEF TakeGone
  <2> QED BY <1>6, <2>2, <2>3, <2>4, <2>5
<1>10. players' = players \/ players' = [players EXCEPT ![e] = None]
  BY <1>2 DEF TakeGone, Forget
<1>11. PassType'
  <2>1. players' \in [Player -> PlayerStateType \cup {None}]
    BY <1>8, <1>10
  <2>2. samples' \in Seq(Row)
    BY <1>8, <1>9
  <2> QED BY <1>8, <2>1, <2>2 DEF PassType
<1>12. Grown(Id)
  BY <1>2, <1>9 DEF Grown
<1>13. PICK t : t = tick /\ t = truth[n].tick /\ t = truth'[n].tick /\ t \in Nat
  <2>1. truth # <<>>
    BY <1>2
  <2> QED BY <1>1, <1>2, <2>1, TakeSame DEF GameInv, Ticks, GameOK
<1>14. Carried(n, e)'
  <2>1. s.entity_id = e /\ s.tick <= t
    BY <1>9, <1>13
  <2>2. SamplesBy(e, t)' # {} /\ Latest(e, t)' = s
    BY <1>8, <1>9, <2>1, SampleAdded
  <2> QED BY <1>6, <1>7, <1>9, <1>13, <2>2 DEF Carried
<1>15. Named(n, e)'
  BY <1>7 DEF Named
<1>16. Known(n, e)'
  <2>1. players'[e] = players[e] \/ players'[e] = None
    BY <1>3, <1>8, <1>10
  <2> QED BY <1>6, <1>7, <2>1 DEF Known
<1>17. \A p \in Player \ {e} : players'[p] = players[p]
  BY <1>8, <1>10
<1> QED BY <1>1, <1>2, <1>11, <1>12, <1>14, <1>15, <1>16, <1>17, TakeKeeps

\* What apply_entity makes of the properties sent, all of them or those that changed.
LEMMA AllSent ==
  ASSUME NEW p \in PlayerStateType, NEW is \in PlayerEntity, NEW after, after = Applied(p, is)
  PROVE  /\ IsChange(p, is)
         /\ after \in PlayerStateType /\ after.team = is.team /\ after.health = is.health /\ after.aim = is.aim
         /\ is.weapon # None => after.weapon = is.weapon
BY DEF PlayerStateType, PlayerEntity, Applied, IsChange

LEMMA SomeSent ==
  ASSUME NEW p \in PlayerStateType, NEW was \in PlayerEntity, NEW is \in PlayerEntity, NEW props, NEW after,
         props = [f \in {f \in DOMAIN is : is[f] # was[f]} |-> is[f]], after = Applied(p, props),
         p.team = was.team, p.health = was.health, p.aim = was.aim, was.weapon # None => p.weapon = was.weapon
  PROVE  /\ after \in PlayerStateType /\ after.team = is.team /\ after.health = is.health /\ after.aim = is.aim
         /\ is.weapon # None => after.weapon = is.weapon
         /\ ~IsChange(p, props) => /\ is.team = was.team /\ is.health = was.health /\ is.aim = was.aim
                                   /\ is.weapon # None /\ was.weapon # None => is.weapon = was.weapon
<1>1. DOMAIN p = {"team", "health", "aim", "weapon"} /\ DOMAIN is = {"kind", "serial", "team", "health", "aim", "weapon"}
  BY DEF PlayerStateType, PlayerEntity
<1>2. /\ DOMAIN props = {f \in DOMAIN is : is[f] # was[f]}
      /\ \A f \in DOMAIN props : props[f] = is[f]
  OBVIOUS
<1>3. after.team = is.team /\ after.health = is.health /\ after.aim = is.aim
  BY <1>1, <1>2 DEF Applied
<1>4. is.weapon # None => after.weapon = is.weapon
  BY <1>1, <1>2 DEF Applied
<1>5. after.weapon \in {p.weapon, is.weapon} /\ (is.weapon = None => after.weapon = p.weapon)
  BY <1>1, <1>2 DEF Applied
<1>6. after \in PlayerStateType
  <2>1. after = [f \in {"team", "health", "aim", "weapon"} |-> after[f]]
    BY <1>1 DEF Applied
  <2>2. is.team \in {0, 2, 3} /\ is.health \in Nat /\ is.aim \in Player \cup {None} /\ is.weapon \in Weapon \cup {None}
        /\ p.weapon \in Weapon \cup {None}
    BY DEF PlayerStateType, PlayerEntity
  <2> QED BY <1>3, <1>5, <2>1, <2>2 DEF PlayerStateType
<1>7. ASSUME ~IsChange(p, props)
      PROVE  /\ is.team = was.team /\ is.health = was.health /\ is.aim = was.aim
             /\ is.weapon # None /\ was.weapon # None => is.weapon = was.weapon
  <2>1. \A f \in {"team", "health", "aim"} : f \notin DOMAIN props
    BY <1>1, <1>7 DEF IsChange
  <2>2. "weapon" \in DOMAIN props => props["weapon"] \in {None, p.weapon}
    BY <1>1, <1>7 DEF IsChange
  <2> QED BY <1>1, <1>2, <2>1, <2>2
<1> QED BY <1>3, <1>4, <1>6, <1>7

\* The class the pass has of a weapon seen before, while it is out.
LEMMA WeaponSeen ==
  ASSUME GameInv, PassInv, NEW n \in Nat \ {0}, n = Len(truth), NEW x \in Weapon,
         NEW j \in 1..(n - 1), x \in truth[j].view, Same(truth[j].world[x], truth[n].world[x])
  PROVE  entity_classes[x] = truth[n].world[x].kind /\ truth[n].world[x].kind \in WeaponClass
<1>1. PICK t \in Nat : t = TakenTo(x) /\ t \in {n - 1, n}
  <2>1. TakenTo(x) \in {n - 1, n}
    BY Zenon DEF TakenTo
  <2>2. n - 1 \in Nat /\ n \in Nat
    OBVIOUS
  <2> QED BY <2>1, <2>2, Zenon
<1>2. x \in Entity /\ GameOK /\ Serials /\ j \in 1..Len(truth) /\ t \in 1..Len(truth) /\ n \in 1..Len(truth) /\ j <= t /\ t <= n
  <2>1. t \in Nat /\ j <= t /\ t <= n /\ j \in 1..n /\ t \in 1..n /\ n \in 1..n
    BY <1>1
  <2> QED BY <2>1 DEF Entity, GameInv
<1>3. Same(truth[j].world[x], truth[t].world[x]) /\ truth[j].world[x].kind = truth[n].world[x].kind
  BY <1>2, SameBetween
<1>4. Classed(t, x) /\ j \in 1..t
  BY <1>1, <1>2 DEF PassInv, PassOK
<1>5. entity_classes[x] = truth[j].world[x].kind
  BY <1>3, <1>4 DEF Classed
<1>6. truth[n].world \in World /\ truth[n].world[x] # None
  BY <1>2, PacketsAre DEF Same
<1>7. truth[n].world[x].kind \in WeaponClass
  BY <1>2, <1>6, EntityIs DEF WeaponEntity
<1> QED BY <1>3, <1>5, <1>7

LEMMA TakeUpdateKeeps ==
  ASSUME GameInv, PassInv, TakeUpdate
  PROVE  PassInv'
<1>1. TakeAny /\ inbox[Id].type \in {"enter", "preserve"} /\ Class = "player"
  BY DEF TakeAny, TakeUpdate
<1>2. PICK e \in Entity, n \in Nat \ {0} : e = Id /\ n = Len(truth) /\ TakenTo(e) = n - 1
  BY <1>1, TakeIs, TakeSame DEF PassInv
<1>3. e \in Player /\ From(ShownAt(n - 1, e), ShownAt(n, e), truth[n].world[e], inbox[e])
  BY <1>1, <1>2, ClassIs
<1>4. PICK is, was : is = ShownAt(n, e) /\ was = ShownAt(n - 1, e)
  OBVIOUS
<1>5. is # None /\ is \in PlayerEntity /\ was \in PlayerEntity \cup {None} /\ is = truth[n].world[e] /\ Shown(n, e) = is
  <2>1. is # None
    BY <1>1, <1>2, <1>3, <1>4 DEF From
  <2>2. n \in 0..Len(truth) /\ n - 1 \in 0..Len(truth) /\ n # 0
    BY <1>2
  <2> QED BY <1>2, <1>3, <1>4, <2>1, <2>2, ShownIs DEF GameInv
<1>6. PICK t : t = tick /\ t = truth[n].tick /\ t = truth'[n].tick /\ t \in Nat
  <2>1. truth # <<>>
    BY <1>2
  <2> QED BY <1>1, <1>2, <2>1, TakeSame DEF GameInv, Ticks, GameOK
<1>7. /\ players \in [Player -> PlayerStateType \cup {None}] /\ samples \in Seq(Row)
      /\ entity_classes' \in [Entity -> WeaponClass \cup {"player", None}]
      /\ \A x \in Weapon : entity_classes'[x] # "player"
  BY <1>1, TakeClasses DEF PassInv, PassType
<1>8. Known(n - 1, e) /\ n - 1 + 1 = n
  BY <1>2, <1>3 DEF PassInv, PassOK
<1>9. PICK before : before = IF players[e] = None THEN PlayerState ELSE players[e]
  OBVIOUS
<1>10. before \in PlayerStateType
  <2>1. PlayerState \in PlayerStateType
    BY DEF PlayerState, PlayerStateType
  <2> QED BY <1>3, <1>7, <1>9, <2>1
<1>11. was # None => /\ n > 1 /\ Shown(n - 1, e) = was /\ ShownBefore(n, e) = was
                     /\ before.team = was.team /\ before.health = was.health /\ before.aim = was.aim
                     /\ was.weapon # None => before.weapon = was.weapon
  <2> SUFFICES ASSUME was # None
               PROVE  /\ n > 1 /\ Shown(n - 1, e) = was /\ ShownBefore(n, e) = was
                      /\ before.team = was.team /\ before.health = was.health /\ before.aim = was.aim
                      /\ was.weapon # None => before.weapon = was.weapon
    OBVIOUS
  <2>1. n - 1 \in Nat \ {0} /\ Shown(n - 1, e) = was
    BY <1>4 DEF ShownAt
  <2>2. ShownBefore(n, e) = was
    <3>1. ShownBefore(n - 1 + 1, e) = IF Shown(n - 1, e) # None THEN Shown(n - 1, e) ELSE ShownBefore(n - 1, e)
      BY <2>1, NextShown
    <3> QED BY <1>8, <2>1, <3>1
  <2> QED BY <1>4, <1>8, <1>9, <2>1, <2>2 DEF Known
<1>12. PICK props, after : /\ props = inbox[e].props /\ after = Applied(before, props)
                           /\ players' = [players EXCEPT ![e] = after]
                           /\ samples' = IF IsChange(before, props)
                                           THEN Append(samples, Sample(e, after, entity_classes', TRUE)) ELSE samples
  BY <1>2, <1>9 DEF TakeUpdate
<1>13. /\ was = None => props = is
       /\ was # None => props = [f \in {f \in DOMAIN is : is[f] # was[f]} |-> is[f]]
  BY <1>1, <1>2, <1>3, <1>4, <1>12 DEF From
<1>14. /\ after \in PlayerStateType /\ after.team = is.team /\ after.health = is.health /\ after.aim = is.aim
       /\ is.weapon # None => after.weapon = is.weapon
       /\ was = None => IsChange(before, props)
       /\ ~IsChange(before, props) => /\ was # None /\ is.team = was.team /\ is.health = was.health /\ is.aim = was.aim
                                      /\ is.weapon # None /\ was.weapon # None => is.weapon = was.weapon
  <2>1. CASE was = None
    BY <1>5, <1>10, <1>12, <1>13, <2>1, AllSent
  <2>2. CASE was # None
    BY <1>5, <1>10, <1>11, <1>12, <1>13, <2>2, SomeSent
  <2> QED BY <2>1, <2>2
<1>15. Shown(n, e)' = is /\ ShownAt(n, e)' = is /\ ShownBefore(n + 1, e)' = is
  <2>1. ShownBefore(n + 1, e) = IF Shown(n, e) # None THEN Shown(n, e) ELSE ShownBefore(n, e)
    BY NextShown
  <2> QED BY <1>1, <1>4, <1>5, <2>1, TakeSame
<1>16. Known(n, e)'
  <2>1. players'[e] = after /\ after # None
    <3>1. None \notin PlayerStateType
      BY EntityPassAssumption
    <3> QED BY <1>3, <1>7, <1>12, <1>14, <3>1
  <2>2. entity_classes'[e] = "player"
    <3>1. entity_classes' = [entity_classes EXCEPT ![e] = inbox[e].kind] /\ DOMAIN entity_classes = Entity
      BY <1>1, <1>2, TakeIs DEF PassInv, PassType
    <3>2. inbox[e].kind = is.kind
      BY <1>3, <1>5 DEF From
    <3> QED BY <1>5, <3>1, <3>2 DEF PlayerEntity
  <2> QED BY <1>5, <1>14, <1>15, <2>1, <2>2 DEF Known
<1>17. PassType'
  <2>1. players' \in [Player -> PlayerStateType \cup {None}]
    BY <1>7, <1>12, <1>14
  <2>2. samples' \in Seq(Row)
    <3>1. Sample(e, after, entity_classes', TRUE) \in Row
      <4>1. PICK classes \in [Entity -> WeaponClass \cup {"player", None}], shows \in BOOLEAN :
              classes = entity_classes' /\ shows = TRUE
        BY <1>7
      <4>2. PICK s : s = Sample(e, after, entity_classes', TRUE)
        OBVIOUS
      <4>3. s = Sample(e, after, classes, shows)
        BY <4>1, <4>2 DEF Sample
      <4>4. s \in Row
        BY <1>3, <1>14, <4>3, SampleIs
      <4> QED BY <4>2, <4>4
    <3>2. \A s \in Row : Append(samples, s) \in Seq(Row)
      BY <1>7
    <3> QED BY <1>7, <1>12, <3>1, <3>2
  <2> QED BY <1>7, <2>1, <2>2 DEF PassType
<1>18. \A p \in Player \ {e} : players'[p] = players[p]
  BY <1>7, <1>12
<1>19. CASE IsChange(before, props)
  <2>1. PICK classes \in [Entity -> WeaponClass \cup {"player", None}], shows \in BOOLEAN :
          classes = entity_classes' /\ shows = TRUE
    BY <1>7
  <2>2. PICK s : s = Sample(e, after, entity_classes', TRUE)
    OBVIOUS
  <2>3. /\ s \in Row /\ s.tick = tick /\ s.entity_id = e /\ s.aim = is.aim /\ s.health = is.health
        /\ s.team = is.team /\ s.alive = (is.health > 0) /\ s.in_pvs = TRUE
        /\ s.weapon = WeaponName(classes, after)
    <3>1. s = Sample(e, after, classes, shows)
      BY <2>1, <2>2 DEF Sample
    <3>2. /\ s \in Row /\ s.tick = tick /\ s.entity_id = e /\ s.aim = after.aim /\ s.health = after.health
          /\ s.team = after.team /\ s.alive = (after.health > 0) /\ s.in_pvs = shows
          /\ s.weapon = WeaponName(classes, after)
      BY <1>3, <1>14, <3>1, SampleIs
    <3> QED BY <1>14, <2>1, <3>2
  <2>4. samples' = Append(samples, s)
    BY <1>12, <1>19, <2>2
  <2>5. Grown(Id)
    BY <1>2, <2>3, <2>4 DEF Grown
  <2>6. s.tick = t /\ s.entity_id = e /\ s.tick <= t
    <3>1. s.tick = t /\ s.entity_id = e
      BY <1>6, <2>3
    <3>2. t \in Nat
      BY <1>6
    <3>3. t <= t
      BY <3>2
    <3> QED BY <3>1, <3>3
  <2>7. SamplesBy(e, t)' # {} /\ Latest(e, t)' = s
    BY <1>7, <2>3, <2>4, <2>6, SampleAdded
  <2>8. Carried(n, e)'
    BY <1>5, <1>6, <1>15, <2>3, <2>7 DEF Carried
  <2>9. Named(n, e)'
    <3> SUFFICES ASSUME is.weapon # None, SeenBefore(is.weapon, n, s.tick)'
                 PROVE  s.weapon = truth'[n].world[is.weapon].kind
      BY <1>6, <1>15, <2>7 DEF Named
    <3>1. truth' = truth /\ DOMAIN truth = 1..n
      BY <1>1, <1>2, TakeSame DEF GameInv, GameOK
    <3>2. PICK j \in 1..n :
            /\ truth[j].tick < s.tick /\ is.weapon \in truth[j].view /\ truth[j].world[is.weapon] # None
            /\ truth[j].world[is.weapon].serial = truth[n].world[is.weapon].serial
      BY <3>1 DEF SeenBefore
    <3>3. j \in 1..(n - 1)
      <4>1. truth[j].tick < t /\ truth[n].tick = t /\ t \in Nat
        BY <1>6, <2>6, <3>2
      <4>2. j # n
        BY <4>1
      <4> QED BY <4>2
    <3>4. is.weapon \in Weapon /\ truth[n].world[is.weapon] # None
      <4>1. truth[n].world \in World
        BY <1>2, PacketsAre DEF GameInv
      <4> QED BY <1>3, <1>5, <4>1, WorldIs
    <3>5. PICK x \in Weapon : x = is.weapon
      BY <3>4
    <3>6. Same(truth[j].world[x], truth[n].world[x]) /\ x \in truth[j].view
      BY <3>2, <3>4, <3>5 DEF Same
    <3>7. entity_classes[x] = truth[n].world[x].kind /\ truth[n].world[x].kind \in WeaponClass
      BY <1>2, <3>3, <3>6, WeaponSeen
    <3>8. classes[x] = entity_classes[x]
      <4>1. entity_classes' = [entity_classes EXCEPT ![e] = inbox[e].kind] /\ DOMAIN entity_classes = Entity
        BY <1>1, <1>2, TakeIs DEF PassInv, PassType
      <4>2. x # e /\ x \in Entity
        BY <1>3, Apart DEF Entity
      <4> QED BY <2>1, <4>1, <4>2
    <3>9. after.weapon = x
      BY <1>14, <3>5
    <3>10. x # None
      BY <3>4, <3>5, Apart
    <3> QED BY <2>3, <3>1, <3>5, <3>7, <3>8, <3>9, <3>10 DEF WeaponName
  <2> QED BY <1>1, <1>2, <1>16, <1>17, <1>18, <2>5, <2>8, <2>9, TakeKeeps
<1>20. CASE ~IsChange(before, props)
  <2>1. samples' = samples /\ Grown(Id)
    BY <1>12, <1>20 DEF Grown
  <2>2. was # None /\ n - 1 \in 1..n /\ n - 1 \in 1..Len(truth) /\ Carried(n - 1, e) /\ Named(n - 1, e)
    <3>1. was # None /\ n > 1
      BY <1>11, <1>14, <1>20
    <3>2. n - 1 \in 1..TakenTo(e)
      BY <1>2, <3>1
    <3> QED BY <1>2, <1>3, <3>1, <3>2 DEF PassInv, PassOK
  <2>3. PICK u : u = truth[n - 1].tick /\ u \in Nat /\ u < t
    <3>1. n - 1 < n /\ n \in 1..Len(truth)
      BY <1>2
    <3>2. truth[n - 1].tick < truth[n].tick
      BY <2>2, <3>1 DEF GameInv, Ticks
    <3>3. truth[n - 1].tick \in Nat
      BY <2>2, PacketsAre DEF GameInv
    <3> QED BY <1>6, <3>2, <3>3
  <2>4. SamplesBy(e, t) = SamplesBy(e, u)
    <3>1. ASSUME NEW l \in 1..Len(samples), samples[l].entity_id = e
          PROVE  samples[l].tick <= u /\ samples[l].tick <= t
      <4>1. samples[l].tick # tick
        BY <1>1, <1>2, <3>1, TakeIs DEF PassInv, PassOK, SampleTicks
      <4>2. PICK i \in 1..n : samples[l].tick = truth[i].tick
        BY <1>2 DEF PassInv, PassOK, SampleTicks
      <4>3. i # n
        BY <1>6, <4>1, <4>2
      <4>4. i = n - 1 \/ (i < n - 1 /\ i \in 1..Len(truth))
        BY <1>2, <4>3
      <4>5. truth[i].tick <= u /\ truth[i].tick \in Nat
        <5>1. CASE i = n - 1
          BY <2>3, <5>1
        <5>2. CASE i < n - 1 /\ i \in 1..Len(truth)
          <6>1. truth[i].tick < u
            BY <2>2, <2>3, <5>2 DEF GameInv, Ticks
          <6>2. truth[i].tick \in Nat
            BY <5>2, PacketsAre DEF GameInv
          <6> QED BY <2>3, <6>1, <6>2
        <5> QED BY <4>4, <5>1, <5>2
      <4> QED BY <1>6, <2>3, <4>2, <4>5
    <3>2. DOMAIN samples = 1..Len(samples)
      BY <1>7
    <3> QED BY <3>1, <3>2 DEF SamplesBy
  <2>5. PICK s : s = Latest(e, u) /\ s = Latest(e, t)'
    <3>1. Latest(e, u) = Latest(e, t)
      BY <2>4, SameLatest
    <3> QED BY <2>1, <3>1 DEF Latest, SamplesBy
  <2>6. /\ SamplesBy(e, u) # {}
        /\ s.aim = was.aim /\ s.health = was.health /\ s.team = was.team /\ s.alive = (was.health > 0)
        /\ s.in_pvs <=> Shown(n - 1, e) # None
    BY <1>8, <1>11, <2>2, <2>3, <2>5 DEF Carried
  <2>7. SamplesBy(e, t)' # {}
    BY <2>1, <2>4, <2>6 DEF SamplesBy
  <2>8. Carried(n, e)'
    BY <1>5, <1>6, <1>11, <1>14, <1>15, <1>20, <2>2, <2>5, <2>6, <2>7 DEF Carried
  <2>9. Named(n, e)'
    <3> SUFFICES ASSUME is.weapon # None, SeenBefore(is.weapon, n, s.tick)'
                 PROVE  s.weapon = truth'[n].world[is.weapon].kind
      BY <1>6, <1>15, <2>5 DEF Named
    <3>1. truth' = truth /\ DOMAIN truth = 1..n
      BY <1>1, <1>2, TakeSame DEF GameInv, GameOK
    <3>2. /\ is.weapon = was.weapon /\ is.weapon \in Weapon /\ truth[n].world[is.weapon] # None
      <4>1. truth[n].world \in World /\ truth[n - 1].world \in World
        BY <1>2, <2>2, PacketsAre DEF GameInv
      <4>2. AliveIn(truth[n].world, e) /\ is.weapon \in Weapon /\ truth[n].world[is.weapon] # None
        BY <1>3, <1>5, <4>1, WorldIs
      <4>3. was = truth[n - 1].world[e]
        BY <1>11, <2>2 DEF Shown
      <4>4. AliveIn(truth[n - 1].world, e)
        BY <1>5, <1>14, <1>20, <4>2, <4>3 DEF AliveIn
      <4>5. was.weapon # None
        BY <1>3, <2>2, <4>1, <4>3, <4>4, WorldIs
      <4> QED BY <1>14, <1>20, <4>2, <4>5
    <3>3. PICK x \in Weapon : x = is.weapon /\ x \in Entity
      BY <3>2 DEF Entity
    <3>4. PICK j \in 1..n :
            /\ truth[j].tick < s.tick /\ x \in truth[j].view /\ truth[j].world[x] # None
            /\ truth[j].world[x].serial = truth[n].world[x].serial
      BY <3>1, <3>3 DEF SeenBefore
    <3>5. s.tick <= u /\ s.tick \in Nat
      <4>1. \E l \in 1..Len(samples) : Latest(e, u) = samples[l] /\ samples[l].tick <= u
        BY <1>7, <2>6, LatestIs
      <4>2. PICK l \in 1..Len(samples) : s = samples[l] /\ samples[l].tick <= u
        BY <2>5, <4>1
      <4> QED BY <4>2, SamplesAre DEF PassInv, PassOK
    <3>6. j \in 1..Len(truth) /\ j <= n - 1
      <4>1. truth[j].tick \in Nat
        BY <1>2, PacketsAre DEF GameInv
      <4>2. j # n
        <5>1. truth[n].tick = t /\ t \in Nat
          BY <1>6
        <5>2. truth[j].tick < s.tick /\ s.tick <= u /\ u < t /\ u \in Nat /\ s.tick \in Nat
          BY <2>3, <3>4, <3>5
        <5>3. truth[j].tick # t
          BY <4>1, <5>1, <5>2
        <5> QED BY <5>1, <5>3
      <4> QED BY <1>2, <4>2
    <3>7. Same(truth[j].world[x], truth[n].world[x])
      BY <3>2, <3>3, <3>4 DEF Same
    <3>8. /\ Same(truth[j].world[x], truth[n - 1].world[x]) /\ truth[j].world[x].kind = truth[n].world[x].kind
          /\ truth[j].world[x].kind = truth[n - 1].world[x].kind
      BY <1>2, <2>2, <3>3, <3>6, <3>7, SameBetween DEF GameInv
    <3>9. SeenBefore(x, n - 1, s.tick)
      BY <3>1, <3>4, <3>8 DEF SeenBefore, Same
    <3>10. s.weapon = truth[n - 1].world[x].kind
      BY <1>11, <2>2, <2>3, <2>5, <3>2, <3>3, <3>9 DEF Named
    <3> QED BY <3>1, <3>3, <3>8, <3>10
  <2> QED BY <1>1, <1>2, <1>16, <1>17, <1>18, <2>1, <2>8, <2>9, TakeKeeps
<1> QED BY <1>19, <1>20

-----------------------------------------------------------------------------
(* The samples of a recording                                              *)

LEMMA PassInvInit == Init => PassInv
<1> SUFFICES ASSUME Init PROVE PassInv
  OBVIOUS
<1>1. /\ truth = <<>> /\ samples = <<>> /\ inbox = [e \in Entity |-> None] /\ entity_classes = [e \in Entity |-> None]
      /\ players = [p \in Player |-> None] /\ sent = [e \in Entity |-> None]
  BY DEF Init, EntityInit
<1>2. Len(truth) = 0 /\ Len(samples) = 0 /\ samples \in Seq(Row) /\ 1..0 = {} /\ None # "player"
  BY <1>1, EntityPassAssumption
<1>3. PassType
  BY <1>1, <1>2, Apart DEF PassType, Entity
<1>4. Updates
  BY <1>1, <1>2 DEF Updates, ShownAt, Taken
<1>5. \A e \in Entity : TakenTo(e) = 0
  BY <1>1, <1>2 DEF TakenTo
<1>6. SampleTicks
  BY <1>2 DEF SampleTicks
<1>7. \A p \in Player : Known(0, p)
  <2>1. 0 + 1 = 1 /\ \A p \in Player : ShownAt(0, p) = None /\ players[p] = None
    BY <1>1 DEF ShownAt
  <2> QED BY <2>1 DEF Known
<1>8. \A w \in Weapon : Classed(0, w)
  BY <1>2 DEF Classed
<1>9. \A p \in Player : TakenTo(p) = 0
  BY <1>5 DEF Entity
<1>10. \A w \in Weapon : TakenTo(w) = 0
  BY <1>5 DEF Entity
<1> QED BY <1>2, <1>3, <1>4, <1>6, <1>7, <1>8, <1>9, <1>10 DEF PassInv, PassOK

LEMMA PassInvStep == GameInv /\ PassInv /\ [Next]_vars => PassInv'
<1> SUFFICES ASSUME GameInv, PassInv, [Next]_vars PROVE PassInv'
  OBVIOUS
<1>1. CASE Game
  <2>1. GameFrame
    BY <1>1, GameSteps DEF GameInv
  <2> QED BY <2>1, SamePass DEF GameFrame, PassInv, pass
<1>2. CASE RecordPacket
  BY <1>2, PacketKeepsPass
<1>3. CASE StopRecording
  BY <1>3, SamePass DEF StopRecording, PassInv, pass
<1>4. CASE TakeOther
  BY <1>4, TakeOtherKeeps
<1>5. CASE TakeGone
  BY <1>5, TakeGoneKeeps
<1>6. CASE TakeUpdate
  BY <1>6, TakeUpdateKeeps
<1>7. CASE Infer \/ InferSample \/ UNCHANGED vars
  <2>1. UNCHANGED <<truth, tick, sent, inbox, pass, world, over>>
    BY <1>7 DEF Infer, InferSample, vars, entityVars, game, pass
  <2> QED BY <2>1, SamePass DEF PassInv, pass
<1> QED BY <1>1, <1>2, <1>3, <1>4, <1>5, <1>6, <1>7 DEF Next, EntityNext

LEMMA PassInvHolds == Spec => [](GameInv /\ PassInv)
BY GameInvInit, GameInvStep, PassInvInit, PassInvStep, PTL DEF Spec

LEMMA PassShows ==
  ASSUME GameInv, PassInv, Taken, NEW i \in 1..Len(truth), NEW p \in Player
  PROVE  /\ Carried(i, p) /\ Named(i, p)
         /\ Shown(i, p) # None => ShownBefore(i + 1, p) = Shown(i, p)
<1>1. TakenTo(p) = Len(truth)
  BY DEF TakenTo, Taken, Entity
<1>2. i \in Nat \ {0}
  BY DEF GameInv, GameOK
<1>3. ShownBefore(i + 1, p) = IF Shown(i, p) # None THEN Shown(i, p) ELSE ShownBefore(i, p)
  BY <1>2, NextShown
<1> QED BY <1>1, <1>3 DEF PassInv, PassOK

\* Carried forward, a player's samples are the player as every packet showed
\* them: apply_entity and push_sample (entities.rs).
THEOREM SamplesShow == Spec => []SamplesAsShown
<1>1. GameInv /\ PassInv => SamplesAsShown
  <2> SUFFICES ASSUME GameInv, PassInv, Taken, NEW i \in DOMAIN truth, NEW p \in Player
               PROVE  IF Shown(i, p) = None
                        THEN SamplesBy(p, truth[i].tick) = {} \/ ~Latest(p, truth[i].tick).in_pvs
                      ELSE /\ SamplesBy(p, truth[i].tick) # {}
                           /\ LET s == Latest(p, truth[i].tick)
                                  w == Shown(i, p)
                              IN s.in_pvs /\ <<s.aim, s.health, s.team, s.alive>> = <<w.aim, w.health, w.team, w.health > 0>>
    BY DEF SamplesAsShown
  <2>1. i \in 1..Len(truth)
    BY DEF GameInv, GameOK
  <2>2. Carried(i, p) /\ (Shown(i, p) # None => ShownBefore(i + 1, p) = Shown(i, p))
    BY <2>1, PassShows
  <2> QED BY <2>2 DEF Carried
<1> QED BY <1>1, PassInvHolds, PTL

\* A sample names the weapon the player has out, not one that had its entity id
\* before: entity_classes (entities.rs:317-330) and weapon_name.
THEOREM WeaponsNamed == Spec => []WeaponsTheirOwn
<1>1. GameInv /\ PassInv => WeaponsTheirOwn
  <2> SUFFICES ASSUME GameInv, PassInv, Taken, NEW i \in DOMAIN truth, NEW p \in Player,
                      Shown(i, p) # None, Shown(i, p).weapon # None,
                      SeenBefore(Shown(i, p).weapon, i, Latest(p, truth[i].tick).tick)
               PROVE  Latest(p, truth[i].tick).weapon = truth[i].world[Shown(i, p).weapon].kind
    BY DEF WeaponsTheirOwn
  <2>1. i \in 1..Len(truth)
    BY DEF GameInv, GameOK
  <2> QED BY <2>1, PassShows DEF Named
<1> QED BY <1>1, PassInvHolds, PTL

-----------------------------------------------------------------------------
(* A sample is inferred from                                               *)

LEMMA FirstSample == ASSUME NEW p, NEW l \in {0, 1} PROVE LastBefore(l, p) = None
BY DEF LastBefore, EarlierBy

LEMMA NextSample ==
  ASSUME NEW l \in Nat \ {0}, NEW p
  PROVE  LastBefore(l + 1, p) = IF samples[l].entity_id = p THEN samples[l] ELSE LastBefore(l, p)
<1>1. l + 1 - 1 = l /\ \A m \in 1..l : m \in 1..(l - 1) \/ m = l
  OBVIOUS
<1>2. CASE samples[l].entity_id = p
  <2>1. l \in EarlierBy(l + 1, p) /\ EarlierBy(l + 1, p) \subseteq Nat /\ \A m \in EarlierBy(l + 1, p) : m <= l
    BY <1>1, <1>2 DEF EarlierBy
  <2>2. Max(EarlierBy(l + 1, p)) \in EarlierBy(l + 1, p) /\ l <= Max(EarlierBy(l + 1, p))
    BY <2>1, GreatestNat
  <2>3. Max(EarlierBy(l + 1, p)) = l
    BY <2>1, <2>2
  <2> QED BY <1>2, <2>1, <2>3 DEF LastBefore
<1>3. CASE samples[l].entity_id # p
  <2>1. EarlierBy(l + 1, p) = EarlierBy(l, p)
    BY <1>1, <1>3 DEF EarlierBy
  <2> QED BY <1>3, <2>1 DEF LastBefore
<1> QED BY <1>2, <1>3

LEMMA LastIs ==
  ASSUME NEW l \in Nat, l <= Len(samples) + 1, NEW p, samples \in Seq(Row), LastBefore(l, p) # None
  PROVE  /\ LastBefore(l, p) \in Row /\ EarlierBy(l, p) # {}
         /\ \E m \in EarlierBy(l, p) : LastBefore(l, p) = samples[m] /\ \A h \in EarlierBy(l, p) : h <= m
<1>1. EarlierBy(l, p) # {} /\ EarlierBy(l, p) \subseteq 1..Len(samples) /\ \A m \in EarlierBy(l, p) : m <= l
  BY DEF LastBefore, EarlierBy
<1>2. Max(EarlierBy(l, p)) \in EarlierBy(l, p) /\ \A h \in EarlierBy(l, p) : h <= Max(EarlierBy(l, p))
  <2>1. EarlierBy(l, p) \subseteq Nat
    BY <1>1
  <2> QED BY <1>1, <2>1, GreatestNat
<1>3. samples[Max(EarlierBy(l, p))] \in Row
  BY <1>1, <1>2
<1> QED BY <1>1, <1>2, <1>3 DEF LastBefore

LEMMA LastType ==
  ASSUME NEW l \in Nat, l <= Len(samples) + 1, NEW p, samples \in Seq(Row)
  PROVE  LastBefore(l, p) \in Row \cup {None}
BY LastIs

\* infer's actions in terms of the samples before.
LEMMA DropIs ==
  ASSUME GameInv, PassType, HitsOK, k \in DOMAIN samples
  PROVE  /\ This \in Row /\ Victim = Previous(k) /\ (Dropped <=> Drops(k))
         /\ Drops(k) => \A h \in Hits :
              h \in HitType /\ IsHitOf(h, k) /\ Attributed(h, k)
<1>1. k \in 1..Len(samples) /\ This \in Row /\ samples \in Seq(Row) /\ This = samples[k]
  BY DEF PassType, This
<1>2. This.entity_id \in Player /\ This.tick \in Nat /\ This.health \in Nat
  BY <1>1 DEF Row
<1>3. Victim = Previous(k)
  BY <1>1, <1>2 DEF Victim, Previous, HitsOK
<1>4. Previous(k) # None => Previous(k) \in Row /\ Previous(k).health \in Nat
  <2>1. k \in Nat /\ k <= Len(samples) + 1
    BY DEF HitsOK
  <2>2. Previous(k) # None => Previous(k) \in Row
    BY <1>1, <2>1, LastType DEF Previous
  <2> QED BY <2>2 DEF Row
<1>5. Dropped <=> Drops(k)
  BY <1>1, <1>2, <1>3, <1>4 DEF Dropped, Drops
<1>6. ASSUME Drops(k), NEW h \in Hits
      PROVE  h \in HitType /\ IsHitOf(h, k) /\ Attributed(h, k)
  <2>1. Previous(k).health - This.health \in Nat \ {0}
    BY <1>1, <1>2, <1>4, <1>6 DEF Drops
  <2>2. ASSUME NEW a \in Player \cup {None}, NEW method \in {"kill-event", "aim-v1", "none"}, h = Hit(a, method)
        PROVE  /\ h \in HitType /\ IsHitOf(h, k)
               /\ h.tick = This.tick /\ h.victim = This.entity_id /\ h.attacker = a /\ h.method = method
    <3>1. /\ h.tick = This.tick /\ h.victim = This.entity_id /\ h.attacker = a /\ h.method = method
          /\ h.damage = Previous(k).health - This.health
      BY <1>3, <2>2 DEF Hit
    <3>2. h = [tick |-> This.tick, victim |-> This.entity_id, attacker |-> a,
               damage |-> Previous(k).health - This.health, method |-> method]
      BY <1>3, <2>2 DEF Hit
    <3>3. h \in HitType
      BY <1>2, <2>1, <3>2 DEF HitType
    <3> QED BY <1>1, <3>1, <3>3 DEF IsHitOf
  <2>3. FatalDeaths = DeathsAbout(This.tick, This.entity_id) /\ FatalDeaths \subseteq Nat
    <3>1. DOMAIN deaths = 1..Len(deaths)
      BY DEF GameInv, GameOK
    <3> QED BY <3>1 DEF FatalDeaths, DeathsAbout
  <2>4. CASE Fatal /\ FatalDeaths # {}
    <3>1. Min(FatalDeaths) \in FatalDeaths
      BY <2>3, <2>4, LeastNat
    <3>2. PICK n \in FatalDeaths : h = Hit(deaths[n].attacker, "kill-event")
      BY <1>6, <2>4, <3>1 DEF Hits
    <3>3. deaths[n].attacker \in Player \cup {None}
      <4> DEFINE Event == [tick : Nat, victim : Player, attacker : Player \cup {None}]
      <4>1. \A d \in Event : d.attacker \in Player \cup {None}
        OBVIOUS
      <4>2. n \in 1..Len(deaths) /\ deaths \in Seq(Event)
        BY <2>3, <3>2 DEF DeathsAbout, GameInv, GameOK
      <4> HIDE DEF Event
      <4>3. deaths[n] \in Event
        BY <4>2
      <4> QED BY <4>1, <4>3
    <3> QED BY <2>2, <2>3, <3>2, <3>3 DEF Attributed
  <2>5. CASE ~(Fatal /\ FatalDeaths # {})
    <3>1. h \in AimHits
      BY <1>6, <2>5 DEF Hits
    <3>2. samples[k].health = 0 => FatalDeaths = {}
      BY <1>1, <2>5 DEF Fatal
    <3>3. CASE Aimers = {}
      <4>1. h = Hit(None, "none")
        BY <3>1, <3>3 DEF AimHits
      <4>2. ASSUME NEW a \in Player \ {This.entity_id}
            PROVE  ~AimsNow(k, a, This.entity_id)
        <5>1. a \notin Aimers /\ state[a] = LastBefore(k, a)
          BY <3>3 DEF HitsOK
        <5> QED BY <1>3, <5>1 DEF Aimers, AimsNow
      <4> QED BY <2>2, <2>3, <3>2, <4>1, <4>2 DEF Attributed
    <3>4. CASE Aimers # {}
      <4>1. PICK a \in Aimers : h = Hit(a, "aim-v1")
        BY <3>1, <3>4 DEF AimHits
      <4>2. a \in Player /\ a # None
        BY <4>1, Apart DEF Aimers
      <4> QED BY <2>2, <2>3, <3>2, <4>1, <4>2 DEF Attributed
    <3> QED BY <3>3, <3>4
  <2> QED BY <2>4, <2>5
<1> QED BY <1>1, <1>3, <1>5, <1>6

LEMMA HitsInit == Init => HitsOK
<1> SUFFICES ASSUME Init PROVE HitsOK
  OBVIOUS
<1>1. k = 0 /\ state = [p \in Player |-> None] /\ hits = <<>> /\ samples = <<>>
  BY DEF Init, EntityInit
<1>2. \A p \in Player : LastBefore(0, p) = None
  BY FirstSample
<1>3. Len(hits) = 0 /\ Len(samples) = 0 /\ hits \in Seq(HitType) /\ 1..0 = {} /\ 1..(0 - 1) = {}
  BY <1>1
<1> QED BY <1>1, <1>2, <1>3 DEF HitsOK

\* The samples and the deaths are complete when infer goes through them.
LEMMA RecordingDone ==
  ASSUME GameInv, PassInv, EntityNext
  PROVE  ~over
<1>1. ASSUME TakeAny
      PROVE  ~over
  BY <1>1, TakeIs DEF PassInv
<1>2. ASSUME Game
      PROVE  ~over
  BY <1>2, GameSteps DEF GameInv, GameFrame
<1> QED BY <1>1, <1>2 DEF EntityNext, TakeAny, RecordPacket, StopRecording

\* What infer does leaves the samples.
LEMMA SameSamples ==
  ASSUME samples' = samples, deaths' = deaths
  PROVE  /\ \A l, p : LastBefore(l, p)' = LastBefore(l, p)
         /\ \A l : Previous(l)' = Previous(l) /\ (Drops(l)' <=> Drops(l))
         /\ \A h, l : (IsHitOf(h, l)' <=> IsHitOf(h, l)) /\ (Attributed(h, l)' <=> Attributed(h, l))
<1>1. \A l, p : LastBefore(l, p)' = LastBefore(l, p)
  BY DEF LastBefore, EarlierBy
<1>2. \A l : Previous(l)' = Previous(l)
  BY DEF Previous, LastBefore, EarlierBy
<1>3. \A l : Drops(l)' <=> Drops(l)
  BY <1>2 DEF Drops
<1>4. \A h, l : IsHitOf(h, l)' <=> IsHitOf(h, l)
  BY <1>2 DEF IsHitOf
<1>5. \A l, a, v : AimsNow(l, a, v)' <=> AimsNow(l, a, v)
  BY <1>1, <1>2 DEF AimsNow
<1>6. \A t, v : DeathsAbout(t, v)' = DeathsAbout(t, v)
  BY DEF DeathsAbout
<1>7. \A h, l : Attributed(h, l)' <=> Attributed(h, l)
  BY <1>5, <1>6 DEF Attributed
<1> QED BY <1>1, <1>2, <1>3, <1>4, <1>7

LEMMA InferSampleKeeps ==
  ASSUME GameInv, PassInv, HitsOK, InferSample
  PROVE  HitsOK'
<1>1. /\ k \in Nat \ {0} /\ k \in 1..Len(samples) /\ Len(samples) \in Nat /\ samples \in Seq(Row) /\ SampleTicks /\ over
      /\ k \in DOMAIN samples
  BY DEF InferSample, HitsOK, PassInv, PassType, PassOK
<1>2. samples' = samples /\ deaths' = deaths /\ over' = over
  BY DEF InferSample, entityVars, game, pass
<1>3. PICK j \in Nat \ {0} : j = k /\ k' = j + 1
  BY <1>1 DEF InferSample
<1>4. This \in Row /\ This = samples[j] /\ This.entity_id \in Player
  BY <1>1, <1>3, DropIs DEF This, Row, PassInv
<1>5. state' = [p \in Player |-> LastBefore(j + 1, p)']
  <2>1. ASSUME NEW p \in Player
        PROVE  state'[p] = LastBefore(j + 1, p)'
    <3>1. LastBefore(j + 1, p) = IF samples[j].entity_id = p THEN samples[j] ELSE LastBefore(j, p)
      BY NextSample
    <3>2. state'[p] = IF This.entity_id = p THEN This ELSE state[p]
      BY <1>4 DEF InferSample, HitsOK
    <3>3. state[p] = LastBefore(j, p)
      BY <1>3 DEF HitsOK
    <3> QED BY <1>2, <1>4, <3>1, <3>2, <3>3, SameSamples
  <2>2. state' = [p \in Player |-> state'[p]]
    BY DEF InferSample, HitsOK
  <2> QED BY <2>1, <2>2
<1>6. \A l \in 1..j : l \in 1..(j - 1) \/ l = j
  OBVIOUS
<1>7. j + 1 - 1 = j /\ j + 1 <= Len(samples) + 1 /\ j \in 1..j /\ \A l \in 1..(j - 1) : l \in 1..j
  BY <1>1, <1>3
<1>8. ASSUME NEW h, NEW l, h \in HitType, l \in 1..j
      PROVE  (Drops(l)' <=> Drops(l)) /\ (IsHitOf(h, l)' <=> IsHitOf(h, l)) /\ (Attributed(h, l)' <=> Attributed(h, l))
  BY <1>2, SameSamples
<1>9. PICK new : hits' = new /\ DOMAIN hits = 1..Len(hits) /\ Len(hits) \in Nat /\ hits \in Seq(HitType)
  BY DEF HitsOK
<1>10. /\ new \in Seq(HitType)
       /\ \A n \in 1..Len(new) : \E l \in 1..j : Drops(l) /\ IsHitOf(new[n], l) /\ Attributed(new[n], l)
       /\ \A l \in 1..j : Drops(l) => \E n \in 1..Len(new) : IsHitOf(new[n], l)
       /\ \A m, n \in 1..Len(new) : m # n => new[m].tick # new[n].tick \/ new[m].victim # new[n].victim
  <2>1. /\ \A n \in 1..Len(hits) : \E l \in 1..(j - 1) : Drops(l) /\ IsHitOf(hits[n], l) /\ Attributed(hits[n], l)
        /\ \A l \in 1..(j - 1) : Drops(l) => \E n \in 1..Len(hits) : IsHitOf(hits[n], l)
        /\ \A m, n \in 1..Len(hits) : m # n => hits[m].tick # hits[n].tick \/ hits[m].victim # hits[n].victim
    BY <1>3 DEF HitsOK
  <2>2. CASE ~Drops(j)
    <3>1. new = hits
      BY <1>1, <1>3, <1>9, <2>2, DropIs DEF InferSample, PassInv
    <3>2. \A l \in 1..j : Drops(l) => l \in 1..(j - 1)
      BY <1>6, <2>2
    <3> QED BY <1>7, <1>9, <2>1, <3>1, <3>2
  <2>3. CASE Drops(j)
    <3>1. PICK h \in HitType : new = Append(hits, h) /\ IsHitOf(h, j) /\ Attributed(h, j)
      <4>1. PICK h \in Hits : new = Append(hits, h)
        BY <1>1, <1>3, <1>9, <2>3, DropIs DEF InferSample, PassInv
      <4>2. h \in HitType /\ IsHitOf(h, j) /\ Attributed(h, j)
        BY <1>1, <1>3, <2>3, <4>1, DropIs DEF PassInv
      <4> QED BY <4>1, <4>2
    <3>2. /\ new \in Seq(HitType) /\ Len(new) = Len(hits) + 1 /\ new[Len(hits) + 1] = h
          /\ \A n \in 1..Len(hits) : new[n] = hits[n]
      BY <1>9, <3>1
    <3>3. /\ 1..Len(new) = 1..Len(hits) \cup {Len(hits) + 1} /\ Len(hits) + 1 \notin 1..Len(hits)
          /\ \A n \in 1..Len(hits) : n \in 1..Len(new)
      BY <1>9, <3>2
    <3>4. \A n \in 1..Len(new) : \E l \in 1..j : Drops(l) /\ IsHitOf(new[n], l) /\ Attributed(new[n], l)
      <4>1. \E l \in 1..j : Drops(l) /\ IsHitOf(h, l) /\ Attributed(h, l)
        BY <1>7, <2>3, <3>1
      <4>2. \A n \in 1..Len(hits) : \E l \in 1..j : Drops(l) /\ IsHitOf(hits[n], l) /\ Attributed(hits[n], l)
        BY <1>7, <2>1
      <4> QED BY <3>2, <3>3, <4>1, <4>2
    <3>5. \A l \in 1..j : Drops(l) => \E n \in 1..Len(new) : IsHitOf(new[n], l)
      <4>1. \A l \in 1..(j - 1) : Drops(l) => \E n \in 1..Len(new) : IsHitOf(new[n], l)
        BY <2>1, <3>2, <3>3
      <4>2. \E n \in 1..Len(new) : IsHitOf(new[n], j)
        BY <3>1, <3>2, <3>3
      <4> QED BY <1>6, <4>1, <4>2
    <3>6. ASSUME NEW n \in 1..Len(hits)
          PROVE  hits[n].tick # h.tick \/ hits[n].victim # h.victim
      <4>1. PICK l \in 1..(j - 1) : IsHitOf(hits[n], l)
        BY <2>1
      <4>2. /\ hits[n].tick = samples[l].tick /\ hits[n].victim = samples[l].entity_id
            /\ h.tick = samples[j].tick /\ h.victim = samples[j].entity_id
        BY <3>1, <4>1 DEF IsHitOf
      <4>3. samples[l].entity_id = samples[j].entity_id => samples[l].tick < samples[j].tick
        <5>1. l \in 1..Len(samples) /\ j \in 1..Len(samples) /\ l < j
          BY <1>1, <1>3, <4>1
        <5> QED BY <1>1, <5>1 DEF SampleTicks
      <4>4. samples[j].tick \in Nat /\ samples[l].tick \in Nat
        <5>1. \A r \in Row : r.tick \in Nat
          BY DEF Row
        <5>2. l \in 1..Len(samples) /\ j \in 1..Len(samples)
          BY <1>1, <1>3, <4>1
        <5> QED BY <1>1, <5>1, <5>2
      <4> QED BY <4>2, <4>3, <4>4
    <3>7. ASSUME NEW m \in 1..Len(new), NEW n \in 1..Len(new), m # n
          PROVE  new[m].tick # new[n].tick \/ new[m].victim # new[n].victim
      <4>1. CASE m \in 1..Len(hits) /\ n \in 1..Len(hits)
        BY <2>1, <3>2, <3>7, <4>1
      <4>2. CASE m \in 1..Len(hits) /\ n = Len(hits) + 1
        BY <3>2, <3>6, <4>2
      <4>3. CASE m = Len(hits) + 1 /\ n \in 1..Len(hits)
        BY <3>2, <3>6, <4>3
      <4> QED BY <3>3, <3>7, <4>1, <4>2, <4>3
    <3> QED BY <3>2, <3>4, <3>5, <3>7
  <2> QED BY <2>2, <2>3
<1>11. \A n \in 1..Len(hits') : \E l \in 1..(k' - 1) : Drops(l)' /\ IsHitOf(hits[n], l)' /\ Attributed(hits[n], l)'
  <2> SUFFICES ASSUME NEW n \in 1..Len(new)
               PROVE  \E l \in 1..j : Drops(l)' /\ IsHitOf(hits[n], l)' /\ Attributed(hits[n], l)'
    BY <1>3, <1>7, <1>9
  <2>1. PICK h : h = new[n] /\ h \in HitType
    BY <1>10
  <2>2. PICK l \in 1..j : Drops(l) /\ IsHitOf(h, l) /\ Attributed(h, l)
    BY <1>10, <2>1
  <2>3. Drops(l)' /\ IsHitOf(h, l)' /\ Attributed(h, l)'
    BY <1>8, <2>1, <2>2
  <2> QED BY <1>9, <2>1, <2>3
<1>12. \A l \in 1..(k' - 1) : Drops(l)' => \E n \in 1..Len(hits') : IsHitOf(hits[n], l)'
  <2> SUFFICES ASSUME NEW l \in 1..j, Drops(l)'
               PROVE  \E n \in 1..Len(new) : IsHitOf(hits[n], l)'
    BY <1>3, <1>7, <1>9
  <2>1. PICK n \in 1..Len(new) : IsHitOf(new[n], l)
    <3>1. Drops(l)
      BY <1>2, SameSamples
    <3> QED BY <1>10, <3>1
  <2>2. PICK h : h = new[n] /\ h \in HitType
    BY <1>10
  <2>3. IsHitOf(h, l)'
    BY <1>8, <2>1, <2>2
  <2> QED BY <1>9, <2>2, <2>3
<1>13. k' \in Nat /\ k' <= Len(samples') + 1 /\ over'
  BY <1>1, <1>2, <1>3, <1>7
<1>14. state' = [p \in Player |-> LastBefore(k, p)']
  BY <1>3, <1>5
<1>15. /\ hits' \in Seq(HitType)
       /\ \A m, n \in 1..Len(hits') : m # n => hits'[m].tick # hits'[n].tick \/ hits'[m].victim # hits'[n].victim
  BY <1>9, <1>10
<1> QED BY <1>11, <1>12, <1>13, <1>14, <1>15 DEF HitsOK

LEMMA HitsStep == GameInv /\ PassInv /\ PassInv' /\ HitsOK /\ [Next]_vars => HitsOK'
<1> SUFFICES ASSUME GameInv, PassInv, PassInv', HitsOK, [Next]_vars PROVE HitsOK'
  OBVIOUS
<1>1. Len(samples) \in Nat /\ Len(samples') \in Nat
  BY DEF PassInv, PassType
<1>2. CASE EntityNext /\ UNCHANGED inferring
  <2>1. k = 0 /\ k' = 0 /\ hits' = hits /\ state' = state
    BY <1>2, RecordingDone DEF HitsOK, inferring
  <2>2. \A p \in Player : LastBefore(0, p) = None /\ LastBefore(0, p)' = None
    BY DEF LastBefore, EarlierBy
  <2>3. Len(hits) = 0
    <3>1. ~\E l \in 1..(k - 1) : TRUE
      BY <2>1
    <3>2. ~\E n \in 1..Len(hits) : TRUE
      BY <3>1 DEF HitsOK
    <3> QED BY <3>2 DEF HitsOK
  <2>4. 1..Len(hits') = {} /\ 1..(k' - 1) = {}
    BY <2>1, <2>3
  <2>5. state' = [p \in Player |-> LastBefore(k, p)']
    BY <2>1, <2>2 DEF HitsOK
  <2> QED BY <1>1, <2>1, <2>4, <2>5 DEF HitsOK
<1>3. CASE Infer
  <2>1. /\ over /\ k = 0 /\ k' = 1 /\ state' = state /\ hits' = hits
        /\ samples' = samples /\ deaths' = deaths /\ over' = over
    BY <1>3 DEF Infer, entityVars, game, pass
  <2>2. \A p \in Player : LastBefore(0, p) = None /\ LastBefore(1, p)' = None
    BY DEF LastBefore, EarlierBy
  <2>3. Len(hits) = 0
    <3>1. ~\E l \in 1..(k - 1) : TRUE
      BY <2>1
    <3>2. ~\E n \in 1..Len(hits) : TRUE
      BY <3>1 DEF HitsOK
    <3> QED BY <3>2 DEF HitsOK
  <2>4. 1..Len(hits') = {} /\ 1..(k' - 1) = {}
    BY <2>1, <2>3
  <2>5. state' = [p \in Player |-> LastBefore(k, p)']
    BY <2>1, <2>2 DEF HitsOK
  <2> QED BY <1>1, <2>1, <2>4, <2>5 DEF HitsOK
<1>4. CASE InferSample
  BY <1>4, InferSampleKeeps
<1>5. CASE UNCHANGED vars
  <2>1. /\ k' = k /\ state' = state /\ hits' = hits
        /\ samples' = samples /\ deaths' = deaths /\ over' = over
    BY <1>5 DEF vars, entityVars, game, pass, inferring
  <2>2. state' = [p \in Player |-> LastBefore(k, p)']
    BY <2>1, SameSamples DEF HitsOK
  <2>3. \A n \in 1..Len(hits) : \E l \in 1..(k - 1) : Drops(l)' /\ IsHitOf(hits[n], l)' /\ Attributed(hits[n], l)'
    <3> SUFFICES ASSUME NEW n \in 1..Len(hits)
                 PROVE  \E l \in 1..(k - 1) : Drops(l)' /\ IsHitOf(hits[n], l)' /\ Attributed(hits[n], l)'
      OBVIOUS
    <3>1. PICK h : h = hits[n]
      OBVIOUS
    <3>2. PICK l \in 1..(k - 1) : Drops(l) /\ IsHitOf(h, l) /\ Attributed(h, l)
      BY <3>1 DEF HitsOK
    <3>3. Drops(l)' /\ IsHitOf(h, l)' /\ Attributed(h, l)'
      BY <2>1, <3>2, SameSamples
    <3> QED BY <2>1, <3>1, <3>2, <3>3
  <2>4. \A l \in 1..(k - 1) : Drops(l)' => \E n \in 1..Len(hits) : IsHitOf(hits[n], l)'
    <3> SUFFICES ASSUME NEW l \in 1..(k - 1), Drops(l)'
                 PROVE  \E n \in 1..Len(hits) : IsHitOf(hits[n], l)'
      OBVIOUS
    <3>1. PICK n \in 1..Len(hits) : IsHitOf(hits[n], l)
      <4>1. Drops(l)
        BY <2>1, SameSamples
      <4> QED BY <4>1 DEF HitsOK
    <3>2. PICK h : h = hits[n]
      OBVIOUS
    <3>3. IsHitOf(h, l)'
      BY <2>1, <3>1, <3>2, SameSamples
    <3> QED BY <2>1, <3>2, <3>3
  <2> QED BY <2>1, <2>2, <2>3, <2>4 DEF HitsOK
<1> QED BY <1>2, <1>3, <1>4, <1>5 DEF Next

LEMMA HitsHold == Spec => [](GameInv /\ PassInv /\ HitsOK)
BY GameInvInit, GameInvStep, PassInvInit, PassInvStep, HitsInit, HitsStep, PTL DEF Spec

\* Every row and every hit is of its type, and a hit is of some damage:
\* push_sample (entities.rs) and infer (inferred_hits.rs).
THEOREM TypeCorrect == Spec => []TypeOK
<1>1. PassInv /\ HitsOK => TypeOK
  <2> SUFFICES ASSUME PassInv, HitsOK PROVE TypeOK
    OBVIOUS
  <2>1. \A p \in Player : LastBefore(k, p) \in Row \cup {None}
    BY LastType DEF PassInv, PassType, HitsOK
  <2> QED BY <2>1 DEF TypeOK, PassInv, PassType, HitsOK, HitType
<1> QED BY <1>1, HitsHold, PTL

-----------------------------------------------------------------------------
(* The hits of a recording                                                 *)

\* No packet, and so no sample, is between two packets.
LEMMA SampleBefore ==
  ASSUME GameInv, PassInv, NEW i \in 1..Len(truth), NEW m \in 1..Len(samples)
  PROVE  /\ i > 1 => (samples[m].tick < truth[i].tick <=> samples[m].tick <= truth[i - 1].tick)
         /\ i = 1 => ~(samples[m].tick < truth[i].tick)
<1>1. i \in Nat /\ Len(truth) \in Nat /\ SampleTicks
  BY DEF GameInv, GameOK, PassInv, PassOK
<1>2. PICK j \in 1..Len(truth) : samples[m].tick = truth[j].tick
  BY <1>1 DEF SampleTicks
<1>3. \A h \in 1..Len(truth) : truth[h].tick \in Nat
  BY PacketsAre DEF GameInv
<1>4. \A g, h \in 1..Len(truth) : g < h => truth[g].tick < truth[h].tick
  BY DEF GameInv, Ticks
<1>5. truth[j].tick < truth[i].tick => j < i
  <2>1. j < i \/ j = i \/ i < j
    OBVIOUS
  <2> QED BY <1>3, <1>4, <2>1
<1>6. CASE i > 1
  <2>1. i - 1 \in 1..Len(truth) /\ i - 1 < i
    BY <1>1, <1>6
  <2>2. j < i => j = i - 1 \/ j < i - 1
    BY <1>1
  <2>3. truth[j].tick < truth[i].tick => truth[j].tick <= truth[i - 1].tick
    BY <1>3, <1>4, <1>5, <2>1, <2>2
  <2>4. truth[j].tick <= truth[i - 1].tick => truth[j].tick < truth[i].tick
    BY <1>3, <1>4, <2>1
  <2> QED BY <1>2, <1>6, <2>3, <2>4
<1>7. CASE i = 1
  BY <1>2, <1>5, <1>7
<1> QED BY <1>1, <1>6, <1>7

\* What infer has of a player at a sample is their row at its packet or at the
\* one before, and of the sample's own player the one before.
LEMMA LastBeforeIs ==
  ASSUME GameInv, PassInv, NEW i \in 1..Len(truth), NEW l \in 1..Len(samples), samples[l].tick = truth[i].tick,
         NEW a \in Player
  PROVE  /\ samples[l].entity_id = a /\ i = 1 => EarlierBy(l, a) = {}
         /\ samples[l].entity_id = a /\ i > 1 => EarlierBy(l, a) = SamplesBy(a, truth[i - 1].tick)
         /\ i > 1 => EarlierBy(l, a) \in {SamplesBy(a, truth[i - 1].tick), SamplesBy(a, truth[i].tick)}
<1>1. SampleTicks /\ PassType /\ DOMAIN samples = 1..Len(samples) /\ l \in Nat /\ \A m \in 1..(l - 1) : m \in 1..Len(samples) /\ m < l
  BY DEF PassInv, PassOK, PassType
<1>2. \A m \in 1..Len(samples) : m \in Nat /\ samples[m].tick \in Nat
  BY <1>1, SamplesAre
<1>3. \A m \in 1..Len(samples) : m < l => samples[m].tick <= truth[i].tick
  BY <1>1 DEF SampleTicks
<1>4. \A m \in 1..Len(samples) : samples[m].tick < truth[i].tick => m \in 1..(l - 1)
  <2> SUFFICES ASSUME NEW m \in 1..Len(samples), samples[m].tick < truth[i].tick PROVE m \in 1..(l - 1)
    OBVIOUS
  <2>1. ~(l < m) /\ l # m
    BY <1>1, <1>2 DEF SampleTicks
  <2> QED BY <1>2, <2>1
<1>5. \A m \in 1..(l - 1) : samples[m].entity_id = samples[l].entity_id => samples[m].tick < truth[i].tick
  BY <1>1 DEF SampleTicks
<1>6. ASSUME \A m \in EarlierBy(l, a) : samples[m].tick < truth[i].tick
      PROVE  /\ i = 1 => EarlierBy(l, a) = {}
             /\ i > 1 => EarlierBy(l, a) = SamplesBy(a, truth[i - 1].tick)
  <2>1. \A m \in EarlierBy(l, a) : m \in 1..Len(samples) /\ samples[m].entity_id = a
    BY <1>1 DEF EarlierBy
  <2>2. CASE i = 1
    BY <1>6, <2>1, <2>2, SampleBefore
  <2>3. CASE i > 1
    <3>1. \A m \in EarlierBy(l, a) : m \in SamplesBy(a, truth[i - 1].tick)
      BY <1>1, <1>6, <2>1, <2>3, SampleBefore DEF SamplesBy
    <3>2. \A m \in SamplesBy(a, truth[i - 1].tick) : m \in EarlierBy(l, a)
      <4> SUFFICES ASSUME NEW m \in 1..Len(samples), samples[m].entity_id = a, samples[m].tick <= truth[i - 1].tick
                   PROVE  m \in EarlierBy(l, a)
        BY <1>1 DEF SamplesBy
      <4>1. samples[m].tick < truth[i].tick
        BY <2>3, SampleBefore
      <4> QED BY <1>4, <4>1 DEF EarlierBy
    <3> QED BY <2>3, <3>1, <3>2
  <2> QED BY <2>2, <2>3
<1>7. CASE samples[l].entity_id = a
  BY <1>5, <1>6, <1>7 DEF EarlierBy
<1>8. CASE \E m \in EarlierBy(l, a) : ~(samples[m].tick < truth[i].tick)
  <2>1. PICK m \in EarlierBy(l, a) : ~(samples[m].tick < truth[i].tick)
    BY <1>8
  <2>2. m \in 1..Len(samples) /\ m < l /\ samples[m].entity_id = a /\ samples[m].tick = truth[i].tick
    <3>1. m \in 1..(l - 1) /\ samples[m].entity_id = a
      BY <2>1 DEF EarlierBy
    <3>2. m \in 1..Len(samples) /\ m < l
      BY <1>1, <3>1
    <3>3. truth[i].tick \in Nat
      BY PacketsAre DEF GameInv
    <3> QED BY <1>2, <1>3, <2>1, <3>1, <3>2, <3>3
  <2>3. \A n \in EarlierBy(l, a) : n \in SamplesBy(a, truth[i].tick)
    BY <1>1, <1>3 DEF EarlierBy, SamplesBy
  <2>4. \A n \in SamplesBy(a, truth[i].tick) : n \in EarlierBy(l, a)
    <3> SUFFICES ASSUME NEW n \in 1..Len(samples), samples[n].entity_id = a, samples[n].tick <= truth[i].tick
                 PROVE  n \in EarlierBy(l, a)
      BY <1>1 DEF SamplesBy
    <3>1. ~(m < n)
      BY <1>1, <1>2, <2>2 DEF SampleTicks
    <3>2. n \in 1..(l - 1)
      BY <1>1, <1>2, <2>2, <3>1
    <3> QED BY <3>2 DEF EarlierBy
  <2>5. EarlierBy(l, a) = SamplesBy(a, truth[i].tick)
    BY <2>3, <2>4
  <2> QED BY <1>7, <2>5
<1> QED BY <1>6, <1>7, <1>8

\* A drop of the samples is one of what the packets showed.
LEMMA DropShown ==
  ASSUME GameInv, PassInv, Taken, NEW i \in 1..Len(truth), NEW p \in Player
  PROVE  /\ Drop(i, p) # 0 =>
              /\ Shown(i, p) # None
              /\ \E l \in 1..Len(samples) : samples[l].tick = truth[i].tick /\ samples[l].entity_id = p
         /\ \A l \in 1..Len(samples) :
              samples[l].tick = truth[i].tick /\ samples[l].entity_id = p =>
                /\ Drops(l) <=> Drop(i, p) # 0
                /\ Drops(l) => /\ Drop(i, p) = Previous(l).health - samples[l].health
                               /\ samples[l].health = Shown(i, p).health /\ Previous(l).team = ShownBefore(i, p).team
<1>1. i \in Nat \ {0} /\ GameOK /\ SampleTicks /\ PassType /\ samples \in Seq(Row) /\ DOMAIN samples = 1..Len(samples)
  BY DEF GameInv, GameOK, PassInv, PassOK, PassType
<1>2. PICK was, is : was = ShownBefore(i, p) /\ is = Shown(i, p)
  OBVIOUS
<1>3. /\ Carried(i, p)
      /\ ShownBefore(i + 1, p) = IF is # None THEN is ELSE was
  BY <1>1, <1>2, NextShown, PassShows
<1>4. i > 1 => Carried(i - 1, p) /\ ShownBefore(i - 1 + 1, p) = was
  <2> SUFFICES ASSUME i > 1 PROVE Carried(i - 1, p) /\ ShownBefore(i - 1 + 1, p) = was
    OBVIOUS
  <2>1. i - 1 \in 1..Len(truth) /\ i - 1 + 1 = i
    BY <1>1
  <2> QED BY <1>2, <2>1, PassShows
<1>5. i = 1 => was = None
  BY <1>2, FirstShown
<1>6. is # None => is.team \in {0, 2, 3} /\ is.health \in Nat
  <2>1. i \in 0..Len(truth) /\ i # 0 /\ p \in Entity
    BY <1>1 DEF Entity
  <2>2. is \in PlayerEntity \cup {None}
    BY <1>1, <1>2, <2>1, ShownIs
  <2> QED BY <2>2 DEF PlayerEntity
<1>7. Drop(i, p) = IF was = None \/ is = None THEN 0
                   ELSE IF is.team = 0 \/ is.health >= was.health THEN 0 ELSE was.health - is.health
  BY <1>2 DEF Drop
<1>8. \A r \in Row : r # None /\ r.health \in Nat
  BY EntityPassAssumption DEF Row
<1>9. \A l \in 1..Len(samples) : samples[l] \in Row
  BY <1>1
<1>10. \A t \in Nat : SamplesBy(p, t) # {} =>
         Latest(p, t) \in Row /\ Latest(p, t) = samples[Max(SamplesBy(p, t))]
  <2>1. \A t \in Nat : SamplesBy(p, t) # {} => Latest(p, t) \in Row
    BY <1>1, <1>9, LatestIs
  <2> QED BY <2>1 DEF Latest
<1>11. truth[i].tick \in Nat /\ (i > 1 => truth[i - 1].tick \in Nat)
  <2>1. i > 1 => i - 1 \in 1..Len(truth)
    BY <1>1
  <2> QED BY <1>1, <2>1, PacketsAre
<1>12. was # None => was.health \in Nat
  <2> SUFFICES ASSUME was # None PROVE was.health \in Nat
    OBVIOUS
  <2>1. i > 1
    BY <1>1, <1>5
  <2>2. SamplesBy(p, truth[i - 1].tick) # {} /\ Latest(p, truth[i - 1].tick).health = was.health
    BY <1>4, <2>1 DEF Carried
  <2> QED BY <1>8, <1>10, <1>11, <2>1, <2>2
<1>13. ASSUME NEW l \in 1..Len(samples), samples[l].tick = truth[i].tick, samples[l].entity_id = p
       PROVE  /\ Drops(l) <=> Drop(i, p) # 0
              /\ Drops(l) => /\ Drop(i, p) = Previous(l).health - samples[l].health
                             /\ samples[l].health = Shown(i, p).health /\ Previous(l).team = was.team
  <2>1. PICK s : s = samples[l] /\ s = Latest(p, truth[i].tick) /\ s \in Row /\ SamplesBy(p, truth[i].tick) # {}
    <3>1. SamplesBy(p, truth[i].tick) # {} /\ l \in SamplesBy(p, truth[i].tick)
      BY <1>1, <1>11, <1>13 DEF SamplesBy
    <3>2. PICK m \in 1..Len(samples) :
            /\ Latest(p, truth[i].tick) = samples[m] /\ samples[m].entity_id = p /\ samples[m].tick <= truth[i].tick
            /\ l <= m
      BY <1>1, <3>1, LatestIs
    <3>3. l = m
      <4>1. ~(l < m)
        <5>1. samples[m].tick \in Nat
          BY <1>1, SamplesAre
        <5> QED BY <1>1, <1>11, <1>13, <3>2, <5>1 DEF SampleTicks
      <4> QED BY <3>2, <4>1
    <3> QED BY <1>9, <3>1, <3>2, <3>3
  <2>2. PICK before : before = Previous(l) /\ before = LastBefore(l, p)
    BY <1>13 DEF Previous
  <2>3. /\ was = None => before = None
        /\ was # None => before # None /\ before.health = was.health /\ before.team = was.team /\ before.alive = (was.health > 0)
    <3>1. CASE i = 1
      BY <1>5, <1>13, <2>2, <3>1, LastBeforeIs DEF LastBefore
    <3>2. CASE i > 1
      <4>1. EarlierBy(l, p) = SamplesBy(p, truth[i - 1].tick)
        BY <1>13, <3>2, LastBeforeIs
      <4>2. before = IF SamplesBy(p, truth[i - 1].tick) = {} THEN None ELSE Latest(p, truth[i - 1].tick)
        BY <2>2, <4>1 DEF LastBefore, Latest
      <4>3. CASE was = None
        BY <1>4, <3>2, <4>2, <4>3 DEF Carried
      <4>4. CASE was # None
        <5>1. /\ SamplesBy(p, truth[i - 1].tick) # {} /\ Latest(p, truth[i - 1].tick).health = was.health
              /\ Latest(p, truth[i - 1].tick).team = was.team
              /\ Latest(p, truth[i - 1].tick).alive = (was.health > 0)
          BY <1>4, <3>2, <4>4 DEF Carried
        <5> QED BY <1>8, <1>10, <1>11, <3>2, <4>2, <4>4, <5>1
      <4> QED BY <4>3, <4>4
    <3> QED BY <1>1, <3>1, <3>2
  <2>4. /\ is # None => s.health = is.health /\ s.team = is.team
        /\ is = None => was # None /\ s.health = was.health
    BY <1>2, <1>3, <2>1 DEF Carried
  <2>5. Drops(l) <=> was # None /\ was.health > 0 /\ s.health < was.health /\ s.team \in {2, 3}
    BY <2>1, <2>2, <2>3 DEF Drops
  <2>6. Drops(l) <=> Drop(i, p) # 0
    BY <1>6, <1>7, <1>12, <2>4, <2>5
  <2>7. Drops(l) => Drop(i, p) = before.health - s.health /\ is # None
    BY <1>6, <1>7, <1>12, <2>3, <2>4, <2>5
  <2> QED BY <1>2, <2>1, <2>2, <2>3, <2>4, <2>5, <2>6, <2>7
<1>14. ASSUME Drop(i, p) # 0
       PROVE  \E l \in 1..Len(samples) : samples[l].tick = truth[i].tick /\ samples[l].entity_id = p
  <2> SUFFICES ASSUME \A l \in 1..Len(samples) : ~(samples[l].tick = truth[i].tick /\ samples[l].entity_id = p)
               PROVE  FALSE
    OBVIOUS
  <2>1. is # None /\ was # None /\ was.health > is.health /\ i > 1
    BY <1>1, <1>5, <1>6, <1>7, <1>12, <1>14
  <2>2. SamplesBy(p, truth[i].tick) = SamplesBy(p, truth[i - 1].tick)
    <3>1. ASSUME NEW m \in 1..Len(samples), samples[m].entity_id = p
          PROVE  samples[m].tick <= truth[i].tick <=> samples[m].tick <= truth[i - 1].tick
      <4>1. samples[m].tick < truth[i].tick <=> samples[m].tick <= truth[i - 1].tick
        BY <2>1, SampleBefore
      <4>2. samples[m].tick # truth[i].tick /\ samples[m].tick \in Nat
        BY <1>1, <3>1, SamplesAre
      <4> QED BY <1>11, <4>1, <4>2
    <3> QED BY <1>1, <3>1 DEF SamplesBy
  <2>3. Latest(p, truth[i].tick) = Latest(p, truth[i - 1].tick)
    BY <2>2, SameLatest
  <2>4. Latest(p, truth[i].tick).health = is.health
    BY <1>3, <2>1 DEF Carried
  <2>5. Latest(p, truth[i - 1].tick).health = was.health
    BY <1>4, <2>1 DEF Carried
  <2> QED BY <1>6, <1>12, <2>1, <2>3, <2>4, <2>5
<1> QED BY <1>2, <1>7, <1>13, <1>14

\* infer has gone through all the samples of a whole recording.
LEMMA DoneIs ==
  ASSUME PassInv, HitsOK, Done
  PROVE  Taken /\ k - 1 = Len(samples)
BY DEF PassInv, PassType, Updates, HitsOK, Done

LEMMA HitIs ==
  ASSUME HitsOK, NEW n \in DOMAIN hits
  PROVE  /\ n \in 1..Len(hits) /\ hits[n] \in HitType
         /\ hits[n].tick \in Nat /\ hits[n].victim \in Player /\ hits[n].attacker \in Player \cup {None}
<1>1. hits \in Seq(HitType) /\ n \in 1..Len(hits)
  BY DEF HitsOK
<1>2. hits[n] \in HitType
  BY <1>1
<1> QED BY <1>1, <1>2 DEF HitType

\* One hit for each drop of health that a packet shows on an entity id, whoever
\* had the id before, with its damage, and no other: infer (inferred_hits.rs)
\* over the rows of push_sample.
THEOREM OneHitPerDrop == Spec => []HitsAreDrops
<1>1. GameInv /\ PassInv /\ HitsOK => HitsAreDrops
  <2> DEFINE Own(i, p) == {n \in DOMAIN hits : hits[n].tick = truth[i].tick /\ hits[n].victim = p}
  <2> SUFFICES ASSUME GameInv, PassInv, HitsOK, Done, NEW i \in DOMAIN truth, NEW p \in Player
               PROVE  IF Drop(i, p) = 0 THEN Own(i, p) = {}
                      ELSE \E n \in Own(i, p) : Own(i, p) = {n} /\ hits[n].damage = Drop(i, p)
    BY DEF HitsAreDrops
  <2>1. i \in 1..Len(truth) /\ DOMAIN hits = 1..Len(hits) /\ Taken /\ k - 1 = Len(samples)
    BY DoneIs DEF GameInv, GameOK, HitsOK
  <2>2. ASSUME NEW n \in Own(i, p)
        PROVE  Drop(i, p) # 0
    <3>1. PICK h : h = hits[n] /\ h.tick = truth[i].tick /\ h.victim = p
      OBVIOUS
    <3>2. PICK l \in 1..Len(samples) : Drops(l) /\ IsHitOf(h, l)
      BY <2>1, <3>1 DEF HitsOK
    <3>3. samples[l].tick = truth[i].tick /\ samples[l].entity_id = p
      BY <3>1, <3>2 DEF IsHitOf
    <3> QED BY <2>1, <3>2, <3>3, DropShown
  <2>3. CASE Drop(i, p) = 0
    BY <2>2, <2>3
  <2>4. CASE Drop(i, p) # 0
    <3>1. PICK l \in 1..Len(samples) : samples[l].tick = truth[i].tick /\ samples[l].entity_id = p
      BY <2>1, <2>4, DropShown
    <3>2. Drops(l) /\ Drop(i, p) = Previous(l).health - samples[l].health
      BY <2>1, <2>4, <3>1, DropShown
    <3>3. PICK n \in 1..Len(hits) : IsHitOf(hits[n], l)
      BY <2>1, <3>2 DEF HitsOK
    <3>4. hits[n].tick = truth[i].tick /\ hits[n].victim = p /\ hits[n].damage = Drop(i, p)
      BY <3>1, <3>2, <3>3 DEF IsHitOf
    <3>5. \A m \in Own(i, p) : m = n
      BY <2>1, <3>4 DEF HitsOK
    <3>6. n \in Own(i, p)
      BY <2>1, <3>4
    <3>7. Own(i, p) = {n}
      BY <3>5, <3>6
    <3> QED BY <2>4, <3>4, <3>6, <3>7
  <2> QED BY <2>3, <2>4
<1> QED BY <1>1, HitsHold, PTL

\* A packet shows a player on no team or on the slot's.
LEMMA TeamShown ==
  ASSUME GameOK, NEW i \in 1..Len(truth), NEW p \in Player
  PROVE  /\ Shown(i, p) # None => Shown(i, p).team \in {0, TeamOf[p]}
         /\ ShownBefore(i, p) # None => ShownBefore(i, p).team \in {0, TeamOf[p]}
<1>1. ASSUME NEW j \in 1..Len(truth), Shown(j, p) # None
      PROVE  Shown(j, p).team \in {0, TeamOf[p]}
  <2>1. truth[j].world \in World /\ Shown(j, p) = truth[j].world[p]
    BY <1>1, PacketsAre DEF Shown
  <2> QED BY <1>1, <2>1, WorldIs
<1>2. ASSUME ShownBefore(i, p) # None
      PROVE  ShownBefore(i, p).team \in {0, TeamOf[p]}
  <2> DEFINE before == {j \in 1..(i - 1) : Shown(j, p) # None}
  <2>1. before # {} /\ ShownBefore(i, p) = Shown(Max(before), p)
    BY <1>2 DEF ShownBefore
  <2>2. before \subseteq Nat /\ i \in Nat /\ Len(truth) \in Nat /\ \A j \in before : j <= i /\ j \in 1..Len(truth)
    BY DEF GameOK
  <2>3. Max(before) \in before
    BY <2>1, <2>2, GreatestNat
  <2>4. Max(before) \in 1..Len(truth) /\ Shown(Max(before), p) # None
    BY <2>2, <2>3
  <2> QED BY <1>1, <2>1, <2>4
<1> QED BY <1>1, <1>2

\* A death event about a packet that shows a death of its victim is of that
\* death: the player's other deaths are too far away.
LEMMA DeathsOf ==
  ASSUME GameInv, NEW i \in 1..Len(truth), NEW m \in 1..Len(truth[i].deaths)
  PROVE  /\ DeathsAbout(truth[i].tick, truth[i].deaths[m].victim) # {}
         /\ \A n \in DeathsAbout(truth[i].tick, truth[i].deaths[m].victim) :
              deaths[n].attacker = truth[i].deaths[m].attacker
<1>1. GameOK /\ DeathsApart /\ DeathEvents /\ DeathWindow \in Nat /\ RespawnTime \in Nat /\ 2 * DeathWindow < RespawnTime
  BY EntityPassAssumption DEF GameInv
<1>2. PICK t \in Nat, v \in Player : t = truth[i].tick /\ v = truth[i].deaths[m].victim
  <2>1. truth[i].tick \in Nat /\ truth[i].deaths \in Seq(Death)
    BY <1>1, PacketsAre
  <2>2. truth[i].deaths[m] \in Death
    BY <2>1
  <2> QED BY <2>1, <2>2 DEF Death
<1>3. \A n \in 1..Len(deaths) : deaths[n].tick \in Nat
  <2> DEFINE Event == [tick : Nat, victim : Player, attacker : Player \cup {None}]
  <2>1. deaths \in Seq(Event)
    BY <1>1 DEF GameOK
  <2>2. \A d \in Event : d.tick \in Nat
    OBVIOUS
  <2> HIDE DEF Event
  <2> QED BY <2>1, <2>2
<1>4. DeathsAbout(t, v) # {}
  <2>1. PICK n \in 1..Len(deaths) : IsDeathOf(deaths[n], truth[i], truth[i].deaths[m])
    BY <1>1 DEF DeathEvents
  <2>2. deaths[n].tick \in t..t + DeathWindow /\ deaths[n].victim = v
    BY <1>2, <2>1 DEF IsDeathOf
  <2>3. deaths[n].tick - t \in -DeathWindow..DeathWindow
    BY <1>1, <1>3, <2>2
  <2> QED BY <2>2, <2>3 DEF DeathsAbout
<1>5. ASSUME NEW n \in DeathsAbout(t, v)
      PROVE  deaths[n].attacker = truth[i].deaths[m].attacker
  <2>1. n \in 1..Len(deaths) /\ deaths[n].victim = v /\ deaths[n].tick - t \in -DeathWindow..DeathWindow
    BY DEF DeathsAbout
  <2>2. PICK j \in 1..Len(truth) : \E x \in 1..Len(truth[j].deaths) : IsDeathOf(deaths[n], truth[j], truth[j].deaths[x])
    BY <1>1, <2>1 DEF DeathEvents
  <2>3. PICK x \in 1..Len(truth[j].deaths) : IsDeathOf(deaths[n], truth[j], truth[j].deaths[x])
    BY <2>2
  <2>4. PICK u \in Nat : u = truth[j].tick
    BY <1>1, PacketsAre
  <2>5. /\ deaths[n].tick \in u..u + DeathWindow /\ truth[j].deaths[x].victim = v
        /\ deaths[n].attacker = truth[j].deaths[x].attacker
    BY <2>1, <2>3, <2>4 DEF IsDeathOf
  <2>6. ~(t + RespawnTime <= u) /\ ~(u + RespawnTime <= t)
    <3>1. PICK late \in Nat : late = deaths[n].tick
      BY <1>3, <2>1
    <3>2. late \in u..u + DeathWindow /\ late - t \in -DeathWindow..DeathWindow
      BY <2>1, <2>5, <3>1
    <3>3. u <= late /\ late <= u + DeathWindow /\ t - DeathWindow <= late /\ late <= t + DeathWindow
      <4>1. DeathWindow \in Nat
        BY <1>1
      <4> QED BY <3>2, <4>1
    <3> QED BY <1>1, <3>3
  <2>7. Dies(truth[i], v) /\ Dies(truth[j], v)
    BY <1>2, <2>5 DEF Dies
  <2>8. ~(i < j) /\ ~(j < i)
    BY <1>1, <1>2, <2>4, <2>6, <2>7 DEF DeathsApart
  <2>9. i = j
    BY <2>8
  <2>10. x = m
    BY <1>1, <1>2, <2>5, <2>9 DEF GameOK, OnceEach
  <2> QED BY <2>5, <2>9, <2>10
<1> QED BY <1>2, <1>4, <1>5

\* An enemy who keeps aiming at the victim does so when infer has the drop.
LEMMA AimersAim ==
  ASSUME GameInv, PassInv, Taken, NEW i \in 1..Len(truth), i > 1, NEW l \in 1..Len(samples), Drops(l),
         samples[l].tick = truth[i].tick, NEW v \in Player, samples[l].entity_id = v,
         NEW a \in Enemies(v), AimsOn(a, v, i)
  PROVE  a \in Player \ {v} /\ AimsNow(l, a, v)
<1>1. a \in Player /\ TeamOf[a] # TeamOf[v] /\ TeamOf[a] \in {2, 3} /\ TeamOf[v] \in {2, 3}
  BY EntityPassAssumption DEF Enemies
<1>2. PICK j \in {i - 1, i} : EarlierBy(l, a) = SamplesBy(a, truth[j].tick)
  BY <1>1, LastBeforeIs
<1>3. j \in 1..Len(truth) /\ GameOK /\ samples \in Seq(Row)
  BY <1>2 DEF GameInv, GameOK, PassInv, PassType
<1>4. PICK w : /\ w = Shown(j, a) /\ w # None /\ w.health > 0 /\ w.team # 0 /\ w.aim = v
               /\ ~CannotHit(Latest(a, truth[j].tick).weapon)
  BY <1>2 DEF AimsOn
<1>5. PICK s : s = Latest(a, truth[j].tick)
  OBVIOUS
<1>6. SamplesBy(a, truth[j].tick) # {} /\ s.aim = v /\ s.team = w.team /\ s.alive
  <2>1. Carried(j, a) /\ ShownBefore(j + 1, a) = w
    BY <1>1, <1>3, <1>4, PassShows
  <2> QED BY <1>4, <1>5, <2>1 DEF Carried
<1>7. s \in Row /\ s # None
  <2>1. s \in Row
    <3>1. \A m \in 1..Len(samples) : samples[m] \in Row
      BY <1>3
    <3> QED BY <1>3, <1>5, <1>6, <3>1, LatestIs
  <2> QED BY <2>1, EntityPassAssumption
<1>8. LastBefore(l, a) = s
  BY <1>2, <1>5, <1>6 DEF LastBefore, Latest
<1>9. w.team = TeamOf[a]
  BY <1>1, <1>3, <1>4, TeamShown
<1>10. Previous(l).team \in {0, TeamOf[v]}
  <2>1. Previous(l).team = ShownBefore(i, v).team /\ Drop(i, v) # 0
    BY DropShown
  <2>2. ShownBefore(i, v) # None
    BY <2>1 DEF Drop
  <2> QED BY <1>3, <2>1, <2>2, TeamShown
<1> QED BY <1>1, <1>4, <1>5, <1>6, <1>7, <1>8, <1>9, <1>10 DEF AimsNow

\* A drop to death has the killer of its death event, and no other drop that an
\* enemy keeps aiming at lacks an attacker: infer (inferred_hits.rs).
THEOREM AttackersFoundAlways == Spec => []AttackersFound
<1>1. GameInv /\ PassInv /\ HitsOK => AttackersFound
  <2> SUFFICES ASSUME GameInv, PassInv, HitsOK, Done, NEW h \in Range(hits), NEW i \in DOMAIN truth,
                      h.tick = truth[i].tick
               PROVE  /\ \A d \in Range(truth[i].deaths) :
                           d.victim = h.victim /\ Shown(i, h.victim).health = 0
                             => h.method = "kill-event" /\ h.attacker = d.attacker
                      /\ i > 1 /\ h.method # "kill-event" =>
                           \A a \in Enemies(h.victim) : AimsOn(a, h.victim, i) => h.attacker # None
    BY DEF AttackersFound
  <2>1. i \in 1..Len(truth) /\ Taken /\ k - 1 = Len(samples)
    BY DoneIs DEF GameInv, GameOK
  <2>2. PICK n \in 1..Len(hits) : h = hits[n] /\ n \in DOMAIN hits
    BY DEF Range, HitsOK
  <2>3. PICK v \in Player : v = h.victim
    BY <2>2, HitIs
  <2>4. PICK l \in 1..Len(samples) : Drops(l) /\ IsHitOf(h, l) /\ Attributed(h, l)
    BY <2>1, <2>2 DEF HitsOK
  <2>5. samples[l].tick = truth[i].tick /\ samples[l].entity_id = v
    BY <2>3, <2>4 DEF IsHitOf
  <2>6. samples[l].health = Shown(i, v).health
    BY <2>1, <2>4, <2>5, DropShown
  <2>7. ASSUME NEW d \in Range(truth[i].deaths), d.victim = v, Shown(i, v).health = 0
        PROVE  h.method = "kill-event" /\ h.attacker = d.attacker
    <3>1. PICK m \in 1..Len(truth[i].deaths) : d = truth[i].deaths[m]
      <4>1. truth[i].deaths \in Seq(Death)
        BY <2>1, PacketsAre DEF GameInv
      <4> QED BY <4>1 DEF Range
    <3>2. /\ DeathsAbout(h.tick, v) # {}
          /\ \A x \in DeathsAbout(h.tick, v) : deaths[x].attacker = d.attacker
      BY <2>1, <2>7, <3>1, DeathsOf
    <3> QED BY <2>3, <2>4, <2>6, <2>7, <3>2 DEF Attributed
  <2>8. ASSUME i > 1, h.method # "kill-event", NEW a \in Enemies(v), AimsOn(a, v, i)
        PROVE  h.attacker # None
    BY <2>1, <2>3, <2>4, <2>5, <2>8, AimersAim DEF Attributed
  <2> QED BY <2>3, <2>7, <2>8
<1> QED BY <1>1, HitsHold, PTL
==============================================================================
