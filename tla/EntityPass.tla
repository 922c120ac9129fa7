----------------------------- MODULE EntityPass ------------------------------
(***************************************************************************)
(* The entity pass (extract/entities.rs) over a recording of a game whose  *)
(* players fight, die, respawn, leave and join (external): the samples of  *)
(* each player, with the name of the weapon held.                          *)
(*                                                                         *)
(* A packet updates the entities in the recorder's view in the order of    *)
(* their ids: one comes into view with all its properties, then has those  *)
(* sent that changed, and leaves the view or is deleted.  The pass takes   *)
(* one update a step.  Where a player stands and looks is one property     *)
(* here, the player aimed at; a player is alive while their health is not  *)
(* zero; the other columns of a sample (class, camo) are read as health is.*)
(***************************************************************************)
EXTENDS Integers, SequencesExt, FiniteSetsExt

CONSTANTS
  None,         \* Rust's None, and an invalid handle
  Player,       \* the entity ids of player slots
  Weapon,       \* the entity ids weapons get
  WeaponClass,  \* the weapon classes, by the name weapon_entity_name gives them
  TeamOf,       \* the team each slot's player joins, 2 or 3
  Full,         \* the health a player may spawn with, by class
  DeathWindow,  \* DEATH_WINDOW
  RespawnTime,  \* ticks from a death to the player's next spawn, at least
  MaxTick,      \* bound: the last tick of the recording
  MaxChanges    \* bound: what happens in the game

Entity == Player \cup Weapon

\* The entities of a player and of a weapon, and an update of either.
PlayerEntity ==
  [kind : {"player"}, serial : Nat, team : {0, 2, 3}, health : Nat, aim : Player \cup {None},
   weapon : Weapon \cup {None}]
WeaponEntity == [kind : WeaponClass, serial : Nat]

\* A packet's update of an entity: its class, and the properties sent.
UpdateType ==
  [type : {"enter", "preserve", "leave", "delete"}, kind : WeaponClass \cup {"player", None},
   props : UNION {[fields -> Nat \cup WeaponClass \cup {"player", None}] : fields \in
                    SUBSET {"kind", "serial", "team", "health", "aim", "weapon"}}]

\* What the pass has of a player.
PlayerStateType == [team : {0, 2, 3}, health : Nat, aim : Player \cup {None}, weapon : Weapon \cup {None}]

\* A row of player_samples.
Row ==
  [tick : Nat, entity_id : Player, aim : Player \cup {None}, health : Nat, team : {0, 2, 3},
   weapon : WeaponClass \cup {None}, alive : BOOLEAN, in_pvs : BOOLEAN]

ASSUME EntityPassAssumption ==
  /\ Player \subseteq Nat \ {0} /\ Weapon \subseteq Nat \ {0}
  /\ \A p \in Player, w \in Weapon : p < w
  /\ TeamOf \in [Player -> {2, 3}] /\ Full \subseteq Nat \ {0, 1} /\ Full # {} /\ IsFiniteSet(Full)
  /\ {DeathWindow, RespawnTime, MaxTick, MaxChanges} \subseteq Nat
  /\ 2 * DeathWindow < RespawnTime
  /\ "player" \notin WeaponClass
  /\ None \notin Nat \cup {"player"} \cup WeaponClass \cup PlayerEntity \cup WeaponEntity
              \cup UpdateType \cup PlayerStateType \cup Row

VARIABLES
  far,        \* the recorder is out of sight of the others; never in SourceTV's
  world,      \* world[e]: the entity with this id, or None
  nextSerial, \* tells the entities apart that had one id
  sent,       \* sent[e]: the entity as last sent while in view, or None
  tick,       \* the tick of the last packet
  diedAt,     \* diedAt[p]: the tick of the packet that showed p's last death, or None
  fired,      \* the deaths since the last packet
  changes,    \* counts up to MaxChanges
  truth,      \* the packets so far: their ticks, the world and the view
  over,       \* the recording has ended

  inbox,      \* inbox[e]: the packet's update of e, or None once it is taken
  entity_classes, players, samples,   \* as in EntityAnalyser
  deaths      \* the deaths of the net pass, victims and attackers by entity

game == <<far, world, nextSerial, sent, tick, diedAt, fired, changes, truth, over, deaths>>
pass == <<inbox, entity_classes, players, samples>>
entityVars == <<game, pass>>

-----------------------------------------------------------------------------
(* The game                                                                *)

\* The pass has taken the packet.
Taken == \A e \in Entity : inbox[e] = None

Happen ==
  /\ ~over /\ Taken /\ truth # <<>> /\ changes < MaxChanges
  /\ changes' = changes + 1
  /\ UNCHANGED <<sent, tick, truth, over, deaths, pass>>

Alive(p) == world[p] # None /\ world[p].health > 0 /\ world[p].team # 0

Enemies(p) == {q \in Player : TeamOf[q] # TeamOf[p]}

Held == {world[p].weapon : p \in {p \in Player : world[p] # None}} \ {None}

Turn(p) ==
  /\ Happen /\ Alive(p)
  /\ \E a \in (Enemies(p) \cup {None}) \ {world[p].aim} : world' = [world EXCEPT ![p].aim = a]
  /\ UNCHANGED <<far, nextSerial, diedAt, fired>>

\* Who may have dealt damage to v: an enemy who aims at v with a weapon that
\* shoots, or None for a fall.
Dealers(v) ==
  {None} \cup {a \in Enemies(v) : Alive(a) /\ world[a].aim = v /\ world[world[a].weapon].kind # "ghost"}

Hurt(v) ==
  /\ Happen /\ Alive(v)
  /\ \E a \in Dealers(v), h \in 0..(world[v].health - 1) :
       /\ world' = [world EXCEPT ![v].health = h, ![v].weapon = IF h = 0 THEN None ELSE @]
       /\ fired' = IF h = 0 THEN Append(fired, [victim |-> v, attacker |-> a]) ELSE fired
  /\ UNCHANGED <<far, nextSerial, diedAt>>

\* The player picks up a weapon and has it out; the other one is dropped.
Switch(p) ==
  /\ Happen /\ Alive(p)
  /\ \E w \in Weapon \ Held : world[w] # None /\ world' = [world EXCEPT ![p].weapon = w]
  /\ UNCHANGED <<far, nextSerial, diedAt, fired>>

RemoveWeapon(w) ==
  /\ Happen /\ world[w] # None /\ w \notin Held
  /\ world' = [world EXCEPT ![w] = None]
  /\ UNCHANGED <<far, nextSerial, diedAt, fired>>

\* An id is used again a second after its entity is deleted.
Unused(e) == world[e] = None /\ truth[Len(truth)].world[e] = None

\* A player spawns for a new round, with a weapon and the health of a class;
\* the weapon of a survivor is removed.
Spawn(p) ==
  /\ Happen /\ world[p] # None /\ p \notin {d.victim : d \in Range(fired)}
  /\ \E w \in Weapon, c \in WeaponClass \ {"ghost"}, h \in Full :
       /\ Unused(w)
       /\ world' = [e \in Entity |->
            IF e = p THEN [world[p] EXCEPT !.health = h, !.team = TeamOf[p], !.weapon = w]
            ELSE IF e = w THEN [kind |-> c, serial |-> nextSerial]
            ELSE IF e = world[p].weapon THEN None ELSE world[e]]
  /\ nextSerial' = nextSerial + 1
  /\ UNCHANGED <<far, diedAt, fired>>

\* A player leaves, and what they hold is removed.
Disconnect(p) ==
  /\ Happen /\ world[p] # None
  /\ world' = [e \in Entity |-> IF e \in {p, world[p].weapon} THEN None ELSE world[e]]
  /\ UNCHANGED <<far, nextSerial, diedAt, fired>>

\* A player joins on no team yet; "spectator entities sit at 1" (SCHEMA.md:212).
Connect(p) ==
  /\ Happen /\ Unused(p)
  /\ world' = [world EXCEPT ![p] = [kind |-> "player", serial |-> nextSerial, team |-> 0,
                                    health |-> 1, aim |-> None, weapon |-> None]]
  /\ nextSerial' = nextSerial + 1
  /\ UNCHANGED <<far, diedAt, fired>>

-----------------------------------------------------------------------------
(* The recording                                                           *)

\* A player's recording always has the recorder and what they hold in view,
\* and the others with theirs or not.
Recorder == Min(Player)
Near == {e \in Entity : e = Recorder \/ (world[Recorder] # None /\ e = world[Recorder].weapon)}
View == IF far THEN Near ELSE Entity

\* The recorder moves out of the others' sight, or back.
Move ==
  /\ Happen /\ far' = ~far
  /\ UNCHANGED <<world, nextSerial, diedAt, fired>>

Changed(e) == {f \in DOMAIN world[e] : world[e][f] # sent[e][f]}

Update(e, type, props) ==
  [type |-> type, kind |-> IF type = "delete" THEN None ELSE world[e].kind,
   props |-> [f \in props |-> world[e][f]]]

\* The update a packet has of e, if any.  An entity that is deleted out of view is in
\* the packet's removed_entities, which the pass does not read.
UpdateOf(e, view) ==
  IF sent[e] = None
    THEN IF e \in view /\ world[e] # None THEN Update(e, "enter", DOMAIN world[e]) ELSE None
  ELSE IF world[e] = None THEN Update(e, "delete", {})
  ELSE IF e \notin view THEN Update(e, "leave", {})
  ELSE IF Changed(e) # {} THEN Update(e, "preserve", Changed(e)) ELSE None

\* A packet, after one tick or, when a player spawned since the last one,
\* after enough of them; the packets that show nothing new are left out.  Death
\* events come up to DeathWindow ticks after the packet with the drop.
Victims == {d.victim : d \in Range(fired)}
Respawned == {p \in Player : diedAt[p] # None /\ (Alive(p) \/ p \in Victims)}

RecordPacket ==
  /\ ~over /\ Taken
  /\ tick' = tick + 1 \/ (Respawned # {} /\ tick' = tick + RespawnTime)
  /\ tick' <= MaxTick
  /\ \A p \in Respawned : tick' >= diedAt[p] + RespawnTime
  /\ diedAt' = [p \in Player |-> IF p \in Victims THEN tick' ELSE diedAt[p]]
  /\ inbox' = [e \in Entity |-> UpdateOf(e, View)]
  /\ truth # <<>> => world # truth[Len(truth)].world \/ \E e \in Entity : inbox'[e] # None
  /\ sent' = [e \in Entity |-> IF e \in View THEN world[e] ELSE None]
  /\ truth' = Append(truth, [tick |-> tick', world |-> world, view |-> View, deaths |-> fired])
  /\ \E late \in 0..DeathWindow :
       /\ fired = <<>> => late = 0
       /\ deaths' = deaths \o [i \in 1..Len(fired) |-> [tick |-> tick' + late, victim |-> fired[i].victim,
                                                       attacker |-> fired[i].attacker]]
  /\ fired' = <<>>
  /\ UNCHANGED <<far, world, nextSerial, changes, over, entity_classes, players, samples>>

\* The recording ends; what the last packet did not show has no part in it.
StopRecording ==
  /\ ~over /\ Taken /\ truth # <<>> /\ over' = TRUE
  /\ world = truth[Len(truth)].world /\ View = truth[Len(truth)].view
  /\ UNCHANGED <<far, world, nextSerial, sent, tick, diedAt, fired, changes, truth, deaths, pass>>

-----------------------------------------------------------------------------
(* apply_entity                                                            *)

PlayerState == [team |-> 0, health |-> 0, aim |-> None, weapon |-> None]

\* The name of the weapon a player has out, from the class its id has now.
\* The id is 0 until a handle was seen, and no weapon has it.
WeaponName(classes, p) ==
  IF p.weapon # None /\ classes[p.weapon] \in WeaponClass THEN classes[p.weapon] ELSE None

\* push_sample
Sample(e, p, classes, in_pvs) ==
  [tick |-> tick, entity_id |-> e, aim |-> p.aim, health |-> p.health, team |-> p.team,
   weapon |-> WeaponName(classes, p), alive |-> p.health > 0, in_pvs |-> in_pvs]

\* The updates are taken in the order of their ids.
Id == Min({e \in Entity : inbox[e] # None})

\* The class of the update's entity: a deletion's is the one known, and is
\* forgotten.
Class == IF inbox[Id].type = "delete" THEN entity_classes[Id] ELSE inbox[Id].kind

Take ==
  /\ ~Taken /\ inbox' = [inbox EXCEPT ![Id] = None]
  /\ entity_classes' = [entity_classes EXCEPT ![Id] = inbox[Id].kind]
  /\ UNCHANGED game

\* The other classes' entities have rows of their own, and deletions of
\* entities never seen none.
TakeOther ==
  /\ Take /\ Class # "player"
  /\ UNCHANGED <<players, samples>>

Forget == players' = IF inbox[Id].type = "delete" THEN [players EXCEPT ![Id] = None] ELSE players

\* Mutant: a player who leaves the view has no sample.
TakeGoneSilently ==
  Take /\ Class = "player" /\ inbox[Id].type \in {"leave", "delete"} /\ Forget /\ UNCHANGED samples

TakeGone ==
  /\ Take /\ Class = "player" /\ inbox[Id].type \in {"leave", "delete"} /\ Forget
  /\ samples' = IF players[Id] = None THEN samples
                ELSE Append(samples, Sample(Id, players[Id], entity_classes', FALSE))

\* An invalid handle leaves the last weapon in place.
Applied(p, props) ==
  [f \in DOMAIN p |-> IF f \in DOMAIN props /\ ~(f = "weapon" /\ props[f] = None) THEN props[f] ELSE p[f]]

\* Mutant: a change of the weapon alone is no change.
IsChangeNotWeapon(p, props) == \E f \in DOMAIN props \cap DOMAIN p : f # "weapon"

\* A handle is a change when its id is another; the other properties are one
\* whenever they are sent.
IsChange(p, props) ==
  \E f \in DOMAIN props \cap DOMAIN p : f = "weapon" => props[f] \notin {None, p.weapon}

TakeUpdate ==
  LET before == IF players[Id] = None THEN PlayerState ELSE players[Id]
      after == Applied(before, inbox[Id].props)
  IN /\ Take /\ Class = "player" /\ inbox[Id].type \in {"enter", "preserve"}
     /\ players' = [players EXCEPT ![Id] = after]
     /\ samples' = IF IsChange(before, inbox[Id].props)
                     THEN Append(samples, Sample(Id, after, entity_classes', TRUE)) ELSE samples

-----------------------------------------------------------------------------

\* The recording begins with each player on the team, holding a weapon.  A
\* round has one ghost.
EntityInit ==
  /\ far \in BOOLEAN
  /\ \E held \in {h \in [Player -> Weapon] : \A p, q \in Player : p < q => h[p] < h[q]},
        kinds \in [Weapon -> WeaponClass \cup {None}], aims \in [Player -> Player \cup {None}] :
       /\ \A p \in Player : aims[p] \in Enemies(p) \cup {None} /\ held[p] # Max(Weapon)
       /\ Cardinality({w \in Weapon : kinds[w] = "ghost"}) <= 1
       /\ \A w \in Weapon : kinds[w] = None => w \notin Range(held)
       /\ world = [e \in Entity |->
            IF e \in Player THEN [kind |-> "player", serial |-> 0, team |-> TeamOf[e], health |-> Max(Full),
                                  aim |-> aims[e], weapon |-> held[e]]
            ELSE IF kinds[e] = None THEN None ELSE [kind |-> kinds[e], serial |-> 0]]
  /\ nextSerial = 1 /\ sent = [e \in Entity |-> None]
  /\ tick = 0 /\ diedAt = [p \in Player |-> None] /\ fired = <<>> /\ changes = 0 /\ truth = <<>> /\ over = FALSE
  /\ inbox = [e \in Entity |-> None] /\ entity_classes = [e \in Entity |-> None]
  /\ players = [p \in Player |-> None] /\ samples = <<>> /\ deaths = <<>>

Game ==
  \/ \E p \in Player : Turn(p) \/ Hurt(p) \/ Switch(p) \/ Spawn(p) \/ Disconnect(p) \/ Connect(p)
  \/ Move \/ \E w \in Weapon : RemoveWeapon(w)

EntityNext == Game \/ RecordPacket \/ StopRecording \/ TakeOther \/ TakeGone \/ TakeUpdate

EntitySpec == EntityInit /\ [][EntityNext]_entityVars

-----------------------------------------------------------------------------
(* Properties                                                              *)

\* What packet i showed of player p, None out of view.
Shown(i, p) == IF p \in truth[i].view THEN truth[i].world[p] ELSE None

SamplesBy(p, t) == {k \in DOMAIN samples : samples[k].entity_id = p /\ samples[k].tick <= t}
Latest(p, t) == samples[Max(SamplesBy(p, t))]

\* Rows are written on change, "so carry values forward between rows"
\* (SCHEMA.md:199-202): a player's last row by a packet's tick is the player
\* as that packet showed them, or has in_pvs 0 while they are out of view or
\* gone, over re-entries and a slot's next player too.
SamplesAsShown ==
  Taken =>
    \A i \in DOMAIN truth, p \in Player :
      IF Shown(i, p) = None THEN SamplesBy(p, truth[i].tick) = {} \/ ~Latest(p, truth[i].tick).in_pvs
      ELSE /\ SamplesBy(p, truth[i].tick) # {}
           /\ LET s == Latest(p, truth[i].tick)
                  w == Shown(i, p)
              IN s.in_pvs /\ <<s.aim, s.health, s.team, s.alive>> = <<w.aim, w.health, w.team, w.health > 0>>

\* The weapon entity w as packet i has it was in view before tick t.
SeenBefore(w, i, t) ==
  \E j \in DOMAIN truth : /\ truth[j].tick < t /\ w \in truth[j].view /\ truth[j].world[w] # None
                          /\ truth[j].world[w].serial = truth[i].world[w].serial

\* A row names the weapon the player has out, never one that had its id
\* before, once the weapon was in view before the row's packet.
WeaponsTheirOwn ==
  Taken =>
    \A i \in DOMAIN truth, p \in Player :
      LET shown == Shown(i, p)
          s == Latest(p, truth[i].tick)
      IN shown # None /\ shown.weapon # None /\ SeenBefore(shown.weapon, i, s.tick)
           => s.weapon = truth[i].world[shown.weapon].kind
==============================================================================
