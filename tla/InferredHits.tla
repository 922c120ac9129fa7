---------------------------- MODULE InferredHits -----------------------------
(***************************************************************************)
(* Who dealt each drop of health (extract/inferred_hits.rs): infer goes    *)
(* through the samples of the entity pass in order, keeps each player's    *)
(* last one, and gives a drop to the killer of the death event when it is  *)
(* fatal, or else to an enemy whose aim is on the victim.                  *)
(*                                                                         *)
(* An aim is on the player aimed at, within MAX_AIM_ERROR, or on nobody;   *)
(* which of several such enemies is closest is left open.                  *)
(***************************************************************************)
EXTENDS EntityPass

VARIABLES
  k,       \* the sample infer takes next, 0 before infer
  state,   \* state[p]: the player's last sample, or None
  hits     \* the hits so far

inferring == <<k, state, hits>>
vars == <<entityVars, inferring>>

This == samples[k]
Victim == state[This.entity_id]

Hit(attacker, method) ==
  [tick |-> This.tick, victim |-> This.entity_id, attacker |-> attacker,
   damage |-> Victim.health - This.health, method |-> method]

\* Mutant: a sample with the same health is a drop too.
DroppedOrSame ==
  /\ Victim # None /\ Victim.alive /\ This.health <= Victim.health /\ Victim.health > 0
  /\ This.team \in {2, 3}

\* Mutant: the victim's team is not looked at.
DroppedOnAnyTeam ==
  Victim # None /\ Victim.alive /\ This.health < Victim.health /\ Victim.health > 0

Dropped ==
  /\ Victim # None /\ Victim.alive /\ This.health < Victim.health /\ Victim.health > 0
  /\ This.team \in {2, 3}

\* Mutant: any death of the victim up to now.
FatalDeathsSoFar ==
  {d \in DOMAIN deaths : deaths[d].victim = This.entity_id /\ deaths[d].tick <= This.tick + DeathWindow}

\* The victim's deaths about now.
FatalDeaths ==
  {d \in DOMAIN deaths : /\ deaths[d].victim = This.entity_id
                         /\ deaths[d].tick - This.tick \in -DeathWindow..DeathWindow}

CannotHit(weapon) == weapon \in {None, "ghost"}

\* The enemies whose aim is on the victim.
Aimers ==
  {p \in Player \ {This.entity_id} :
     /\ state[p] # None /\ state[p].alive /\ state[p].team # Victim.team /\ state[p].team \in {2, 3}
     /\ ~CannotHit(state[p].weapon)
     /\ state[p].aim = This.entity_id}

AimHits == IF Aimers = {} THEN {Hit(None, "none")} ELSE {Hit(a, "aim-v1") : a \in Aimers}

Fatal == This.health <= 0 \/ ~This.alive

Hits ==
  IF Fatal /\ FatalDeaths # {} THEN {Hit(deaths[Min(FatalDeaths)].attacker, "kill-event")} ELSE AimHits

Infer ==
  /\ over /\ k = 0 /\ k' = 1
  /\ UNCHANGED <<entityVars, state, hits>>

InferSample ==
  /\ k \in DOMAIN samples /\ k' = k + 1
  /\ IF Dropped THEN \E h \in Hits : hits' = Append(hits, h) ELSE UNCHANGED hits
  /\ state' = [state EXCEPT ![This.entity_id] = This]
  /\ UNCHANGED entityVars

Init == EntityInit /\ k = 0 /\ state = [p \in Player |-> None] /\ hits = <<>>

Next == (EntityNext /\ UNCHANGED inferring) \/ Infer \/ InferSample

Spec == Init /\ [][Next]_vars

-----------------------------------------------------------------------------
(* Properties                                                              *)

\* Every variable keeps its type, and every hit is a drop.
TypeOK ==
  /\ samples \in Seq(Row)
  /\ entity_classes \in [Entity -> WeaponClass \cup {"player", None}]
  /\ k \in Nat /\ state \in [Player -> Row \cup {None}]
  /\ hits \in Seq([tick : Nat, victim : Player, attacker : Player \cup {None}, damage : Nat \ {0},
                   method : {"kill-event", "aim-v1", "none"}])

Done == over /\ k > Len(samples)

\* The packets that showed the slot's player before packet i, the last of them.
ShownBefore(i, p) ==
  LET before == {j \in 1..(i - 1) : Shown(j, p) # None}
  IN IF before = {} THEN None ELSE Shown(Max(before), p)

\* By how much packet i showed less health on p's entity id than the packet
\* before that showed it, of a player on a team.
Drop(i, p) ==
  LET was == ShownBefore(i, p)
      is == Shown(i, p)
  IN IF was = None \/ is = None THEN 0
     ELSE IF is.team = 0 \/ is.health >= was.health THEN 0 ELSE was.health - is.health

\* "one row per health drop in player_samples" (SCHEMA.md:727-728): every drop
\* that the packets show on an entity id, of a player on a team, has one hit of
\* as much damage, and nothing else has one: no rise, no departure, no return to
\* view with no less health, no arrival on no team.  A drop is one whoever had
\* the id before:
\* a survivor who spawns in a class with less health, and a player who spawns
\* unseen on an id last shown with more, have a hit too (Wounds).
HitsAreDrops ==
  Done =>
    \A i \in DOMAIN truth, p \in Player :
      LET own == {n \in DOMAIN hits : hits[n].tick = truth[i].tick /\ hits[n].victim = p}
      IN IF Drop(i, p) = 0 THEN own = {} ELSE \E n \in own : own = {n} /\ hits[n].damage = Drop(i, p)

\* The aim of enemy a was on p at packets i and i-1, with a weapon known to
\* shoot.
AimsOn(a, p, i) ==
  \A j \in {i - 1, i} :
    /\ Shown(j, a) # None /\ Shown(j, a).health > 0 /\ Shown(j, a).team # 0 /\ Shown(j, a).aim = p
    /\ ~CannotHit(Latest(a, truth[j].tick).weapon)

\* A drop to death that its own packet shows has the killer of that death,
\* whoever aims at the victim and whatever deaths the slot had before; any
\* other hit on a player whom an enemy in view keeps their aim on has an
\* attacker.
AttackersFound ==
  Done =>
    \A h \in Range(hits), i \in DOMAIN truth :
      h.tick = truth[i].tick =>
        /\ \A d \in Range(truth[i].deaths) :
             d.victim = h.victim /\ Shown(i, h.victim).health = 0
               => h.method = "kill-event" /\ h.attacker = d.attacker
        /\ i > 1 /\ h.method # "kill-event" =>
             \A a \in Enemies(h.victim) : AimsOn(a, h.victim, i) => h.attacker # None

\* Said by SCHEMA.md:729-730: "the living enemy whose aim points closest at the
\* victim on that tick".
AttackersLiving ==
  Done =>
    \A h \in Range(hits), i \in DOMAIN truth :
      h.tick = truth[i].tick /\ i > 1 /\ h.method = "aim-v1" =>
        \E j \in {i - 1, i} :
          LET a == truth[j].world[h.attacker] IN a # None /\ a.health > 0
==============================================================================
