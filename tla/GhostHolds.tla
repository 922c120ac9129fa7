----------------------------- MODULE GhostHolds ------------------------------
(***************************************************************************)
(* Who held the ghost (extract/ghost_holds.rs) in a recorded match.        *)
(*                                                                         *)
(* The game sets the rules proxy's m_iGhosterPlayer from the ghost's owner *)
(* while a round is live, leaves it alone once the round is over, and      *)
(* resets it when the next round begins, a restarted one too (external, as *)
(* ghost_holds.rs tells it).  The entity pass records its changes          *)
(* (entities.rs, apply_rules), and holds makes stretches of them.          *)
(***************************************************************************)
EXTENDS RecordedMatch, FiniteSets

CONSTANTS
  Holder,    \* the entity ids of players who take the ghost
  MaxTakes   \* bound: how often the ghost changes hands

ASSUME GhostHoldsAssumption == Holder \subseteq Nat \ {0} /\ MaxTakes \in Nat

VARIABLES
  ghoster,   \* m_iGhosterPlayer, 0 for nobody
  takes,     \* counts up to MaxTakes
  carrier,   \* the last value the entity pass has seen
  carrier_changes,
  carried,   \* the stretches players carried the ghost in while it was recorded
  stale      \* the tick of a first snapshot that shows the carrier of a round
             \* already over, or None

ghost == <<ghoster, takes, carrier, carrier_changes, carried, stale>>
allVars == <<vars, match, ghost>>

-----------------------------------------------------------------------------

\* Mutant: a change to nobody is not recorded.
ApplyRulesTaken ==
  IF on' /\ ghoster' # carrier
    THEN /\ carrier' = ghoster'
         /\ carrier_changes' = IF ghoster' = 0 THEN carrier_changes
                               ELSE Append(carrier_changes, [tick |-> clock', entity_id |-> ghoster'])
    ELSE UNCHANGED <<carrier, carrier_changes>>

\* apply_rules, for the property as the next packet has it.
ApplyRules ==
  IF on' /\ ghoster' # carrier
    THEN /\ carrier' = ghoster'
         /\ carrier_changes' = Append(carrier_changes, [tick |-> clock', entity_id |-> ghoster'])
    ELSE UNCHANGED <<carrier, carrier_changes>>

\* A stretch of the game that the recording should have.
Stretch(holder) == [tick |-> clock', end_tick |-> None, entity_id |-> holder, round |-> Len(played')]

\* The stretch that has no end yet ends now.
EndStretch ==
  {IF c.end_tick = None THEN [c EXCEPT !.end_tick = clock'] ELSE c : c \in carried}

TakeOrDrop ==
  /\ pc = "record" /\ phase = "live" /\ clock < MaxTick /\ NextTick /\ takes < MaxTakes
  /\ takes' = takes + 1
  /\ ghoster' \in (Holder \cup {0}) \ {ghoster}
  /\ UNCHANGED <<phase, number, on, played, vars, stale>>
  /\ carried' = IF on THEN EndStretch \cup (IF ghoster' = 0 THEN {} ELSE {Stretch(ghoster')}) ELSE carried
  /\ ApplyRules

RoundBegins ==
  /\ BeginRound /\ ghoster' = 0 /\ carried' = EndStretch
  /\ UNCHANGED <<takes, stale>>
  /\ ApplyRules

\* A capture may clear the property with the round's end (rounds.rs:129-131).
RoundEnds ==
  /\ EndRound /\ carried' = EndStretch
  /\ ghoster' \in {ghoster, 0}
  /\ UNCHANGED <<takes, stale>>
  /\ ApplyRules

RecordingBegins ==
  /\ BeginRecording
  /\ carried' = IF ghoster # 0 /\ phase = "live" THEN {Stretch(ghoster)} ELSE {}
  /\ stale' = IF ghoster # 0 /\ phase = "over" THEN clock' ELSE None
  /\ UNCHANGED <<ghoster, takes>>
  /\ ApplyRules

-----------------------------------------------------------------------------
(* holds                                                                   *)

\* The stretches as the property changes; each change ends the open one.
RawHold(changes, i) ==
  LET placed == Place(rounds, changes[i].tick)
  IN [tick |-> changes[i].tick, entity_id |-> changes[i].entity_id,
      end_tick |-> IF i < Len(changes) THEN changes[i + 1].tick ELSE None,
      round_index |-> IF placed = None THEN None ELSE placed.index]

\* One for each change that names a player.
Taken(changes) == {i \in DOMAIN changes : changes[i].entity_id # 0}
RawHolds(changes) == [i \in Taken(changes) |-> RawHold(changes, i)]

\* The rounds a tick lies in by their starts and ends, those with an end.
RoundsAround(tick) ==
  {i \in DOMAIN rounds : /\ rounds[i].start = None \/ rounds[i].start <= tick
                         /\ rounds[i].end # None /\ rounds[i].end >= tick}

\* Mutant: a stretch is not ended with its round.
CappedNot(hold) == hold

\* A stretch ends by the end of the round it began in.
Capped(hold) ==
  LET around == RoundsAround(hold.tick)
      end == rounds[CHOOSE i \in around : \A j \in around : i <= j].end
  IN IF around # {} /\ (hold.end_tick = None \/ hold.end_tick > end)
       THEN [hold EXCEPT !.end_tick = end] ELSE hold

Holds == LET raw == RawHolds(carrier_changes) IN [i \in DOMAIN raw |-> Capped(raw[i])]

-----------------------------------------------------------------------------

GhostInit ==
  /\ MatchInit
  /\ ghoster = 0 /\ takes = 0 /\ carrier = 0 /\ carrier_changes = <<>> /\ carried = {} /\ stale = None

GhostNext ==
  \/ TakeOrDrop \/ RoundBegins \/ RoundEnds \/ RecordingBegins
  \/ (GoLive \/ StopRecording \/ (Next /\ UNCHANGED match)) /\ UNCHANGED ghost

GhostSpec == GhostInit /\ [][GhostNext]_allVars

-----------------------------------------------------------------------------
(* Properties                                                              *)

\* The rows of a cut demo are those before its cut.
InDemo(tick) == cut = None \/ tick < cut

\* The position in rounds of the round that was the p-th to be played, None
\* when the recording has neither its start text nor its end.
FoundAs(p) == IF p \in Found THEN FoundBy(p) ELSE None

\* The holds are the stretches players carried the ghost in rounds the
\* recording was there for, each with its end and its round, over aborted
\* rounds, a recording that joins or stops within one, ties, and a cut: "A hold
\* still open at its round's end therefore ends at the round's end tick"
\* (SCHEMA.md:484-486).  Left out are a recording that misses a round's end and
\* the carrier that the first snapshot after a round's end still names.
HoldsAsCarried ==
  pc = "done" /\ on /\ (\A p \in DOMAIN played : RecordedEnd(played[p]) = played[p].end) =>
    {h \in {Holds[i] : i \in DOMAIN Holds} : InDemo(h.tick) /\ h.tick # stale}
      = {[tick |-> c.tick, entity_id |-> c.entity_id, end_tick |-> c.end_tick,
          round_index |-> FoundAs(c.round)] : c \in {c \in carried : InDemo(c.tick)}}
==============================================================================
