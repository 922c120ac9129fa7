------------------------------ MODULE Captures -------------------------------
(***************************************************************************)
(* Who captured the ghost (extract/rounds.rs, capturer) in the matches of  *)
(* GhostHolds.                                                             *)
(*                                                                         *)
(* The game lights the capture zones when a round begins and switches them *)
(* off in the think that ends it with a capture (external, as rounds.rs    *)
(* tells it); they stay on when it ends otherwise.  The entity pass        *)
(* records their changes, and capturer looks up zones and carrier around a *)
(* round's end.                                                            *)
(***************************************************************************)
EXTENDS GhostHolds, SequencesExt, FiniteSetsExt

CONSTANTS
  Zone,      \* the entity ids of the capture zones
  EndWindow  \* END_WINDOW: two events of the match are further apart

ASSUME CapturesAssumption ==
  /\ Zone # {} /\ IsFiniteSet(Zone) /\ None \notin BOOLEAN
  /\ EndWindow \in Nat /\ EndWindow < Gap

VARIABLES
  active,        \* the zones that are on
  zones,         \* zones[z]: what the entity pass has seen last, None before
  zone_changes,
  captures       \* the captures of recorded rounds

capture == <<active, zones, zone_changes, captures>>

-----------------------------------------------------------------------------

\* apply_zone records a change of a zone, its first value too.
ApplyZone(z) == on' /\ zones[z] # (z \in active')

\* The zones as the next packet has them.
ApplyZones ==
  LET changed == {z \in Zone : ApplyZone(z)}
  IN /\ zones' = [z \in Zone |-> IF z \in changed THEN z \in active' ELSE zones[z]]
     /\ zone_changes' = zone_changes \o
          SetToSeq({[tick |-> clock', entity_id |-> z, active |-> z \in active'] : z \in changed})

CaptureBegins == RoundBegins /\ active' = Zone /\ ApplyZones /\ UNCHANGED captures

\* The carrier brings the ghost into a zone, or the round ends otherwise.
CaptureEnds ==
  /\ RoundEnds
  /\ \/ /\ ghoster # 0 /\ active' = {}
        /\ on => rec'.results[Len(rec'.results)].winner # "tie"
        /\ captures' = IF on THEN captures \cup {[tick |-> clock', entity_id |-> ghoster]} ELSE captures
     \/ UNCHANGED <<active, captures>>
  /\ ApplyZones

CaptureRecordingBegins == RecordingBegins /\ UNCHANGED <<active, captures>> /\ ApplyZones

-----------------------------------------------------------------------------
(* capturer                                                                *)

\* Whether z was on after its last change by tick.
LitBy(z, tick) ==
  LET by == {i \in DOMAIN zone_changes : zone_changes[i].entity_id = z /\ zone_changes[i].tick <= tick}
  IN by # {} /\ zone_changes[Max(by)].active

\* Every zone that was on before the window around the end went off in it.
ZonesSwitchedOff(end) ==
  LET was == {z \in Zone : LitBy(z, end - EndWindow - 1)}
  IN was # {} /\ \A z \in was : ~LitBy(z, end + EndWindow)

\* The carrier as of the last change before limit.
CarrierBefore(limit) ==
  LET is == {i \in DOMAIN carrier_changes : carrier_changes[i].tick < limit}
  IN IF is = {} THEN 0 ELSE carrier_changes[Max(is)].entity_id

\* Mutant: only the carrier on the end tick is looked at.
CapturerAtEnd(end) ==
  IF ~ZonesSwitchedOff(end) \/ CarrierBefore(end + 1) = 0 THEN None ELSE CarrierBefore(end + 1)

\* The carrier on the end tick, or before it when it was cleared on it.
Capturer(end) ==
  LET carrier_at == IF CarrierBefore(end + 1) # 0 THEN CarrierBefore(end + 1) ELSE CarrierBefore(end)
  IN IF ~ZonesSwitchedOff(end) \/ carrier_at = 0 THEN None ELSE carrier_at

-----------------------------------------------------------------------------

CapturesInit ==
  /\ GhostInit
  /\ active = {} /\ zones = [z \in Zone |-> None] /\ zone_changes = <<>> /\ captures = {}

CapturesNext ==
  \/ CaptureBegins \/ CaptureEnds \/ CaptureRecordingBegins
  \/ TakeOrDrop /\ UNCHANGED capture
  \/ (GoLive \/ StopRecording \/ (Next /\ UNCHANGED match)) /\ UNCHANGED <<ghost, capture>>

CapturesSpec == CapturesInit /\ [][CapturesNext]_<<allVars, capture>>

-----------------------------------------------------------------------------
(* Properties                                                              *)

\* A round has a capturer exactly when it was won by a capture, and it is the
\* player who carried the ghost (SCHEMA.md:666), whether the game clears the
\* carrier with the capture or leaves it, over rounds that end otherwise,
\* aborted rounds and a recording that begins within the round.
CapturersAsPlayed ==
  pc = "done" /\ on =>
    \A r \in Range(rounds) :
      r.end # None =>
        Capturer(r.end) =
          IF \E c \in captures : c.tick = r.end
            THEN (CHOOSE c \in captures : c.tick = r.end).entity_id ELSE None
==============================================================================
