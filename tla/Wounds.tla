------------------------------- MODULE Wounds --------------------------------
(***************************************************************************)
(* InferredHits with a history of who was hurt in the game.  The samples   *)
(* cannot tell a player who was damaged from one who spawned with less     *)
(* health, in another class or as the next player on the entity id, and    *)
(* infer keeps its state over both.                                        *)
(***************************************************************************)
EXTENDS InferredHits

VARIABLES
  hurt, spawned,           \* the players damaged, and spawned, since a packet last showed them
  woundsSent, spawnsSent   \* woundsSent[i], spawnsSent[i]: those when packet i was sent

history == <<hurt, spawned, woundsSent, spawnsSent>>

-----------------------------------------------------------------------------

WoundsInit ==
  Init /\ hurt = {} /\ spawned = {} /\ woundsSent = <<>> /\ spawnsSent = <<>>

\* Those of S who are still in the game.
Staying(S) == {p \in S : world'[p] # None}

\* What happens in the game is kept until a packet shows it.
GameGoesOn ==
  /\ Game
  /\ hurt' = Staying(hurt \cup {p \in Player : Hurt(p)})
  /\ spawned' = Staying(spawned \cup {p \in Player : Spawn(p)})
  /\ UNCHANGED <<woundsSent, spawnsSent, inferring>>

PacketSent ==
  /\ RecordPacket
  /\ hurt' = hurt \ View /\ woundsSent' = Append(woundsSent, hurt)
  /\ spawned' = spawned \ View /\ spawnsSent' = Append(spawnsSent, spawned)
  /\ UNCHANGED inferring

WoundsNext ==
  \/ GameGoesOn \/ PacketSent
  \/ (StopRecording \/ TakeOther \/ TakeGone \/ TakeUpdate) /\ UNCHANGED <<inferring, history>>
  \/ (Infer \/ InferSample) /\ UNCHANGED history

WoundsSpec == WoundsInit /\ [][WoundsNext]_<<vars, history>>

-----------------------------------------------------------------------------
(* Properties                                                              *)

HitAt(i, p) == \E h \in Range(hits) : h.tick = truth[i].tick /\ h.victim = p

\* The hits are the damage dealt: unless a player spawned since a packet last
\* showed them, they have a hit in the next one exactly when they were damaged
\* since then, over deaths, re-entries and departures, and whoever joins on the
\* entity id has none (SCHEMA.md:725-730).
WoundsAreHits ==
  Done =>
    \A i \in DOMAIN truth : \A p \in Player \ spawnsSent[i] :
      HitAt(i, p) <=> p \in woundsSent[i] /\ Shown(i, p) # None /\ ShownBefore(i, p) # None
==============================================================================
