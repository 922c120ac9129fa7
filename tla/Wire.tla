-------------------------------- MODULE Wire --------------------------------
(***************************************************************************)
(* What the passes read out of a frame's payload: the net messages of a    *)
(* packet (demo/net.rs) and the userinfo entries of a string table         *)
(* (demo/stringtables.rs).  A payload is the sequence of its messages; how *)
(* many bits each takes is left out, and so are the messages that          *)
(* walk_packet skips.  A payload that cannot be read on holds the message  *)
(* "bad" where the reader stops.                                           *)
(***************************************************************************)
EXTENDS Integers, SequencesExt

CONSTANT None   \* Rust's None, and the userdata of a cleared entry

-----------------------------------------------------------------------------
(* Packets                                                                 *)

Readable(payload) == "bad" \notin {payload[i].type : i \in 1..Len(payload)}

\* The messages handed on are those before the first that cannot be read.
WalkPacket(payload) ==
  LET bad == {i \in 1..Len(payload) : payload[i].type = "bad"}
  IN SubSeq(payload, 1, IF bad = {} THEN Len(payload) ELSE Min(bad) - 1)

\* The event by the recording's own definitions, or None when its id is not
\* among them.
ParseGameEvent(event, defs) ==
  IF event.id \in DOMAIN defs THEN [event EXCEPT !.id = defs[event.id]] ELSE None

-----------------------------------------------------------------------------
(* String tables                                                           *)

\* How the server writes the entries of an update (external): an entry that
\* follows the one before it, or is entry 0 and the first, says so in one bit;
\* the others carry their index.
WriteEntries(entries) ==
  [i \in 1..Len(entries) |->
     LET previous == IF i = 1 THEN -1 ELSE entries[i - 1].index
         next == entries[i].index = previous + 1
     IN [next |-> next, index |-> IF next THEN 0 ELSE entries[i].index,
         userdata |-> entries[i].userdata]]

\* The index of each entry of an update, as parse_userinfo_update reads it.
EntryIndex(wire) ==
  LET at[i \in 0..Len(wire)] ==
        IF i = 0 THEN -1 ELSE IF wire[i].next THEN at[i - 1] + 1 ELSE wire[i].index
  IN at

\* parse_player_info: the entity a slot's player has is numbered one up.
PlayerInfo(slot, userdata) ==
  [entity_id |-> slot + 1, user_id |-> userdata.user_id, name |-> userdata.name,
   is_hltv |-> userdata.is_hltv]

\* The players named by an update; a cleared entry names none.
ParseUserinfoUpdate(wire) ==
  {PlayerInfo(EntryIndex(wire)[i], wire[i].userdata) :
     i \in {i \in 1..Len(wire) : wire[i].userdata # None}}

\* The players in the dump of all tables at the recording's start.
ParseUserinfo(tables) ==
  UNION {{PlayerInfo(e.index, e.userdata) : e \in {e \in t.entries : e.userdata # None}} :
           t \in {t \in tables : t.name = "userinfo"}}
==============================================================================
