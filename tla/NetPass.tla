------------------------------- MODULE NetPass -------------------------------
(***************************************************************************)
(* The net pass (extract/net.rs) behind a server whose clients come and go *)
(* (external): the roster, who holds a slot at a tick, the neo names, the  *)
(* convars, and whether the deaths' userids are known.                     *)
(*                                                                         *)
(* Between two packets anything may happen on the server; a packet then    *)
(* shows the state it finds: the userinfo entries that changed since the   *)
(* packet before, the convars set, and the events fired.  The pass walks   *)
(* the frames in file order, one message a step.                           *)
(***************************************************************************)
EXTENDS Wire

CONSTANTS
  Slot,         \* the server's client slots, from 0
  NeoName,      \* the neo names players set
  TableOrders,  \* the orders in which a server creates its string tables
  Uptime,       \* the tick in the headers of signon frames
  MaxTick,      \* bound: the last tick of the recording
  MaxChanges,   \* bound: what happens on the server
  MaxErrors     \* bound: frames and table updates that cannot be read

ASSUME NetPassAssumption ==
  /\ Slot \subseteq Nat /\ IsFiniteSet(Slot) /\ Slot # {}
  /\ {Uptime, MaxTick, MaxChanges, MaxErrors} \subseteq Nat
  \* One userinfo table, and at most 32 tables: an id has 5 bits (demo/net.rs:161).
  /\ \A o \in TableOrders :
       /\ o \in Seq(STRING) /\ Len(o) <= 32
       /\ Cardinality({i \in 1..Len(o) : o[i] = "userinfo"}) = 1
  /\ NeoName \subseteq STRING \ {""}

VARIABLES
  sourcetv,   \* whether this is a SourceTV recording
  clients,    \* clients[s]: the connection in slot s, or None
  sent,       \* the userinfo table as the last packet left it
  neo,        \* neo[s]: the neo name of the slot's player, "" for none
  neoSent,    \* the neo names as last shown
  cvar,       \* the convar's value: how often it was set
  fired,      \* what is queued for the next packet: events and set convars
  nextId,     \* the userid of the next connection
  order,      \* the order of the string tables on this server
  tick,       \* the tick of the last packet
  stage,      \* the next frame to record: "signon", "dump", then "packets"
  changes,    \* counts up to MaxChanges
  errors,     \* counts up to MaxErrors
  truth,      \* the packets so far: their ticks and what the server held

  frame,      \* the frame being read
  inbox,      \* the messages collected from it and not taken yet
  players, cvars, deaths, defs, tables_created, userinfo_table, warnings,
              \* as in NetPass
  neoNames    \* the NeoNameChanges of the entity pass

server == <<sourcetv, clients, sent, neo, neoSent, cvar, fired, nextId, order, tick, stage,
            changes, errors, truth, neoNames>>
reading == <<frame, inbox>>
pass == <<players, cvars, deaths, defs, tables_created, userinfo_table, warnings>>
vars == <<server, reading, pass>>

\* The convars in the recording.
Convars == {"tv_transmitall", "sv_rounds"}

\* A Steam name is how often its connection changed it.
Connection == [user_id : Nat, name : Nat, is_hltv : BOOLEAN]
Player == [entity_id : Nat, user_id : Nat, name : Nat, first_seen_tick : Nat]
EventIds == [player_death |-> 3, player_connect_client |-> 5, player_changename |-> 8]
EventDefs == [id \in {3, 5, 8} |-> CHOOSE n \in DOMAIN EventIds : EventIds[n] = id]
Known == {p.user_id : p \in players}

-----------------------------------------------------------------------------
(* The server                                                              *)

Happen ==
  /\ stage = "packets" /\ inbox = <<>> /\ changes < MaxChanges
  /\ changes' = changes + 1
  /\ UNCHANGED <<sourcetv, sent, neoSent, order, tick, stage, errors, truth, neoNames>>
  /\ UNCHANGED <<reading, pass>>

Fire(name, fields) ==
  fired' = Append(fired, [type |-> "game_event", id |-> EventIds[name], fields |-> fields])

\* SourceTV relays neither connects nor name changes (ARCHITECTURE.md:123-141).
FireToClients(name, fields) == IF sourcetv THEN UNCHANGED fired ELSE Fire(name, fields)

Connect(s) ==
  /\ Happen /\ clients[s] = None
  /\ clients' = [clients EXCEPT ![s] = [user_id |-> nextId, name |-> 0, is_hltv |-> FALSE]]
  /\ FireToClients("player_connect_client", [userid |-> nextId, index |-> s, name |-> 0])
  /\ nextId' = nextId + 1 /\ neo' = [neo EXCEPT ![s] = ""]
  /\ UNCHANGED cvar

IsPlayer(c) == c # None /\ ~c.is_hltv

\* A player is in the game from the packet that announced them on.
InGame(s) == IsPlayer(clients[s]) /\ sent[s] # None /\ sent[s].user_id = clients[s].user_id

Disconnect(s) ==
  /\ Happen /\ IsPlayer(clients[s])
  /\ clients' = [clients EXCEPT ![s] = None]
  /\ UNCHANGED <<neo, cvar, fired, nextId>>

Rename(s) ==
  /\ Happen /\ InGame(s)
  /\ clients' = [clients EXCEPT ![s].name = @ + 1]
  /\ FireToClients("player_changename", [userid |-> clients[s].user_id, newname |-> clients[s].name + 1])
  /\ UNCHANGED <<neo, cvar, nextId>>

SetNeoName(s) ==
  /\ Happen /\ InGame(s)
  /\ \E n \in (NeoName \cup {""}) \ {neo[s]} : neo' = [neo EXCEPT ![s] = n]
  /\ UNCHANGED <<clients, cvar, fired, nextId>>

\* The attacker is the world, userid 0, or a player.
Die(s) ==
  /\ Happen /\ InGame(s)
  /\ \E a \in {0} \cup {clients[r].user_id : r \in {r \in Slot : InGame(r)}} :
       Fire("player_death", [userid |-> clients[s].user_id, attacker |-> a, assists |-> 0])
  /\ UNCHANGED <<clients, neo, cvar, nextId>>

SetCvar ==
  /\ Happen
  /\ cvar' = cvar + 1
  /\ fired' = Append(fired, [type |-> "set_convar", name |-> "sv_rounds", value |-> cvar'])
  /\ UNCHANGED <<clients, neo, nextId>>

-----------------------------------------------------------------------------
(* The recording                                                           *)

\* walk_packet, whose messages are collected before the first is taken.
ReadFrame(f, payload) ==
  /\ frame' = f
  /\ inbox' = WalkPacket(payload)
  /\ warnings' = IF Readable(payload) THEN warnings ELSE warnings + 1
  /\ errors' = IF Readable(payload) THEN errors ELSE errors + 1
  /\ UNCHANGED <<players, cvars, deaths, defs, tables_created, userinfo_table>>

\* The payload, or where errors are left a payload that breaks off in it.
Recorded(payload) ==
  {payload} \cup
  (IF errors < MaxErrors
     THEN {InsertAt(payload, i, [type |-> "bad"]) : i \in 1..(Len(payload) + 1)} ELSE {})

\* The signon: what each client is told first.  SourceTV appends a convar of
\* its own to the server's, so that a name may repeat.
Signon ==
  <<[type |-> "server_info"]>>
  \o [i \in 1..Len(order) |-> [type |-> "create_table", name |-> order[i]]]
  \o <<[type |-> "event_list", defs |-> EventDefs]>>
  \o [i \in 1..2 |-> [type |-> "set_convar", name |-> <<"tv_transmitall", "sv_rounds">>[i], value |-> cvar]]
  \o (IF sourcetv THEN <<[type |-> "set_convar", name |-> "tv_transmitall", value |-> cvar]>> ELSE <<>>)

RecordSignon ==
  /\ stage = "signon" /\ stage' = "dump"
  /\ \E p \in Recorded(Signon) : ReadFrame([kind |-> "signon", tick |-> Uptime], p)
  /\ UNCHANGED <<sourcetv, clients, sent, neo, neoSent, cvar, fired, nextId, order, tick,
                 changes, truth, neoNames>>

Entry(s) == [index |-> s, userdata |-> clients[s]]

\* OnStringTables reads the dump of all tables.
RecordDump ==
  /\ stage = "dump" /\ inbox = <<>> /\ stage' = "packets"
  /\ players' = players \cup
       {[entity_id |-> i.entity_id, user_id |-> i.user_id, name |-> i.name, first_seen_tick |-> 0] :
          i \in {i \in ParseUserinfo({[name |-> order[k], entries |-> IF order[k] = "userinfo"
                                                                        THEN {Entry(s) : s \in Slot} ELSE {}] :
                                        k \in 1..Len(order)}) : ~i.is_hltv}}
  /\ sent' = clients
  /\ UNCHANGED <<sourcetv, clients, neo, neoSent, cvar, fired, nextId, order, tick, changes, errors,
                 truth, neoNames, reading, cvars, deaths, defs, tables_created, userinfo_table, warnings>>

\* A set of slots in ascending order.
Ascending(S) ==
  [i \in 1..Cardinality(S) |-> CHOOSE s \in S : Cardinality({r \in S : r <= s}) = i]

TableId(name) == (CHOOSE i \in 1..Len(order) : order[i] = name) - 1

\* The entries of the userinfo table that changed since the last packet.
Update ==
  LET changed == Ascending({s \in Slot : clients[s] # sent[s]})
  IN IF changed = <<>> THEN <<>>
     ELSE <<[type |-> "update_table", table_id |-> TableId("userinfo"),
             entries |-> WriteEntries([i \in 1..Len(changed) |-> Entry(changed[i])])]>>

\* What was last shown of a slot's neo name; a connection's entity starts out
\* with none.
NeoBefore(s) == IF InGame(s) THEN neoSent[s] ELSE ""

\* The entity pass: the new neo names of the players in view.
ShowNeoNames(view) ==
  LET new == Ascending(view)
  IN /\ neoSent' = [s \in Slot |-> IF s \in view THEN neo[s] ELSE NeoBefore(s)]
     /\ neoNames' = neoNames \o
          [i \in 1..Len(new) |-> [tick |-> tick', entity_id |-> new[i] + 1, name |-> neo[new[i]]]]

\* A packet on a tick of its own, the first perhaps on tick 0.  The events and
\* the table update reach the recording in either order.
RecordPacket ==
  /\ stage = "packets" /\ inbox = <<>> /\ tick < MaxTick
  /\ tick' \in {tick + 1} \cup (IF truth = <<>> THEN {0} ELSE {})
  /\ \E view \in SUBSET {s \in Slot : IsPlayer(clients[s]) /\ neo[s] # NeoBefore(s)} : ShowNeoNames(view)
  /\ \E p \in Recorded(fired \o Update) \cup Recorded(Update \o fired) :
       ReadFrame([kind |-> "packet", tick |-> tick'], p)
  /\ sent' = clients /\ fired' = <<>>
  /\ truth' = Append(truth, [tick |-> tick', clients |-> clients, cvar |-> cvar, neo |-> neoSent'])
  /\ UNCHANGED <<sourcetv, clients, neo, cvar, nextId, order, stage, changes>>

-----------------------------------------------------------------------------
(* on_frame                                                                *)

\* A signon frame's header has the server's uptime; its snapshot is of tick 0.
StateTick == IF frame.kind = "signon" THEN 0 ELSE frame.tick

Take(type) ==
  /\ inbox # <<>> /\ Head(inbox).type = type /\ inbox' = Tail(inbox)
  /\ UNCHANGED <<server, frame>>

\* ServerInfo decides no row of this model's.
TakeServerInfo == Take("server_info") /\ UNCHANGED pass

\* Mutant: only the last row is looked at for the name.
SameTickRowsLast(name) ==
  {i \in {Len(cvars)} \ {0} : cvars[i].name = name /\ cvars[i].tick = StateTick}

\* The rows of the name in the run of rows on this tick at the end.
SameTickRows(name) ==
  {i \in 1..Len(cvars) : cvars[i].name = name /\ \A j \in i..Len(cvars) : cvars[j].tick = StateTick}

\* on_set_convar takes the pairs of a message one at a time.
TakeSetConVar ==
  /\ Take("set_convar")
  /\ LET m == Head(inbox)
         same == SameTickRows(m.name)
     IN cvars' = IF same = {} THEN Append(cvars, [tick |-> StateTick, name |-> m.name, value |-> m.value])
                 ELSE [cvars EXCEPT ![Max(same)].value = m.value]
  /\ UNCHANGED <<players, deaths, defs, tables_created, userinfo_table, warnings>>

TakeEventList ==
  /\ Take("event_list") /\ defs' = Head(inbox).defs
  /\ UNCHANGED <<players, cvars, deaths, tables_created, userinfo_table, warnings>>

Event == ParseGameEvent(Head(inbox), defs)

\* Mutant: an entity is numbered as its slot.
AddPlayerAtIndex ==
  players' = players \cup
    IF Event.fields.userid \in Known THEN {}
    ELSE {[entity_id |-> Event.fields.index, user_id |-> Event.fields.userid,
           name |-> Event.fields.name, first_seen_tick |-> frame.tick]}

\* A connect event's player; a userid already in the roster keeps its row.
AddPlayer ==
  players' = players \cup
    IF Event.fields.userid \in Known THEN {}
    ELSE {[entity_id |-> Event.fields.index + 1, user_id |-> Event.fields.userid,
           name |-> Event.fields.name, first_seen_tick |-> frame.tick]}

RenamePlayer ==
  players' = {IF p.user_id = Event.fields.userid THEN [p EXCEPT !.name = Event.fields.newname] ELSE p :
                p \in players}

\* on_game_event.  The events that only add a row of their own are left out.
TakeGameEvent ==
  /\ Take("game_event")
  /\ \/ Event = None /\ warnings' = warnings + 1 /\ UNCHANGED <<players, deaths>>
     \/ /\ Event # None /\ UNCHANGED warnings
        /\ \/ Event.id = "player_death" /\ UNCHANGED players
              /\ deaths' = Append(deaths, Event.fields)
           \/ Event.id = "player_connect_client" /\ AddPlayer /\ UNCHANGED deaths
           \/ Event.id = "player_changename" /\ RenamePlayer /\ UNCHANGED deaths
  /\ UNCHANGED <<cvars, defs, tables_created, userinfo_table>>

\* Mutant: the table is counted before it is numbered.
TakeCreateTableCounted ==
  /\ Take("create_table")
  /\ userinfo_table' = IF Head(inbox).name = "userinfo" THEN tables_created + 1 ELSE userinfo_table
  /\ tables_created' = (tables_created + 1) % 256
  /\ UNCHANGED <<players, cvars, deaths, defs, warnings>>

TakeCreateTable ==
  /\ Take("create_table")
  /\ userinfo_table' = IF Head(inbox).name = "userinfo" THEN tables_created ELSE userinfo_table
  /\ tables_created' = (tables_created + 1) % 256
  /\ UNCHANGED <<players, cvars, deaths, defs, warnings>>

\* Mutant: a repeated entry of a userid adds a row.
OnUserinfoAgain(infos) ==
  players' = players \cup
    {[entity_id |-> i.entity_id, user_id |-> i.user_id, name |-> i.name,
      first_seen_tick |-> StateTick] : i \in {i \in infos : ~i.is_hltv}}

\* The proxy's own entry is left out, and a userid already in the roster keeps
\* its row.
OnUserinfo(infos) ==
  players' = players \cup
    {[entity_id |-> i.entity_id, user_id |-> i.user_id, name |-> i.name,
      first_seen_tick |-> StateTick] : i \in {i \in infos : ~i.is_hltv /\ i.user_id \notin Known}}

\* An update of another table is passed over, and one that cannot be parsed is
\* a warning.
TakeUpdateTable ==
  /\ Take("update_table")
  /\ \/ /\ Head(inbox).table_id = userinfo_table
        /\ OnUserinfo(ParseUserinfoUpdate(Head(inbox).entries)) /\ UNCHANGED warnings
     \/ /\ Head(inbox).table_id = userinfo_table /\ warnings < MaxErrors
        /\ warnings' = warnings + 1 /\ UNCHANGED players
     \/ Head(inbox).table_id # userinfo_table /\ UNCHANGED <<players, warnings>>
  /\ UNCHANGED <<cvars, deaths, defs, tables_created, userinfo_table>>

-----------------------------------------------------------------------------
(* What the rows are given                                                 *)

\* Mutant: of two arrivals on one tick the first is taken.
SlotHolderFirst(entity_id, t) ==
  LET arrived == {p \in players : p.entity_id = entity_id /\ p.first_seen_tick <= t}
  IN IF arrived = {} THEN None
     ELSE (CHOOSE p \in arrived : \A q \in arrived :
             \/ q.first_seen_tick < p.first_seen_tick
             \/ q.first_seen_tick = p.first_seen_tick /\ q.user_id >= p.user_id).user_id

\* The last to arrive on the slot by this tick.
SlotHolder(entity_id, t) ==
  LET arrived == {p \in players : p.entity_id = entity_id /\ p.first_seen_tick <= t}
  IN IF arrived = {} THEN None
     ELSE (CHOOSE p \in arrived : \A q \in arrived :
             \/ q.first_seen_tick < p.first_seen_tick
             \/ q.first_seen_tick = p.first_seen_tick /\ q.user_id <= p.user_id).user_id

\* SlotOwners::new: a slot's arrivals in ascending order.
SlotOwners(entity_id) ==
  LET arrived == {p \in players : p.entity_id = entity_id}
      upTo(p) == {q \in arrived : \/ q.first_seen_tick < p.first_seen_tick
                                  \/ q.first_seen_tick = p.first_seen_tick /\ q.user_id <= p.user_id}
  IN [i \in 1..Cardinality(arrived) |-> CHOOSE p \in arrived : Cardinality(upTo(p)) = i]

\* A Steam ID is its connection's.
SteamidAt(entity_id, t) ==
  LET holders == SlotOwners(entity_id)
      after == Cardinality({i \in 1..Len(holders) : holders[i].first_seen_tick <= t})
  IN IF after = 0 THEN None ELSE holders[after].user_id

\* Mutant: a cleared name is taken too.
NamesGivenCleared == 1..Len(neoNames)

\* apply_neo_names skips the changes to no name.
NamesGiven == {i \in 1..Len(neoNames) : neoNames[i].name # ""}

\* The neo name apply_neo_names leaves a player with.
NeoNameOf(user_id) ==
  LET own == {i \in NamesGiven : SlotHolder(neoNames[i].entity_id, neoNames[i].tick) = user_id}
  IN IF own = {} THEN None ELSE neoNames[Max(own)].name

DeathsMissingFromRoster ==
  Cardinality({i \in 1..Len(deaths) :
    \E id \in {deaths[i].userid, deaths[i].attacker, deaths[i].assists} : id # 0 /\ id \notin Known})

-----------------------------------------------------------------------------

\* The proxy of a SourceTV recording is a client too.
Init ==
  /\ sourcetv \in BOOLEAN /\ order \in TableOrders /\ cvar = 0
  /\ \E on \in SUBSET Slot :
       /\ clients = [s \in Slot |->
            IF s \in on THEN [user_id |-> s + 1, name |-> 0, is_hltv |-> sourcetv /\ s = Min(on)] ELSE None]
       /\ sourcetv => on # {}
  /\ nextId = Max(Slot) + 2
  /\ sent = [s \in Slot |-> None] /\ neo = [s \in Slot |-> ""] /\ neoSent = neo
  /\ fired = <<>> /\ tick = 0 /\ stage = "signon" /\ changes = 0 /\ errors = 0 /\ truth = <<>>
  /\ frame = [kind |-> "signon", tick |-> Uptime] /\ inbox = <<>>
  /\ players = {} /\ cvars = <<>> /\ deaths = <<>> /\ defs = <<>> /\ tables_created = 0
  /\ userinfo_table = None /\ warnings = 0 /\ neoNames = <<>>

Server ==
  SetCvar \/ \E s \in Slot : Connect(s) \/ Disconnect(s) \/ Rename(s) \/ SetNeoName(s) \/ Die(s)

OnFrame ==
  \/ TakeServerInfo \/ TakeSetConVar \/ TakeEventList \/ TakeGameEvent
  \/ TakeCreateTable \/ TakeUpdateTable

Next == Server \/ RecordSignon \/ RecordDump \/ RecordPacket \/ OnFrame

Spec == Init /\ [][Next]_vars

-----------------------------------------------------------------------------
(* Properties                                                              *)

\* Every variable keeps its type, and no userid has two rows, which the index
\* on players would refuse (SCHEMA.md:170).
TypeOK ==
  /\ clients \in [Slot -> Connection \cup {None}] /\ sent \in [Slot -> Connection \cup {None}]
  /\ players \subseteq Player /\ Cardinality(Known) = Cardinality(players)
  /\ cvars \in Seq([tick : Nat, name : Convars, value : Nat])
  /\ tables_created \in 0..255 /\ userinfo_table \in (0..255) \cup {None} /\ warnings \in Nat

\* The frames so far have been read, each to its end and without a warning.
ReadWhole == inbox = <<>> /\ warnings = 0

\* Whoever is in a slot when a packet is sent holds it on that packet's tick,
\* by slot_holder and by SlotOwners alike: over handovers between two packets
\* and connections shorter than one, however the connection became known.
\* "the connection holding the slot at the row's tick" (SCHEMA.md:35-38)
HoldersRight ==
  ReadWhole =>
    \A i \in 1..Len(truth), s \in Slot :
      LET c == truth[i].clients[s]
      IN IsPlayer(c) => /\ SlotHolder(s + 1, truth[i].tick) = c.user_id
                        /\ SteamidAt(s + 1, truth[i].tick) = c.user_id

\* Unless a frame could not be read, every userid in a death has a roster row
\* (SCHEMA.md:424-428), late joiners of a SourceTV recording included.
LateJoinersKnown == ReadWhole => DeathsMissingFromRoster = 0

\* A player's neo name is the last one shown of them that was not empty, never
\* one of a player who held the slot before or after (SCHEMA.md:172).
NeoNamesTheirOwn ==
  ReadWhole =>
    \A p \in players :
      LET s == p.entity_id - 1
          shown == {i \in 1..Len(truth) : /\ truth[i].clients[s] # None
                                          /\ truth[i].clients[s].user_id = p.user_id
                                          /\ truth[i].neo[s] # ""}
      IN NeoNameOf(p.user_id) = IF shown = {} THEN None ELSE truth[Max(shown)].neo[s]

\* The last row of the convar by a packet's tick has the server's value then,
\* and no tick has two rows of one name, although the signon, a repeat in one
\* message and several messages can land on one tick.
CvarsAsServed ==
  ReadWhole =>
    /\ \A i, j \in 1..Len(cvars) :
         cvars[i].name = cvars[j].name /\ cvars[i].tick = cvars[j].tick => i = j
    /\ \A i \in 1..Len(truth) :
         LET upTo == {j \in 1..Len(cvars) : cvars[j].name = "sv_rounds" /\ cvars[j].tick <= truth[i].tick}
         IN upTo # {} /\ cvars[Max(upTo)].value = truth[i].cvar

\* The players of the last packet, by slot.
Present ==
  IF truth = <<>> THEN [s \in Slot |-> None] ELSE truth[Len(truth)].clients

NamesOfPresent ==
  \A p \in players : \A s \in Slot :
    Present[s] # None /\ Present[s].user_id = p.user_id => p.name = Present[s].name

\* A roster row is its connection's, whichever frame could not be read: it has
\* the connection's slot, is not the SourceTV proxy's, and does not begin
\* after a packet the connection was in unless a packet was lost.  In a
\* client's recording it has the latest name of a player still there, whoever
\* else was renamed and whichever source had the player first.
RowsAreConnections ==
  inbox = <<>> =>
    /\ \A p \in players : \A i \in 1..Len(truth), s \in Slot :
         LET c == truth[i].clients[s]
         IN c # None /\ c.user_id = p.user_id =>
              /\ p.entity_id = s + 1 /\ ~c.is_hltv
              /\ warnings = 0 => p.first_seen_tick <= truth[i].tick
    /\ warnings = 0 /\ ~sourcetv => NamesOfPresent

\* Said by SCHEMA.md:171 of every recording: "Steam name, the latest if they
\* renamed".
NamesAreLatest == ReadWhole => NamesOfPresent
==============================================================================
