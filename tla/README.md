# A TLA+ model of the NT;RE demo dumper

The dumper reads recordings of NEOTOKYO;REBUILD matches (`.dem` files) and
writes what happened in them to a SQLite database. This directory holds TLA+
modules that model it, TLC configurations that check them on small instances,
and proofs, checked by TLAPS, of what holds for every instance.
Paths below are relative to the repository; `rounds.rs:331` is line 331 of
`src/extract/rounds.rs`.

## The system

Data flows one way: `demo/` decodes the file, `extract/` turns frames into
facts in memory, `output/` writes rows. `pipeline.rs` runs the three for one
demo and `main.rs` for each demo on the command line. The program is a single
process, with one parallel section (the announcement skim); several runs may
share a database file.

| component | state it keeps | operations | meets | what is hard, and what makes it correct |
|---|---|---|---|---|
| command line, demo loop (`main.rs`) | the demos left, the counts of failed and skipped ones | open the database, parse each demo, roll back on an error, exit status | calls the pipeline; owns the connection | one demo fails half-way: the others must not notice, and the exit status must tell |
| pipeline (`pipeline.rs`) | one demo's passes and their results | skip a stored demo, run the passes, write everything in one transaction, cut | every pass; the database | a crash at any statement; another run storing the same file: a stored demo is a whole demo |
| database layer (`sqlite.rs`) | the file: schema, version stamp, rows; the set of omitted tables; an open transaction | open and check the version, find, insert, cut, begin, commit, roll back | other processes through the file | check-then-act on the version; locks; deletes that must hit one demo only |
| identity (`identity.rs`) | none | hash a file, take 44 bits as its id | keys of `demos` | two files with one id |
| announcements, skim (`announcements.rs`, `skim.rs`) | the packets, the texts found | collect packets, skim them in parallel chunks, join, sort, drop resends | rounds | order on equal ticks for any number of threads; which repeats are resends |
| rounds (`rounds.rs`) | the round ends left, the open round, the rounds so far | pair starts and ends, number, first start, cut, place a tick | announcements, round results, entity state; every table with a round | matches that are joined late, paused, restarted, cut off; equal ticks; the tick cut against the rounds cut |
| server clock (`clock.rs`, `frames.rs`) | the correction in force, the ordinal of the packet | retime every frame | frame walk, entity pass | two walks that must agree; ticks that repeat or go back |
| net pass (`net.rs`) | the roster, deaths, event rows, event definitions, the userinfo table's number | one handler per message; place deaths and teams; mark teamkills | string tables, entity pass, rounds | two sources of the roster in any order; slots that pass between players; resource lag |
| entity pass (`entities.rs`) | last state of players, resource, carrier, zones, round status | apply an entity update, sample on change | clock, rounds, counts, holds, hits | PVS, deletion and re-entry; ticks taken by counting packets |
| living counts (`alive.rs`) | each slot's last change, the last death | merge resource rows with deaths and round starts | net pass, rounds | a resource that trails the events it shows |
| ghost holds (`ghost_holds.rs`), captures (`rounds.rs`) | the open hold | carrier changes to holds, capped at the round's end; zones and carrier around an end to its capturer | entity pass, rounds | a property that may keep its value after the round, or lose it with the round's last tick |
| inferred hits (`inferred_hits.rs`) | last sample of each player | match a health drop to a death or to the best aim | entity pass, net pass | deaths that trail their drops; samples of players who are gone |
| string tables (`stringtables.rs`) | last entries while decoding | decode userinfo dumps and updates | net pass | an entry's index is relative to the one before |
| net framing (`demo/net.rs`) | none beyond the buffer | walk a packet's messages, parse an event by the recording's definitions | net pass | a packet that breaks off |
| bits, header, user commands (`bits.rs`, `header.rs`, `usercmd.rs`) | none beyond the buffer | parse | every pass | wire formats |
| POV samples, console commands, inputs (`pov.rs`, `console.rs`, `inputs.rs`) | rows so far | append a row per frame | database | little |
| vendored parser | its own | whole-file entity decoding | entity pass | third-party |

`PROJECT.json` lists every hazard of this code with its line, those that no
property covers yet included.

## Modules

| module | what it is | models |
|---|---|---|
| `DemoRows` | which rows make a demo whole, as operators | the row-choosing options, `cut_after`'s outcome, what the inserts and `cut_at` leave |
| `DemoArchive` | the abstract specification of the database: a set of whole demos | what ARCHITECTURE.md promises ("one demo per transaction") |
| `Dumper` | processes running the program against one file, with SQLite as they use it | `main.rs`, `pipeline.rs`, `sqlite.rs`, `identity.rs` |
| `DumperProofs` | theorems about `Dumper`: types, whole demos, versions, that it implements `DemoArchive`, what its exit status tells | |
| `Announcements` | the parallel skim for center texts and the removal of resends | `announcements.rs`; which texts `skim.rs` finds in a payload is part of the packet |
| `AnnouncementsProofs` | theorems about `Announcements` | |
| `Rounds` | round reconstruction, step by step | `derive`, `first_freeze`, `cut_after`, `place` in `rounds.rs` |
| `RoundsProofs` | theorems about `Rounds` | |
| `RecordedMatch` | a match, a recording of a part of it, and `Rounds` run on the recording | the game (external) as `rounds.rs` describes it |
| `RecordedMatchProofs` | theorems about `RecordedMatch`, `GhostHolds` and `Captures` | |
| `GhostHolds` | who held the ghost in such a match | `ghost_holds.rs`, the carrier in `entities.rs` (`apply_rules`); the game is external |
| `Captures` | who captured it | `capturer` and `zones_switched_off` in `rounds.rs`, `apply_zone` in `entities.rs`; the game is external |
| `DemoClock` | the server's clock, and the two walks that read it | `clock.rs`, and the packet count in `entities.rs`; the recorder is external |
| `DemoClockProofs` | theorems about `DemoClock` | |
| `Alive` | the living player counts behind the game they are read from | `slot_changes` and `counts` in `alive.rs`, `apply_resource` in `entities.rs`, `place_teams` in `net.rs`; the game is external |
| `AliveProofs` | theorems about `Alive` | |
| `Wire` | a packet's messages and a string table's entries, as operators | `demo/net.rs`, `stringtables.rs` |
| `NetPass` | the net pass behind a server whose clients come, go, rename and die | `net.rs` over `Wire`; the server is external |
| `NetPassProofs` | theorems about `NetPass` | |
| `EntityPass` | the entity pass over a game in and out of the recorder's view | `apply_entity` in `entities.rs`; the game is external |
| `InferredHits` | hits inferred from the samples of `EntityPass` | `inferred_hits.rs` |
| `Wounds` | `InferredHits` with a history of who was hurt and who spawned | the history is external |
| `InferredHitsProofs` | theorems about `EntityPass` and `InferredHits` | |
| `MCDumper`, `MCAnnouncements`, `MCRecordedMatch`, `MCDemoClock`, `MCAlive`, `MCNetPass`, `MCInferredHits` | instances for TLC | |

The modules compose by extension where the code's passes feed each other:
`Rounds` runs on what `RecordedMatch` recorded, `GhostHolds` and `Captures` look
the same match's entity rows up in the rounds found, and `InferredHits` reads the
samples that `EntityPass` wrote.

### Dumper

A process slot `p` is at a label `pc[p]`; each action is one statement on the
database, because statements are where other processes, failures and kills can
come in between. Between statements the program only works on its own memory,
so `Extract` is all of the passes over a file in one step.

| code | action |
|---|---|
| `main` starts with its arguments | `Start` |
| `Db::open`: look for the demos table; check the version; the schema batch; the stamp | `Open`, `CheckVersion`, `CreateSchema`, `StampVersion` |
| the loop in `main`, `fs::read` | `NextDemo`; `Finish` at its end |
| `find_demo` and the skip | `FindDemo` |
| header, frame walk, entity pass, rounds, `cut_after` | `Extract` |
| `begin`, `insert_demo`, each insert, `cut_at`, `commit` | `Begin`, `InsertDemo`, `InsertRows`, `CutAt`, `Commit` |
| the error arm in `main` with its rollback | `Fail` |

The database is a record: does the demos table exist, the version stamp, the
demos rows, the child rows. A child row is its demo's id, its table and its
tick; no property is about the other columns. `wal` is the sequence of
committed databases since the last checkpoint, `txn[p]` the database as `p`'s
transaction sees it. `BEGIN` is deferred: it takes neither lock nor snapshot,
and the first write takes both (`InsertDemo`). A transaction that fails may
have been rolled back by SQLite already (`Fault` has both outcomes), in which
case `main`'s own rollback fails harmlessly. WAL with `synchronous = NORMAL`
survives a killed process but can lose its last commits with the power:
`PowerLoss` keeps any prefix of `wal`.

The schema batch is one commit in the model although it is one per
`CREATE ... IF NOT EXISTS`: only the first, of the demos table, is ever looked
at (`Db::open`), and a batch cut short after it is finished by the next run
that passes the check.

`DemoArchive` is the abstract specification. `Dumper` implements it under the
mapping `archive <- ArchiveOf(Committed)`: a commit is the one step that adds a
demo, with all of its rows; nothing else changes what a reader sees but a power
loss, which takes whole demos away.

### Announcements

`OnFrame` collects the packets while the frames are walked. `Spawn` is the first
call of `found`: it cuts the packets into chunks and starts a worker on each.
`SkimPacket(w)` is worker `w`'s next packet, in any interleaving; `Join` takes
the workers' results in the order of their handles; `SortAndDedup` is the stable
sort and `dedup`. A packet is its tick and the texts the skim and the patterns
find in it.

### Rounds and RecordedMatch

`Rounds` takes one input of `derive` (start markers with tick and number, round
results, win texts, freezes, the `--last-round` option) and runs the code on
it: `SortEnds`, then the merge loop as `Close`, `OpenNext` and `KeepOpen`, then
`NumberRounds`, `StartFirst`, and `CutAfter`. `Place` is the pure function that
other passes call. Reasons, capturers and ghost spawns hang on a round and
never move one, so in `Rounds` a round's outcome is one value, its winner.

`RecordedMatch` puts a match in front of it. Only there can one ask whether the
rounds found are the rounds *played*: `played` is the history, and the
recording is what a recorder that joins and leaves somewhere would hold of it.

### GhostHolds and Captures

The players of a `RecordedMatch` take and drop the ghost (`TakeOrDrop`). The
game resets the carrier property when a round begins and leaves it alone once a
round is over, but a capture may clear it with the round's end
(`rounds.rs:129-131`). `carried` is the history: the stretches players carried
the ghost in, each with its round. `RawHolds` and `Holds` are the code, over the
changes `ApplyRules` recorded.

`Captures` adds the capture zones, lit when a round begins and switched off by a
capture only; `Capturer` is `capturer` over the recorded changes of zones and
carrier. Its window around a round's end is `EndWindow` = 1 tick, and the events of
a match are `Gap` = 2 ticks apart, as real ones are further apart than `END_WINDOW`.

### DemoClock

`Record` (external) writes a frame: the server advances by a member of `Pace`,
the client by that plus a member of `Skew`, never backwards, and a packet may or
may not carry a snapshot. `ReadClock` is `Clock::new` on the whole file;
`WalkFrame` is `ClockedFrames::next`, for packets and for other frames;
`EntityPacket` is `handle_packet_meta`, which only counts packets and may stop
before the file's end. A frame is its kind, its header tick and its snapshot's
server tick. All comparisons are over files that walk to their end: a file cut
off inside a frame ends every walk at the same frame.

### Wire and NetPass

The server (external) is a map from slots to connections, with a name and a neo
name each, and one convar. Between two packets up to `MaxChanges` things happen
(`Happen`): a client connects, disconnects, renames, sets a neo name or dies, or
the convar is set. `RecordSignon`, `RecordDump` and `RecordPacket` record frames;
a packet holds the events fired and the userinfo entries that changed, in either
order. A SourceTV recording holds neither connects nor renames as events
(ARCHITECTURE.md:123-141), and the proxy is a client of it. Each frame goes to
the pass at once: `ReadFrame` is `walk_packet`, and one `Take...` action is one
arm of `on_frame` on the message in front.

| code in `net.rs` | definition |
|---|---|
| `on_frame` for a string table dump | `RecordDump` |
| `walk_packet`, the warning of a packet that breaks off | `ReadFrame`, `WalkPacket` |
| `on_set_convar` | `TakeSetConVar`, `SameTickRows` |
| the event list; `on_game_event` | `TakeEventList`; `TakeGameEvent` with `AddPlayer`, `RenamePlayer` |
| create and update of string tables | `TakeCreateTable`, `TakeUpdateTable` |
| `on_userinfo` | `OnUserinfo` |
| `slot_holder`; `SlotOwners` | `SlotHolder`; `SlotOwners`, `SteamidAt` |
| `apply_neo_names` | `NamesGiven`, `NeoNameOf` |
| deaths missing from the roster | `DeathsMissingFromRoster` |

`truth` holds what the server held at each packet. `MaxErrors` frames may hold a
message that cannot be read, anywhere in them, and an update of the userinfo table may
not parse, while the warnings are fewer than `MaxErrors`.

### EntityPass and InferredHits

The game (external) has players and weapons under entity ids that are used
again. It turns players, hurts them, has them switch weapons, spawn, leave and
join, and moves the recorder of a client's recording in and out of sight. A
packet (`RecordPacket`) updates what entered, changed, left the view or was
deleted, in the order of the ids: `inbox` has the updates not yet taken, and
`TakeUpdate`, `TakeGone` and `TakeOther` are `apply_entity` on the next one (`Id`,
`Class`). Spawns of one player are at least `RespawnTime` ticks after a death, so
that two deaths of a player are further apart than their events can be from their
packets (`2 * DeathWindow < RespawnTime`). Death events reach the net pass up to `DeathWindow`
ticks after the packet with the drop. Where a player stands and looks is one
property, the player aimed at: which of several aims is closest is geometry, and
`Hits` leaves the choice open. `InferSample` is one turn of the loop in `infer`.

`Wounds` adds a history to it: who was damaged and who spawned since a packet last
showed them. `infer` compares health with the last sample of the entity id, whoever
that was, so the samples alone cannot say whether a drop is damage.

### Alive

The game (external) kills, respawns and disconnects players, lets others take
their slots and moves players between teams. Once in `Period` ticks, before or
after what else happens on that tick, it reads the slots into the player
resource (`Refresh`), and a packet up to `Delay` ticks later shows what was read
(`Tick`, `Show`). When the recording ends, `TakeDeath`, `TakeRow` and
`TakeLastDeath` are the merge in `slot_changes`, a slot at a time, and `Count`
the sum `counts` keeps. `TeamAt` is `place_teams` over the same rows. What the game is held to, and the code relies on:

- the resource trails the game by `Period + Delay` ticks, at most `ResourceLag`
  (`alive.rs:21-24` gives 7, one packet and 10; the instances use 2, 1 and 3);
- a life lasts longer than that lag, or it may never be shown;
- rounds start more than `ResourceLag` apart, nobody spawns late within
  `ResourceLag` of a round start (such a spawn is moved back to it, as
  SCHEMA.md says of every respawn a round start is behind), and a joining player
  needs longer than that to load;
- nothing happens before the recording's first rows, a slot has one event a
  tick, a round start respawns every connected player, and nothing else
  respawns players who died;
- the resource's death counts are not reset during the recording.

## What the runs check

`dumper` (two slots, two runs, one failing statement, one kill; command lines
with a copy, an id collision, a file whose header does not parse, a missing
file, a demo that `--last-round` cuts, one it leaves whole and one it cannot
cut):

- `WholeDemosOnly`: every committed state holds whole demos only, also those
  parsed with `--last-round` or `--omit`.
- `ExitOkMeansStored`: after exit status 0 every file named is in the database.
- `OneBadDemoSparesTheRest`: whatever fails, the other demos of the command
  line are stored, unless the failure came from outside the program.
- `ImplementsArchive`: the refinement above.

`dumper_power` repeats the refinement with a power loss and checkpoints, fewer
command lines, and fairness, and checks that every run ends (`EveryRunEnds`). With
no power loss (`dumper`) the archive never loses a demo; `Lossy` of `DemoArchive`
says which.

`announcements` skims recordings of up to four packets on three ticks, in any
order, with zero to three threads, which gives chunks of one, two and four
packets and a short last one. `SameForAnyThreads` says that neither the number
of threads nor their speed shows in the result, on equal ticks too;
`EveryTextKept` that dropping resends loses no text.

`recorded_match` plays matches of up to three round numbers and seven events,
enough for a joined round, a whole one, a pause or restart and a cut-off one, in
which the ghost changes hands up to three times. Its other initial states are
every recording of up to two start markers and three ends on three ticks, in any
order of the ends and with equal ticks, whatever match they could come from; two
marks of each kind give every shape the loop distinguishes (an end before, on and
after a start; an aborted round; an end without a start; two ends in a row), the
third end a closed round between. Events of the match are `Gap` = 2 ticks apart, more
than `EndWindow` = 1, as real ones are seconds apart and `END_WINDOW` is two ticks, so
that no other event's changes fall into the window around a round's end. Deadlock is not checked: a match whose
recording never starts stops at the bound.

- `EveryMarkInOneRound`: no start and no end is lost or used twice.
- `NoOverlap`: the rounds are in tick order and do not overlap.
- `PlacesInOrder`, `PlacedInItsRound`: `place` never moves back as ticks grow,
  and every tick from a round's start to its end is placed in it.
- `CutSparesWhatItKeeps`: `--last-round` keeps exactly rounds that lie before
  its cut tick, and every tick before the cut is placed as it was before.
- `RoundsAsPlayed`: the rounds found are those played, each with its number, start
  and end as far as the recording can tell.
- `KeptAsAsked`: `--last-round N` keeps no row of a round played after round N, and,
  when the match was not restarted, every round up to N, replays after a pause
  included.
- `HoldsAsCarried`: the holds are the stretches players carried the ghost in, each
  with its end and round, over aborted rounds, ties, joined and left recordings.
  Left out are a recording that misses a round's end, and the carrier that the
  first snapshot after a round's end still names (`stale`): `holds` has a hold from
  there to the next round that nobody had, which SCHEMA.md:484-486 does not speak of.
- `CapturersAsPlayed`: a round has a capturer exactly when a capture ended it, and
  it is the player who brought the ghost, whether or not the game cleared the
  carrier on that tick.

`demo_clock` records files of up to four frames of every kind, starting at a
server tick well above the header's, with a client that skips or repeats a tick
anywhere. Four frames give a snapshot that sets a correction, two that outvote
it, and a frame between them.

- `SnapshotsOnServer`: whatever the client's clock does, snapshots are as far
  apart as on the server, but for those drawn together at tick 0.
- `AfterItsSnapshot`: what follows a snapshot is not walked before it.
- `WalksAgree`: the frame walk and the entity pass give every packet one tick.

`alive` plays one slot for nine ticks with up to two changes that no event tells
of: long enough for a death just before a round start, the respawn, and a second
death, with every refresh shown at once or late. One slot is enough for the merge,
which takes the slots one by one; the counts of more slots are sums over them.

- `ChangesInOrder`: a slot's changes keep their order although deaths and
  respawns are moved back from the rows that show them.
- `CountsFollowGame`: on every tick from the first rows on, both teams' counts are
  those of the game, except within the lag of a change without an event.
- `DeathTeamsAsPlayed`: a death has the team its player was on, although the rows
  trail a change of team and keep the last team of a slot whose player left.

`net_pass` records up to three packets of a server with two slots, three changes
and one frame or userinfo update that cannot be read: enough for a slot that passes on between two
packets with something said by or of either player, or a connection that begins
and ends unseen. The userinfo table is the first or the second table.

- `HoldersRight`: whoever is in a slot when a packet is sent holds it on that tick,
  by `slot_holder` and `SlotOwners` alike.
- `RowsAreConnections`: a roster row has its own connection's slot and begins no
  later than the connection shows, and nobody else's data, even where a frame was
  lost; in a client's recording it has the latest name.
- `LateJoinersKnown`: unless a frame or an update was lost, every userid in a death has a row.
- `NeoNamesTheirOwn`: a neo name never reaches the slot's player before or after.
- `CvarsAsServed`: the last row by a tick is the server's value, and no tick has two.

`inferred_hits` runs `Wounds`: two enemies and three weapon ids for up to nine ticks
with three changes, a hit, a death and the next life, or a weapon id used twice with
a shot after it. One of the weapons may be a ghost.

- `SamplesAsShown`: a player's last row by a packet's tick is the player as that
  packet showed them, or says they are out of view.
- `WeaponsTheirOwn`: a row names the weapon held, never one that had its id before.
- `HitsAreDrops`: one hit for each drop of health a packet shows on an entity id, of
  a player on a team, with its damage, and none for a rise, a departure, a return to
  view with no less health, or an arrival on no team. A drop counts whoever had the
  id before.
- `AttackersFound`: a drop to death has the killer of that death and of no other,
  and any other hit on a player at whom an enemy in view keeps aiming has an
  attacker.
- `WoundsAreHits`: unless a player spawned since they were last shown, a packet has
  a hit on them exactly when they were damaged since then, over deaths, re-entries,
  departures, and the next player on the entity id. For players who did spawn it is
  false, as said below.

Every bound is a constant named in the module that uses it: `MaxRuns`,
`MaxFaults`, `MaxKills`, `MaxLosses` in `Dumper`, `MaxPackets` in
`Announcements`, `MaxTick` in `Rounds` and `RecordedMatch`, `Numbers` and
`LastRounds` in `RecordedMatch`, `MaxTakes` in `GhostHolds`, `MaxFrames` in
`DemoClock`, `MaxTick` and `MaxLate` in `Alive`, `MaxTick`, `MaxChanges` and
`MaxErrors` in `NetPass`, `MaxTick` and `MaxChanges` in `EntityPass`. Teams are
interchangeable in `Alive`, so its run uses them as a symmetry set; the other runs
are left unreduced (the largest, `recorded_match` and `alive`, have about six
million states). The runs of `Dumper` turn deadlock checking off because the
system stops when the last run the bound allows is over, those of `NetPass`,
`InferredHits` and `Wounds` because a recording stops at its last tick, `recorded_match` as
said above.

### Where the code does something else than it says

Four runs show a disagreement, each with a trace of a few steps:

- `dumper_refused`: a run killed between the schema batch and
  `PRAGMA user_version` (`sqlite.rs:448-449`) leaves a file with a demos table
  and version 0, which the next run of the same build refuses as written by
  another version, and so any after it. Runs go one at a time here (`SerialSpec`),
  so that the trace is the one with the kill; a run that opens the file while
  another is between the two statements is refused too, once. A single transaction
  around the two would close both.
- `dumper_two_builds`: two builds of different versions that open one *new*
  file at the same time both pass the check and both stamp it. The trace ends with
  a demo of the first build under the stamp of the second; nothing keeps the second
  from adding its own.
- `net_pass_renamed`: `on_userinfo` keeps the row of a userid it knows, so a name in
  a repeated userinfo entry is dropped. A SourceTV recording has no
  `player_changename`, so its `players.name` is the first name, although
  SCHEMA.md:171 says "the latest if they renamed".
- `inferred_hits_gone`: the last sample of a player stays a candidate whatever its
  `in_pvs`, so a player who left the server, or died out of the recorder's view,
  can be given a hit. SCHEMA.md:729-730 says "the living enemy whose aim points
  closest at the victim on that tick".

Three more were met while modelling and are described here only. `dedup`
(`announcements.rs:131`) compares a text with the last one it kept and with no
other, so of "A, B, A again" within three seconds the resend stays, although its
comment says repeats are dropped. And when a snapshot is clamped to tick 0
(`clock.rs:129`), `ClockedFrames` goes on with the clamped correction and
`Clock::new` with the one before the clamp, so of two frames with one
header tick the second can be walked at an earlier tick. Third, a living player who
spawns in a class with less health has an inferred hit of the difference, although
nobody damaged them, and so has the next player on an entity id whose arrival the
recorder did not see: `infer` makes a hit of every drop of health, as
SCHEMA.md:727-728 says, and never clears the state it compares with
(`inferred_hits.rs:120`), although the table is "Who dealt each point of damage"
(SCHEMA.md:725). `WoundsAreHits` without its exception for who spawned is violated so.

Three behaviours the models allow are not findings, as nothing says otherwise:
when two runs are given the same file at once, the second fails on the key of
`demos` rather than skipping; a demo whose 44-bit id is taken fails, as
`identity.rs` says it should; and a recording that begins in round 2 of a match
that is then restarted is refused with `--last-round 1`, although it holds a
round 1, because the first round it holds is a later one.

### Fairness

Only `dumper_power` needs any: weak fairness of `Step(p)`, each process's own
next statement. The operating system schedules live processes, and a process
waiting for the write lock gets it once the holder commits, rolls back or ends,
or else meets the busy timeout, which is one of `Fault`'s errors and never
obligatory. Weak fairness is enough because in the model a holder's release is
never followed by an endless run of others taking the lock: the number of runs
is bounded. Starting, killing and failing are never fair.

## What is proved

Eight modules hold proofs, each about every value of the constants that satisfies
the assumptions named in the module it is about. Most properties are not inductive
as the runs state them; what is added, and why, is told here by component. The
properties themselves were checked by TLC first.

### Dumper: `DumperProofs`

For any processes, files, tables, options and bounds that satisfy
`DumperAssumption` and `DemoRowsAssumption`:

- `TypeCorrect`: `Spec => [](TypeOK /\ FileRead)`. `FileRead` says that a process
  past `find_demo` works on a file it could read; without it the types of the
  rows it writes could not be known.
- `WholeDemos`: `Spec => []WholeDemosOnly`.
- `OneVersion`: `SerialSpec => []OneVersionPerFile`, where `SerialSpec` starts a run
  only when no other is under way. `dumper_two_builds` shows why it needs that.
- `ArchiveImplemented`: `Spec => ImplementsArchive`, the refinement of `DemoArchive`,
  in which no demo is lost where `MaxLosses` is 0.
- `ExitOk` and `SparesTheRest`: `ExitOkMeansStored` and `OneBadDemoSparesTheRest`.

`WholeDemosOnly` says nothing of open transactions, and a commit publishes one. The
inductive invariant `IInv` adds two conjuncts. `LogSound` strengthens wholeness in
every committed state by the uniqueness of the two keys of `demos`. `TxnsSound` says
what each writing process holds: the committed database it started from, which
nobody else can have changed while it holds the lock, plus its own demo with
exactly the rows of the tables written so far (`PartRows`), and after the cut the
whole demo. The proof has one step per action; those that write (`InsertDemo`,
`InsertRows`, `CutAt`) have lemmas of their own, and `OtherDemos` carries the frame:
rows of one demo never touch another's, because ids are keys.

`OneVersionPerFile` is not inductive either: a run between its check and its
commit holds what it has read. `VInv` adds that every committed database is
`Versioned` (demos only under a stamp, and all of that version), that one process
is under way at most (`Alone`), and what that process may rely on at each label
(`Claim`): past the check the file has no demos table or is stamped with its own
version, and past the stamp both it and the open transaction are its own. A fault,
kill or power loss breaks no claim: each ends the run, or leaves it in `fail`, and
the file at a committed database.

For the refinement, `AInv` adds to `IInv` that one process writes at most, that a
transaction past its demo row is what is committed now plus that one demo
(`Pending`), and that no commit takes a demo back (`LogGrows`). In a sound database
the demos table alone decides the archive (`EntryOf`), so `Commit` maps to storing
one demo, `PowerLoss` to losing the demos of the log's tail, and every other step
to a stutter.

For the exit status, `EInv` says of each process that the demos counted so far are
stored unless they failed (`Counted`), that one fails without an outside failure
only if it cannot be extracted or is stored already (`FailedRightly`), which holds
because `parse_one` finds no transaction open, whatever the demo before it did, and
that a run that has exited by itself has counted its whole command line (`Exited`).
All three speak of the time before a power loss, as the properties do.

### Rounds: `RoundsProofs`

For any set of recordings that satisfies `RoundsAssumption` (well-typed, start
markers in tick order as the announcements are; ends in any order), of any length:

- `TypeCorrect`: `Spec => []TypeOK`, which includes that a numbered round is never
  without a number.
- `RoundsApart`: `Spec => []NoOverlap`.
- `MarksAccounted`: `Spec => []EveryMarkInOneRound`.
- `CutSpares`: `Spec => CutSparesWhatItKeeps`, an action property.
- `PlaceNeverBack`: `Spec => []PlacesInOrder`. This one needs types alone: the
  rounds not over at a tick are among those not over a tick earlier, so the first
  of them only moves on.
- `PlacedWithin`: `Spec => []PlacedInItsRound`.

`NoOverlap` does not look at the marks still to come. The inductive invariant `RInv`
adds that both queues are in tick order (`Queued`) and that every round found so
far, the open one with them, has a mark and lies before every mark in the queues
(`AllBefore`). "Has a mark" is what makes the last step of `derive` safe: a first
round without a start has an end, the freeze tick it is given is no later than that
end, and the end comes before the next start. `PlacedWithin` needs in addition that
a round without an end is followed by one with a start (`CutOffByStart`), since
`place` takes that start for its end. `MarksAccounted` adds to the
property where a round's fields come from, that an open round has no end yet, and
that no start is used before the merge (`MarksKept`); how many marks the first
rounds hold is counted by lemmas on `CountTo`. `CutSpares` follows from `RInv`: the
cut tick is the start of the first round left out, and all kept rounds lie before it.

### RecordedMatch, GhostHolds and Captures: `RecordedMatchProofs`

For any match and any recording of it, of any length, with any `--last-round` options,
any holders of the ghost and any zones, every invariant that `recorded_match` checks of
a match is proved, under the run's own `CapturesSpec`: `RoundsFound` (`RoundsAsPlayed`),
`LastRoundKept` (`KeptAsAsked`), `HoldsRight` (`HoldsAsCarried`) and `CapturersRight`
(`CapturersAsPlayed`). The first two hold under `MatchSpec` as well. `MInv` adds two
conjuncts to the types.

- `Recorded` says what a recording holds of the match, until `derive` has cut it up:
  the rounds played follow each other in tick order, and each but the last was followed
  by one that was heard (`PlayedInTurn`); the start markers are the heard rounds, one
  each (`StartsRecorded`); the first freeze is that of the first round shown
  (`FreezeRecorded`); results and win texts come in tick order, each from the end of a
  round played (`EndsRecorded`).
- `DeriveInv` says how far `derive` is. While it merges (`Merging`), the rounds closed
  are the first of those found, the open one is the next of them, and the marks left
  are those of the rest; then all are merged (`AllMerged`), numbered (`AllNumbered`),
  and with the freeze of a joined round they are `AsPlayed`.

The hard step is a mark: an end closes the open round if it is that round's, and
makes a first round by itself if the recording joined mid-round; a start leaves the
open round without an end. That the j-th found is the j-th closed is a count
(`FoundBy`), kept by lemmas on cardinalities. `KeptAsAsked` then follows from the
order of the rounds and the choice of the cut (`CutKeeps`). A cut leaves the rounds
played up to its tick (`Left`).

For the holds, `GhostInv` adds what the changes of the carrier say of the stretches:
the changes come in tick order and the last one names who carries the ghost now
(`CarrierKnown`); each stretch began with a change within its round and ended with
the next change or with its round, whichever came first, and each change to a player
but a stale one began a stretch (`Stretches`). What remains is that both lookups of
`holds`, `place` and the one for the round's end, find the round in which the change
was made (`PlacedInside`). They find it because the rounds left are those played, in order
and apart; a ghost carried in a round of which neither start nor end was recorded
has no round to find.

For the captures, `ZoneInv` adds that the changes of the zones, looked up at any tick
from now on, say which are lit (`ZonesKnown`), and that all a round's end will be asked
about is fixed as soon as it happens (`EndKnown`): all zones were lit before the window
around it, they are off after it if a capture ended the round, and then its carrier is
the captor. Nothing later changes the answer, because the next event lies
past the window (`EndWindow < Gap`).

### Announcements: `AnnouncementsProofs`

For any packets of any length and any number of threads: `TypeCorrect` (`TypeOK`),
`SameAnnouncements` (`SameForAnyThreads`) and `TextsKept` (`EveryTextKept`). The
invariant `IInv` says that a worker has found exactly what is said from its chunk's
start up to its first packet not skimmed (`Workers`), and that the workers joined so
far have found what is said up to the end of the last one's chunk. That the chunks
share out the packets among no more workers than threads is arithmetic on
`div_ceil`. For `TextsKept`, the sort is a permutation by ranks, and `Dedup` keeps
an answer for every announcement before the one at hand (`KeptOnes`); the fold is
unfolded by induction over the naturals with the least counterexample, because the
library's induction theorem is out of the prover's reach.

### DemoClock: `DemoClockProofs`

For any pace of the server, skew of the client and files of any length: `TypeCorrect`
(`TypeOK`), `AfterSnapshots` (`AfterItsSnapshot`), `SnapshotsKeepDistance`
(`SnapshotsOnServer`), `MostStay` (`MostKeepHeader`: no shift would leave more
snapshots on their header tick; proved only, TLC does not run it) and `OneTickPerPacket`
(`WalksAgree`). `CInv` says what a recorder can have written (`Recorded`: header
ticks never go back, and neither do the server's), that `Clock::new` gave each packet
its retimed tick (`Clocked`), and that the frame walk has done the same for the
packets so far (`Walked`) with a correction in force that takes no later frame before
the start or the last snapshot walked (`Carried`). Both walks then agree because both
agree with `Retimed`.

### Alive: `AliveProofs`

For any slots, teams, lags and games of any length that satisfy `AliveAssumption`,
every invariant of the run `alive` is proved: `TypeCorrect` (`TypeOK`), `OrderKept`
(`ChangesInOrder`), `TeamsRight` (`DeathTeamsAsPlayed`) and `CountsRight`
(`CountsFollowGame`).

`SInv` adds to `ChangesInOrder` only that `latest` is the last change written
(`LatestIsLast`). `TInv` is about the game before the merge: when the resource was
last read (`ReadOnTime`), that a slot's rows are in tick order and past (`RowsPast`),
and that what was read and what was shown have the slot's team unless it changed since
without an event (`TeamsTrail`), which for every tick gone by is kept as
`TeamsTrailed`. It is enough for the teams of deaths.

For the counts, the invariant `CInv` adds what becomes of each slot and how far
`slot_changes` has caught up with it:

- `GInv`, about the game: for each slot (`Tracked`) the tick-by-tick story of its
  player (`History`: a slot changes at an event or is in `late`, a death count goes up
  by one a death, who spawned lives through `ResourceLag`), and which of it the
  rows show (`Reading`: each row is the slot as it stood at a refresh at most `Delay`
  ticks before, and the last row by any tick is as new as a refresh `Period + Delay`
  ticks before it).
- `AtWork`, about the slot in hand: after any number of rows and deaths, `latest` is
  what became of the player by then (`Midway`), and the changes written are right for
  every tick before the next row and the next death, save that a spawn may have still
  to be shown by the next row (`Caught`, `Pending`).
- `Finished`: a slot gone through has the right last change on every tick (`Right`).

The hard step is the row. `StaleHidden` shows that a row is taken for stale exactly
when it was read before the last death: the row is within `ResourceLag` of the death
and its death count has not gone up, and neither holds by itself. A row passed over
shows nothing that is not in the changes already (`StaleCaught`). A row that shows a
respawn was read after it, and a round start within `ResourceLag` behind the row is
that spawn's own, because round starts are further apart than that, unless the slot
changed without an event shortly before (`StartPushed`). That a death is counted on its
own tick although every row trails it is `DeathCaught`.

### NetPass: `NetPassProofs`

For any slots, names, orders of the string tables and recordings of any length,
which satisfy `NetPassAssumption`, every invariant of the run `net_pass` is proved:
`TypeCorrect` (`TypeOK`), `HoldersAreRight` (`HoldersRight`), `RowsAreTheirConnections`
(`RowsAreConnections`), `EveryDeathKnown` (`LateJoinersKnown`), `NeoNamesAreTheirOwn`
(`NeoNamesTheirOwn`) and `ConvarsAreServed` (`CvarsAsServed`).

- `Base`: types, what a frame being read can hold, and that an update of the userinfo
  table, once decoded, names players of the packet. The decoding of relative indexes
  (`IndexesRead`) is proved the inverse of their encoding.
- `Ownership`: there is one map from userids to slots, and one set of the proxy's
  userids, that everything in sight agrees with: clients, packets, roster, queued
  events. It makes userids unique in the roster.
- `Later`: whoever follows a player in a slot is first seen after every packet that
  player was in. Like the two above it holds whichever frames broke off.
- `Whole`, for recordings read without a warning: the pass counts the
  tables as the server does (`Tables`), knows or is about to read of everyone in a
  packet (`Everyone`), sees no one late (`Seen`) and all in the order of their userids
  (`Ordered`), and only known players die (`Deaths`). From `Seen`, `Ordered` and
  `Later` the last to arrive on a slot by a tick is who held it.
- `Names`: in a client's recording the renames queued lead from the name last shown
  to the present one, and those still to be read from the roster's name to the one
  last shown.
- `Served`: likewise for the convar's values, from the last row to the last packet to
  the server, and each earlier packet has its row; `RowsInOrder` is what lets
  `on_set_convar` look at the end of the rows only.
- `NeoRows`: a name in a packet has a row of that packet, or the same connection had
  it in the packet before. With `HoldersRight` a row is given to its own player, and
  the last row of a player is no older than the one behind the name last shown.

### EntityPass and InferredHits: `InferredHitsProofs`

For any players, weapons, teams and games of any length that satisfy
`EntityPassAssumption`, every invariant of the run `inferred_hits` but
`WoundsAreHits` is proved:
`TypeCorrect` (`TypeOK`), `SamplesShow` (`SamplesAsShown`), `WeaponsNamed`
(`WeaponsTheirOwn`), `OneHitPerDrop` (`HitsAreDrops`) and `AttackersFoundAlways`
(`AttackersFound`).

- `GameInv` is about the game and its recording: types, and what any world is like
  (`World`: who lives has a weapon out of their own); packets in tick order (`Ticks`);
  one serial is one entity, of one kind, there without a break (`Serials`); deaths of
  one player at least a respawn apart (`DeathsApart`); and each death event within the
  window of its own death, none missing (`DeathEvents`).
- `PassInv` is about the pass between two updates of a packet. An update not yet taken
  leads from what the packet before showed to what this one does (`Updates`). An entity
  is as far as the packet before while its update is in the inbox, and as far as the
  last packet otherwise (`TakenTo`). Up to there the pass has of each player what was
  last shown of them (`Known`), of each weapon in sight its class (`Classed`), and the
  rows say so of every packet (`Carried`, `Named`). A player has one row a packet
  (`SampleTicks`).
- `HitsOK` is about `infer`: it has the last row before this one of each player, and
  its hits are those of the rows so far that are drops, one each, attributed by the
  rows and deaths at hand. That a drop of the rows is a drop of what the packets
  showed follows from `Carried` at the packet of the row and at the one before; that
  the death event found is the right one from `DeathsApart`.

The attempt to prove `DeathsApart` showed a gap in the game as it was written before: a
player who spawned and died again between two packets did not have to wait for
`RespawnTime`. The bounds of the runs were too small to reach it.

### How the modules were written for it

A few definitions have the form they have because of the prover: `Dedup` of
`Announcements` and `EntryIndex` of `Wire` hold recursive functions; `DemoClock`
counts packets by the cardinality of a set (`PacketsTo`) and finds the n-th by choice (`PacketAt`); `Wire`
leaves out the messages a packet skips and `NetPass` puts slots in order
(`Ascending`) by cardinalities, and so does `RecordedMatch` the rounds to find
(`ToFind`); `NamesGiven` is a set of its own; the inbox of
`EntityPass` is a function of the entity, of which the least one is next; the holds
of `GhostHolds` are a function of the change they began with, and `Captures` looks
changes up by their indexes instead of filtering sequences. TLC checks
the same definitions.

## What is only model-checked

- `EveryRunEnds`: liveness under fairness is out of the prover's reach.
- `WoundsAreHits`: `OneHitPerDrop` proves that the hits are the drops shown; that the
  drops are the damage relates them to a history kept beside the game, and is checked
  for the bounds of `inferred_hits` only.

## What is not modelled

- Bit layouts: how many bits a net message, a string table entry, a player info, a
  frame header or a user command takes, and the vendored parser. They are pure
  functions of a buffer, covered by the repository's unit tests. `Wire` keeps what
  decides rows: where a packet breaks off, relative entry indexes, cleared entries.
- Rows that are one event's or one property's fields and nothing else: chat, round
  results, the ghost's positions, the game type, the damage accumulator, POV
  samples, console commands, recorder inputs. `InsertRows` stands for their insert.
- Single lookups by tick: `place_deaths`, `mark_teamkills`, `place_ghost_spawns`, the
  userid of a hold or a capturer (`SlotHolder` is the lookup).
- The recovered reason of a round's end (`rounds.rs`): text and counts around an end
  that decide the reason column only. A losing player whose last sample was taken
  out of view counts by that sample, as in `inferred_hits_gone`.
- Zones and ghosts that are deleted, and entities deleted out of view, which are in
  a list the pass does not read.
- Columns other than demo, table and tick in `Dumper`; the command line's parsing,
  an `--omit` list that names no table, log lines; SQLite itself beyond what is
  listed above.

## Plan

- A server that resends texts, in front of `Announcements` composed with `Rounds`:
  when a resend becomes a round, and when a restart is lost as one.
- Zone changes that reach the recording a packet before or after the round's end,
  which is what `END_WINDOW` is for; here they come with it.
