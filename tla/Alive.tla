------------------------------- MODULE Alive --------------------------------
(***************************************************************************)
(* The living player counts (extract/alive.rs) behind the game whose       *)
(* player resource they are read from (external).                          *)
(*                                                                         *)
(* The game reads every slot's state into the resource once in Period      *)
(* ticks, before or after what else happens on that tick, and a recording  *)
(* shows what was read up to Delay ticks later, one row per slot that      *)
(* changed.  slot_changes turns a slot's rows, the deaths of its players   *)
(* and the round starts into changes; counts sums them up per team.        *)
(***************************************************************************)
EXTENDS Integers, Sequences, FiniteSets, FiniteSetsExt

CONSTANTS
  Slot,          \* the slots of the resource
  Team,          \* TEAMS
  None,          \* Rust's None
  ResourceLag,   \* RESOURCE_LAG
  Period,        \* ticks from one refresh of the resource to the next
  Delay,         \* ticks from a refresh to the packet that shows it, at most
  JoinTime,      \* ticks a joining player needs to load, at least
  MaxTick,       \* bound: the recording's last tick
  MaxLate        \* bound: changes that no event tells of

\* What a ResourceSample says of its slot.
State == [team : Team, alive : BOOLEAN, connected : BOOLEAN, deaths : Nat]
Sample == [tick : Nat, state : State]
Change == [tick : Nat, team : Team, alive : BOOLEAN]

ASSUME AliveAssumption ==
  /\ {ResourceLag, Delay, JoinTime, MaxTick, MaxLate} \subseteq Nat /\ Period \in Nat \ {0}
  /\ Period + Delay <= ResourceLag /\ ResourceLag < JoinTime
  /\ None \notin Nat \cup Team \cup Change \cup [tick : Nat, count : Nat]

VARIABLES
  now,       \* the game's tick
  slots,     \* slots[s]: the state of the slot in the game
  since,     \* since[s]: the tick of its last spawn, leave or change of team
  read,      \* what the resource holds
  readAt,    \* the tick it was read on
  shown,     \* the recording shows what was read
  rows,      \* rows[s]: the resource samples of the slot
  deaths,    \* deaths[s]: the ticks its players died on
  starts,    \* the round starts' ticks
  truth,     \* truth[t]: the slots' states at the end of tick t
  late,      \* late[t]: the slots with a change no event tells of, by tick
  pc,        \* "game", then "slot", then "done"
  todo,      \* the slots slot_changes was not called for yet
  i,         \* the row slot_changes takes next
  d,         \* the death it takes next
  latest, lastDeath, deathCount,   \* as in slot_changes
  changes    \* changes[s]: the slot's changes so far

game == <<now, slots, since, read, readAt, shown, rows, deaths, starts, truth, late>>
slotVars == <<todo, i, d, latest, lastDeath, deathCount, changes>>
vars == <<game, pc, slotVars>>

Living(st) == st.alive /\ st.connected

-----------------------------------------------------------------------------
(* The game                                                                *)

\* One event a tick for a slot keeps its order within the tick out of it.
Fresh(s) == since[s] # now /\ ~(\E k \in 1..Len(deaths[s]) : deaths[s][k] = now)

\* A life shorter than a refresh and its delay may never be shown.
Shown(s) == Living(slots[s]) => now - since[s] > Period + Delay

Kill(s) ==
  /\ Living(slots[s]) /\ Fresh(s) /\ Shown(s)
  /\ slots' = [slots EXCEPT ![s].alive = FALSE, ![s].deaths = @ + 1]
  /\ deaths' = [deaths EXCEPT ![s] = Append(@, now)]
  /\ UNCHANGED <<since, starts, late>>

StartRound ==
  /\ \A k \in 1..Len(starts) : now - starts[k] > ResourceLag
  /\ \A s \in Slot : Fresh(s)
  /\ starts' = Append(starts, now)
  /\ slots' = [s \in Slot |-> IF slots[s].connected THEN [slots[s] EXCEPT !.alive = TRUE] ELSE slots[s]]
  /\ since' = [s \in Slot |-> IF slots'[s] # slots[s] THEN now ELSE since[s]]
  /\ UNCHANGED <<deaths, late>>

\* What happens to a slot without an event: its player leaves or changes
\* team, another joins and waits for the next round, a late joiner spawns.
Unannounced(s, st) ==
  /\ Fresh(s) /\ Shown(s)
  /\ Cardinality({l \in (0..MaxTick) \X Slot : l[2] \in late[l[1]]}) < MaxLate
  /\ slots' = [slots EXCEPT ![s] = st]
  /\ since' = [since EXCEPT ![s] = now]
  /\ late' = [late EXCEPT ![now] = @ \cup {s}]
  /\ UNCHANGED <<deaths, starts>>

Leave(s) == slots[s].connected /\ Unannounced(s, [slots[s] EXCEPT !.connected = FALSE])

Join(s) ==
  /\ ~slots[s].connected /\ now - since[s] >= JoinTime
  /\ \E t \in Team : Unannounced(s, [team |-> t, alive |-> FALSE, connected |-> TRUE, deaths |-> 0])

SwitchTeam(s) ==
  \E t \in Team \ {slots[s].team} : slots[s].connected /\ Unannounced(s, [slots[s] EXCEPT !.team = t])

SpawnLate(s) ==
  /\ slots[s].connected /\ ~slots[s].alive /\ slots[s].deaths = 0
  /\ \A k \in 1..Len(starts) : now - starts[k] > ResourceLag
  /\ Unannounced(s, [slots[s] EXCEPT !.alive = TRUE])

\* The recording's first packets show the resource before anything happens.
Happen ==
  /\ pc = "game" /\ \A s \in Slot : rows[s] # <<>>
  /\ StartRound \/ \E s \in Slot : Kill(s) \/ Leave(s) \/ Join(s) \/ SwitchTeam(s) \/ SpawnLate(s)
  /\ UNCHANGED <<now, read, readAt, shown, rows, truth, pc, slotVars>>

Due == now % Period = 0 /\ readAt # now

Refresh ==
  /\ pc = "game" /\ Due /\ shown
  /\ read' = slots /\ readAt' = now /\ shown' = FALSE
  /\ UNCHANGED <<now, slots, since, rows, deaths, starts, truth, late, pc, slotVars>>

\* apply_resource: a sample of each slot that changed, and of those whose xp,
\* score or ping alone did.
Show(tick) ==
  \E other \in SUBSET Slot :
    rows' = [s \in Slot |->
      IF rows[s] # <<>> /\ rows[s][Len(rows[s])].state = read[s] /\ s \notin other THEN rows[s]
      ELSE Append(rows[s], [tick |-> tick, state |-> read[s]])]

\* A tick ends with a packet, which shows what was read or leaves it to a
\* later one.
Tick ==
  /\ pc = "game" /\ ~Due
  /\ \/ ~shown /\ Show(now) /\ shown' = TRUE
     \/ (shown \/ now < readAt + Delay) /\ UNCHANGED <<rows, shown>>
  /\ truth' = [truth EXCEPT ![now] = slots]
  /\ IF now < MaxTick THEN now' = now + 1 /\ pc' = pc ELSE now' = now /\ pc' = "slot"
  /\ UNCHANGED <<slots, since, read, readAt, deaths, starts, late, slotVars>>

-----------------------------------------------------------------------------
(* slot_changes                                                            *)

\* The slot slot_changes is at.
This == CHOOSE s \in todo : TRUE
Row == rows[This][i]
NextDeath == deaths[This][d]

\* The latest round start that tick trails, or None.
StartBehind(tick) ==
  LET behind == {starts[k] : k \in {k \in 1..Len(starts) :
                                      starts[k] <= tick /\ tick - starts[k] <= ResourceLag}}
  IN IF behind = {} THEN None ELSE Max(behind)

\* Mutant: the change is pushed and latest is left as it was.
OutForgotten(death) ==
  IF latest # None /\ latest.alive
    THEN LET c == [tick |-> Max({death, latest.tick}), team |-> latest.team, alive |-> FALSE]
         IN UNCHANGED latest /\ changes' = [changes EXCEPT ![This] = Append(@, c)]
    ELSE UNCHANGED <<latest, changes>>

\* A death takes a living player out, never before the change before it.
Out(death) ==
  IF latest # None /\ latest.alive
    THEN LET c == [tick |-> Max({death, latest.tick}), team |-> latest.team, alive |-> FALSE]
         IN latest' = c /\ changes' = [changes EXCEPT ![This] = Append(@, c)]
    ELSE UNCHANGED <<latest, changes>>

\* Deaths up to the row's tick come first.
TakeDeath ==
  /\ pc = "slot" /\ todo # {} /\ i <= Len(rows[This]) /\ d <= Len(deaths[This])
  /\ NextDeath <= Row.tick
  /\ lastDeath' = [tick |-> NextDeath, count |-> deathCount]
  /\ Out(NextDeath) /\ d' = d + 1
  /\ UNCHANGED <<game, pc, todo, i, deathCount>>

\* Mutant: a row that shows the player alive is never stale.
StaleNever(row) == FALSE

\* A row the server read before the death.
Stale(row) ==
  /\ Living(row.state) /\ lastDeath # None
  /\ row.tick - lastDeath.tick <= ResourceLag /\ row.state.deaths <= lastDeath.count

\* Mutant: a respawn may be moved back before the change before it.
ChangeTickUnordered(row) ==
  LET event == IF Living(row.state) /\ ~(latest # None /\ latest.alive)
                 THEN StartBehind(row.tick) ELSE None
  IN IF event = None THEN row.tick ELSE event

\* A respawn moves back to the round start behind it, if there is one.
ChangeTick(row) ==
  LET event == IF Living(row.state) /\ ~(latest # None /\ latest.alive)
                 THEN StartBehind(row.tick) ELSE None
  IN Max({IF event = None THEN row.tick ELSE event, IF latest = None THEN 0 ELSE latest.tick})

Known(row) ==
  latest # None /\ latest.team = row.state.team /\ latest.alive = Living(row.state)

TakeRow ==
  /\ pc = "slot" /\ todo # {} /\ i <= Len(rows[This])
  /\ d <= Len(deaths[This]) => NextDeath > Row.tick
  /\ deathCount' = Row.state.deaths /\ i' = i + 1
  /\ IF Stale(Row) \/ Known(Row) THEN UNCHANGED <<latest, changes>>
     ELSE LET c == [tick |-> ChangeTick(Row), team |-> Row.state.team, alive |-> Living(Row.state)]
          IN latest' = c /\ changes' = [changes EXCEPT ![This] = Append(@, c)]
  /\ UNCHANGED <<game, pc, todo, d, lastDeath>>

\* The deaths after the last row.
TakeLastDeath ==
  /\ pc = "slot" /\ todo # {} /\ i > Len(rows[This]) /\ d <= Len(deaths[This])
  /\ Out(NextDeath) /\ d' = d + 1
  /\ UNCHANGED <<game, pc, todo, i, lastDeath, deathCount>>

NextSlot ==
  /\ pc = "slot" /\ todo # {} /\ i > Len(rows[This]) /\ d > Len(deaths[This])
  /\ todo' = todo \ {This} /\ i' = 1 /\ d' = 1
  /\ latest' = None /\ lastDeath' = None /\ deathCount' = 0
  /\ pc' = IF todo' = {} THEN "done" ELSE pc
  /\ UNCHANGED <<game, changes>>

Done == pc = "done" /\ UNCHANGED vars

\* counts: the slots whose last change up to tick has them alive in team.
Count(team, tick) ==
  Cardinality({s \in Slot :
    LET upTo == {k \in 1..Len(changes[s]) : changes[s][k].tick <= tick}
    IN upTo # {} /\ changes[s][Max(upTo)].team = team /\ changes[s][Max(upTo)].alive})

-----------------------------------------------------------------------------
(* The teams of a death (extract/net.rs)                                   *)

\* A slot's team changes among its rows.
TeamChanges(s) ==
  {k \in 1..Len(rows[s]) : k > 1 => rows[s][k].state.team # rows[s][k - 1].state.team}

\* Mutant: the slot's latest team, whatever the tick.
TeamLatest(s, tick) ==
  IF TeamChanges(s) = {} THEN None ELSE rows[s][Max(TeamChanges(s))].state.team

\* place_teams: the team of the slot's last change by the tick.
TeamAt(s, tick) ==
  LET upTo == {k \in TeamChanges(s) : rows[s][k].tick <= tick}
  IN IF upTo = {} THEN None ELSE rows[s][Max(upTo)].state.team

-----------------------------------------------------------------------------

Init ==
  /\ now = 0 /\ starts = <<>>
  /\ slots \in [Slot -> [team : Team, alive : BOOLEAN, connected : {TRUE}, deaths : {0}]]
  /\ since = [s \in Slot |-> -JoinTime] /\ read = slots /\ readAt = -1 /\ shown = TRUE
  /\ rows = [s \in Slot |-> <<>>] /\ deaths = [s \in Slot |-> <<>>]
  /\ truth = [t \in 0..MaxTick |-> slots] /\ late = [t \in 0..MaxTick |-> {}]
  /\ pc = "game" /\ todo = Slot /\ i = 1 /\ d = 1
  /\ latest = None /\ lastDeath = None /\ deathCount = 0
  /\ changes = [s \in Slot |-> <<>>]

Game == Happen \/ Refresh \/ Tick
SlotChanges == TakeDeath \/ TakeRow \/ TakeLastDeath \/ NextSlot

Next == Game \/ SlotChanges \/ Done

Spec == Init /\ [][Next]_vars

-----------------------------------------------------------------------------
(* Properties                                                              *)

\* Every variable keeps its type, and latest is the slot's last change.
TypeOK ==
  /\ now \in 0..MaxTick /\ slots \in [Slot -> State] /\ read \in [Slot -> State]
  /\ rows \in [Slot -> Seq(Sample)] /\ deaths \in [Slot -> Seq(0..MaxTick)]
  /\ starts \in Seq(0..MaxTick) /\ pc \in {"game", "slot", "done"}
  /\ todo \subseteq Slot /\ i \in Nat /\ d \in Nat /\ deathCount \in Nat
  /\ latest \in Change \cup {None} /\ lastDeath \in [tick : Nat, count : Nat] \cup {None}
  /\ changes \in [Slot -> Seq(Change)]
  /\ latest # None => latest = changes[This][Len(changes[This])]

\* A slot's changes stay in tick order, although deaths and respawns are
\* moved back from the rows that show them (alive.rs:157).
ChangesInOrder ==
  \A s \in Slot : \A k \in 1..(Len(changes[s]) - 1) : changes[s][k].tick <= changes[s][k + 1].tick

\* The tick of the first rows, from which there are counts.
FirstShown == Min({rows[s][1].tick : s \in Slot})

\* No slot changed without an event since a refresh that tick may not show.
Settled(tick) ==
  \A t \in 0..tick : tick - t <= Period + Delay => late[t] = {}

\* The counts are the game's, on every tick: a death takes its player out on
\* its own tick and a round start brings the players in on its own, however
\* far the resource trails them.  Only changes without an event are late.
CountsFollowGame ==
  pc = "done" =>
    \A t \in 0..(MaxTick - Period - Delay) : FirstShown <= t /\ Settled(t) =>
      \A team \in Team :
        Count(team, t) = Cardinality({s \in Slot : truth[t][s].team = team /\ Living(truth[t][s])})

\* A death has the team its player was on, although the resource trails a
\* change of team and keeps the last team of a slot whose player has left;
\* only a change just before the death is missed (net.rs:394-396).
DeathTeamsAsPlayed ==
  pc = "done" =>
    \A s \in Slot : \A k \in 1..Len(deaths[s]) :
      LET t == deaths[s][k]
      IN FirstShown <= t /\ Settled(t) => TeamAt(s, t) = truth[t][s].team
==============================================================================
