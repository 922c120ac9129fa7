----------------------------- MODULE DemoClock ------------------------------
(***************************************************************************)
(* The server's clock for every frame (demo/clock.rs).  A recorder         *)
(* (external) writes a file whose frame headers carry the client's tick;   *)
(* Clock::new retimes its packets; the frame walk then takes each frame's  *)
(* tick from the clock, and the entity pass each packet's, by counting the *)
(* packets it meets.                                                       *)
(***************************************************************************)
EXTENDS Integers, Sequences, FiniteSets

CONSTANTS
  Uptime,      \* the server's tick when the recording begins
  Pace,        \* how many ticks may pass between two frames
  Skew,        \* how far the client may adjust its clock between two frames
  None,        \* Rust's None
  MaxFrames    \* bound: frames in a file

ASSUME DemoClockAssumption ==
  /\ Uptime \in Nat /\ Pace \subseteq Nat /\ Skew \subseteq Int /\ MaxFrames \in Nat
  /\ None \notin Int

VARIABLES
  file,        \* the frames recorded
  server,      \* the server's tick (external)
  client,      \* the recording client's tick (external)
  clock,       \* the ticks of Clock::packets
  ordinal,     \* ClockedFrames: the packets walked
  correction,  \* ClockedFrames: the correction in force
  walked,      \* the ticks of the frames walked
  seen,        \* the ticks the entity pass gave its packets
  pc

vars == <<file, server, client, clock, ordinal, correction, walked, seen, pc>>

Kind == {"signon", "packet", "other"}
\* server is a packet's net_Tick: a packet without one is no snapshot.
Frame == [kind : Kind, header : Nat, server : Nat \cup {None}]

IsPacket(f) == f.kind \in {"signon", "packet"}
IsSnapshot(f) == f.server # None

-----------------------------------------------------------------------------
(* The recorder                                                            *)

\* The client repeats and skips ticks but never goes back; a snapshot has a
\* tick of its own; the signon frames come first.
Record ==
  /\ pc = "record" /\ Len(file) < MaxFrames
  /\ \E k \in Kind, snapshot \in BOOLEAN, d \in Pace, a \in Skew :
       /\ k = "signon" => \A i \in 1..Len(file) : file[i].kind = "signon"
       /\ snapshot => k = "packet" /\ \A i \in 1..Len(file) : file[i].server # server + d
       /\ d + a >= 0
       /\ server' = server + d /\ client' = client + d + a
       /\ file' = Append(file, [kind |-> k, header |-> client',
                                server |-> IF snapshot THEN server' ELSE None])
  /\ UNCHANGED <<clock, ordinal, correction, walked, seen, pc>>

-----------------------------------------------------------------------------
(* Clock::new                                                              *)

\* The packets among the first i frames, and the frame of the nth packet.
PacketsTo(fs, i) == Cardinality({j \in 1..i : IsPacket(fs[j])})
PacketAt(fs, n) == CHOOSE i \in 1..Len(fs) : IsPacket(fs[i]) /\ PacketsTo(fs, i) = n

Snapshots(fs) == {i \in 1..Len(fs) : IsSnapshot(fs[i])}
Gap(f) == f.server - f.header

\* The most common gap of a snapshot, the smallest of those.
Base(fs) ==
  LET gaps == {Gap(fs[i]) : i \in Snapshots(fs)}
      Count(g) == Cardinality({i \in Snapshots(fs) : Gap(fs[i]) = g})
  IN IF gaps = {} THEN None
     ELSE CHOOSE g \in gaps : \A h \in gaps :
            Count(h) < Count(g) \/ (Count(h) = Count(g) /\ g <= h)

\* Mutant: only the first snapshot sets the correction.
CorrectionOnce(fs, i) ==
  LET first == {j \in Snapshots(fs) : j <= i /\ \A k \in Snapshots(fs) : j <= k}
  IN IF first = {} THEN 0 ELSE LET j == CHOOSE j \in first : TRUE IN Gap(fs[j]) - Base(fs)

\* The correction of the last snapshot up to frame i, 0 before the first.
Correction(fs, i) ==
  LET last == {j \in Snapshots(fs) : j <= i /\ \A k \in Snapshots(fs) : k <= i => k <= j}
  IN IF last = {} THEN 0 ELSE LET j == CHOOSE j \in last : TRUE IN Gap(fs[j]) - Base(fs)

\* Mutant: a tick before the recording's start is kept.
RetimedUnclamped(fs, i) ==
  IF fs[i].kind = "packet" THEN fs[i].header + Correction(fs, i) ELSE fs[i].header

\* Signon frames keep their header tick; no packet lies before tick 0.
Retimed(fs, i) ==
  IF fs[i].kind = "packet"
    THEN LET t == fs[i].header + Correction(fs, i) IN IF t < 0 THEN 0 ELSE t
    ELSE fs[i].header

ReadClock ==
  /\ pc = "record" /\ pc' = "walk"
  /\ clock' = [n \in 1..PacketsTo(file, Len(file)) |-> Retimed(file, PacketAt(file, n))]
  /\ UNCHANGED <<file, server, client, ordinal, correction, walked, seen>>

-----------------------------------------------------------------------------
(* The two walks                                                           *)

\* packet_tick, counting from 0.
PacketTick(n) == IF n < Len(clock) THEN clock[n + 1] ELSE None

WalkPacket(f) ==
  LET tick == IF PacketTick(ordinal) = None THEN f.header ELSE PacketTick(ordinal)
  IN /\ IsPacket(f)
     /\ walked' = Append(walked, tick)
     /\ ordinal' = ordinal + 1
     /\ correction' = IF f.kind = "packet" THEN tick - f.header ELSE correction

\* Mutant: frames other than packets keep their header tick.
WalkOtherUncorrected(f) ==
  ~IsPacket(f) /\ walked' = Append(walked, f.header) /\ UNCHANGED <<ordinal, correction>>

WalkOther(f) ==
  ~IsPacket(f) /\ walked' = Append(walked, f.header + correction) /\ UNCHANGED <<ordinal, correction>>

\* ClockedFrames::next.
WalkFrame ==
  /\ pc = "walk" /\ Len(walked) < Len(file)
  /\ LET f == file[Len(walked) + 1] IN WalkPacket(f) \/ WalkOther(f)
  /\ UNCHANGED <<file, server, client, clock, seen, pc>>

WalkEnds ==
  /\ pc = "walk" /\ Len(walked) = Len(file)
  /\ pc' = "entities"
  /\ UNCHANGED <<file, server, client, clock, ordinal, correction, walked, seen>>

\* Mutant: packets_seen is counted up before it is used.
EntityPacketLate ==
  /\ pc = "entities" /\ Len(seen) < PacketsTo(file, Len(file))
  /\ LET tick == PacketTick(Len(seen) + 1)
         f == file[PacketAt(file, Len(seen) + 1)]
     IN seen' = Append(seen, IF tick = None THEN f.header ELSE tick)
  /\ UNCHANGED <<file, server, client, clock, ordinal, correction, walked, pc>>

\* handle_packet_meta, at the next signon or packet frame.
EntityPacket ==
  /\ pc = "entities" /\ Len(seen) < PacketsTo(file, Len(file))
  /\ LET tick == PacketTick(Len(seen))
         f == file[PacketAt(file, Len(seen) + 1)]
     IN seen' = Append(seen, IF tick = None THEN f.header ELSE tick)
  /\ UNCHANGED <<file, server, client, clock, ordinal, correction, walked, pc>>

\* At the end of the file, or at a packet the parser cannot read.
EntityPassEnds ==
  /\ pc = "entities" /\ pc' = "done"
  /\ UNCHANGED <<file, server, client, clock, ordinal, correction, walked, seen>>

Done == pc = "done" /\ UNCHANGED vars

-----------------------------------------------------------------------------

Init ==
  /\ file = <<>> /\ server = Uptime /\ client = 0
  /\ clock = <<>> /\ ordinal = 0 /\ correction = 0 /\ walked = <<>> /\ seen = <<>>
  /\ pc = "record"

Next == Record \/ ReadClock \/ WalkFrame \/ WalkEnds \/ EntityPacket \/ EntityPassEnds \/ Done

Spec == Init /\ [][Next]_vars

-----------------------------------------------------------------------------
(* Properties                                                              *)

\* Every variable keeps its type; no frame is given a tick before the
\* recording's start (clock.rs:71-73).
TypeOK ==
  /\ file \in Seq(Frame) /\ server \in Nat /\ client \in Nat
  /\ clock \in Seq(Nat) /\ walked \in Seq(Nat) /\ seen \in Seq(Nat)
  /\ ordinal \in 0..PacketsTo(file, Len(file)) /\ correction \in Int
  /\ pc \in {"record", "walk", "entities", "done"}

\* The snapshots walked so far.
WalkedSnapshots == {i \in 1..Len(walked) : IsSnapshot(file[i])}

\* "shifted so most snapshots keep their header tick" (clock.rs:9): no shift
\* of the server's clock would leave more snapshots on their header tick.
MostKeepHeader ==
  pc = "entities" =>
    \A i \in WalkedSnapshots :
      Cardinality({j \in WalkedSnapshots : Gap(file[j]) = Gap(file[i])})
        <= Cardinality({j \in WalkedSnapshots : walked[j] = file[j].header})

\* However the client's clock skews, snapshots are as far apart as the server
\* took them; only what precedes tick 0 is drawn together there.
SnapshotsOnServer ==
  \A i, j \in WalkedSnapshots : i < j =>
    LET between == file[j].server - file[i].server
    IN IF walked[i] > 0 THEN walked[j] - walked[i] = between
       ELSE walked[j] \in 0..between

\* A frame that follows a snapshot is not walked before it.
AfterItsSnapshot ==
  \A i \in WalkedSnapshots, j \in 1..Len(walked) :
    i < j /\ (\A k \in WalkedSnapshots : k <= i \/ k > j) => walked[i] <= walked[j]

\* The entity pass, which only counts packets, gives each the tick the frame
\* walk gave it, so rows of the two passes meet on their ticks.
WalksAgree ==
  LET at == {i \in 1..Len(walked) : IsPacket(file[i])}
  IN pc = "entities" =>
       \A i \in at : LET k == PacketsTo(file, i)
                     IN k <= Len(seen) => seen[k] = walked[i]
==============================================================================
