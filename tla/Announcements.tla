---------------------------- MODULE Announcements ----------------------------
(***************************************************************************)
(* Recovery of the center texts (extract/announcements.rs): the frame walk *)
(* collects the packets, worker threads skim a chunk of them each, and     *)
(* what they find is joined, sorted by tick and rid of resends.  Rounds    *)
(* takes its start markers from the result.                                *)
(*                                                                         *)
(* A packet is its tick and the texts that the skim of its payload and the *)
(* patterns find in it, in the order of the skim.                          *)
(***************************************************************************)
EXTENDS Integers, SequencesExt

CONSTANTS
  Text,         \* what an announcement can say
  Packet,       \* the packets a recording can hold
  Threads,      \* the values --threads is given
  Window,       \* the ticks of three seconds
  MaxPackets    \* bound: packets in a recording

ASSUME AnnouncementsAssumption ==
  /\ \A p \in Packet : p.tick \in Nat /\ p.texts \in Seq(Text)
  /\ Threads \subseteq Nat /\ Window \in Nat /\ MaxPackets \in Nat

VARIABLES
  packets,   \* the packets collected, in file order
  threads,   \* ctx.threads
  chunks,    \* chunks[w]: the packets worker w has not skimmed yet
  out,       \* out[w]: what worker w has found
  joined,    \* how many workers the scope has joined
  found,     \* what the joined workers found; at the end, the announcements
  pc         \* "walk", then "skim", then "done"

vars == <<packets, threads, chunks, out, joined, found, pc>>

Announcement == [tick : Nat, text : Text]

\* What the skim of one packet pushes.
Skimmed(p) == [i \in DOMAIN p.texts |-> [tick |-> p.tick, text |-> p.texts[i]]]

-----------------------------------------------------------------------------

\* Mutant: the quotient is rounded down.
ChunkSizeDown(n) == Max({1, n \div Max({1, threads})})

\* div_ceil, with at least one thread and one packet.
ChunkSize(n) == Max({1, (n + Max({1, threads}) - 1) \div Max({1, threads})})

\* The packets in runs of ChunkSize, the last of which may be shorter.
Chunks ==
  LET n == Len(packets)
      size == ChunkSize(n)
  IN [w \in 1..((n + size - 1) \div size) |->
        SubSeq(packets, (w - 1) * size + 1, Min({n, w * size}))]

\* on_frame, for a packet frame.
OnFrame ==
  /\ pc = "walk" /\ Len(packets) < MaxPackets
  /\ \E p \in Packet : packets' = Append(packets, p)
  /\ UNCHANGED <<threads, chunks, out, joined, found, pc>>

\* The first call of found: one worker is spawned per chunk.
Spawn ==
  /\ pc = "walk" /\ pc' = "skim"
  /\ chunks' = Chunks
  /\ out' = [w \in DOMAIN Chunks |-> <<>>]
  /\ UNCHANGED <<packets, threads, joined, found>>

SkimPacket(w) ==
  /\ pc = "skim" /\ chunks[w] # <<>>
  /\ out' = [out EXCEPT ![w] = @ \o Skimmed(Head(chunks[w]))]
  /\ chunks' = [chunks EXCEPT ![w] = Tail(@)]
  /\ UNCHANGED <<packets, threads, joined, found, pc>>

\* Mutant: the handles are joined last first, as if popped off a stack.
JoinLastFirst ==
  /\ pc = "skim" /\ joined < Len(chunks) /\ chunks[Len(chunks) - joined] = <<>>
  /\ found' = found \o out[Len(chunks) - joined]
  /\ joined' = joined + 1
  /\ UNCHANGED <<packets, threads, chunks, out, pc>>

\* The handles are joined in the order of the chunks.
Join ==
  /\ pc = "skim" /\ joined < Len(chunks) /\ chunks[joined + 1] = <<>>
  /\ found' = found \o out[joined + 1]
  /\ joined' = joined + 1
  /\ UNCHANGED <<packets, threads, chunks, out, pc>>

\* sort_by_key is stable.
ByTick(s) ==
  LET before(i) == {j \in DOMAIN s : s[j].tick < s[i].tick \/ (s[j].tick = s[i].tick /\ j < i)}
  IN [k \in DOMAIN s |-> s[CHOOSE i \in DOMAIN s : Cardinality(before(i)) = k - 1]]

\* Mutant: a text is a resend however long ago it was first said.
ResendEver(kept, a) == kept # <<>> /\ Last(kept).text = a.text

\* dedup compares a text with the last one it kept.
Resend(kept, a) ==
  /\ kept # <<>>
  /\ Last(kept).text = a.text /\ a.tick - Last(kept).tick < Window

Dedup(s) ==
  LET kept[i \in 0..Len(s)] ==
        IF i = 0 THEN <<>>
        ELSE IF Resend(kept[i - 1], s[i]) THEN kept[i - 1] ELSE Append(kept[i - 1], s[i])
  IN kept[Len(s)]

SortAndDedup ==
  /\ pc = "skim" /\ joined = Len(chunks)
  /\ found' = Dedup(ByTick(found))
  /\ pc' = "done"
  /\ UNCHANGED <<packets, threads, chunks, out, joined>>

Done == pc = "done" /\ UNCHANGED vars

-----------------------------------------------------------------------------

Init ==
  /\ packets = <<>> /\ threads \in Threads
  /\ chunks = <<>> /\ out = <<>> /\ joined = 0 /\ found = <<>> /\ pc = "walk"

Next ==
  \/ OnFrame \/ Spawn \/ Join \/ SortAndDedup \/ Done
  \/ \E w \in DOMAIN chunks : SkimPacket(w)

Spec == Init /\ [][Next]_vars

-----------------------------------------------------------------------------
(* Properties                                                              *)

\* Every variable keeps its type, and no more workers are spawned than
\* --threads allows ("across ctx.threads workers", announcements.rs:68).
TypeOK ==
  /\ packets \in Seq(Packet) /\ threads \in Threads
  /\ chunks \in Seq(Seq(Packet)) /\ out \in Seq(Seq(Announcement))
  /\ Len(chunks) = Len(out) /\ Len(chunks) <= Max({1, threads})
  /\ joined \in 0..Len(chunks)
  /\ found \in Seq(Announcement) /\ pc \in {"walk", "skim", "done"}

\* The texts of all packets in file order.
Said == FlattenSeq([i \in DOMAIN packets |-> Skimmed(packets[i])])

\* The announcements do not depend on how many threads skimmed the packets or
\* which was faster: they are those of one thread that skims them in order.
SameForAnyThreads == pc = "done" => found = Dedup(ByTick(Said))

\* Dropping resends loses no text: each text said has an announcement of the
\* same text less than three seconds before it, or on its own tick.
EveryTextKept ==
  pc = "done" =>
    \A i \in DOMAIN Said : \E k \in DOMAIN found :
      /\ found[k].text = Said[i].text
      /\ found[k].tick <= Said[i].tick
      /\ found[k].tick = Said[i].tick \/ Said[i].tick - found[k].tick < Window
==============================================================================
