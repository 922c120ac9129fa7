-------------------------- MODULE DemoClockProofs ---------------------------
(***************************************************************************)
(* Proofs about DemoClock: the ticks of both walks, for every file a       *)
(* recorder can write.                                                     *)
(***************************************************************************)
EXTENDS DemoClock, FiniteSetTheorems, WellFoundedInduction, TLAPS

-----------------------------------------------------------------------------
(* Least elements                                                          *)

\* Numbers have a least one among them.
LEMMA LeastNat ==
  ASSUME NEW S, S \subseteq Nat, S # {}
  PROVE  \E m \in S : \A n \in S : m <= n
<1> DEFINE less == OpToRel(<, Nat)
<1>1. IsWellFoundedOn(less, Nat)
  BY NatLessThanWellFounded
<1>2. \A i, j \in Nat : i < j => <<i, j>> \in less
  BY DEF OpToRel
<1> HIDE DEF less
<1>3. PICK m \in S : \A n \in S : ~(<<n, m>> \in less)
  BY <1>1, WFMin
<1>4. ASSUME NEW n \in S
      PROVE  m <= n
  <2>1. ~(<<n, m>> \in less) /\ m \in Nat /\ n \in Nat
    BY <1>3
  <2>2. ~(n < m)
    BY <1>2, <2>1
  <2> QED BY <2>1, <2>2
<1> QED BY <1>4

-----------------------------------------------------------------------------
(* Counting packets                                                        *)

LEMMA PacketsToType ==
  ASSUME NEW fs, NEW k \in Nat
  PROVE  /\ IsFiniteSet({j \in 1..k : IsPacket(fs[j])})
         /\ PacketsTo(fs, k) \in 0..k
<1> DEFINE at == {j \in 1..k : IsPacket(fs[j])}
<1>1. IsFiniteSet(1..k) /\ Cardinality(1..k) = k
  BY FS_Interval
<1>2. at \subseteq 1..k
  OBVIOUS
<1>3. IsFiniteSet(at) /\ Cardinality(at) <= k
  BY <1>1, <1>2, FS_Subset
<1>4. Cardinality(at) \in Nat
  BY <1>3, FS_CardinalityType
<1> QED BY <1>3, <1>4 DEF PacketsTo

LEMMA PacketsToNat ==
  ASSUME NEW fs, NEW k \in Nat
  PROVE  PacketsTo(fs, k) \in Nat
<1>1. PacketsTo(fs, k) \in 0..k
  BY PacketsToType
<1> QED BY <1>1

\* One more frame counts when it is a packet.
LEMMA PacketsNext ==
  ASSUME NEW fs, NEW k \in Nat
  PROVE  PacketsTo(fs, k + 1) = PacketsTo(fs, k) + IF IsPacket(fs[k + 1]) THEN 1 ELSE 0
<1> DEFINE had == {j \in 1..k : IsPacket(fs[j])}
           has == {j \in 1..(k + 1) : IsPacket(fs[j])}
<1>1. IsFiniteSet(had) /\ Cardinality(had) \in Nat
  BY PacketsToType, PacketsToNat DEF PacketsTo
<1>2. CASE ~IsPacket(fs[k + 1])
  <2>1. has = had
    BY <1>2
  <2> QED BY <1>1, <1>2, <2>1 DEF PacketsTo
<1>3. CASE IsPacket(fs[k + 1])
  <2>1. has = had \cup {k + 1} /\ k + 1 \notin had
    BY <1>3
  <2>2. Cardinality(has) = Cardinality(had) + 1
    BY <1>1, <2>1, FS_AddElement
  <2> QED BY <1>3, <2>2 DEF PacketsTo
<1> QED BY <1>2, <1>3

LEMMA PacketsGrow ==
  ASSUME NEW fs, NEW m \in Nat, NEW k \in Nat, m <= k
  PROVE  PacketsTo(fs, m) <= PacketsTo(fs, k)
<1> DEFINE had == {j \in 1..m : IsPacket(fs[j])}
           has == {j \in 1..k : IsPacket(fs[j])}
<1>1. IsFiniteSet(has)
  BY PacketsToType
<1>2. had \subseteq has
  OBVIOUS
<1>3. Cardinality(had) <= Cardinality(has)
  BY <1>1, <1>2, FS_Subset
<1> QED BY <1>3 DEF PacketsTo

\* A packet is at the place its count gives.
LEMMA PacketFound ==
  ASSUME NEW fs \in Seq(Frame), NEW i \in 1..Len(fs), IsPacket(fs[i])
  PROVE  /\ PacketsTo(fs, i) \in 1..PacketsTo(fs, Len(fs))
         /\ PacketsTo(fs, i) = PacketsTo(fs, i - 1) + 1
         /\ PacketAt(fs, PacketsTo(fs, i)) = i
<1>1. i - 1 \in Nat /\ (i - 1) + 1 = i /\ i \in Nat /\ Len(fs) \in Nat /\ i <= Len(fs)
  OBVIOUS
<1>2. PacketsTo(fs, i) = PacketsTo(fs, i - 1) + 1 /\ PacketsTo(fs, i - 1) \in Nat
  <2>1. PacketsTo(fs, (i - 1) + 1) =
          PacketsTo(fs, i - 1) + IF IsPacket(fs[(i - 1) + 1]) THEN 1 ELSE 0
    BY <1>1, PacketsNext
  <2> QED BY <1>1, <2>1, PacketsToNat
<1>3. PacketsTo(fs, i) <= PacketsTo(fs, Len(fs)) /\ PacketsTo(fs, Len(fs)) \in Nat
  BY <1>1, PacketsGrow, PacketsToNat
<1>4. ASSUME NEW j \in 1..Len(fs), IsPacket(fs[j]), PacketsTo(fs, j) = PacketsTo(fs, i)
      PROVE  j = i
  <2>1. j - 1 \in Nat /\ (j - 1) + 1 = j /\ j \in Nat
    OBVIOUS
  <2>2. PacketsTo(fs, j) = PacketsTo(fs, j - 1) + 1 /\ PacketsTo(fs, j - 1) \in Nat
    <3>1. PacketsTo(fs, (j - 1) + 1) =
            PacketsTo(fs, j - 1) + IF IsPacket(fs[(j - 1) + 1]) THEN 1 ELSE 0
      BY <2>1, PacketsNext
    <3> QED BY <1>4, <2>1, <3>1, PacketsToNat
  <2>3. CASE j < i
    <3>1. j <= i - 1
      BY <1>1, <2>1, <2>3
    <3>2. PacketsTo(fs, j) <= PacketsTo(fs, i - 1)
      BY <1>1, <2>1, <3>1, PacketsGrow
    <3> QED BY <1>2, <1>4, <2>2, <3>2
  <2>4. CASE i < j
    <3>1. i <= j - 1
      BY <1>1, <2>1, <2>4
    <3>2. PacketsTo(fs, i) <= PacketsTo(fs, j - 1)
      BY <1>1, <2>1, <3>1, PacketsGrow
    <3> QED BY <1>2, <1>4, <2>2, <3>2
  <2> QED BY <1>1, <2>1, <2>3, <2>4
<1>5. PacketAt(fs, PacketsTo(fs, i)) = i
  BY <1>4 DEF PacketAt
<1> QED BY <1>2, <1>3, <1>5

\* Every count up to the last belongs to a packet.
LEMMA NthPacket ==
  ASSUME NEW fs \in Seq(Frame), NEW n \in 1..PacketsTo(fs, Len(fs))
  PROVE  PacketAt(fs, n) \in 1..Len(fs)
<1> DEFINE S == {k \in 0..Len(fs) : n <= PacketsTo(fs, k)}
<1>1. Len(fs) \in Nat /\ n \in Nat /\ n >= 1 /\ n <= PacketsTo(fs, Len(fs))
  <2>1. PacketsTo(fs, Len(fs)) \in Nat
    BY PacketsToNat
  <2> QED BY <2>1
<1>2. S \subseteq Nat /\ Len(fs) \in S
  BY <1>1
<1>3. PICK i \in S : \A k \in S : i <= k
  BY <1>2, LeastNat
<1>4. i \in 0..Len(fs) /\ n <= PacketsTo(fs, i) /\ i \in Nat
  BY <1>1, <1>3
<1>5. i # 0
  <2>1. PacketsTo(fs, 0) \in 0..0
    BY PacketsToType
  <2> QED BY <1>1, <1>4, <2>1
<1>6. i - 1 \in Nat /\ i - 1 \in 0..Len(fs) /\ (i - 1) + 1 = i /\ ~(i <= i - 1)
  BY <1>1, <1>4, <1>5
<1>7. ~(n <= PacketsTo(fs, i - 1))
  BY <1>3, <1>6
<1>8. PacketsTo(fs, i - 1) \in Nat /\ PacketsTo(fs, i) \in Nat
  BY <1>4, <1>6, PacketsToNat
<1>9. PacketsTo(fs, i) = PacketsTo(fs, i - 1) + IF IsPacket(fs[i]) THEN 1 ELSE 0
  <2>1. PacketsTo(fs, (i - 1) + 1) =
          PacketsTo(fs, i - 1) + IF IsPacket(fs[(i - 1) + 1]) THEN 1 ELSE 0
    BY <1>6, PacketsNext
  <2> QED BY <1>6, <2>1
<1>10. IsPacket(fs[i]) /\ PacketsTo(fs, i) = n
  BY <1>1, <1>4, <1>7, <1>8, <1>9
<1>11. i \in 1..Len(fs)
  BY <1>1, <1>4, <1>5
<1> QED BY <1>10, <1>11 DEF PacketAt

-----------------------------------------------------------------------------
(* The usual gap                                                           *)

\* The snapshots of one gap.
GapOf(fs, g) == {i \in Snapshots(fs) : Gap(fs[i]) = g}

LEMMA SnapshotsFinite ==
  ASSUME NEW fs \in Seq(Frame)
  PROVE  /\ IsFiniteSet(Snapshots(fs)) /\ Cardinality(Snapshots(fs)) \in Nat
         /\ \A g : /\ IsFiniteSet(GapOf(fs, g)) /\ Cardinality(GapOf(fs, g)) \in Nat
                   /\ Cardinality(GapOf(fs, g)) <= Cardinality(Snapshots(fs))
         /\ \A i \in Snapshots(fs) : Gap(fs[i]) \in Int
<1>1. Len(fs) \in Nat /\ IsFiniteSet(1..Len(fs)) /\ Snapshots(fs) \subseteq 1..Len(fs)
  <2>1. Len(fs) \in Nat
    OBVIOUS
  <2> QED BY <2>1, FS_Interval DEF Snapshots
<1>2. IsFiniteSet(Snapshots(fs))
  BY <1>1, FS_Subset
<1>3. Cardinality(Snapshots(fs)) \in Nat
  BY <1>2, FS_CardinalityType
<1>4. ASSUME NEW g
      PROVE  /\ IsFiniteSet(GapOf(fs, g)) /\ Cardinality(GapOf(fs, g)) \in Nat
             /\ Cardinality(GapOf(fs, g)) <= Cardinality(Snapshots(fs))
  <2>1. GapOf(fs, g) \subseteq Snapshots(fs)
    BY DEF GapOf
  <2>2. IsFiniteSet(GapOf(fs, g)) /\ Cardinality(GapOf(fs, g)) <= Cardinality(Snapshots(fs))
    BY <1>2, <2>1, FS_Subset
  <2> QED BY <2>2, FS_CardinalityType
<1>5. ASSUME NEW i \in Snapshots(fs)
      PROVE  Gap(fs[i]) \in Int
  <2>1. fs[i] \in Frame /\ fs[i].server # None
    BY DEF Snapshots, IsSnapshot
  <2> QED BY <2>1 DEF Frame, Gap
<1> QED BY <1>2, <1>3, <1>4, <1>5

\* The usual gap is one of the file's, and no gap has more snapshots.
LEMMA BaseIsUsual ==
  ASSUME NEW fs \in Seq(Frame), NEW c \in Nat, Snapshots(fs) # {},
         \A i \in 1..Len(fs) : fs[i].header <= c
  PROVE  /\ Base(fs) \in Int
         /\ \A i \in Snapshots(fs) :
              Cardinality(GapOf(fs, Gap(fs[i]))) <= Cardinality(GapOf(fs, Base(fs)))
<1> DEFINE gaps == {Gap(fs[i]) : i \in Snapshots(fs)}
           Count(g) == Cardinality({i \in Snapshots(fs) : Gap(fs[i]) = g})
           N == Cardinality(Snapshots(fs))
           First(g, h) == Count(h) < Count(g) \/ (Count(h) = Count(g) /\ g <= h)
<1>1. gaps # {} /\ gaps \subseteq Int /\ N \in Nat
  BY SnapshotsFinite
<1>2. \A g : Count(g) = Cardinality(GapOf(fs, g))
  BY DEF GapOf
<1>3. \A g : Count(g) \in Nat /\ Count(g) <= N
  BY <1>2, SnapshotsFinite
<1>4. \A g \in gaps : g + c \in Nat
  <2> SUFFICES ASSUME NEW i \in Snapshots(fs) PROVE Gap(fs[i]) + c \in Nat
    OBVIOUS
  <2>1. fs[i] \in Frame /\ fs[i].server # None /\ fs[i].header <= c
    BY DEF Snapshots, IsSnapshot
  <2> QED BY <2>1 DEF Frame, Gap
<1>5. Base(fs) = CHOOSE g \in gaps : \A h \in gaps : First(g, h)
  BY <1>1 DEF Base
<1> HIDE DEF gaps, Count, N
<1>6. PICK most \in gaps : \A h \in gaps : Count(h) <= Count(most)
  <2> DEFINE S == {N - Count(g) : g \in gaps}
  <2>1. S \subseteq Nat /\ S # {}
    <3>1. \A g \in gaps : N - Count(g) \in Nat
      BY <1>1, <1>3
    <3> QED BY <1>1, <3>1
  <2>2. PICK m \in S : \A n \in S : m <= n
    BY <2>1, LeastNat
  <2>3. PICK g \in gaps : m = N - Count(g)
    BY <2>2
  <2>4. ASSUME NEW h \in gaps
        PROVE  Count(h) <= Count(g)
    <3>1. N - Count(g) <= N - Count(h)
      BY <2>2, <2>3
    <3> QED BY <1>1, <1>3, <3>1
  <2> QED BY <2>4
<1>7. \E g \in gaps : \A h \in gaps : First(g, h)
  <2> DEFINE S == {g + c : g \in {h \in gaps : Count(h) = Count(most)}}
  <2>1. S \subseteq Nat /\ S # {}
    BY <1>4
  <2>2. PICK m \in S : \A n \in S : m <= n
    BY <2>1, LeastNat
  <2>3. PICK g \in gaps : Count(g) = Count(most) /\ m = g + c
    BY <2>2
  <2>4. ASSUME NEW h \in gaps
        PROVE  First(g, h)
    <3>1. CASE Count(h) = Count(most)
      <4>1. g + c <= h + c
        BY <2>2, <2>3, <3>1
      <4>2. g \in Int /\ h \in Int
        BY <1>1
      <4> QED BY <2>3, <3>1, <4>1, <4>2
    <3>2. CASE Count(h) # Count(most)
      BY <1>3, <1>6, <2>3, <3>2
    <3> QED BY <3>1, <3>2
  <2> QED BY <2>4
<1>8. Base(fs) \in gaps /\ \A h \in gaps : First(Base(fs), h)
  BY <1>5, <1>7
<1>9. \A h \in gaps : Count(h) <= Count(Base(fs))
  BY <1>3, <1>8
<1>10. \A i \in Snapshots(fs) : Gap(fs[i]) \in gaps
  BY DEF gaps
<1> QED BY <1>1, <1>2, <1>8, <1>9, <1>10

-----------------------------------------------------------------------------
(* The ticks of Clock::new                                                 *)

LEMMA CorrectionType ==
  ASSUME NEW fs \in Seq(Frame), NEW c \in Nat, \A i \in 1..Len(fs) : fs[i].header <= c,
         NEW n \in Nat
  PROVE  Correction(fs, n) \in Int
<1> DEFINE last == {j \in Snapshots(fs) :
                      j <= n /\ \A k \in Snapshots(fs) : k <= n => k <= j}
<1>1. CASE last = {}
  BY <1>1 DEF Correction
<1>2. CASE last # {}
  <2> DEFINE j == CHOOSE j \in last : TRUE
  <2>1. j \in Snapshots(fs)
    BY <1>2
  <2>2. Correction(fs, n) = Gap(fs[j]) - Base(fs)
    BY <1>2 DEF Correction
  <2> HIDE DEF j
  <2>3. Gap(fs[j]) \in Int /\ Base(fs) \in Int
    BY <2>1, SnapshotsFinite, BaseIsUsual
  <2> QED BY <2>2, <2>3
<1> QED BY <1>1, <1>2

\* The correction is that of the last snapshot.
LEMMA CorrectionOfLast ==
  ASSUME NEW fs \in Seq(Frame), NEW n \in Nat, NEW j \in Snapshots(fs), j <= n,
         \A k \in Snapshots(fs) : k <= n => k <= j
  PROVE  Correction(fs, n) = Gap(fs[j]) - Base(fs)
<1> DEFINE last == {i \in Snapshots(fs) :
                      i <= n /\ \A k \in Snapshots(fs) : k <= n => k <= i}
<1>1. \A i \in Snapshots(fs) : i \in Nat
  BY DEF Snapshots
<1>2. last = {j}
  <2>1. ASSUME NEW i \in last
        PROVE  i = j
    BY <1>1
  <2> QED BY <2>1
<1>3. (CHOOSE i \in last : TRUE) = j /\ last # {}
  BY <1>2
<1> HIDE DEF last
<1>4. Correction(fs, n) = IF last = {} THEN 0
                          ELSE LET i == CHOOSE i \in last : TRUE IN Gap(fs[i]) - Base(fs)
  BY DEF Correction, last
<1> QED BY <1>3, <1>4

LEMMA RetimedType ==
  ASSUME NEW fs \in Seq(Frame), NEW c \in Nat, \A i \in 1..Len(fs) : fs[i].header <= c,
         NEW n \in 1..Len(fs)
  PROVE  Retimed(fs, n) \in Nat
<1>1. Correction(fs, n) \in Int
  BY CorrectionType
<1>2. fs[n].header \in Nat
  <2>1. fs[n] \in Frame
    OBVIOUS
  <2> QED BY <2>1 DEF Frame
<1> QED BY <1>1, <1>2 DEF Retimed

\* A snapshot is given the server's tick less the usual gap.
LEMMA SnapshotRetimed ==
  ASSUME NEW fs \in Seq(Frame), NEW i \in Snapshots(fs), fs[i].kind = "packet",
         Base(fs) \in Int
  PROVE  Retimed(fs, i) = IF fs[i].server < Base(fs) THEN 0 ELSE fs[i].server - Base(fs)
<1>1. i \in 1..Len(fs) /\ fs[i] \in Frame /\ fs[i].server # None
  BY DEF Snapshots, IsSnapshot
<1>2. fs[i].server \in Nat /\ fs[i].header \in Nat
  BY <1>1 DEF Frame
<1>3. Correction(fs, i) = Gap(fs[i]) - Base(fs)
  <2>1. i \in Nat /\ i <= i
    BY <1>1
  <2> QED BY <2>1, CorrectionOfLast
<1> QED BY <1>2, <1>3 DEF Retimed, Gap

-----------------------------------------------------------------------------
(* The invariant                                                           *)

\* What the recorder guarantees of a file.
Recorded ==
  /\ \A i \in 1..Len(file) :
       /\ file[i].header <= client
       /\ IsSnapshot(file[i]) => file[i].kind = "packet" /\ file[i].server <= server
  /\ \A i, j \in 1..Len(file) : i < j =>
       /\ file[i].header <= file[j].header
       /\ file[j].kind = "signon" => file[i].kind = "signon"
       /\ IsSnapshot(file[i]) /\ IsSnapshot(file[j]) => file[i].server < file[j].server

\* What Clock::new left behind, and nothing is walked before it has run.
Clocked ==
  IF pc = "record" THEN walked = <<>> /\ ordinal = 0 /\ correction = 0
  ELSE clock = [n \in 1..PacketsTo(file, Len(file)) |-> Retimed(file, PacketAt(file, n))]

\* The frame walk has given each packet its own tick.
Walked ==
  /\ Len(walked) <= Len(file)
  /\ pc \in {"entities", "done"} => Len(walked) = Len(file)
  /\ ordinal = PacketsTo(file, Len(walked))
  /\ \A i \in 1..Len(walked) : IsPacket(file[i]) => walked[i] = Retimed(file, i)

\* The correction in force brings no later frame before the recording's
\* start, nor before the last snapshot walked.
Carried ==
  \A j \in (Len(walked) + 1)..Len(file) :
    /\ file[j].header + correction >= 0
    /\ \A i \in WalkedSnapshots :
         (\A k \in WalkedSnapshots : k <= i) => walked[i] <= file[j].header + correction

\* The entity pass has taken the clock's ticks in order.
SeenInOrder ==
  /\ Len(seen) <= PacketsTo(file, Len(file))
  /\ pc \in {"record", "walk"} => seen = <<>>
  /\ \A k \in 1..Len(seen) : seen[k] = clock[k]

CInv ==
  /\ TypeOK
  /\ Recorded
  /\ Clocked
  /\ Walked
  /\ Carried
  /\ AfterItsSnapshot
  /\ SeenInOrder

LEMMA CInvInit == Init => CInv
<1> SUFFICES ASSUME Init PROVE CInv
  OBVIOUS
<1>1. Len(file) = 0 /\ Len(walked) = 0 /\ Len(seen) = 0 /\ file = <<>> /\ walked = <<>>
  BY DEF Init
<1>2. PacketsTo(file, 0) = 0
  <2>1. PacketsTo(file, 0) \in 0..0
    BY PacketsToType
  <2> QED BY <2>1
<1>3. WalkedSnapshots = {}
  BY <1>1 DEF WalkedSnapshots
<1>4. TypeOK
  BY <1>1, <1>2, DemoClockAssumption DEF Init, TypeOK
<1>5. Recorded
  BY <1>1 DEF Recorded
<1>6. Clocked /\ Walked /\ SeenInOrder
  BY <1>1, <1>2 DEF Init, Clocked, Walked, SeenInOrder
<1>7. Carried /\ AfterItsSnapshot
  BY <1>1, <1>3 DEF Carried, AfterItsSnapshot
<1> QED BY <1>4, <1>5, <1>6, <1>7 DEF CInv

\* A frame more in the file.
LEMMA RecordKeeps == CInv /\ Record => CInv'
<1> SUFFICES ASSUME CInv, Record PROVE CInv'
  OBVIOUS
<1>1. PICK k \in Kind, snapshot \in BOOLEAN, d \in Pace, a \in Skew :
        /\ k = "signon" => \A i \in 1..Len(file) : file[i].kind = "signon"
        /\ snapshot => k = "packet" /\ \A i \in 1..Len(file) : file[i].server # server + d
        /\ d + a >= 0
        /\ server' = server + d /\ client' = client + d + a
        /\ file' = Append(file, [kind |-> k, header |-> client',
                                 server |-> IF snapshot THEN server' ELSE None])
  BY DEF Record
<1> DEFINE f == [kind |-> k, header |-> client', server |-> IF snapshot THEN server' ELSE None]
           n == Len(file)
<1>2. /\ pc = "record" /\ pc' = pc /\ clock' = clock /\ ordinal' = 0 /\ correction' = 0
      /\ walked = <<>> /\ walked' = <<>> /\ seen = <<>> /\ seen' = <<>>
      /\ ordinal = 0 /\ correction = 0
  BY DEF Record, CInv, Clocked, SeenInOrder
<1>3. file \in Seq(Frame) /\ server \in Nat /\ client \in Nat /\ clock \in Seq(Nat)
  BY DEF CInv, TypeOK
<1>4. /\ server' \in Nat /\ client' \in Nat /\ server <= server' /\ client <= client'
      /\ server' = server + d
  <2>1. d \in Nat /\ a \in Int
    BY DemoClockAssumption
  <2> QED BY <1>1, <1>3, <2>1
<1>5. f \in Frame /\ f.kind = k /\ f.header = client'
      /\ f.server = IF snapshot THEN server' ELSE None
  BY <1>4 DEF Frame
<1> HIDE DEF f
<1>6. file' = Append(file, f) /\ n \in Nat
  BY <1>1, <1>3 DEF f
<1>7. /\ file' \in Seq(Frame) /\ Len(file') = n + 1 /\ file'[n + 1] = f
      /\ \A i \in 1..n : file'[i] = file[i]
      /\ \A i \in 1..Len(file') : i \in 1..n \/ i = n + 1
  BY <1>3, <1>5, <1>6
<1>8. PacketsTo(file', 0) = 0 /\ PacketsTo(file', Len(file')) \in Nat
  <2>1. PacketsTo(file', 0) \in 0..0
    BY PacketsToType
  <2> QED BY <1>6, <1>7, <2>1, PacketsToNat
<1>9. TypeOK'
  BY <1>2, <1>3, <1>4, <1>7, <1>8 DEF TypeOK
<1>10. ASSUME NEW i \in 1..n
       PROVE  /\ file[i].header <= client /\ file[i].header \in Nat
              /\ IsSnapshot(file[i]) => /\ file[i].kind = "packet" /\ file[i].server \in Nat
                                        /\ file[i].server <= server
  <2>1. file[i] \in Frame
    BY <1>3
  <2> QED BY <2>1 DEF CInv, Recorded, Frame, IsSnapshot
<1>11. Recorded'
  <2>1. ASSUME NEW i \in 1..Len(file')
        PROVE  /\ file'[i].header <= client'
               /\ IsSnapshot(file'[i]) => file'[i].kind = "packet" /\ file'[i].server <= server'
    <3>1. CASE i \in 1..n
      BY <1>3, <1>4, <1>7, <1>10, <3>1
    <3>2. CASE i = n + 1
      BY <1>1, <1>4, <1>5, <1>7, <3>2 DEF IsSnapshot
    <3> QED BY <1>7, <3>1, <3>2
  <2>2. ASSUME NEW i \in 1..Len(file'), NEW j \in 1..Len(file'), i < j
        PROVE  /\ file'[i].header <= file'[j].header
               /\ file'[j].kind = "signon" => file'[i].kind = "signon"
               /\ IsSnapshot(file'[i]) /\ IsSnapshot(file'[j]) => file'[i].server < file'[j].server
    <3>1. i \in 1..n
      BY <1>6, <1>7, <2>2
    <3>2. CASE j \in 1..n
      BY <1>7, <2>2, <3>1, <3>2 DEF CInv, Recorded
    <3>3. CASE j = n + 1
      <4>1. file'[i] = file[i] /\ file'[j] = f
        BY <1>7, <3>1, <3>3
      <4>2. file[i].header <= client'
        BY <1>3, <1>4, <1>10, <3>1
      <4>3. ASSUME IsSnapshot(file[i]), IsSnapshot(f)
            PROVE  file[i].server < f.server
        <5>1. snapshot /\ f.server = server'
          BY <1>5, <4>3 DEF IsSnapshot
        <5>2. file[i].server # server' /\ file[i].server <= server /\ file[i].server \in Nat
          BY <1>1, <1>10, <3>1, <4>3, <5>1
        <5> QED BY <1>3, <1>4, <5>1, <5>2
      <4> QED BY <1>1, <1>5, <3>1, <4>1, <4>2, <4>3
    <3> QED BY <1>7, <3>2, <3>3
  <2> QED BY <2>1, <2>2 DEF Recorded
<1>12. Clocked'
  BY <1>2 DEF Clocked
<1>13. Walked'
  BY <1>2, <1>6, <1>7, <1>8 DEF Walked
<1>14. WalkedSnapshots' = {}
  BY <1>2 DEF WalkedSnapshots
<1>15. Carried'
  <2>1. \A i \in 1..Len(file') : file'[i].header \in Nat
    <3>1. \A i \in 1..Len(file') : file'[i] \in Frame
      BY <1>7
    <3> QED BY <3>1 DEF Frame
  <2>2. Len(walked') = 0
    BY <1>2
  <2> QED BY <1>2, <1>14, <2>1, <2>2 DEF Carried
<1>16. AfterItsSnapshot'
  BY <1>14 DEF AfterItsSnapshot
<1>17. SeenInOrder'
  BY <1>2, <1>8 DEF SeenInOrder
<1> QED BY <1>9, <1>11, <1>12, <1>13, <1>15, <1>16, <1>17 DEF CInv

\* Clock::new gives every packet a tick.
LEMMA ReadClockKeeps == CInv /\ ReadClock => CInv'
<1> SUFFICES ASSUME CInv, ReadClock PROVE CInv'
  OBVIOUS
<1>1. /\ pc = "record" /\ pc' = "walk" /\ file' = file /\ server' = server /\ client' = client
      /\ ordinal' = ordinal /\ correction' = correction /\ walked' = walked /\ seen' = seen
      /\ clock' = [n \in 1..PacketsTo(file, Len(file)) |-> Retimed(file, PacketAt(file, n))]
  BY DEF ReadClock
<1>2. /\ walked = <<>> /\ seen = <<>> /\ file \in Seq(Frame) /\ client \in Nat
      /\ \A i \in 1..Len(file) : file[i].header <= client
  BY <1>1 DEF CInv, TypeOK, Clocked, SeenInOrder, Recorded
<1>3. clock' \in Seq(Nat)
  <2>1. PacketsTo(file, Len(file)) \in Nat
    BY <1>2, PacketsToNat
  <2>2. ASSUME NEW n \in 1..PacketsTo(file, Len(file))
        PROVE  Retimed(file, PacketAt(file, n)) \in Nat
    <3>1. PacketAt(file, n) \in 1..Len(file)
      BY <1>2, NthPacket
    <3> QED BY <1>2, <3>1, RetimedType
  <2> QED BY <1>1, <2>1, <2>2
<1>4. TypeOK'
  BY <1>1, <1>3 DEF CInv, TypeOK
<1>5. Recorded' /\ Clocked'
  BY <1>1 DEF CInv, Recorded, Clocked
<1>6. Walked' /\ SeenInOrder'
  BY <1>1, <1>2 DEF CInv, Walked, SeenInOrder
<1>7. WalkedSnapshots' = WalkedSnapshots
  BY <1>1 DEF WalkedSnapshots
<1>8. Carried' /\ AfterItsSnapshot'
  BY <1>1, <1>7 DEF CInv, Carried, AfterItsSnapshot
<1> QED BY <1>4, <1>5, <1>6, <1>8 DEF CInv

\* What every step of the frame walk starts from: the frame walked is the
\* next of the file, and none that was walked changes.
LEMMA WalkFrom ==
  ASSUME CInv, WalkFrame
  PROVE  LET n == Len(walked) + 1 IN
         /\ pc = "walk" /\ pc' = pc /\ file' = file /\ server' = server /\ client' = client
         /\ clock' = clock /\ seen' = seen
         /\ n \in 1..Len(file) /\ n - 1 = Len(walked) /\ n - 1 \in Nat /\ Len(file) \in Nat
         /\ file \in Seq(Frame) /\ walked \in Seq(Nat) /\ correction \in Int /\ client \in Nat
         /\ \A i \in 1..Len(file) :
              /\ file[i].kind \in Kind /\ file[i].header \in Nat /\ file[i].header <= client
              /\ i < n => file[i].header <= file[n].header
              /\ n < i => file[n].header <= file[i].header
              /\ IsSnapshot(file[i]) => file[i].kind = "packet"
         /\ PacketsTo(file, n) = PacketsTo(file, n - 1) + IF IsPacket(file[n]) THEN 1 ELSE 0
         /\ PacketsTo(file, n) <= PacketsTo(file, Len(file))
         /\ PacketsTo(file, n) \in Nat /\ PacketsTo(file, n - 1) \in Nat
         /\ PacketsTo(file, Len(file)) \in Nat
         /\ ordinal = PacketsTo(file, n - 1)
         /\ clock = [k \in 1..PacketsTo(file, Len(file)) |-> Retimed(file, PacketAt(file, k))]
<1> DEFINE n == Len(walked) + 1
<1>1. /\ pc = "walk" /\ pc' = pc /\ file' = file /\ server' = server /\ client' = client
      /\ clock' = clock /\ seen' = seen /\ Len(walked) < Len(file)
  BY DEF WalkFrame
<1>2. /\ file \in Seq(Frame) /\ walked \in Seq(Nat) /\ correction \in Int /\ client \in Nat
      /\ ordinal = PacketsTo(file, Len(walked))
      /\ clock = [k \in 1..PacketsTo(file, Len(file)) |-> Retimed(file, PacketAt(file, k))]
  BY <1>1 DEF CInv, TypeOK, Walked, Clocked
<1>3. n \in 1..Len(file) /\ n - 1 = Len(walked) /\ n - 1 \in Nat /\ Len(file) \in Nat /\ n \in Nat
      /\ n <= Len(file) /\ (n - 1) + 1 = n
  BY <1>1, <1>2
<1>4. ASSUME NEW i \in 1..Len(file)
      PROVE  /\ file[i].kind \in Kind /\ file[i].header \in Nat /\ file[i].header <= client
             /\ i < n => file[i].header <= file[n].header
             /\ n < i => file[n].header <= file[i].header
             /\ IsSnapshot(file[i]) => file[i].kind = "packet"
  <2>1. file[i] \in Frame
    BY <1>2
  <2>2. file[i].kind \in Kind /\ file[i].header \in Nat
    BY <2>1 DEF Frame
  <2> QED BY <1>3, <2>2 DEF CInv, Recorded
<1>5. PacketsTo(file, n) = PacketsTo(file, n - 1) + IF IsPacket(file[n]) THEN 1 ELSE 0
  <2>1. PacketsTo(file, (n - 1) + 1) =
          PacketsTo(file, n - 1) + IF IsPacket(file[(n - 1) + 1]) THEN 1 ELSE 0
    BY <1>3, PacketsNext
  <2> QED BY <1>3, <2>1
<1>6. PacketsTo(file, n) <= PacketsTo(file, Len(file))
  BY <1>3, PacketsGrow
<1>7. /\ PacketsTo(file, n) \in Nat /\ PacketsTo(file, n - 1) \in Nat
      /\ PacketsTo(file, Len(file)) \in Nat
  BY <1>3, PacketsToNat
<1> QED BY <1>1, <1>2, <1>3, <1>4, <1>5, <1>6, <1>7

\* The tick a packet is walked at is its own.
LEMMA PacketTickIsIts ==
  ASSUME CInv, WalkFrame, IsPacket(file[Len(walked) + 1])
  PROVE  LET n == Len(walked) + 1 IN
         /\ PacketTick(ordinal) = Retimed(file, n) /\ PacketTick(ordinal) # None
         /\ Retimed(file, n) \in Nat
<1> DEFINE n == Len(walked) + 1
<1>1. /\ n \in 1..Len(file) /\ file \in Seq(Frame) /\ client \in Nat
      /\ \A i \in 1..Len(file) : file[i].header <= client
      /\ ordinal = PacketsTo(file, n - 1)
      /\ clock = [k \in 1..PacketsTo(file, Len(file)) |-> Retimed(file, PacketAt(file, k))]
      /\ PacketsTo(file, Len(file)) \in Nat /\ PacketsTo(file, n - 1) \in Nat
  BY WalkFrom
<1>2. IsPacket(file[n])
  OBVIOUS
<1> HIDE DEF n
<1>3. /\ PacketsTo(file, n) \in 1..PacketsTo(file, Len(file))
      /\ PacketsTo(file, n) = PacketsTo(file, n - 1) + 1
      /\ PacketAt(file, PacketsTo(file, n)) = n
  BY <1>1, <1>2, PacketFound
<1>4. Len(clock) = PacketsTo(file, Len(file)) /\ clock[ordinal + 1] = Retimed(file, n)
  BY <1>1, <1>3
<1>5. PacketTick(ordinal) = Retimed(file, n)
  BY <1>1, <1>3, <1>4 DEF PacketTick
<1>6. Retimed(file, n) \in Nat
  BY <1>1, RetimedType
<1>7. Retimed(file, n) # None
  BY <1>6, DemoClockAssumption
<1> QED BY <1>5, <1>6, <1>7 DEF n

\* The frames walked before keep their ticks, and one has been added.
LEMMA WalkAppends ==
  ASSUME CInv, WalkFrame, NEW tick \in Nat, walked' = Append(walked, tick)
  PROVE  LET n == Len(walked) + 1 IN
         /\ Len(walked') = n /\ walked' \in Seq(Nat) /\ walked'[n] = tick
         /\ \A i \in 1..Len(walked) : walked'[i] = walked[i]
         /\ \A i \in 1..Len(walked') : i \in 1..Len(walked) \/ i = n
         /\ \A i : i \in WalkedSnapshots' <=> i \in WalkedSnapshots \/ (i = n /\ IsSnapshot(file[n]))
<1> DEFINE n == Len(walked) + 1
<1>1. walked \in Seq(Nat) /\ file' = file
  BY WalkFrom
<1>2. /\ Len(walked') = n /\ walked' \in Seq(Nat) /\ walked'[n] = tick
      /\ \A i \in 1..Len(walked) : walked'[i] = walked[i]
      /\ \A i : i \in 1..Len(walked') <=> i \in 1..Len(walked) \/ i = n
  BY <1>1
<1>3. \A i : i \in WalkedSnapshots' <=> i \in WalkedSnapshots \/ (i = n /\ IsSnapshot(file[n]))
  BY <1>1, <1>2 DEF WalkedSnapshots
<1> QED BY <1>2, <1>3

\* A packet that is no snapshot is not retimed before the last snapshot.
LEMMA RetimedAfterSnapshot ==
  ASSUME CInv, WalkFrame, file[Len(walked) + 1].kind = "packet",
         ~IsSnapshot(file[Len(walked) + 1]),
         NEW i \in WalkedSnapshots, \A k \in WalkedSnapshots : k <= i
  PROVE  walked[i] <= Retimed(file, Len(walked) + 1)
<1> DEFINE n == Len(walked) + 1
<1>1. /\ n \in 1..Len(file) /\ n - 1 = Len(walked) /\ n - 1 \in Nat /\ Len(file) \in Nat
      /\ file \in Seq(Frame) /\ client \in Nat
      /\ \A j \in 1..Len(file) :
           /\ file[j].header \in Nat /\ file[j].header <= client
           /\ j < n => file[j].header <= file[n].header
           /\ IsSnapshot(file[j]) => file[j].kind = "packet"
  BY WalkFrom
<1>2. file[n].kind = "packet" /\ ~IsSnapshot(file[n])
  OBVIOUS
<1>3. i \in 1..(n - 1) /\ IsSnapshot(file[i])
  BY <1>1 DEF WalkedSnapshots
<1> HIDE DEF n
<1>4. i \in 1..Len(file) /\ i < n /\ i \in Nat /\ n \in Nat
  BY <1>1, <1>3
<1>5. i \in Snapshots(file)
  BY <1>3, <1>4 DEF Snapshots
<1>6. \A k \in Snapshots(file) : k <= n => k <= i
  <2> SUFFICES ASSUME NEW k \in Snapshots(file), k <= n PROVE k <= i
    OBVIOUS
  <2>1. k \in 1..Len(file) /\ IsSnapshot(file[k]) /\ k # n
    BY <1>2 DEF Snapshots
  <2>2. k \in 1..Len(walked)
    BY <1>1, <1>4, <2>1
  <2>3. k \in WalkedSnapshots
    BY <2>1, <2>2 DEF WalkedSnapshots
  <2> QED BY <2>3
<1>7. Correction(file, n) = Gap(file[i]) - Base(file)
  BY <1>1, <1>4, <1>5, <1>6, CorrectionOfLast
<1>8. Correction(file, i) = Gap(file[i]) - Base(file)
  <2>1. \A k \in Snapshots(file) : k <= i => k <= i
    OBVIOUS
  <2> QED BY <1>1, <1>4, <1>5, <2>1, CorrectionOfLast
<1>9. Correction(file, i) \in Int
  BY <1>1, <1>4, CorrectionType
<1>10. walked[i] = Retimed(file, i)
  <2>1. IsPacket(file[i])
    BY <1>1, <1>3, <1>4 DEF IsPacket
  <2> QED BY <1>1, <1>3, <2>1 DEF CInv, Walked
<1>11. file[i].kind = "packet" /\ file[i].header <= file[n].header
       /\ file[i].header \in Nat /\ file[n].header \in Nat
  BY <1>1, <1>3, <1>4
<1>12. Retimed(file, i) <= Retimed(file, n)
  BY <1>2, <1>7, <1>8, <1>9, <1>11 DEF Retimed
<1> QED BY <1>10, <1>12 DEF n

LEMMA WalkPacketKeeps ==
  ASSUME CInv, WalkFrame, WalkPacket(file[Len(walked) + 1])
  PROVE  CInv'
<1> DEFINE n == Len(walked) + 1
           f == file[n]
           tick == Retimed(file, n)
<1>1. IsPacket(f) /\ IsPacket(file[n])
  BY DEF WalkPacket
<1>2. /\ pc = "walk" /\ pc' = pc /\ file' = file /\ server' = server /\ client' = client
      /\ clock' = clock /\ seen' = seen
      /\ n \in 1..Len(file) /\ n - 1 = Len(walked) /\ n - 1 \in Nat /\ Len(file) \in Nat
      /\ file \in Seq(Frame) /\ walked \in Seq(Nat) /\ correction \in Int
      /\ \A i \in 1..Len(file) :
           /\ file[i].kind \in Kind /\ file[i].header \in Nat
           /\ n < i => file[n].header <= file[i].header
           /\ IsSnapshot(file[i]) => file[i].kind = "packet"
      /\ PacketsTo(file, n) = PacketsTo(file, n - 1) + 1
      /\ PacketsTo(file, n) <= PacketsTo(file, Len(file))
      /\ PacketsTo(file, n) \in Nat /\ PacketsTo(file, Len(file)) \in Nat
      /\ ordinal = PacketsTo(file, n - 1)
  BY <1>1, WalkFrom
<1>3. tick \in Nat /\ PacketTick(ordinal) = tick /\ PacketTick(ordinal) # None
  BY <1>1, PacketTickIsIts
<1>4. /\ walked' = Append(walked, tick) /\ ordinal' = ordinal + 1
      /\ correction' = IF f.kind = "packet" THEN tick - f.header ELSE correction
  BY <1>3 DEF WalkPacket
<1>5. /\ Len(walked') = n /\ walked' \in Seq(Nat) /\ walked'[n] = tick
      /\ \A i \in 1..Len(walked) : walked'[i] = walked[i]
      /\ \A i \in 1..Len(walked') : i \in 1..Len(walked) \/ i = n
      /\ \A i : i \in WalkedSnapshots' <=> i \in WalkedSnapshots \/ (i = n /\ IsSnapshot(file[n]))
  BY <1>3, <1>4, WalkAppends
<1>6. f.kind \in {"packet", "signon"} /\ f.header \in Nat
  BY <1>1, <1>2 DEF IsPacket
<1>7. ~IsSnapshot(f) /\ f.kind = "packet" =>
        \A i \in WalkedSnapshots : (\A k \in WalkedSnapshots : k <= i) => walked[i] <= tick
  BY RetimedAfterSnapshot
<1>8. f.kind = "signon" => WalkedSnapshots = {}
  <2> SUFFICES ASSUME f.kind = "signon", NEW i \in WalkedSnapshots PROVE FALSE
    OBVIOUS
  <2>1. i \in 1..Len(file) /\ i < n /\ IsSnapshot(file[i])
    BY <1>2 DEF WalkedSnapshots
  <2>2. file[i].kind = "signon" /\ file[i].kind = "packet"
    BY <1>2, <2>1 DEF CInv, Recorded
  <2> QED BY <2>2
<1>9. \A i \in WalkedSnapshots : i \in 1..Len(walked) /\ i < n /\ i \in Nat
  BY <1>2 DEF WalkedSnapshots
<1> HIDE DEF n, f, tick
<1>10. TypeOK'
  <2>1. correction' \in Int
    BY <1>2, <1>3, <1>4, <1>6
  <2>2. ordinal' \in 0..PacketsTo(file, Len(file))
    BY <1>2, <1>4
  <2> QED BY <1>2, <1>5, <2>1, <2>2 DEF CInv, TypeOK
<1>11. Recorded' /\ Clocked' /\ SeenInOrder'
  <2>1. file' = file /\ client' = client /\ server' = server
    BY <1>2
  <2>2. pc' = pc /\ pc = "walk" /\ clock' = clock /\ seen' = seen
    BY <1>2
  <2>3. Recorded'
    BY <2>1 DEF CInv, Recorded
  <2>4. Clocked' /\ SeenInOrder'
    BY <2>1, <2>2 DEF CInv, Clocked, SeenInOrder
  <2> QED BY <2>3, <2>4
<1>12. Walked'
  <2>1. \A i \in 1..Len(walked') : IsPacket(file[i]) => walked'[i] = Retimed(file, i)
    BY <1>5 DEF CInv, Walked, tick
  <2> QED BY <1>2, <1>4, <1>5, <2>1 DEF Walked
<1>13. Carried'
  <2> SUFFICES ASSUME NEW j \in (n + 1)..Len(file)
               PROVE  /\ file[j].header + correction' >= 0
                      /\ \A i \in WalkedSnapshots' :
                           (\A k \in WalkedSnapshots' : k <= i) =>
                             walked'[i] <= file[j].header + correction'
    BY <1>2, <1>5 DEF Carried
  <2>1. j \in 1..Len(file) /\ n < j /\ file[j].header \in Nat /\ f.header <= file[j].header
        /\ j \in (Len(walked) + 1)..Len(file)
    BY <1>2 DEF f
  <2>2. CASE f.kind = "packet"
    <3>1. correction' = tick - f.header /\ tick <= file[j].header + correction'
      BY <1>3, <1>4, <1>6, <2>1, <2>2
    <3>2. ASSUME NEW i \in WalkedSnapshots', \A k \in WalkedSnapshots' : k <= i
          PROVE  walked'[i] <= tick
      <4>1. CASE i = n
        BY <1>3, <1>5, <4>1
      <4>2. CASE i # n
        <5>1. i \in WalkedSnapshots /\ i < n /\ i \in 1..Len(walked) /\ i \in Nat /\ n \in Nat
          BY <1>2, <1>5, <1>9, <4>2
        <5>2. ~IsSnapshot(f)
          <6>1. n \notin WalkedSnapshots'
            BY <3>2, <5>1
          <6> QED BY <1>5, <6>1 DEF f
        <5>3. walked[i] <= tick
          <6>1. \A k \in WalkedSnapshots : k <= i
            BY <1>5, <3>2
          <6> QED BY <1>7, <2>2, <5>1, <5>2, <6>1
        <5> QED BY <1>5, <5>1, <5>3
      <4> QED BY <4>1, <4>2
    <3>3. correction' \in Int /\ \A i \in WalkedSnapshots' : walked'[i] \in Nat
      <4>1. \A i \in WalkedSnapshots' : i \in 1..Len(walked')
        BY DEF WalkedSnapshots
      <4> QED BY <1>3, <1>5, <1>6, <3>1, <4>1
    <3> QED BY <1>3, <2>1, <3>1, <3>2, <3>3
  <2>3. CASE f.kind = "signon"
    <3>1. ~IsSnapshot(f)
      BY <1>2, <2>3 DEF f
    <3>2. WalkedSnapshots' = {}
      BY <1>5, <1>8, <2>3, <3>1 DEF f
    <3>3. correction' = correction /\ file[j].header + correction >= 0
      BY <1>4, <2>1, <2>3 DEF CInv, Carried
    <3> QED BY <3>2, <3>3
  <2> QED BY <1>6, <2>2, <2>3
<1>14. AfterItsSnapshot'
  <2> SUFFICES ASSUME NEW i \in WalkedSnapshots', NEW j \in 1..Len(walked'), i < j,
                      \A k \in WalkedSnapshots' : k <= i \/ k > j
               PROVE  walked'[i] <= walked'[j]
    BY DEF AfterItsSnapshot
  <2>1. CASE j \in 1..Len(walked)
    <3>1. i \in WalkedSnapshots /\ i \in 1..Len(walked)
      BY <1>2, <1>5, <1>9, <2>1
    <3>2. \A k \in WalkedSnapshots : k <= i \/ k > j
      BY <1>5
    <3> QED BY <1>5, <2>1, <3>1, <3>2 DEF CInv, AfterItsSnapshot
  <2>2. CASE j = n
    <3>1. i \in WalkedSnapshots /\ i \in 1..Len(walked) /\ i \in Nat /\ n \in Nat
      BY <1>2, <1>5, <1>9, <2>2
    <3>2. ~IsSnapshot(f)
      <4>1. n \notin WalkedSnapshots'
        BY <2>2, <3>1
      <4> QED BY <1>5, <4>1 DEF f
    <3>3. f.kind = "packet"
      BY <1>6, <1>8, <3>1
    <3>4. \A k \in WalkedSnapshots : k <= i
      BY <1>2, <1>5, <1>9, <2>2
    <3>5. walked[i] <= tick
      BY <1>7, <3>1, <3>2, <3>3, <3>4
    <3> QED BY <1>5, <2>2, <3>1, <3>5
  <2> QED BY <1>5, <2>1, <2>2
<1> QED BY <1>10, <1>11, <1>12, <1>13, <1>14 DEF CInv

LEMMA WalkOtherKeeps ==
  ASSUME CInv, WalkFrame, WalkOther(file[Len(walked) + 1])
  PROVE  CInv'
<1> DEFINE n == Len(walked) + 1
           tick == file[n].header + correction
<1>1. /\ ~IsPacket(file[n]) /\ walked' = Append(walked, tick)
      /\ ordinal' = ordinal /\ correction' = correction
  BY DEF WalkOther
<1>2. /\ pc = "walk" /\ pc' = pc /\ file' = file /\ server' = server /\ client' = client
      /\ clock' = clock /\ seen' = seen
      /\ n \in 1..Len(file) /\ n - 1 = Len(walked) /\ n - 1 \in Nat /\ Len(file) \in Nat
      /\ correction \in Int
      /\ \A i \in 1..Len(file) : /\ file[i].header \in Nat
                                 /\ IsSnapshot(file[i]) => file[i].kind = "packet"
      /\ PacketsTo(file, n) = PacketsTo(file, n - 1) + 0
      /\ PacketsTo(file, n) \in Nat /\ PacketsTo(file, n - 1) \in Nat
      /\ ordinal = PacketsTo(file, n - 1)
  BY <1>1, WalkFrom
<1>3. n \in (Len(walked) + 1)..Len(file) /\ n \in Nat
  BY <1>2
<1>4. /\ tick >= 0
      /\ \A i \in WalkedSnapshots : (\A k \in WalkedSnapshots : k <= i) => walked[i] <= tick
  BY <1>3 DEF CInv, Carried
<1>5. tick \in Nat
  BY <1>2, <1>4
<1>6. ~IsSnapshot(file[n])
  BY <1>1, <1>2 DEF IsPacket
<1>7. /\ Len(walked') = n /\ walked' \in Seq(Nat) /\ walked'[n] = tick
      /\ \A i \in 1..Len(walked) : walked'[i] = walked[i]
      /\ \A i \in 1..Len(walked') : i \in 1..Len(walked) \/ i = n
      /\ \A i : i \in WalkedSnapshots' <=> i \in WalkedSnapshots \/ (i = n /\ IsSnapshot(file[n]))
  BY <1>1, <1>5, WalkAppends
<1>8. \A i : i \in WalkedSnapshots' <=> i \in WalkedSnapshots
  BY <1>6, <1>7
<1>9. \A i \in WalkedSnapshots : i \in 1..Len(walked) /\ i < n /\ i \in Nat
  BY <1>2 DEF WalkedSnapshots
<1> HIDE DEF n, tick
<1>10. TypeOK'
  BY <1>1, <1>2, <1>7 DEF CInv, TypeOK
<1>11. Recorded' /\ Clocked' /\ SeenInOrder'
  <2>1. file' = file /\ client' = client /\ server' = server
    BY <1>2
  <2>2. pc' = pc /\ pc = "walk" /\ clock' = clock /\ seen' = seen
    BY <1>2
  <2>3. Recorded'
    BY <2>1 DEF CInv, Recorded
  <2>4. Clocked' /\ SeenInOrder'
    BY <2>1, <2>2 DEF CInv, Clocked, SeenInOrder
  <2> QED BY <2>3, <2>4
<1>12. Walked'
  <2>1. \A i \in 1..Len(walked') : IsPacket(file[i]) => walked'[i] = Retimed(file, i)
    BY <1>1, <1>7 DEF CInv, Walked
  <2> QED BY <1>1, <1>2, <1>7, <2>1 DEF Walked
<1>13. Carried'
  <2> SUFFICES ASSUME NEW j \in (n + 1)..Len(file)
               PROVE  /\ file[j].header + correction >= 0
                      /\ \A i \in WalkedSnapshots' :
                           (\A k \in WalkedSnapshots' : k <= i) =>
                             walked'[i] <= file[j].header + correction
    BY <1>1, <1>2, <1>7 DEF Carried
  <2>1. j \in (Len(walked) + 1)..Len(file)
    BY <1>2
  <2>2. ASSUME NEW i \in WalkedSnapshots', \A k \in WalkedSnapshots' : k <= i
        PROVE  walked'[i] <= file[j].header + correction
    <3>1. i \in WalkedSnapshots /\ \A k \in WalkedSnapshots : k <= i
      BY <1>8, <2>2
    <3>2. walked[i] <= file[j].header + correction
      BY <2>1, <3>1 DEF CInv, Carried
    <3> QED BY <1>7, <1>9, <3>1, <3>2
  <2> QED BY <2>1, <2>2 DEF CInv, Carried
<1>14. AfterItsSnapshot'
  <2> SUFFICES ASSUME NEW i \in WalkedSnapshots', NEW j \in 1..Len(walked'), i < j,
                      \A k \in WalkedSnapshots' : k <= i \/ k > j
               PROVE  walked'[i] <= walked'[j]
    BY DEF AfterItsSnapshot
  <2>1. /\ i \in WalkedSnapshots /\ i \in 1..Len(walked)
        /\ \A k \in WalkedSnapshots : k <= i \/ k > j
    BY <1>8, <1>9
  <2>2. CASE j \in 1..Len(walked)
    BY <1>7, <2>1, <2>2 DEF CInv, AfterItsSnapshot
  <2>3. CASE j = n
    <3>1. \A k \in WalkedSnapshots : k <= i
      BY <1>3, <1>9, <2>1, <2>3
    <3> QED BY <1>4, <1>7, <2>1, <2>3, <3>1
  <2> QED BY <1>7, <2>2, <2>3
<1> QED BY <1>10, <1>11, <1>12, <1>13, <1>14 DEF CInv

\* The entity pass takes the next tick of the clock.
LEMMA EntityPacketKeeps ==
  ASSUME CInv, EntityPacket
  PROVE  CInv'
<1> DEFINE n == Len(seen) + 1
           all == PacketsTo(file, Len(file))
<1>1. /\ pc = "entities" /\ pc' = pc /\ file' = file /\ server' = server /\ client' = client
      /\ clock' = clock /\ walked' = walked /\ ordinal' = ordinal /\ correction' = correction
      /\ Len(seen) < all
  BY DEF EntityPacket
<1>2. /\ file \in Seq(Frame) /\ client \in Nat /\ seen \in Seq(Nat) /\ clock \in Seq(Nat)
      /\ clock = [k \in 1..all |-> Retimed(file, PacketAt(file, k))]
      /\ \A k \in 1..Len(seen) : seen[k] = clock[k]
  BY <1>1 DEF CInv, TypeOK, Clocked, SeenInOrder
<1>3. all \in Nat /\ n \in 1..all /\ n \in Nat
  <2>1. all \in Nat
    BY <1>2, PacketsToNat
  <2> QED BY <1>1, <1>2, <2>1
<1> HIDE DEF all
<1>4. Len(clock) = all /\ clock[n] \in Nat
  <2>1. Len(clock) = all
    BY <1>2, <1>3
  <2> QED BY <1>2, <1>3, <2>1
<1>5. PacketTick(Len(seen)) = clock[n] /\ PacketTick(Len(seen)) # None
  BY <1>1, <1>4, DemoClockAssumption DEF PacketTick, all
<1>6. seen' = Append(seen, clock[n])
  BY <1>5 DEF EntityPacket
<1>7. /\ seen' \in Seq(Nat) /\ Len(seen') = n
      /\ \A k \in 1..Len(seen') : seen'[k] = clock[k]
  <2>1. seen \in Seq(Nat) /\ \A k \in 1..Len(seen) : seen[k] = clock[k]
    BY <1>2
  <2>2. seen' \in Seq(Nat) /\ Len(seen') = n /\ seen'[n] = clock[n]
        /\ \A k \in 1..Len(seen) : seen'[k] = seen[k]
    BY <1>4, <1>6, <2>1
  <2> QED BY <2>1, <2>2
<1>8. TypeOK' /\ Recorded' /\ Clocked' /\ Walked'
  BY <1>1, <1>7 DEF CInv, TypeOK, Recorded, Clocked, Walked
<1>9. SeenInOrder'
  <2>1. Len(seen') <= PacketsTo(file, Len(file))
    BY <1>3, <1>7 DEF all
  <2> QED BY <1>1, <1>7, <2>1 DEF SeenInOrder
<1>10. WalkedSnapshots' = WalkedSnapshots
  BY <1>1 DEF WalkedSnapshots
<1>11. Carried' /\ AfterItsSnapshot'
  BY <1>1, <1>10 DEF CInv, Carried, AfterItsSnapshot
<1> QED BY <1>8, <1>9, <1>11 DEF CInv

\* The end of a walk changes nothing it found.
LEMMA EndKeeps ==
  ASSUME CInv, WalkEnds \/ EntityPassEnds \/ UNCHANGED vars
  PROVE  CInv'
<1>1. /\ file' = file /\ server' = server /\ client' = client /\ clock' = clock
      /\ ordinal' = ordinal /\ correction' = correction /\ walked' = walked /\ seen' = seen
      /\ \/ pc' = pc
         \/ pc = "walk" /\ pc' = "entities" /\ Len(walked) = Len(file)
         \/ pc = "entities" /\ pc' = "done"
  BY DEF WalkEnds, EntityPassEnds, vars
<1>2. TypeOK' /\ Recorded'
  BY <1>1 DEF CInv, TypeOK, Recorded
<1>3. Clocked' /\ Walked' /\ SeenInOrder'
  BY <1>1 DEF CInv, Clocked, Walked, SeenInOrder
<1>4. WalkedSnapshots' = WalkedSnapshots
  BY <1>1 DEF WalkedSnapshots
<1>5. Carried' /\ AfterItsSnapshot'
  BY <1>1, <1>4 DEF CInv, Carried, AfterItsSnapshot
<1> QED BY <1>2, <1>3, <1>5 DEF CInv

LEMMA CInvStep == CInv /\ [Next]_vars => CInv'
<1> SUFFICES ASSUME CInv, [Next]_vars PROVE CInv'
  OBVIOUS
<1>1. CASE Record
  BY <1>1, RecordKeeps
<1>2. CASE ReadClock
  BY <1>2, ReadClockKeeps
<1>3. CASE WalkFrame
  <2>1. WalkPacket(file[Len(walked) + 1]) \/ WalkOther(file[Len(walked) + 1])
    BY <1>3 DEF WalkFrame
  <2> QED BY <1>3, <2>1, WalkPacketKeeps, WalkOtherKeeps
<1>4. CASE EntityPacket
  BY <1>4, EntityPacketKeeps
<1>5. CASE WalkEnds \/ EntityPassEnds \/ Done \/ UNCHANGED vars
  BY <1>5, EndKeeps DEF Done
<1> QED BY <1>1, <1>2, <1>3, <1>4, <1>5 DEF Next

LEMMA CInvHolds == Spec => []CInv
<1> QED BY CInvInit, CInvStep, PTL DEF Spec

-----------------------------------------------------------------------------
(* The theorems                                                            *)

\* Every tick a walk gives a frame or a packet is one of the recording's, for
\* files of any length: none lies before its start.
THEOREM TypeCorrect == Spec => []TypeOK
<1>1. CInv => TypeOK
  BY DEF CInv
<1> QED BY <1>1, CInvHolds, PTL

\* A frame that follows a snapshot is not walked before it, whatever kind of
\* frame it is and however the client adjusted its clock.
THEOREM AfterSnapshots == Spec => []AfterItsSnapshot
<1>1. CInv => AfterItsSnapshot
  BY DEF CInv
<1> QED BY <1>1, CInvHolds, PTL

\* A snapshot walked is one of the file's, at the server's tick less the
\* usual gap.
LEMMA SnapshotWalked ==
  ASSUME CInv, NEW i \in WalkedSnapshots
  PROVE  /\ file \in Seq(Frame) /\ client \in Nat
         /\ \A j \in 1..Len(file) : file[j].header <= client
         /\ i \in Snapshots(file) /\ i \in 1..Len(file) /\ i \in 1..Len(walked)
         /\ file[i].server \in Nat /\ file[i].header \in Nat /\ Base(file) \in Int
         /\ walked[i] = IF file[i].server < Base(file) THEN 0 ELSE file[i].server - Base(file)
<1>1. /\ file \in Seq(Frame) /\ client \in Nat /\ walked \in Seq(Nat)
      /\ \A j \in 1..Len(file) : file[j].header <= client
      /\ Len(walked) <= Len(file)
  BY DEF CInv, TypeOK, Recorded, Walked
<1>2. i \in 1..Len(walked) /\ i \in 1..Len(file) /\ IsSnapshot(file[i])
  BY <1>1 DEF WalkedSnapshots
<1>3. i \in Snapshots(file) /\ file[i].kind = "packet"
  BY <1>2 DEF Snapshots, CInv, Recorded
<1>4. file[i].server \in Nat /\ file[i].header \in Nat
  <2>1. file[i] \in Frame
    BY <1>1, <1>2
  <2> QED BY <1>2, <2>1 DEF Frame, IsSnapshot
<1>5. Base(file) \in Int
  BY <1>1, <1>3, BaseIsUsual
<1>6. walked[i] = Retimed(file, i)
  BY <1>2, <1>3 DEF IsPacket, CInv, Walked
<1> QED BY <1>1, <1>2, <1>3, <1>4, <1>5, <1>6, SnapshotRetimed

\* Between snapshots the walk runs on the server's clock, however the
\* client's skews: the shift is one for the whole file.
THEOREM SnapshotsKeepDistance == Spec => []SnapshotsOnServer
<1>1. CInv => SnapshotsOnServer
  <2> SUFFICES ASSUME CInv, NEW i \in WalkedSnapshots, NEW j \in WalkedSnapshots, i < j
               PROVE  LET between == file[j].server - file[i].server
                      IN IF walked[i] > 0 THEN walked[j] - walked[i] = between
                         ELSE walked[j] \in 0..between
    BY DEF SnapshotsOnServer
  <2>1. /\ file[i].server \in Nat /\ Base(file) \in Int /\ i \in 1..Len(file)
        /\ walked[i] = IF file[i].server < Base(file) THEN 0 ELSE file[i].server - Base(file)
    BY SnapshotWalked
  <2>2. /\ file[j].server \in Nat /\ j \in 1..Len(file)
        /\ walked[j] = IF file[j].server < Base(file) THEN 0 ELSE file[j].server - Base(file)
    BY SnapshotWalked
  <2>3. file[i].server < file[j].server
    <3>1. IsSnapshot(file[i]) /\ IsSnapshot(file[j])
      BY DEF WalkedSnapshots
    <3> QED BY <2>1, <2>2, <3>1 DEF CInv, Recorded
  <2> QED BY <2>1, <2>2, <2>3
<1> QED BY <1>1, CInvHolds, PTL

\* The shift leaves the most snapshots it can on their header tick.
THEOREM MostStay == Spec => []MostKeepHeader
<1>1. CInv => MostKeepHeader
  <2> SUFFICES ASSUME CInv, pc = "entities", NEW i \in WalkedSnapshots
               PROVE  Cardinality({j \in WalkedSnapshots : Gap(file[j]) = Gap(file[i])})
                        <= Cardinality({j \in WalkedSnapshots : walked[j] = file[j].header})
    BY DEF MostKeepHeader
  <2> DEFINE stay == {j \in WalkedSnapshots : walked[j] = file[j].header}
  <2>1. /\ file \in Seq(Frame) /\ client \in Nat /\ i \in Snapshots(file)
        /\ \A j \in 1..Len(file) : file[j].header <= client
    BY SnapshotWalked
  <2>2. WalkedSnapshots = Snapshots(file)
    BY DEF CInv, Walked, WalkedSnapshots, Snapshots
  <2>3. Cardinality(GapOf(file, Gap(file[i]))) <= Cardinality(GapOf(file, Base(file)))
    BY <2>1, BaseIsUsual
  <2>4. GapOf(file, Base(file)) \subseteq stay
    <3> SUFFICES ASSUME NEW j \in WalkedSnapshots, Gap(file[j]) = Base(file)
                 PROVE  walked[j] = file[j].header
      BY <2>2 DEF GapOf
    <3> QED BY SnapshotWalked DEF Gap
  <2>5. IsFiniteSet(stay)
    <3>1. stay \subseteq Snapshots(file)
      BY <2>2
    <3> QED BY <2>1, <3>1, SnapshotsFinite, FS_Subset
  <2>6. Cardinality(GapOf(file, Base(file))) <= Cardinality(stay)
    BY <2>4, <2>5, FS_Subset
  <2>7. /\ Cardinality(GapOf(file, Gap(file[i]))) \in Nat
        /\ Cardinality(GapOf(file, Base(file))) \in Nat /\ Cardinality(stay) \in Nat
    BY <2>1, <2>5, SnapshotsFinite, FS_CardinalityType
  <2>8. {j \in WalkedSnapshots : Gap(file[j]) = Gap(file[i])} = GapOf(file, Gap(file[i]))
    BY <2>2 DEF GapOf
  <2> HIDE DEF stay
  <2>9. Cardinality(GapOf(file, Gap(file[i]))) <= Cardinality(stay)
    BY <2>3, <2>6, <2>7
  <2> QED BY <2>8, <2>9 DEF stay
<1> QED BY <1>1, CInvHolds, PTL

\* The entity pass, which counts packets, and the frame walk, which also
\* counts them but reads every frame, give each packet one tick.
THEOREM OneTickPerPacket == Spec => []WalksAgree
<1>1. CInv => WalksAgree
  <2> SUFFICES ASSUME CInv, pc = "entities", NEW i \in 1..Len(walked), IsPacket(file[i]),
                      PacketsTo(file, i) <= Len(seen)
               PROVE  seen[PacketsTo(file, i)] = walked[i]
    BY DEF WalksAgree
  <2>1. /\ file \in Seq(Frame) /\ i \in 1..Len(file) /\ seen \in Seq(Nat)
        /\ walked[i] = Retimed(file, i)
        /\ clock = [n \in 1..PacketsTo(file, Len(file)) |-> Retimed(file, PacketAt(file, n))]
        /\ \A k \in 1..Len(seen) : seen[k] = clock[k]
    BY DEF CInv, TypeOK, Walked, Clocked, SeenInOrder
  <2>2. /\ PacketsTo(file, i) \in 1..PacketsTo(file, Len(file))
        /\ PacketAt(file, PacketsTo(file, i)) = i
    BY <2>1, PacketFound
  <2>3. clock[PacketsTo(file, i)] = Retimed(file, i)
    BY <2>1, <2>2
  <2>4. PacketsTo(file, i) \in 1..Len(seen)
    <3>1. PacketsTo(file, i) \in Nat /\ PacketsTo(file, i) >= 1
      <4>1. PacketsTo(file, Len(file)) \in Nat
        BY <2>1, PacketsToNat
      <4> QED BY <2>2, <4>1
    <3> QED BY <2>1, <3>1
  <2> QED BY <2>1, <2>3, <2>4
<1> QED BY <1>1, CInvHolds, PTL
=============================================================================
