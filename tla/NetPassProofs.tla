----------------------------- MODULE NetPassProofs -----------------------------
(***************************************************************************)
(* Proofs about the net pass: the roster and who holds a slot, for any     *)
(* slots, order of the string tables and length of the recording.          *)
(***************************************************************************)
EXTENDS NetPass, FiniteSetTheorems, TLAPS

-----------------------------------------------------------------------------
(* Orders of finite sets                                                   *)

\* A set of naturals that is not empty has a least element.
LEMMA LeastNat ==
  ASSUME NEW S, S \subseteq Nat, S # {}
  PROVE  \E m \in S : \A n \in S : m <= n
<1> DEFINE less == OpToRel(<, Nat)
<1>1. IsWellFoundedOn(less, Nat)
  BY NatLessThanWellFounded
<1>2. \A a, b \in Nat : a < b => <<a, b>> \in less
  BY DEF OpToRel
<1> HIDE DEF less
<1>3. PICK m \in S : \A n \in S : ~(<<n, m>> \in less)
  BY <1>1, WFMin
<1>4. ASSUME NEW n \in S
      PROVE  m <= n
  <2>1. ~(<<n, m>> \in less) /\ m \in Nat /\ n \in Nat
    BY <1>3
  <2>2. ~(n < m)
    BY <1>2, <2>1
  <2> QED BY <2>1, <2>2
<1> QED BY <1>4


IsTotalOrder(le, S) ==
  /\ \A a, b \in S : <<a, b>> \in le \/ <<b, a>> \in le
  /\ \A a, b \in S : <<a, b>> \in le /\ <<b, a>> \in le => a = b
  /\ \A a, b, c \in S : <<a, b>> \in le /\ <<b, c>> \in le => <<a, c>> \in le

\* How many are no greater.
Rank(le, S, a) == Cardinality({b \in S : <<b, a>> \in le})

\* Ranks grow with the order, and each place has its element.
LEMMA Ranks ==
  ASSUME NEW S, IsFiniteSet(S), NEW le, IsTotalOrder(le, S)
  PROVE  /\ \A a \in S : Rank(le, S, a) \in 1..Cardinality(S)
         /\ \A a, b \in S : <<a, b>> \in le /\ a # b => Rank(le, S, a) < Rank(le, S, b)
         /\ \A k \in 1..Cardinality(S) : \E a \in S : Rank(le, S, a) = k
<1> DEFINE n == Cardinality(S)
           Upto(a) == {b \in S : <<b, a>> \in le}
           R(a) == Rank(le, S, a)
<1>1. n \in Nat
  BY FS_CardinalityType
<1>2. ASSUME NEW a \in S
      PROVE  IsFiniteSet(Upto(a)) /\ R(a) \in 1..n
  <2>1. Upto(a) \in SUBSET S /\ a \in Upto(a)
    BY DEF IsTotalOrder
  <2>2. IsFiniteSet(Upto(a)) /\ R(a) <= n
    BY <2>1, FS_Subset DEF Rank
  <2>3. R(a) \in Nat /\ R(a) # 0
    BY <2>1, <2>2, FS_CardinalityType, FS_EmptySet DEF Rank
  <2> HIDE DEF R, n, Upto
  <2> QED BY <1>1, <2>2, <2>3
<1>3. ASSUME NEW a \in S, NEW b \in S, <<a, b>> \in le, a # b
      PROVE  R(a) < R(b)
  <2>1. Upto(a) \in SUBSET Upto(b) /\ b \in Upto(b) /\ b \notin Upto(a)
    BY <1>3 DEF IsTotalOrder
  <2>2. R(a) <= R(b) /\ (R(b) = R(a) => Upto(b) = Upto(a))
    BY <1>2, <2>1, FS_Subset DEF Rank
  <2>3. R(a) \in Nat /\ R(b) \in Nat
    <3> HIDE DEF R, n, Upto
    <3> QED BY <1>1, <1>2
  <2> HIDE DEF R
  <2> QED BY <2>1, <2>2, <2>3
<1> DEFINE r == [a \in S |-> R(a)]
<1>4. r \in Injection(S, 1..n)
  <2>1. \A a, b \in S : a # b => R(a) # R(b)
    <3> SUFFICES ASSUME NEW a \in S, NEW b \in S, a # b PROVE R(a) # R(b)
      OBVIOUS
    <3>1. R(a) \in Nat /\ R(b) \in Nat
      <4> HIDE DEF R, n, Upto
      <4> QED BY <1>1, <1>2
    <3>2. <<a, b>> \in le \/ <<b, a>> \in le
      BY DEF IsTotalOrder
    <3>3. R(a) < R(b) \/ R(b) < R(a)
      BY <1>3, <3>2
    <3> HIDE DEF R
    <3> QED BY <3>1, <3>3
  <2> HIDE DEF R
  <2>2. r \in [S -> 1..n]
    BY <1>2
  <2>3. \A a, b \in S : r[a] = r[b] => a = b
    BY <2>1
  <2> QED BY <2>2, <2>3 DEF Injection, IsInjective
<1>5. r \in Surjection(S, 1..n)
  <2>1. IsFiniteSet(1..n) /\ Cardinality(1..n) = n
    BY <1>1, FS_Interval
  <2> HIDE DEF r
  <2> QED BY <1>4, <2>1, FS_Injection
<1>6. ASSUME NEW k \in 1..n
      PROVE  \E a \in S : R(a) = k
  <2>1. PICK a \in S : r[a] = k
    <3> HIDE DEF r
    <3> QED BY <1>5 DEF Surjection
  <2>2. r[a] = R(a)
    BY DEF r
  <2> QED BY <2>1, <2>2
<1> QED BY <1>2, <1>3, <1>6

\* A set of slots in ascending order has all of them.
LEMMA AscendingHasAll ==
  ASSUME NEW S \in SUBSET Slot
  PROVE  /\ Ascending(S) \in Seq(S) /\ Len(Ascending(S)) = Cardinality(S)
         /\ \A s \in S : \E i \in 1..Cardinality(S) : Ascending(S)[i] = s
<1> DEFINE n == Cardinality(S)
           le == {p \in S \X S : p[1] <= p[2]}
           At(i) == CHOOSE s \in S : Cardinality({r \in S : r <= s}) = i
<1>1. IsFiniteSet(S) /\ n \in Nat /\ \A s \in S : s \in Nat
  BY NetPassAssumption, FS_Subset, FS_CardinalityType
<1>2. \A a, b \in S : <<a, b>> \in le <=> a <= b
  OBVIOUS
<1> HIDE DEF le
<1>3. IsTotalOrder(le, S)
  BY <1>1, <1>2 DEF IsTotalOrder
<1>4. \A s \in S : Cardinality({r \in S : r <= s}) = Rank(le, S, s)
  <2> SUFFICES ASSUME NEW s \in S PROVE Cardinality({r \in S : r <= s}) = Rank(le, S, s)
    OBVIOUS
  <2>1. {r \in S : r <= s} = {r \in S : <<r, s>> \in le}
    BY <1>2
  <2> QED BY <2>1 DEF Rank
<1>5. /\ \A s \in S : Rank(le, S, s) \in 1..n
      /\ \A a, b \in S : <<a, b>> \in le /\ a # b => Rank(le, S, a) < Rank(le, S, b)
      /\ \A k \in 1..n : \E s \in S : Rank(le, S, s) = k
  BY <1>1, <1>3, Ranks
<1>6. \A i \in 1..n : At(i) \in S /\ Rank(le, S, At(i)) = i
  BY <1>4, <1>5
<1>7. Ascending(S) = [i \in 1..n |-> At(i)]
  BY DEF Ascending
<1> HIDE DEF At
<1>8. ASSUME NEW s \in S
      PROVE  \E i \in 1..n : At(i) = s
  <2> DEFINE i == Rank(le, S, s)
  <2>1. i \in 1..n /\ i \in Nat
    BY <1>1, <1>5
  <2> HIDE DEF i
  <2>2. At(i) \in S /\ Rank(le, S, At(i)) = i
    BY <1>6, <2>1
  <2>3. ~ (Rank(le, S, At(i)) < Rank(le, S, s)) /\ ~ (Rank(le, S, s) < Rank(le, S, At(i)))
    BY <2>1, <2>2 DEF i
  <2>4. <<At(i), s>> \in le \/ <<s, At(i)>> \in le
    BY <1>3, <2>2 DEF IsTotalOrder
  <2>5. At(i) = s
    BY <1>5, <2>2, <2>3, <2>4
  <2> QED BY <2>1, <2>5
<1>9. [i \in 1..n |-> At(i)] \in Seq(S)
  BY <1>1, <1>6
<1> QED BY <1>1, <1>7, <1>8, <1>9

-----------------------------------------------------------------------------
(* What is read of what is written                                         *)

LEMMA SlotsAreNumbers == \A s \in Slot : s \in Nat /\ s + 1 \in Nat
<1>1. Slot \subseteq Nat
  BY NetPassAssumption
<1> QED BY <1>1

LEMMA Appended ==
  ASSUME NEW M, NEW q \in Seq(M), NEW m \in M
  PROVE  /\ Append(q, m) \in Seq(M) /\ Len(q) \in Nat /\ Len(Append(q, m)) = Len(q) + 1
         /\ Append(q, m) # <<>>
         /\ \A i \in 1..Len(q) : Append(q, m)[i] = q[i]
         /\ Append(q, m)[Len(q) + 1] = m
OBVIOUS

LEMMA Concat ==
  ASSUME NEW M, NEW a \in Seq(M), NEW b \in Seq(M)
  PROVE  /\ a \o b \in Seq(M) /\ Len(a \o b) = Len(a) + Len(b)
         /\ \A i \in 1..(Len(a) + Len(b)) : (a \o b)[i] = IF i <= Len(a) THEN a[i] ELSE b[i - Len(a)]
OBVIOUS

\* An entry is read at the index it was written for, although the update only
\* carries the indexes that do not follow the one before.
LEMMA IndexesRead ==
  ASSUME NEW es, NEW n \in Nat, Len(es) = n, \A i \in 1..n : es[i].index \in Nat
  PROVE  /\ Len(WriteEntries(es)) = n /\ DOMAIN WriteEntries(es) = 1..n
         /\ \A i \in 1..n : /\ EntryIndex(WriteEntries(es))[i] = es[i].index
                            /\ WriteEntries(es)[i].userdata = es[i].userdata
<1> DEFINE w == WriteEntries(es)
           Prev(i) == IF i = 1 THEN -1 ELSE es[i - 1].index
           Eq(h) == h = [i \in 0..Len(w) |->
                          IF i = 0 THEN -1 ELSE IF w[i].next THEN h[i - 1] + 1 ELSE w[i].index]
           at == CHOOSE h : Eq(h)
           f == [i \in 0..n |-> IF i = 0 THEN -1 ELSE es[i].index]
<1>1. w = [i \in 1..n |-> [next |-> es[i].index = Prev(i) + 1,
                           index |-> IF es[i].index = Prev(i) + 1 THEN 0 ELSE es[i].index,
                           userdata |-> es[i].userdata]]
  BY DEF WriteEntries
<1>2. Len(w) = n /\ DOMAIN w = 1..n
  BY <1>1
<1>3. \A i \in 1..n : /\ w[i].next <=> es[i].index = Prev(i) + 1
                      /\ w[i].index = IF es[i].index = Prev(i) + 1 THEN 0 ELSE es[i].index
                      /\ w[i].userdata = es[i].userdata
  <2> HIDE DEF Prev, w
  <2>1. \A i \in 1..n :
          w[i] = [next |-> es[i].index = Prev(i) + 1,
                  index |-> IF es[i].index = Prev(i) + 1 THEN 0 ELSE es[i].index,
                  userdata |-> es[i].userdata]
    BY <1>1
  <2> SUFFICES ASSUME NEW i \in 1..n
               PROVE  /\ w[i].next <=> es[i].index = Prev(i) + 1
                      /\ w[i].index = IF es[i].index = Prev(i) + 1 THEN 0 ELSE es[i].index
                      /\ w[i].userdata = es[i].userdata
    OBVIOUS
  <2> DEFINE x == es[i].index = Prev(i) + 1
             y == IF x THEN 0 ELSE es[i].index
  <2>2. w[i] = [next |-> x, index |-> y, userdata |-> es[i].userdata]
    BY <2>1
  <2> HIDE DEF x, y
  <2>3. w[i].next = x
    <3>1. x \in BOOLEAN
      BY DEF x
    <3> QED BY <3>1, <2>2
  <2>4. w[i].index = y /\ w[i].userdata = es[i].userdata
    BY <2>2, SMT
  <2> QED BY <2>3, <2>4 DEF x, y
<1>4. EntryIndex(w) = at
  BY DEF EntryIndex
<1> HIDE DEF w
<1>5. \A i \in 1..n : f[i - 1] = Prev(i)
  OBVIOUS
<1>6. Eq(f)
  <2>1. ASSUME NEW i \in 0..n
        PROVE  f[i] = IF i = 0 THEN -1 ELSE IF w[i].next THEN f[i - 1] + 1 ELSE w[i].index
    <3>1. CASE i = 0
      BY <3>1
    <3>2. CASE i # 0
      <4>1. i \in 1..n
        BY <3>2
      <4>2. f[i] = es[i].index /\ f[i - 1] = Prev(i)
        BY <4>1, <1>5, <3>2
      <4> HIDE DEF f, Prev
      <4> QED BY <4>1, <4>2, <3>2, <1>3
    <3> QED BY <3>1, <3>2
  <2>2. f = [i \in 0..n |-> f[i]]
    OBVIOUS
  <2> HIDE DEF f
  <2> QED BY <2>1, <2>2, <1>2
<1>7. Eq(at)
  <2> HIDE DEF Eq, f
  <2> QED BY <1>6
<1> HIDE DEF at
<1>8. \A i \in 0..n : at[i] = IF i = 0 THEN -1 ELSE IF w[i].next THEN at[i - 1] + 1 ELSE w[i].index
  BY <1>7, <1>2
<1> DEFINE Bad == {i \in 0..n : at[i] # f[i]}
<1>9. Bad = {}
  <2>1. SUFFICES ASSUME Bad # {} PROVE FALSE
    OBVIOUS
  <2>2. Bad \subseteq Nat
    OBVIOUS
  <2>3. PICK m \in Bad : \A y \in Bad : m <= y
    <3> HIDE DEF Bad
    <3> QED BY <2>1, <2>2, LeastNat
  <2>4. m \in 0..n /\ at[m] # f[m]
    OBVIOUS
  <2>5. m # 0
    BY <2>4, <1>8
  <2>6. m \in 1..n /\ m - 1 \in 0..n /\ ~ (m <= m - 1)
    BY <2>4, <2>5
  <2>7. at[m - 1] = f[m - 1] /\ f[m - 1] = Prev(m) /\ f[m] = es[m].index
    BY <2>3, <2>6, <1>5
  <2> HIDE DEF f, Bad, Prev
  <2> QED BY <2>4, <2>5, <2>6, <2>7, <1>3, <1>8
<1>10. \A i \in 1..n : at[i] = es[i].index
  <2> SUFFICES ASSUME NEW i \in 1..n PROVE at[i] = es[i].index
    OBVIOUS
  <2>1. i \in 0..n /\ i # 0
    OBVIOUS
  <2>2. at[i] = f[i]
    <3> HIDE DEF f
    <3> QED BY <2>1, <1>9
  <2> QED BY <2>1, <2>2
<1> QED BY <1>2, <1>3, <1>4, <1>10 DEF w

\* A payload that breaks off is known for it, and read up to there.
LEMMA ReadPrefix ==
  ASSUME NEW M, NEW payload \in Seq(M), \A i \in 1..Len(payload) : payload[i].type # "bad",
         errors \in Nat, NEW p \in Recorded(payload)
  PROVE  \/ Readable(p) /\ WalkPacket(p) = payload
         \/ ~ Readable(p) /\ \E j \in 0..Len(payload) : WalkPacket(p) = SubSeq(payload, 1, j)
<1> DEFINE n == Len(payload)
           bad == [type |-> "bad"]
<1>1. n \in Nat
  OBVIOUS
<1>2. CASE p = payload
  <2>1. Readable(p)
    BY <1>2 DEF Readable
  <2>2. {i \in 1..Len(p) : p[i].type = "bad"} = {}
    BY <1>2
  <2>3. WalkPacket(p) = SubSeq(payload, 1, n)
    BY <1>2, <2>2 DEF WalkPacket
  <2> QED BY <2>1, <2>3
<1>3. ASSUME NEW i \in 1..(n + 1), p = InsertAt(payload, i, bad)
      PROVE  ~ Readable(p) /\ WalkPacket(p) = SubSeq(payload, 1, i - 1)
  <2> DEFINE a == SubSeq(payload, 1, i - 1)
             c == SubSeq(payload, i, n)
  <2>1. /\ a \in Seq(M) /\ c \in Seq(M) /\ Len(a) = i - 1
        /\ \A j \in 1..(i - 1) : a[j] = payload[j] /\ j \in 1..n
    BY <1>1
  <2>2. p = a \o <<bad>> \o c
    BY <1>3 DEF InsertAt
  <2>3. Len(p) \in Nat /\ i \in 1..Len(p) /\ p[i] = bad /\ \A j \in 1..(i - 1) : p[j] = a[j]
    <3> HIDE DEF a, c, bad
    <3>1. a \in Seq(M \cup {bad}) /\ c \in Seq(M \cup {bad}) /\ <<bad>> \in Seq(M \cup {bad})
      BY <2>1
    <3>2. /\ a \o <<bad>> \in Seq(M \cup {bad}) /\ Len(a \o <<bad>>) = i
          /\ (a \o <<bad>>)[i] = bad /\ \A j \in 1..(i - 1) : (a \o <<bad>>)[j] = a[j]
      BY <3>1, <2>1, <1>1
    <3>3. /\ Len(p) = i + Len(c) /\ Len(c) \in Nat
          /\ \A j \in 1..i : p[j] = (a \o <<bad>>)[j]
      BY <3>1, <3>2, <2>2, <1>1
    <3> QED BY <3>2, <3>3, <1>1
  <2>4. ~ Readable(p)
    BY <2>3 DEF Readable
  <2> DEFINE bads == {j \in 1..Len(p) : p[j].type = "bad"}
  <2>5. i \in bads /\ \A j \in bads : i <= j
    <3>1. \A j \in 1..(i - 1) : p[j].type # "bad"
      BY <2>1, <2>3
    <3> QED BY <3>1, <2>3
  <2>6. Min(bads) = i
    <3>1. \A j \in bads : j \in Nat
      BY <2>3
    <3> HIDE DEF bads
    <3>2. Min(bads) \in bads /\ \A j \in bads : Min(bads) <= j
      BY <2>5 DEF Min
    <3>3. Min(bads) <= i /\ i <= Min(bads) /\ Min(bads) \in Nat /\ i \in Nat
      BY <2>5, <3>1, <3>2
    <3> QED BY ONLY <3>3
  <2>7. WalkPacket(p) = SubSeq(p, 1, i - 1)
    BY <2>5, <2>6 DEF WalkPacket
  <2>8. SubSeq(p, 1, i - 1) = SubSeq(payload, 1, i - 1)
    BY <1>1, <2>1, <2>3
  <2> QED BY <2>4, <2>7, <2>8
<1>4. p = payload \/ \E i \in 1..(n + 1) : p = InsertAt(payload, i, bad)
  BY DEF Recorded
<1>5. CASE \E i \in 1..(n + 1) : p = InsertAt(payload, i, bad)
  <2>1. PICK i \in 1..(n + 1) : p = InsertAt(payload, i, bad)
    BY <1>5
  <2>2. i - 1 \in 0..n
    BY <1>1
  <2> QED BY <1>3, <2>1, <2>2
<1> QED BY <1>2, <1>4, <1>5

\* What a frame leaves to be taken: the whole payload, or a part of it and a
\* warning.
LEMMA FrameRead ==
  ASSUME NEW M, NEW payload \in Seq(M), \A i \in 1..Len(payload) : payload[i].type # "bad",
         errors \in Nat, warnings \in Nat,
         NEW p \in Recorded(payload), NEW f, ReadFrame(f, p)
  PROVE  /\ inbox' \in Seq(M) /\ errors' \in Nat /\ warnings' \in Nat
         /\ (warnings' = warnings /\ inbox' = payload) \/ warnings' = warnings + 1
         /\ \A k \in 1..Len(inbox') : \E j \in 1..Len(payload) : inbox'[k] = payload[j]
<1>1. inbox' = WalkPacket(p)
  BY DEF ReadFrame
<1>2. CASE Readable(p) /\ WalkPacket(p) = payload
  <2>1. errors' = errors /\ warnings' = warnings
    BY <1>2 DEF ReadFrame
  <2> QED BY <1>1, <1>2, <2>1
<1>3. CASE ~ Readable(p) /\ \E j \in 0..Len(payload) : WalkPacket(p) = SubSeq(payload, 1, j)
  <2>1. PICK j \in 0..Len(payload) : inbox' = SubSeq(payload, 1, j)
    BY <1>1, <1>3
  <2>2. errors' = errors + 1 /\ warnings' = warnings + 1
    BY <1>3 DEF ReadFrame
  <2>3. /\ inbox' \in Seq(M) /\ Len(inbox') = j
        /\ \A k \in 1..j : k \in 1..Len(payload) /\ inbox'[k] = payload[k]
    BY <2>1
  <2> QED BY <2>2, <2>3
<1> QED BY <1>2, <1>3, ReadPrefix

-----------------------------------------------------------------------------
(* Types                                                                   *)

Client == Connection \cup {None}

Connected == [userid : Nat, index : Slot, name : Nat]
Renamed == [userid : Nat, newname : Nat]
Died == [userid : Nat, attacker : Nat, assists : Nat]

ConnectMsg == [type : {"game_event"}, id : {5}, fields : Connected]
RenameMsg == [type : {"game_event"}, id : {8}, fields : Renamed]
DeathMsg == [type : {"game_event"}, id : {3}, fields : Died]
EventMsg == ConnectMsg \cup RenameMsg \cup DeathMsg
ConvarMsg == [type : {"set_convar"}, name : Convars, value : Nat]
ServerMsg == [type : {"server_info"}]
TableMsg == [type : {"create_table"}, name : STRING]
ListMsg == [type : {"event_list"}, defs : {EventDefs}]
Entries == Seq([index : Slot, userdata : Client])
UpdateMsg == [type : {"update_table"}, table_id : Nat, entries : {WriteEntries(es) : es \in Entries}]

QueueMsg == EventMsg \cup ConvarMsg
PacketMsg == QueueMsg \cup UpdateMsg
SignonMsg == ServerMsg \cup TableMsg \cup ListMsg \cup ConvarMsg

\* Each kind of recorded frame holds messages of its own.
TypedCounts ==
  /\ cvar \in Nat /\ nextId \in Nat /\ tick \in Nat /\ errors \in Nat /\ warnings \in Nat

TypedServer ==
  /\ sourcetv \in BOOLEAN /\ order \in TableOrders
  /\ clients \in [Slot -> Client] /\ sent \in [Slot -> Client]
  /\ fired \in Seq(QueueMsg)
  /\ neo \in [Slot -> NeoName \cup {""}] /\ neoSent \in [Slot -> NeoName \cup {""}]

TypedFrame ==
  /\ stage \in {"signon", "dump", "packets"}
  /\ frame \in [kind : {"signon", "packet"}, tick : Nat]
  /\ stage = "signon" => inbox = <<>>
  /\ stage = "dump" => inbox \in Seq(SignonMsg)
  /\ stage = "packets" => inbox \in Seq(PacketMsg)
  /\ truth \in Seq([tick : Nat, clients : [Slot -> Client], cvar : Nat, neo : [Slot -> NeoName \cup {""}]])

TypedPass ==
  /\ players \subseteq Player /\ IsFiniteSet(players)
  /\ cvars \in Seq([tick : Nat, name : Convars, value : Nat])
  /\ deaths \in Seq(Died)
  /\ defs \in {<<>>, EventDefs}
  /\ tables_created \in 0..255 /\ userinfo_table \in (0..255) \cup {None}

Typed == TypedCounts /\ TypedServer /\ TypedFrame /\ TypedPass

\* What a packet left the pass to read is what was on the server when it was
\* sent, and nothing happens there until it is read.
Frames ==
  /\ stage # "packets" => fired = <<>> /\ players = {} /\ truth = <<>> /\ deaths = <<>>
  /\ stage = "dump" => frame.kind = "signon"
  /\ inbox # <<>> /\ stage = "packets" =>
       /\ truth # <<>> /\ fired = <<>> /\ clients = sent
       /\ frame = [kind |-> "packet", tick |-> tick]
  /\ truth = <<>> => tick = 0
  /\ truth # <<>> => truth[Len(truth)].tick = tick /\ truth[Len(truth)].clients = sent
  /\ \A i, j \in 1..Len(truth) : i < j => truth[i].tick < truth[j].tick
  /\ \A p \in players : p.first_seen_tick <= tick

LEMMA EventNames ==
  /\ DOMAIN EventDefs = {3, 5, 8}
  /\ EventDefs[3] = "player_death" /\ EventDefs[5] = "player_connect_client"
  /\ EventDefs[8] = "player_changename"
<1>1. /\ DOMAIN EventIds = {"player_death", "player_connect_client", "player_changename"}
      /\ EventIds["player_death"] = 3 /\ EventIds["player_connect_client"] = 5
      /\ EventIds["player_changename"] = 8
  BY DEF EventIds
<1>2. ASSUME NEW n \in DOMAIN EventIds
      PROVE  /\ EventIds[n] = 3 <=> n = "player_death"
             /\ EventIds[n] = 5 <=> n = "player_connect_client"
             /\ EventIds[n] = 8 <=> n = "player_changename"
  BY <1>1
<1>3. \A id \in {3, 5, 8} : EventDefs[id] \in DOMAIN EventIds /\ EventIds[EventDefs[id]] = id
  BY <1>1 DEF EventDefs
<1> QED BY <1>2, <1>3 DEF EventDefs

\* The three kinds of event, told apart by their ids.
LEMMA Kinds ==
  ASSUME NEW m \in EventMsg
  PROVE  /\ m.type = "game_event" /\ m.id \in {3, 5, 8}
         /\ m.id = 3 => m.fields \in Died
         /\ m.id = 5 => m.fields \in Connected
         /\ m.id = 8 => m.fields \in Renamed
BY DEF EventMsg, ConnectMsg, RenameMsg, DeathMsg

\* Which messages have which type.
LEMMA MessageTypes ==
  /\ \A m \in PacketMsg :
       /\ m.type \in {"game_event", "set_convar", "update_table"}
       /\ m.type = "game_event" => m \in EventMsg
       /\ m.type = "set_convar" => m \in ConvarMsg
       /\ m.type = "update_table" => m \in UpdateMsg
  /\ \A m \in SignonMsg :
       /\ m.type \in {"server_info", "create_table", "event_list", "set_convar"}
       /\ m.type = "create_table" => m \in TableMsg
       /\ m.type = "event_list" => m \in ListMsg
       /\ m.type = "set_convar" => m \in ConvarMsg
<1>1. /\ \A m \in EventMsg : m.type = "game_event"
      /\ \A m \in ConvarMsg : m.type = "set_convar"
      /\ \A m \in UpdateMsg : m.type = "update_table"
      /\ \A m \in ServerMsg : m.type = "server_info"
      /\ \A m \in TableMsg : m.type = "create_table"
      /\ \A m \in ListMsg : m.type = "event_list"
  BY DEF EventMsg, ConnectMsg, RenameMsg, DeathMsg, ConvarMsg, UpdateMsg, ServerMsg, TableMsg, ListMsg
<1> QED BY <1>1 DEF PacketMsg, QueueMsg, SignonMsg

\* An event is read as the one it was fired as, or not at all.
LEMMA EventRead ==
  ASSUME inbox # <<>>, Head(inbox) \in EventMsg, defs \in {<<>>, EventDefs}, Event # None
  PROVE  /\ Event.fields = Head(inbox).fields
         /\ Event.id = "player_death" <=> Head(inbox).id = 3
         /\ Event.id = "player_connect_client" <=> Head(inbox).id = 5
         /\ Event.id = "player_changename" <=> Head(inbox).id = 8
<1> DEFINE m == Head(inbox)
<1>1. m.id \in DOMAIN defs /\ Event = [m EXCEPT !.id = defs[m.id]]
  BY DEF Event, ParseGameEvent
<1>2. defs = EventDefs
  BY <1>1
<1>3. m \in [type : {"game_event"}, id : {3, 5, 8}, fields : {m.fields}]
  BY DEF EventMsg, ConnectMsg, RenameMsg, DeathMsg
<1>4. Event.id = EventDefs[m.id] /\ Event.fields = m.fields
  BY <1>1, <1>2, <1>3
<1> QED BY <1>3, <1>4, EventNames

-----------------------------------------------------------------------------
(* What the frames hold                                                    *)

\* One of the tables is the userinfo table.
LEMMA TheUserinfoTable ==
  ASSUME order \in TableOrders
  PROVE  /\ order \in Seq(STRING) /\ Len(order) \in Nat /\ Len(order) <= 32
         /\ TableId("userinfo") \in Nat /\ TableId("userinfo") < Len(order)
         /\ \A i \in 1..Len(order) : order[i] = "userinfo" <=> i = TableId("userinfo") + 1
<1> DEFINE S == {i \in 1..Len(order) : order[i] = "userinfo"}
<1>1. order \in Seq(STRING) /\ Len(order) <= 32 /\ Cardinality(S) = 1
  BY NetPassAssumption
<1>2. Len(order) \in Nat /\ S \subseteq 1..Len(order)
  BY <1>1
<1>3. IsFiniteSet(S)
  <2>1. IsFiniteSet(1..Len(order)) /\ S \in SUBSET (1..Len(order))
    BY <1>2, FS_Interval
  <2> HIDE DEF S
  <2> QED BY <2>1, FS_Subset
<1> HIDE DEF S
<1>4. PICK k : S = {k}
  BY <1>1, <1>3, FS_Singleton
<1>5. k \in 1..Len(order) /\ \A i \in 1..Len(order) : order[i] = "userinfo" <=> i = k
  BY <1>2, <1>4 DEF S
<1>6. TableId("userinfo") = k - 1
  BY <1>5 DEF TableId
<1> QED BY <1>1, <1>2, <1>5, <1>6

\* The signon creates the tables after its first message, and none later.
LEMMA SignonRead ==
  ASSUME Typed
  PROVE  /\ Signon \in Seq(SignonMsg) /\ Len(Signon) >= Len(order) + 2
         /\ \A i \in 1..Len(Signon) : Signon[i].type # "bad"
         /\ \A i \in 1..Len(order) : Signon[i + 1] = [type |-> "create_table", name |-> order[i]]
         /\ \A i \in 1..Len(Signon) :
              Signon[i].type = "create_table" => i - 1 \in 1..Len(order)
         /\ \A i \in 1..Len(Signon) : Signon[i].type = "set_convar" => Signon[i].value = cvar
         /\ \E i \in 1..Len(Signon) : Signon[i] \in ConvarMsg /\ Signon[i].name = "sv_rounds"
<1> DEFINE n == Len(order)
           a == <<[type |-> "server_info"]>>
           b == [i \in 1..n |-> [type |-> "create_table", name |-> order[i]]]
           c == <<[type |-> "event_list", defs |-> EventDefs]>>
           d == [i \in 1..2 |-> [type |-> "set_convar", name |-> <<"tv_transmitall", "sv_rounds">>[i],
                                 value |-> cvar]]
           e == IF sourcetv THEN <<[type |-> "set_convar", name |-> "tv_transmitall", value |-> cvar]>>
                ELSE <<>>
<1>1. n \in Nat /\ order \in Seq(STRING) /\ cvar \in Nat
  BY TheUserinfoTable DEF Typed, TypedServer, TypedCounts
<1>2. /\ a \in Seq(SignonMsg) /\ Len(a) = 1 /\ a[1].type = "server_info"
      /\ b \in Seq(SignonMsg) /\ Len(b) = n
      /\ c \in Seq(SignonMsg) /\ Len(c) = 1 /\ c[1].type = "event_list"
  BY <1>1 DEF SignonMsg, ServerMsg, TableMsg, ListMsg
<1>3. \A i \in 1..n : b[i] = [type |-> "create_table", name |-> order[i]] /\ b[i].type = "create_table"
  OBVIOUS
<1>4. /\ d \in Seq(SignonMsg) /\ Len(d) = 2 /\ d[2] \in ConvarMsg /\ d[2].name = "sv_rounds"
      /\ \A i \in 1..2 : d[i].type = "set_convar" /\ d[i].value = cvar
  <2>1. \A i \in 1..2 : <<"tv_transmitall", "sv_rounds">>[i] \in {"tv_transmitall", "sv_rounds"}
    OBVIOUS
  <2>2. \A i \in 1..2 : d[i] \in ConvarMsg
    BY <1>1, <2>1 DEF ConvarMsg, Convars
  <2>3. d \in Seq(ConvarMsg) /\ Len(d) = 2
    BY <2>2
  <2>4. \A m \in ConvarMsg : m.type = "set_convar" /\ m \in SignonMsg
    BY DEF ConvarMsg, SignonMsg
  <2>5. d[2].name = "sv_rounds" /\ \A i \in 1..2 : d[i].value = cvar
    OBVIOUS
  <2> HIDE DEF d
  <2> QED BY <2>2, <2>3, <2>4, <2>5
<1>5. /\ e \in Seq(SignonMsg) /\ Len(e) \in {0, 1}
      /\ \A i \in 1..Len(e) : e[i].type = "set_convar" /\ e[i].value = cvar
  <2>1. [type |-> "set_convar", name |-> "tv_transmitall", value |-> cvar] \in SignonMsg
    BY <1>1 DEF SignonMsg, ConvarMsg, Convars
  <2> QED BY <2>1
<1>6. Signon = (((a \o b) \o c) \o d) \o e
  BY DEF Signon
<1> DEFINE z == (((a \o b) \o c) \o d) \o e
<1> HIDE DEF a, b, c, d, e, n
<1>7. /\ z \in Seq(SignonMsg) /\ Len(z) = n + 4 + Len(e)
      /\ \A i \in 1..n : z[i + 1] = b[i]
      /\ \A i \in 1..Len(z) : z[i] = IF i = 1 THEN a[1] ELSE IF i <= n + 1 THEN b[i - 1]
                                     ELSE IF i = n + 2 THEN c[1] ELSE IF i <= n + 4 THEN d[i - n - 2]
                                     ELSE e[i - n - 4]
  <2> DEFINE ab == a \o b
             abc == ab \o c
             abcd == abc \o d
  <2>1. /\ ab \in Seq(SignonMsg) /\ Len(ab) = n + 1
        /\ \A i \in 1..(n + 1) : ab[i] = IF i = 1 THEN a[1] ELSE b[i - 1]
    <3>1. /\ a \o b \in Seq(SignonMsg) /\ Len(a \o b) = Len(a) + Len(b)
          /\ \A i \in 1..(Len(a) + Len(b)) :
               (a \o b)[i] = IF i <= Len(a) THEN a[i] ELSE b[i - Len(a)]
      BY <1>2, Concat
    <3> QED BY <3>1, <1>1, <1>2
  <2> HIDE DEF ab
  <2>2. /\ abc \in Seq(SignonMsg) /\ Len(abc) = n + 2
        /\ \A i \in 1..(n + 2) : abc[i] = IF i <= n + 1 THEN ab[i] ELSE c[1]
    <3>1. /\ ab \o c \in Seq(SignonMsg) /\ Len(ab \o c) = Len(ab) + Len(c)
          /\ \A i \in 1..(Len(ab) + Len(c)) :
               (ab \o c)[i] = IF i <= Len(ab) THEN ab[i] ELSE c[i - Len(ab)]
      BY <1>2, <2>1, Concat
    <3> QED BY <3>1, <1>1, <1>2, <2>1
  <2> HIDE DEF abc
  <2>3. /\ abcd \in Seq(SignonMsg) /\ Len(abcd) = n + 4
        /\ \A i \in 1..(n + 4) : abcd[i] = IF i <= n + 2 THEN abc[i] ELSE d[i - n - 2]
    <3>1. /\ abc \o d \in Seq(SignonMsg) /\ Len(abc \o d) = Len(abc) + Len(d)
          /\ \A i \in 1..(Len(abc) + Len(d)) :
               (abc \o d)[i] = IF i <= Len(abc) THEN abc[i] ELSE d[i - Len(abc)]
      BY <1>4, <2>2, Concat
    <3> QED BY <3>1, <1>1, <1>4, <2>2
  <2> HIDE DEF abcd
  <2>4. z = abcd \o e
    BY DEF abcd, abc, ab
  <2>5. /\ z \in Seq(SignonMsg) /\ Len(z) = n + 4 + Len(e)
        /\ \A i \in 1..(n + 4 + Len(e)) : z[i] = IF i <= n + 4 THEN abcd[i] ELSE e[i - n - 4]
    <3> HIDE DEF z
    <3>1. /\ z \in Seq(SignonMsg) /\ Len(z) = Len(abcd) + Len(e)
          /\ \A i \in 1..(Len(abcd) + Len(e)) : z[i] = IF i <= Len(abcd) THEN abcd[i] ELSE e[i - Len(abcd)]
      <4> HIDE DEF abcd
      <4>1. abcd \in Seq(SignonMsg) /\ e \in Seq(SignonMsg)
        BY <1>5, <2>3
      <4> QED BY <4>1, <2>4, Concat
    <3>2. Len(abcd) = n + 4 /\ n \in Nat /\ Len(e) \in Nat
      BY <2>3, <1>1, <1>5
    <3>3. ASSUME NEW i \in 1..(n + 4 + Len(e))
          PROVE  z[i] = IF i <= n + 4 THEN abcd[i] ELSE e[i - n - 4]
      <4>1. z[i] = IF i <= Len(abcd) THEN abcd[i] ELSE e[i - Len(abcd)]
        BY <3>1, <3>2
      <4>2. i - Len(abcd) = i - n - 4
        BY <3>2
      <4> QED BY <4>1, <4>2, <3>2
    <3>4. Len(z) = n + 4 + Len(e)
      BY <3>1, <3>2
    <3> QED BY <3>1, <3>3, <3>4
  <2> HIDE DEF z
  <2>6. ASSUME NEW i \in 1..Len(z)
        PROVE  z[i] = IF i = 1 THEN a[1] ELSE IF i <= n + 1 THEN b[i - 1]
                      ELSE IF i = n + 2 THEN c[1] ELSE IF i <= n + 4 THEN d[i - n - 2]
                      ELSE e[i - n - 4]
    <3>1. i \in Nat /\ i >= 1 /\ i <= n + 4 + Len(e) /\ n \in Nat /\ Len(e) \in Nat
      BY <1>1, <1>5, <2>5
    <3>2. i <= n + 4 => z[i] = abcd[i]
      BY <3>1, <2>5
    <3>3. i > n + 4 => z[i] = e[i - n - 4]
      BY <3>1, <2>5
    <3>4. i <= n + 4 => abcd[i] = IF i <= n + 2 THEN abc[i] ELSE d[i - n - 2]
      BY <3>1, <2>3
    <3>5. i <= n + 2 => abc[i] = IF i <= n + 1 THEN ab[i] ELSE c[1]
      BY <3>1, <2>2
    <3>6. i <= n + 1 => ab[i] = IF i = 1 THEN a[1] ELSE b[i - 1]
      BY <3>1, <2>1
    <3> QED BY <3>1, <3>2, <3>3, <3>4, <3>5, <3>6
  <2>7. \A i \in 1..n : z[i + 1] = b[i]
    <3> SUFFICES ASSUME NEW i \in 1..n PROVE z[i + 1] = b[i]
      OBVIOUS
    <3>1. i + 1 \in 1..Len(z) /\ i + 1 # 1 /\ i + 1 <= n + 1 /\ (i + 1) - 1 = i
      BY <1>1, <1>5, <2>5
    <3> QED BY <3>1, <2>6
  <2> QED BY <2>5, <2>6, <2>7
<1> HIDE DEF z
<1>8. \A i \in 1..Len(z) : z[i].type = IF i = 1 THEN "server_info" ELSE IF i <= n + 1 THEN "create_table"
                                       ELSE IF i = n + 2 THEN "event_list" ELSE "set_convar"
  <2> SUFFICES ASSUME NEW i \in 1..Len(z)
               PROVE  z[i].type = IF i = 1 THEN "server_info" ELSE IF i <= n + 1 THEN "create_table"
                                       ELSE IF i = n + 2 THEN "event_list" ELSE "set_convar"
    OBVIOUS
  <2>1. i \in Nat /\ i >= 1 /\ i <= n + 4 + Len(e) /\ Len(e) \in Nat /\ n \in Nat
    BY <1>1, <1>5, <1>7
  <2>2. CASE i = 1
    BY <2>2, <1>2, <1>7
  <2>3. CASE i # 1 /\ i <= n + 1
    <3>1. i - 1 \in 1..n /\ z[i] = b[i - 1]
      BY <2>1, <2>3, <1>7
    <3> QED BY <3>1, <2>3, <1>3
  <2>4. CASE i = n + 2
    BY <2>1, <2>4, <1>2, <1>7
  <2>5. CASE i > n + 2 /\ i <= n + 4
    <3>1. i - n - 2 \in 1..2 /\ z[i] = d[i - n - 2]
      BY <2>1, <2>5, <1>7
    <3> QED BY <3>1, <2>1, <2>5, <1>4
  <2>6. CASE i > n + 4
    <3>1. i - n - 4 \in 1..Len(e) /\ z[i] = e[i - n - 4]
      BY <2>1, <2>6, <1>7
    <3> QED BY <3>1, <2>1, <2>6, <1>5
  <2> QED BY <2>1, <2>2, <2>3, <2>4, <2>5, <2>6
<1>9. Signon = z
  BY <1>6 DEF z
<1>10. \A i \in 1..n : z[i + 1] = [type |-> "create_table", name |-> order[i]]
  BY <1>3, <1>7
<1>11. ASSUME NEW i \in 1..Len(z), z[i].type = "create_table"
       PROVE  i - 1 \in 1..n
  <2>1. i # 1 /\ i <= n + 1
    BY <1>8, <1>11
  <2> QED BY <2>1, <1>1, <1>5, <1>7
<1>12. Len(z) >= n + 2
  BY <1>1, <1>5, <1>7
<1>13. ASSUME NEW i \in 1..Len(z), z[i].type = "set_convar"
       PROVE  z[i].value = cvar
  <2>1. i \in Nat /\ i > n + 2 /\ i <= n + 4 + Len(e) /\ Len(e) \in Nat /\ n \in Nat
    BY <1>1, <1>5, <1>7, <1>8, <1>13
  <2>2. CASE i <= n + 4
    <3>1. i - n - 2 \in 1..2 /\ z[i] = d[i - n - 2]
      BY <2>1, <2>2, <1>7
    <3> QED BY <3>1, <1>4
  <2>3. CASE i > n + 4
    <3>1. i - n - 4 \in 1..Len(e) /\ z[i] = e[i - n - 4]
      BY <2>1, <2>3, <1>7
    <3> QED BY <3>1, <1>5
  <2> QED BY <2>1, <2>2, <2>3
<1>14. n + 4 \in 1..Len(z) /\ z[n + 4] = d[2]
  <2>1. PICK i \in Nat : i = n + 4
    BY <1>1
  <2>2. i \in 1..Len(z) /\ i - n - 2 = 2 /\ i # 1 /\ ~ (i <= n + 1) /\ i # n + 2 /\ i <= n + 4
    BY <1>1, <1>5, <1>7, <2>1
  <2>3. z[i] = IF i = 1 THEN a[1] ELSE IF i <= n + 1 THEN b[i - 1]
               ELSE IF i = n + 2 THEN c[1] ELSE IF i <= n + 4 THEN d[i - n - 2]
               ELSE e[i - n - 4]
    BY <1>7, <2>2
  <2> QED BY <2>1, <2>2, <2>3
<1>15. \E i \in 1..Len(z) : z[i] \in ConvarMsg /\ z[i].name = "sv_rounds"
  BY <1>4, <1>14
<1>16. z \in Seq(SignonMsg)
  BY <1>7
<1>17. \A i \in 1..Len(z) : z[i].type # "bad"
  BY <1>8
<1> QED BY <1>9, <1>10, <1>11, <1>12, <1>13, <1>15, <1>16, <1>17 DEF n

\* A userinfo update names the players who are new in their slots.
LEMMA UpdateRead ==
  ASSUME Typed
  PROVE  /\ Update \in Seq(UpdateMsg) /\ \A k \in 1..Len(Update) : Update[k].type = "update_table"
         /\ \A k \in 1..Len(Update) :
              /\ Update[k].table_id = TableId("userinfo")
              /\ ParseUserinfoUpdate(Update[k].entries) =
                   {PlayerInfo(s, clients[s]) : s \in {s \in Slot : clients[s] # sent[s] /\ clients[s] # None}}
         /\ (\E s \in Slot : clients[s] # sent[s]) => Len(Update) = 1
<1> DEFINE S == {s \in Slot : clients[s] # sent[s]}
           n == Cardinality(S)
           at == Ascending(S)
           es == [i \in 1..Len(at) |-> Entry(at[i])]
           w == WriteEntries(es)
           m == [type |-> "update_table", table_id |-> TableId("userinfo"), entries |-> w]
<1>0. clients \in [Slot -> Client] /\ \A s \in Slot : s \in Nat
  BY NetPassAssumption DEF Typed, TypedServer
<1>1. S \in SUBSET Slot /\ IsFiniteSet(S) /\ n \in Nat
  BY NetPassAssumption, FS_Subset, FS_CardinalityType
<1>2. at \in Seq(S) /\ Len(at) = n /\ \A s \in S : \E i \in 1..n : at[i] = s
  BY <1>1, AscendingHasAll
<1>3. Update = IF at = <<>> THEN <<>> ELSE <<m>>
  BY DEF Update
<1>4. (\E s \in Slot : clients[s] # sent[s]) => at # <<>>
  <2> HIDE DEF at
  <2>1. S # {} => n # 0
    BY <1>1, FS_EmptySet
  <2> QED BY <1>2, <2>1
<1> HIDE DEF at
<1>5. \A i \in 1..n : es[i] = Entry(at[i]) /\ at[i] \in S
  BY <1>2
<1>6. es \in Entries /\ Len(es) = n
  <2>1. \A i \in 1..n : at[i] \in Slot /\ clients[at[i]] \in Client
    BY <1>0, <1>5
  <2>2. \A i \in 1..n : Entry(at[i]) \in [index : Slot, userdata : Client]
    BY <2>1 DEF Entry
  <2>3. es = [i \in 1..n |-> Entry(at[i])]
    BY <1>2
  <2> HIDE DEF es, n, S
  <2>4. es \in Seq([index : Slot, userdata : Client])
    BY <2>2, <2>3, <1>1
  <2>5. Len(es) = n
    BY <2>3, <1>1
  <2> QED BY <2>4, <2>5 DEF Entries
<1>7. \A i \in 1..n : /\ es[i].index = at[i] /\ es[i].index \in Nat
                      /\ es[i].userdata = clients[at[i]]
  <2>1. \A i \in 1..n : at[i] \in Slot
    BY <1>5
  <2>2. \A s : Entry(s).index = s /\ Entry(s).userdata = clients[s]
    BY DEF Entry
  <2> HIDE DEF es, S, n
  <2> QED BY <1>0, <1>5, <2>1, <2>2
<1> HIDE DEF S, n, es
<1>8. /\ Len(w) = n
      /\ \A i \in 1..n : EntryIndex(w)[i] = at[i] /\ w[i].userdata = clients[at[i]]
  BY <1>1, <1>6, <1>7, IndexesRead
<1> DEFINE infos == {PlayerInfo(s, clients[s]) : s \in {s \in Slot : clients[s] # sent[s] /\ clients[s] # None}}
<1>9. ParseUserinfoUpdate(w) = infos
  <2> HIDE DEF w
  <2>1. ParseUserinfoUpdate(w) =
          {PlayerInfo(EntryIndex(w)[i], w[i].userdata) : i \in {i \in 1..Len(w) : w[i].userdata # None}}
    BY DEF ParseUserinfoUpdate
  <2> DEFINE I == {i \in 1..Len(w) : w[i].userdata # None}
             T == {s \in Slot : clients[s] # sent[s] /\ clients[s] # None}
  <2>2. \A i \in I : i \in 1..n /\ at[i] \in T
                     /\ PlayerInfo(EntryIndex(w)[i], w[i].userdata) = PlayerInfo(at[i], clients[at[i]])
    BY <1>5, <1>8 DEF S
  <2>3. \A s \in T : \E i \in I : at[i] = s
    BY <1>2, <1>8 DEF S
  <2> HIDE DEF I, T
  <2>4. {PlayerInfo(EntryIndex(w)[i], w[i].userdata) : i \in I} = {PlayerInfo(s, clients[s]) : s \in T}
    BY <2>2, <2>3
  <2> QED BY <2>1, <2>4 DEF I, T
<1>10. m \in UpdateMsg
  BY <1>6, TheUserinfoTable DEF UpdateMsg, Typed, TypedServer
<1>11. m.type = "update_table" /\ m.table_id = TableId("userinfo") /\ m.entries = w
  OBVIOUS
<1> HIDE DEF m, w, infos
<1>12. Update = <<>> \/ Update = <<m>>
  BY <1>3
<1> QED BY <1>3, <1>4, <1>9, <1>10, <1>11, <1>12 DEF infos

-----------------------------------------------------------------------------
(* The types are kept                                                      *)

LEMMA MaxOfSet ==
  ASSUME NEW S \in SUBSET Int, IsFiniteSet(S), S # {}
  PROVE  Max(S) \in S /\ \A x \in S : x <= Max(S)
<1> DEFINE le == {p \in S \X S : p[1] <= p[2]}
           n == Cardinality(S)
<1>1. \A a, b \in S : <<a, b>> \in le <=> a <= b
  OBVIOUS
<1> HIDE DEF le
<1>2. IsTotalOrder(le, S)
  BY <1>1 DEF IsTotalOrder
<1>3. n \in Nat /\ n # 0
  BY FS_CardinalityType, FS_EmptySet
<1>4. \A a \in S : Rank(le, S, a) \in 1..n
  BY <1>2, Ranks
<1>5. \A a, b \in S : <<a, b>> \in le /\ a # b => Rank(le, S, a) < Rank(le, S, b)
  BY <1>2, Ranks
<1>6. \E a \in S : Rank(le, S, a) = n
  <2>1. \A k \in 1..n : \E a \in S : Rank(le, S, a) = k
    BY <1>2, Ranks
  <2> QED BY <1>3, <2>1
<1> HIDE DEF n
<1>7. PICK a \in S : Rank(le, S, a) = n
  BY <1>6
<1>8. \A b \in S : b <= a
  <2> SUFFICES ASSUME NEW b \in S, a # b PROVE b <= a
    OBVIOUS
  <2>1. Rank(le, S, b) <= Rank(le, S, a) /\ Rank(le, S, b) \in Nat /\ Rank(le, S, a) \in Nat
    BY <1>3, <1>4, <1>7
  <2>2. ~ (<<a, b>> \in le)
    BY <1>5, <2>1
  <2>3. <<b, a>> \in le
    BY <1>2, <2>2 DEF IsTotalOrder
  <2> QED BY <1>1, <2>3
<1> QED BY <1>7, <1>8 DEF Max

LEMMA InitTyped == Init => Typed /\ Frames
<1> SUFFICES ASSUME Init PROVE Typed /\ Frames
  OBVIOUS
<1>0. /\ sourcetv \in BOOLEAN /\ order \in TableOrders /\ cvar = 0 /\ nextId = Max(Slot) + 2
      /\ fired = <<>> /\ tick = 0 /\ stage = "signon" /\ errors = 0 /\ truth = <<>>
      /\ frame = [kind |-> "signon", tick |-> Uptime] /\ inbox = <<>>
      /\ players = {} /\ cvars = <<>> /\ deaths = <<>> /\ defs = <<>> /\ tables_created = 0
      /\ userinfo_table = None /\ warnings = 0
  BY DEF Init
<1>1. Slot \in SUBSET Int /\ Max(Slot) \in Nat /\ \A s \in Slot : s \in Nat
  <2>0. Slot \subseteq Nat /\ IsFiniteSet(Slot) /\ Slot # {} /\ Uptime \in Nat
    BY NetPassAssumption
  <2>1. Slot \in SUBSET Int /\ IsFiniteSet(Slot) /\ Slot # {} /\ \A s \in Slot : s \in Nat
    BY <2>0
  <2>2. Max(Slot) \in Slot
    BY <2>1, MaxOfSet
  <2> QED BY <2>1, <2>2
<1>2. clients \in [Slot -> Client]
  <2>1. PICK on \in SUBSET Slot :
          clients = [s \in Slot |-> IF s \in on
                       THEN [user_id |-> s + 1, name |-> 0, is_hltv |-> sourcetv /\ s = Min(on)] ELSE None]
    BY DEF Init
  <2>2. \A s \in Slot : [user_id |-> s + 1, name |-> 0, is_hltv |-> sourcetv /\ s = Min(on)] \in Connection
    <3> SUFFICES ASSUME NEW s \in Slot
                 PROVE  [user_id |-> s + 1, name |-> 0, is_hltv |-> sourcetv /\ s = Min(on)] \in Connection
      OBVIOUS
    <3> DEFINE b == sourcetv /\ s = Min(on)
    <3>1. b \in BOOLEAN /\ s + 1 \in Nat
      BY <1>1
    <3> HIDE DEF b
    <3>2. [user_id |-> s + 1, name |-> 0, is_hltv |-> b] \in Connection
      BY <3>1 DEF Connection
    <3> QED BY <3>2 DEF b
  <2> QED BY <2>1, <2>2 DEF Client
<1>3. sent \in [Slot -> Client] /\ neo \in [Slot -> NeoName \cup {""}] /\ neoSent \in [Slot -> NeoName \cup {""}]
  BY DEF Init, Client
<1>4. frame \in [kind : {"signon", "packet"}, tick : Nat]
  BY NetPassAssumption DEF Init
<1>5. players \subseteq Player /\ IsFiniteSet(players)
  BY FS_EmptySet DEF Init
<1>6. Typed
  <2>1. TypedCounts
    BY <1>0, <1>1 DEF TypedCounts
  <2>2. TypedServer
    <3>1. fired \in Seq(QueueMsg)
      BY <1>0
    <3>2. sourcetv \in BOOLEAN /\ order \in TableOrders
      BY <1>0
    <3> QED BY <3>1, <3>2, <1>2, <1>3 DEF TypedServer
  <2>3. TypedFrame
    BY <1>0, <1>4 DEF TypedFrame
  <2>4. TypedPass
    BY <1>0, <1>5 DEF TypedPass
  <2> QED BY <2>1, <2>2, <2>3, <2>4 DEF Typed
<1>7. Frames
  BY <1>0 DEF Frames
<1> QED BY <1>6, <1>7

\* What happens on the server happens between two packets, once the last is
\* read, and changes nothing of the pass.
LEMMA ServerKeeps ==
  ASSUME Server
  PROVE  /\ stage = "packets" /\ inbox = <<>>
         /\ UNCHANGED <<sourcetv, sent, neoSent, order, tick, stage, errors, truth, neoNames>>
         /\ UNCHANGED <<frame, inbox>>
         /\ UNCHANGED <<players, cvars, deaths, defs, tables_created, userinfo_table, warnings>>
BY DEF Server, SetCvar, Connect, Disconnect, Rename, SetNeoName, Die, Happen, reading, pass

LEMMA ShownTyped ==
  ASSUME Typed
  PROVE  /\ Len(truth) \in Nat
         /\ \A i \in 1..Len(truth) : truth[i].tick \in Nat /\ truth[i].clients \in [Slot -> Client]
         /\ \A i \in 1..Len(truth), s \in Slot : truth[i].clients[s] \in Client
<1> DEFINE Shown == [tick : Nat, clients : [Slot -> Client], cvar : Nat, neo : [Slot -> NeoName \cup {""}]]
<1>1. truth \in Seq(Shown)
  BY DEF Typed, TypedFrame
<1>2. \A x \in Shown : x.tick \in Nat /\ x.clients \in [Slot -> Client]
  OBVIOUS
<1> HIDE DEF Shown
<1>3. Len(truth) \in Nat /\ \A i \in 1..Len(truth) : truth[i] \in Shown
  BY <1>1
<1> QED BY <1>2, <1>3

\* What is fired for a client's event is queued, or nothing is.
LEMMA FiredTyped ==
  ASSUME Typed, NEW m \in QueueMsg, fired' = fired \/ fired' = Append(fired, m)
  PROVE  fired' \in Seq(QueueMsg)
<1>1. fired \in Seq(QueueMsg)
  BY DEF Typed, TypedServer
<1> QED BY <1>1

LEMMA InGamePlayer ==
  ASSUME Typed, NEW s \in Slot, IsPlayer(clients[s])
  PROVE  clients[s] \in Connection
BY DEF Typed, TypedServer, Client, IsPlayer

LEMMA ServerTyped ==
  ASSUME Typed, Frames, Server
  PROVE  Typed' /\ Frames'
<1>1. /\ clients' \in [Slot -> Client] /\ nextId' \in Nat /\ cvar' \in Nat
      /\ neo' \in [Slot -> NeoName \cup {""}] /\ fired' \in Seq(QueueMsg)
  <2>1. CASE SetCvar
    <3>1. cvar + 1 \in Nat
      BY DEF Typed, TypedCounts
    <3>2. [type |-> "set_convar", name |-> "sv_rounds", value |-> cvar + 1] \in QueueMsg
      BY <3>1 DEF QueueMsg, ConvarMsg, Convars
    <3> QED BY <2>1, <3>1, <3>2, FiredTyped DEF SetCvar, Typed, TypedCounts, TypedServer
  <2>2. ASSUME NEW s \in Slot, Connect(s)
        PROVE  /\ clients' \in [Slot -> Client] /\ nextId' \in Nat /\ cvar' \in Nat
               /\ neo' \in [Slot -> NeoName \cup {""}] /\ fired' \in Seq(QueueMsg)
    <3> DEFINE c == [user_id |-> nextId, name |-> 0, is_hltv |-> FALSE]
               m == [type |-> "game_event", id |-> EventIds["player_connect_client"],
                     fields |-> [userid |-> nextId, index |-> s, name |-> 0]]
    <3>1. c \in Client
      BY DEF Typed, TypedCounts, Connection, Client
    <3>2. m \in QueueMsg
      <4>1. [userid |-> nextId, index |-> s, name |-> 0] \in Connected
        BY DEF Typed, TypedCounts, Connected
      <4>2. EventIds["player_connect_client"] = 5
        BY DEF EventIds
      <4> QED BY <4>1, <4>2 DEF QueueMsg, EventMsg, ConnectMsg
    <3>3. fired' = fired \/ fired' = Append(fired, m)
      BY <2>2 DEF Connect, FireToClients, Fire
    <3> HIDE DEF m, c
    <3>4. fired' \in Seq(QueueMsg)
      BY <3>2, <3>3, FiredTyped
    <3>5. clients' = [clients EXCEPT ![s] = c] /\ nextId' = nextId + 1 /\ cvar' = cvar
          /\ neo' = [neo EXCEPT ![s] = ""]
      BY <2>2 DEF Connect, c
    <3>6. nextId' \in Nat /\ cvar' \in Nat
      <4>1. nextId \in Nat /\ cvar \in Nat
        BY DEF Typed, TypedCounts
      <4>2. nextId' = nextId + 1 /\ cvar' = cvar
        BY <3>5
      <4> QED BY <4>1, <4>2
    <3>7. clients' \in [Slot -> Client] /\ neo' \in [Slot -> NeoName \cup {""}]
      BY <3>1, <3>5 DEF Typed, TypedServer
    <3> QED BY <3>4, <3>6, <3>7
  <2>3. ASSUME NEW s \in Slot, Disconnect(s)
        PROVE  /\ clients' \in [Slot -> Client] /\ nextId' \in Nat /\ cvar' \in Nat
               /\ neo' \in [Slot -> NeoName \cup {""}] /\ fired' \in Seq(QueueMsg)
    <3>1. clients' = [clients EXCEPT ![s] = None] /\ UNCHANGED <<neo, cvar, fired, nextId>>
      BY <2>3 DEF Disconnect
    <3> QED BY <3>1 DEF Typed, Client, TypedCounts, TypedServer
  <2>4. ASSUME NEW s \in Slot, Rename(s)
        PROVE  /\ clients' \in [Slot -> Client] /\ nextId' \in Nat /\ cvar' \in Nat
               /\ neo' \in [Slot -> NeoName \cup {""}] /\ fired' \in Seq(QueueMsg)
    <3> DEFINE m == [type |-> "game_event", id |-> EventIds["player_changename"],
                     fields |-> [userid |-> clients[s].user_id, newname |-> clients[s].name + 1]]
    <3>1. clients[s] \in Connection
      BY <2>4, InGamePlayer DEF Rename, InGame
    <3>2. clients[s].user_id \in Nat /\ clients[s].name + 1 \in Nat
      BY <3>1 DEF Connection
    <3>3. m \in QueueMsg
      <4>1. [userid |-> clients[s].user_id, newname |-> clients[s].name + 1] \in Renamed
        BY <3>2 DEF Renamed
      <4>2. EventIds["player_changename"] = 8
        BY DEF EventIds
      <4> QED BY <4>1, <4>2 DEF QueueMsg, EventMsg, RenameMsg
    <3>4. fired' = fired \/ fired' = Append(fired, m)
      BY <2>4 DEF Rename, FireToClients, Fire
    <3>5. fired' \in Seq(QueueMsg)
      <4> HIDE DEF m
      <4> QED BY <3>3, <3>4, FiredTyped
    <3>6. clients' = [clients EXCEPT ![s].name = @ + 1] /\ UNCHANGED <<neo, cvar, nextId>>
      BY <2>4 DEF Rename
    <3>7. [clients[s] EXCEPT !.name = @ + 1] \in Connection
      BY <3>1 DEF Connection
    <3> QED BY <3>5, <3>6, <3>7 DEF Typed, Client, TypedCounts, TypedServer
  <2>5. ASSUME NEW s \in Slot, SetNeoName(s)
        PROVE  /\ clients' \in [Slot -> Client] /\ nextId' \in Nat /\ cvar' \in Nat
               /\ neo' \in [Slot -> NeoName \cup {""}] /\ fired' \in Seq(QueueMsg)
    <3>1. /\ \E n \in NeoName \cup {""} : neo' = [neo EXCEPT ![s] = n]
          /\ UNCHANGED <<clients, cvar, fired, nextId>>
      BY <2>5 DEF SetNeoName
    <3> QED BY <3>1 DEF Typed, TypedCounts, TypedServer
  <2>6. ASSUME NEW s \in Slot, Die(s)
        PROVE  /\ clients' \in [Slot -> Client] /\ nextId' \in Nat /\ cvar' \in Nat
               /\ neo' \in [Slot -> NeoName \cup {""}] /\ fired' \in Seq(QueueMsg)
    <3>1. PICK a \in {0} \cup {clients[r].user_id : r \in {r \in Slot : InGame(r)}} :
            Fire("player_death", [userid |-> clients[s].user_id, attacker |-> a, assists |-> 0])
      BY <2>6 DEF Die
    <3>2. clients[s].user_id \in Nat /\ a \in Nat
      <4>1. \A r \in Slot : InGame(r) => clients[r].user_id \in Nat
        BY InGamePlayer DEF InGame, Connection
      <4> QED BY <2>6, <4>1 DEF Die
    <3>3. [type |-> "game_event", id |-> EventIds["player_death"],
           fields |-> [userid |-> clients[s].user_id, attacker |-> a, assists |-> 0]] \in QueueMsg
      <4>1. [userid |-> clients[s].user_id, attacker |-> a, assists |-> 0] \in Died
        BY <3>2 DEF Died
      <4>2. EventIds["player_death"] = 3
        BY DEF EventIds
      <4> QED BY <4>1, <4>2 DEF QueueMsg, EventMsg, DeathMsg
    <3>4. fired' \in Seq(QueueMsg)
      BY <3>1, <3>3, FiredTyped DEF Fire
    <3> QED BY <2>6, <3>4 DEF Die, Typed, TypedCounts, TypedServer
  <2> QED BY <2>1, <2>2, <2>3, <2>4, <2>5, <2>6 DEF Server
<1>2. Typed'
  BY <1>1, ServerKeeps DEF Typed, TypedCounts, TypedServer, TypedFrame, TypedPass
<1>3. Frames'
  BY ServerKeeps DEF Frames
<1> QED BY <1>2, <1>3

\* The row of who is in a slot.
Seat(s, c, t) ==
  [entity_id |-> s + 1, user_id |-> c.user_id, name |-> c.name, first_seen_tick |-> t]

Infos(k) == ParseUserinfoUpdate(inbox[k].entries)

\* An update still to be taken is of the userinfo table, and names players who
\* are in their slots.
Updates ==
  \A k \in 1..Len(inbox) : inbox[k].type = "update_table" =>
    /\ inbox[k].table_id = TableId("userinfo")
    /\ Infos(k) \subseteq {PlayerInfo(s, sent[s]) : s \in {s \in Slot : sent[s] # None}}

Base == Typed /\ Frames /\ Updates

LEMMA InitBase == Init => Base
<1>1. Init => inbox = <<>>
  BY DEF Init
<1>2. inbox = <<>> => Updates
  BY DEF Updates
<1> QED BY <1>1, <1>2, InitTyped DEF Base

LEMMA ServerBase == ASSUME Base, Server PROVE Base'
<1>1. Typed' /\ Frames'
  BY ServerTyped DEF Base
<1>2. inbox' = <<>>
  BY ServerKeeps
<1> QED BY <1>1, <1>2 DEF Base, Updates

LEMMA StutterBase == ASSUME Base, UNCHANGED vars PROVE Base'
<1>1. /\ UNCHANGED <<sourcetv, clients, sent, neo, neoSent, cvar, fired, nextId, order, tick, stage>>
      /\ UNCHANGED <<changes, errors, truth, neoNames, frame, inbox>>
      /\ UNCHANGED <<players, cvars, deaths, defs, tables_created, userinfo_table, warnings>>
  BY DEF vars, server, reading, pass
<1>2. TypedCounts' /\ TypedServer'
  BY <1>1 DEF Base, Typed, TypedCounts, TypedServer
<1>3. TypedFrame'
  BY <1>1 DEF Base, Typed, TypedFrame
<1>4. TypedPass'
  BY <1>1 DEF Base, Typed, TypedPass
<1>5. Frames'
  BY <1>1 DEF Base, Frames
<1>6. Updates'
  BY <1>1 DEF Base, Updates, Infos, TableId
<1> QED BY <1>2, <1>3, <1>4, <1>5, <1>6 DEF Base, Typed

\* The seats of a set of slots are finitely many rows.
LEMMA SeatsTyped ==
  ASSUME NEW S \in SUBSET Slot, NEW holder, NEW t \in Nat,
         \A s \in S : holder[s] \in Connection
  PROVE  {Seat(s, holder[s], t) : s \in S} \subseteq Player /\ IsFiniteSet({Seat(s, holder[s], t) : s \in S})
<1>1. Slot \subseteq Nat /\ IsFiniteSet(Slot)
  BY NetPassAssumption
<1>2. IsFiniteSet(S)
  BY <1>1, FS_Subset
<1>3. \A s \in S : Seat(s, holder[s], t) \in Player
  BY <1>1 DEF Seat, Player, Connection
<1>4. IsFiniteSet({Seat(s, holder[s], t) : s \in S})
  <2> DEFINE T == {Seat(s, holder[s], t) : s \in S}
             f == [s \in S |-> Seat(s, holder[s], t)]
  <2>1. f \in Surjection(S, T)
    BY DEF Surjection
  <2> HIDE DEF f, T
  <2>2. IsFiniteSet(T)
    BY <1>2, <2>1, FS_Surjection
  <2> QED BY <2>2 DEF T
<1> QED BY <1>3, <1>4

LEMMA RecordSignonBase ==
  ASSUME Base, RecordSignon
  PROVE  Base'
<1> DEFINE f == [kind |-> "signon", tick |-> Uptime]
<1>1. PICK p \in Recorded(Signon) : ReadFrame(f, p)
  BY DEF RecordSignon
<1>2. /\ stage = "signon" /\ stage' = "dump"
      /\ UNCHANGED <<sourcetv, clients, sent, neo, neoSent, cvar, fired, nextId, order, tick,
                     changes, truth, neoNames>>
  BY DEF RecordSignon
<1>3. /\ frame' = f
      /\ UNCHANGED <<players, cvars, deaths, defs, tables_created, userinfo_table>>
  BY <1>1 DEF ReadFrame
<1>4. errors \in Nat /\ warnings \in Nat
  BY DEF Base, Typed, TypedCounts
<1>5. Signon \in Seq(SignonMsg) /\ \A i \in 1..Len(Signon) : Signon[i].type # "bad"
  BY SignonRead DEF Base
<1>6. inbox' \in Seq(SignonMsg) /\ errors' \in Nat /\ warnings' \in Nat
  BY <1>1, <1>4, <1>5, FrameRead
<1>7. frame' \in [kind : {"signon", "packet"}, tick : Nat]
  <2>1. Uptime \in Nat
    BY NetPassAssumption
  <2> QED BY <1>3, <2>1
<1>8. Typed'
  <2>1. TypedCounts'
    BY <1>2, <1>6 DEF Base, Typed, TypedCounts
  <2>2. TypedServer'
    BY <1>2 DEF Base, Typed, TypedServer
  <2>3. TypedFrame'
    BY <1>2, <1>6, <1>7 DEF Base, Typed, TypedFrame
  <2>4. TypedPass'
    BY <1>3 DEF Base, Typed, TypedPass
  <2> QED BY <2>1, <2>2, <2>3, <2>4 DEF Typed
<1>9. Frames'
  BY <1>2, <1>3 DEF Base, Frames
<1>10. Updates'
  <2> SUFFICES ASSUME NEW k \in 1..Len(inbox'), inbox'[k].type = "update_table"
               PROVE  FALSE
    BY DEF Updates
  <2>1. inbox'[k] \in SignonMsg
    BY <1>6
  <2> QED BY <2>1, MessageTypes
<1> QED BY <1>8, <1>9, <1>10 DEF Base

\* The dump has the players in the game when the recording starts.
LEMMA DumpRead ==
  ASSUME Base, RecordDump
  PROVE  players' = {Seat(s, clients[s], 0) : s \in {s \in Slot : IsPlayer(clients[s])}}
<1> DEFINE U == {Entry(s) : s \in Slot}
           T == {[name |-> order[k], entries |-> IF order[k] = "userinfo" THEN U ELSE {}] :
                   k \in 1..Len(order)}
           infos == ParseUserinfo(T)
           row(i) == [entity_id |-> i.entity_id, user_id |-> i.user_id, name |-> i.name, first_seen_tick |-> 0]
<1>1. players = {} /\ players' = players \cup {row(i) : i \in {i \in infos : ~i.is_hltv}}
  BY DEF RecordDump, Base, Frames
<1>2. {t \in T : t.name = "userinfo"} = {[name |-> "userinfo", entries |-> U]}
  <2> DEFINE u == TableId("userinfo") + 1
  <2>1. order \in TableOrders
    BY DEF Base, Typed, TypedServer
  <2>2. u \in 1..Len(order) /\ order[u] = "userinfo"
    BY <2>1, TheUserinfoTable
  <2> HIDE DEF U, u
  <2> QED BY <2>2
<1>3. infos = {PlayerInfo(e.index, e.userdata) : e \in {e \in U : e.userdata # None}}
  <2> DEFINE t0 == [name |-> "userinfo", entries |-> U]
             read(t) == {PlayerInfo(e.index, e.userdata) : e \in {e \in t.entries : e.userdata # None}}
  <2>1. infos = UNION {read(t) : t \in {t \in T : t.name = "userinfo"}}
    BY DEF ParseUserinfo
  <2>2. t0.entries = U
    OBVIOUS
  <2> HIDE DEF T, U, t0, infos
  <2>3. read(t0) = {PlayerInfo(e.index, e.userdata) : e \in {e \in U : e.userdata # None}}
    BY <2>2
  <2>4. {t \in T : t.name = "userinfo"} = {t0}
    BY <1>2 DEF t0
  <2> HIDE DEF read
  <2>5. {read(t) : t \in {t \in T : t.name = "userinfo"}} = {read(t0)}
    BY <2>4
  <2> QED BY <2>1, <2>3, <2>5
<1>4. infos = {PlayerInfo(s, clients[s]) : s \in {s \in Slot : clients[s] # None}}
  <2>1. \A s : Entry(s).index = s /\ Entry(s).userdata = clients[s]
    BY DEF Entry
  <2> HIDE DEF infos
  <2> QED BY <1>3, <2>1
<1>5. \A s : /\ row(PlayerInfo(s, clients[s])) = Seat(s, clients[s], 0)
             /\ PlayerInfo(s, clients[s]).is_hltv = clients[s].is_hltv
  BY DEF Seat, PlayerInfo
<1> HIDE DEF infos, row
<1>6. {row(i) : i \in {i \in infos : ~i.is_hltv}} = {Seat(s, clients[s], 0) : s \in {s \in Slot : IsPlayer(clients[s])}}
  BY <1>4, <1>5 DEF IsPlayer
<1> QED BY <1>1, <1>6

LEMMA RecordDumpBase ==
  ASSUME Base, RecordDump
  PROVE  Base'
<1>1. /\ stage = "dump" /\ inbox = <<>> /\ stage' = "packets" /\ sent' = clients
      /\ UNCHANGED <<sourcetv, clients, neo, neoSent, cvar, fired, nextId, order, tick, changes, errors,
                     truth, neoNames, frame, inbox, cvars, deaths, defs, tables_created, userinfo_table,
                     warnings>>
  BY DEF RecordDump, reading
<1>2. players' \subseteq Player /\ IsFiniteSet(players')
  <2>1. \A s \in Slot : IsPlayer(clients[s]) => clients[s] \in Connection
    BY InGamePlayer DEF Base
  <2> DEFINE S == {s \in Slot : IsPlayer(clients[s])}
  <2>2. {Seat(s, clients[s], 0) : s \in S} \subseteq Player /\ IsFiniteSet({Seat(s, clients[s], 0) : s \in S})
    <3>1. S \in SUBSET Slot /\ \A s \in S : clients[s] \in Connection
      BY <2>1
    <3> HIDE DEF S
    <3> QED BY <3>1, SeatsTyped
  <2> QED BY <2>2, DumpRead
<1>3. Typed'
  <2>1. TypedCounts'
    BY <1>1 DEF Base, Typed, TypedCounts
  <2>2. TypedServer'
    BY <1>1 DEF Base, Typed, TypedServer
  <2>3. TypedFrame'
    <3>1. inbox' = <<>> /\ stage' = "packets" /\ frame' = frame /\ truth' = truth
      BY <1>1
    <3>2. /\ frame \in [kind : {"signon", "packet"}, tick : Nat]
          /\ truth \in Seq([tick : Nat, clients : [Slot -> Client], cvar : Nat, neo : [Slot -> NeoName \cup {""}]])
      BY DEF Base, Typed, TypedFrame
    <3>3. inbox' \in Seq(PacketMsg)
      BY <3>1
    <3> QED BY <3>1, <3>2, <3>3 DEF TypedFrame
  <2>4. TypedPass'
    BY <1>1, <1>2 DEF Base, Typed, TypedPass
  <2> QED BY <2>1, <2>2, <2>3, <2>4 DEF Typed
<1>4. Frames'
  <2>1. truth = <<>> /\ tick = 0
    BY <1>1 DEF Base, Frames
  <2>2. \A p \in players' : p.first_seen_tick = 0
    BY DumpRead DEF Seat
  <2> QED BY <1>1, <2>1, <2>2 DEF Frames
<1>5. Updates'
  BY <1>1 DEF Updates
<1> QED BY <1>3, <1>4, <1>5 DEF Base

\* What a packet leaves to be read of what was fired and changed.
LEMMA PacketRead ==
  ASSUME Base, RecordPacket
  PROVE  /\ inbox' \in Seq(PacketMsg) /\ errors' \in Nat /\ warnings' \in Nat
         /\ \/ warnings' = warnings /\ inbox' = fired \o Update
            \/ warnings' = warnings /\ inbox' = Update \o fired
            \/ warnings' = warnings + 1
         /\ \A k \in 1..Len(inbox') :
              \/ \E j \in 1..Len(fired) : inbox'[k] = fired[j]
              \/ \E j \in 1..Len(Update) : inbox'[k] = Update[j]
<1> DEFINE f == [kind |-> "packet", tick |-> tick']
           U == Update
           read(payload) ==
             /\ inbox' \in Seq(PacketMsg) /\ errors' \in Nat /\ warnings' \in Nat
             /\ (warnings' = warnings /\ inbox' = payload) \/ warnings' = warnings + 1
             /\ \A k \in 1..Len(inbox') :
                  \/ \E j \in 1..Len(fired) : inbox'[k] = fired[j]
                  \/ \E j \in 1..Len(U) : inbox'[k] = U[j]
<1>1. PICK p \in Recorded(fired \o U) \cup Recorded(U \o fired) : ReadFrame(f, p)
  BY DEF RecordPacket
<1>2. errors \in Nat /\ warnings \in Nat /\ fired \in Seq(QueueMsg)
  BY DEF Base, Typed, TypedCounts, TypedServer
<1>3. U \in Seq(UpdateMsg)
  BY UpdateRead DEF Base
<1> HIDE DEF f, U
<1>4. fired \in Seq(PacketMsg) /\ U \in Seq(PacketMsg)
  BY <1>2, <1>3 DEF PacketMsg
<1>5. ASSUME NEW a \in Seq(PacketMsg), NEW b \in Seq(PacketMsg), p \in Recorded(a \o b),
             (a = fired /\ b = U) \/ (a = U /\ b = fired)
      PROVE  read(a \o b)
  <2>1. /\ a \o b \in Seq(PacketMsg) /\ Len(a \o b) = Len(a) + Len(b) /\ Len(a) \in Nat /\ Len(b) \in Nat
        /\ \A i \in 1..(Len(a) + Len(b)) : (a \o b)[i] = IF i <= Len(a) THEN a[i] ELSE b[i - Len(a)]
    BY Concat
  <2> DEFINE c == a \o b
  <2> HIDE DEF c
  <2>2. \A i \in 1..Len(c) : c[i].type # "bad"
    <3>1. \A i \in 1..Len(c) : c[i] \in PacketMsg
      BY <2>1 DEF c
    <3> QED BY <3>1, MessageTypes
  <2>3. c \in Seq(PacketMsg) /\ p \in Recorded(c)
    BY <1>5, <2>1 DEF c
  <2>4. /\ inbox' \in Seq(PacketMsg) /\ errors' \in Nat /\ warnings' \in Nat
        /\ (warnings' = warnings /\ inbox' = c) \/ warnings' = warnings + 1
        /\ \A k \in 1..Len(inbox') : \E j \in 1..Len(c) : inbox'[k] = c[j]
    BY <1>1, <1>2, <2>2, <2>3, FrameRead
  <2>5. ASSUME NEW k \in 1..Len(inbox')
        PROVE  \/ \E j \in 1..Len(a) : inbox'[k] = a[j]
               \/ \E j \in 1..Len(b) : inbox'[k] = b[j]
    <3>1. PICK j \in 1..Len(c) : inbox'[k] = c[j]
      BY <2>4
    <3>2. j \in 1..(Len(a) + Len(b)) /\ c[j] = IF j <= Len(a) THEN a[j] ELSE b[j - Len(a)]
      BY <2>1 DEF c
    <3>3. CASE j <= Len(a)
      <4>1. j \in 1..Len(a)
        BY <2>1, <3>2, <3>3
      <4> QED BY <3>1, <3>2, <3>3, <4>1
    <3>4. CASE ~ (j <= Len(a))
      <4>1. j - Len(a) \in 1..Len(b)
        BY <2>1, <3>2, <3>4
      <4> QED BY <3>1, <3>2, <3>4, <4>1
    <3> QED BY <3>3, <3>4
  <2> QED BY <1>5, <2>4, <2>5 DEF c
<1>6. read(fired \o U) \/ read(U \o fired)
  BY <1>1, <1>4, <1>5
<1> QED BY <1>6 DEF U

\* The packet shows what the server holds.
LEMMA PacketKeeps ==
  ASSUME Base, RecordPacket
  PROVE  /\ stage = "packets" /\ inbox = <<>> /\ tick' \in Nat
         /\ tick' > tick \/ (truth = <<>> /\ tick' >= tick)
         /\ frame' = [kind |-> "packet", tick |-> tick'] /\ sent' = clients /\ fired' = <<>>
         /\ \E n : truth' = Append(truth, [tick |-> tick', clients |-> clients, cvar |-> cvar, neo |-> n])
         /\ neoSent' \in [Slot -> NeoName \cup {""}]
         /\ truth' = Append(truth, [tick |-> tick', clients |-> clients, cvar |-> cvar, neo |-> neoSent'])
         /\ UNCHANGED <<sourcetv, clients, neo, cvar, nextId, order, stage, changes>>
         /\ UNCHANGED <<players, cvars, deaths, defs, tables_created, userinfo_table>>
<1>1. /\ stage = "packets" /\ inbox = <<>> /\ sent' = clients /\ fired' = <<>>
      /\ tick' \in {tick + 1} \cup (IF truth = <<>> THEN {0} ELSE {})
      /\ truth' = Append(truth, [tick |-> tick', clients |-> clients, cvar |-> cvar, neo |-> neoSent'])
      /\ UNCHANGED <<sourcetv, clients, neo, cvar, nextId, order, stage, changes>>
  BY DEF RecordPacket
<1>2. \E p : ReadFrame([kind |-> "packet", tick |-> tick'], p)
  BY DEF RecordPacket
<1>3. /\ frame' = [kind |-> "packet", tick |-> tick']
      /\ UNCHANGED <<players, cvars, deaths, defs, tables_created, userinfo_table>>
  BY <1>2 DEF ReadFrame
<1>4. tick \in Nat /\ (truth = <<>> => tick = 0)
  BY DEF Base, Typed, TypedCounts, Frames
<1>5. tick' \in Nat /\ (tick' > tick \/ (truth = <<>> /\ tick' >= tick))
  BY <1>1, <1>4
<1>6. neoSent' \in [Slot -> NeoName \cup {""}]
  <2>1. PICK view : neoSent' = [s \in Slot |-> IF s \in view THEN neo[s] ELSE NeoBefore(s)]
    BY DEF RecordPacket, ShowNeoNames
  <2>2. \A s \in Slot : neo[s] \in NeoName \cup {""} /\ NeoBefore(s) \in NeoName \cup {""}
    BY DEF Base, Typed, TypedServer, NeoBefore
  <2> QED BY <2>1, <2>2
<1> QED BY <1>1, <1>3, <1>5, <1>6

LEMMA PacketShown ==
  ASSUME Base, RecordPacket
  PROVE  /\ Len(truth) \in Nat /\ Len(truth') = Len(truth) + 1
         /\ \A i \in 1..Len(truth) : truth'[i] = truth[i]
         /\ truth'[Len(truth) + 1].tick = tick' /\ truth'[Len(truth) + 1].clients = clients
         /\ \A i \in 1..Len(truth') :
              \/ i \in 1..Len(truth) /\ truth'[i] = truth[i]
              \/ i = Len(truth) + 1 /\ truth'[i].tick = tick' /\ truth'[i].clients = clients
<1> DEFINE Shown == [tick : Nat, clients : [Slot -> Client], cvar : Nat, neo : [Slot -> NeoName \cup {""}]]
           now == [tick |-> tick', clients |-> clients, cvar |-> cvar, neo |-> neoSent']
           n == Len(truth)
<1>1. truth \in Seq(Shown) /\ clients \in [Slot -> Client] /\ cvar \in Nat
  BY DEF Base, Typed, TypedCounts, TypedServer, TypedFrame
<1>2. now \in Shown /\ now.tick = tick' /\ now.clients = clients
  BY <1>1, PacketKeeps
<1>3. truth' = Append(truth, now)
  BY PacketKeeps
<1> HIDE DEF Shown, now
<1>4. /\ n \in Nat /\ Len(truth') = n + 1
      /\ \A i \in 1..n : truth'[i] = truth[i]
      /\ truth'[n + 1] = now
  BY <1>1, <1>2, <1>3, Appended
<1> HIDE DEF n
<1>5. \A i \in 1..Len(truth') : i \in 1..n \/ i = n + 1
  BY <1>4
<1> QED BY <1>2, <1>4, <1>5 DEF n

LEMMA RecordPacketBase ==
  ASSUME Base, RecordPacket
  PROVE  Base'
<1> DEFINE Shown == [tick : Nat, clients : [Slot -> Client], cvar : Nat, neo : [Slot -> NeoName \cup {""}]]
           now == [tick |-> tick', clients |-> clients, cvar |-> cvar, neo |-> neoSent']
           n == Len(truth)
<1>1. /\ stage = "packets" /\ inbox = <<>> /\ tick' \in Nat
      /\ tick' > tick \/ (truth = <<>> /\ tick' >= tick)
      /\ frame' = [kind |-> "packet", tick |-> tick'] /\ sent' = clients /\ fired' = <<>>
      /\ neoSent' \in [Slot -> NeoName \cup {""}]
      /\ truth' = Append(truth, now)
      /\ UNCHANGED <<sourcetv, clients, neo, cvar, nextId, order, stage, changes>>
      /\ UNCHANGED <<players, cvars, deaths, defs, tables_created, userinfo_table>>
  BY PacketKeeps
<1>2. truth \in Seq(Shown) /\ clients \in [Slot -> Client] /\ cvar \in Nat
  BY DEF Base, Typed, TypedCounts, TypedServer, TypedFrame
<1>3. now \in Shown /\ now.tick = tick' /\ now.clients = clients
  BY <1>1, <1>2
<1> HIDE DEF Shown, now
<1>4. /\ truth' \in Seq(Shown) /\ n \in Nat /\ Len(truth') = n + 1 /\ truth' # <<>>
      /\ \A i \in 1..n : truth'[i] = truth[i]
      /\ truth'[n + 1] = now
  <2>1. truth' = Append(truth, now)
    BY <1>1
  <2> QED BY <2>1, <1>2, <1>3, Appended
<1> HIDE DEF n
<1>5. Typed'
  <2>1. TypedCounts'
    BY <1>1, PacketRead DEF Base, Typed, TypedCounts
  <2>2. TypedServer'
    <3>1. fired' \in Seq(QueueMsg)
      <4>1. fired' = <<>>
        BY <1>1
      <4> QED BY <4>1
    <3>2. sourcetv' \in BOOLEAN /\ order' \in TableOrders /\ clients' \in [Slot -> Client]
          /\ sent' \in [Slot -> Client] /\ neo' \in [Slot -> NeoName \cup {""}]
      BY <1>1 DEF Base, Typed, TypedServer
    <3> QED BY <1>1, <3>1, <3>2 DEF TypedServer
  <2>3. TypedFrame'
    <3>1. inbox' \in Seq(PacketMsg) /\ stage' = "packets"
      BY <1>1, PacketRead
    <3>2. frame' \in [kind : {"signon", "packet"}, tick : Nat]
      BY <1>1
    <3> QED BY <1>4, <3>1, <3>2 DEF TypedFrame, Shown
  <2>4. TypedPass'
    BY <1>1 DEF Base, Typed, TypedPass
  <2> QED BY <2>1, <2>2, <2>3, <2>4 DEF Typed
<1>6. Frames'
  <2>1. truth' # <<>> /\ truth'[Len(truth')].tick = tick' /\ truth'[Len(truth')].clients = sent'
    <3>1. sent' = clients
      BY <1>1
    <3> QED BY <1>3, <1>4, <3>1
  <2>2. ASSUME NEW i \in 1..Len(truth'), NEW j \in 1..Len(truth'), i < j
        PROVE  truth'[i].tick < truth'[j].tick
    <3>1. i \in 1..n /\ (j \in 1..n \/ j = n + 1)
      BY <1>4, <2>2
    <3>2. truth # <<>> /\ n \in 1..n
      BY <1>4, <3>1 DEF n
    <3>3. truth[n].tick = tick /\ tick < tick'
      BY <1>1, <3>2 DEF Base, Frames, n
    <3>4. \A a, b \in 1..n : a < b => truth[a].tick < truth[b].tick
      BY DEF Base, Frames, n
    <3>5. \A a \in 1..n : truth[a].tick \in Nat
      <4>1. \A a \in 1..n : truth[a] \in Shown
        BY <1>2 DEF n
      <4> QED BY <4>1 DEF Shown
    <3>6. tick \in Nat /\ tick' \in Nat
      BY <1>1 DEF Base, Typed, TypedCounts
    <3>7. CASE j = n + 1
      <4>1. truth'[j].tick = tick' /\ truth'[i].tick = truth[i].tick
        BY <1>3, <1>4, <3>1, <3>7
      <4>2. i = n \/ i < n
        BY <1>4, <3>1
      <4>3. truth[i].tick <= tick
        BY <3>1, <3>2, <3>3, <3>4, <3>5, <4>2
      <4> QED BY <3>1, <3>3, <3>5, <3>6, <4>1, <4>3
    <3>8. CASE j \in 1..n
      BY <1>4, <2>2, <3>1, <3>4, <3>8
    <3> QED BY <3>1, <3>7, <3>8
  <2>3. \A p \in players' : p.first_seen_tick <= tick'
    <3>1. \A p \in players : p.first_seen_tick <= tick /\ p.first_seen_tick \in Nat
      BY DEF Base, Frames, Typed, TypedPass, Player
    <3>2. players' = players /\ tick \in Nat /\ tick' \in Nat /\ tick <= tick'
      <4>1. tick \in Nat
        BY DEF Base, Typed, TypedCounts
      <4>2. players' = players /\ tick' \in Nat /\ (tick' > tick \/ tick' >= tick)
        BY <1>1
      <4> QED BY <4>1, <4>2
    <3> QED BY <3>1, <3>2
  <2> QED BY <1>1, <2>1, <2>2, <2>3 DEF Frames
<1>7. Updates'
  <2> SUFFICES ASSUME NEW k \in 1..Len(inbox'), inbox'[k].type = "update_table"
               PROVE  /\ inbox'[k].table_id = (TableId("userinfo"))'
                      /\ (Infos(k))' \subseteq {PlayerInfo(s, sent'[s]) : s \in {s \in Slot : sent'[s] # None}}
    BY DEF Updates
  <2>1. ~ \E j \in 1..Len(fired) : inbox'[k] = fired[j]
    <3>0. fired \in Seq(QueueMsg)
      BY DEF Base, Typed, TypedServer
    <3>1. \A j \in 1..Len(fired) : fired[j] \in QueueMsg
      BY <3>0
    <3>2. \A m \in QueueMsg : m.type # "update_table"
      BY DEF QueueMsg, EventMsg, ConnectMsg, RenameMsg, DeathMsg, ConvarMsg
    <3> QED BY <3>1, <3>2
  <2>2. PICK j \in 1..Len(Update) : inbox'[k] = Update[j]
    BY <2>1, PacketRead
  <2>3. /\ inbox'[k].table_id = TableId("userinfo")
        /\ ParseUserinfoUpdate(inbox'[k].entries) =
             {PlayerInfo(s, clients[s]) : s \in {s \in Slot : clients[s] # sent[s] /\ clients[s] # None}}
    BY <2>2, UpdateRead DEF Base
  <2>4. (TableId("userinfo"))' = TableId("userinfo")
    BY <1>1 DEF TableId
  <2>5. (Infos(k))' = ParseUserinfoUpdate(inbox'[k].entries)
    BY DEF Infos
  <2> QED BY <1>1, <2>3, <2>4, <2>5
<1> QED BY <1>5, <1>6, <1>7 DEF Base

-----------------------------------------------------------------------------
(* What a message does                                                     *)

LEMMA HeadAndTail ==
  ASSUME NEW M, NEW q \in Seq(M), q # <<>>
  PROVE  /\ Head(q) \in M /\ Head(q) = q[1] /\ Len(q) \in Nat /\ 1 \in 1..Len(q)
         /\ Tail(q) \in Seq(M) /\ Len(Tail(q)) = Len(q) - 1
         /\ \A k \in 1..Len(Tail(q)) : k + 1 \in 1..Len(q) /\ Tail(q)[k] = q[k + 1]
OBVIOUS

\* A message is taken of what the frame left, on the server as it was then.
LEMMA Taken ==
  ASSUME Base, NEW type, Take(type)
  PROVE  /\ inbox # <<>> /\ Head(inbox).type = type /\ inbox' = Tail(inbox)
         /\ UNCHANGED <<sourcetv, clients, sent, neo, neoSent, cvar, fired, nextId, order, tick, stage>>
         /\ UNCHANGED <<changes, errors, truth, neoNames, frame>>
         /\ \/ stage = "packets" /\ inbox \in Seq(PacketMsg) /\ Head(inbox) \in PacketMsg
               /\ truth # <<>> /\ fired = <<>> /\ clients = sent
               /\ StateTick = tick /\ frame.tick = tick
            \/ stage = "dump" /\ inbox \in Seq(SignonMsg) /\ Head(inbox) \in SignonMsg
<1>1. /\ inbox # <<>> /\ Head(inbox).type = type /\ inbox' = Tail(inbox)
      /\ UNCHANGED <<sourcetv, clients, sent, neo, neoSent, cvar, fired, nextId, order, tick, stage>>
      /\ UNCHANGED <<changes, errors, truth, neoNames, frame>>
  BY DEF Take, server
<1>2. /\ stage \in {"dump", "packets"}
      /\ stage = "packets" => inbox \in Seq(PacketMsg)
      /\ stage = "dump" => inbox \in Seq(SignonMsg)
  BY <1>1 DEF Base, Typed, TypedFrame
<1>3. stage = "packets" => /\ truth # <<>> /\ fired = <<>> /\ clients = sent
                           /\ frame = [kind |-> "packet", tick |-> tick]
  BY <1>1 DEF Base, Frames
<1>4. stage = "packets" => StateTick = tick /\ frame.tick = tick
  BY <1>3 DEF StateTick
<1>5. stage = "packets" => Head(inbox) \in PacketMsg
  BY <1>1, <1>2, HeadAndTail
<1>6. stage = "dump" => Head(inbox) \in SignonMsg
  BY <1>1, <1>2, HeadAndTail
<1> QED BY <1>1, <1>2, <1>3, <1>4, <1>5, <1>6

\* An event is a death, a connect or a new name, or cannot be read.
LEMMA EventTaken ==
  ASSUME Base, TakeGameEvent
  PROVE  LET m == Head(inbox)
         IN /\ Take("game_event") /\ stage = "packets" /\ m \in EventMsg
            /\ UNCHANGED <<cvars, defs, tables_created, userinfo_table>>
            /\ \/ warnings' = warnings + 1 /\ UNCHANGED <<players, deaths>>
               \/ /\ warnings' = warnings /\ UNCHANGED players
                  /\ m.id = 3 /\ m.fields \in Died /\ deaths' = Append(deaths, m.fields)
               \/ /\ warnings' = warnings /\ UNCHANGED deaths
                  /\ m.id = 5 /\ m.fields \in Connected
                  /\ players' = players \cup
                       IF m.fields.userid \in Known THEN {}
                       ELSE {[entity_id |-> m.fields.index + 1, user_id |-> m.fields.userid,
                              name |-> m.fields.name, first_seen_tick |-> tick]}
               \/ /\ warnings' = warnings /\ UNCHANGED deaths
                  /\ m.id = 8 /\ m.fields \in Renamed
                  /\ players' = {IF p.user_id = m.fields.userid THEN [p EXCEPT !.name = m.fields.newname] ELSE p :
                                   p \in players}
<1> DEFINE m == Head(inbox)
<1>1. Take("game_event") /\ UNCHANGED <<cvars, defs, tables_created, userinfo_table>>
  BY DEF TakeGameEvent
<1>2. /\ inbox # <<>> /\ m.type = "game_event"
      /\ \/ stage = "packets" /\ m \in PacketMsg /\ frame.tick = tick
         \/ stage = "dump" /\ m \in SignonMsg
  BY <1>1, Taken
<1>3. stage = "packets" /\ frame.tick = tick /\ m \in EventMsg
  BY <1>2, MessageTypes
<1>4. /\ m.id \in {3, 5, 8}
      /\ m.id = 3 => m.fields \in Died
      /\ m.id = 5 => m.fields \in Connected
      /\ m.id = 8 => m.fields \in Renamed
  BY <1>3, Kinds
<1>5. defs \in {<<>>, EventDefs}
  BY DEF Base, Typed, TypedPass
<1>6. Event # None => /\ Event.fields = m.fields
                      /\ Event.id = "player_death" <=> m.id = 3
                      /\ Event.id = "player_connect_client" <=> m.id = 5
                      /\ Event.id = "player_changename" <=> m.id = 8
  BY <1>2, <1>3, <1>5, EventRead
<1>7. CASE Event = None
  BY <1>1, <1>3, <1>7 DEF TakeGameEvent
<1>8. CASE Event # None /\ Event.id = "player_death"
  BY <1>1, <1>3, <1>4, <1>6, <1>8 DEF TakeGameEvent
<1>9. CASE Event # None /\ Event.id = "player_connect_client"
  <2>1. AddPlayer /\ UNCHANGED deaths /\ warnings' = warnings
    BY <1>9 DEF TakeGameEvent
  <2> QED BY <1>1, <1>3, <1>4, <1>6, <1>9, <2>1 DEF AddPlayer
<1>10. CASE Event # None /\ Event.id = "player_changename"
  <2>1. RenamePlayer /\ UNCHANGED deaths /\ warnings' = warnings
    BY <1>10 DEF TakeGameEvent
  <2> QED BY <1>1, <1>3, <1>4, <1>6, <1>10, <2>1 DEF RenamePlayer
<1> QED BY <1>7, <1>8, <1>9, <1>10 DEF TakeGameEvent

\* Those an update brings in who are not in the roster yet.
Arriving ==
  {s \in Slot : IsPlayer(sent[s]) /\ PlayerInfo(s, sent[s]) \in Infos(1) /\ sent[s].user_id \notin Known}

LEMMA UpdateTaken ==
  ASSUME Base, TakeUpdateTable
  PROVE  /\ Take("update_table") /\ stage = "packets" /\ inbox[1].type = "update_table"
         /\ UNCHANGED <<cvars, deaths, defs, tables_created, userinfo_table>>
         /\ players' = players \/ players' = players \cup {Seat(s, sent[s], tick) : s \in Arriving}
         /\ warnings' = warnings \/ warnings' = warnings + 1
         /\ userinfo_table = TableId("userinfo") /\ warnings' = warnings =>
              players' = players \cup {Seat(s, sent[s], tick) : s \in Arriving}
<1>1. /\ Take("update_table")
      /\ UNCHANGED <<cvars, deaths, defs, tables_created, userinfo_table>>
      /\ \/ OnUserinfo(ParseUserinfoUpdate(Head(inbox).entries)) /\ warnings' = warnings
         \/ warnings' = warnings + 1 /\ players' = players
         \/ Head(inbox).table_id # userinfo_table /\ players' = players /\ warnings' = warnings
  BY DEF TakeUpdateTable
<1>2. /\ inbox # <<>> /\ Head(inbox).type = "update_table"
      /\ \/ stage = "packets" /\ inbox \in Seq(PacketMsg) /\ StateTick = tick
         \/ stage = "dump" /\ Head(inbox) \in SignonMsg
  BY <1>1, Taken
<1>3. stage = "packets" /\ inbox \in Seq(PacketMsg) /\ StateTick = tick
  BY <1>2, MessageTypes
<1>4. Head(inbox) = inbox[1] /\ 1 \in 1..Len(inbox)
  BY <1>2, <1>3, HeadAndTail
<1>5. /\ inbox[1].table_id = TableId("userinfo")
      /\ Infos(1) \subseteq {PlayerInfo(s, sent[s]) : s \in {s \in Slot : sent[s] # None}}
  BY <1>2, <1>4 DEF Base, Updates
<1>6. ASSUME OnUserinfo(Infos(1))
      PROVE  players' = players \cup {Seat(s, sent[s], tick) : s \in Arriving}
  <2> DEFINE row(i) == [entity_id |-> i.entity_id, user_id |-> i.user_id, name |-> i.name,
                        first_seen_tick |-> StateTick]
             New == {i \in Infos(1) : ~i.is_hltv /\ i.user_id \notin Known}
  <2>1. players' = players \cup {row(i) : i \in New}
    BY <1>6 DEF OnUserinfo
  <2>2. \A s : /\ row(PlayerInfo(s, sent[s])) = Seat(s, sent[s], tick)
               /\ PlayerInfo(s, sent[s]).is_hltv = sent[s].is_hltv
               /\ PlayerInfo(s, sent[s]).user_id = sent[s].user_id
    BY <1>3 DEF Seat, PlayerInfo
  <2> HIDE DEF row
  <2>3. \A i \in New : \E s \in Arriving : i = PlayerInfo(s, sent[s])
    BY <1>5, <2>2 DEF Arriving, IsPlayer
  <2>4. \A s \in Arriving : PlayerInfo(s, sent[s]) \in New
    BY <2>2 DEF Arriving, IsPlayer
  <2> HIDE DEF New
  <2>5. {row(i) : i \in New} = {Seat(s, sent[s], tick) : s \in Arriving}
    BY <2>2, <2>3, <2>4
  <2> QED BY <2>1, <2>5
<1>7. ParseUserinfoUpdate(Head(inbox).entries) = Infos(1)
  BY <1>4 DEF Infos
<1>8. warnings \in Nat
  BY DEF Base, Typed, TypedCounts
<1> QED BY <1>1, <1>2, <1>3, <1>4, <1>5, <1>6, <1>7, <1>8

LEMMA FrameTaken ==
  ASSUME OnFrame
  PROVE  \E type : Take(type)
BY DEF OnFrame, TakeServerInfo, TakeSetConVar, TakeEventList, TakeGameEvent, TakeCreateTable, TakeUpdateTable

\* The roster's players after a message.
LEMMA RosterTyped ==
  ASSUME Base, OnFrame
  PROVE  /\ players' \subseteq Player /\ IsFiniteSet(players')
         /\ \A p \in players' : p.first_seen_tick <= tick
         /\ stage # "packets" => players' = players /\ deaths' = deaths
<1>1. /\ players \subseteq Player /\ IsFiniteSet(players) /\ tick \in Nat
      /\ \A p \in players : p.first_seen_tick <= tick
  BY DEF Base, Typed, TypedPass, TypedCounts, Frames
<1>2. CASE players' = players /\ deaths' = deaths
  BY <1>1, <1>2
<1>3. CASE TakeGameEvent
  <2> DEFINE m == Head(inbox)
             row == [entity_id |-> m.fields.index + 1, user_id |-> m.fields.userid,
                     name |-> m.fields.name, first_seen_tick |-> tick]
  <2>1. stage = "packets"
    BY <1>3, EventTaken
  <2>2. CASE players' = players
    BY <1>1, <2>1, <2>2
  <2>3. CASE m.fields \in Connected /\ players' = players \cup (IF m.fields.userid \in Known THEN {} ELSE {row})
    <3>1. row \in Player /\ row.first_seen_tick = tick
      <4>1. m.fields.index \in Slot /\ m.fields.userid \in Nat /\ m.fields.name \in Nat
        BY <2>3 DEF Connected
      <4>2. m.fields.index + 1 \in Nat
        BY <4>1, SlotsAreNumbers
      <4> QED BY <1>1, <4>1, <4>2 DEF Player
    <3> HIDE DEF row
    <3>2. IsFiniteSet(players \cup {row})
      BY <1>1, FS_AddElement
    <3>3. players' = players \/ players' = players \cup {row}
      BY <2>3
    <3> QED BY <1>1, <2>1, <3>1, <3>2, <3>3
  <2>4. CASE /\ m.fields \in Renamed
             /\ players' = {IF p.user_id = m.fields.userid THEN [p EXCEPT !.name = m.fields.newname] ELSE p :
                              p \in players}
    <3> DEFINE f == [p \in players |->
                       IF p.user_id = m.fields.userid THEN [p EXCEPT !.name = m.fields.newname] ELSE p]
    <3>1. \A p \in players : f[p] \in Player /\ f[p].first_seen_tick = p.first_seen_tick
      <4>1. m.fields.newname \in Nat
        BY <2>4 DEF Renamed
      <4> QED BY <1>1, <4>1 DEF Player
    <3>2. players' = {f[p] : p \in players}
      BY <2>4
    <3>3. f \in Surjection(players, players')
      BY <3>2 DEF Surjection
    <3> HIDE DEF f
    <3>4. IsFiniteSet(players')
      BY <1>1, <3>3, FS_Surjection
    <3> QED BY <1>1, <2>1, <3>1, <3>2, <3>4
  <2>5. players' = players \/ m.fields \in Connected \/ m.fields \in Renamed
    BY <1>3, EventTaken
  <2> QED BY <1>3, <2>2, <2>3, <2>4, EventTaken
<1>4. CASE TakeUpdateTable
  <2> DEFINE New == {Seat(s, sent[s], tick) : s \in Arriving}
  <2>1. stage = "packets" /\ (players' = players \/ players' = players \cup New)
    BY <1>4, UpdateTaken
  <2>2. Arriving \in SUBSET Slot /\ \A s \in Arriving : sent[s] \in Connection
    BY DEF Arriving, IsPlayer, Base, Typed, TypedServer, Client
  <2>3. New \subseteq Player /\ IsFiniteSet(New)
    BY <1>1, <2>2, SeatsTyped
  <2>4. \A p \in New : p.first_seen_tick <= tick
    <3>1. \A s : Seat(s, sent[s], tick).first_seen_tick = tick
      BY DEF Seat
    <3> QED BY <1>1, <3>1
  <2> HIDE DEF New
  <2>5. IsFiniteSet(players \cup New)
    BY <1>1, <2>3, FS_Union
  <2>6. CASE players' = players
    BY <1>1, <2>1, <2>6
  <2>7. CASE players' = players \cup New
    BY <1>1, <2>1, <2>3, <2>4, <2>5, <2>7
  <2> QED BY <2>1, <2>6, <2>7
<1>5. TakeServerInfo \/ TakeSetConVar \/ TakeEventList \/ TakeCreateTable => players' = players /\ deaths' = deaths
  BY DEF TakeServerInfo, TakeSetConVar, TakeEventList, TakeCreateTable, pass
<1>6. (players' = players /\ deaths' = deaths) \/ TakeGameEvent \/ TakeUpdateTable
  BY <1>5 DEF OnFrame
<1> QED BY <1>2, <1>3, <1>4, <1>6, Zenon

LEMMA PassTyped ==
  ASSUME Base, OnFrame
  PROVE  TypedPass' /\ warnings' \in Nat
<1>1. /\ cvars \in Seq([tick : Nat, name : Convars, value : Nat]) /\ deaths \in Seq(Died)
      /\ defs \in {<<>>, EventDefs} /\ tables_created \in 0..255 /\ userinfo_table \in (0..255) \cup {None}
      /\ warnings \in Nat
  BY DEF Base, Typed, TypedPass, TypedCounts
<1>2. players' \subseteq Player /\ IsFiniteSet(players')
  BY RosterTyped
<1>3. CASE TakeServerInfo
  BY <1>1, <1>2, <1>3 DEF TakeServerInfo, pass, TypedPass
<1>4. CASE TakeSetConVar
  <2> DEFINE m == Head(inbox)
             same == SameTickRows(m.name)
             Row == [tick : Nat, name : Convars, value : Nat]
  <2>1. /\ Take("set_convar")
        /\ cvars' = IF same = {} THEN Append(cvars, [tick |-> StateTick, name |-> m.name, value |-> m.value])
                    ELSE [cvars EXCEPT ![Max(same)].value = m.value]
        /\ UNCHANGED <<deaths, defs, tables_created, userinfo_table, warnings>>
    BY <1>4 DEF TakeSetConVar
  <2>2. m \in ConvarMsg
    BY <2>1, Taken, MessageTypes
  <2>3. m.name \in Convars /\ m.value \in Nat
    BY <2>2 DEF ConvarMsg
  <2>4. StateTick \in Nat
    <3>1. frame \in [kind : {"signon", "packet"}, tick : Nat]
      BY DEF Base, Typed, TypedFrame
    <3> QED BY <3>1 DEF StateTick
  <2>5. [tick |-> StateTick, name |-> m.name, value |-> m.value] \in Row
    BY <2>3, <2>4
  <2> DEFINE k == Max(same)
  <2> HIDE DEF same, k
  <2>6. [cvars EXCEPT ![k].value = m.value] \in Seq(Row)
    <3>1. cvars \in Seq(Row)
      BY <1>1
    <3>2. \A r \in Row : [r EXCEPT !.value = m.value] \in Row
      BY <2>3
    <3> DEFINE v == m.value
               c == [i \in 1..Len(cvars) |-> IF i = k THEN [cvars[i] EXCEPT !.value = v] ELSE cvars[i]]
    <3>3. [cvars EXCEPT ![k].value = v] = c
      <4> HIDE DEF Row, m, v
      <4> QED BY <3>1
    <3>4. c \in Seq(Row)
      <4>1. \A i \in 1..Len(cvars) : cvars[i] \in Row /\ [cvars[i] EXCEPT !.value = v] \in Row
        <5> HIDE DEF Row
        <5> QED BY <3>1, <3>2
      <4>2. Len(cvars) \in Nat
        BY <3>1
      <4> HIDE DEF Row, v
      <4> QED BY <4>1, <4>2
    <3> QED BY <3>3, <3>4
  <2>7. cvars' \in Seq(Row)
    <3>1. \/ cvars' = Append(cvars, [tick |-> StateTick, name |-> m.name, value |-> m.value])
          \/ cvars' = [cvars EXCEPT ![k].value = m.value]
      BY <2>1 DEF same, k
    <3> DEFINE r == [tick |-> StateTick, name |-> m.name, value |-> m.value]
    <3>2. Append(cvars, r) \in Seq(Row)
      <4> HIDE DEF r
      <4> QED BY <1>1, <2>5, Appended DEF r
    <3> QED BY <2>6, <3>1, <3>2
  <2> QED BY <1>1, <1>2, <2>1, <2>7 DEF TypedPass
<1>5. CASE TakeEventList
  <2>1. /\ Take("event_list") /\ defs' = Head(inbox).defs
        /\ UNCHANGED <<cvars, deaths, tables_created, userinfo_table, warnings>>
    BY <1>5 DEF TakeEventList
  <2>2. Head(inbox) \in ListMsg
    BY <2>1, Taken, MessageTypes
  <2>3. defs' = EventDefs
    BY <2>1, <2>2 DEF ListMsg
  <2> QED BY <1>1, <1>2, <2>1, <2>3 DEF TypedPass
<1>6. CASE TakeGameEvent
  <2> DEFINE m == Head(inbox)
  <2>1. UNCHANGED <<cvars, defs, tables_created, userinfo_table>>
    BY <1>6, EventTaken
  <2>2. warnings' = warnings \/ warnings' = warnings + 1
    BY <1>6, EventTaken
  <2>3. deaths' = deaths \/ (m.fields \in Died /\ deaths' = Append(deaths, m.fields))
    BY <1>6, EventTaken
  <2>4. deaths' \in Seq(Died)
    <3>1. deaths \in Seq(Died) /\ \A d \in Died : Append(deaths, d) \in Seq(Died)
      BY <1>1
    <3> HIDE DEF m
    <3> QED BY <2>3, <3>1
  <2> QED BY <1>1, <1>2, <2>1, <2>2, <2>4 DEF TypedPass
<1>7. CASE TakeCreateTable
  <2>1. /\ userinfo_table' = IF Head(inbox).name = "userinfo" THEN tables_created ELSE userinfo_table
        /\ tables_created' = (tables_created + 1) % 256
        /\ UNCHANGED <<cvars, deaths, defs, warnings>>
    BY <1>7 DEF TakeCreateTable
  <2>2. tables_created' \in 0..255
    BY <1>1, <2>1
  <2>3. userinfo_table' \in (0..255) \cup {None}
    BY <1>1, <2>1
  <2> QED BY <1>1, <1>2, <2>1, <2>2, <2>3 DEF TypedPass
<1>8. CASE TakeUpdateTable
  BY <1>1, <1>2, <1>8, UpdateTaken DEF TypedPass
<1> QED BY <1>3, <1>4, <1>5, <1>6, <1>7, <1>8 DEF OnFrame

LEMMA OnFrameBase ==
  ASSUME Base, OnFrame
  PROVE  Base'
<1>1. PICK type : Take(type)
  BY FrameTaken
<1>2. /\ inbox # <<>> /\ inbox' = Tail(inbox)
      /\ UNCHANGED <<sourcetv, clients, sent, neo, neoSent, cvar, fired, nextId, order, tick, stage>>
      /\ UNCHANGED <<changes, errors, truth, neoNames, frame>>
      /\ \/ stage = "packets" /\ inbox \in Seq(PacketMsg)
         \/ stage = "dump" /\ inbox \in Seq(SignonMsg)
  BY <1>1, Taken
<1>3. TypedPass' /\ warnings' \in Nat
  BY PassTyped
<1>4. TypedCounts'
  BY <1>2, <1>3 DEF Base, Typed, TypedCounts
<1>5. TypedServer'
  BY <1>2 DEF Base, Typed, TypedServer
<1>6. TypedFrame'
  <2>1. \/ stage' = "packets" /\ inbox' \in Seq(PacketMsg)
        \/ stage' = "dump" /\ inbox' \in Seq(SignonMsg)
    BY <1>2, HeadAndTail
  <2>2. frame' = frame /\ truth' = truth
    BY <1>2
  <2>3. /\ frame \in [kind : {"signon", "packet"}, tick : Nat]
        /\ truth \in Seq([tick : Nat, clients : [Slot -> Client], cvar : Nat, neo : [Slot -> NeoName \cup {""}]])
    BY DEF Base, Typed, TypedFrame
  <2> QED BY <2>1, <2>2, <2>3 DEF TypedFrame
<1>7. Frames'
  <2>1. \A p \in players' : p.first_seen_tick <= tick
    BY RosterTyped
  <2>2. stage # "packets" => players' = players /\ deaths' = deaths
    BY RosterTyped
  <2>3. Frames
    BY DEF Base
  <2> QED BY <1>2, <2>1, <2>2, <2>3 DEF Frames
<1>8. Updates'
  <2> SUFFICES ASSUME NEW k \in 1..Len(inbox'), inbox'[k].type = "update_table"
               PROVE  /\ inbox'[k].table_id = (TableId("userinfo"))'
                      /\ (Infos(k))' \subseteq {PlayerInfo(s, sent'[s]) : s \in {s \in Slot : sent'[s] # None}}
    BY DEF Updates
  <2>1. k + 1 \in 1..Len(inbox) /\ inbox'[k] = inbox[k + 1]
    BY <1>2, HeadAndTail
  <2>2. /\ inbox[k + 1].table_id = TableId("userinfo")
        /\ Infos(k + 1) \subseteq {PlayerInfo(s, sent[s]) : s \in {s \in Slot : sent[s] # None}}
    BY <2>1 DEF Base, Updates
  <2>3. (TableId("userinfo"))' = TableId("userinfo") /\ sent' = sent
    BY <1>2 DEF TableId
  <2>4. (Infos(k))' = Infos(k + 1)
    BY <2>1 DEF Infos
  <2> QED BY <2>1, <2>2, <2>3, <2>4
<1> QED BY <1>3, <1>4, <1>5, <1>6, <1>7, <1>8 DEF Base, Typed

\* What the program's state is like throughout.
LEMMA BaseInductive == Spec => []Base
<1>1. Base /\ [Next]_vars => Base'
  BY ServerBase, RecordSignonBase, RecordDumpBase, RecordPacketBase, OnFrameBase, StutterBase DEF Next
<1> QED BY InitBase, <1>1, PTL DEF Spec

-----------------------------------------------------------------------------
(* Whose a userid is                                                       *)

\* Rows that are the same but for the name.
SameSeat(p, q) ==
  p.entity_id = q.entity_id /\ p.user_id = q.user_id /\ p.first_seen_tick = q.first_seen_tick

\* A row a message brings: a connect event's player, or one in the update.
Arrives(q) ==
  /\ stage = "packets" /\ q.user_id \notin Known /\ q.first_seen_tick = tick
  /\ \/ /\ inbox[1] \in ConnectMsg /\ q.user_id = inbox[1].fields.userid
        /\ q.entity_id = inbox[1].fields.index + 1 /\ q.name = inbox[1].fields.name
     \/ \E s \in Slot : IsPlayer(sent[s]) /\ q = Seat(s, sent[s], tick)

\* A message keeps every row but for its name, and brings rows of userids that
\* had none.
LEMMA RosterStep ==
  ASSUME Base, OnFrame
  PROVE  /\ \A p \in players : \E q \in players' : SameSeat(p, q)
         /\ \A q \in players' : (\E p \in players : SameSeat(p, q)) \/ Arrives(q)
<1>1. \A p : SameSeat(p, p)
  BY DEF SameSeat
<1>2. CASE players' = players
  BY <1>1, <1>2
<1>3. CASE TakeGameEvent
  <2> DEFINE m == Head(inbox)
             row == [entity_id |-> m.fields.index + 1, user_id |-> m.fields.userid,
                     name |-> m.fields.name, first_seen_tick |-> tick]
             f(p) == IF p.user_id = m.fields.userid THEN [p EXCEPT !.name = m.fields.newname] ELSE p
  <2>1. /\ stage = "packets" /\ m \in EventMsg
        /\ \/ players' = players
           \/ m.id = 5 /\ players' = players \cup IF m.fields.userid \in Known THEN {} ELSE {row}
           \/ players' = {f(p) : p \in players}
    BY <1>3, EventTaken
  <2>2. CASE m.id = 5 /\ players' = players \cup IF m.fields.userid \in Known THEN {} ELSE {row}
    <3>1. inbox # <<>> /\ inbox \in Seq(PacketMsg)
      BY <1>3, <2>1, Taken, EventTaken
    <3>2. m = inbox[1]
      BY <3>1, HeadAndTail
    <3>3. m \in ConnectMsg
      BY <2>1, <2>2 DEF EventMsg, ConnectMsg, RenameMsg, DeathMsg
    <3>4. m.fields.userid \notin Known => Arrives(row)
      BY <2>1, <3>2, <3>3 DEF Arrives
    <3> HIDE DEF row, m
    <3> QED BY <1>1, <2>2, <3>4
  <2>3. CASE players' = {f(p) : p \in players}
    <3>1. \A p \in players : SameSeat(p, f(p))
      <4>1. players \subseteq Player
        BY DEF Base, Typed, TypedPass
      <4>2. \A p \in Player : SameSeat(p, f(p))
        BY DEF Player, SameSeat
      <4> QED BY <4>1, <4>2
    <3> HIDE DEF f
    <3> QED BY <2>3, <3>1
  <2> QED BY <1>2, <2>1, <2>2, <2>3
<1>4. CASE TakeUpdateTable
  <2> DEFINE New == {Seat(s, sent[s], tick) : s \in Arriving}
  <2>1. stage = "packets" /\ (players' = players \/ players' = players \cup New)
    BY <1>4, UpdateTaken
  <2>2. \A q \in New : Arrives(q)
    <3>1. \A s \in Arriving : s \in Slot /\ IsPlayer(sent[s]) /\ sent[s].user_id \notin Known
      BY DEF Arriving
    <3>2. \A s : Seat(s, sent[s], tick).user_id = sent[s].user_id /\ Seat(s, sent[s], tick).first_seen_tick = tick
      BY DEF Seat
    <3> QED BY <2>1, <3>1, <3>2 DEF Arrives
  <2> HIDE DEF New
  <2> QED BY <1>1, <1>2, <2>1, <2>2
<1>5. TakeServerInfo \/ TakeSetConVar \/ TakeEventList \/ TakeCreateTable => players' = players
  BY DEF TakeServerInfo, TakeSetConVar, TakeEventList, TakeCreateTable, pass
<1> QED BY <1>2, <1>3, <1>4, <1>5 DEF OnFrame

\* No two rows have one userid.
Unique == \A p, q \in players : p.user_id = q.user_id => p = q

\* home[u] is the slot the userid u was given, or -1; hltv has the proxy's.
Fits(home, hltv, s, c) ==
  c # None => home[c.user_id] = s /\ (c.is_hltv <=> c.user_id \in hltv)

Placed(home, hltv, m) ==
  m \in ConnectMsg => home[m.fields.userid] = m.fields.index /\ m.fields.userid \notin hltv

Rostered(home, hltv, p) ==
  home[p.user_id] \in Slot /\ p.entity_id = home[p.user_id] + 1 /\ p.user_id \notin hltv

\* Wherever a userid turns up, it is the same connection's, and no connection
\* before the one in a slot has a greater userid.
Owned(home, hltv) ==
  /\ \A u \in Nat : u >= nextId => home[u] = -1 /\ u \notin hltv
  /\ \A s \in Slot : Fits(home, hltv, s, clients[s]) /\ Fits(home, hltv, s, sent[s])
  /\ \A i \in 1..Len(truth), s \in Slot : Fits(home, hltv, s, truth[i].clients[s])
  /\ \A p \in players : Rostered(home, hltv, p)
  /\ \A k \in 1..Len(fired) : Placed(home, hltv, fired[k])
  /\ \A k \in 1..Len(inbox) : Placed(home, hltv, inbox[k])
  /\ \A u \in Nat, s \in Slot : home[u] = s /\ clients[s] # None => u <= clients[s].user_id

Homes == [Nat -> Slot \cup {-1}]
OneOwner == \E home \in Homes, hltv \in SUBSET Nat : Owned(home, hltv)

LEMMA InitOwned == Init => OneOwner /\ Unique
<1> SUFFICES ASSUME Init PROVE OneOwner /\ Unique
  OBVIOUS
<1>1. PICK on \in SUBSET Slot :
        clients = [s \in Slot |-> IF s \in on
                     THEN [user_id |-> s + 1, name |-> 0, is_hltv |-> sourcetv /\ s = Min(on)] ELSE None]
  BY DEF Init
<1>2. nextId = Max(Slot) + 2 /\ players = {} /\ truth = <<>> /\ fired = <<>> /\ inbox = <<>>
  BY DEF Init
<1>3. \A s \in Slot : sent[s] = None
  BY DEF Init
<1> DEFINE home == [u \in Nat |-> IF u - 1 \in Slot THEN u - 1 ELSE -1]
           hltv == {u \in Nat : u - 1 \in Slot /\ clients[u - 1] # None /\ clients[u - 1].is_hltv}
<1>4. home \in Homes /\ hltv \in SUBSET Nat
  BY DEF Homes
<1>5. \A s \in Slot : s \in Nat /\ s + 1 \in Nat /\ (s + 1) - 1 = s /\ s <= Max(Slot) /\ Max(Slot) \in Nat
  <2>1. Slot \subseteq Nat /\ IsFiniteSet(Slot) /\ Slot # {}
    BY NetPassAssumption
  <2>2. Slot \in SUBSET Int
    BY <2>1
  <2>3. Max(Slot) \in Slot /\ \A s \in Slot : s <= Max(Slot)
    BY <2>1, <2>2, MaxOfSet
  <2>4. Max(Slot) \in Nat
    BY <2>1, <2>3
  <2>5. \A s \in Slot : s \in Nat /\ s + 1 \in Nat /\ (s + 1) - 1 = s
    BY SlotsAreNumbers
  <2> HIDE DEF home, hltv
  <2> QED BY <2>3, <2>4, <2>5
<1>6. \A s \in Slot : clients[s] # None => clients[s].user_id = s + 1
  BY <1>1
<1>7. ASSUME NEW u \in Nat, u >= nextId
      PROVE  home[u] = -1 /\ u \notin hltv
  <2>1. u - 1 \notin Slot
    BY <1>2, <1>5, <1>7
  <2> QED BY <2>1
<1>8. ASSUME NEW s \in Slot
      PROVE  Fits(home, hltv, s, clients[s]) /\ Fits(home, hltv, s, sent[s])
  <2>1. home[s + 1] = s
    BY <1>5
  <2>2. clients[s] # None => (s + 1 \in hltv <=> clients[s].is_hltv)
    BY <1>5
  <2> HIDE DEF home, hltv
  <2> QED BY <1>3, <1>6, <2>1, <2>2 DEF Fits
<1>9. ASSUME NEW u \in Nat, NEW s \in Slot, home[u] = s, clients[s] # None
      PROVE  u <= clients[s].user_id
  <2>1. u - 1 = s
    BY <1>5, <1>9
  <2>2. clients[s].user_id = s + 1 /\ s \in Nat
    BY <1>5, <1>6, <1>9
  <2> QED BY <2>1, <2>2
<1> HIDE DEF home, hltv
<1>10. Owned(home, hltv)
  BY <1>2, <1>7, <1>8, <1>9 DEF Owned
<1> QED BY <1>2, <1>4, <1>10 DEF OneOwner, Unique

\* Only a client who is in their slot is in the game.
LEMMA ServerOwned ==
  ASSUME Base, OneOwner, Unique, Server
  PROVE  OneOwner' /\ Unique'
<1>1. PICK home \in Homes, hltv \in SUBSET Nat : Owned(home, hltv)
  BY DEF OneOwner
<1>2. UNCHANGED <<sent, truth, inbox, players>> /\ inbox = <<>>
  BY ServerKeeps
<1>3. /\ \A u \in Nat : u >= nextId => home[u] = -1 /\ u \notin hltv
      /\ \A s \in Slot : Fits(home, hltv, s, clients[s]) /\ Fits(home, hltv, s, sent[s])
      /\ \A i \in 1..Len(truth), s \in Slot : Fits(home, hltv, s, truth[i].clients[s])
      /\ \A p \in players : Rostered(home, hltv, p)
      /\ \A k \in 1..Len(fired) : Placed(home, hltv, fired[k])
      /\ \A u \in Nat, s \in Slot : home[u] = s /\ clients[s] # None => u <= clients[s].user_id
  BY <1>1 DEF Owned
<1>4. fired \in Seq(QueueMsg) /\ nextId \in Nat /\ clients \in [Slot -> Client] /\ sent \in [Slot -> Client]
  BY DEF Base, Typed, TypedServer, TypedCounts
<1>5. Unique'
  BY <1>2 DEF Unique
<1>6. ASSUME nextId' = nextId, \E m \in QueueMsg : fired' \in {fired, Append(fired, m)} /\ m \notin ConnectMsg,
             \A s \in Slot : clients'[s] = None \/ /\ clients[s] # None
                                                   /\ clients'[s].user_id = clients[s].user_id
                                                   /\ clients'[s].is_hltv = clients[s].is_hltv
      PROVE  OneOwner'
  <2>1. \A k \in 1..Len(fired') : Placed(home, hltv, fired'[k])
    <3>1. PICK m \in QueueMsg : fired' \in {fired, Append(fired, m)} /\ m \notin ConnectMsg
      BY <1>6
    <3>2. Placed(home, hltv, m)
      BY <3>1 DEF Placed
    <3>3. CASE fired' = fired
      BY <1>3, <3>3
    <3>4. CASE fired' = Append(fired, m)
      <4>1. ASSUME NEW k \in 1..Len(fired')
            PROVE  (k \in 1..Len(fired) /\ fired'[k] = fired[k]) \/ fired'[k] = m
        BY <1>4, <3>4
      <4> QED BY <1>3, <3>2, <4>1
    <3> QED BY <3>1, <3>3, <3>4
  <2>2. \A s \in Slot : Fits(home, hltv, s, clients'[s])
    BY <1>3, <1>6 DEF Fits
  <2>3. \A u \in Nat, s \in Slot : home[u] = s /\ clients'[s] # None => u <= clients'[s].user_id
    BY <1>3, <1>6
  <2>4. Owned(home, hltv)'
    BY <1>2, <1>3, <1>6, <2>1, <2>2, <2>3 DEF Owned
  <2> QED BY <2>4 DEF OneOwner
<1>7. CASE SetCvar
  <2> DEFINE m == [type |-> "set_convar", name |-> "sv_rounds", value |-> cvar + 1]
  <2>1. m \in QueueMsg /\ m \notin ConnectMsg
    <3>1. cvar + 1 \in Nat
      BY DEF Base, Typed, TypedCounts
    <3>2. m \in ConvarMsg
      BY <3>1 DEF ConvarMsg, Convars
    <3>3. m.type = "set_convar"
      OBVIOUS
    <3> HIDE DEF m
    <3> QED BY <3>2, <3>3 DEF QueueMsg, ConnectMsg
  <2>2. fired' = Append(fired, m) /\ UNCHANGED <<clients, nextId>>
    BY <1>7 DEF SetCvar
  <2> HIDE DEF m
  <2> QED BY <1>5, <1>6, <2>1, <2>2
<1>8. ASSUME NEW s \in Slot, Disconnect(s) \/ SetNeoName(s)
      PROVE  OneOwner'
  <2>1. UNCHANGED <<fired, nextId>> /\ (clients' = clients \/ clients' = [clients EXCEPT ![s] = None])
    BY <1>8 DEF Disconnect, SetNeoName
  <2>2. \E m : m \in QueueMsg /\ m \notin ConnectMsg
    <3>1. [type |-> "set_convar", name |-> "sv_rounds", value |-> 0] \in ConvarMsg
      BY DEF ConvarMsg, Convars
    <3>2. [type |-> "set_convar", name |-> "sv_rounds", value |-> 0].type = "set_convar"
      OBVIOUS
    <3> QED BY <3>1, <3>2 DEF QueueMsg, ConnectMsg
  <2>3. \A r \in Slot : clients'[r] = None \/ clients'[r] = clients[r]
    BY <1>4, <2>1
  <2> QED BY <1>6, <2>1, <2>2, <2>3
<1>9. ASSUME NEW s \in Slot, Rename(s)
      PROVE  OneOwner'
  <2> DEFINE m == [type |-> "game_event", id |-> EventIds["player_changename"],
                   fields |-> [userid |-> clients[s].user_id, newname |-> clients[s].name + 1]]
  <2>1. clients[s] # None /\ clients[s] \in Connection
    BY <1>9, InGamePlayer DEF Rename, InGame, IsPlayer, Base
  <2>2. m \in QueueMsg /\ m \notin ConnectMsg
    <3>1. [userid |-> clients[s].user_id, newname |-> clients[s].name + 1] \in Renamed
      BY <2>1 DEF Renamed, Connection
    <3>2. EventIds["player_changename"] = 8
      BY DEF EventIds
    <3>3. m \in RenameMsg /\ m.id = 8
      BY <3>1, <3>2 DEF RenameMsg
    <3> HIDE DEF m
    <3>4. m \in QueueMsg
      BY <3>3 DEF QueueMsg, EventMsg
    <3>5. m \notin ConnectMsg
      BY <3>3 DEF ConnectMsg
    <3> QED BY <3>4, <3>5
  <2>3. fired' \in {fired, Append(fired, m)}
    BY <1>9 DEF Rename, FireToClients, Fire
  <2>4. clients' = [clients EXCEPT ![s].name = @ + 1] /\ nextId' = nextId
    BY <1>9 DEF Rename
  <2> HIDE DEF m
  <2>5. ASSUME NEW r \in Slot
        PROVE  \/ clients'[r] = clients[r]
               \/ r = s /\ clients'[r].user_id = clients[r].user_id /\ clients'[r].is_hltv = clients[r].is_hltv
    <3>1. [clients[s] EXCEPT !.name = @ + 1].user_id = clients[s].user_id
      BY <2>1 DEF Connection
    <3>2. [clients[s] EXCEPT !.name = @ + 1].is_hltv = clients[s].is_hltv
      BY <2>1 DEF Connection
    <3>3. r = s => clients'[r] = [clients[s] EXCEPT !.name = @ + 1]
      BY <1>4, <2>4
    <3>4. r # s => clients'[r] = clients[r]
      BY <1>4, <2>4
    <3> QED BY <3>1, <3>2, <3>3, <3>4
  <2>6. \A r \in Slot : clients'[r] = None \/ /\ clients[r] # None
                                              /\ clients'[r].user_id = clients[r].user_id
                                              /\ clients'[r].is_hltv = clients[r].is_hltv
    BY <2>1, <2>5
  <2> QED BY <1>6, <2>2, <2>3, <2>4, <2>6
<1>10. ASSUME NEW s \in Slot, Die(s)
       PROVE  OneOwner'
  <2>1. PICK a \in {0} \cup {clients[r].user_id : r \in {r \in Slot : InGame(r)}} :
          Fire("player_death", [userid |-> clients[s].user_id, attacker |-> a, assists |-> 0])
    BY <1>10 DEF Die
  <2> DEFINE m == [type |-> "game_event", id |-> EventIds["player_death"],
                   fields |-> [userid |-> clients[s].user_id, attacker |-> a, assists |-> 0]]
  <2>2. clients[s].user_id \in Nat /\ a \in Nat
    <3>1. \A r \in Slot : InGame(r) => clients[r].user_id \in Nat
      BY InGamePlayer DEF InGame, Connection, Base
    <3> QED BY <1>10, <3>1 DEF Die
  <2>3. m \in QueueMsg /\ m \notin ConnectMsg
    <3>1. [userid |-> clients[s].user_id, attacker |-> a, assists |-> 0] \in Died
      BY <2>2 DEF Died
    <3>2. EventIds["player_death"] = 3
      BY DEF EventIds
    <3>3. m \in DeathMsg /\ m.id = 3
      BY <3>1, <3>2 DEF DeathMsg
    <3> HIDE DEF m
    <3>4. m \in QueueMsg
      BY <3>3 DEF QueueMsg, EventMsg
    <3>5. m \notin ConnectMsg
      BY <3>3 DEF ConnectMsg
    <3> QED BY <3>4, <3>5
  <2>4. fired' = Append(fired, m) /\ UNCHANGED <<clients, nextId>>
    BY <1>10, <2>1 DEF Die, Fire
  <2> HIDE DEF m
  <2> QED BY <1>6, <2>3, <2>4
<1>11. ASSUME NEW s \in Slot, Connect(s)
       PROVE  OneOwner'
  <2> DEFINE m == [type |-> "game_event", id |-> EventIds["player_connect_client"],
                   fields |-> [userid |-> nextId, index |-> s, name |-> 0]]
             c == [user_id |-> nextId, name |-> 0, is_hltv |-> FALSE]
  <2>1. /\ clients' = [clients EXCEPT ![s] = c] /\ nextId' = nextId + 1
        /\ fired' = fired \/ fired' = Append(fired, m)
    BY <1>11 DEF Connect, FireToClients, Fire
  <2>2. c.user_id = nextId /\ c.is_hltv = FALSE /\ m.fields.userid = nextId /\ m.fields.index = s
    OBVIOUS
  <2> HIDE DEF c, m
  <2>3. PICK home2 \in Homes : home2[nextId] = s /\ \A u \in Nat : u # nextId => home2[u] = home[u]
    <3> DEFINE h == [home EXCEPT ![nextId] = s]
    <3>1. h \in Homes /\ h[nextId] = s /\ \A u \in Nat : u # nextId => h[u] = home[u]
      BY <1>4 DEF Homes
    <3> QED BY <3>1
  <2>4. -1 \notin Slot /\ home[nextId] = -1 /\ nextId \notin hltv
    BY <1>3, <1>4, SlotsAreNumbers
  <2>5. ASSUME NEW r \in Slot, NEW d \in Client, Fits(home, hltv, r, d)
        PROVE  Fits(home2, hltv, r, d)
    <3>1. d # None => d.user_id \in Nat
      BY DEF Client, Connection
    <3>2. d # None => d.user_id # nextId
      BY <2>4, <2>5 DEF Fits
    <3> QED BY <2>3, <2>5, <3>1, <3>2 DEF Fits
  <2>6. \A r \in Slot : Fits(home2, hltv, r, clients'[r])
    <3>1. Fits(home2, hltv, s, c)
      BY <2>2, <2>3, <2>4 DEF Fits
    <3>2. clients'[s] = c /\ \A r \in Slot : r # s => clients'[r] = clients[r]
      BY <1>4, <2>1
    <3>3. \A r \in Slot : clients[r] \in Client
      BY <1>4
    <3> QED BY <1>3, <2>5, <3>1, <3>2, <3>3
  <2>7. \A r \in Slot : Fits(home2, hltv, r, sent[r])
    BY <1>3, <1>4, <2>5
  <2>8. \A i \in 1..Len(truth), r \in Slot : Fits(home2, hltv, r, truth[i].clients[r])
    <3>1. \A i \in 1..Len(truth), r \in Slot : truth[i].clients[r] \in Client
      BY ShownTyped DEF Base
    <3> QED BY <1>3, <2>5, <3>1
  <2>9. \A p \in players : Rostered(home2, hltv, p)
    <3>1. \A p \in players : p.user_id \in Nat
      BY DEF Base, Typed, TypedPass, Player
    <3> QED BY <1>3, <2>3, <2>4, <3>1 DEF Rostered
  <2>10. \A k \in 1..Len(fired') : Placed(home2, hltv, fired'[k])
    <3>1. Placed(home2, hltv, m)
      BY <2>2, <2>3, <2>4 DEF Placed
    <3>2. \A k \in 1..Len(fired) : Placed(home2, hltv, fired[k])
      <4> SUFFICES ASSUME NEW k \in 1..Len(fired), fired[k] \in ConnectMsg
                   PROVE  home2[fired[k].fields.userid] = fired[k].fields.index
                          /\ fired[k].fields.userid \notin hltv
        BY DEF Placed
      <4>1. fired[k].fields.userid \in Nat /\ fired[k].fields.index \in Slot
        BY DEF ConnectMsg, Connected
      <4>2. home[fired[k].fields.userid] = fired[k].fields.index /\ fired[k].fields.userid \notin hltv
        BY <1>3 DEF Placed
      <4> QED BY <2>3, <2>4, <4>1, <4>2
    <3>3. m \in QueueMsg => \A k \in 1..Len(fired') : (k \in 1..Len(fired) /\ fired'[k] = fired[k]) \/ fired'[k] = m
      BY <1>4, <2>1
    <3>4. m \in QueueMsg
      <4>1. [userid |-> nextId, index |-> s, name |-> 0] \in Connected
        BY <1>4 DEF Connected
      <4>2. EventIds["player_connect_client"] = 5
        BY DEF EventIds
      <4> QED BY <4>1, <4>2 DEF QueueMsg, EventMsg, ConnectMsg, m
    <3> QED BY <3>1, <3>2, <3>3, <3>4
  <2>11. \A u \in Nat : u >= nextId + 1 => home2[u] = -1 /\ u \notin hltv
    <3> SUFFICES ASSUME NEW u \in Nat, u >= nextId + 1
                 PROVE  home2[u] = -1 /\ u \notin hltv
      OBVIOUS
    <3>1. u >= nextId /\ u # nextId
      BY <1>4
    <3> QED BY <1>3, <2>3, <3>1
  <2>12. ASSUME NEW u \in Nat, NEW r \in Slot, home2[u] = r, clients'[r] # None
         PROVE  u <= clients'[r].user_id
    <3>1. CASE r = s
      <4>1. clients'[r].user_id = nextId
        BY <1>4, <2>1, <2>2, <3>1
      <4>2. u = nextId \/ home[u] # -1
        BY <2>3, <2>4, <2>12
      <4>3. u = nextId \/ ~ (u >= nextId)
        BY <1>3, <4>2
      <4> QED BY <1>4, <4>1, <4>3
    <3>2. CASE r # s
      <4>1. clients'[r] = clients[r] /\ u # nextId /\ home[u] = r
        BY <1>4, <2>1, <2>3, <2>12, <3>2
      <4> QED BY <1>3, <2>12, <4>1
    <3> QED BY <3>1, <3>2
  <2>13. Owned(home2, hltv)'
    <3>1. /\ sent' = sent /\ truth' = truth /\ players' = players /\ nextId' = nextId + 1
          /\ \A k \in 1..Len(inbox') : FALSE
      BY <1>2, <2>1
    <3> QED BY <3>1, <2>6, <2>7, <2>8, <2>9, <2>10, <2>11, <2>12 DEF Owned
  <2> QED BY <2>3, <2>13 DEF OneOwner
<1>12. SetCvar \/ \E s \in Slot : Connect(s) \/ Disconnect(s) \/ Rename(s) \/ SetNeoName(s) \/ Die(s)
  BY DEF Server
<1> QED BY <1>5, <1>7, <1>8, <1>9, <1>10, <1>11, <1>12, Zenon

LEMMA RecordSignonOwned ==
  ASSUME Base, OneOwner, Unique, RecordSignon
  PROVE  OneOwner' /\ Unique'
<1>1. PICK home \in Homes, hltv \in SUBSET Nat : Owned(home, hltv)
  BY DEF OneOwner
<1>2. UNCHANGED <<clients, sent, fired, nextId, truth>>
  BY DEF RecordSignon
<1>3. UNCHANGED players
  BY DEF RecordSignon, ReadFrame
<1>4. inbox' \in Seq(SignonMsg)
  BY RecordSignonBase DEF Base, Typed, TypedFrame, RecordSignon
<1>5. \A k \in 1..Len(inbox') : Placed(home, hltv, inbox'[k])
  <2>1. \A m \in SignonMsg : m \notin ConnectMsg
    BY DEF SignonMsg, ServerMsg, TableMsg, ListMsg, ConvarMsg, ConnectMsg
  <2>2. \A k \in 1..Len(inbox') : inbox'[k] \in SignonMsg
    BY <1>4
  <2> QED BY <2>1, <2>2 DEF Placed
<1>6. Owned(home, hltv)'
  BY <1>1, <1>2, <1>3, <1>5 DEF Owned
<1>7. OneOwner'
  BY <1>6 DEF OneOwner
<1> QED BY <1>3, <1>7 DEF Unique

LEMMA RecordDumpOwned ==
  ASSUME Base, OneOwner, Unique, RecordDump
  PROVE  OneOwner' /\ Unique'
<1>1. PICK home \in Homes, hltv \in SUBSET Nat : Owned(home, hltv)
  BY DEF OneOwner
<1>2. UNCHANGED <<clients, fired, nextId, truth, inbox>> /\ sent' = clients
  BY DEF RecordDump, reading
<1>3. \A q \in players' : \E s \in Slot : IsPlayer(clients[s]) /\ q = Seat(s, clients[s], 0)
  BY DumpRead
<1>4. \A s \in Slot : Fits(home, hltv, s, clients[s])
  BY <1>1 DEF Owned
<1>5. \A q \in players' : Rostered(home, hltv, q)
  <2> SUFFICES ASSUME NEW q \in players' PROVE Rostered(home, hltv, q)
    OBVIOUS
  <2>1. PICK s \in Slot : IsPlayer(clients[s]) /\ q = Seat(s, clients[s], 0)
    BY <1>3
  <2>2. q.entity_id = s + 1 /\ q.user_id = clients[s].user_id
    BY <2>1 DEF Seat
  <2>3. home[q.user_id] = s /\ q.user_id \notin hltv
    BY <1>4, <2>1, <2>2 DEF Fits, IsPlayer
  <2> QED BY <2>2, <2>3 DEF Rostered
<1>6. Owned(home, hltv)'
  <2>1. Owned(home, hltv)
    BY <1>1
  <2> QED BY <2>1, <1>2, <1>5 DEF Owned
<1>7. OneOwner'
  BY <1>6 DEF OneOwner
<1>8. ASSUME NEW p \in players', NEW q \in players', p.user_id = q.user_id
      PROVE  p = q
  <2>1. PICK s \in Slot : IsPlayer(clients[s]) /\ p = Seat(s, clients[s], 0)
    BY <1>3
  <2>2. PICK r \in Slot : IsPlayer(clients[r]) /\ q = Seat(r, clients[r], 0)
    BY <1>3
  <2>3. p.user_id = clients[s].user_id /\ q.user_id = clients[r].user_id
    BY <2>1, <2>2 DEF Seat
  <2>4. s = r
    BY <1>4, <1>8, <2>1, <2>2, <2>3 DEF Fits, IsPlayer
  <2> QED BY <2>1, <2>2, <2>4
<1> QED BY <1>7, <1>8 DEF Unique

LEMMA RecordPacketOwned ==
  ASSUME Base, OneOwner, Unique, RecordPacket
  PROVE  OneOwner' /\ Unique'
<1>1. PICK home \in Homes, hltv \in SUBSET Nat : Owned(home, hltv)
  BY DEF OneOwner
<1> DEFINE now == [tick |-> tick', clients |-> clients, cvar |-> cvar, neo |-> neoSent']
<1>2. /\ UNCHANGED <<clients, nextId, players>> /\ sent' = clients /\ fired' = <<>>
      /\ truth' = Append(truth, now)
  BY PacketKeeps
<1>3. \A k \in 1..Len(inbox') : Placed(home, hltv, inbox'[k])
  <2>1. \A k \in 1..Len(fired) : Placed(home, hltv, fired[k])
    BY <1>1 DEF Owned
  <2>2. \A k \in 1..Len(Update) : Placed(home, hltv, Update[k])
    <3>1. \A k \in 1..Len(Update) : Update[k].type = "update_table"
      BY UpdateRead DEF Base
    <3> QED BY <3>1 DEF Placed, ConnectMsg
  <2>3. \A k \in 1..Len(inbox') : \/ \E j \in 1..Len(fired) : inbox'[k] = fired[j]
                                  \/ \E j \in 1..Len(Update) : inbox'[k] = Update[j]
    BY PacketRead
  <2> QED BY <2>1, <2>2, <2>3
<1>4. \A i \in 1..Len(truth') : truth'[i].clients = clients \/ (i \in 1..Len(truth) /\ truth'[i] = truth[i])
  BY PacketShown
<1>5. \A i \in 1..Len(truth'), s \in Slot : Fits(home, hltv, s, truth'[i].clients[s])
  BY <1>1, <1>4 DEF Owned
<1>6. Owned(home, hltv)'
  <2>1. /\ clients' = clients /\ nextId' = nextId /\ players' = players /\ sent' = clients
        /\ \A k \in 1..Len(fired') : FALSE
    BY <1>2
  <2> QED BY <1>1, <1>3, <1>5, <2>1 DEF Owned
<1>7. OneOwner'
  BY <1>6 DEF OneOwner
<1> QED BY <1>2, <1>7 DEF Unique

LEMMA OnFrameUnique ==
  ASSUME Base, OneOwner, Unique, OnFrame
  PROVE  Unique'
<1>1. CASE players' = players
  BY <1>1 DEF Unique
<1>2. CASE TakeGameEvent
  <2> DEFINE m == Head(inbox)
             row == [entity_id |-> m.fields.index + 1, user_id |-> m.fields.userid,
                     name |-> m.fields.name, first_seen_tick |-> tick]
             f(p) == IF p.user_id = m.fields.userid THEN [p EXCEPT !.name = m.fields.newname] ELSE p
  <2>1. \/ players' = players
        \/ players' = players \cup IF m.fields.userid \in Known THEN {} ELSE {row}
        \/ players' = {f(p) : p \in players}
    BY <1>2, EventTaken
  <2>2. CASE players' = players \cup IF m.fields.userid \in Known THEN {} ELSE {row}
    <3>1. row.user_id = m.fields.userid
      OBVIOUS
    <3> HIDE DEF row, m
    <3> QED BY <2>2, <3>1 DEF Unique, Known
  <2>3. CASE players' = {f(p) : p \in players}
    <3>1. \A p \in Player : f(p).user_id = p.user_id
      BY DEF Player
    <3>2. \A p \in players : f(p).user_id = p.user_id
      BY <3>1 DEF Base, Typed, TypedPass
    <3> HIDE DEF f
    <3> QED BY <2>3, <3>2 DEF Unique
  <2> QED BY <1>1, <2>1, <2>2, <2>3
<1>3. CASE TakeUpdateTable
  <2>1. players' = players \/ players' = players \cup {Seat(s, sent[s], tick) : s \in Arriving}
    BY <1>3, UpdateTaken
  <2>2. PICK home \in Homes, hltv \in SUBSET Nat : Owned(home, hltv)
    BY DEF OneOwner
  <2>3. \A s \in Arriving : /\ s \in Slot /\ sent[s] # None /\ sent[s].user_id \notin Known
                            /\ Seat(s, sent[s], tick).user_id = sent[s].user_id
    BY DEF Arriving, IsPlayer, Seat
  <2>4. \A s, r \in Arriving : sent[s].user_id = sent[r].user_id => s = r
    BY <2>2, <2>3 DEF Owned, Fits
  <2>5. \A p \in players, s \in Arriving : p.user_id # sent[s].user_id
    BY <2>3 DEF Known
  <2> QED BY <1>1, <2>1, <2>3, <2>4, <2>5 DEF Unique
<1>4. TakeServerInfo \/ TakeSetConVar \/ TakeEventList \/ TakeCreateTable => players' = players
  BY DEF TakeServerInfo, TakeSetConVar, TakeEventList, TakeCreateTable, pass
<1> QED BY <1>1, <1>2, <1>3, <1>4 DEF OnFrame

LEMMA OnFrameOwned ==
  ASSUME Base, OneOwner, Unique, OnFrame
  PROVE  OneOwner' /\ Unique'
<1>1. PICK home \in Homes, hltv \in SUBSET Nat : Owned(home, hltv)
  BY DEF OneOwner
<1>2. PICK type : Take(type)
  BY FrameTaken
<1>3. /\ inbox # <<>> /\ inbox' = Tail(inbox) /\ UNCHANGED <<clients, sent, fired, nextId, truth>>
      /\ inbox \in Seq(PacketMsg) \/ inbox \in Seq(SignonMsg)
  BY <1>2, Taken
<1>4. 1 \in 1..Len(inbox) /\ \A k \in 1..Len(inbox') : k + 1 \in 1..Len(inbox) /\ inbox'[k] = inbox[k + 1]
  BY <1>3, HeadAndTail
<1>5. \A k \in 1..Len(inbox') : Placed(home, hltv, inbox'[k])
  BY <1>1, <1>4 DEF Owned
<1>6. \A q \in players' : Rostered(home, hltv, q)
  <2> SUFFICES ASSUME NEW q \in players' PROVE Rostered(home, hltv, q)
    OBVIOUS
  <2>1. CASE \E p \in players : SameSeat(p, q)
    BY <1>1, <2>1 DEF Owned, Rostered, SameSeat
  <2>2. CASE Arrives(q) /\ inbox[1] \in ConnectMsg /\ q.user_id = inbox[1].fields.userid
             /\ q.entity_id = inbox[1].fields.index + 1
    <3>1. Placed(home, hltv, inbox[1])
      BY <1>1, <1>4 DEF Owned
    <3>2. inbox[1].fields.index \in Slot
      BY <2>2 DEF ConnectMsg, Connected
    <3> QED BY <2>2, <3>1, <3>2 DEF Placed, Rostered
  <2>3. ASSUME NEW s \in Slot, IsPlayer(sent[s]), q = Seat(s, sent[s], tick)
        PROVE  Rostered(home, hltv, q)
    <3>1. q.entity_id = s + 1 /\ q.user_id = sent[s].user_id
      BY <2>3 DEF Seat
    <3>2. home[q.user_id] = s /\ q.user_id \notin hltv
      BY <1>1, <2>3, <3>1 DEF Owned, Fits, IsPlayer
    <3> QED BY <3>1, <3>2 DEF Rostered
  <2>4. (\E p \in players : SameSeat(p, q)) \/ Arrives(q)
    BY RosterStep
  <2> QED BY <2>1, <2>2, <2>3, <2>4 DEF Arrives
<1>7. Owned(home, hltv)'
  BY <1>1, <1>3, <1>5, <1>6 DEF Owned
<1>8. OneOwner'
  BY <1>7 DEF OneOwner
<1> QED BY <1>8, OnFrameUnique

Ownership == Base /\ OneOwner /\ Unique

LEMMA OwnershipStep == ASSUME Ownership, [Next]_vars PROVE Ownership'
<1>1. Base'
  BY ServerBase, RecordSignonBase, RecordDumpBase, RecordPacketBase, OnFrameBase, StutterBase DEF Next, Ownership
<1>2. CASE UNCHANGED vars
  <2>1. UNCHANGED <<clients, sent, fired, nextId, truth, inbox, players>>
    BY <1>2 DEF vars, server, reading, pass
  <2> QED BY <1>1, <2>1 DEF Ownership, OneOwner, Owned, Unique
<1> QED BY <1>1, <1>2, ServerOwned, RecordSignonOwned, RecordDumpOwned, RecordPacketOwned, OnFrameOwned
        DEF Next, Ownership

LEMMA OwnershipInductive == Spec => []Ownership
<1>1. Init => Ownership
  BY InitBase, InitOwned DEF Ownership
<1> QED BY <1>1, OwnershipStep, PTL DEF Spec

\* Every variable keeps its type, and no userid has two rows: a connect event
\* and an update may name the same player, in either order.
THEOREM TypeCorrect == Spec => []TypeOK
<1>1. Ownership => TypeOK
  <2> SUFFICES ASSUME Ownership PROVE TypeOK
    OBVIOUS
  <2>1. Cardinality(Known) = Cardinality(players)
    <3> DEFINE f == [p \in players |-> p.user_id]
    <3>1. f \in Bijection(players, Known)
      <4>1. f \in [players -> Known] /\ \A u \in Known : \E p \in players : f[p] = u
        BY DEF Known
      <4>2. \A p, q \in players : f[p] = f[q] => p = q
        BY DEF Ownership, Unique
      <4> HIDE DEF f
      <4> QED BY <4>1, <4>2 DEF Bijection, Injection, Surjection, IsInjective
    <3>2. IsFiniteSet(players)
      BY DEF Ownership, Base, Typed, TypedPass
    <3> HIDE DEF f
    <3> QED BY <3>1, <3>2, FS_Bijection DEF ExistsBijection
  <2> QED BY <2>1 DEF TypeOK, Ownership, Base, Typed, TypedServer, TypedPass, TypedCounts, Client
<1> QED BY <1>1, OwnershipInductive, PTL

-----------------------------------------------------------------------------
(* What the roster knows of who is in the game                             *)

Read == Len(Signon) - Len(inbox)

\* While the signon is read, the tables are counted as the server counts them.
Tables ==
  /\ stage = "signon" => tables_created = 0
  /\ stage = "dump" =>
       /\ Len(inbox) <= Len(Signon) /\ \A i \in 1..Len(inbox) : inbox[i] = Signon[Read + i]
       /\ tables_created = IF Read = 0 THEN 0 ELSE IF Read - 1 < Len(order) THEN Read - 1 ELSE Len(order)
       /\ TableId("userinfo") + 2 <= Read => userinfo_table = TableId("userinfo")
  /\ stage = "packets" => userinfo_table = TableId("userinfo")

ToCome(s) ==
  \E k \in 1..Len(inbox) : inbox[k].type = "update_table" /\ PlayerInfo(s, sent[s]) \in Infos(k)

\* Who was in a packet is in the roster once it is read.
Everyone ==
  /\ stage = "packets" =>
       \A s \in Slot : IsPlayer(sent[s]) => sent[s].user_id \in Known \/ ToCome(s)
  /\ \A i \in 1..(Len(truth) - 1), s \in Slot :
       IsPlayer(truth[i].clients[s]) => truth[i].clients[s].user_id \in Known

\* No row begins after a packet its player was in.
Seen ==
  \A p \in players, i \in 1..Len(truth), s \in Slot :
    truth[i].clients[s] # None /\ truth[i].clients[s].user_id = p.user_id =>
      p.first_seen_tick <= truth[i].tick

\* Userids are first seen in the order they were given.
Ordered ==
  \A p, q \in players : p.user_id <= q.user_id => p.first_seen_tick <= q.first_seen_tick

Newer(u) == \A q \in players : q.user_id < u
NewerHere(u) == u \in Known \/ \A q \in players : q.first_seen_tick < tick => q.user_id < u

\* Whom the pass has still to hear of came after all it knows.
Fresh ==
  /\ stage = "packets" => \A s \in Slot : IsPlayer(clients[s]) /\ ~InGame(s) => Newer(clients[s].user_id)
  /\ \A k \in 1..Len(fired) : fired[k] \in ConnectMsg => Newer(fired[k].fields.userid)
  /\ \A k \in 1..Len(inbox) : inbox[k] \in ConnectMsg => NewerHere(inbox[k].fields.userid)
  /\ stage = "packets" /\ inbox # <<>> => \A s \in Slot : IsPlayer(sent[s]) => NewerHere(sent[s].user_id)

AllKnown(f) == {f.userid, f.attacker, f.assists} \subseteq Known \cup {0}

\* Only players the pass was told of die.
Deaths ==
  /\ \A k \in 1..Len(fired) : fired[k] \in DeathMsg => AllKnown(fired[k].fields)
  /\ \A k \in 1..Len(inbox) : inbox[k] \in DeathMsg => AllKnown(inbox[k].fields)
  /\ \A k \in 1..Len(deaths) : AllKnown(deaths[k])

\* Whoever comes after a player on their slot is first seen after every packet
\* the player was in.
Later ==
  \A q \in players, i \in 1..Len(truth), s \in Slot :
    truth[i].clients[s] # None /\ q.entity_id = s + 1 /\ q.user_id > truth[i].clients[s].user_id =>
      q.first_seen_tick > truth[i].tick

\* What holds as long as every frame could be read.
Whole == Tables /\ Everyone /\ Seen /\ Ordered /\ Fresh /\ Deaths

LEMMA WarningsGrow ==
  ASSUME Base, [Next]_vars, warnings' = 0
  PROVE  warnings = 0
<1>1. warnings \in Nat
  BY DEF Base, Typed, TypedCounts
<1>2. CASE RecordSignon
  BY <1>1, <1>2 DEF RecordSignon, ReadFrame
<1>3. CASE RecordPacket
  BY <1>1, <1>3 DEF RecordPacket, ReadFrame
<1>4. CASE OnFrame
  <2>1. CASE TakeGameEvent
    BY <1>1, <2>1, EventTaken
  <2>2. CASE TakeUpdateTable
    BY <1>1, <2>2, UpdateTaken
  <2>3. ~ TakeGameEvent /\ ~ TakeUpdateTable => warnings' = warnings
    BY <1>4 DEF OnFrame, TakeServerInfo, TakeSetConVar, TakeEventList, TakeCreateTable, pass
  <2> QED BY <1>1, <2>1, <2>2, <2>3
<1>5. Server \/ RecordDump \/ UNCHANGED vars => warnings' = warnings
  BY ServerKeeps DEF RecordDump, vars, pass
<1> QED BY <1>2, <1>3, <1>4, <1>5 DEF Next

LEMMA IdsGiven ==
  ASSUME Ownership
  PROVE  /\ \A p \in players : p.user_id \in Nat /\ p.user_id < nextId /\ p.first_seen_tick \in Nat
         /\ nextId \in Nat /\ tick \in Nat
<1>1. players \subseteq Player /\ nextId \in Nat /\ tick \in Nat
  BY DEF Ownership, Base, Typed, TypedPass, TypedCounts
<1>2. PICK home \in Homes, hltv \in SUBSET Nat : Owned(home, hltv)
  BY DEF Ownership, OneOwner
<1>3. ASSUME NEW p \in players
      PROVE  p.user_id \in Nat /\ p.user_id < nextId /\ p.first_seen_tick \in Nat
  <2>1. p.user_id \in Nat /\ p.first_seen_tick \in Nat
    BY <1>1 DEF Player
  <2>2. home[p.user_id] \in Nat
    BY <1>2, SlotsAreNumbers DEF Owned, Rostered
  <2>3. ~ (p.user_id >= nextId)
    BY <1>2, <2>1, <2>2 DEF Owned
  <2> QED BY <1>1, <2>1, <2>3
<1> QED BY <1>1, <1>3

\* Once the frames are read, the players in the game are in the roster.
LEMMA InGameKnown ==
  ASSUME Ownership, Everyone, stage = "packets", inbox = <<>>, NEW s \in Slot, InGame(s)
  PROVE  clients[s].user_id \in Known
<1>1. PICK home \in Homes, hltv \in SUBSET Nat : Owned(home, hltv)
  BY DEF Ownership, OneOwner
<1>2. IsPlayer(clients[s]) /\ sent[s] # None /\ sent[s].user_id = clients[s].user_id
  BY DEF InGame
<1>3. sent[s].is_hltv <=> clients[s].is_hltv
  BY <1>1, <1>2 DEF Owned, Fits, IsPlayer
<1>4. IsPlayer(sent[s])
  BY <1>2, <1>3 DEF IsPlayer
<1>5. ~ ToCome(s)
  BY DEF ToCome
<1> QED BY <1>2, <1>4, <1>5 DEF Everyone

\* What the server does to its clients, and what it queues.
LEMMA ServerEffect ==
  ASSUME Base, Server
  PROVE  \/ \E s \in Slot, m \in ConnectMsg, c \in Connection :
              /\ clients[s] = None /\ clients' = [clients EXCEPT ![s] = c]
              /\ nextId' = nextId + 1 /\ c.user_id = nextId /\ c.name = 0 /\ ~c.is_hltv
              /\ m.fields.userid = nextId /\ m.fields.index = s /\ m.fields.name = 0
              /\ IF sourcetv THEN fired' = fired ELSE fired' = Append(fired, m)
         \/ \E s \in Slot : clients' = [clients EXCEPT ![s] = None] /\ fired' = fired
         \/ \E s \in Slot, m \in RenameMsg, c \in Connection :
              /\ InGame(s) /\ clients' = [clients EXCEPT ![s] = c]
              /\ c.user_id = clients[s].user_id /\ c.name = clients[s].name + 1
              /\ c.is_hltv = clients[s].is_hltv
              /\ m.fields.userid = c.user_id /\ m.fields.newname = c.name
              /\ IF sourcetv THEN fired' = fired ELSE fired' = Append(fired, m)
         \/ \E s \in Slot, m \in DeathMsg :
              /\ InGame(s) /\ clients' = clients /\ fired' = Append(fired, m)
              /\ m.fields.userid = clients[s].user_id /\ m.fields.assists = 0
              /\ m.fields.attacker = 0 \/ \E r \in Slot : InGame(r) /\ m.fields.attacker = clients[r].user_id
         \/ clients' = clients /\ (fired' = fired \/ \E m \in ConvarMsg : fired' = Append(fired, m))
<1>1. nextId \in Nat /\ cvar \in Nat
  BY DEF Base, Typed, TypedCounts
<1>2. EventIds["player_death"] = 3 /\ EventIds["player_connect_client"] = 5 /\ EventIds["player_changename"] = 8
  BY DEF EventIds
<1>3. \A s \in Slot : IsPlayer(clients[s]) => clients[s] \in Connection
  BY InGamePlayer DEF Base
<1>4. ASSUME NEW s \in Slot, Connect(s)
      PROVE  \E m \in ConnectMsg, c \in Connection :
              /\ clients[s] = None /\ clients' = [clients EXCEPT ![s] = c]
              /\ nextId' = nextId + 1 /\ c.user_id = nextId /\ c.name = 0 /\ ~c.is_hltv
              /\ m.fields.userid = nextId /\ m.fields.index = s /\ m.fields.name = 0
              /\ IF sourcetv THEN fired' = fired ELSE fired' = Append(fired, m)
  <2> DEFINE f == [userid |-> nextId, index |-> s, name |-> 0]
             m == [type |-> "game_event", id |-> EventIds["player_connect_client"], fields |-> f]
             c == [user_id |-> nextId, name |-> 0, is_hltv |-> FALSE]
  <2>1. /\ clients[s] = None /\ clients' = [clients EXCEPT ![s] = c] /\ nextId' = nextId + 1
        /\ IF sourcetv THEN fired' = fired ELSE fired' = Append(fired, m)
    BY <1>4 DEF Connect, FireToClients, Fire
  <2>2. f \in Connected /\ f.userid = nextId /\ f.index = s /\ f.name = 0
    BY <1>1 DEF Connected
  <2>3. c \in Connection /\ c.user_id = nextId /\ c.name = 0 /\ ~c.is_hltv
    BY <1>1 DEF Connection
  <2> HIDE DEF f, c
  <2>4. m \in ConnectMsg /\ m.fields = f
    BY <1>2, <2>2 DEF ConnectMsg
  <2> HIDE DEF m
  <2> QED BY <2>1, <2>2, <2>3, <2>4
<1>5. ASSUME NEW s \in Slot, Rename(s)
      PROVE  \E m \in RenameMsg, c \in Connection :
              /\ InGame(s) /\ clients' = [clients EXCEPT ![s] = c]
              /\ c.user_id = clients[s].user_id /\ c.name = clients[s].name + 1
              /\ c.is_hltv = clients[s].is_hltv
              /\ m.fields.userid = c.user_id /\ m.fields.newname = c.name
              /\ IF sourcetv THEN fired' = fired ELSE fired' = Append(fired, m)
  <2> DEFINE f == [userid |-> clients[s].user_id, newname |-> clients[s].name + 1]
             m == [type |-> "game_event", id |-> EventIds["player_changename"], fields |-> f]
             c == [clients[s] EXCEPT !.name = clients[s].name + 1]
  <2>1. /\ InGame(s) /\ clients' = [clients EXCEPT ![s].name = @ + 1]
        /\ IF sourcetv THEN fired' = fired ELSE fired' = Append(fired, m)
    BY <1>5 DEF Rename, FireToClients, Fire
  <2>2. clients' = [clients EXCEPT ![s] = c]
    BY <2>1
  <2>3. clients[s] \in Connection
    BY <1>3, <2>1 DEF InGame
  <2>4. /\ c \in Connection /\ c.user_id = clients[s].user_id /\ c.name = clients[s].name + 1
        /\ c.is_hltv = clients[s].is_hltv
    BY <2>3 DEF Connection
  <2>5. f \in Renamed /\ f.userid = clients[s].user_id /\ f.newname = clients[s].name + 1
    BY <2>3 DEF Connection, Renamed
  <2> HIDE DEF f, c
  <2>6. m \in RenameMsg /\ m.fields = f
    BY <1>2, <2>5 DEF RenameMsg
  <2> HIDE DEF m
  <2> QED BY <2>1, <2>2, <2>4, <2>5, <2>6
<1>6. ASSUME NEW s \in Slot, Die(s)
      PROVE  \E m \in DeathMsg :
              /\ InGame(s) /\ clients' = clients /\ fired' = Append(fired, m)
              /\ m.fields.userid = clients[s].user_id /\ m.fields.assists = 0
              /\ m.fields.attacker = 0 \/ \E r \in Slot : InGame(r) /\ m.fields.attacker = clients[r].user_id
  <2>1. PICK a \in {0} \cup {clients[r].user_id : r \in {r \in Slot : InGame(r)}} :
          Fire("player_death", [userid |-> clients[s].user_id, attacker |-> a, assists |-> 0])
    BY <1>6 DEF Die
  <2> DEFINE f == [userid |-> clients[s].user_id, attacker |-> a, assists |-> 0]
             m == [type |-> "game_event", id |-> EventIds["player_death"], fields |-> f]
  <2>2. \A r \in Slot : InGame(r) => clients[r].user_id \in Nat
    BY <1>3 DEF InGame, Connection
  <2>3. InGame(s) /\ clients' = clients
    BY <1>6 DEF Die
  <2>4. a = 0 \/ \E r \in Slot : InGame(r) /\ a = clients[r].user_id
    BY <2>1
  <2>5. f \in Died /\ f.userid = clients[s].user_id /\ f.attacker = a /\ f.assists = 0
    BY <2>2, <2>3, <2>4 DEF Died
  <2>6. fired' = Append(fired, m)
    BY <2>1 DEF Fire
  <2> HIDE DEF f
  <2>7. m \in DeathMsg /\ m.fields = f
    BY <1>2, <2>5 DEF DeathMsg
  <2> HIDE DEF m
  <2> QED BY <2>3, <2>4, <2>5, <2>6, <2>7
<1>7. ASSUME NEW s \in Slot, Disconnect(s)
      PROVE  clients' = [clients EXCEPT ![s] = None] /\ fired' = fired
  BY <1>7 DEF Disconnect
<1>8. ASSUME NEW s \in Slot, SetNeoName(s)
      PROVE  clients' = clients /\ fired' = fired
  BY <1>8 DEF SetNeoName
<1>9. ASSUME SetCvar
      PROVE  clients' = clients /\ \E m \in ConvarMsg : fired' = Append(fired, m)
  <2> DEFINE m == [type |-> "set_convar", name |-> "sv_rounds", value |-> cvar + 1]
  <2>1. clients' = clients /\ fired' = Append(fired, m)
    BY <1>9 DEF SetCvar
  <2>2. cvar + 1 \in Nat
    BY <1>1
  <2>3. m \in ConvarMsg
    BY <2>2 DEF ConvarMsg, Convars
  <2> HIDE DEF m
  <2> QED BY <2>1, <2>3
<1>10. SetCvar \/ \E s \in Slot : Connect(s) \/ Disconnect(s) \/ Rename(s) \/ SetNeoName(s) \/ Die(s)
  BY DEF Server
<1>11. CASE \E s \in Slot : Connect(s)
  BY <1>4, <1>11, Zenon
<1>12. CASE \E s \in Slot : Disconnect(s)
  BY <1>7, <1>12, Zenon
<1>13. CASE \E s \in Slot : Rename(s)
  BY <1>5, <1>13, Zenon
<1>14. CASE \E s \in Slot : Die(s)
  BY <1>6, <1>14, Zenon
<1>15. CASE SetCvar \/ \E s \in Slot : SetNeoName(s)
  BY <1>8, <1>9, <1>15, Zenon
<1> QED BY <1>10, <1>11, <1>12, <1>13, <1>14, <1>15, Zenon

\* A queue that a message was added to.
LEMMA Queued ==
  ASSUME Typed, NEW m \in QueueMsg, fired' = Append(fired, m)
  PROVE  /\ Len(fired') = Len(fired) + 1 /\ Len(fired) \in Nat
         /\ fired'[Len(fired) + 1] = m
         /\ \A k \in 1..Len(fired) : k \in 1..Len(fired') /\ fired'[k] = fired[k]
         /\ \A k \in 1..Len(fired') : (k \in 1..Len(fired) /\ fired'[k] = fired[k])
                                      \/ (k = Len(fired) + 1 /\ fired'[k] = m)
<1>1. fired \in Seq(QueueMsg)
  BY DEF Typed, TypedServer
<1>2. /\ Append(fired, m) \in Seq(QueueMsg) /\ Len(fired) \in Nat /\ Len(Append(fired, m)) = Len(fired) + 1
      /\ Append(fired, m) # <<>>
      /\ \A i \in 1..Len(fired) : Append(fired, m)[i] = fired[i]
      /\ Append(fired, m)[Len(fired) + 1] = m
  BY <1>1, Appended
<1>3. \A k \in 1..(Len(fired) + 1) : k \in 1..Len(fired) \/ k = Len(fired) + 1
  BY <1>2
<1>4. \A k \in 1..Len(fired) : k \in 1..(Len(fired) + 1)
  BY <1>2
<1> QED BY <1>2, <1>3, <1>4

LEMMA KindsApart ==
  /\ ConnectMsg \subseteq QueueMsg /\ RenameMsg \subseteq QueueMsg /\ DeathMsg \subseteq QueueMsg
  /\ ConvarMsg \subseteq QueueMsg
  /\ \A m \in ConnectMsg : m \notin RenameMsg /\ m \notin DeathMsg
  /\ \A m \in RenameMsg : m \notin ConnectMsg /\ m \notin DeathMsg
  /\ \A m \in DeathMsg : m \notin ConnectMsg /\ m \notin RenameMsg
  /\ \A m \in ConvarMsg : m \notin ConnectMsg /\ m \notin RenameMsg /\ m \notin DeathMsg
  /\ \A m \in UpdateMsg : m \notin ConnectMsg /\ m \notin RenameMsg /\ m \notin DeathMsg
  /\ \A m \in SignonMsg : m \notin ConnectMsg /\ m \notin RenameMsg /\ m \notin DeathMsg
<1>1. /\ \A m \in ConnectMsg : m.type = "game_event" /\ m.id = 5
      /\ \A m \in RenameMsg : m.type = "game_event" /\ m.id = 8
      /\ \A m \in DeathMsg : m.type = "game_event" /\ m.id = 3
      /\ \A m \in ConvarMsg : m.type = "set_convar"
      /\ \A m \in UpdateMsg : m.type = "update_table"
  BY DEF ConnectMsg, RenameMsg, DeathMsg, ConvarMsg, UpdateMsg
<1>2. \A m \in SignonMsg : m.type # "game_event"
  BY MessageTypes
<1> QED BY <1>1, <1>2 DEF QueueMsg, EventMsg

LEMMA ServerWhole ==
  ASSUME Ownership, Whole, Later, Server
  PROVE  Whole' /\ Later'
<1>1. /\ stage = "packets" /\ stage' = stage /\ inbox = <<>> /\ inbox' = inbox
      /\ UNCHANGED <<sent, order, tick, truth, players, deaths, userinfo_table, tables_created>>
  BY ServerKeeps
<1>2. Tables'
  BY <1>1 DEF Tables, TableId, Whole
<1>3. Everyone'
  <2>1. Known' = Known
    BY <1>1 DEF Known
  <2>2. \A s \in Slot : ~ ToCome(s)
    BY <1>1 DEF ToCome
  <2> QED BY <1>1, <2>1, <2>2 DEF Everyone, Whole
<1>4. Seen' /\ Ordered' /\ Later'
  BY <1>1 DEF Seen, Ordered, Later, Whole
<1>5. /\ \A s \in Slot : IsPlayer(clients[s]) /\ ~InGame(s) => Newer(clients[s].user_id)
      /\ \A k \in 1..Len(fired) : fired[k] \in ConnectMsg => Newer(fired[k].fields.userid)
      /\ \A k \in 1..Len(fired) : fired[k] \in DeathMsg => AllKnown(fired[k].fields)
      /\ \A k \in 1..Len(deaths) : AllKnown(deaths[k])
  BY <1>1 DEF Whole, Fresh, Deaths
<1>6. \A k \in 1..Len(inbox') : FALSE
  BY <1>1
<1>7. (\A u : Newer(u)' <=> Newer(u)) /\ (\A f : AllKnown(f)' <=> AllKnown(f))
  BY <1>1 DEF Newer, AllKnown, Known
<1>8. Newer(nextId)
  BY IdsGiven DEF Newer
<1>9. Typed /\ clients \in [Slot -> Client]
  BY DEF Ownership, Base, Typed, TypedServer
<1> DEFINE News(c) == \A s \in Slot : IsPlayer(c[s]) /\ ~ (sent[s] # None /\ sent[s].user_id = c[s].user_id)
                                        => Newer(c[s].user_id)
           FiredFresh == \A k \in 1..Len(fired') : fired'[k] \in ConnectMsg => Newer(fired'[k].fields.userid)
           FiredKnown == \A k \in 1..Len(fired') : fired'[k] \in DeathMsg => AllKnown(fired'[k].fields)
<1>10. News(clients)
  BY <1>5 DEF InGame
<1>11. ASSUME News(clients'), FiredFresh, FiredKnown
       PROVE  Fresh' /\ Deaths'
  <2>1. \A s \in Slot : IsPlayer(clients'[s]) /\ ~InGame(s)' => Newer(clients'[s].user_id)
    BY <1>1, <1>11 DEF InGame
  <2>2. \A s \in Slot : IsPlayer(clients[s])' <=> IsPlayer(clients'[s])
    BY DEF IsPlayer
  <2>3. Fresh'
    BY <1>1, <1>6, <1>7, <1>11, <2>1, <2>2 DEF Fresh, Newer, IsPlayer
  <2>4. Deaths'
    BY <1>1, <1>5, <1>6, <1>7, <1>11 DEF Deaths, AllKnown, Known
  <2> QED BY <2>3, <2>4
<1>12. ASSUME NEW m \in QueueMsg, fired' = Append(fired, m),
              m \in ConnectMsg => Newer(m.fields.userid), m \in DeathMsg => AllKnown(m.fields)
       PROVE  FiredFresh /\ FiredKnown
  <2>1. \A k \in 1..Len(fired') : (k \in 1..Len(fired) /\ fired'[k] = fired[k]) \/ fired'[k] = m
    BY <1>9, <1>12, Queued
  <2> QED BY <1>5, <1>12, <2>1
<1>13. fired' = fired => FiredFresh /\ FiredKnown
  BY <1>5
<1> HIDE DEF FiredFresh, FiredKnown
<1>14. ASSUME NEW s \in Slot, NEW m \in ConnectMsg, NEW c \in Connection,
              clients' = [clients EXCEPT ![s] = c], c.user_id = nextId, m.fields.userid = nextId,
              fired' = fired \/ fired' = Append(fired, m)
       PROVE  Fresh' /\ Deaths'
  <2>1. News(clients')
    <3>1. clients'[s] = c /\ \A r \in Slot : r # s => clients'[r] = clients[r]
      BY <1>9, <1>14
    <3> QED BY <1>8, <1>10, <1>14, <3>1
  <2>2. FiredFresh /\ FiredKnown
    BY <1>8, <1>12, <1>13, <1>14, KindsApart
  <2> QED BY <1>11, <2>1, <2>2
<1>15. ASSUME NEW s \in Slot, clients' = [clients EXCEPT ![s] = None], fired' = fired
       PROVE  Fresh' /\ Deaths'
  <2>1. News(clients')
    <3>1. clients'[s] = None /\ \A r \in Slot : r # s => clients'[r] = clients[r]
      BY <1>9, <1>15
    <3> QED BY <1>10, <3>1 DEF IsPlayer
  <2> QED BY <1>11, <1>13, <1>15, <2>1
<1>16. ASSUME NEW s \in Slot, NEW m \in RenameMsg, NEW c \in Connection, InGame(s),
              clients' = [clients EXCEPT ![s] = c], c.user_id = clients[s].user_id,
              fired' = fired \/ fired' = Append(fired, m)
       PROVE  Fresh' /\ Deaths'
  <2>1. News(clients')
    <3>1. clients'[s] = c /\ \A r \in Slot : r # s => clients'[r] = clients[r]
      BY <1>9, <1>16
    <3>2. sent[s] # None /\ sent[s].user_id = c.user_id
      BY <1>16 DEF InGame
    <3> QED BY <1>10, <3>1, <3>2
  <2>2. FiredFresh /\ FiredKnown
    BY <1>12, <1>13, <1>16, KindsApart
  <2> QED BY <1>11, <2>1, <2>2
<1>17. ASSUME NEW s \in Slot, NEW m \in DeathMsg, InGame(s), clients' = clients, fired' = Append(fired, m),
              m.fields.userid = clients[s].user_id, m.fields.assists = 0,
              m.fields.attacker = 0 \/ \E r \in Slot : InGame(r) /\ m.fields.attacker = clients[r].user_id
       PROVE  Fresh' /\ Deaths'
  <2>1. \A r \in Slot : InGame(r) => clients[r].user_id \in Known
    BY <1>1, InGameKnown DEF Whole
  <2>2. AllKnown(m.fields)
    BY <1>17, <2>1 DEF AllKnown
  <2>3. FiredFresh /\ FiredKnown
    BY <1>12, <1>17, <2>2, KindsApart
  <2>4. News(clients')
    BY <1>10, <1>17
  <2> QED BY <1>11, <2>3, <2>4
<1>18. ASSUME clients' = clients, fired' = fired \/ \E m \in ConvarMsg : fired' = Append(fired, m)
       PROVE  Fresh' /\ Deaths'
  <2>1. FiredFresh /\ FiredKnown
    BY <1>12, <1>13, <1>18, KindsApart
  <2>2. News(clients')
    BY <1>10, <1>18
  <2> QED BY <1>11, <2>1, <2>2
<1> HIDE DEF News
<1>19. Base /\ Server
  BY DEF Ownership
<1>20. Fresh' /\ Deaths'
  <2>1. CASE \E s \in Slot, m \in ConnectMsg, c \in Connection :
              /\ clients[s] = None /\ clients' = [clients EXCEPT ![s] = c]
              /\ nextId' = nextId + 1 /\ c.user_id = nextId /\ c.name = 0 /\ ~c.is_hltv
              /\ m.fields.userid = nextId /\ m.fields.index = s /\ m.fields.name = 0
              /\ IF sourcetv THEN fired' = fired ELSE fired' = Append(fired, m)
    BY <1>14, <2>1
  <2>2. CASE \E s \in Slot : clients' = [clients EXCEPT ![s] = None] /\ fired' = fired
    BY <1>15, <2>2
  <2>3. CASE \E s \in Slot, m \in RenameMsg, c \in Connection :
              /\ InGame(s) /\ clients' = [clients EXCEPT ![s] = c]
              /\ c.user_id = clients[s].user_id /\ c.name = clients[s].name + 1
              /\ c.is_hltv = clients[s].is_hltv
              /\ m.fields.userid = c.user_id /\ m.fields.newname = c.name
              /\ IF sourcetv THEN fired' = fired ELSE fired' = Append(fired, m)
    BY <1>16, <2>3
  <2>4. CASE \E s \in Slot, m \in DeathMsg :
              /\ InGame(s) /\ clients' = clients /\ fired' = Append(fired, m)
              /\ m.fields.userid = clients[s].user_id /\ m.fields.assists = 0
              /\ m.fields.attacker = 0 \/ \E r \in Slot : InGame(r) /\ m.fields.attacker = clients[r].user_id
    BY <1>17, <2>4
  <2>5. CASE clients' = clients /\ (fired' = fired \/ \E m \in ConvarMsg : fired' = Append(fired, m))
    BY <1>18, <2>5
  <2> QED BY <1>19, <2>1, <2>2, <2>3, <2>4, <2>5, ServerEffect, Zenon
<1> QED BY <1>2, <1>3, <1>4, <1>20 DEF Whole

LEMMA RecordSignonWhole ==
  ASSUME Ownership, Whole, RecordSignon, warnings = 0, warnings' = 0
  PROVE  Whole'
<1> DEFINE f == [kind |-> "signon", tick |-> Uptime]
<1>1. /\ stage = "signon" /\ stage' = "dump" /\ fired = <<>> /\ players = {} /\ truth = <<>>
      /\ deaths = <<>> /\ errors \in Nat
      /\ UNCHANGED <<sourcetv, clients, sent, cvar, fired, nextId, order, tick, truth>>
  BY DEF RecordSignon, Ownership, Base, Typed, TypedCounts, Frames
<1>2. PICK p \in Recorded(Signon) : ReadFrame(f, p)
  BY DEF RecordSignon
<1>3. UNCHANGED <<players, deaths, tables_created, userinfo_table>>
  BY <1>2 DEF ReadFrame
<1>4. Signon \in Seq(SignonMsg) /\ \A i \in 1..Len(Signon) : Signon[i].type # "bad"
  BY SignonRead DEF Ownership, Base
<1>5. inbox' = Signon
  BY <1>1, <1>2, <1>4, FrameRead
<1>6. Signon' = Signon
  BY <1>1 DEF Signon
<1>7. Len(Signon) \in Nat /\ Read' = 0
  BY <1>4, <1>5, <1>6 DEF Read
<1>8. TableId("userinfo")' = TableId("userinfo") /\ TableId("userinfo") \in Nat
  BY <1>1, TheUserinfoTable DEF TableId, Ownership, Base, Typed, TypedServer
<1>9. Tables'
  <2>1. tables_created = 0
    BY <1>1 DEF Whole, Tables
  <2>2. \A i \in 1..Len(inbox') : inbox'[i] = Signon'[Read' + i]
    BY <1>5, <1>6, <1>7
  <2> QED BY <1>1, <1>3, <1>5, <1>6, <1>7, <1>8, <2>1, <2>2 DEF Tables
<1>10. Everyone'
  BY <1>1 DEF Everyone
<1>11. Seen' /\ Ordered'
  BY <1>1, <1>3 DEF Seen, Ordered
<1>12. \A k \in 1..Len(inbox') : inbox'[k] \notin ConnectMsg /\ inbox'[k] \notin DeathMsg
  BY <1>4, <1>5, KindsApart
<1>13. Fresh'
  BY <1>1, <1>12 DEF Fresh
<1>14. Deaths'
  BY <1>1, <1>3, <1>12 DEF Deaths
<1> QED BY <1>9, <1>10, <1>11, <1>13, <1>14 DEF Whole

LEMMA RecordDumpWhole ==
  ASSUME Ownership, Whole, RecordDump
  PROVE  Whole'
<1>1. /\ stage = "dump" /\ inbox = <<>> /\ stage' = "packets" /\ sent' = clients
      /\ fired = <<>> /\ truth = <<>> /\ deaths = <<>>
      /\ UNCHANGED <<sourcetv, clients, cvar, fired, order, tick, truth, inbox, deaths, tables_created,
                     userinfo_table>>
  BY DEF RecordDump, reading, Ownership, Base, Frames
<1>2. Typed /\ order \in TableOrders
  BY DEF Ownership, Base, Typed, TypedServer
<1>3. Tables'
  <2>1. Len(Signon) >= Len(order) + 2 /\ Signon \in Seq(SignonMsg)
    BY <1>2, SignonRead
  <2>2. Len(order) \in Nat /\ TableId("userinfo") \in Nat /\ TableId("userinfo") < Len(order)
    BY <1>2, TheUserinfoTable
  <2>3. Read = Len(Signon) /\ Len(Signon) \in Nat
    BY <1>1, <2>1 DEF Read
  <2>4. TableId("userinfo") + 2 <= Read
    BY <2>1, <2>2, <2>3
  <2>5. userinfo_table = TableId("userinfo")
    BY <1>1, <2>4 DEF Whole, Tables
  <2> QED BY <1>1, <2>5 DEF Tables, TableId
<1>4. \A q \in players' : \E s \in Slot : IsPlayer(clients[s]) /\ q.user_id = clients[s].user_id /\ q.first_seen_tick = 0
  BY DumpRead DEF Seat, Ownership
<1>5. \A s \in Slot : IsPlayer(clients[s]) => clients[s].user_id \in Known'
  <2>1. \A s \in Slot : IsPlayer(clients[s]) => Seat(s, clients[s], 0) \in players'
    BY DumpRead DEF Ownership
  <2>2. \A s : Seat(s, clients[s], 0).user_id = clients[s].user_id
    BY DEF Seat
  <2> QED BY <2>1, <2>2 DEF Known
<1>6. Everyone'
  <2> QED BY <1>1, <1>5 DEF Everyone, IsPlayer
<1>7. Seen' /\ Ordered'
  BY <1>1, <1>4 DEF Seen, Ordered
<1>8. Fresh'
  <2> QED BY <1>1 DEF Fresh, InGame, IsPlayer
<1>9. Deaths'
  BY <1>1 DEF Deaths
<1> QED BY <1>3, <1>6, <1>7, <1>8, <1>9 DEF Whole

\* A packet read to its end has everything that was fired and changed.
LEMMA PacketAll ==
  ASSUME Base, RecordPacket, warnings' = warnings
  PROVE  /\ \A j \in 1..Len(fired) : \E k \in 1..Len(inbox') : inbox'[k] = fired[j]
         /\ \A j \in 1..Len(Update) : \E k \in 1..Len(inbox') : inbox'[k] = Update[j]
<1> DEFINE U == Update
           has(x, y) ==
             /\ \A j \in 1..Len(x) : \E k \in 1..Len(y) : y[k] = x[j]
<1>1. warnings \in Nat /\ fired \in Seq(QueueMsg)
  BY DEF Base, Typed, TypedCounts, TypedServer
<1>2. U \in Seq(UpdateMsg)
  BY UpdateRead DEF Base
<1>3. inbox' = fired \o U \/ inbox' = U \o fired
  BY <1>1, PacketRead
<1> HIDE DEF U
<1>4. ASSUME NEW a \in Seq(PacketMsg), NEW b \in Seq(PacketMsg)
      PROVE  has(a, a \o b) /\ has(b, a \o b)
  <2>1. /\ Len(a \o b) = Len(a) + Len(b) /\ Len(a) \in Nat /\ Len(b) \in Nat
        /\ \A i \in 1..(Len(a) + Len(b)) : (a \o b)[i] = IF i <= Len(a) THEN a[i] ELSE b[i - Len(a)]
    BY Concat
  <2> DEFINE c == a \o b
  <2> HIDE DEF c
  <2>2. /\ \A j \in 1..Len(a) : j \in 1..Len(c) /\ c[j] = a[j]
        /\ \A j \in 1..Len(b) : j + Len(a) \in 1..Len(c) /\ c[j + Len(a)] = b[j]
    BY <2>1 DEF c
  <2> QED BY <2>2 DEF c
<1>5. fired \in Seq(PacketMsg) /\ U \in Seq(PacketMsg)
  BY <1>1, <1>2 DEF PacketMsg
<1>6. has(fired, inbox') /\ has(U, inbox')
  <2>1. has(fired, fired \o U) /\ has(U, fired \o U)
    BY <1>4, <1>5
  <2>2. has(fired, U \o fired) /\ has(U, U \o fired)
    BY <1>4, <1>5
  <2> HIDE DEF has
  <2> QED BY <1>3, <2>1, <2>2
<1> QED BY <1>6 DEF U

\* With nothing left to read, whoever the last packet had is in the roster.
LEMMA SentKnown ==
  ASSUME Everyone, stage = "packets", inbox = <<>>, NEW s \in Slot, IsPlayer(sent[s])
  PROVE  sent[s].user_id \in Known
BY DEF Everyone, ToCome

LEMMA RecordPacketWhole ==
  ASSUME Ownership, Whole, RecordPacket, warnings = 0, warnings' = 0
  PROVE  Whole'
<1>1. /\ stage = "packets" /\ inbox = <<>> /\ tick \in Nat /\ tick' \in Nat /\ tick <= tick'
      /\ sent' = clients /\ fired' = <<>>
      /\ UNCHANGED <<sourcetv, clients, order, stage, players, deaths, tables_created, userinfo_table>>
  <2>1. Base /\ tick \in Nat
    BY DEF Ownership, Base, Typed, TypedCounts
  <2>2. tick' \in Nat /\ (tick' > tick \/ tick' >= tick)
    BY <2>1, PacketKeeps
  <2>3. tick <= tick'
    BY <2>1, <2>2
  <2> QED BY <2>1, <2>2, <2>3, PacketKeeps
<1>2. Base /\ Typed
  BY DEF Ownership, Base
<1>3. Known' = Known /\ (\A s : InGame(s)' <=> IsPlayer(clients[s]))
  BY <1>1 DEF Known, InGame, IsPlayer
<1>4. Tables'
  BY <1>1 DEF Whole, Tables, TableId
<1>5. /\ Len(truth) \in Nat /\ Len(truth') = Len(truth) + 1
      /\ \A i \in 1..Len(truth) : truth'[i] = truth[i]
      /\ \A i \in 1..Len(truth') :
           \/ i \in 1..Len(truth) /\ truth'[i] = truth[i]
           \/ i = Len(truth) + 1 /\ truth'[i].tick = tick' /\ truth'[i].clients = clients
  BY <1>2, PacketShown
<1>6. ASSUME NEW s \in Slot, IsPlayer(clients[s])
      PROVE  clients[s].user_id \in Known \/ ToCome(s)'
  <2>1. CASE clients[s] = sent[s]
    BY <1>1, <1>6, <2>1, SentKnown DEF Whole
  <2>2. CASE clients[s] # sent[s]
    <3> DEFINE U == Update
    <3>0. Len(U) = 1 /\ clients[s] # None
      BY <1>2, <1>6, <2>2, UpdateRead DEF IsPlayer
    <3>1. PlayerInfo(s, clients[s]) \in ParseUserinfoUpdate(U[1].entries) /\ 1 \in 1..Len(U)
          /\ U[1].type = "update_table"
      <4>1. \A k \in 1..Len(U) :
              /\ U[k].type = "update_table"
              /\ ParseUserinfoUpdate(U[k].entries) =
                   {PlayerInfo(r, clients[r]) : r \in {r \in Slot : clients[r] # sent[r] /\ clients[r] # None}}
        BY <1>2, UpdateRead
      <4> HIDE DEF U
      <4>2. 1 \in 1..Len(U)
        BY <3>0
      <4> QED BY <2>2, <3>0, <4>1, <4>2
    <3>2. PICK k \in 1..Len(inbox') : inbox'[k] = U[1]
      BY <1>2, <3>1, PacketAll
    <3> QED BY <1>1, <3>1, <3>2 DEF ToCome, Infos
  <2> QED BY <2>1, <2>2
<1>7. Everyone'
  <2>1. ASSUME NEW i \in 1..(Len(truth') - 1), NEW s \in Slot, IsPlayer(truth'[i].clients[s])
        PROVE  truth'[i].clients[s].user_id \in Known
    <3>1. i \in 1..Len(truth) /\ truth'[i] = truth[i]
      BY <1>5
    <3>2. CASE i = Len(truth)
      <4>1. truth[i].clients = sent
        BY <1>5, <3>1, <3>2 DEF Ownership, Base, Frames
      <4> QED BY <1>1, <2>1, <3>1, <4>1, SentKnown DEF Whole
    <3>3. CASE i # Len(truth)
      <4>1. i \in 1..(Len(truth) - 1)
        BY <1>5, <3>1, <3>3
      <4> QED BY <2>1, <3>1, <4>1 DEF Whole, Everyone
    <3> QED BY <3>2, <3>3
  <2>2. \A c : IsPlayer(c)' <=> IsPlayer(c')
    BY DEF IsPlayer
  <2> QED BY <1>1, <1>3, <1>6, <2>1 DEF Everyone, IsPlayer
<1>8. Seen'
  <2> SUFFICES ASSUME NEW p \in players, NEW i \in 1..Len(truth'), NEW s \in Slot,
                      truth'[i].clients[s] # None, truth'[i].clients[s].user_id = p.user_id
               PROVE  p.first_seen_tick <= truth'[i].tick
    BY <1>1 DEF Seen
  <2>1. CASE i \in 1..Len(truth) /\ truth'[i] = truth[i]
    BY <2>1 DEF Whole, Seen
  <2>2. CASE truth'[i].tick = tick'
    <3>1. p.first_seen_tick <= tick /\ p.first_seen_tick \in Nat
      BY IdsGiven DEF Ownership, Base, Frames
    <3> QED BY <1>1, <2>2, <3>1
  <2> QED BY <1>5, <2>1, <2>2
<1>9. Ordered'
  BY <1>1 DEF Whole, Ordered
<1> DEFINE Here(u) == u \in Known \/ \A q \in players : q.first_seen_tick < tick' => q.user_id < u
<1>10. \A u : Newer(u) \/ u \in Known => Here(u)
  BY DEF Newer
<1>11. \A k \in 1..Len(inbox') : inbox'[k] \in ConnectMsg \/ inbox'[k] \in DeathMsg =>
         \E j \in 1..Len(fired) : inbox'[k] = fired[j]
  <2>1. \A j \in 1..Len(Update) : Update[j] \in UpdateMsg
    BY <1>2, UpdateRead
  <2>2. \A k \in 1..Len(inbox') : \/ \E j \in 1..Len(fired) : inbox'[k] = fired[j]
                                  \/ \E j \in 1..Len(Update) : inbox'[k] = Update[j]
    BY <1>2, PacketRead
  <2> QED BY <2>1, <2>2, KindsApart
<1>12. Fresh'
  <2>1. ASSUME NEW k \in 1..Len(inbox'), inbox'[k] \in ConnectMsg
        PROVE  Here(inbox'[k].fields.userid)
    <3>1. PICK j \in 1..Len(fired) : inbox'[k] = fired[j]
      BY <1>11, <2>1
    <3>2. Newer(fired[j].fields.userid)
      BY <2>1, <3>1 DEF Whole, Fresh
    <3> QED BY <1>10, <3>1, <3>2
  <2>2. ASSUME NEW s \in Slot, IsPlayer(clients[s])
        PROVE  Here(clients[s].user_id)
    <3>1. InGame(s) => clients[s].user_id \in Known
      BY <1>1, InGameKnown DEF Whole
    <3> QED BY <1>1, <1>10, <2>2, <3>1 DEF Whole, Fresh
  <2>3. \A k \in 1..Len(fired') : FALSE
    BY <1>1
  <2> QED BY <1>1, <1>3, <2>1, <2>2, <2>3 DEF Fresh, NewerHere, Known, IsPlayer
<1>13. Deaths'
  <2>1. \A f : AllKnown(f)' <=> AllKnown(f)
    BY <1>3 DEF AllKnown
  <2>2. ASSUME NEW k \in 1..Len(inbox'), inbox'[k] \in DeathMsg
        PROVE  AllKnown(inbox'[k].fields)
    BY <1>11, <2>2 DEF Whole, Deaths
  <2>3. \A k \in 1..Len(fired') : FALSE
    BY <1>1
  <2> QED BY <1>1, <1>3, <2>2, <2>3 DEF Whole, Deaths, AllKnown
<1> QED BY <1>4, <1>7, <1>8, <1>9, <1>12, <1>13 DEF Whole

\* A message does not lose a userid.
LEMMA KnownGrows ==
  ASSUME Base, OnFrame
  PROVE  Known \subseteq Known'
<1> SUFFICES ASSUME NEW p \in players PROVE p.user_id \in Known'
  BY DEF Known
<1>1. PICK q \in players' : SameSeat(p, q)
  BY RosterStep
<1> QED BY <1>1 DEF SameSeat, Known

\* What a message leaves of the frame.
LEMMA Left ==
  ASSUME Base, OnFrame
  PROVE  /\ inbox # <<>> /\ 1 \in 1..Len(inbox) /\ Head(inbox) = inbox[1]
         /\ Len(inbox) \in Nat /\ Len(inbox') = Len(inbox) - 1
         /\ \A k \in 1..Len(inbox') : k + 1 \in 1..Len(inbox) /\ inbox'[k] = inbox[k + 1]
         /\ UNCHANGED <<sourcetv, clients, sent, cvar, fired, nextId, order, tick, stage, truth, frame>>
<1>1. PICK type : Take(type)
  BY FrameTaken
<1>2. inbox # <<>> /\ inbox' = Tail(inbox) /\ (inbox \in Seq(PacketMsg) \/ inbox \in Seq(SignonMsg))
  BY <1>1, Taken
<1>3. UNCHANGED <<sourcetv, clients, sent, cvar, fired, nextId, order, tick, stage, truth, frame>>
  BY <1>1, Taken
<1> QED BY <1>2, <1>3, HeadAndTail

\* The server as it was when the packet being read was sent.
LEMMA PacketBeingRead ==
  ASSUME Base, OnFrame, stage = "packets"
  PROVE  /\ inbox \in Seq(PacketMsg) /\ truth # <<>> /\ fired = <<>> /\ clients = sent
         /\ Len(truth) \in Nat /\ Len(truth) \in 1..Len(truth)
         /\ truth[Len(truth)].tick = tick /\ truth[Len(truth)].clients = sent
<1>1. PICK type : Take(type)
  BY FrameTaken
<1>2. inbox \in Seq(PacketMsg) /\ truth # <<>> /\ fired = <<>> /\ clients = sent
  BY <1>1, Taken
<1>3. Len(truth) \in Nat /\ Len(truth) \in 1..Len(truth)
  <2> DEFINE Shown == [tick : Nat, clients : [Slot -> Client], cvar : Nat, neo : [Slot -> NeoName \cup {""}]]
  <2>1. truth \in Seq(Shown)
    BY DEF Base, Typed, TypedFrame
  <2> HIDE DEF Shown
  <2> QED BY <1>2, <2>1
<1> QED BY <1>2, <1>3 DEF Base, Frames

LEMMA OnFrameTables ==
  ASSUME Ownership, Whole, OnFrame
  PROVE  Tables'
<1> DEFINE n == Len(order)
           u == TableId("userinfo")
           z == Signon
<1>1. PICK type : Take(type)
  BY FrameTaken
<1>2. Base /\ Typed /\ Tables /\ order \in TableOrders
  BY DEF Ownership, Base, Typed, TypedServer, Whole
<1>3. UNCHANGED <<sourcetv, order, cvar, stage>>
  BY <1>2, Left
<1>4. Signon' = z /\ TableId("userinfo")' = u /\ Len(order)' = n
  BY <1>3 DEF Signon, TableId
<1>5. ~ TakeCreateTable => UNCHANGED <<tables_created, userinfo_table>>
  BY <1>2, EventTaken, UpdateTaken
     DEF OnFrame, TakeServerInfo, TakeSetConVar, TakeEventList, pass
<1>6. CASE stage = "packets"
  <2>1. ~ TakeCreateTable
    <3>1. Head(inbox) \in PacketMsg
      <4>1. inbox \in Seq(PacketMsg) /\ inbox # <<>>
        BY <1>2, <1>6, PacketBeingRead, Left
      <4> QED BY <4>1, HeadAndTail
    <3>2. Head(inbox).type # "create_table"
      BY <3>1, MessageTypes
    <3> QED BY <3>2 DEF TakeCreateTable, Take
  <2> QED BY <1>2, <1>3, <1>4, <1>5, <1>6, <2>1 DEF Tables
<1>7. CASE stage = "dump"
  <2>1. /\ z \in Seq(SignonMsg) /\ Len(z) >= n + 2
        /\ \A i \in 1..n : z[i + 1] = [type |-> "create_table", name |-> order[i]]
        /\ \A i \in 1..Len(z) : z[i].type = "create_table" => i - 1 \in 1..n
    BY <1>2, SignonRead
  <2>2. /\ n \in Nat /\ n <= 32 /\ u \in Nat /\ u < n
        /\ \A i \in 1..n : order[i] = "userinfo" <=> i = u + 1
    BY <1>2, TheUserinfoTable
  <2>3. /\ 1 \in 1..Len(inbox) /\ Head(inbox) = inbox[1] /\ Len(inbox) \in Nat
        /\ Len(inbox') = Len(inbox) - 1
        /\ \A k \in 1..Len(inbox') : k + 1 \in 1..Len(inbox) /\ inbox'[k] = inbox[k + 1]
    BY <1>2, Left
  <2> DEFINE r == Read
  <2>4. /\ Len(inbox) <= Len(z) /\ \A i \in 1..Len(inbox) : inbox[i] = z[r + i]
        /\ tables_created = IF r = 0 THEN 0 ELSE IF r - 1 < n THEN r - 1 ELSE n
        /\ u + 2 <= r => userinfo_table = u
    BY <1>2, <1>7 DEF Tables
  <2>5. Len(z) \in Nat /\ r = Len(z) - Len(inbox)
    BY <2>1 DEF Read
  <2> HIDE DEF r, z, n, u
  <2>6. r \in Nat /\ r + 1 \in 1..Len(z)
    BY <2>3, <2>4, <2>5
  <2>7. Head(inbox) = z[r + 1]
    BY <2>3, <2>4
  <2>8. Read' = r + 1
    <3>1. Read' = Len(z) - Len(inbox')
      BY <1>4 DEF Read
    <3> QED BY <2>3, <2>5, <3>1
  <2>9. \A i \in 1..Len(inbox') : inbox'[i] = z[r + 1 + i]
    BY <2>3, <2>4, <2>6
  <2>10. Len(inbox') <= Len(z)
    BY <2>3, <2>4, <2>5
  <2>11. /\ tables_created' = IF r < n THEN r ELSE n
         /\ u + 2 <= r + 1 => userinfo_table' = u
    <3>1. CASE TakeCreateTable
      <4>1. /\ userinfo_table' = IF Head(inbox).name = "userinfo" THEN tables_created ELSE userinfo_table
            /\ tables_created' = (tables_created + 1) % 256 /\ Head(inbox).type = "create_table"
        BY <3>1 DEF TakeCreateTable, Take
      <4>2. r \in 1..n
        <5>1. (r + 1) - 1 \in 1..n
          BY <2>1, <2>6, <2>7, <4>1
        <5> QED BY <2>6, <5>1
      <4>3. Head(inbox).name = order[r]
        <5>1. z[r + 1] = [type |-> "create_table", name |-> order[r]]
          BY <2>1, <4>2
        <5> QED BY <2>7, <5>1
      <4>4. tables_created = r - 1
        BY <2>2, <2>4, <4>2
      <4>5. tables_created' = r
        BY <2>2, <4>1, <4>2, <4>4
      <4>6. userinfo_table' = IF r = u + 1 THEN r - 1 ELSE userinfo_table
        BY <2>2, <4>1, <4>2, <4>3, <4>4
      <4> QED BY <2>2, <2>4, <4>2, <4>5, <4>6
    <3>2. CASE ~ TakeCreateTable
      <4>1. r \notin 1..n
        <5> SUFFICES ASSUME r \in 1..n PROVE FALSE
          OBVIOUS
        <5>1. Head(inbox) = [type |-> "create_table", name |-> order[r]]
          BY <2>1, <2>7
        <5>2. Head(inbox).type = "create_table"
          BY <5>1
        <5> QED BY <3>2, <5>2 DEF OnFrame, TakeServerInfo, TakeSetConVar, TakeEventList, TakeGameEvent,
                                  TakeUpdateTable, Take
      <4>2. tables_created' = tables_created /\ userinfo_table' = userinfo_table
        BY <1>5, <3>2
      <4> QED BY <2>2, <2>4, <2>6, <4>1, <4>2
    <3> QED BY <3>1, <3>2
  <2>12. /\ Len(inbox') <= Len(Signon') /\ \A i \in 1..Len(inbox') : inbox'[i] = Signon'[Read' + i]
         /\ tables_created' = IF Read' = 0 THEN 0 ELSE IF Read' - 1 < Len(order)' THEN Read' - 1 ELSE Len(order)'
         /\ TableId("userinfo")' + 2 <= Read' => userinfo_table' = TableId("userinfo")'
    BY <1>4, <2>2, <2>6, <2>8, <2>9, <2>10, <2>11 DEF n, u, z
  <2> QED BY <1>3, <1>7, <2>12 DEF Tables
<1>8. stage # "signon"
  BY <1>2, Left DEF Base, Typed, TypedFrame
<1> QED BY <1>6, <1>7, <1>8 DEF Ownership, Base, Typed, TypedFrame

LEMMA OnFrameEveryone ==
  ASSUME Ownership, Whole, OnFrame, warnings' = warnings
  PROVE  Everyone'
<1>1. Base /\ Tables /\ Everyone
  BY DEF Ownership, Whole
<1>2. UNCHANGED <<sent, stage, truth>> /\ Known \subseteq Known'
  BY <1>1, Left, KnownGrows
<1>3. ASSUME stage = "packets", NEW s \in Slot, IsPlayer(sent[s])
      PROVE  sent[s].user_id \in Known' \/ ToCome(s)'
  <2>1. CASE sent[s].user_id \in Known
    BY <1>2, <2>1
  <2>2. ASSUME sent[s].user_id \notin Known,
               NEW k \in 1..Len(inbox), inbox[k].type = "update_table", PlayerInfo(s, sent[s]) \in Infos(k)
        PROVE  sent[s].user_id \in Known' \/ ToCome(s)'
    <3>1. CASE k = 1
      <4>1. Head(inbox).type = "update_table"
        BY <1>1, <2>2, <3>1, Left
      <4>2. TakeUpdateTable
        BY <4>1 DEF OnFrame, TakeServerInfo, TakeSetConVar, TakeEventList, TakeGameEvent, TakeCreateTable, Take
      <4>3. s \in Arriving
        BY <1>3, <2>2, <3>1 DEF Arriving
      <4>4. players' = players \cup {Seat(r, sent[r], tick) : r \in Arriving}
        BY <1>1, <1>3, <4>2, UpdateTaken DEF Tables
      <4>5. Seat(s, sent[s], tick) \in players' /\ Seat(s, sent[s], tick).user_id = sent[s].user_id
        BY <4>3, <4>4 DEF Seat
      <4> QED BY <4>5 DEF Known
    <3>2. CASE k # 1
      <4>1. k - 1 \in 1..Len(inbox') /\ inbox'[k - 1] = inbox[k]
        <5>1. /\ Len(inbox) \in Nat /\ Len(inbox') = Len(inbox) - 1
              /\ \A j \in 1..Len(inbox') : inbox'[j] = inbox[j + 1]
          BY <1>1, Left
        <5>2. k - 1 \in 1..Len(inbox') /\ (k - 1) + 1 = k
          BY <3>2, <5>1
        <5> QED BY <5>1, <5>2
      <4> QED BY <1>2, <2>2, <4>1 DEF ToCome, Infos
    <3> QED BY <3>1, <3>2
  <2> QED BY <1>1, <1>3, <2>1, <2>2 DEF Everyone, ToCome
<1>4. \A s : IsPlayer(sent[s])' <=> IsPlayer(sent[s])
  BY <1>2 DEF IsPlayer
<1> QED BY <1>1, <1>2, <1>3 DEF Everyone, IsPlayer

\* A row a message brings is of a userid after all those seen before.
LEMMA ArrivesNewer ==
  ASSUME Ownership, Fresh, OnFrame, NEW q, Arrives(q)
  PROVE  NewerHere(q.user_id)
<1>1. /\ stage = "packets" /\ inbox # <<>> /\ 1 \in 1..Len(inbox)
  BY Left DEF Arrives, Ownership
<1>2. CASE inbox[1] \in ConnectMsg /\ q.user_id = inbox[1].fields.userid
  BY <1>1, <1>2 DEF Fresh
<1>3. ASSUME NEW s \in Slot, IsPlayer(sent[s]), q = Seat(s, sent[s], tick)
      PROVE  NewerHere(q.user_id)
  BY <1>1, <1>3 DEF Fresh, Seat
<1> QED BY <1>2, <1>3 DEF Arrives

LEMMA OnFrameSeen ==
  ASSUME Ownership, Whole, OnFrame, Ownership'
  PROVE  Seen'
<1>1. Base /\ Seen /\ Everyone
  BY DEF Ownership, Whole
<1>2. truth' = truth
  BY <1>1, Left
<1>3. PICK home \in Homes, hltv \in SUBSET Nat : Owned(home, hltv)'
  BY DEF Ownership, OneOwner
<1> SUFFICES ASSUME NEW q \in players', NEW i \in 1..Len(truth), NEW s \in Slot,
                    truth[i].clients[s] # None, truth[i].clients[s].user_id = q.user_id
             PROVE  q.first_seen_tick <= truth[i].tick
  BY <1>2 DEF Seen
<1>4. CASE \E p \in players : SameSeat(p, q)
  BY <1>1, <1>4 DEF Seen, SameSeat
<1>5. CASE Arrives(q)
  <2>1. q.first_seen_tick = tick /\ stage = "packets" /\ q.user_id \notin Known
    BY <1>5 DEF Arrives
  <2>2. truth[Len(truth)].tick = tick /\ Len(truth) \in Nat /\ tick \in Nat
    BY <1>1, <2>1, PacketBeingRead DEF Base, Typed, TypedCounts
  <2>3. IsPlayer(truth[i].clients[s])
    <3>1. q.user_id \notin hltv
      BY <1>3 DEF Owned, Rostered
    <3>2. Fits(home, hltv, s, truth[i].clients[s])
      BY <1>2, <1>3 DEF Owned, Fits
    <3> QED BY <3>1, <3>2 DEF Fits, IsPlayer
  <2>4. ~ (i \in 1..(Len(truth) - 1))
    BY <1>1, <2>1, <2>3 DEF Everyone
  <2>5. i = Len(truth)
    BY <2>2, <2>4
  <2> QED BY <2>1, <2>2, <2>5
<1> QED BY <1>1, <1>4, <1>5, RosterStep

LEMMA OnFrameOrdered ==
  ASSUME Ownership, Whole, OnFrame, Ownership'
  PROVE  Ordered'
<1>1. Base /\ Ordered /\ Fresh /\ tick \in Nat /\ (\A p \in players : p.first_seen_tick <= tick)
  BY IdsGiven DEF Ownership, Base, Frames, Whole
<1>2. /\ \A p \in players : p.user_id \in Nat /\ p.first_seen_tick \in Nat
      /\ \A p \in players' : p.user_id \in Nat /\ p.first_seen_tick \in Nat
  <2>1. players \subseteq Player /\ players' \subseteq Player
    BY DEF Ownership, Base, Typed, TypedPass
  <2> QED BY <2>1 DEF Player
<1>3. \A q : Arrives(q) => /\ q.first_seen_tick = tick /\ q.user_id \notin Known
                           /\ \A r \in players : r.first_seen_tick < tick => r.user_id < q.user_id
  <2> SUFFICES ASSUME NEW q, Arrives(q)
               PROVE  /\ q.first_seen_tick = tick /\ q.user_id \notin Known
                      /\ \A r \in players : r.first_seen_tick < tick => r.user_id < q.user_id
    OBVIOUS
  <2> QED BY <1>1, ArrivesNewer DEF NewerHere, Arrives
<1> SUFFICES ASSUME NEW p \in players', NEW q \in players', p.user_id <= q.user_id
             PROVE  p.first_seen_tick <= q.first_seen_tick
  BY DEF Ordered
<1>4. CASE Arrives(p) /\ Arrives(q)
  BY <1>1, <1>3, <1>4
<1>5. ASSUME NEW p0 \in players, SameSeat(p0, p), Arrives(q)
      PROVE  p.first_seen_tick <= q.first_seen_tick
  BY <1>1, <1>3, <1>5 DEF SameSeat
<1>6. ASSUME NEW q0 \in players, SameSeat(q0, q), Arrives(p)
      PROVE  p.first_seen_tick <= q.first_seen_tick
  <2>1. ~ (q0.user_id < p.user_id) /\ q0.first_seen_tick = q.first_seen_tick
    BY <1>2, <1>6 DEF SameSeat
  <2>2. ~ (q0.first_seen_tick < tick)
    BY <1>3, <1>6, <2>1
  <2> QED BY <1>1, <1>2, <1>3, <1>6, <2>1, <2>2
<1>7. ASSUME NEW p0 \in players, SameSeat(p0, p), NEW q0 \in players, SameSeat(q0, q)
      PROVE  p.first_seen_tick <= q.first_seen_tick
  BY <1>1, <1>7 DEF SameSeat, Ordered
<1>8. \A r \in players' : (\E r0 \in players : SameSeat(r0, r)) \/ Arrives(r)
  BY <1>1, RosterStep
<1> QED BY <1>4, <1>5, <1>6, <1>7, <1>8

LEMMA OnFrameFresh ==
  ASSUME Ownership, Whole, OnFrame
  PROVE  Fresh'
<1>1. Base /\ Fresh
  BY DEF Ownership, Whole
<1>2. /\ UNCHANGED <<clients, sent, fired, tick, stage>> /\ Known \subseteq Known' /\ tick \in Nat
      /\ \A k \in 1..Len(inbox') : k + 1 \in 1..Len(inbox) /\ inbox'[k] = inbox[k + 1]
      /\ inbox # <<>>
  BY <1>1, Left, KnownGrows DEF Base, Typed, TypedCounts
<1> DEFINE Here(u) == u \in Known' \/ \A q \in players' : q.first_seen_tick < tick' => q.user_id < u
<1>3. ASSUME NEW u, NewerHere(u)
      PROVE  Here(u)
  <2> SUFFICES ASSUME u \notin Known', NEW q \in players', q.first_seen_tick < tick
               PROVE  q.user_id < u
    BY <1>2
  <2>1. ~ Arrives(q)
    BY <1>2 DEF Arrives
  <2>2. PICK p \in players : SameSeat(p, q)
    BY <1>1, <2>1, RosterStep
  <2> QED BY <1>2, <1>3, <2>2 DEF NewerHere, SameSeat
<1>4. ASSUME NEW k \in 1..Len(inbox'), inbox'[k] \in ConnectMsg
      PROVE  Here(inbox'[k].fields.userid)
  <2>1. NewerHere(inbox[k + 1].fields.userid) /\ inbox'[k] = inbox[k + 1]
    BY <1>1, <1>2, <1>4 DEF Fresh
  <2> QED BY <1>3, <2>1
<1>5. ASSUME stage = "packets"
      PROVE  /\ clients = sent /\ fired = <<>>
             /\ \A s \in Slot : IsPlayer(sent[s]) => Here(sent[s].user_id)
  BY <1>1, <1>2, <1>3, <1>5, PacketBeingRead DEF Fresh
<1>6. stage # "packets" => fired = <<>>
  BY <1>1 DEF Base, Frames
<1>7. stage = "packets" => \A s \in Slot : ~ (IsPlayer(clients[s]) /\ ~ InGame(s))'
  BY <1>2, <1>5 DEF InGame, IsPlayer
<1>8. \A k \in 1..Len(fired') : FALSE
  BY <1>2, <1>5, <1>6
<1> QED BY <1>2, <1>4, <1>5, <1>7, <1>8 DEF Fresh, NewerHere, IsPlayer

LEMMA OnFrameDeaths ==
  ASSUME Ownership, Whole, OnFrame
  PROVE  Deaths'
<1>1. Base /\ Deaths
  BY DEF Ownership, Whole
<1>2. /\ fired' = fired /\ Known \subseteq Known' /\ 1 \in 1..Len(inbox) /\ Head(inbox) = inbox[1]
      /\ \A k \in 1..Len(inbox') : k + 1 \in 1..Len(inbox) /\ inbox'[k] = inbox[k + 1]
  BY <1>1, Left, KnownGrows
<1> DEFINE Now(f) == {f.userid, f.attacker, f.assists} \subseteq Known' \cup {0}
<1>3. \A f : AllKnown(f) => Now(f)
  BY <1>2 DEF AllKnown
<1>4. deaths' = deaths \/ \E f \in Died : AllKnown(f) /\ deaths' = Append(deaths, f)
  <2>1. CASE TakeGameEvent
    <3> DEFINE m == Head(inbox)
    <3>1. m \in EventMsg /\ (deaths' = deaths \/ (m.id = 3 /\ m.fields \in Died /\ deaths' = Append(deaths, m.fields)))
      BY <1>1, <2>1, EventTaken
    <3>2. m.id = 3 => m \in DeathMsg
      BY <3>1 DEF EventMsg, ConnectMsg, RenameMsg, DeathMsg
    <3>3. m \in DeathMsg => AllKnown(m.fields)
      BY <1>1, <1>2 DEF Deaths
    <3> HIDE DEF m
    <3> QED BY <3>1, <3>2, <3>3
  <2>2. ~ TakeGameEvent => deaths' = deaths
    BY <1>1, UpdateTaken DEF OnFrame, TakeServerInfo, TakeSetConVar, TakeEventList, TakeCreateTable, pass
  <2> QED BY <2>1, <2>2
<1>5. \A k \in 1..Len(deaths') : Now(deaths'[k])
  <2>1. deaths \in Seq(Died) /\ \A k \in 1..Len(deaths) : AllKnown(deaths[k])
    BY <1>1 DEF Base, Typed, TypedPass, Deaths
  <2>2. CASE deaths' = deaths
    BY <1>3, <2>1, <2>2
  <2>3. ASSUME NEW f \in Died, AllKnown(f), deaths' = Append(deaths, f)
        PROVE  \A k \in 1..Len(deaths') : Now(deaths'[k])
    <3>1. /\ Len(deaths) \in Nat /\ Len(deaths') = Len(deaths) + 1
          /\ \A i \in 1..Len(deaths) : deaths'[i] = deaths[i]
          /\ deaths'[Len(deaths) + 1] = f
      BY <2>1, <2>3, Appended
    <3>2. \A k \in 1..Len(deaths') : k \in 1..Len(deaths) \/ k = Len(deaths) + 1
      BY <3>1
    <3> HIDE DEF Now
    <3> QED BY <1>3, <2>1, <2>3, <3>1, <3>2
  <2> QED BY <1>4, <2>2, <2>3
<1>6. \A k \in 1..Len(fired') : fired'[k] \in DeathMsg => Now(fired'[k].fields)
  BY <1>1, <1>2, <1>3 DEF Deaths
<1>7. \A k \in 1..Len(inbox') : inbox'[k] \in DeathMsg => Now(inbox'[k].fields)
  BY <1>1, <1>2, <1>3 DEF Deaths
<1> QED BY <1>5, <1>6, <1>7 DEF Deaths, AllKnown

LEMMA LaterStep ==
  ASSUME Ownership, Ownership', Later, Next
  PROVE  Later'
<1>1. Base
  BY DEF Ownership
<1>2. CASE Server
  <2>1. truth' = truth /\ players' = players
    BY <1>2, ServerKeeps
  <2> QED BY <2>1 DEF Later
<1>3. CASE RecordSignon \/ RecordDump
  <2>1. truth = <<>> /\ truth' = truth
    BY <1>1, <1>3 DEF RecordSignon, RecordDump, Base, Frames
  <2> QED BY <2>1 DEF Later
<1>4. CASE RecordPacket
  <2>1. players' = players
    BY <1>1, <1>4, PacketKeeps
  <2>2. PICK home \in Homes, hltv \in SUBSET Nat : Owned(home, hltv)
    BY DEF Ownership, OneOwner
  <2> SUFFICES ASSUME NEW q \in players, NEW i \in 1..Len(truth'), NEW s \in Slot,
                      truth'[i].clients[s] # None, q.entity_id = s + 1,
                      q.user_id > truth'[i].clients[s].user_id
               PROVE  q.first_seen_tick > truth'[i].tick
    BY <2>1 DEF Later
  <2>3. CASE i \in 1..Len(truth) /\ truth'[i] = truth[i]
    BY <2>3 DEF Later
  <2>4. CASE truth'[i].clients = clients
    <3>1. home[q.user_id] \in Slot /\ q.entity_id = home[q.user_id] + 1 /\ q.user_id \in Nat
      BY <2>2, IdsGiven DEF Owned, Rostered
    <3>2. home[q.user_id] = s
      BY <3>1, SlotsAreNumbers
    <3>3. q.user_id <= clients[s].user_id
      BY <2>2, <2>4, <3>1, <3>2 DEF Owned
    <3>4. clients[s].user_id \in Nat
      BY <1>1, <2>4 DEF Base, Typed, TypedServer, Client, Connection
    <3> QED BY <2>4, <3>1, <3>3, <3>4
  <2> QED BY <1>1, <1>4, <2>3, <2>4, PacketShown
<1>5. CASE OnFrame
  <2>1. truth' = truth /\ clients' = clients
    BY <1>1, <1>5, Left
  <2>2. PICK home \in Homes, hltv \in SUBSET Nat : Owned(home, hltv)'
    BY DEF Ownership, OneOwner
  <2> SUFFICES ASSUME NEW q \in players', NEW i \in 1..Len(truth), NEW s \in Slot,
                      truth[i].clients[s] # None, q.entity_id = s + 1,
                      q.user_id > truth[i].clients[s].user_id
               PROVE  q.first_seen_tick > truth[i].tick
    BY <2>1 DEF Later
  <2>3. CASE \E p \in players : SameSeat(p, q)
    BY <2>3 DEF Later, SameSeat
  <2>4. CASE Arrives(q)
    <3>1. stage = "packets" /\ q.first_seen_tick = tick /\ tick \in Nat
      BY <1>1, <2>4 DEF Arrives, Base, Typed, TypedCounts
    <3>2. Len(truth) \in Nat /\ truth[Len(truth)].tick = tick /\ truth[Len(truth)].clients = clients
      BY <1>1, <1>5, <3>1, PacketBeingRead
    <3>3. CASE i = Len(truth)
      <4>1. home[q.user_id] \in Slot /\ q.entity_id = home[q.user_id] + 1
        BY <2>2 DEF Owned, Rostered
      <4>2. q.user_id \in Nat /\ clients[s].user_id \in Nat
        <5>1. players' \subseteq Player
          BY DEF Ownership, Base, Typed, TypedPass
        <5>2. clients[s] \in Connection
          BY <1>1, <3>2, <3>3 DEF Base, Typed, TypedServer, Client
        <5> QED BY <5>1, <5>2 DEF Player, Connection
      <4>3. home[q.user_id] = s
        BY <4>1, SlotsAreNumbers
      <4>4. q.user_id <= clients[s].user_id
        BY <2>1, <2>2, <3>2, <3>3, <4>2, <4>3 DEF Owned
      <4> QED BY <3>2, <3>3, <4>2, <4>4
    <3>4. CASE i # Len(truth)
      <4>1. Len(truth) \in 1..Len(truth) /\ i < Len(truth)
        BY <3>2, <3>4
      <4>2. truth[i].tick < tick
        BY <1>1, <3>2, <4>1 DEF Base, Frames
      <4>3. truth[i].tick \in Nat
        BY <1>1, ShownTyped DEF Base
      <4> QED BY <3>1, <4>2, <4>3
    <3> QED BY <3>3, <3>4
  <2> QED BY <1>1, <1>5, <2>3, <2>4, RosterStep
<1> QED BY <1>2, <1>3, <1>4, <1>5 DEF Next

Wholly == Ownership /\ Later /\ (warnings = 0 => Whole)

LEMMA InitWholly == Init => Wholly
<1> SUFFICES ASSUME Init PROVE Wholly
  OBVIOUS
<1>1. /\ fired = <<>> /\ stage = "signon" /\ truth = <<>> /\ inbox = <<>> /\ players = {} /\ deaths = <<>>
      /\ tables_created = 0
  BY DEF Init
<1>2. Later /\ Seen /\ Ordered
  BY <1>1 DEF Later, Seen, Ordered
<1>3. Tables /\ Everyone /\ Fresh /\ Deaths
  BY <1>1 DEF Tables, Everyone, Fresh, Deaths
<1> QED BY <1>2, <1>3, InitBase, InitOwned DEF Wholly, Ownership, Whole

LEMMA WhollyStep == ASSUME Wholly, [Next]_vars PROVE Wholly'
<1>1. Ownership /\ Ownership'
  BY OwnershipStep DEF Wholly
<1>2. CASE UNCHANGED vars
  <2>1. /\ UNCHANGED <<sourcetv, clients, sent, cvar, fired, order, tick, stage, truth, inbox, players, deaths>>
        /\ UNCHANGED <<tables_created, userinfo_table, warnings>>
    BY <1>2 DEF vars, server, reading, pass
  <2>2. Signon' = Signon /\ TableId("userinfo")' = TableId("userinfo")
    BY <2>1 DEF Signon, TableId
  <2>3. Tables => Tables'
    BY <2>1, <2>2 DEF Tables, Read
  <2>4. Known' = Known /\ \A s : ToCome(s)' <=> ToCome(s)
    BY <2>1 DEF Known, ToCome, Infos
  <2>5. Everyone => Everyone'
    BY <2>1, <2>4 DEF Everyone, IsPlayer
  <2>6. (Later => Later') /\ (Seen => Seen') /\ (Ordered => Ordered')
    BY <2>1 DEF Later, Seen, Ordered
  <2>7. (Fresh => Fresh') /\ (Deaths => Deaths')
    BY <2>1, <2>4 DEF Fresh, Deaths, Newer, NewerHere, AllKnown, InGame, IsPlayer
  <2> QED BY <1>1, <2>1, <2>3, <2>5, <2>6, <2>7 DEF Wholly, Whole
<1>3. CASE Next
  <2>1. Later'
    BY <1>1, <1>3, LaterStep DEF Wholly
  <2>2. warnings' = 0 => warnings = 0
    BY <1>1, WarningsGrow DEF Ownership
  <2>3. CASE warnings' = 0
    <3>1. warnings = 0 /\ Whole /\ Later
      BY <2>2, <2>3 DEF Wholly
    <3>2. OnFrame => Whole'
      BY <1>1, <2>3, <3>1, OnFrameTables, OnFrameEveryone, OnFrameSeen, OnFrameOrdered, OnFrameFresh, OnFrameDeaths
         DEF Whole
    <3> QED BY <1>1, <1>3, <2>1, <2>3, <3>1, <3>2, ServerWhole, RecordSignonWhole, RecordDumpWhole,
               RecordPacketWhole DEF Next, Wholly
  <2> QED BY <1>1, <2>1, <2>3 DEF Wholly
<1> QED BY <1>2, <1>3

LEMMA WhollyInductive == Spec => []Wholly
BY InitWholly, WhollyStep, PTL DEF Spec

\* Once every frame so far has been read to its end, no death in the demo names
\* a userid without a roster row: whoever dies or kills was in a packet before,
\* and by then the dump, a connect event or an update of the userinfo table had
\* told the pass of them.
THEOREM EveryDeathKnown == Spec => []LateJoinersKnown
<1>1. Wholly => LateJoinersKnown
  <2> SUFFICES ASSUME Wholly, ReadWhole PROVE DeathsMissingFromRoster = 0
    BY DEF LateJoinersKnown
  <2> DEFINE missing == {i \in 1..Len(deaths) :
               \E id \in {deaths[i].userid, deaths[i].attacker, deaths[i].assists} : id # 0 /\ id \notin Known}
  <2>1. \A i \in 1..Len(deaths) : AllKnown(deaths[i])
    BY DEF Wholly, ReadWhole, Whole, Deaths
  <2>2. missing = {}
    BY <2>1 DEF AllKnown
  <2> HIDE DEF missing
  <2>3. Cardinality(missing) = 0
    BY <2>2, FS_EmptySet
  <2> QED BY <2>3 DEF DeathsMissingFromRoster, missing
<1> QED BY <1>1, WhollyInductive, PTL

-----------------------------------------------------------------------------
(* Who holds a slot                                                        *)

\* The order in which the rows of a slot began.
Before(q, p) ==
  \/ q.first_seen_tick < p.first_seen_tick
  \/ q.first_seen_tick = p.first_seen_tick /\ q.user_id <= p.user_id

LEMMA BeforeIsOrder ==
  ASSUME Ownership
  PROVE  /\ \A p \in players : p.user_id \in Nat /\ p.first_seen_tick \in Nat
         /\ \A p, q \in players : Before(p, q) \/ Before(q, p)
         /\ \A p, q \in players : Before(p, q) /\ Before(q, p) => p = q
         /\ \A p, q, r \in players : Before(p, q) /\ Before(q, r) => Before(p, r)
<1>1. \A p \in players : p.user_id \in Nat /\ p.first_seen_tick \in Nat
  BY IdsGiven
<1>2. \A p, q \in players : Before(p, q) /\ Before(q, p) => p = q
  <2>1. \A p, q \in players : Before(p, q) /\ Before(q, p) => p.user_id = q.user_id
    BY <1>1 DEF Before
  <2> QED BY <2>1 DEF Ownership, Unique
<1>3. \A p, q \in players : Before(p, q) \/ Before(q, p)
  BY <1>1 DEF Before
<1>4. \A p, q, r \in players : Before(p, q) /\ Before(q, r) => Before(p, r)
  BY <1>1 DEF Before
<1> QED BY <1>1, <1>2, <1>3, <1>4

\* The row that was the last to begin on a slot by a tick is the holder's, by
\* slot_holder and by SlotOwners.
LEMMA LastHolds ==
  ASSUME Ownership, NEW e, NEW t \in Nat, NEW p0 \in players, p0.entity_id = e, p0.first_seen_tick <= t,
         \A q \in players : q.entity_id = e /\ q.first_seen_tick <= t => Before(q, p0)
  PROVE  SlotHolder(e, t) = p0.user_id /\ SteamidAt(e, t) = p0.user_id
<1>1. /\ \A p \in players : p.user_id \in Nat /\ p.first_seen_tick \in Nat
      /\ \A p, q \in players : Before(p, q) \/ Before(q, p)
      /\ \A p, q \in players : Before(p, q) /\ Before(q, p) => p = q
      /\ \A p, q, r \in players : Before(p, q) /\ Before(q, r) => Before(p, r)
  BY BeforeIsOrder
<1>2. SlotHolder(e, t) = p0.user_id
  <2> DEFINE arrived == {p \in players : p.entity_id = e /\ p.first_seen_tick <= t}
             last == CHOOSE p \in arrived : \A q \in arrived : Before(q, p)
  <2>1. SlotHolder(e, t) = IF arrived = {} THEN None ELSE last.user_id
    BY DEF SlotHolder, Before
  <2>2. p0 \in arrived /\ \A q \in arrived : Before(q, p0)
    OBVIOUS
  <2>3. last \in arrived /\ \A q \in arrived : Before(q, last)
    <3> HIDE DEF arrived
    <3> QED BY <2>2
  <2>4. last = p0
    <3>1. last \in players
      BY <2>3
    <3> HIDE DEF arrived, last
    <3> QED BY <1>1, <2>2, <2>3, <3>1
  <2> HIDE DEF arrived, last
  <2> QED BY <2>1, <2>2, <2>4
<1>3. SteamidAt(e, t) = p0.user_id
  <2> DEFINE S == {p \in players : p.entity_id = e}
             n == Cardinality(S)
             le == {x \in S \X S : Before(x[1], x[2])}
             At(i) == CHOOSE p \in S : Rank(le, S, p) = i
             k == Rank(le, S, p0)
             by == {i \in 1..n : At(i).first_seen_tick <= t}
  <2>1. IsFiniteSet(S) /\ n \in Nat
    <3>1. IsFiniteSet(players) /\ S \in SUBSET players
      BY DEF Ownership, Base, Typed, TypedPass
    <3> HIDE DEF S
    <3> QED BY <3>1, FS_Subset, FS_CardinalityType
  <2>2. p0 \in S /\ (\A p \in S : p \in players /\ p.entity_id = e) /\ \A p \in players : p.entity_id = e => p \in S
    OBVIOUS
  <2> HIDE DEF S
  <2>3. \A p, q \in S : <<p, q>> \in le <=> Before(p, q)
    OBVIOUS
  <2> HIDE DEF le
  <2>4. IsTotalOrder(le, S)
    BY <1>1, <2>2, <2>3 DEF IsTotalOrder
  <2>5. /\ \A p \in S : Rank(le, S, p) \in 1..n
        /\ \A p, q \in S : <<p, q>> \in le /\ p # q => Rank(le, S, p) < Rank(le, S, q)
        /\ \A i \in 1..n : \E p \in S : Rank(le, S, p) = i
    BY <2>1, <2>4, Ranks
  <2>6. SlotOwners(e) = [i \in 1..n |-> At(i)]
    <3>1. \A p \in S : {q \in S : <<q, p>> \in le} = {q \in S : Before(q, p)}
      BY <2>3
    <3>2. \A p \in S : Rank(le, S, p) = Cardinality({q \in S : Before(q, p)})
      BY <3>1 DEF Rank
    <3>3. \A i : At(i) = CHOOSE p \in S : Cardinality({q \in S : Before(q, p)}) = i
      BY <3>2
    <3>4. SlotOwners(e) = [i \in 1..n |-> CHOOSE p \in S : Cardinality({q \in S : Before(q, p)}) = i]
      BY DEF SlotOwners, Before, S
    <3> HIDE DEF At, n
    <3> QED BY <3>3, <3>4
  <2>7. \A i \in 1..n : At(i) \in S /\ Rank(le, S, At(i)) = i
    BY <2>5
  <2> HIDE DEF At
  <2>8. k \in 1..n /\ k \in Nat
    BY <2>1, <2>2, <2>5
  <2>9. At(k) = p0
    <3>1. At(k) \in S /\ Rank(le, S, At(k)) = k
      BY <2>7, <2>8
    <3>2. ~ (Rank(le, S, At(k)) < Rank(le, S, p0)) /\ ~ (Rank(le, S, p0) < Rank(le, S, At(k)))
      BY <2>8, <3>1
    <3>3. <<At(k), p0>> \in le \/ <<p0, At(k)>> \in le
      BY <2>2, <2>4, <3>1 DEF IsTotalOrder
    <3> QED BY <2>2, <2>5, <3>1, <3>2, <3>3
  <2>10. \A i \in 1..n : At(i).first_seen_tick <= t <=> i <= k
    <3> SUFFICES ASSUME NEW i \in 1..n PROVE At(i).first_seen_tick <= t <=> i <= k
      OBVIOUS
    <3> DEFINE p == At(i)
    <3>1. p \in S /\ p \in players /\ p.entity_id = e /\ Rank(le, S, p) = i
      BY <2>2, <2>7
    <3> HIDE DEF p
    <3>2. p.first_seen_tick <= t <=> Before(p, p0)
      <4>1. Before(p, p0) => p.first_seen_tick <= p0.first_seen_tick
        BY <1>1, <3>1 DEF Before
      <4> QED BY <1>1, <3>1, <4>1
    <3>3. Before(p, p0) => i <= k
      <4>1. Before(p, p0) /\ p # p0 => i < k
        BY <2>2, <2>3, <2>5, <3>1
      <4> QED BY <2>1, <2>8, <3>1, <4>1
    <3>4. ~ Before(p, p0) => k < i
      BY <1>1, <2>2, <2>3, <2>5, <3>1
    <3> HIDE DEF k
    <3> QED BY <2>1, <2>8, <3>2, <3>3, <3>4 DEF p
  <2> HIDE DEF k, n
  <2>11. by = 1..k
    BY <2>1, <2>8, <2>10
  <2>12. Cardinality(by) = k
    <3> HIDE DEF by
    <3>1. Cardinality(1..k) = k
      BY <2>8, FS_Interval
    <3> QED BY <2>11, <3>1
  <2>13. Len(SlotOwners(e)) = n /\ \A i \in 1..n : SlotOwners(e)[i] = At(i)
    BY <2>1, <2>6
  <2>14. {i \in 1..Len(SlotOwners(e)) : SlotOwners(e)[i].first_seen_tick <= t} = by
    BY <2>13
  <2> HIDE DEF by
  <2>15. SteamidAt(e, t) = IF k = 0 THEN None ELSE SlotOwners(e)[k].user_id
    BY <2>12, <2>14 DEF SteamidAt
  <2> QED BY <2>8, <2>9, <2>13, <2>15
<1> QED BY <1>2, <1>3

\* Whoever is in a slot when a packet is sent holds it on that packet's tick by
\* slot_holder and by SlotOwners, once the frames have been read to their ends:
\* their row begins by that tick, no row of an earlier holder begins after
\* theirs, and a later holder's begins after every packet they were in.
THEOREM HoldersAreRight == Spec => []HoldersRight
<1>1. Wholly => HoldersRight
  <2> SUFFICES ASSUME Wholly, ReadWhole, NEW i \in 1..Len(truth), NEW s \in Slot,
                      IsPlayer(truth[i].clients[s])
               PROVE  /\ SlotHolder(s + 1, truth[i].tick) = truth[i].clients[s].user_id
                      /\ SteamidAt(s + 1, truth[i].tick) = truth[i].clients[s].user_id
    BY DEF HoldersRight
  <2> DEFINE c == truth[i].clients[s]
             t == truth[i].tick
  <2>1. /\ Ownership /\ Base /\ Typed /\ Later /\ Everyone /\ Seen /\ Ordered
        /\ inbox = <<>>
    BY DEF Wholly, ReadWhole, Whole, Ownership, Base
  <2>2. Len(truth) \in Nat /\ t \in Nat /\ c \in Client
    BY <2>1, ShownTyped
  <2>3. c # None /\ c.user_id \in Nat
    BY <2>2 DEF IsPlayer, Client, Connection
  <2>4. c.user_id \in Known
    <3>1. CASE i = Len(truth)
      <4>1. truth # <<>>
        BY <2>2, <3>1
      <4>2. stage = "packets" /\ truth[i].clients = sent
        BY <2>1, <3>1, <4>1 DEF Base, Frames
      <4> QED BY <2>1, <4>2, SentKnown
    <3>2. CASE i # Len(truth)
      <4>1. i \in 1..(Len(truth) - 1)
        BY <2>2, <3>2
      <4> QED BY <2>1, <4>1 DEF Everyone
    <3> QED BY <3>1, <3>2
  <2>5. PICK p0 \in players : p0.user_id = c.user_id
    BY <2>4 DEF Known
  <2>6. p0.entity_id = s + 1
    BY <2>1, <2>3, <2>5 DEF Ownership, OneOwner, Owned, Fits, Rostered
  <2>7. p0.first_seen_tick <= t
    BY <2>1, <2>3, <2>5 DEF Seen
  <2>8. ASSUME NEW q \in players, q.entity_id = s + 1, q.first_seen_tick <= t
        PROVE  Before(q, p0)
    <3>1. q.user_id \in Nat /\ q.first_seen_tick \in Nat /\ p0.first_seen_tick \in Nat
      BY <2>1, IdsGiven
    <3>2. ~ (q.user_id > c.user_id)
      <4>1. q.user_id > c.user_id => q.first_seen_tick > t
        BY <2>1, <2>3, <2>8 DEF Later
      <4> HIDE DEF t
      <4> QED BY <2>2, <2>8, <3>1, <4>1
    <3> HIDE DEF c
    <3>3. q.user_id <= p0.user_id
      BY <2>3, <2>5, <3>1, <3>2
    <3>4. q.first_seen_tick <= p0.first_seen_tick
      BY <2>1, <3>3 DEF Ordered
    <3> QED BY <3>1, <3>3, <3>4 DEF Before
  <2> HIDE DEF c, t
  <2>9. SlotHolder(s + 1, t) = p0.user_id /\ SteamidAt(s + 1, t) = p0.user_id
    BY <2>1, <2>2, <2>6, <2>7, <2>8, LastHolds
  <2> QED BY <2>5, <2>9 DEF c, t
<1> QED BY <1>1, WhollyInductive, PTL

-----------------------------------------------------------------------------
(* Names                                                                   *)

RenameOf(m, u) == m \in RenameMsg /\ m.fields.userid = u

LastRename(q, k, u) == RenameOf(q[k], u) /\ \A j \in (k + 1)..Len(q) : ~ RenameOf(q[j], u)

\* The renames in q lead the userid from one name to another.
Told(q, u, before, now) ==
  /\ \A k \in 1..Len(q) : LastRename(q, k, u) => q[k].fields.newname = now
  /\ (\A k \in 1..Len(q) : ~ RenameOf(q[k], u)) => before = now

Unnamed(q, u) == \A k \in 1..Len(q) : ~ RenameOf(q[k], u)

\* In a client's recording every name a player took is on its way: the renames
\* queued lead from the names last shown to those they have, and the renames to
\* be read from the roster's names to those last shown.
Names ==
  /\ \A k \in 1..Len(fired) :
       /\ fired[k] \in RenameMsg => fired[k].fields.userid < nextId
       /\ fired[k] \in ConnectMsg => fired[k].fields.name = 0
  /\ \A s \in Slot : IsPlayer(clients[s]) =>
       IF InGame(s) THEN Told(fired, clients[s].user_id, sent[s].name, clients[s].name)
       ELSE clients[s].name = 0 /\ Unnamed(fired, clients[s].user_id)
  /\ \A s \in Slot : IsPlayer(sent[s]) =>
       /\ \A p \in players : p.user_id = sent[s].user_id => Told(inbox, p.user_id, p.name, sent[s].name)
       /\ sent[s].user_id \notin Known =>
            /\ Unnamed(inbox, sent[s].user_id)
            /\ \A k \in 1..Len(inbox) :
                 inbox[k] \in ConnectMsg /\ inbox[k].fields.userid = sent[s].user_id =>
                   inbox[k].fields.name = sent[s].name

LEMMA ToldBefore ==
  ASSUME NEW a \in Seq(PacketMsg), NEW b \in Seq(PacketMsg), NEW u, NEW before, NEW now,
         Told(a, u, before, now), Unnamed(b, u)
  PROVE  Told(a \o b, u, before, now)
<1> DEFINE c == a \o b
<1>1. /\ Len(c) = Len(a) + Len(b) /\ Len(a) \in Nat /\ Len(b) \in Nat
      /\ \A i \in 1..(Len(a) + Len(b)) : c[i] = IF i <= Len(a) THEN a[i] ELSE b[i - Len(a)]
  BY Concat
<1> HIDE DEF c
<1>2. \A i \in 1..Len(a) : i \in 1..Len(c) /\ c[i] = a[i]
  BY <1>1
<1>3. \A i \in 1..Len(c) : RenameOf(c[i], u) => i \in 1..Len(a)
  <2> SUFFICES ASSUME NEW i \in 1..Len(c), i \notin 1..Len(a) PROVE ~ RenameOf(c[i], u)
    OBVIOUS
  <2>1. i - Len(a) \in 1..Len(b) /\ c[i] = b[i - Len(a)]
    BY <1>1
  <2> QED BY <2>1 DEF Unnamed
<1>4. ASSUME NEW k \in 1..Len(c), LastRename(c, k, u)
      PROVE  c[k].fields.newname = now
  <2>1. k \in 1..Len(a) /\ RenameOf(a[k], u)
    BY <1>2, <1>3, <1>4 DEF LastRename
  <2>2. \A j \in (k + 1)..Len(a) : j \in (k + 1)..Len(c) /\ j \in 1..Len(a)
    BY <1>1, <2>1
  <2>3. LastRename(a, k, u)
    BY <1>2, <1>4, <2>1, <2>2 DEF LastRename
  <2> QED BY <1>2, <2>1, <2>3 DEF Told
<1>5. (\A k \in 1..Len(c) : ~ RenameOf(c[k], u)) => before = now
  BY <1>2 DEF Told
<1> QED BY <1>4, <1>5 DEF Told, c

LEMMA ToldAfter ==
  ASSUME NEW a \in Seq(PacketMsg), NEW b \in Seq(PacketMsg), NEW u, NEW before, NEW now,
         Told(b, u, before, now), Unnamed(a, u)
  PROVE  Told(a \o b, u, before, now)
<1> DEFINE c == a \o b
<1>1. /\ Len(c) = Len(a) + Len(b) /\ Len(a) \in Nat /\ Len(b) \in Nat
      /\ \A i \in 1..(Len(a) + Len(b)) : c[i] = IF i <= Len(a) THEN a[i] ELSE b[i - Len(a)]
  BY Concat
<1> HIDE DEF c
<1>2. \A i \in 1..Len(b) : i + Len(a) \in 1..Len(c) /\ c[i + Len(a)] = b[i]
  BY <1>1
<1>3. \A i \in 1..Len(c) : RenameOf(c[i], u) => i - Len(a) \in 1..Len(b)
  <2> SUFFICES ASSUME NEW i \in 1..Len(c), ~ (i - Len(a) \in 1..Len(b)) PROVE ~ RenameOf(c[i], u)
    OBVIOUS
  <2>1. i \in 1..Len(a) /\ c[i] = a[i]
    BY <1>1
  <2> QED BY <2>1 DEF Unnamed
<1>4. ASSUME NEW k \in 1..Len(c), LastRename(c, k, u)
      PROVE  c[k].fields.newname = now
  <2> DEFINE i == k - Len(a)
  <2>1. i \in 1..Len(b)
    BY <1>3, <1>4 DEF LastRename
  <2>2. c[k] = b[i] /\ i + Len(a) = k
    BY <1>1, <1>2, <2>1
  <2>3. \A j \in (i + 1)..Len(b) : j + Len(a) \in (k + 1)..Len(c) /\ j \in 1..Len(b)
    BY <1>1, <2>1
  <2> HIDE DEF i
  <2>4. LastRename(b, i, u)
    BY <1>2, <1>4, <2>2, <2>3 DEF LastRename
  <2> QED BY <2>1, <2>2, <2>4 DEF Told
<1>5. (\A k \in 1..Len(c) : ~ RenameOf(c[k], u)) => before = now
  BY <1>2 DEF Told
<1> QED BY <1>4, <1>5 DEF Told, c

\* A message of another's added to the queue changes nothing of a name.
LEMMA ToldQueued ==
  ASSUME Typed, NEW m \in QueueMsg, fired' = Append(fired, m), NEW u, ~ RenameOf(m, u)
  PROVE  /\ \A before, now : Told(fired, u, before, now) => Told(fired', u, before, now)
         /\ Unnamed(fired, u) => Unnamed(fired', u)
<1>1. fired \in Seq(PacketMsg) /\ <<m>> \in Seq(PacketMsg)
  <2>1. fired \in Seq(QueueMsg) /\ QueueMsg \subseteq PacketMsg
    BY DEF Typed, TypedServer, PacketMsg
  <2> QED BY <2>1
<1>2. fired' = fired \o <<m>>
  BY <1>1
<1>3. Unnamed(<<m>>, u)
  BY DEF Unnamed
<1>4. ASSUME NEW before, NEW now, Told(fired, u, before, now)
      PROVE  Told(fired', u, before, now)
  BY <1>1, <1>2, <1>3, <1>4, ToldBefore
<1>5. Unnamed(fired, u) => Unnamed(fired', u)
  <2>1. \A k \in 1..Len(fired') : (k \in 1..Len(fired) /\ fired'[k] = fired[k]) \/ fired'[k] = m
    BY Queued
  <2> QED BY <2>1 DEF Unnamed
<1> QED BY <1>4, <1>5

\* The players in the game have userids of their own, and given before.
LEMMA IdsApart ==
  ASSUME Ownership
  PROVE  /\ \A s \in Slot : clients[s] # None => clients[s].user_id < nextId /\ clients[s].user_id \in Nat
         /\ \A s \in Slot : sent[s] # None => sent[s].user_id < nextId /\ sent[s].user_id \in Nat
         /\ \A s, r \in Slot : clients[s] # None /\ clients[r] # None /\ clients[s].user_id = clients[r].user_id =>
              s = r
         /\ \A s, r \in Slot : sent[s] # None /\ sent[r] # None /\ sent[s].user_id = sent[r].user_id => s = r
         /\ \A s \in Slot : clients[s] # None /\ sent[s] # None /\ clients[s].user_id = sent[s].user_id =>
              (IsPlayer(clients[s]) <=> IsPlayer(sent[s]))
<1>1. PICK home \in Homes, hltv \in SUBSET Nat : Owned(home, hltv)
  BY DEF Ownership, OneOwner
<1>2. nextId \in Nat
  BY IdsGiven
<1>3. \A s \in Slot : /\ clients[s] # None => clients[s].user_id \in Nat /\ home[clients[s].user_id] = s
                      /\ sent[s] # None => sent[s].user_id \in Nat /\ home[sent[s].user_id] = s
  <2> SUFFICES ASSUME NEW s \in Slot
               PROVE  /\ clients[s] # None => clients[s].user_id \in Nat /\ home[clients[s].user_id] = s
                      /\ sent[s] # None => sent[s].user_id \in Nat /\ home[sent[s].user_id] = s
    OBVIOUS
  <2>1. clients[s] \in Client /\ sent[s] \in Client
    BY DEF Ownership, Base, Typed, TypedServer
  <2>2. Fits(home, hltv, s, clients[s]) /\ Fits(home, hltv, s, sent[s])
    BY <1>1 DEF Owned
  <2> QED BY <2>1, <2>2 DEF Client, Connection, Fits
<1>4. \A u \in Nat : home[u] \in Slot => u < nextId
  <2> SUFFICES ASSUME NEW u \in Nat, home[u] \in Slot PROVE u < nextId
    OBVIOUS
  <2>1. home[u] # -1
    BY SlotsAreNumbers
  <2>2. ~ (u >= nextId)
    BY <1>1, <2>1 DEF Owned
  <2> QED BY <1>2, <2>2
<1>5. \A s \in Slot : clients[s] # None /\ sent[s] # None /\ clients[s].user_id = sent[s].user_id =>
              (IsPlayer(clients[s]) <=> IsPlayer(sent[s]))
  BY <1>1 DEF Owned, Fits, IsPlayer
<1> QED BY <1>3, <1>4, <1>5

LEMMA ServerNames ==
  ASSUME Ownership, Names, ~ sourcetv, Server
  PROVE  Names'
<1>1. /\ UNCHANGED <<sent, inbox, players>> /\ Base /\ Typed /\ nextId \in Nat /\ clients \in [Slot -> Client]
  BY ServerKeeps, IdsGiven DEF Ownership, Base, Typed, TypedServer
<1>2. nextId' >= nextId
  <2>1. nextId' = nextId \/ nextId' = nextId + 1
    BY DEF Server, SetCvar, Connect, Disconnect, Rename, SetNeoName, Die
  <2> QED BY <1>1, <2>1
<1> DEFINE Queue == \A k \in 1..Len(fired') :
                      /\ fired'[k] \in RenameMsg => fired'[k].fields.userid < nextId'
                      /\ fired'[k] \in ConnectMsg => fired'[k].fields.name = 0
           Shown(s, c) == sent[s] # None /\ sent[s].user_id = c.user_id
           Now(s, c) == IF Shown(s, c) THEN Told(fired', c.user_id, sent[s].name, c.name)
                        ELSE c.name = 0 /\ Unnamed(fired', c.user_id)
<1>3. /\ \A s \in Slot : sent[s] # None => sent[s].user_id < nextId /\ sent[s].user_id \in Nat
      /\ \A s \in Slot : clients[s] # None => clients[s].user_id < nextId /\ clients[s].user_id \in Nat
      /\ \A s, r \in Slot : clients[s] # None /\ clients[r] # None /\ clients[s].user_id = clients[r].user_id =>
           s = r
  BY IdsApart
<1>4. ASSUME Queue, \A s \in Slot : IsPlayer(clients'[s]) => Now(s, clients'[s])
      PROVE  Names'
  <2>1. \A s \in Slot : IsPlayer(clients'[s]) => (InGame(s)' <=> Shown(s, clients'[s]))
    BY <1>1 DEF InGame, IsPlayer
  <2>2. Known' = Known
    BY <1>1 DEF Known
  <2>3. \A s \in Slot : IsPlayer(sent[s]) =>
       /\ \A p \in players : p.user_id = sent[s].user_id => Told(inbox, p.user_id, p.name, sent[s].name)
       /\ sent[s].user_id \notin Known =>
            /\ Unnamed(inbox, sent[s].user_id)
            /\ \A k \in 1..Len(inbox) :
                 inbox[k] \in ConnectMsg /\ inbox[k].fields.userid = sent[s].user_id =>
                   inbox[k].fields.name = sent[s].name
    BY DEF Names
  <2>4. \A s \in Slot : /\ IsPlayer(clients[s])' <=> IsPlayer(clients'[s])
                        /\ IsPlayer(sent[s])' <=> IsPlayer(sent[s])
    BY <1>1 DEF IsPlayer
  <2>5. \A s \in Slot : IsPlayer(clients'[s]) =>
       IF InGame(s)' THEN Told(fired', clients'[s].user_id, sent'[s].name, clients'[s].name)
       ELSE clients'[s].name = 0 /\ Unnamed(fired', clients'[s].user_id)
    BY <1>1, <1>4, <2>1
  <2>6. (\A u, x, y : Told(inbox, u, x, y)' <=> Told(inbox, u, x, y)) /\ \A u : Unnamed(inbox, u)' <=> Unnamed(inbox, u)
    BY <1>1 DEF Told, Unnamed, LastRename
  <2> QED BY <1>1, <1>4, <2>2, <2>3, <2>4, <2>5, <2>6 DEF Names, Told, Unnamed, LastRename
<1>5. \A s \in Slot : IsPlayer(clients[s]) =>
        IF Shown(s, clients[s]) THEN Told(fired, clients[s].user_id, sent[s].name, clients[s].name)
        ELSE clients[s].name = 0 /\ Unnamed(fired, clients[s].user_id)
  BY DEF Names, InGame
<1>6. ASSUME NEW m \in QueueMsg, fired' = Append(fired, m),
             m \in RenameMsg => m.fields.userid < nextId', m \in ConnectMsg => m.fields.name = 0
      PROVE  Queue
  <2> SUFFICES ASSUME NEW k \in 1..Len(fired')
               PROVE  /\ fired'[k] \in RenameMsg => fired'[k].fields.userid < nextId'
                      /\ fired'[k] \in ConnectMsg => fired'[k].fields.name = 0
    OBVIOUS
  <2>1. (k \in 1..Len(fired) /\ fired'[k] = fired[k]) \/ fired'[k] = m
    BY <1>1, <1>6, Queued
  <2>2. CASE fired'[k] = m
    BY <1>6, <2>2
  <2>3. CASE k \in 1..Len(fired) /\ fired'[k] = fired[k]
    <3>1. nextId' \in Nat /\ (fired[k] \in RenameMsg => fired[k].fields.userid \in Nat)
      BY OwnershipStep DEF Ownership, Base, Typed, TypedCounts, RenameMsg, Renamed, Next
    <3> QED BY <1>1, <1>2, <2>3, <3>1 DEF Names
  <2> QED BY <2>1, <2>2, <2>3
<1>7. fired' = fired => Queue
  <2> SUFFICES ASSUME fired' = fired, NEW k \in 1..Len(fired)
               PROVE  /\ fired[k] \in RenameMsg => fired[k].fields.userid < nextId'
                      /\ fired[k] \in ConnectMsg => fired[k].fields.name = 0
    OBVIOUS
  <2>1. nextId' \in Nat /\ (fired[k] \in RenameMsg => fired[k].fields.userid \in Nat)
    BY OwnershipStep DEF Ownership, Base, Typed, TypedCounts, RenameMsg, Renamed, Next
  <2> QED BY <1>1, <1>2, <2>1 DEF Names
<1>8. ASSUME NEW m \in QueueMsg, fired' = Append(fired, m), NEW s \in Slot, IsPlayer(clients[s]),
             ~ RenameOf(m, clients[s].user_id)
      PROVE  Now(s, clients[s])
  BY <1>1, <1>5, <1>8, ToldQueued
<1> HIDE DEF Queue, Now
<1>9. ASSUME NEW s \in Slot, NEW m \in ConnectMsg, NEW c \in Connection,
              clients' = [clients EXCEPT ![s] = c], c.user_id = nextId, c.name = 0, nextId' = nextId + 1,
              m.fields.name = 0, fired' = Append(fired, m)
       PROVE  Names'
  <2>1. m \in QueueMsg /\ m \notin RenameMsg /\ (\A u : ~ RenameOf(m, u))
    BY KindsApart DEF RenameOf
  <2>2. Queue
    BY <1>6, <1>9, <2>1
  <2>3. ASSUME NEW r \in Slot, IsPlayer(clients'[r])
        PROVE  Now(r, clients'[r])
    <3>1. CASE r = s
      <4>1. clients'[r] = c
        BY <1>1, <1>9, <3>1
      <4>2. ~ Shown(r, c)
        BY <1>1, <1>3, <1>9
      <4>3. Unnamed(fired, nextId)
        <5> SUFFICES ASSUME NEW k \in 1..Len(fired), RenameOf(fired[k], nextId) PROVE FALSE
          BY DEF Unnamed
        <5> QED BY <1>1 DEF RenameOf, Names
      <4>4. Unnamed(fired', nextId)
        BY <1>1, <1>9, <2>1, <4>3, ToldQueued
      <4> QED BY <1>9, <4>1, <4>2, <4>4 DEF Now
    <3>2. CASE r # s
      <4>1. clients'[r] = clients[r]
        BY <1>1, <1>9, <3>2
      <4> QED BY <1>8, <1>9, <2>1, <2>3, <4>1
    <3> QED BY <3>1, <3>2
  <2> QED BY <1>4, <2>2, <2>3
<1>10. ASSUME NEW s \in Slot, clients' = [clients EXCEPT ![s] = None], fired' = fired
       PROVE  Names'
  <2>1. ASSUME NEW r \in Slot, IsPlayer(clients'[r])
        PROVE  Now(r, clients'[r])
    <3>1. clients'[r] = clients[r]
      BY <1>1, <1>10, <2>1 DEF IsPlayer
    <3> QED BY <1>5, <1>10, <2>1, <3>1 DEF Now
  <2> QED BY <1>4, <1>7, <1>10, <2>1
<1>11. ASSUME NEW s \in Slot, NEW m \in RenameMsg, NEW c \in Connection, InGame(s),
              clients' = [clients EXCEPT ![s] = c], c.user_id = clients[s].user_id,
              m.fields.userid = c.user_id, m.fields.newname = c.name, fired' = Append(fired, m)
       PROVE  Names'
  <2>1. m \in QueueMsg /\ m \notin ConnectMsg
    BY KindsApart
  <2>2. clients[s] # None /\ Shown(s, c)
    BY <1>11 DEF InGame, IsPlayer
  <2>3. Queue
    <3>1. c.user_id < nextId' /\ c.user_id \in Nat
      <4>1. nextId' \in Nat
        BY OwnershipStep DEF Ownership, Base, Typed, TypedCounts, Next
      <4> QED BY <1>1, <1>2, <1>3, <1>11, <2>2, <4>1
    <3> QED BY <1>6, <1>11, <2>1, <3>1
  <2>4. ASSUME NEW r \in Slot, IsPlayer(clients'[r])
        PROVE  Now(r, clients'[r])
    <3>1. CASE r = s
      <4>1. clients'[r] = c
        BY <1>1, <1>11, <3>1
      <4>2. /\ Len(fired) \in Nat /\ Len(fired') = Len(fired) + 1 /\ fired'[Len(fired) + 1] = m
        BY <1>1, <1>11, <2>1, Queued
      <4>3. RenameOf(fired'[Len(fired) + 1], c.user_id) /\ Len(fired) + 1 \in 1..Len(fired')
        BY <1>11, <4>2 DEF RenameOf
      <4>4. ASSUME NEW k \in 1..Len(fired'), LastRename(fired', k, c.user_id)
            PROVE  fired'[k].fields.newname = c.name
        <5>1. ~ (Len(fired) + 1 \in (k + 1)..Len(fired'))
          BY <4>3, <4>4 DEF LastRename
        <5>2. k = Len(fired) + 1
          BY <4>2, <5>1
        <5> QED BY <1>11, <4>2, <5>2
      <4>5. Told(fired', c.user_id, sent[r].name, c.name)
        BY <4>3, <4>4 DEF Told
      <4> QED BY <2>2, <3>1, <4>1, <4>5 DEF Now
    <3>2. CASE r # s
      <4>1. clients'[r] = clients[r] /\ clients[r] # None
        BY <1>1, <1>11, <2>4, <3>2 DEF IsPlayer
      <4>2. clients[r].user_id # c.user_id
        BY <1>3, <1>11, <2>2, <3>2, <4>1
      <4>3. ~ RenameOf(m, clients[r].user_id)
        BY <1>11, <4>2 DEF RenameOf
      <4> QED BY <1>8, <1>11, <2>1, <2>4, <4>1, <4>3
    <3> QED BY <3>1, <3>2
  <2> QED BY <1>4, <2>3, <2>4
<1>12. ASSUME clients' = clients, NEW m \in DeathMsg \cup ConvarMsg, fired' = Append(fired, m)
       PROVE  Names'
  <2>1. m \in QueueMsg /\ m \notin ConnectMsg /\ m \notin RenameMsg /\ (\A u : ~ RenameOf(m, u))
    BY KindsApart DEF RenameOf
  <2>2. Queue
    BY <1>6, <1>12, <2>1
  <2>3. \A s \in Slot : IsPlayer(clients'[s]) => Now(s, clients'[s])
    BY <1>8, <1>12, <2>1
  <2> QED BY <1>4, <2>2, <2>3
<1>13. ASSUME clients' = clients, fired' = fired
       PROVE  Names'
  <2>1. \A s \in Slot : IsPlayer(clients'[s]) => Now(s, clients'[s])
    BY <1>5, <1>13 DEF Now
  <2> QED BY <1>4, <1>7, <1>13, <2>1
<1>14. Base /\ Server /\ ~ sourcetv
  BY <1>1
<1>15. CASE \E s \in Slot, m \in ConnectMsg, c \in Connection :
              /\ clients[s] = None /\ clients' = [clients EXCEPT ![s] = c]
              /\ nextId' = nextId + 1 /\ c.user_id = nextId /\ c.name = 0 /\ ~c.is_hltv
              /\ m.fields.userid = nextId /\ m.fields.index = s /\ m.fields.name = 0
              /\ IF sourcetv THEN fired' = fired ELSE fired' = Append(fired, m)
  BY <1>9, <1>14, <1>15
<1>16. CASE \E s \in Slot : clients' = [clients EXCEPT ![s] = None] /\ fired' = fired
  BY <1>10, <1>16
<1>17. CASE \E s \in Slot, m \in RenameMsg, c \in Connection :
              /\ InGame(s) /\ clients' = [clients EXCEPT ![s] = c]
              /\ c.user_id = clients[s].user_id /\ c.name = clients[s].name + 1
              /\ c.is_hltv = clients[s].is_hltv
              /\ m.fields.userid = c.user_id /\ m.fields.newname = c.name
              /\ IF sourcetv THEN fired' = fired ELSE fired' = Append(fired, m)
  BY <1>11, <1>14, <1>17
<1>18. CASE \E s \in Slot, m \in DeathMsg :
              /\ InGame(s) /\ clients' = clients /\ fired' = Append(fired, m)
              /\ m.fields.userid = clients[s].user_id /\ m.fields.assists = 0
              /\ m.fields.attacker = 0 \/ \E r \in Slot : InGame(r) /\ m.fields.attacker = clients[r].user_id
  BY <1>12, <1>18
<1>19. CASE clients' = clients /\ (fired' = fired \/ \E m \in ConvarMsg : fired' = Append(fired, m))
  BY <1>12, <1>13, <1>19
<1> QED BY <1>14, <1>15, <1>16, <1>17, <1>18, <1>19, ServerEffect, Zenon

LEMMA NothingTold ==
  ASSUME NEW u, NEW before, NEW now
  PROVE  /\ Told(<<>>, u, before, now) <=> before = now
         /\ Unnamed(<<>>, u)
BY DEF Told, Unnamed

LEMMA RecordDumpNames ==
  ASSUME Ownership, RecordDump
  PROVE  Names'
<1>1. /\ sent' = clients /\ fired' = <<>> /\ inbox' = <<>> /\ clients' = clients
  BY DEF RecordDump, reading, Ownership, Base, Frames
<1>2. Base
  BY DEF Ownership
<1>3. ASSUME NEW s \in Slot, IsPlayer(clients[s]), NEW q \in players', q.user_id = clients[s].user_id
      PROVE  q.name = clients[s].name
  <2>1. PICK r \in Slot : IsPlayer(clients[r]) /\ q = Seat(r, clients[r], 0)
    BY <1>2, DumpRead
  <2>2. r = s
    BY <1>3, <2>1, IdsApart DEF Seat, IsPlayer
  <2> QED BY <2>1, <2>2 DEF Seat
<1>4. \A s \in Slot : IsPlayer(clients[s]) => clients[s].user_id \in Known'
  <2> SUFFICES ASSUME NEW s \in Slot, IsPlayer(clients[s]) PROVE clients[s].user_id \in Known'
    OBVIOUS
  <2>1. Seat(s, clients[s], 0) \in players'
    BY <1>2, DumpRead
  <2>2. Seat(s, clients[s], 0).user_id = clients[s].user_id
    BY DEF Seat
  <2> QED BY <2>1, <2>2 DEF Known
<1>5. \A k \in 1..Len(<<>>) : FALSE
  OBVIOUS
<1>6. \A s \in Slot : IsPlayer(clients'[s]) =>
       IF InGame(s)' THEN Told(fired', clients'[s].user_id, sent'[s].name, clients'[s].name)
       ELSE clients'[s].name = 0 /\ Unnamed(fired', clients'[s].user_id)
  BY <1>1, NothingTold DEF InGame, IsPlayer
<1>7. \A s \in Slot : IsPlayer(sent'[s]) =>
       /\ \A p \in players' : p.user_id = sent'[s].user_id => Told(inbox', p.user_id, p.name, sent'[s].name)
       /\ sent'[s].user_id \in Known'
  BY <1>1, <1>3, <1>4, NothingTold
<1> QED BY <1>1, <1>5, <1>6, <1>7 DEF Names, Told, Unnamed, LastRename, IsPlayer

LEMMA RecordPacketNames ==
  ASSUME Ownership, Whole, Names, RecordPacket, warnings' = warnings
  PROVE  Names'
<1> DEFINE U == Update
<1>1. /\ sent' = clients /\ fired' = <<>> /\ clients' = clients /\ players' = players
      /\ inbox = <<>> /\ stage = "packets" /\ warnings \in Nat
  BY PacketKeeps DEF Ownership, Base, Typed, TypedCounts
<1>2. Base /\ Typed /\ Everyone /\ Fresh
  BY DEF Ownership, Base, Whole
<1>3. fired \in Seq(PacketMsg) /\ U \in Seq(PacketMsg)
  <2>1. fired \in Seq(QueueMsg) /\ U \in Seq(UpdateMsg) /\ QueueMsg \subseteq PacketMsg /\ UpdateMsg \subseteq PacketMsg
    BY <1>2, UpdateRead DEF Typed, TypedServer, PacketMsg
  <2> HIDE DEF U
  <2> QED BY <2>1
<1>4. \A k \in 1..Len(U) : U[k] \notin ConnectMsg /\ U[k] \notin RenameMsg
  <2>1. U \in Seq(UpdateMsg)
    BY <1>2, UpdateRead
  <2> HIDE DEF U
  <2> QED BY <2>1, KindsApart
<1>5. inbox' = fired \o U \/ inbox' = U \o fired
  BY <1>1, <1>2, PacketRead
<1>6. \A k \in 1..Len(inbox') : \/ \E j \in 1..Len(fired) : inbox'[k] = fired[j]
                                \/ \E j \in 1..Len(U) : inbox'[k] = U[j]
  BY <1>2, PacketRead
<1> HIDE DEF U
<1>7. \A u : Unnamed(U, u)
  BY <1>4 DEF Unnamed, RenameOf
<1>8. ASSUME NEW u, NEW before, NEW now, Told(fired, u, before, now)
      PROVE  Told(inbox', u, before, now)
  BY <1>3, <1>5, <1>7, <1>8, ToldBefore, ToldAfter
<1>9. \A u : Unnamed(fired, u) => Unnamed(inbox', u)
  BY <1>6, <1>7 DEF Unnamed
<1>10. ASSUME NEW s \in Slot, IsPlayer(clients[s]), NEW p \in players, p.user_id = clients[s].user_id
       PROVE  Told(inbox', p.user_id, p.name, clients[s].name)
  <2>1. InGame(s)
    <3>1. p.user_id \in Nat
      BY IdsGiven
    <3> QED BY <1>1, <1>2, <1>10, <3>1 DEF Fresh, Newer
  <2>2. sent[s].user_id = clients[s].user_id /\ IsPlayer(sent[s])
    BY <1>10, <2>1, IdsApart DEF InGame, IsPlayer
  <2>3. p.name = sent[s].name
    <3>1. Told(inbox, p.user_id, p.name, sent[s].name)
      BY <1>10, <2>2 DEF Names
    <3> QED BY <1>1, <3>1, NothingTold
  <2>4. Told(fired, p.user_id, sent[s].name, clients[s].name)
    BY <1>10, <2>1 DEF Names
  <2> QED BY <1>8, <2>3, <2>4
<1>11. ASSUME NEW s \in Slot, IsPlayer(clients[s]), clients[s].user_id \notin Known
       PROVE  /\ Unnamed(inbox', clients[s].user_id)
              /\ \A k \in 1..Len(inbox') :
                   inbox'[k] \in ConnectMsg /\ inbox'[k].fields.userid = clients[s].user_id =>
                     inbox'[k].fields.name = clients[s].name
  <2>1. ~ InGame(s)
    BY <1>1, <1>2, <1>11, InGameKnown
  <2>2. clients[s].name = 0 /\ Unnamed(fired, clients[s].user_id)
    BY <1>11, <2>1 DEF Names
  <2>3. \A k \in 1..Len(inbox') : inbox'[k] \in ConnectMsg => inbox'[k].fields.name = 0
    BY <1>4, <1>6 DEF Names
  <2> QED BY <1>9, <2>2, <2>3
<1>12. \A k \in 1..Len(fired') : FALSE
  BY <1>1
<1>13. \A s \in Slot : IsPlayer(clients[s]) => InGame(s)'
  BY <1>1 DEF InGame, IsPlayer
<1>14. \A s \in Slot : IsPlayer(clients[s]) => Told(fired', clients[s].user_id, clients[s].name, clients[s].name)
  BY <1>1, NothingTold
<1>15. Known' = Known
  BY <1>1 DEF Known
<1> QED BY <1>1, <1>10, <1>11, <1>12, <1>13, <1>14, <1>15 DEF Names, Told, Unnamed, LastRename, IsPlayer

\* A message leaves a row its name, but for a rename of its player; a row it
\* brings has the name of the connect event or of the update.
LEMMA RowNames ==
  ASSUME Base, OnFrame, warnings' = warnings, NEW q \in players'
  PROVE  \/ \E p \in players :
              /\ p.user_id = q.user_id
              /\ q.name = IF RenameOf(inbox[1], p.user_id) THEN inbox[1].fields.newname ELSE p.name
         \/ Arrives(q)
<1> DEFINE m == inbox[1]
           Kept == \E p \in players :
                     /\ p.user_id = q.user_id
                     /\ q.name = IF RenameOf(m, p.user_id) THEN m.fields.newname ELSE p.name
<1>0. Head(inbox) = m /\ warnings \in Nat
  BY Left DEF Base, Typed, TypedCounts
<1>1. ASSUME m \notin RenameMsg, q \in players
      PROVE  Kept
  BY <1>1 DEF RenameOf
<1>2. CASE TakeGameEvent
  <2>1. /\ m \in EventMsg
        /\ \/ m.id = 3 /\ players' = players
           \/ m.id = 5 /\ m.fields \in Connected
              /\ players' = players \cup
                   IF m.fields.userid \in Known THEN {}
                   ELSE {[entity_id |-> m.fields.index + 1, user_id |-> m.fields.userid,
                          name |-> m.fields.name, first_seen_tick |-> tick]}
           \/ m.id = 8 /\ m.fields \in Renamed
              /\ players' = {IF p.user_id = m.fields.userid THEN [p EXCEPT !.name = m.fields.newname] ELSE p :
                               p \in players}
    BY <1>0, <1>2, EventTaken
  <2>2. m \in RenameMsg <=> m.id = 8
    BY <2>1 DEF EventMsg, ConnectMsg, RenameMsg, DeathMsg
  <2>3. CASE m.id # 8
    <3>1. q \in players => Kept
      BY <1>1, <2>2, <2>3
    <3>2. q \in players \/ Arrives(q)
      <4>1. CASE q \in players
        BY <4>1
      <4>2. CASE q \notin players
        <5>1. ~ \E p \in players : p.user_id = q.user_id
          <6>1. m.id = 5 /\ m.fields.userid \notin Known /\ q.user_id = m.fields.userid
            BY <2>1, <2>3, <4>2
          <6> QED BY <6>1 DEF Known
        <5> QED BY <5>1, RosterStep DEF SameSeat
      <4> QED BY <4>1, <4>2
    <3> QED BY <3>1, <3>2
  <2>4. CASE m.id = 8
    <3>1. players' = {IF p.user_id = m.fields.userid THEN [p EXCEPT !.name = m.fields.newname] ELSE p : p \in players}
      BY <2>1, <2>4
    <3>2. PICK p \in players : q = IF p.user_id = m.fields.userid THEN [p EXCEPT !.name = m.fields.newname] ELSE p
      BY <3>1
    <3>3. p \in Player
      BY DEF Base, Typed, TypedPass
    <3>4. q.user_id = p.user_id /\ q.name = IF p.user_id = m.fields.userid THEN m.fields.newname ELSE p.name
      BY <3>2, <3>3 DEF Player
    <3> QED BY <2>2, <2>4, <3>4 DEF RenameOf
  <2> QED BY <2>3, <2>4
<1>3. CASE ~ TakeGameEvent
  <2>1. m \notin RenameMsg
    <3>1. m.type # "game_event"
      BY <1>0, <1>3 DEF OnFrame, TakeServerInfo, TakeSetConVar, TakeEventList, TakeCreateTable, TakeUpdateTable,
                        Take
    <3> QED BY <3>1 DEF RenameMsg
  <2>2. CASE q \in players
    BY <1>1, <2>1, <2>2
  <2>3. CASE q \notin players
    <3>1. TakeUpdateTable
      BY <1>3, <2>3 DEF OnFrame, TakeServerInfo, TakeSetConVar, TakeEventList, TakeCreateTable, pass
    <3>2. PICK s \in Arriving : q = Seat(s, sent[s], tick)
      BY <2>3, <3>1, UpdateTaken
    <3>3. sent[s].user_id \notin Known /\ q.user_id = sent[s].user_id
      BY <3>2 DEF Arriving, Seat
    <3>4. ~ \E p \in players : p.user_id = q.user_id
      BY <3>3 DEF Known
    <3> QED BY <3>4, RosterStep DEF SameSeat
  <2> QED BY <2>2, <2>3
<1> QED BY <1>2, <1>3

LEMMA OnFrameNames ==
  ASSUME Ownership, Names, OnFrame, stage = "packets", warnings' = warnings
  PROVE  Names'
<1> DEFINE m == inbox[1]
<1>1. /\ Base /\ clients = sent /\ fired = <<>> /\ inbox \in Seq(PacketMsg)
      /\ UNCHANGED <<clients, sent, fired, tick>>
      /\ 1 \in 1..Len(inbox) /\ Len(inbox) \in Nat /\ Len(inbox') = Len(inbox) - 1
      /\ \A k \in 1..Len(inbox') : k + 1 \in 1..Len(inbox) /\ inbox'[k] = inbox[k + 1]
      /\ Known \subseteq Known'
  BY PacketBeingRead, Left, KnownGrows DEF Ownership
<1>2. ASSUME NEW u, NEW before, NEW now, Told(inbox, u, before, now)
      PROVE  Told(inbox', u, IF RenameOf(m, u) THEN m.fields.newname ELSE before, now)
  <2>1. ASSUME NEW k \in 1..Len(inbox'), LastRename(inbox', k, u)
        PROVE  inbox'[k].fields.newname = now
    <3>1. \A j \in (k + 2)..Len(inbox) : /\ j - 1 \in (k + 1)..Len(inbox') /\ j - 1 \in 1..Len(inbox')
                                         /\ (j - 1) + 1 = j
      BY <1>1
    <3>2. \A j \in (k + 2)..Len(inbox) : inbox'[j - 1] = inbox[j]
      BY <1>1, <3>1
    <3>3. k + 1 \in 1..Len(inbox) /\ inbox'[k] = inbox[k + 1] /\ (k + 1) + 1 = k + 2
      BY <1>1
    <3>4. LastRename(inbox, k + 1, u)
      BY <2>1, <3>1, <3>2, <3>3 DEF LastRename
    <3> QED BY <1>2, <3>3, <3>4 DEF Told
  <2>2. ASSUME Unnamed(inbox', u)
        PROVE  now = IF RenameOf(m, u) THEN m.fields.newname ELSE before
    <3>1. \A j \in 2..Len(inbox) : ~ RenameOf(inbox[j], u)
      <4> SUFFICES ASSUME NEW j \in 2..Len(inbox) PROVE ~ RenameOf(inbox[j], u)
        OBVIOUS
      <4>1. j - 1 \in 1..Len(inbox') /\ (j - 1) + 1 = j
        BY <1>1
      <4>2. inbox'[j - 1] = inbox[j]
        BY <1>1, <4>1
      <4> QED BY <2>2, <4>1, <4>2 DEF Unnamed
    <3>2. CASE RenameOf(m, u)
      <4>1. LastRename(inbox, 1, u)
        BY <3>1, <3>2 DEF LastRename
      <4> QED BY <1>1, <1>2, <3>2, <4>1 DEF Told
    <3>3. CASE ~ RenameOf(m, u)
      <4>1. \A j \in 1..Len(inbox) : j = 1 \/ j \in 2..Len(inbox)
        BY <1>1
      <4> QED BY <1>2, <3>1, <3>3, <4>1 DEF Told
    <3> QED BY <3>2, <3>3
  <2> QED BY <2>1, <2>2 DEF Told, Unnamed
<1>3. ASSUME NEW s \in Slot, IsPlayer(sent[s]), NEW q \in players', q.user_id = sent[s].user_id
      PROVE  Told(inbox', q.user_id, q.name, sent[s].name)
  <2>1. ASSUME NEW p \in players, p.user_id = q.user_id,
               q.name = IF RenameOf(m, p.user_id) THEN m.fields.newname ELSE p.name
        PROVE  Told(inbox', q.user_id, q.name, sent[s].name)
    <3>1. Told(inbox, p.user_id, p.name, sent[s].name)
      BY <1>3, <2>1 DEF Names
    <3> QED BY <1>2, <2>1, <3>1
  <2>2. CASE Arrives(q)
    <3>1. /\ Unnamed(inbox, sent[s].user_id)
          /\ m \in ConnectMsg /\ m.fields.userid = sent[s].user_id => m.fields.name = sent[s].name
      BY <1>1, <1>3, <2>2 DEF Names, Arrives
    <3>2. q.name = sent[s].name
      <4>1. ASSUME NEW r \in Slot, IsPlayer(sent[r]), q = Seat(r, sent[r], tick)
            PROVE  q.name = sent[s].name
        <5>1. r = s
          BY <1>3, <4>1, IdsApart DEF Seat, IsPlayer
        <5> QED BY <4>1, <5>1 DEF Seat
      <4> QED BY <1>3, <2>2, <3>1, <4>1 DEF Arrives
    <3>3. Unnamed(inbox', sent[s].user_id)
      BY <1>1, <3>1 DEF Unnamed
    <3> QED BY <1>3, <3>2, <3>3 DEF Told, Unnamed, LastRename
  <2> QED BY <1>1, <2>1, <2>2, RowNames
<1>4. ASSUME NEW s \in Slot, IsPlayer(sent[s]), sent[s].user_id \notin Known'
      PROVE  /\ Unnamed(inbox', sent[s].user_id)
             /\ \A k \in 1..Len(inbox') :
                  inbox'[k] \in ConnectMsg /\ inbox'[k].fields.userid = sent[s].user_id =>
                    inbox'[k].fields.name = sent[s].name
  <2>1. /\ Unnamed(inbox, sent[s].user_id)
        /\ \A k \in 1..Len(inbox) :
             inbox[k] \in ConnectMsg /\ inbox[k].fields.userid = sent[s].user_id =>
               inbox[k].fields.name = sent[s].name
    BY <1>1, <1>4 DEF Names
  <2> QED BY <1>1, <2>1 DEF Unnamed
<1>5. \A k \in 1..Len(fired') : FALSE
  BY <1>1
<1>6. \A s \in Slot : IsPlayer(clients[s]) => InGame(s)'
  BY <1>1 DEF InGame, IsPlayer
<1>7. \A s \in Slot : IsPlayer(clients[s]) => Told(fired', clients[s].user_id, clients[s].name, clients[s].name)
  BY <1>1, NothingTold
<1> QED BY <1>1, <1>3, <1>4, <1>5, <1>6, <1>7 DEF Names, Told, Unnamed, LastRename, IsPlayer

Named == Wholly /\ (warnings = 0 /\ ~ sourcetv /\ stage = "packets" => Names)

LEMMA NamedStep == ASSUME Named, [Next]_vars PROVE Named'
<1>1. Wholly /\ Wholly' /\ Ownership /\ Base
  BY WhollyStep DEF Named, Wholly, Ownership
<1> SUFFICES ASSUME warnings' = 0, ~ sourcetv', stage' = "packets" PROVE Names'
  BY <1>1 DEF Named
<1>2. warnings = 0 /\ Whole
  BY <1>1, WarningsGrow DEF Wholly
<1>3. CASE Server
  <2>1. stage = "packets" /\ ~ sourcetv
    BY <1>3, ServerKeeps
  <2> QED BY <1>1, <1>2, <1>3, <2>1, ServerNames DEF Named
<1>4. CASE RecordSignon
  BY <1>4 DEF RecordSignon
<1>5. CASE RecordDump
  BY <1>1, <1>5, RecordDumpNames
<1>6. CASE RecordPacket
  <2>1. stage = "packets" /\ sourcetv' = sourcetv
    BY <1>1, <1>6, PacketKeeps
  <2>2. ~ sourcetv
    BY <2>1
  <2> QED BY <1>1, <1>2, <1>6, <2>1, <2>2, RecordPacketNames DEF Named
<1>7. CASE OnFrame
  <2>1. stage' = stage /\ sourcetv' = sourcetv
    BY <1>1, <1>7, Left
  <2>2. stage = "packets" /\ ~ sourcetv
    BY <2>1
  <2> QED BY <1>1, <1>2, <1>7, <2>2, OnFrameNames DEF Named
<1>8. CASE UNCHANGED vars
  <2>1. UNCHANGED <<sourcetv, clients, sent, fired, nextId, stage, inbox, players, warnings>>
    BY <1>8 DEF vars, server, reading, pass
  <2>2. Names
    BY <1>2, <2>1 DEF Named
  <2> QED BY <2>1, <2>2 DEF Names, Told, Unnamed, LastRename, InGame, IsPlayer, Known
<1> QED BY <1>3, <1>4, <1>5, <1>6, <1>7, <1>8 DEF Next

LEMMA NamedInductive == Spec => []Named
<1>1. Init => Named
  <2>1. Init => stage = "signon"
    BY DEF Init
  <2> QED BY <2>1, InitWholly DEF Named
<1> QED BY <1>1, NamedStep, PTL DEF Spec

\* Whichever frames could be read, a roster row has its connection's slot and is
\* not the proxy's; if all could be, it does not begin after a packet its player
\* was in; and in a client's recording it then has the name its player was last
\* shown with, whatever was renamed in between and in whichever order the packet
\* had the renames, the connect event and the update.
THEOREM RowsAreTheirConnections == Spec => []RowsAreConnections
<1>1. Named => RowsAreConnections
  <2> SUFFICES ASSUME Named, inbox = <<>> PROVE
        /\ \A p \in players : \A i \in 1..Len(truth), s \in Slot :
             LET c == truth[i].clients[s]
             IN c # None /\ c.user_id = p.user_id =>
                  /\ p.entity_id = s + 1 /\ ~c.is_hltv
                  /\ warnings = 0 => p.first_seen_tick <= truth[i].tick
        /\ warnings = 0 /\ ~sourcetv => NamesOfPresent
    BY DEF RowsAreConnections
  <2>1. Ownership /\ Base /\ Typed /\ (warnings = 0 => Seen)
    BY DEF Named, Wholly, Whole, Ownership, Base
  <2>2. PICK home \in Homes, hltv \in SUBSET Nat : Owned(home, hltv)
    BY <2>1 DEF Ownership, OneOwner
  <2>3. ASSUME NEW p \in players, NEW i \in 1..Len(truth), NEW s \in Slot,
               truth[i].clients[s] # None, truth[i].clients[s].user_id = p.user_id
        PROVE  /\ p.entity_id = s + 1 /\ ~ truth[i].clients[s].is_hltv
               /\ warnings = 0 => p.first_seen_tick <= truth[i].tick
    <3>1. Fits(home, hltv, s, truth[i].clients[s]) /\ Rostered(home, hltv, p)
      BY <2>2 DEF Owned
    <3>2. p.entity_id = s + 1 /\ ~ truth[i].clients[s].is_hltv
      <4>1. truth[i].clients[s] \in Connection
        BY <2>1, <2>3, ShownTyped DEF Client
      <4>2. truth[i].clients[s].is_hltv \in BOOLEAN
        BY <4>1 DEF Connection
      <4> QED BY <2>3, <3>1, <4>2 DEF Fits, Rostered
    <3> QED BY <2>1, <2>3, <3>2 DEF Seen
  <2>4. ASSUME warnings = 0, ~ sourcetv, NEW p \in players, NEW s \in Slot,
               Present[s] # None, Present[s].user_id = p.user_id
        PROVE  p.name = Present[s].name
    <3>1. truth # <<>>
      BY <2>4 DEF Present
    <3>2. stage = "packets" /\ Present = sent
      BY <2>1, <3>1 DEF Present, Base, Frames
    <3>3. Names
      BY <2>4, <3>2 DEF Named
    <3>4. IsPlayer(sent[s])
      <4>1. Fits(home, hltv, s, sent[s]) /\ Rostered(home, hltv, p)
        BY <2>2 DEF Owned
      <4> QED BY <2>4, <3>2, <4>1 DEF Fits, Rostered, IsPlayer
    <3>5. Told(inbox, p.user_id, p.name, sent[s].name)
      BY <2>4, <3>2, <3>3, <3>4 DEF Names
    <3> QED BY <3>2, <3>5, NothingTold
  <2> QED BY <2>3, <2>4 DEF NamesOfPresent
<1> QED BY <1>1, NamedInductive, PTL
-----------------------------------------------------------------------------
(* Convars                                                                 *)

Sets(m) == m \in ConvarMsg /\ m.name = "sv_rounds"

LastSet(q, k) == Sets(q[k]) /\ \A j \in (k + 1)..Len(q) : ~ Sets(q[j])
Unset(q) == \A k \in 1..Len(q) : ~ Sets(q[k])

\* The messages in q lead the convar from one value to another.
Leads(q, before, now) ==
  /\ \A k \in 1..Len(q) : LastSet(q, k) => q[k].value = now
  /\ Unset(q) => before = now

\* The value in the last packet, or in the signon.
served == IF truth = <<>> THEN 0 ELSE truth[Len(truth)].cvar

IsRow(j) == cvars[j].name = "sv_rounds"

\* The value of the last row; no value is negative.
CvarIs(v) ==
  \/ v = -1 /\ \A j \in 1..Len(cvars) : ~ IsRow(j)
  \/ \E j \in 1..Len(cvars) : IsRow(j) /\ cvars[j].value = v /\ \A k \in (j + 1)..Len(cvars) : ~ IsRow(k)

RowServed(i) ==
  \E j \in 1..Len(cvars) : /\ IsRow(j) /\ cvars[j].tick <= truth[i].tick /\ cvars[j].value = truth[i].cvar
                           /\ \A k \in (j + 1)..Len(cvars) : IsRow(k) => cvars[k].tick > truth[i].tick

RowsInOrder ==
  /\ \A i, j \in 1..Len(cvars) : i <= j => cvars[i].tick <= cvars[j].tick
  /\ \A i \in 1..Len(cvars) : cvars[i].tick <= tick
  /\ \A i, j \in 1..Len(cvars) : cvars[i].name = cvars[j].name /\ cvars[i].tick = cvars[j].tick => i = j

\* The values queued lead from the one last served to the server's, those to be
\* read from the last row to the one last served, and the packets before the
\* last have their rows.
Served ==
  /\ Leads(fired, served, cvar)
  /\ stage = "signon" => cvars = <<>>
  /\ stage # "signon" => \E v \in Int : CvarIs(v) /\ Leads(inbox, v, served)
  /\ \A i \in 1..(Len(truth) - 1) : RowServed(i)

LEMMA LeadsAlone ==
  ASSUME NEW a \in Seq(PacketMsg), NEW b \in Seq(PacketMsg), NEW before, NEW now,
         Leads(a, before, now), Unset(b)
  PROVE  Leads(a \o b, before, now) /\ Leads(b \o a, before, now)
<1>1. ASSUME NEW x \in Seq(PacketMsg), NEW y \in Seq(PacketMsg), NEW n \in Nat, Len(x) = n
      PROVE  /\ \A i \in 1..n : i \in 1..Len(x \o y) /\ (x \o y)[i] = x[i]
             /\ \A i \in 1..Len(y) : n + i \in 1..Len(x \o y) /\ (x \o y)[n + i] = y[i]
             /\ \A k \in 1..Len(x \o y) : k \in 1..n \/ k - n \in 1..Len(y)
  <2> DEFINE c == x \o y
  <2>1. /\ Len(c) = n + Len(y) /\ Len(y) \in Nat
        /\ \A i \in 1..(n + Len(y)) : c[i] = IF i <= n THEN x[i] ELSE y[i - n]
    <3>1. /\ Len(c) = Len(x) + Len(y) /\ Len(y) \in Nat
          /\ \A i \in 1..(Len(x) + Len(y)) : c[i] = IF i <= Len(x) THEN x[i] ELSE y[i - Len(x)]
      BY Concat
    <3> HIDE DEF c
    <3> QED BY <1>1, <3>1
  <2> HIDE DEF c
  <2>2. ASSUME NEW i \in 1..n PROVE i \in 1..Len(c) /\ c[i] = x[i]
    <3>1. i \in 1..(n + Len(y)) /\ i <= n /\ i \in 1..Len(c)
      BY <2>1
    <3> QED BY <2>1, <3>1
  <2>3. ASSUME NEW i \in 1..Len(y) PROVE n + i \in 1..Len(c) /\ c[n + i] = y[i]
    <3>1. n + i \in 1..Len(c) /\ ~ (n + i <= n) /\ n + i - n = i
      BY <2>1
    <3> QED BY <3>1, <2>1
  <2>4. \A k \in 1..Len(c) : k \in 1..n \/ k - n \in 1..Len(y)
    BY <2>1
  <2> QED BY <2>2, <2>3, <2>4 DEF c
<1>2. ASSUME NEW c, NEW n \in Nat, Len(c) \in Nat, Len(a) \in Nat,
             \A i \in 1..Len(a) : n + i \in 1..Len(c) /\ c[n + i] = a[i],
             \A k \in 1..Len(c) : Sets(c[k]) => k - n \in 1..Len(a)
      PROVE  Leads(c, before, now)
  <2>1. ASSUME NEW k \in 1..Len(c), LastSet(c, k)
        PROVE  c[k].value = now
    <3> DEFINE i == k - n
    <3>1. i \in 1..Len(a) /\ n + i = k
      BY <1>2, <2>1 DEF LastSet
    <3>2. \A j \in (i + 1)..Len(a) : n + j \in (k + 1)..Len(c) /\ j \in 1..Len(a)
      BY <1>2, <3>1
    <3> HIDE DEF i
    <3>3. LastSet(a, i)
      BY <1>2, <2>1, <3>1, <3>2 DEF LastSet
    <3> QED BY <1>2, <3>1, <3>3 DEF Leads
  <2>2. Unset(c) => before = now
    BY <1>2 DEF Unset, Leads
  <2> QED BY <2>1, <2>2 DEF Leads
<1>3. Leads(a \o b, before, now)
  <2> DEFINE c == a \o b
  <2>1. /\ Len(a) \in Nat /\ Len(c) \in Nat
        /\ \A i \in 1..Len(a) : i \in 1..Len(c) /\ c[i] = a[i]
        /\ \A i \in 1..Len(b) : Len(a) + i \in 1..Len(c) /\ c[Len(a) + i] = b[i]
        /\ \A k \in 1..Len(c) : k \in 1..Len(a) \/ k - Len(a) \in 1..Len(b)
    BY <1>1
  <2> HIDE DEF c
  <2>2. ASSUME NEW k \in 1..Len(c), Sets(c[k]) PROVE k \in 1..Len(a)
    <3> SUFFICES ASSUME k - Len(a) \in 1..Len(b) PROVE FALSE
      BY <2>1
    <3>1. c[k] = b[k - Len(a)]
      <4>1. Len(a) + (k - Len(a)) = k
        BY <2>1
      <4> QED BY <2>1, <4>1
    <3> QED BY <2>2, <3>1 DEF Unset
  <2>3. /\ \A i \in 1..Len(a) : 0 + i = i
        /\ \A k \in 1..Len(c) : k - 0 = k
    BY <2>1
  <2>4. Leads(c, before, now)
    BY <1>2, <2>1, <2>2, <2>3
  <2> QED BY <2>4 DEF c
<1>4. Leads(b \o a, before, now)
  <2> DEFINE c == b \o a
  <2>1. /\ Len(a) \in Nat /\ Len(b) \in Nat /\ Len(c) \in Nat
        /\ \A i \in 1..Len(b) : i \in 1..Len(c) /\ c[i] = b[i]
        /\ \A i \in 1..Len(a) : Len(b) + i \in 1..Len(c) /\ c[Len(b) + i] = a[i]
        /\ \A k \in 1..Len(c) : k \in 1..Len(b) \/ k - Len(b) \in 1..Len(a)
    BY <1>1
  <2> HIDE DEF c
  <2>2. \A k \in 1..Len(c) : Sets(c[k]) => k - Len(b) \in 1..Len(a)
    BY <2>1 DEF Unset
  <2>3. Leads(c, before, now)
    BY <1>2, <2>1, <2>2
  <2> QED BY <2>3 DEF c
<1> QED BY <1>3, <1>4

\* A value added to the queue is what it leads to.
LEMMA LeadsQueued ==
  ASSUME Typed, NEW m \in QueueMsg, fired' = Append(fired, m), NEW before, NEW now, Leads(fired, before, now)
  PROVE  /\ ~ Sets(m) => Leads(fired', before, now)
         /\ Sets(m) => Leads(fired', before, m.value)
<1>1. /\ Len(fired') = Len(fired) + 1 /\ Len(fired) \in Nat /\ fired'[Len(fired) + 1] = m
      /\ \A k \in 1..Len(fired) : k \in 1..Len(fired') /\ fired'[k] = fired[k]
      /\ \A k \in 1..Len(fired') : (k \in 1..Len(fired) /\ fired'[k] = fired[k])
                                   \/ (k = Len(fired) + 1 /\ fired'[k] = m)
  BY Queued
<1>2. Len(fired') \in 1..Len(fired')
  BY <1>1
<1>3. CASE Sets(m)
  <2>1. ASSUME NEW k \in 1..Len(fired'), LastSet(fired', k)
        PROVE  fired'[k].value = m.value
    <3>1. k # Len(fired) + 1 => Len(fired') \in (k + 1)..Len(fired')
      BY <1>1
    <3> QED BY <1>1, <1>3, <2>1, <3>1 DEF LastSet
  <2>2. ~ Unset(fired')
    BY <1>1, <1>2, <1>3 DEF Unset
  <2> QED BY <1>3, <2>1, <2>2 DEF Leads
<1>4. CASE ~ Sets(m)
  <2>1. ASSUME NEW k \in 1..Len(fired'), LastSet(fired', k)
        PROVE  fired'[k].value = now
    <3>1. k \in 1..Len(fired) /\ fired'[k] = fired[k]
      BY <1>1, <1>4, <2>1 DEF LastSet
    <3>2. \A j \in (k + 1)..Len(fired) : j \in (k + 1)..Len(fired') /\ j \in 1..Len(fired)
      BY <1>1, <3>1
    <3>3. LastSet(fired, k)
      BY <1>1, <2>1, <3>1, <3>2 DEF LastSet
    <3> QED BY <3>1, <3>3 DEF Leads
  <2>2. Unset(fired') => Unset(fired)
    BY <1>1 DEF Unset
  <2> QED BY <1>4, <2>1, <2>2 DEF Leads
<1> QED BY <1>3, <1>4

\* A message taken of the frame leaves the rest leading to the same value.
LEMMA LeadsLeft ==
  ASSUME Base, OnFrame, NEW before, NEW now, Leads(inbox, before, now)
  PROVE  /\ ~ Sets(Head(inbox)) => Leads(inbox', before, now)
         /\ Sets(Head(inbox)) => Leads(inbox', Head(inbox).value, now)
<1>1. /\ 1 \in 1..Len(inbox) /\ Head(inbox) = inbox[1]
      /\ Len(inbox) \in Nat /\ Len(inbox') = Len(inbox) - 1
      /\ \A k \in 1..Len(inbox') : k + 1 \in 1..Len(inbox) /\ inbox'[k] = inbox[k + 1]
  BY Left
<1>2. ASSUME NEW k \in 1..Len(inbox'), LastSet(inbox', k)
      PROVE  inbox'[k].value = now
  <2>1. \A j \in (k + 2)..Len(inbox) : j - 1 \in (k + 1)..Len(inbox') /\ j - 1 \in 1..Len(inbox') /\ (j - 1) + 1 = j
    BY <1>1
  <2>2. \A j \in (k + 2)..Len(inbox) : inbox'[j - 1] = inbox[j]
    BY <1>1, <2>1
  <2>3. (k + 1) + 1 = k + 2
    BY <1>1
  <2>4. LastSet(inbox, k + 1)
    BY <1>1, <1>2, <2>1, <2>2, <2>3 DEF LastSet
  <2> QED BY <1>1, <2>4 DEF Leads
<1>3. \A j \in 2..Len(inbox) : j - 1 \in 1..Len(inbox') /\ (j - 1) + 1 = j
  BY <1>1
<1>4. \A j \in 2..Len(inbox) : inbox[j] = inbox'[j - 1]
  BY <1>1, <1>3
<1>5. CASE Unset(inbox') /\ ~ Sets(Head(inbox))
  <2>1. \A k \in 1..Len(inbox) : k = 1 \/ k \in 2..Len(inbox)
    BY <1>1
  <2>2. Unset(inbox)
    BY <1>1, <1>3, <1>4, <1>5, <2>1 DEF Unset
  <2> QED BY <1>2, <1>5, <2>2 DEF Leads
<1>6. CASE Unset(inbox') /\ Sets(Head(inbox))
  <2>1. LastSet(inbox, 1)
    BY <1>1, <1>3, <1>4, <1>6 DEF LastSet, Unset
  <2> QED BY <1>1, <1>2, <1>6, <2>1 DEF Leads
<1>7. CASE ~ Unset(inbox')
  BY <1>2, <1>7 DEF Leads
<1> QED BY <1>5, <1>6, <1>7

\* A convar's message has row h of its tick changed, or added.
CvarAt(h) ==
  /\ Len(cvars') \in Nat /\ h \in 1..Len(cvars')
  /\ cvars'[h] = [tick |-> tick, name |-> Head(inbox).name, value |-> Head(inbox).value]
  /\ \A k \in 1..Len(cvars) : k \in 1..Len(cvars') /\ (k # h => cvars'[k] = cvars[k])
  /\ \A k \in 1..Len(cvars') : k # h => k \in 1..Len(cvars)
  /\ h \in 1..Len(cvars) => cvars[h].name = Head(inbox).name /\ cvars[h].tick = tick
  /\ h \notin 1..Len(cvars) => h = Len(cvars) + 1
  /\ \A k \in 1..Len(cvars) : k # h /\ cvars[k].name = Head(inbox).name => cvars[k].tick < tick

LEMMA CvarTaken ==
  ASSUME Base, RowsInOrder, TakeSetConVar
  PROVE  Head(inbox) \in ConvarMsg /\ \E h \in Nat : CvarAt(h)
<1> DEFINE CvarRow == [tick : Nat, name : Convars, value : Nat]
           m == Head(inbox)
           n == Len(cvars)
           row == [tick |-> tick, name |-> m.name, value |-> m.value]
           same == {i \in 1..n : cvars[i].name = m.name /\ cvars[i].tick = tick}
<1>1. Take("set_convar")
  BY DEF TakeSetConVar
<1>2. m \in ConvarMsg
  <2>1. m.type = "set_convar" /\ (m \in PacketMsg \/ m \in SignonMsg)
    BY <1>1, Taken
  <2> QED BY <2>1, MessageTypes
<1>3. StateTick = tick
  <2>1. stage = "packets" \/ stage = "dump"
    BY <1>1, Taken
  <2>2. CASE stage = "packets"
    BY <1>1, <2>2, Taken
  <2>3. CASE stage = "dump"
    <3>1. frame.kind = "signon" /\ tick = 0
      BY <2>3 DEF Base, Frames
    <3> QED BY <3>1 DEF StateTick
  <2> QED BY <2>1, <2>2, <2>3
<1>4. /\ cvars \in Seq(CvarRow) /\ n \in Nat /\ tick \in Nat /\ row \in CvarRow
      /\ \A k \in 1..n : cvars[k].tick \in Nat
  <2>1. cvars \in Seq(CvarRow) /\ tick \in Nat
    BY DEF Base, Typed, TypedPass, TypedCounts
  <2>2. row \in CvarRow
    BY <1>2, <2>1 DEF ConvarMsg
  <2> HIDE DEF row, CvarRow
  <2>3. n \in Nat /\ \A k \in 1..n : cvars[k] \in CvarRow
    BY <2>1
  <2>4. \A r \in CvarRow : r.tick \in Nat
    BY DEF CvarRow
  <2> QED BY <2>1, <2>2, <2>3, <2>4
<1>5. SameTickRows(m.name) = same
  <2>1. ASSUME NEW i \in 1..n, cvars[i].tick = tick, NEW j \in i..n
        PROVE  cvars[j].tick = tick
    <3>1. j \in 1..n /\ i <= j
      BY <1>4
    <3>2. cvars[i].tick <= cvars[j].tick /\ cvars[j].tick <= tick /\ cvars[j].tick \in Nat
      BY <1>4, <3>1 DEF RowsInOrder
    <3> QED BY <1>4, <2>1, <3>2
  <2>2. \A i \in 1..n : i \in i..n
    BY <1>4
  <2>3. \A i \in 1..n : (\A j \in i..n : cvars[j].tick = StateTick) <=> cvars[i].tick = tick
    BY <1>3, <2>1, <2>2
  <2> QED BY <2>3 DEF SameTickRows
<1> HIDE DEF same, CvarRow
<1>6. cvars' = IF same = {} THEN Append(cvars, row) ELSE [cvars EXCEPT ![Max(same)].value = m.value]
  BY <1>3, <1>5 DEF TakeSetConVar
<1>7. ASSUME NEW k \in 1..n, cvars[k].name = m.name, k \notin same
      PROVE  cvars[k].tick < tick
  <2>1. cvars[k].tick # tick /\ cvars[k].tick <= tick /\ cvars[k].tick \in Nat
    BY <1>4, <1>7 DEF same, RowsInOrder
  <2> QED BY <1>4, <2>1
<1> HIDE DEF row
<1>8. CASE same = {}
  <2>1. /\ Len(cvars') = n + 1 /\ cvars'[n + 1] = row /\ \A k \in 1..n : cvars'[k] = cvars[k]
    BY <1>4, <1>6, <1>8, Appended
  <2>2. /\ n + 1 \in Nat /\ n + 1 \in 1..(n + 1) /\ n + 1 \notin 1..n
        /\ \A k \in 1..n : k \in 1..(n + 1) /\ k # n + 1
        /\ \A k \in 1..(n + 1) : k # n + 1 => k \in 1..n
    BY <1>4
  <2>3. \A k \in 1..n : cvars[k].name = m.name => cvars[k].tick < tick
    BY <1>7, <1>8
  <2>4. CvarAt(n + 1)
    BY <2>1, <2>2, <2>3 DEF CvarAt, row
  <2> QED BY <1>2, <2>2, <2>4
<1>9. CASE same # {}
  <2> DEFINE h == Max(same)
  <2>1. same \in SUBSET Int /\ IsFiniteSet(same) /\ same \subseteq 1..n
    <3>1. same \subseteq 1..n
      BY DEF same
    <3>2. IsFiniteSet(1..n) /\ 1..n \subseteq Int
      BY <1>4, FS_Interval
    <3>3. IsFiniteSet(same)
      BY <3>1, <3>2, FS_Subset
    <3> QED BY <3>1, <3>2, <3>3
  <2>2. h \in same
    BY <1>9, <2>1, MaxOfSet
  <2> HIDE DEF h
  <2>3. h \in 1..n /\ h \in Nat /\ cvars[h].name = m.name /\ cvars[h].tick = tick
    BY <1>4, <2>2 DEF same
  <2>4. ASSUME NEW k \in 1..n, k # h, cvars[k].name = m.name
        PROVE  cvars[k].tick < tick
    <3>1. k \notin same
      BY <2>3, <2>4 DEF same, RowsInOrder
    <3> QED BY <1>7, <2>4, <3>1
  <2>5. cvars' = [cvars EXCEPT ![h].value = m.value]
    BY <1>6, <1>9 DEF h
  <2>6. cvars[h] \in CvarRow /\ DOMAIN cvars = 1..n
    BY <1>4, <2>3
  <2>7. [cvars[h] EXCEPT !.value = m.value] = row
    <3>1. cvars[h] = [tick |-> tick, name |-> m.name, value |-> cvars[h].value]
      BY <2>3, <2>6 DEF CvarRow
    <3> QED BY <3>1 DEF row
  <2>8. row \in CvarRow
    BY <1>4
  <2>9. cvars' \in Seq(CvarRow) /\ Len(cvars') = n /\ cvars'[h] = row /\ \A k \in 1..n : k # h => cvars'[k] = cvars[k]
    <3>1. cvars' = [cvars EXCEPT ![h] = row]
      BY <2>5, <2>7
    <3> QED BY <1>4, <2>3, <2>6, <2>8, <3>1
  <2>10. CvarAt(h)
    BY <1>4, <2>3, <2>4, <2>9 DEF CvarAt, row
  <2> QED BY <1>2, <2>3, <2>10
<1> QED BY <1>8, <1>9

LEMMA RowTypes ==
  ASSUME Typed
  PROVE  /\ Len(cvars) \in Nat /\ tick \in Nat /\ cvar \in Nat /\ served \in Nat
         /\ \A j \in 1..Len(cvars) : cvars[j].tick \in Nat
         /\ Len(truth) \in Nat /\ \A i \in 1..Len(truth) : truth[i].tick \in Nat /\ truth[i].cvar \in Nat
<1> DEFINE CvarRow == [tick : Nat, name : Convars, value : Nat]
           Shown == [tick : Nat, clients : [Slot -> Client], cvar : Nat, neo : [Slot -> NeoName \cup {""}]]
<1>1. tick \in Nat /\ cvar \in Nat /\ cvars \in Seq(CvarRow) /\ truth \in Seq(Shown)
  BY DEF Typed, TypedCounts, TypedPass, TypedFrame
<1>2. /\ \A r \in CvarRow : r.tick \in Nat
      /\ \A r \in Shown : r.tick \in Nat /\ r.cvar \in Nat
  OBVIOUS
<1> HIDE DEF CvarRow, Shown
<1>3. Len(cvars) \in Nat /\ \A j \in 1..Len(cvars) : cvars[j] \in CvarRow
  BY <1>1
<1>4. Len(truth) \in Nat /\ (\A i \in 1..Len(truth) : truth[i] \in Shown) /\ (truth = <<>> <=> Len(truth) = 0)
  BY <1>1
<1>5. truth # <<>> => Len(truth) \in 1..Len(truth)
  BY <1>4
<1> QED BY <1>1, <1>2, <1>3, <1>4, <1>5 DEF served

LEMMA TakeOrder ==
  ASSUME Base, RowsInOrder, TakeSetConVar
  PROVE  RowsInOrder'
<1> DEFINE n == Len(cvars)
           N == Len(cvars')
           m == Head(inbox)
<1>1. PICK h \in Nat : CvarAt(h)
  BY CvarTaken
<1>2. n \in Nat /\ tick \in Nat /\ \A j \in 1..n : cvars[j].tick \in Nat
  BY RowTypes DEF Base
<1>3. tick' = tick
  BY Left DEF OnFrame
<1>4. /\ N \in Nat /\ h \in 1..N /\ cvars'[h].tick = tick /\ cvars'[h].name = m.name
      /\ \A k \in 1..N : k # h => k \in 1..n /\ cvars'[k] = cvars[k]
      /\ h \in 1..n => cvars[h].tick = tick
      /\ \A k \in 1..n : k # h /\ cvars[k].name = m.name => cvars[k].tick < tick
  BY <1>1 DEF CvarAt
<1>5. ASSUME NEW i \in 1..N, NEW j \in 1..N, i <= j
      PROVE  cvars'[i].tick <= cvars'[j].tick
  <2>1. CASE i = h /\ j = h
    BY <1>2, <1>4, <2>1
  <2>2. CASE i = h /\ j # h
    <3>1. h \in 1..n /\ j \in 1..n
      BY <1>2, <1>4, <1>5, <2>2
    <3>2. cvars[h].tick <= cvars[j].tick
      BY <1>5, <2>2, <3>1 DEF RowsInOrder
    <3> QED BY <1>4, <2>2, <3>1, <3>2
  <2>3. CASE i # h /\ j = h
    BY <1>4, <2>3 DEF RowsInOrder
  <2>4. CASE i # h /\ j # h
    BY <1>4, <1>5, <2>4 DEF RowsInOrder
  <2> QED BY <2>1, <2>2, <2>3, <2>4
<1>6. ASSUME NEW i \in 1..N
      PROVE  cvars'[i].tick <= tick
  BY <1>2, <1>4 DEF RowsInOrder
<1>7. ASSUME NEW i \in 1..N, NEW j \in 1..N, cvars'[i].name = cvars'[j].name, cvars'[i].tick = cvars'[j].tick
      PROVE  i = j
  <2>1. \A k \in 1..N : k # h => ~ (cvars'[k].name = m.name /\ cvars'[k].tick = tick)
    <3> SUFFICES ASSUME NEW k \in 1..N, k # h, cvars'[k].name = m.name, cvars'[k].tick = tick PROVE FALSE
      OBVIOUS
    <3>1. k \in 1..n /\ cvars[k].tick < tick /\ cvars[k].tick = tick
      BY <1>4
    <3> QED BY <1>2, <3>1
  <2>2. CASE i # h /\ j # h
    BY <1>4, <1>7, <2>2 DEF RowsInOrder
  <2> QED BY <1>4, <1>7, <2>1, <2>2
<1> QED BY <1>3, <1>5, <1>6, <1>7 DEF RowsInOrder

LEMMA CvarsKept ==
  ASSUME Base, OnFrame
  PROVE  TakeSetConVar \/ (cvars' = cvars /\ ~ Sets(Head(inbox)))
<1>1. ~ TakeSetConVar => cvars' = cvars
  BY DEF OnFrame, TakeServerInfo, TakeEventList, TakeGameEvent, TakeCreateTable, TakeUpdateTable, pass
<1>2. ~ TakeSetConVar => Head(inbox).type # "set_convar"
  BY DEF OnFrame, TakeServerInfo, TakeEventList, TakeGameEvent, TakeCreateTable, TakeUpdateTable, Take
<1>3. \A m \in ConvarMsg : m.type = "set_convar"
  BY DEF ConvarMsg
<1> QED BY <1>1, <1>2, <1>3 DEF Sets

LEMMA RowsInOrderStep ==
  ASSUME Base, RowsInOrder, [Next]_vars
  PROVE  RowsInOrder'
<1>1. ASSUME cvars' = cvars, tick' \in Nat, tick <= tick'
      PROVE  RowsInOrder'
  <2>1. /\ tick \in Nat /\ \A i \in 1..Len(cvars) : cvars[i].tick \in Nat
    BY RowTypes DEF Base
  <2>2. \A i \in 1..Len(cvars) : cvars[i].tick <= tick'
    BY <1>1, <2>1 DEF RowsInOrder
  <2> QED BY <1>1, <2>2 DEF RowsInOrder
<1>2. tick \in Nat
  BY RowTypes DEF Base
<1>3. CASE Server \/ UNCHANGED vars
  <2>1. cvars' = cvars /\ tick' = tick
    BY <1>3, ServerKeeps DEF vars, server, pass
  <2> QED BY <1>1, <1>2, <2>1
<1>4. CASE RecordSignon \/ RecordDump
  <2>1. cvars' = cvars /\ tick' = tick
    BY <1>4 DEF RecordSignon, RecordDump, ReadFrame
  <2> QED BY <1>1, <1>2, <2>1
<1>5. CASE RecordPacket
  <2>1. cvars' = cvars /\ tick' \in {tick + 1} \cup (IF truth = <<>> THEN {0} ELSE {})
    BY <1>5 DEF RecordPacket, ReadFrame
  <2>2. truth = <<>> => tick = 0
    BY DEF Base, Frames
  <2>3. tick' \in Nat /\ tick <= tick'
    BY <1>2, <2>1, <2>2
  <2> QED BY <1>1, <2>1, <2>3
<1>6. CASE OnFrame
  <2>1. CASE TakeSetConVar
    BY <2>1, TakeOrder
  <2>2. CASE ~ TakeSetConVar
    BY <1>1, <1>2, <1>6, <2>2, CvarsKept, Left
  <2> QED BY <2>1, <2>2
<1> QED BY <1>3, <1>4, <1>5, <1>6 DEF Next

\* Whatever sets the convar queues its new value, and nothing else does.
LEMMA ServerCvar ==
  ASSUME Base, Server
  PROVE  \/ cvar' = cvar /\ (fired' = fired \/ \E m \in QueueMsg : ~ Sets(m) /\ fired' = Append(fired, m))
         \/ \E m \in QueueMsg : Sets(m) /\ m.value = cvar' /\ fired' = Append(fired, m)
<1>1. cvar \in Nat /\ fired \in Seq(QueueMsg)
  BY DEF Base, Typed, TypedCounts, TypedServer
<1>2. CASE SetCvar
  <2> DEFINE m == [type |-> "set_convar", name |-> "sv_rounds", value |-> cvar + 1]
  <2>1. cvar' = cvar + 1 /\ fired' = Append(fired, m)
    BY <1>2 DEF SetCvar
  <2>2. cvar + 1 \in Nat
    BY <1>1
  <2>3. m \in ConvarMsg /\ m.name = "sv_rounds" /\ m.value = cvar + 1
    BY <2>2 DEF ConvarMsg, Convars
  <2> HIDE DEF m
  <2>4. Sets(m) /\ m \in QueueMsg
    BY <2>3, KindsApart DEF Sets
  <2> QED BY <2>1, <2>3, <2>4
<1>3. CASE ~ SetCvar
  <2>1. cvar' = cvar
    BY <1>3 DEF Server, Connect, Disconnect, Rename, SetNeoName, Die
  <2>2. fired' = fired \/ \E m : m.type = "game_event" /\ fired' = Append(fired, m)
    <3>1. \A name, fields : Fire(name, fields) => \E m : m.type = "game_event" /\ fired' = Append(fired, m)
      <4> SUFFICES ASSUME NEW name, NEW fields, Fire(name, fields)
                   PROVE  \E m : m.type = "game_event" /\ fired' = Append(fired, m)
        OBVIOUS
      <4> DEFINE m == [type |-> "game_event", id |-> EventIds[name], fields |-> fields]
      <4>1. m.type = "game_event" /\ fired' = Append(fired, m)
        BY DEF Fire
      <4> QED BY <4>1
    <3>2. \A name, fields : FireToClients(name, fields) => fired' = fired \/ Fire(name, fields)
      BY DEF FireToClients
    <3>3. PICK s \in Slot : Connect(s) \/ Disconnect(s) \/ Rename(s) \/ SetNeoName(s) \/ Die(s)
      BY <1>3 DEF Server
    <3>4. Connect(s) => fired' = fired \/ \E name, fields : Fire(name, fields)
      BY <3>2 DEF Connect
    <3>5. Rename(s) => fired' = fired \/ \E name, fields : Fire(name, fields)
      BY <3>2 DEF Rename
    <3>6. Die(s) => \E name, fields : Fire(name, fields)
      BY DEF Die
    <3>7. Disconnect(s) \/ SetNeoName(s) => fired' = fired
      BY DEF Disconnect, SetNeoName
    <3> QED BY <3>1, <3>3, <3>4, <3>5, <3>6, <3>7
  <2>3. fired' = fired \/ \E m \in QueueMsg : fired' = Append(fired, m)
    BY ServerEffect, KindsApart
  <2>4. ASSUME NEW m, m.type = "game_event", fired' = Append(fired, m),
               NEW q \in QueueMsg, fired' = Append(fired, q)
        PROVE  m = q
    <3> DEFINE M == QueueMsg \cup {m}
    <3>1. fired \in Seq(M) /\ m \in M /\ q \in M
      <4> HIDE DEF QueueMsg
      <4> QED BY <1>1
    <3> HIDE DEF M
    <3>2. Append(fired, m)[Len(fired) + 1] = m /\ Append(fired, q)[Len(fired) + 1] = q
      BY <3>1, Appended
    <3> QED BY <2>4, <3>2
  <2>5. \A m : m.type = "game_event" => ~ Sets(m)
    BY DEF Sets, ConvarMsg
  <2> QED BY <2>1, <2>2, <2>3, <2>4, <2>5
<1> QED BY <1>2, <1>3

LEMMA NothingSet == ASSUME NEW before, NEW now PROVE Leads(<<>>, before, now) <=> before = now
BY DEF Leads, Unset

LEMMA ServerServed ==
  ASSUME Base, Served, Server
  PROVE  Served'
<1>1. stage' = stage /\ inbox' = inbox /\ truth' = truth /\ cvars' = cvars /\ Typed
  BY ServerKeeps DEF Base
<1>2. served' = served
  BY <1>1 DEF served
<1>3. Leads(fired, served, cvar)
  BY DEF Served
<1>4. Leads(fired', served, cvar')
  <2>1. ASSUME NEW m \in QueueMsg, fired' = Append(fired, m)
        PROVE  (~ Sets(m) => Leads(fired', served, cvar)) /\ (Sets(m) => Leads(fired', served, m.value))
    BY <1>1, <1>3, <2>1, LeadsQueued
  <2> QED BY <1>3, <2>1, ServerCvar
<1>5. (\A v : CvarIs(v)' <=> CvarIs(v)) /\ \A i : RowServed(i)' <=> RowServed(i)
  BY <1>1 DEF CvarIs, RowServed, IsRow
<1>6. \A v : Leads(inbox, v, served)' <=> Leads(inbox, v, served)
  BY <1>1, <1>2 DEF Leads, LastSet, Unset
<1>7. Leads(fired, served, cvar)'
  BY <1>2, <1>4 DEF Leads, LastSet, Unset
<1> QED BY <1>1, <1>5, <1>6, <1>7 DEF Served

LEMMA RecordSignonServed ==
  ASSUME Base, Served, RecordSignon, warnings' = warnings
  PROVE  Served'
<1> DEFINE f == [kind |-> "signon", tick |-> Uptime]
<1>1. /\ stage = "signon" /\ stage' = "dump" /\ fired = <<>> /\ truth = <<>> /\ cvars = <<>>
      /\ errors \in Nat /\ warnings \in Nat
      /\ UNCHANGED <<fired, truth, cvar>>
  BY DEF RecordSignon, Base, Typed, TypedCounts, Frames, Served
<1>2. PICK p \in Recorded(Signon) : ReadFrame(f, p)
  BY DEF RecordSignon
<1>3. cvars' = cvars
  BY <1>2 DEF ReadFrame
<1>4. /\ Signon \in Seq(SignonMsg) /\ \A i \in 1..Len(Signon) : Signon[i].type # "bad"
      /\ \A i \in 1..Len(Signon) : Signon[i].type = "set_convar" => Signon[i].value = cvar
      /\ \E i \in 1..Len(Signon) : Signon[i] \in ConvarMsg /\ Signon[i].name = "sv_rounds"
  BY SignonRead DEF Base
<1>5. inbox' = Signon
  BY <1>1, <1>2, <1>4, FrameRead
<1>6. served = 0 /\ served' = 0
  BY <1>1 DEF served
<1>7. cvar = 0
  BY <1>1, <1>6, NothingSet DEF Served
<1>8. Leads(inbox', -1, served')
  <2>1. \A i \in 1..Len(Signon) : Sets(Signon[i]) => Signon[i].value = 0
    BY <1>4, <1>7 DEF Sets, ConvarMsg
  <2>2. ~ Unset(Signon)
    BY <1>4 DEF Unset, Sets
  <2> QED BY <1>5, <1>6, <2>1, <2>2 DEF Leads, LastSet
<1>9. \A j \in 1..Len(cvars') : FALSE
  BY <1>1, <1>3
<1>10. \A i \in 1..(Len(truth') - 1) : FALSE
  BY <1>1
<1>11. Leads(fired', served', cvar')
  BY <1>1, <1>6, <1>7, NothingSet
<1>12. CvarIs(-1)'
  BY <1>9 DEF CvarIs
<1>13. \E v \in Int : CvarIs(v)' /\ Leads(inbox', v, served')
  BY <1>8, <1>12
<1> QED BY <1>1, <1>10, <1>11, <1>13 DEF Served, CvarIs, IsRow, Leads, LastSet, Unset

LEMMA RecordDumpServed ==
  ASSUME Base, Served, RecordDump
  PROVE  Served'
<1>1. stage = "dump" /\ stage' = "packets" /\ UNCHANGED <<inbox, truth, cvars, fired, cvar>>
  BY DEF RecordDump, reading
<1>2. served' = served
  BY <1>1 DEF served
<1> QED BY <1>1, <1>2 DEF Served, CvarIs, RowServed, IsRow, Leads, LastSet, Unset

LEMMA RecordPacketServed ==
  ASSUME Base, RowsInOrder, Served, RecordPacket, warnings' = warnings
  PROVE  Served'
<1> DEFINE U == Update
           n == Len(truth)
<1>1. /\ stage = "packets" /\ stage' = "packets" /\ inbox = <<>> /\ fired' = <<>> /\ cvars' = cvars /\ cvar' = cvar
      /\ warnings \in Nat /\ Typed
      /\ truth' = Append(truth, [tick |-> tick', clients |-> clients, cvar |-> cvar, neo |-> neoSent'])
  BY DEF RecordPacket, ReadFrame, Base, Typed, TypedCounts
<1>2. fired \in Seq(PacketMsg) /\ U \in Seq(PacketMsg) /\ Unset(U)
  <2>1. /\ fired \in Seq(QueueMsg) /\ U \in Seq(UpdateMsg) /\ QueueMsg \subseteq PacketMsg /\ UpdateMsg \subseteq PacketMsg
        /\ \A k \in 1..Len(U) : U[k].type = "update_table"
    BY <1>1, UpdateRead DEF Typed, TypedServer, PacketMsg
  <2> HIDE DEF U
  <2>2. Unset(U)
    BY <2>1 DEF Unset, Sets, ConvarMsg
  <2> QED BY <2>1, <2>2
<1>3. inbox' = fired \o U \/ inbox' = U \o fired
  BY <1>1, PacketRead
<1> HIDE DEF U
<1>4. Leads(inbox', served, cvar)
  BY <1>2, <1>3, LeadsAlone DEF Served
<1>5. n \in Nat /\ Len(truth') = n + 1 /\ (\A i \in 1..n : truth'[i] = truth[i]) /\ truth'[n + 1].cvar = cvar
  <2> DEFINE Shown == [tick : Nat, clients : [Slot -> Client], cvar : Nat, neo : [Slot -> NeoName \cup {""}]]
             r == [tick |-> tick', clients |-> clients, cvar |-> cvar, neo |-> neoSent']
  <2>1. truth \in Seq(Shown \cup {r}) /\ r \in Shown \cup {r} /\ r.cvar = cvar
    <3>1. truth \in Seq(Shown)
      BY <1>1 DEF Typed, TypedFrame
    <3>2. r.cvar = cvar
      OBVIOUS
    <3> HIDE DEF Shown, r
    <3> QED BY <3>1, <3>2
  <2> HIDE DEF Shown, r
  <2> QED BY <1>1, <2>1, Appended DEF r
<1>6. served' = cvar
  <2>1. truth' # <<>> /\ Len(truth') = n + 1
    BY <1>5
  <2> QED BY <1>5, <2>1 DEF served
<1>7. PICK v \in Int : CvarIs(v) /\ v = served
  BY <1>1, NothingSet DEF Served
<1>8. ASSUME NEW i \in 1..n
      PROVE  RowServed(i)
  <2>1. CASE i # n
    BY <1>5, <2>1 DEF Served
  <2>2. CASE i = n
    <3>1. truth # <<>> /\ served = truth[n].cvar /\ truth[n].tick = tick
      BY <1>5, <2>2 DEF served, Base, Frames
    <3>2. v # -1
      BY <1>1, <1>7, RowTypes
    <3>3. PICK j \in 1..Len(cvars) : IsRow(j) /\ cvars[j].value = v /\ \A k \in (j + 1)..Len(cvars) : ~ IsRow(k)
      BY <1>7, <3>2 DEF CvarIs
    <3>4. cvars[j].tick <= truth[n].tick
      BY <3>1 DEF RowsInOrder
    <3> QED BY <1>7, <2>2, <3>1, <3>3, <3>4 DEF RowServed
  <2> QED BY <2>1, <2>2
<1>9. \A i \in 1..(Len(truth') - 1) : RowServed(i)'
  <2>1. \A i \in 1..(Len(truth') - 1) : i \in 1..n
    BY <1>5
  <2> QED BY <1>1, <1>5, <1>8, <2>1 DEF RowServed, IsRow
<1>10. Leads(fired', served', cvar')
  BY <1>1, <1>6, NothingSet
<1>11. CvarIs(v)' /\ Leads(inbox', v, served')
  BY <1>1, <1>4, <1>6, <1>7 DEF CvarIs, IsRow
<1> QED BY <1>1, <1>9, <1>10, <1>11 DEF Served, Leads, LastSet, Unset

\* The rows of the packets before the last are of earlier ticks than what is
\* taken now.
LEMMA TakenLater ==
  ASSUME Base, RowsInOrder, TakeSetConVar, NEW i \in 1..(Len(truth) - 1), RowServed(i)
  PROVE  RowServed(i)'
<1> DEFINE t == truth[i].tick
<1>1. PICK h \in Nat : CvarAt(h)
  BY CvarTaken
<1>2. truth' = truth /\ tick \in Nat /\ t \in Nat /\ t < tick /\ Len(cvars) \in Nat
  <2>1. truth' = truth /\ tick \in Nat /\ Len(truth) \in Nat /\ Len(cvars) \in Nat
        /\ \A k \in 1..Len(truth) : truth[k].tick \in Nat
    BY Left, RowTypes DEF OnFrame, Base
  <2>2. i \in 1..Len(truth) /\ Len(truth) \in 1..Len(truth) /\ i < Len(truth) /\ (truth = <<>> => Len(truth) = 0)
    BY <2>1
  <2>3. truth # <<>> /\ truth[Len(truth)].tick = tick
    BY <2>1, <2>2 DEF Base, Frames
  <2>4. truth[i].tick < truth[Len(truth)].tick
    BY <2>2 DEF Base, Frames
  <2> QED BY <2>1, <2>2, <2>3, <2>4
<1>3. PICK j \in 1..Len(cvars) : /\ IsRow(j) /\ cvars[j].tick <= t /\ cvars[j].value = truth[i].cvar
                                 /\ \A k \in (j + 1)..Len(cvars) : IsRow(k) => cvars[k].tick > t
  BY DEF RowServed
<1>4. /\ Len(cvars') \in Nat /\ h \in 1..Len(cvars') /\ cvars'[h].tick = tick
      /\ \A k \in 1..Len(cvars) : k \in 1..Len(cvars') /\ (k # h => cvars'[k] = cvars[k])
      /\ \A k \in 1..Len(cvars') : k # h => k \in 1..Len(cvars)
      /\ h \in 1..Len(cvars) => cvars[h].tick = tick
  BY <1>1 DEF CvarAt
<1>5. j # h
  BY <1>2, <1>3, <1>4
<1>6. j \in 1..Len(cvars') /\ cvars'[j] = cvars[j]
  BY <1>4, <1>5
<1>7. ASSUME NEW k \in (j + 1)..Len(cvars'), cvars'[k].name = "sv_rounds"
      PROVE  cvars'[k].tick > t
  <2>1. CASE k = h
    BY <1>2, <1>4, <2>1
  <2>2. CASE k # h
    <3>1. k \in 1..Len(cvars')
      BY <1>4, <1>7
    <3>2. k \in 1..Len(cvars) /\ cvars'[k] = cvars[k]
      BY <1>4, <2>2, <3>1
    <3>3. k \in (j + 1)..Len(cvars)
      BY <1>2, <3>2
    <3> QED BY <1>3, <1>7, <3>2, <3>3 DEF IsRow
  <2> QED BY <2>1, <2>2
<1> QED BY <1>2, <1>3, <1>6, <1>7 DEF RowServed, IsRow

LEMMA TakenIs ==
  ASSUME Base, RowsInOrder, TakeSetConVar, NEW v \in Int, CvarIs(v)
  PROVE  /\ \A w \in Int : Sets(Head(inbox)) /\ w = Head(inbox).value => CvarIs(w)'
         /\ ~ Sets(Head(inbox)) => CvarIs(v)'
<1> DEFINE m == Head(inbox)
           x == m.value
           n == Len(cvars)
           N == Len(cvars')
           Row(k) == cvars'[k].name = "sv_rounds"
<1>1. m \in ConvarMsg /\ \E h \in Nat : CvarAt(h)
  BY CvarTaken
<1>2. PICK h \in Nat : CvarAt(h)
  BY <1>1
<1>3. n \in Nat /\ tick \in Nat
  BY RowTypes DEF Base
<1>4. /\ N \in Nat /\ h \in 1..N /\ cvars'[h].tick = tick /\ cvars'[h].name = m.name /\ cvars'[h].value = x
      /\ \A k \in 1..n : k \in 1..N /\ (k # h => cvars'[k] = cvars[k])
      /\ \A k \in 1..N : k # h => k \in 1..n
      /\ h \in 1..n => cvars[h].name = m.name /\ cvars[h].tick = tick
      /\ h \notin 1..n => h = n + 1
      /\ \A k \in 1..n : k # h /\ cvars[k].name = m.name => cvars[k].tick < tick
  BY <1>2 DEF CvarAt
<1>5. ASSUME NEW w \in Int,
             \/ w = -1 /\ \A j \in 1..N : ~ Row(j)
             \/ \E j \in 1..N : Row(j) /\ cvars'[j].value = w /\ \A k \in (j + 1)..N : ~ Row(k)
      PROVE  CvarIs(w)'
  BY <1>5 DEF CvarIs, IsRow
<1>6. CASE Sets(m)
  <2>1. m.name = "sv_rounds" /\ x \in Nat
    BY <1>1, <1>6 DEF Sets, ConvarMsg
  <2>2. ASSUME NEW k \in (h + 1)..N, Row(k) PROVE FALSE
    <3>1. k \in 1..N /\ k # h /\ h <= k
      BY <1>4
    <3>2. k \in 1..n /\ cvars'[k] = cvars[k] /\ h \in 1..n
      BY <1>3, <1>4, <3>1
    <3>3. cvars[k].tick < tick /\ cvars[h].tick <= cvars[k].tick /\ cvars[h].tick = tick /\ cvars[k].tick \in Nat
      BY <1>4, <2>1, <2>2, <3>1, <3>2, RowTypes DEF RowsInOrder, Base
    <3> QED BY <1>3, <3>3
  <2>3. Row(h)
    BY <1>4, <2>1
  <2> QED BY <1>4, <1>5, <1>6, <2>1, <2>2, <2>3
<1>7. CASE ~ Sets(m)
  <2>1. m.name # "sv_rounds"
    BY <1>1, <1>7 DEF Sets
  <2>2. \A k \in 1..N : Row(k) => k # h /\ k \in 1..n /\ IsRow(k) /\ cvars'[k] = cvars[k]
    BY <1>4, <2>1 DEF IsRow
  <2>3. CASE v = -1 /\ \A j \in 1..n : ~ IsRow(j)
    BY <1>5, <1>7, <2>2, <2>3
  <2>4. CASE \E j \in 1..n : IsRow(j) /\ cvars[j].value = v /\ \A k \in (j + 1)..n : ~ IsRow(k)
    <3>1. PICK j \in 1..n : IsRow(j) /\ cvars[j].value = v /\ \A k \in (j + 1)..n : ~ IsRow(k)
      BY <2>4
    <3>2. j # h
      BY <1>4, <2>1, <3>1 DEF IsRow
    <3>3. j \in 1..N /\ Row(j) /\ cvars'[j].value = v
      BY <1>4, <3>1, <3>2 DEF IsRow
    <3>4. ASSUME NEW k \in (j + 1)..N PROVE ~ Row(k)
      <4>1. k \in 1..N /\ (k \in 1..n => k \in (j + 1)..n)
        BY <1>3, <1>4
      <4> QED BY <2>2, <3>1, <4>1
    <3> QED BY <1>5, <1>7, <3>3, <3>4
  <2> QED BY <2>3, <2>4 DEF CvarIs
<1> QED BY <1>6, <1>7

LEMMA OnFrameServed ==
  ASSUME Base, RowsInOrder, Served, OnFrame
  PROVE  Served'
<1>1. UNCHANGED <<cvar, fired, stage, truth>> /\ served' = served
  BY Left DEF served
<1>2. stage # "signon"
  BY Left DEF Base, Typed, TypedFrame
<1>3. PICK v \in Int : CvarIs(v) /\ Leads(inbox, v, served)
  BY <1>2 DEF Served
<1>4. /\ ~ Sets(Head(inbox)) => Leads(inbox', v, served)
      /\ Sets(Head(inbox)) => Leads(inbox', Head(inbox).value, served)
  BY <1>3, LeadsLeft
<1>5. \A w : Leads(inbox', w, served) <=> Leads(inbox, w, served)'
  BY <1>1 DEF Leads, LastSet, Unset
<1>6. \E w \in Int : CvarIs(w)' /\ Leads(inbox', w, served)
  <2>1. CASE TakeSetConVar
    <3>1. CASE Sets(Head(inbox))
      <4>1. PICK w \in Int : w = Head(inbox).value
        BY <3>1 DEF Sets, ConvarMsg
      <4>2. CvarIs(w)'
        BY <1>3, <2>1, <3>1, <4>1, TakenIs
      <4> QED BY <1>4, <3>1, <4>1, <4>2
    <3>2. CASE ~ Sets(Head(inbox))
      <4>1. CvarIs(v)'
        BY <1>3, <2>1, <3>2, TakenIs
      <4> QED BY <1>4, <3>2, <4>1
    <3> QED BY <3>1, <3>2
  <2>2. CASE ~ TakeSetConVar
    <3>1. cvars' = cvars /\ ~ Sets(Head(inbox))
      BY <2>2, CvarsKept
    <3>2. CvarIs(v)'
      BY <1>3, <3>1 DEF CvarIs, IsRow
    <3> QED BY <1>4, <3>1, <3>2
  <2> QED BY <2>1, <2>2
<1>7. \A i \in 1..(Len(truth) - 1) : RowServed(i)'
  <2> SUFFICES ASSUME NEW i \in 1..(Len(truth) - 1) PROVE RowServed(i)'
    OBVIOUS
  <2>1. RowServed(i)
    BY DEF Served
  <2>2. CASE TakeSetConVar
    BY <2>1, <2>2, TakenLater
  <2>3. CASE ~ TakeSetConVar
    <3>1. cvars' = cvars
      BY <2>3, CvarsKept
    <3> QED BY <1>1, <2>1, <3>1 DEF RowServed, IsRow
  <2> QED BY <2>2, <2>3
<1>8. Leads(fired, served, cvar)'
  BY <1>1 DEF Served, Leads, LastSet, Unset
<1> QED BY <1>1, <1>2, <1>5, <1>6, <1>7, <1>8 DEF Served

ConvarsKept == Wholly /\ RowsInOrder /\ (warnings = 0 => Served)

LEMMA ConvarsKeptStep == ASSUME ConvarsKept, [Next]_vars PROVE ConvarsKept'
<1>1. Wholly /\ Wholly' /\ Base /\ RowsInOrder'
  BY WhollyStep, RowsInOrderStep DEF ConvarsKept, Wholly, Ownership
<1> SUFFICES ASSUME warnings' = 0 PROVE Served'
  BY <1>1 DEF ConvarsKept
<1>2. warnings = 0 /\ Served /\ RowsInOrder
  BY <1>1, WarningsGrow DEF ConvarsKept
<1>3. CASE UNCHANGED vars
  <2>1. UNCHANGED <<cvar, fired, stage, truth, inbox, cvars>>
    BY <1>3 DEF vars, server, reading, pass
  <2>2. served' = served
    BY <2>1 DEF served
  <2>3. (\A v : CvarIs(v)' <=> CvarIs(v)) /\ \A i : RowServed(i)' <=> RowServed(i)
    BY <2>1 DEF CvarIs, RowServed, IsRow
  <2>4. /\ \A v : Leads(inbox, v, served)' <=> Leads(inbox, v, served)
        /\ Leads(fired, served, cvar)' <=> Leads(fired, served, cvar)
    BY <2>1, <2>2 DEF Leads, LastSet, Unset
  <2> QED BY <1>2, <2>1, <2>3, <2>4 DEF Served
<1> QED BY <1>1, <1>2, <1>3, ServerServed, RecordSignonServed, RecordDumpServed, RecordPacketServed, OnFrameServed
        DEF Next

LEMMA ConvarsKeptInductive == Spec => []ConvarsKept
<1>1. Init => ConvarsKept
  <2> SUFFICES ASSUME Init PROVE ConvarsKept
    OBVIOUS
  <2>1. fired = <<>> /\ cvar = 0 /\ truth = <<>> /\ stage = "signon" /\ cvars = <<>>
    BY DEF Init
  <2>2. \A k \in 1..Len(<<>>) : FALSE
    OBVIOUS
  <2>3. \A i \in 1..(Len(truth) - 1) : FALSE
    BY <2>1
  <2>4. Leads(fired, served, cvar)
    BY <2>1, NothingSet DEF served
  <2> QED BY <2>1, <2>2, <2>3, <2>4, InitWholly DEF ConvarsKept, RowsInOrder, Served
<1> QED BY <1>1, ConvarsKeptStep, PTL DEF Spec

\* Once every frame so far has been read to its end, the last row of the convar
\* by each packet's tick has the value the server then had, and no two rows of
\* one name are on one tick, however often a message, a signon or a packet
\* repeats the convar.
THEOREM ConvarsAreServed == Spec => []CvarsAsServed
<1>1. ConvarsKept => CvarsAsServed
  <2> SUFFICES ASSUME ConvarsKept, inbox = <<>>, warnings = 0, NEW i \in 1..Len(truth)
               PROVE  LET upTo == {j \in 1..Len(cvars) : cvars[j].name = "sv_rounds" /\ cvars[j].tick <= truth[i].tick}
                      IN upTo # {} /\ cvars[Max(upTo)].value = truth[i].cvar
    BY DEF CvarsAsServed, ReadWhole, ConvarsKept, RowsInOrder
  <2> DEFINE upTo == {j \in 1..Len(cvars) : cvars[j].name = "sv_rounds" /\ cvars[j].tick <= truth[i].tick}
             n == Len(truth)
  <2>1. Base /\ Typed /\ RowsInOrder /\ Served
    BY DEF ConvarsKept, Wholly, Ownership, Base
  <2>2. /\ Len(cvars) \in Nat /\ tick \in Nat /\ served \in Nat /\ n \in Nat
        /\ \A j \in 1..Len(cvars) : cvars[j].tick \in Nat
        /\ \A k \in 1..n : truth[k].tick \in Nat
    BY <2>1, RowTypes
  <2>3. RowServed(i)
    <3>1. CASE i # n
      BY <2>1, <2>2, <3>1 DEF Served
    <3>2. CASE i = n
      <4>1. truth # <<>> /\ served = truth[n].cvar /\ truth[n].tick = tick /\ stage # "signon"
        BY <2>1, <2>2, <3>2 DEF served, Base, Frames
      <4>2. PICK v \in Int : CvarIs(v) /\ v = served
        BY <2>1, <4>1, NothingSet DEF Served
      <4>3. PICK j \in 1..Len(cvars) : IsRow(j) /\ cvars[j].value = v /\ \A k \in (j + 1)..Len(cvars) : ~ IsRow(k)
        BY <2>2, <4>2 DEF CvarIs
      <4>4. cvars[j].tick <= truth[n].tick
        BY <2>1, <4>1 DEF RowsInOrder
      <4> QED BY <3>2, <4>1, <4>2, <4>3, <4>4 DEF RowServed
    <3> QED BY <3>1, <3>2
  <2>4. PICK j \in 1..Len(cvars) : /\ IsRow(j) /\ cvars[j].tick <= truth[i].tick /\ cvars[j].value = truth[i].cvar
                                   /\ \A k \in (j + 1)..Len(cvars) : IsRow(k) => cvars[k].tick > truth[i].tick
    BY <2>3 DEF RowServed
  <2>5. j \in upTo /\ upTo \subseteq 1..Len(cvars)
    BY <2>4 DEF IsRow
  <2>6. \A k \in upTo : k <= j
    <3> SUFFICES ASSUME NEW k \in upTo, k > j PROVE FALSE
      BY <2>2
    <3>1. k \in (j + 1)..Len(cvars) /\ IsRow(k) /\ cvars[k].tick <= truth[i].tick /\ k \in 1..Len(cvars)
      BY <2>2 DEF IsRow
    <3> QED BY <2>2, <2>4, <3>1
  <2>7. upTo \in SUBSET Int /\ IsFiniteSet(upTo)
    <3>1. IsFiniteSet(1..Len(cvars)) /\ 1..Len(cvars) \subseteq Int
      BY <2>2, FS_Interval
    <3> HIDE DEF upTo
    <3> QED BY <2>5, <3>1, FS_Subset
  <2> HIDE DEF upTo
  <2>8. Max(upTo) \in upTo /\ j <= Max(upTo)
    BY <2>5, <2>7, MaxOfSet
  <2>9. Max(upTo) = j
    <3>1. Max(upTo) \in 1..Len(cvars) /\ Max(upTo) <= j
      BY <2>5, <2>6, <2>8
    <3> QED BY <2>2, <2>8, <3>1
  <2> QED BY <2>4, <2>5, <2>9 DEF upTo
<1> QED BY <1>1, ConvarsKeptInductive, PTL
-----------------------------------------------------------------------------
(* Neo names                                                               *)

NeoChange == [tick : Nat, entity_id : Nat, name : NeoName \cup {""}]

\* The row of what packet i shows of slot s.
NeoRow(i, s) == [tick |-> truth[i].tick, entity_id |-> s + 1, name |-> truth[i].neo[s]]
HasRow(i, s) == \E k \in 1..Len(neoNames) : neoNames[k] = NeoRow(i, s)

\* Slot s is shown by packet i as it was by the one before.
SameAsBefore(i, s) ==
  /\ i > 1 /\ truth[i - 1].clients[s] # None
  /\ truth[i - 1].clients[s].user_id = truth[i].clients[s].user_id
  /\ truth[i - 1].neo[s] = truth[i].neo[s]

\* Every row is of a player in the packet of its tick, the rows are in the order
\* of the packets, and a name in a packet has a row unless it was there before.
NeoRows ==
  /\ neoNames \in Seq(NeoChange)
  /\ \A k \in 1..Len(neoNames) :
       \E i \in 1..Len(truth), s \in Slot : neoNames[k] = NeoRow(i, s) /\ IsPlayer(truth[i].clients[s])
  /\ \A k, l \in 1..Len(neoNames) : k <= l => neoNames[k].tick <= neoNames[l].tick
  /\ \A i \in 1..Len(truth), s \in Slot :
       truth[i].neo[s] # "" => IsPlayer(truth[i].clients[s]) /\ (HasRow(i, s) \/ SameAsBefore(i, s))
  /\ neoSent = IF truth = <<>> THEN [s \in Slot |-> ""] ELSE truth[Len(truth)].neo

\* What ShowNeoNames adds.
LEMMA NeoShown ==
  ASSUME Base, RecordPacket
  PROVE  \E view \in SUBSET {s \in Slot : IsPlayer(clients[s]) /\ neo[s] # NeoBefore(s)}, rows \in Seq(NeoChange) :
           /\ neoSent' = [s \in Slot |-> IF s \in view THEN neo[s] ELSE NeoBefore(s)]
           /\ neoNames' = neoNames \o rows
           /\ \A j \in 1..Len(rows) : \E s \in view : rows[j] = [tick |-> tick', entity_id |-> s + 1, name |-> neo[s]]
           /\ \A s \in view : \E j \in 1..Len(rows) : rows[j] = [tick |-> tick', entity_id |-> s + 1, name |-> neo[s]]
<1>1. PICK view \in SUBSET {s \in Slot : IsPlayer(clients[s]) /\ neo[s] # NeoBefore(s)} : ShowNeoNames(view)
  BY DEF RecordPacket
<1> DEFINE new == Ascending(view)
           Change(s) == [tick |-> tick', entity_id |-> s + 1, name |-> neo[s]]
           n == Cardinality(view)
           rows == [i \in 1..Len(new) |-> Change(new[i])]
<1>2. view \in SUBSET Slot
  BY <1>1
<1>3. /\ new \in Seq(view) /\ Len(new) = n
      /\ \A s \in view : \E i \in 1..n : new[i] = s
  BY <1>2, AscendingHasAll
<1>4. neoSent' = [s \in Slot |-> IF s \in view THEN neo[s] ELSE NeoBefore(s)] /\ neoNames' = neoNames \o rows
  BY <1>1 DEF ShowNeoNames
<1> HIDE DEF new, n
<1>5. Len(new) \in Nat /\ \A i \in 1..Len(new) : new[i] \in view
  BY <1>3
<1>6. \A s \in view : Change(s) \in NeoChange
  <2> SUFFICES ASSUME NEW s \in view PROVE Change(s) \in NeoChange
    OBVIOUS
  <2>1. tick' \in Nat /\ s + 1 \in Nat /\ neo[s] \in NeoName \cup {""}
    BY <1>2, PacketKeeps, SlotsAreNumbers DEF Base, Typed, TypedServer
  <2> QED BY <2>1 DEF NeoChange
<1> HIDE DEF Change
<1>7. rows \in Seq(NeoChange) /\ Len(rows) = Len(new) /\ \A j \in 1..Len(new) : rows[j] = Change(new[j])
  <2>1. \A j \in 1..Len(new) : Change(new[j]) \in NeoChange
    BY <1>5, <1>6
  <2> QED BY <1>5, <2>1
<1> HIDE DEF rows
<1>8. /\ \A j \in 1..Len(rows) : \E s \in view : rows[j] = Change(s)
      /\ \A s \in view : \E j \in 1..Len(rows) : rows[j] = Change(s)
  BY <1>3, <1>5, <1>7
<1> QED BY <1>1, <1>4, <1>7, <1>8 DEF Change

LEMMA TruthGrows ==
  ASSUME Base, RecordPacket
  PROVE  /\ Len(truth) \in Nat /\ Len(truth') = Len(truth) + 1 /\ (truth # <<>> => Len(truth) # 0)
         /\ \A i \in 1..Len(truth) : truth'[i] = truth[i] /\ truth[i].tick \in Nat /\ truth[i].tick < tick'
         /\ truth'[Len(truth) + 1].tick = tick' /\ truth'[Len(truth) + 1].clients = clients
         /\ truth'[Len(truth) + 1].neo = neoSent'
<1> DEFINE Shown == [tick : Nat, clients : [Slot -> Client], cvar : Nat, neo : [Slot -> NeoName \cup {""}]]
           r == [tick |-> tick', clients |-> clients, cvar |-> cvar, neo |-> neoSent']
           n == Len(truth)
<1>1. truth \in Seq(Shown)
  BY DEF Base, Typed, TypedFrame
<1>2. r.tick = tick' /\ r.clients = clients /\ r.neo = neoSent'
  OBVIOUS
<1>3. truth' = Append(truth, r)
  BY PacketKeeps
<1> HIDE DEF r, Shown
<1>4. truth \in Seq(Shown \cup {r}) /\ r \in Shown \cup {r}
  BY <1>1
<1>5. /\ n \in Nat /\ Len(truth') = n + 1 /\ (\A i \in 1..n : truth'[i] = truth[i]) /\ truth'[n + 1] = r
      /\ truth # <<>> => n # 0
  BY <1>3, <1>4, Appended
<1>6. ASSUME NEW i \in 1..n
      PROVE  truth[i].tick \in Nat /\ truth[i].tick < tick'
  <2>1. truth # <<>> /\ n \in 1..n /\ (i = n \/ i < n)
    BY <1>5
  <2>2. truth[n].tick = tick /\ (i < n => truth[i].tick < truth[n].tick)
    BY <2>1 DEF Base, Frames
  <2>3. tick' > tick /\ tick' \in Nat /\ tick \in Nat
    BY <2>1, PacketKeeps DEF Base, Typed, TypedCounts
  <2>4. truth[i].tick \in Nat
    BY RowTypes DEF Base
  <2> QED BY <2>1, <2>2, <2>3, <2>4
<1> QED BY <1>2, <1>5, <1>6

LEMMA RecordPacketNeo ==
  ASSUME Base, NeoRows, RecordPacket
  PROVE  NeoRows'
<1>0. PICK n \in Nat : n = Len(truth)
  BY TruthGrows
<1> DEFINE L == Len(neoNames)
           Change(s) == [tick |-> tick', entity_id |-> s + 1, name |-> neo[s]]
<1>1. PICK view \in SUBSET {s \in Slot : IsPlayer(clients[s]) /\ neo[s] # NeoBefore(s)}, rows \in Seq(NeoChange) :
           /\ neoSent' = [s \in Slot |-> IF s \in view THEN neo[s] ELSE NeoBefore(s)]
           /\ neoNames' = neoNames \o rows
           /\ \A j \in 1..Len(rows) : \E s \in view : rows[j] = Change(s)
           /\ \A s \in view : \E j \in 1..Len(rows) : rows[j] = Change(s)
  BY NeoShown
<1>2. /\ n \in Nat /\ Len(truth') = n + 1 /\ (truth # <<>> => n # 0)
      /\ \A i \in 1..n : truth'[i] = truth[i] /\ truth[i].tick \in Nat /\ truth[i].tick < tick'
      /\ truth'[n + 1].tick = tick' /\ truth'[n + 1].clients = clients /\ truth'[n + 1].neo = neoSent'
  BY <1>0, TruthGrows
<1>3. neoNames \in Seq(NeoChange)
  BY DEF NeoRows
<1>4. /\ neoNames' \in Seq(NeoChange) /\ L \in Nat /\ Len(rows) \in Nat /\ Len(neoNames') = L + Len(rows)
      /\ \A k \in 1..(L + Len(rows)) : neoNames'[k] = IF k <= L THEN neoNames[k] ELSE rows[k - L]
  <2> HIDE DEF NeoChange
  <2> QED BY <1>1, <1>3, Concat
<1>5. /\ \A k \in 1..L : k \in 1..Len(neoNames') /\ neoNames'[k] = neoNames[k]
      /\ \A j \in 1..Len(rows) : L + j \in 1..Len(neoNames') /\ neoNames'[L + j] = rows[j]
      /\ \A k \in 1..Len(neoNames') : k \in 1..L \/ (k > L /\ \E j \in 1..Len(rows) : k = L + j)
  <2>1. \A k \in 1..L : k \in 1..Len(neoNames') /\ neoNames'[k] = neoNames[k]
    BY <1>4
  <2>2. ASSUME NEW j \in 1..Len(rows) PROVE L + j \in 1..Len(neoNames') /\ neoNames'[L + j] = rows[j]
    <3>1. L + j \in 1..(L + Len(rows)) /\ ~ (L + j <= L) /\ (L + j) - L = j
      BY <1>4
    <3> QED BY <1>4, <3>1
  <2>3. ASSUME NEW k \in 1..Len(neoNames'), k \notin 1..L PROVE k > L /\ \E j \in 1..Len(rows) : k = L + j
    <3>1. k > L /\ k - L \in 1..Len(rows) /\ k = L + (k - L)
      BY <1>4, <2>3
    <3> QED BY <3>1
  <2> QED BY <2>1, <2>2, <2>3
<1>6. \A i \in 1..n : \A s : NeoRow(i, s)' = NeoRow(i, s)
  BY <1>2 DEF NeoRow
<1>7. \A s \in view : NeoRow(n + 1, s)' = Change(s)
  <2> SUFFICES ASSUME NEW s \in view PROVE NeoRow(n + 1, s)' = Change(s)
    OBVIOUS
  <2>1. neoSent'[s] = neo[s]
    BY <1>1
  <2>2. NeoRow(n + 1, s)' = [tick |-> truth'[n + 1].tick, entity_id |-> s + 1, name |-> truth'[n + 1].neo[s]]
    BY <1>2 DEF NeoRow
  <2> QED BY <1>2, <2>1, <2>2
<1> HIDE DEF Change
<1>7a. ASSUME NEW k \in 1..Len(neoNames'), k \notin 1..L
       PROVE  \E s \in view : neoNames'[k] = Change(s)
  <2>1. PICK j \in 1..Len(rows) : k = L + j
    BY <1>5, <1>7a
  <2>2. neoNames'[k] = rows[j]
    BY <1>5, <2>1
  <2>3. PICK s \in view : rows[j] = Change(s)
    BY <1>1
  <2> QED BY <2>2, <2>3
<1>8. n + 1 \in 1..Len(truth') /\ \A i \in 1..n : i \in 1..Len(truth')
  BY <1>2
<1>9. ASSUME NEW k \in 1..Len(neoNames')
      PROVE  \E i \in 1..Len(truth'), s \in Slot : neoNames'[k] = NeoRow(i, s)' /\ IsPlayer(truth'[i].clients[s])
  <2>1. CASE k \in 1..L
    <3>1. PICK i \in 1..n, s \in Slot : neoNames[k] = NeoRow(i, s) /\ IsPlayer(truth[i].clients[s])
      BY <1>0, <2>1 DEF NeoRows
    <3>2. neoNames'[k] = NeoRow(i, s)' /\ IsPlayer(truth'[i].clients[s])
      BY <1>2, <1>5, <1>6, <2>1, <3>1
    <3> QED BY <1>8, <3>2
  <2>2. CASE k \notin 1..L
    <3>1. PICK s \in view : neoNames'[k] = Change(s)
      BY <1>7a, <2>2
    <3>2. neoNames'[k] = NeoRow(n + 1, s)' /\ IsPlayer(truth'[n + 1].clients[s]) /\ s \in Slot
      BY <1>2, <1>7, <3>1
    <3> QED BY <1>8, <3>2
  <2> QED BY <2>1, <2>2
<1>10. /\ \A k \in 1..L : neoNames'[k].tick \in Nat /\ neoNames'[k].tick < tick'
       /\ \A k \in 1..Len(neoNames') : k \notin 1..L => neoNames'[k].tick = tick'
  <2>1. ASSUME NEW k \in 1..L PROVE neoNames'[k].tick \in Nat /\ neoNames'[k].tick < tick'
    <3>1. PICK i \in 1..n, s \in Slot : neoNames[k] = NeoRow(i, s)
      BY <1>0 DEF NeoRows
    <3>2. NeoRow(i, s).tick = truth[i].tick
      BY DEF NeoRow
    <3> QED BY <1>2, <1>5, <3>1, <3>2
  <2>2. ASSUME NEW k \in 1..Len(neoNames'), k \notin 1..L PROVE neoNames'[k].tick = tick'
    <3>1. PICK s \in view : neoNames'[k] = Change(s)
      BY <1>7a, <2>2
    <3> QED BY <3>1 DEF Change
  <2> QED BY <2>1, <2>2
<1>11. ASSUME NEW k \in 1..Len(neoNames'), NEW l \in 1..Len(neoNames'), k <= l
       PROVE  neoNames'[k].tick <= neoNames'[l].tick
  <2>0. tick' \in Nat
    BY PacketKeeps
  <2>1. CASE l \in 1..L
    <3>1. k \in 1..L
      BY <1>4, <1>11, <2>1
    <3> QED BY <1>5, <1>11, <2>1, <3>1 DEF NeoRows
  <2>2. CASE l \notin 1..L
    BY <1>10, <2>0, <2>2
  <2> QED BY <2>1, <2>2
<1>12. ASSUME NEW i \in 1..Len(truth'), NEW s \in Slot, truth'[i].neo[s] # ""
       PROVE  IsPlayer(truth'[i].clients[s]) /\ (HasRow(i, s)' \/ SameAsBefore(i, s)')
  <2>1. CASE i \in 1..n
    <3>1. IsPlayer(truth[i].clients[s]) /\ (HasRow(i, s) \/ SameAsBefore(i, s))
      BY <1>0, <1>2, <1>12, <2>1 DEF NeoRows
    <3>2. HasRow(i, s) => HasRow(i, s)'
      BY <1>5, <1>6, <2>1 DEF HasRow
    <3>3. SameAsBefore(i, s) => SameAsBefore(i, s)'
      <4>1. i > 1 => i - 1 \in 1..n
        BY <1>2, <2>1
      <4> QED BY <1>2, <2>1, <4>1 DEF SameAsBefore
    <3> QED BY <1>2, <2>1, <3>1, <3>2, <3>3
  <2>2. CASE i = n + 1 /\ s \in view
    <3>1. PICK j \in 1..Len(rows) : rows[j] = Change(s)
      BY <1>1, <2>2
    <3>2. L + j \in 1..Len(neoNames') /\ neoNames'[L + j] = NeoRow(i, s)'
      BY <1>5, <1>7, <2>2, <3>1
    <3>3. HasRow(i, s)'
      BY <3>2 DEF HasRow
    <3>4. IsPlayer(clients[s])
      BY <1>1, <2>2
    <3> QED BY <1>2, <2>2, <3>3, <3>4
  <2>3. CASE i = n + 1 /\ s \notin view
    <3>1. truth'[i].neo[s] = NeoBefore(s)
      BY <1>1, <1>2, <2>3
    <3>2. InGame(s) /\ truth'[i].neo[s] = neoSent[s] /\ neoSent[s] # ""
      BY <1>12, <3>1 DEF NeoBefore
    <3>3. truth # <<>> /\ neoSent = truth[n].neo
      BY <1>0, <3>2 DEF NeoRows
    <3>4. truth[n].clients = sent
      BY <1>0, <3>3 DEF Base, Frames
    <3>5. n \in 1..n /\ i > 1 /\ i - 1 = n
      <4>1. n # 0
        BY <1>2, <3>3
      <4> QED BY <1>2, <2>3, <4>1
    <3>6. IsPlayer(clients[s]) /\ sent[s] # None /\ sent[s].user_id = clients[s].user_id
      BY <3>2 DEF InGame
    <3>7. SameAsBefore(i, s)'
      BY <1>2, <2>3, <3>2, <3>3, <3>4, <3>5, <3>6 DEF SameAsBefore
    <3> QED BY <1>2, <2>3, <3>6, <3>7
  <2>4. i \in 1..n \/ i = n + 1
    BY <1>2
  <2> QED BY <2>1, <2>2, <2>3, <2>4
<1>13. neoSent' = IF truth' = <<>> THEN [s \in Slot |-> ""] ELSE truth'[Len(truth')].neo
  <2>1. truth' # <<>>
    BY <1>2
  <2> QED BY <1>2, <2>1
<1> QED BY <1>4, <1>9, <1>11, <1>12, <1>13 DEF NeoRows, IsPlayer

LEMMA NeoRowsInductive == Spec => []NeoRows
<1>1. Init => NeoRows
  <2> SUFFICES ASSUME Init PROVE NeoRows
    OBVIOUS
  <2>1. neoNames = <<>> /\ truth = <<>> /\ neoSent = [s \in Slot |-> ""]
    BY DEF Init
  <2>2. \A k \in 1..Len(<<>>) : FALSE
    OBVIOUS
  <2>3. <<>> \in Seq(NeoChange)
    OBVIOUS
  <2> QED BY <2>1, <2>2, <2>3 DEF NeoRows
<1>2. Base /\ NeoRows /\ [Next]_vars => NeoRows'
  <2> SUFFICES ASSUME Base, NeoRows, [Next]_vars PROVE NeoRows'
    OBVIOUS
  <2>1. CASE RecordPacket
    BY <2>1, RecordPacketNeo
  <2>2. CASE ~ RecordPacket
    <3>1. OnFrame => UNCHANGED <<neoNames, truth, neoSent>>
      <4> SUFFICES ASSUME OnFrame PROVE UNCHANGED <<neoNames, truth, neoSent>>
        OBVIOUS
      <4>1. PICK type : Take(type)
        BY FrameTaken
      <4> QED BY <4>1, Taken
    <3>2. UNCHANGED <<neoNames, truth, neoSent>>
      BY <2>2, <3>1, ServerKeeps DEF Next, RecordSignon, RecordDump, vars, server
    <3>3. /\ \A i, s : NeoRow(i, s)' = NeoRow(i, s)
          /\ \A i, s : SameAsBefore(i, s)' <=> SameAsBefore(i, s)
      BY <3>2 DEF NeoRow, SameAsBefore
    <3>4. \A i, s : HasRow(i, s)' <=> HasRow(i, s)
      BY <3>2, <3>3 DEF HasRow
    <3> QED BY <3>2, <3>3, <3>4 DEF NeoRows, IsPlayer
  <2> QED BY <2>1, <2>2
<1> QED BY <1>1, <1>2, BaseInductive, PTL DEF Spec

Shows(i, s) == truth[i].neo[s] # ""

\* A name in a packet has a row of the same connection and name, which then
\* stayed up to that packet.
LEMMA RowBehind ==
  ASSUME Base, NeoRows, NEW s \in Slot, NEW i \in 1..Len(truth), Shows(i, s)
  PROVE  \E j \in 1..i :
           /\ HasRow(j, s)
           /\ \A l \in j..i : /\ truth[l].clients[s] # None
                              /\ truth[l].clients[s].user_id = truth[i].clients[s].user_id
                              /\ truth[l].neo[s] = truth[i].neo[s]
<1> DEFINE Same(l) == /\ truth[l].clients[s] # None
                      /\ truth[l].clients[s].user_id = truth[i].clients[s].user_id
                      /\ truth[l].neo[s] = truth[i].neo[s]
           G == {j \in 1..i : \A l \in j..i : Same(l)}
<1>1. Len(truth) \in Nat /\ i \in Nat /\ i >= 1
  BY RowTypes DEF Base
<1>2. IsPlayer(truth[i].clients[s])
  BY DEF NeoRows, Shows
<1>3. Same(i)
  BY <1>2 DEF IsPlayer
<1> HIDE DEF Same
<1>4. i \in G
  <2>1. \A l \in i..i : l = i
    BY <1>1
  <2> QED BY <1>1, <1>3, <2>1
<1>5. PICK j \in G : \A g \in G : j <= g
  <2>1. G \subseteq Nat /\ G # {}
    BY <1>1, <1>4
  <2> HIDE DEF G
  <2> QED BY <2>1, LeastNat
<1>6. j \in 1..i /\ j \in 1..Len(truth) /\ \A l \in j..i : Same(l)
  BY <1>1
<1>7. Same(j)
  BY <1>1, <1>6
<1>8. HasRow(j, s) \/ SameAsBefore(j, s)
  BY <1>6, <1>7 DEF Same, NeoRows, Shows
<1>9. ~ SameAsBefore(j, s)
  <2> SUFFICES ASSUME SameAsBefore(j, s) PROVE FALSE
    OBVIOUS
  <2>1. Same(j - 1) /\ j > 1
    BY <1>7 DEF Same, SameAsBefore
  <2>2. j - 1 \in 1..i /\ ~ (j <= j - 1) /\ \A l \in (j - 1)..i : l = j - 1 \/ l \in j..i
    BY <1>1, <1>6, <2>1
  <2>3. j - 1 \in G
    BY <1>6, <2>1, <2>2
  <2> HIDE DEF G
  <2> QED BY <1>5, <2>2, <2>3
<1> QED BY <1>6, <1>8, <1>9 DEF Same

\* Once the frames have been read to their ends, apply_neo_names leaves a player
\* with the last name shown of them that was not empty: a row is given to the
\* player who was in the slot on its tick, that name's row stands behind it, and
\* no later row of the player has another name.
THEOREM NeoNamesAreTheirOwn == Spec => []NeoNamesTheirOwn
<1>1. Wholly /\ NeoRows /\ HoldersRight /\ RowsAreConnections => NeoNamesTheirOwn
  <2> SUFFICES ASSUME Wholly, NeoRows, HoldersRight, RowsAreConnections, inbox = <<>>, warnings = 0,
                      NEW p \in players
               PROVE  LET s == p.entity_id - 1
                          shown == {i \in 1..Len(truth) : /\ truth[i].clients[s] # None
                                                          /\ truth[i].clients[s].user_id = p.user_id
                                                          /\ truth[i].neo[s] # ""}
                      IN NeoNameOf(p.user_id) = IF shown = {} THEN None ELSE truth[Max(shown)].neo[s]
    BY DEF NeoNamesTheirOwn, ReadWhole
  <2> DEFINE s == p.entity_id - 1
             u == p.user_id
             n == Len(truth)
             shown == {i \in 1..n : /\ truth[i].clients[s] # None /\ truth[i].clients[s].user_id = p.user_id
                                    /\ Shows(i, s)}
             Given(k) == neoNames[k].name # ""
             own == {k \in NamesGiven : SlotHolder(neoNames[k].entity_id, neoNames[k].tick) = u}
  <2>1. Base /\ n \in Nat /\ Len(neoNames) \in Nat /\ \A i \in 1..n : truth[i].tick \in Nat
    <3>1. Base /\ n \in Nat /\ \A i \in 1..n : truth[i].tick \in Nat
      BY RowTypes DEF Wholly, Ownership, Base
    <3>2. Len(neoNames) \in Nat
      <4>1. neoNames \in Seq(NeoChange)
        BY DEF NeoRows
      <4> HIDE DEF NeoChange
      <4> QED BY <4>1
    <3> QED BY <3>1, <3>2
  <2>2. s \in Slot /\ p.entity_id = s + 1
    <3>1. PICK home \in Homes, hltv \in SUBSET Nat : Owned(home, hltv)
      BY DEF Wholly, Ownership, OneOwner
    <3>2. home[u] \in Slot /\ p.entity_id = home[u] + 1
      BY <3>1 DEF Owned, Rostered
    <3> QED BY <3>2, SlotsAreNumbers
  <2> HIDE DEF s
  <2>3. \A i \in 1..n, r \in Slot : IsPlayer(truth[i].clients[r]) =>
          SlotHolder(r + 1, truth[i].tick) = truth[i].clients[r].user_id
    BY DEF HoldersRight, ReadWhole
  <2>4. \A i, r : NeoRow(i, r).tick = truth[i].tick /\ NeoRow(i, r).entity_id = r + 1 /\ NeoRow(i, r).name = truth[i].neo[r]
    BY DEF NeoRow
  <2>5. ASSUME NEW k \in own
        PROVE  k \in 1..Len(neoNames) /\ \E i \in shown : neoNames[k] = NeoRow(i, s)
    <3>1. k \in 1..Len(neoNames) /\ Given(k) /\ SlotHolder(neoNames[k].entity_id, neoNames[k].tick) = u
      BY DEF NamesGiven
    <3> HIDE DEF Given, own
    <3>2. PICK i \in 1..n, r \in Slot : neoNames[k] = NeoRow(i, r) /\ IsPlayer(truth[i].clients[r])
      BY <3>1 DEF NeoRows
    <3>3. truth[i].clients[r].user_id = u /\ truth[i].clients[r] # None
      BY <2>3, <2>4, <3>1, <3>2 DEF IsPlayer
    <3>4. p.entity_id = r + 1
      BY <3>3 DEF RowsAreConnections
    <3>5. r = s
      BY <2>2, <3>4, SlotsAreNumbers
    <3>6. Shows(i, s)
      BY <2>4, <3>1, <3>2, <3>5 DEF Given, Shows
    <3>7. i \in shown
      BY <3>3, <3>5, <3>6
    <3> QED BY <3>1, <3>2, <3>5, <3>7
  <2>6. ASSUME NEW i \in shown, NEW k \in 1..Len(neoNames), neoNames[k] = NeoRow(i, s)
        PROVE  k \in own
    <3>1. IsPlayer(truth[i].clients[s])
      BY <2>2 DEF NeoRows, Shows
    <3>2. SlotHolder(s + 1, truth[i].tick) = u
      BY <2>2, <2>3, <3>1
    <3>3. k \in NamesGiven
      <4>1. Shows(i, s)
        OBVIOUS
      <4>2. neoNames[k].name # ""
        BY <2>4, <2>6, <4>1 DEF Shows
      <4> QED BY <2>6, <4>2 DEF NamesGiven
    <3>4. neoNames[k].tick = truth[i].tick /\ neoNames[k].entity_id = s + 1
      BY <2>4, <2>6
    <3> QED BY <3>2, <3>3, <3>4
  <2>7. /\ shown \subseteq 1..n /\ own \subseteq 1..Len(neoNames)
        /\ shown \in SUBSET Int /\ IsFiniteSet(shown) /\ own \in SUBSET Int /\ IsFiniteSet(own)
    <3>1. shown \subseteq 1..n /\ own \subseteq 1..Len(neoNames)
      BY DEF NamesGiven
    <3>2. IsFiniteSet(1..n) /\ IsFiniteSet(1..Len(neoNames)) /\ 1..n \subseteq Int /\ 1..Len(neoNames) \subseteq Int
      BY <2>1, FS_Interval
    <3> HIDE DEF shown, own, n
    <3>3. IsFiniteSet(shown) /\ IsFiniteSet(own)
      BY <3>1, <3>2, FS_Subset
    <3> QED BY <3>1, <3>2, <3>3
  <2>8. NeoNameOf(p.user_id) = IF own = {} THEN None ELSE neoNames[Max(own)].name
    BY DEF NeoNameOf
  <2>9. CASE shown = {}
    <3>1. own = {}
      <4> HIDE DEF own, shown
      <4> QED BY <2>5, <2>9
    <3> HIDE DEF own, shown
    <3> QED BY <2>8, <2>9, <3>1 DEF s, shown, Shows
  <2>10. CASE shown # {}
    <3> DEFINE m == Max(shown)
               K == Max(own)
    <3> HIDE DEF own
    <3>1. m \in shown /\ \A i \in shown : i <= m
      <4> HIDE DEF shown
      <4> QED BY <2>7, <2>10, MaxOfSet
    <3> HIDE DEF m
    <3>2. m \in 1..n /\ Shows(m, s) /\ truth[m].clients[s].user_id = u
      BY <3>1
    <3>3. PICK j \in 1..m :
           /\ HasRow(j, s)
           /\ \A l \in j..m : /\ truth[l].clients[s] # None
                              /\ truth[l].clients[s].user_id = truth[m].clients[s].user_id
                              /\ truth[l].neo[s] = truth[m].neo[s]
      BY <2>1, <2>2, <3>2, RowBehind
    <3>4. j \in 1..n /\ j \in j..m /\ j \in shown
      <4>1. j \in 1..n /\ j \in j..m
        BY <2>1, <3>2
      <4>2. Shows(j, s)
        BY <3>2, <3>3, <4>1 DEF Shows
      <4> QED BY <3>2, <3>3, <4>1, <4>2
    <3> HIDE DEF shown
    <3>5. PICK k \in 1..Len(neoNames) : neoNames[k] = NeoRow(j, s)
      BY <3>3 DEF HasRow
    <3>6. k \in own
      BY <2>6, <3>4, <3>5
    <3>7. K \in own /\ k <= K
      BY <2>7, <3>6, MaxOfSet
    <3> HIDE DEF K
    <3>8. PICK i \in shown : neoNames[K] = NeoRow(i, s)
      BY <2>5, <3>7
    <3>9. neoNames[k].tick <= neoNames[K].tick
      BY <2>7, <3>6, <3>7 DEF NeoRows
    <3>10. truth[j].tick <= truth[i].tick
      BY <2>4, <3>5, <3>8, <3>9
    <3>11. i \in 1..n /\ i <= m
      BY <2>7, <3>1
    <3>12. ~ (i < j)
      <4>1. i < j => truth[i].tick < truth[j].tick
        BY <2>1, <3>4, <3>11 DEF Base, Frames
      <4> QED BY <2>1, <3>4, <3>10, <3>11, <4>1
    <3>13. i \in j..m
      BY <2>1, <3>2, <3>4, <3>11, <3>12
    <3>14. neoNames[K].name = truth[m].neo[s]
      BY <2>4, <3>3, <3>8, <3>13
    <3>15. own # {}
      BY <3>6
    <3> QED BY <2>8, <2>10, <3>14, <3>15 DEF s, shown, m, K, Shows
  <2> QED BY <2>9, <2>10
<1> QED BY <1>1, WhollyInductive, NeoRowsInductive, HoldersAreRight, RowsAreTheirConnections, PTL
==============================================================================
