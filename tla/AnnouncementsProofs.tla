-------------------------- MODULE AnnouncementsProofs --------------------------
(***************************************************************************)
(* Proofs about the recovery of the center texts, for every recording and  *)
(* every number of threads.                                                *)
(***************************************************************************)
EXTENDS Announcements, FiniteSetTheorems, TLAPS

(***************************************************************************)
(* Least elements, and the recursive functions that FlattenSeq and Dedup   *)
(* are defined by                                                          *)
(***************************************************************************)

\* A nonempty set of naturals has a least element.
LEMMA LeastNat ==
  ASSUME NEW S, S \subseteq Nat, S # {}
  PROVE  \E m \in S : \A n \in S : m <= n
<1> DEFINE less == OpToRel(<, Nat)
<1>1. IsWellFoundedOn(less, Nat)
  BY NatLessThanWellFounded
<1>2. \A a, b \in Nat : a < b => <<a, b>> \in less
  BY DEF OpToRel
<1> HIDE DEF less
<1>3. PICK m \in S : \A n \in S : ~(<<n, m>> \in less)
  BY <1>1, WFMin
<1>4. ASSUME NEW n \in S
      PROVE  m <= n
  <2>1. ~(<<n, m>> \in less) /\ m \in Nat /\ n \in Nat
    BY <1>3
  <2>2. ~(n < m)
    BY <1>2, <2>1
  <2> QED BY <2>1, <2>2
<1> QED BY <1>4

\* A function f that starts from b and steps by g over 1..n.
IsFold(f, g, b, n) == f[0] = b /\ \A i \in 1..n : f[i] = g[<<f[i - 1], i>>]

\* There is such a function, with its values where the start and the steps are.
LEMMA FoldExists ==
  ASSUME NEW A, NEW n \in Nat, NEW b \in A, NEW g \in [A \X (1..n) -> A]
  PROVE  \E f \in [0..n -> A] : IsFold(f, g, b, n)
<1> DEFINE Has(m) == \E f \in [0..m -> A] : IsFold(f, g, b, m)
<1>1. Has(0)
  <2>1. [i \in 0..0 |-> b] \in [0..0 -> A]
    OBVIOUS
  <2>2. IsFold([i \in 0..0 |-> b], g, b, 0)
    BY DEF IsFold
  <2> QED BY <2>1, <2>2
<1>2. ASSUME NEW m \in 1..n, Has(m - 1)
      PROVE  Has(m)
  <2>1. PICK f \in [0..(m - 1) -> A] : IsFold(f, g, b, m - 1)
    BY <1>2
  <2>2. m \in Nat /\ m >= 1 /\ m <= n /\ m - 1 \in 0..(m - 1) /\ m - 1 \in Nat
    OBVIOUS
  <2> DEFINE last == g[<<f[m - 1], m>>]
             h == [i \in 0..m |-> IF i = m THEN last ELSE f[i]]
  <2>3. f[m - 1] \in A
    BY <2>1, <2>2
  <2>4. last \in A
    BY <2>3
  <2>5. \A i \in 0..m : i # m => i \in 0..(m - 1) /\ f[i] \in A
    <3>1. \A i \in 0..m : i # m => i \in 0..(m - 1)
      BY <2>2
    <3> QED BY <3>1
  <2>6. h \in [0..m -> A]
    <3> HIDE DEF last
    <3> QED BY <2>4, <2>5
  <2>7. h[0] = b
    <3>1. 0 \in 0..m /\ 0 # m
      BY <2>2
    <3>2. h[0] = f[0]
      BY <3>1
    <3> QED BY <3>2, <2>1 DEF IsFold
  <2>8. ASSUME NEW i \in 1..m
        PROVE  h[i] = g[<<h[i - 1], i>>]
    <3>1. i \in 0..m /\ i - 1 \in 0..m /\ i - 1 # m
      BY <2>2
    <3>2. h[i - 1] = f[i - 1]
      BY <3>1
    <3>3. CASE i = m
      <4>1. h[i] = last
        BY <3>1, <3>3
      <4> QED BY <4>1, <3>2, <3>3
    <3>4. CASE i # m
      <4>1. i \in 1..(m - 1)
        BY <3>4, <2>2
      <4>2. f[i] = g[<<f[i - 1], i>>]
        BY <2>1, <4>1 DEF IsFold
      <4>3. h[i] = f[i]
        BY <3>1, <3>4
      <4> QED BY <4>2, <4>3, <3>2
    <3> QED BY <3>3, <3>4
  <2>9. IsFold(h, g, b, m)
    <3> HIDE DEF h
    <3> QED BY <2>7, <2>8 DEF IsFold
  <2> QED BY <2>6, <2>9
<1> DEFINE Bad == {m \in 0..n : ~ Has(m)}
<1> HIDE DEF Has
<1>3. Bad = {}
  <2>1. SUFFICES ASSUME Bad # {} PROVE FALSE
    OBVIOUS
  <2>2. Bad \subseteq Nat
    OBVIOUS
  <2>3. PICK m \in Bad : \A y \in Bad : m <= y
    <3> HIDE DEF Bad
    <3> QED BY <2>1, <2>2, LeastNat
  <2>4. m \in 0..n /\ ~ Has(m) /\ m # 0
    BY <1>1
  <2>5. m \in 1..n /\ m - 1 \in 0..n /\ ~ (m <= m - 1)
    BY <2>4
  <2>6. Has(m - 1)
    BY <2>3, <2>5
  <2> QED BY <1>2, <2>4, <2>5, <2>6
<1>4. n \in 0..n
  OBVIOUS
<1>5. Has(n)
  BY <1>3, <1>4
<1> QED BY <1>5 DEF Has

\* FlattenSeq is what the fold of concatenation ends with.
LEMMA FlattenIsFold ==
  ASSUME NEW S, NEW seqs \in Seq(Seq(S)), NEW f \in [0..Len(seqs) -> Seq(S)],
         f[0] = <<>>, \A i \in 1..Len(seqs) : f[i] = f[i - 1] \o seqs[i]
  PROVE  FlattenSeq(seqs) = f[Len(seqs)]
<1> DEFINE n == Len(seqs)
           Eq(h) == h = [i \in 1..n |-> IF i = 1 THEN seqs[i] ELSE h[i - 1] \o seqs[i]]
           fl == CHOOSE h : Eq(h)
<1>1. n \in Nat /\ (n > 0 => 1 \in 1..n /\ n \in 1..n) /\ \A i \in 1..n : seqs[i] \in Seq(S)
  OBVIOUS
<1>2. n > 0 => f[1] = seqs[1]
  <2>1. SUFFICES ASSUME n > 0 PROVE f[1] = seqs[1]
    OBVIOUS
  <2>2. f[1] = f[1 - 1] \o seqs[1] /\ seqs[1] \in Seq(S)
    BY <1>1, <2>1
  <2>3. f[1 - 1] = <<>>
    OBVIOUS
  <2>4. <<>> \o seqs[1] = seqs[1]
    BY <2>2
  <2> QED BY <2>2, <2>3, <2>4
<1>3. CASE n = 0
  BY <1>3 DEF FlattenSeq
<1>4. CASE n > 0
  <2>1. FlattenSeq(seqs) = fl[n]
    BY <1>4 DEF FlattenSeq
  <2>2. \E h : Eq(h)
    <3> DEFINE h == [i \in 1..n |-> f[i]]
    <3>1. ASSUME NEW i \in 1..n
          PROVE  h[i] = IF i = 1 THEN seqs[i] ELSE h[i - 1] \o seqs[i]
      <4>1. CASE i = 1
        BY <4>1, <1>2, <1>4
      <4>2. CASE i # 1
        <5>1. i - 1 \in 1..n
          BY <4>2, <1>1
        <5>2. h[i - 1] = f[i - 1]
          BY <5>1
        <5> QED BY <5>2, <4>2
      <4> QED BY <4>1, <4>2
    <3>2. h = [i \in 1..n |-> h[i]]
      OBVIOUS
    <3> HIDE DEF h
    <3>3. Eq(h)
      BY <3>1, <3>2
    <3> QED BY <3>3
  <2>3. Eq(fl)
    BY <2>2
  <2> HIDE DEF fl
  <2>4. \A i \in 1..n : fl[i] = IF i = 1 THEN seqs[i] ELSE fl[i - 1] \o seqs[i]
    BY <2>3
  <2> DEFINE Bad == {i \in 1..n : fl[i] # f[i]}
  <2>5. Bad = {}
    <3>1. SUFFICES ASSUME Bad # {} PROVE FALSE
      OBVIOUS
    <3>2. Bad \subseteq Nat
      BY <1>1
    <3>3. PICK m \in Bad : \A y \in Bad : m <= y
      <4> HIDE DEF Bad
      <4> QED BY <3>1, <3>2, LeastNat
    <3>4. m \in 1..n /\ fl[m] # f[m]
      OBVIOUS
    <3>5. CASE m = 1
      BY <2>4, <1>2, <1>4, <3>4, <3>5
    <3>6. CASE m # 1
      <4>1. m - 1 \in 1..n /\ ~ (m <= m - 1)
        BY <1>1, <3>4, <3>6
      <4>2. fl[m - 1] = f[m - 1]
        BY <3>3, <4>1
      <4>3. fl[m] = fl[m - 1] \o seqs[m] /\ f[m] = f[m - 1] \o seqs[m]
        BY <2>4, <3>4, <3>6
      <4> QED BY <4>2, <4>3, <3>4
    <3> QED BY <3>5, <3>6
  <2>6. fl[n] = f[n]
    BY <2>5, <1>1, <1>4
  <2> QED BY <2>1, <2>6
<1> QED BY <1>1, <1>3, <1>4

\* Flattening is concatenation, one sequence more at a time.
LEMMA FlattenAppend ==
  ASSUME NEW S, NEW seqs \in Seq(Seq(S)), NEW x \in Seq(S)
  PROVE  /\ FlattenSeq(seqs) \in Seq(S)
         /\ FlattenSeq(Append(seqs, x)) = FlattenSeq(seqs) \o x
<1> DEFINE n == Len(seqs)
           all == Append(seqs, x)
           g == [p \in Seq(S) \X (1..(n + 1)) |-> p[1] \o all[p[2]]]
<1>1. n \in Nat /\ all \in Seq(Seq(S)) /\ Len(all) = n + 1 /\ all[n + 1] = x
      /\ (\A i \in 1..(n + 1) : all[i] \in Seq(S)) /\ (\A i \in 1..n : all[i] = seqs[i])
  OBVIOUS
<1> HIDE DEF all
<1>2. g \in [Seq(S) \X (1..(n + 1)) -> Seq(S)]
  <2>1. ASSUME NEW p \in Seq(S) \X (1..(n + 1))
        PROVE  p[1] \o all[p[2]] \in Seq(S)
    <3>1. p[1] \in Seq(S) /\ all[p[2]] \in Seq(S)
      BY <1>1
    <3> QED BY <3>1
  <2> QED BY <2>1
<1>3. PICK f \in [0..(n + 1) -> Seq(S)] : IsFold(f, g, <<>>, n + 1)
  <2>1. <<>> \in Seq(S) /\ n + 1 \in Nat
    BY <1>1
  <2> HIDE DEF g, n
  <2> QED BY <1>2, <2>1, FoldExists
<1>4. f[0] = <<>> /\ \A i \in 1..(n + 1) : f[i] = f[i - 1] \o all[i]
  <2>1. ASSUME NEW i \in 1..(n + 1)
        PROVE  f[i] = f[i - 1] \o all[i]
    <3>1. f[i] = g[<<f[i - 1], i>>]
      BY <1>3 DEF IsFold
    <3>2. i - 1 \in 0..(n + 1)
      BY <1>1
    <3>3. <<f[i - 1], i>> \in Seq(S) \X (1..(n + 1))
      BY <3>2
    <3>4. g[<<f[i - 1], i>>] = f[i - 1] \o all[i]
      BY <3>3
    <3> QED BY <3>1, <3>4
  <2> QED BY <1>3, <2>1 DEF IsFold
<1>5. FlattenSeq(all) = f[n + 1]
  BY <1>1, <1>4, FlattenIsFold
<1> DEFINE h == [i \in 0..n |-> f[i]]
<1>6. h \in [0..n -> Seq(S)] /\ h[0] = <<>> /\ h[n] = f[n] /\ f[n] \in Seq(S)
  BY <1>1, <1>4
<1>7. \A i \in 1..n : h[i] = h[i - 1] \o seqs[i]
  <2>1. ASSUME NEW i \in 1..n
        PROVE  h[i] = h[i - 1] \o seqs[i]
    <3>1. i \in 0..n /\ i - 1 \in 0..n /\ i \in 1..(n + 1)
      BY <1>1
    <3>2. h[i] = f[i] /\ h[i - 1] = f[i - 1] /\ all[i] = seqs[i]
      BY <3>1, <1>1
    <3> QED BY <3>1, <3>2, <1>4
  <2> QED BY <2>1
<1>8. FlattenSeq(seqs) = h[n]
  <2> HIDE DEF h
  <2> QED BY <1>6, <1>7, FlattenIsFold
<1>9. f[n + 1] = f[n] \o x
  <2>1. n + 1 \in 1..(n + 1) /\ (n + 1) - 1 = n
    BY <1>1
  <2> QED BY <2>1, <1>1, <1>4
<1> QED BY <1>5, <1>6, <1>8, <1>9 DEF all

LEMMA FlattenEmpty == FlattenSeq(<<>>) = <<>>
BY DEF FlattenSeq

-----------------------------------------------------------------------------
(* Dropping resends                                                        *)

Heard(kept, a) == IF Resend(kept, a) THEN kept ELSE Append(kept, a)

\* Dedup is what comes of hearing the announcements one by one.
LEMMA DedupIsFold ==
  ASSUME NEW s \in Seq(Announcement)
  PROVE  \E f \in [0..Len(s) -> Seq(Announcement)] :
           /\ f[0] = <<>> /\ \A i \in 1..Len(s) : f[i] = Heard(f[i - 1], s[i])
           /\ Dedup(s) = f[Len(s)]
<1> DEFINE A == Seq(Announcement)
           n == Len(s)
           g == [p \in A \X (1..n) |-> Heard(p[1], s[p[2]])]
           Step(h) == [i \in 0..n |-> IF i = 0 THEN <<>>
                         ELSE IF Resend(h[i - 1], s[i]) THEN h[i - 1] ELSE Append(h[i - 1], s[i])]
           Eq(h) == h = Step(h)
           kept == CHOOSE h : Eq(h)
<1>1. n \in Nat /\ n \in 0..n /\ \A i \in 1..n : s[i] \in Announcement
  OBVIOUS
<1>2. g \in [A \X (1..n) -> A]
  <2>1. ASSUME NEW p \in A \X (1..n)
        PROVE  Heard(p[1], s[p[2]]) \in A
    <3>1. p[1] \in A /\ s[p[2]] \in Announcement
      BY <1>1
    <3> QED BY <3>1 DEF Heard
  <2> QED BY <2>1
<1>3. PICK f \in [0..n -> A] : IsFold(f, g, <<>>, n)
  <2>1. <<>> \in A
    OBVIOUS
  <2> HIDE DEF g, n, A
  <2> QED BY <1>1, <1>2, <2>1, FoldExists
<1>4. f[0] = <<>> /\ \A i \in 1..n : f[i] = Heard(f[i - 1], s[i])
  <2>1. ASSUME NEW i \in 1..n
        PROVE  f[i] = Heard(f[i - 1], s[i])
    <3>1. f[i] = g[<<f[i - 1], i>>]
      BY <1>3 DEF IsFold
    <3>2. i - 1 \in 0..n
      BY <1>1
    <3>3. <<f[i - 1], i>> \in A \X (1..n)
      BY <3>2
    <3>4. g[<<f[i - 1], i>>] = Heard(f[i - 1], s[i])
      BY <3>3
    <3> QED BY <3>1, <3>4
  <2> QED BY <1>3, <2>1 DEF IsFold
<1>5. Dedup(s) = kept[n]
  BY DEF Dedup
<1>6. Eq(f)
  <2>1. ASSUME NEW i \in 0..n
        PROVE  f[i] = IF i = 0 THEN <<>>
                      ELSE IF Resend(f[i - 1], s[i]) THEN f[i - 1] ELSE Append(f[i - 1], s[i])
    <3>1. CASE i = 0
      BY <3>1, <1>4
    <3>2. CASE i # 0
      <4>1. i \in 1..n
        BY <3>2, <1>1
      <4> QED BY <4>1, <3>2, <1>4 DEF Heard
    <3> QED BY <3>1, <3>2
  <2>2. f = [i \in 0..n |-> f[i]]
    OBVIOUS
  <2> QED BY <2>1, <2>2
<1>7. Eq(kept)
  <2> HIDE DEF Eq
  <2> QED BY <1>6
<1> HIDE DEF kept
<1>8. \A i \in 0..n : kept[i] = Step(kept)[i]
  <2> HIDE DEF Step
  <2> QED BY <1>7
<1>9. kept[0] = <<>> /\ \A i \in 1..n : kept[i] = Heard(kept[i - 1], s[i])
  <2>1. 0 \in 0..n
    BY <1>1
  <2>2. ASSUME NEW i \in 1..n
        PROVE  kept[i] = Heard(kept[i - 1], s[i])
    <3>1. i \in 0..n /\ i # 0
      BY <1>1
    <3> QED BY <3>1, <1>8 DEF Heard
  <2> QED BY <2>1, <2>2, <1>8
<1> DEFINE Bad == {i \in 0..n : kept[i] # f[i]}
<1>10. Bad = {}
  <2>1. SUFFICES ASSUME Bad # {} PROVE FALSE
    OBVIOUS
  <2>2. Bad \subseteq Nat
    BY <1>1
  <2>3. PICK m \in Bad : \A y \in Bad : m <= y
    <3> HIDE DEF Bad
    <3> QED BY <2>1, <2>2, LeastNat
  <2>4. m \in 0..n /\ kept[m] # f[m]
    OBVIOUS
  <2>5. m # 0
    BY <2>4, <1>4, <1>9
  <2>6. m \in 1..n /\ m - 1 \in 0..n /\ ~ (m <= m - 1)
    BY <1>1, <2>4, <2>5
  <2>7. kept[m - 1] = f[m - 1]
    BY <2>3, <2>6
  <2> QED BY <2>4, <2>6, <2>7, <1>4, <1>9
<1>11. kept[n] = f[n]
  BY <1>1, <1>10
<1> QED BY <1>4, <1>5, <1>11

\* The announcements kept of some that are in tick order: every one of them
\* has one of its text before it, less than the window ago or on its tick.
Answered(kept, s, i) ==
  \A j \in 1..i : \E k \in DOMAIN kept :
    /\ kept[k].text = s[j].text /\ kept[k].tick <= s[j].tick
    /\ kept[k].tick = s[j].tick \/ s[j].tick - kept[k].tick < Window

KeptOnes(kept, s, i) ==
  /\ i > 0 => kept # <<>>
  /\ \A k \in DOMAIN kept : \E j \in 1..i : kept[k] = s[j]
  /\ Answered(kept, s, i)

LEMMA DedupKeeps ==
  ASSUME NEW s \in Seq(Announcement), \A i, j \in 1..Len(s) : i <= j => s[i].tick <= s[j].tick
  PROVE  Dedup(s) \in Seq(Announcement) /\ Answered(Dedup(s), s, Len(s))
<1> DEFINE n == Len(s)
<1>1. PICK f \in [0..n -> Seq(Announcement)] :
        /\ f[0] = <<>> /\ \A i \in 1..n : f[i] = Heard(f[i - 1], s[i])
        /\ Dedup(s) = f[n]
  BY DedupIsFold
<1>2. n \in Nat /\ n \in 0..n /\ \A i \in 1..n : s[i] \in Announcement
  OBVIOUS
<1>3. \A i \in 1..n : s[i].tick \in Nat
  BY <1>2 DEF Announcement
<1>4. KeptOnes(f[0], s, 0)
  BY <1>1 DEF KeptOnes, Answered
<1>5. ASSUME NEW i \in 1..n, KeptOnes(f[i - 1], s, i - 1)
      PROVE  KeptOnes(f[i], s, i)
  <2> DEFINE old == f[i - 1]
  <2>1. i - 1 \in 0..n /\ i \in 0..n /\ i \in Nat /\ i > 0
    BY <1>2
  <2>2. old \in Seq(Announcement) /\ s[i] \in Announcement
    BY <1>2, <2>1
  <2>3. f[i] = Heard(old, s[i])
    BY <1>1
  <2>4. \A j \in 1..i : j = i \/ j \in 1..(i - 1)
    BY <2>1
  <2>5. \A j \in 1..(i - 1) : j \in 1..i /\ j \in 1..n /\ s[j].tick <= s[i].tick
    BY <1>2, <2>1
  <2> HIDE DEF old
  <2>6. CASE Resend(old, s[i])
    <3>1. f[i] = old
      BY <2>3, <2>6 DEF Heard
    <3>2. Len(old) \in DOMAIN old /\ Last(old) = old[Len(old)] /\ Last(old).text = s[i].text
          /\ s[i].tick - Last(old).tick < Window
      BY <2>2, <2>6 DEF Resend, Last
    <3>3. PICK j \in 1..(i - 1) : old[Len(old)] = s[j]
      BY <1>5, <3>2 DEF KeptOnes, old
    <3>4. old[Len(old)].tick <= s[i].tick
      BY <2>5, <3>3
    <3>5. Answered(old, s, i)
      <4>1. ASSUME NEW j2 \in 1..i
            PROVE  \E k \in DOMAIN old :
                     /\ old[k].text = s[j2].text /\ old[k].tick <= s[j2].tick
                     /\ old[k].tick = s[j2].tick \/ s[j2].tick - old[k].tick < Window
        <5>1. CASE j2 = i
          BY <3>2, <3>4, <5>1
        <5>2. CASE j2 \in 1..(i - 1)
          BY <1>5, <5>2 DEF KeptOnes, Answered, old
        <5> QED BY <5>1, <5>2, <2>4
      <4> QED BY <4>1 DEF Answered
    <3>6. \A k \in DOMAIN old : \E j3 \in 1..i : old[k] = s[j3]
      BY <1>5, <2>5 DEF KeptOnes, old
    <3>7. old # <<>>
      BY <2>6 DEF Resend
    <3> QED BY <3>1, <3>5, <3>6, <3>7 DEF KeptOnes
  <2>7. CASE ~ Resend(old, s[i])
    <3> DEFINE new == Append(old, s[i])
    <3>1. f[i] = new
      BY <2>3, <2>7 DEF Heard
    <3>2. /\ new # <<>> /\ Len(old) + 1 \in DOMAIN new /\ new[Len(old) + 1] = s[i]
          /\ \A k \in DOMAIN old : k \in DOMAIN new /\ new[k] = old[k]
          /\ \A k \in DOMAIN new : k = Len(old) + 1 \/ k \in DOMAIN old
      BY <2>2
    <3> HIDE DEF new
    <3>3. Answered(new, s, i)
      <4>1. ASSUME NEW j \in 1..i
            PROVE  \E k \in DOMAIN new :
                     /\ new[k].text = s[j].text /\ new[k].tick <= s[j].tick
                     /\ new[k].tick = s[j].tick \/ s[j].tick - new[k].tick < Window
        <5>1. CASE j = i
          BY <3>2, <5>1, <1>3
        <5>2. CASE j \in 1..(i - 1)
          <6>1. PICK k \in DOMAIN old :
                  /\ old[k].text = s[j].text /\ old[k].tick <= s[j].tick
                  /\ old[k].tick = s[j].tick \/ s[j].tick - old[k].tick < Window
            BY <1>5, <5>2 DEF KeptOnes, Answered, old
          <6> QED BY <6>1, <3>2
        <5> QED BY <5>1, <5>2, <2>4
      <4> QED BY <4>1 DEF Answered
    <3>4. \A k \in DOMAIN new : \E j \in 1..i : new[k] = s[j]
      <4>1. ASSUME NEW k \in DOMAIN new
            PROVE  \E j \in 1..i : new[k] = s[j]
        <5>1. CASE k = Len(old) + 1
          BY <5>1, <3>2, <2>1
        <5>2. CASE k \in DOMAIN old
          <6>1. PICK j \in 1..(i - 1) : old[k] = s[j]
            BY <1>5, <5>2 DEF KeptOnes, old
          <6> QED BY <6>1, <2>5, <3>2, <5>2
        <5> QED BY <5>1, <5>2, <3>2
      <4> QED BY <4>1
    <3> QED BY <3>1, <3>2, <3>3, <3>4 DEF KeptOnes
  <2> QED BY <2>6, <2>7
<1> DEFINE Bad == {m \in 0..n : ~ KeptOnes(f[m], s, m)}
<1>6. Bad = {}
  <2>1. SUFFICES ASSUME Bad # {} PROVE FALSE
    OBVIOUS
  <2>2. Bad \subseteq Nat
    BY <1>2
  <2>3. PICK m \in Bad : \A y \in Bad : m <= y
    <3> HIDE DEF Bad
    <3> QED BY <2>1, <2>2, LeastNat
  <2>4. m \in 0..n /\ ~ KeptOnes(f[m], s, m)
    OBVIOUS
  <2>5. m # 0
    BY <2>4, <1>4
  <2>6. m \in 1..n /\ m - 1 \in 0..n /\ ~ (m <= m - 1)
    BY <1>2, <2>4, <2>5
  <2>7. KeptOnes(f[m - 1], s, m - 1)
    BY <2>3, <2>6
  <2> QED BY <2>4, <2>6, <2>7, <1>5
<1>7. KeptOnes(f[n], s, n)
  BY <1>2, <1>6
<1> QED BY <1>1, <1>2, <1>7 DEF KeptOnes

\* In any order, what is kept are announcements.
LEMMA DedupType ==
  ASSUME NEW s \in Seq(Announcement)
  PROVE  Dedup(s) \in Seq(Announcement)
<1>1. PICK f \in [0..Len(s) -> Seq(Announcement)] : Dedup(s) = f[Len(s)]
  BY DedupIsFold
<1>2. Len(s) \in 0..Len(s)
  OBVIOUS
<1> QED BY <1>1, <1>2

-----------------------------------------------------------------------------
(* The stable sort                                                         *)

Before(s, i) == {j \in DOMAIN s : s[j].tick < s[i].tick \/ (s[j].tick = s[i].tick /\ j < i)}

\* Every place of the sorted sequence is that of one element.
LEMMA Ranks ==
  ASSUME NEW s \in Seq(Announcement)
  PROVE  /\ \A i \in 1..Len(s) : IsFiniteSet(Before(s, i)) /\ Cardinality(Before(s, i)) \in 0..(Len(s) - 1)
         /\ \A i, j \in 1..Len(s) :
              i \in Before(s, j) => Cardinality(Before(s, i)) < Cardinality(Before(s, j))
         /\ \A k \in 1..Len(s) : \E i \in 1..Len(s) : Cardinality(Before(s, i)) = k - 1
<1> DEFINE n == Len(s)
           C(i) == Cardinality(Before(s, i))
<1>1. n \in Nat /\ DOMAIN s = 1..n /\ \A i \in 1..n : s[i].tick \in Nat
  <2>1. \A i \in 1..n : s[i] \in Announcement
    OBVIOUS
  <2> QED BY <2>1 DEF Announcement
<1>2. IsFiniteSet(1..n) /\ Cardinality(1..n) = n
  BY <1>1, FS_Interval
<1>3. ASSUME NEW i \in 1..n
      PROVE  IsFiniteSet(Before(s, i)) /\ C(i) \in 0..(n - 1)
  <2>1. Before(s, i) \in SUBSET (1..n) /\ i \notin Before(s, i)
    BY <1>1 DEF Before
  <2>2. IsFiniteSet(Before(s, i)) /\ C(i) <= n /\ (n = C(i) => 1..n = Before(s, i))
    BY <1>2, <2>1, FS_Subset
  <2>3. C(i) \in Nat
    BY <2>2, FS_CardinalityType
  <2> HIDE DEF C
  <2>4. C(i) # n
    BY <2>1, <2>2
  <2> QED BY <2>2, <2>3, <2>4, <1>1
<1>4. ASSUME NEW i \in 1..n, NEW j \in 1..n, i \in Before(s, j)
      PROVE  C(i) < C(j)
  <2>1. Before(s, i) \in SUBSET Before(s, j) /\ i \notin Before(s, i)
    BY <1>1, <1>4 DEF Before
  <2>2. IsFiniteSet(Before(s, j)) /\ C(i) \in Nat /\ C(j) \in Nat
    BY <1>1, <1>3
  <2>3. C(i) <= C(j) /\ (C(j) = C(i) => Before(s, j) = Before(s, i))
    BY <2>1, <2>2, FS_Subset
  <2> HIDE DEF C
  <2>4. C(i) # C(j)
    BY <2>1, <2>3, <1>4
  <2> QED BY <2>2, <2>3, <2>4
<1>5. ASSUME NEW i \in 1..n, NEW j \in 1..n, i # j
      PROVE  i \in Before(s, j) \/ j \in Before(s, i)
  BY <1>1, <1>5 DEF Before
<1> DEFINE r == [i \in 1..n |-> C(i) + 1]
<1>6. r \in Injection(1..n, 1..n)
  <2>1. \A i \in 1..n : C(i) + 1 \in 1..n
    BY <1>1, <1>3
  <2>2. \A i, j \in 1..n : i # j => C(i) + 1 # C(j) + 1
    <3> SUFFICES ASSUME NEW i \in 1..n, NEW j \in 1..n, i # j PROVE C(i) + 1 # C(j) + 1
      OBVIOUS
    <3>1. C(i) \in Nat /\ C(j) \in Nat
      BY <1>3, <1>1
    <3>2. C(i) < C(j) \/ C(j) < C(i)
      BY <1>4, <1>5
    <3> HIDE DEF C
    <3> QED BY <3>1, <3>2
  <2> HIDE DEF C
  <2>3. r \in [1..n -> 1..n]
    BY <2>1
  <2>4. \A i, j \in 1..n : r[i] = r[j] => i = j
    BY <2>2
  <2> QED BY <2>3, <2>4 DEF Injection, IsInjective
<1>7. r \in Surjection(1..n, 1..n)
  <2> HIDE DEF r
  <2> QED BY <1>2, <1>6, FS_Injection
<1>8. ASSUME NEW k \in 1..n
      PROVE  \E i \in 1..n : C(i) = k - 1
  <2>1. PICK i \in 1..n : r[i] = k
    <3> HIDE DEF r
    <3> QED BY <1>7 DEF Surjection
  <2>2. C(i) + 1 = k /\ C(i) \in Nat
    BY <2>1, <1>3, <1>1
  <2> HIDE DEF C
  <2> QED BY <2>2
<1> QED BY <1>3, <1>4, <1>8

\* The sorted announcements are the same ones, in tick order.
LEMMA Sorted ==
  ASSUME NEW s \in Seq(Announcement)
  PROVE  /\ ByTick(s) \in Seq(Announcement) /\ Len(ByTick(s)) = Len(s)
         /\ \A k, l \in 1..Len(s) : k <= l => ByTick(s)[k].tick <= ByTick(s)[l].tick
         /\ \A i \in 1..Len(s) : \E k \in 1..Len(s) : ByTick(s)[k] = s[i]
<1> DEFINE n == Len(s)
           Rank(i) == Cardinality(Before(s, i))
           At(k) == CHOOSE i \in 1..n : Rank(i) = k - 1
<1>1. n \in Nat /\ DOMAIN s = 1..n /\ (\A i \in 1..n : s[i] \in Announcement /\ s[i].tick \in Nat)
  <2>1. \A i \in 1..n : s[i] \in Announcement
    OBVIOUS
  <2> QED BY <2>1 DEF Announcement
<1>2. ByTick(s) = [k \in 1..n |-> s[At(k)]]
  BY <1>1 DEF ByTick, Before
<1>3. \A k \in 1..n : At(k) \in 1..n /\ Rank(At(k)) = k - 1
  BY Ranks
<1> HIDE DEF At
<1>4. /\ \A i \in 1..n : Rank(i) \in 0..(n - 1)
      /\ \A i, j \in 1..n : i \in Before(s, j) => Rank(i) < Rank(j)
  BY Ranks
<1> HIDE DEF Rank
<1>5. ByTick(s) \in Seq(Announcement) /\ Len(ByTick(s)) = n
  BY <1>1, <1>2, <1>3
<1>6. ASSUME NEW k \in 1..n, NEW l \in 1..n, k <= l
      PROVE  s[At(k)].tick <= s[At(l)].tick
  <2>0. At(k) \in 1..n /\ At(l) \in 1..n /\ s[At(k)].tick \in Nat /\ s[At(l)].tick \in Nat
    BY <1>1, <1>3
  <2>1. SUFFICES ASSUME s[At(l)].tick < s[At(k)].tick PROVE FALSE
    BY <2>0
  <2>2. At(l) \in Before(s, At(k))
    BY <2>1, <1>1, <1>3 DEF Before
  <2>3. l - 1 < k - 1
    BY <2>2, <1>3, <1>4
  <2> QED BY <2>3, <1>6
<1>7. ASSUME NEW i \in 1..n
      PROVE  \E k \in 1..n : s[At(k)] = s[i]
  <2> DEFINE k == Rank(i) + 1
  <2>1. k \in 1..n /\ Rank(i) \in Nat /\ k - 1 = Rank(i)
    BY <1>1, <1>4
  <2>2. At(k) \in 1..n /\ Rank(At(k)) = Rank(i)
    BY <1>3, <2>1
  <2> HIDE DEF k
  <2>3. ~ (Rank(At(k)) < Rank(i)) /\ ~ (Rank(i) < Rank(At(k)))
    BY <2>1, <2>2
  <2>4. At(k) \notin Before(s, i) /\ i \notin Before(s, At(k))
    BY <2>2, <2>3, <1>4
  <2>5. s[At(k)].tick \in Nat /\ s[i].tick \in Nat /\ At(k) \in Nat /\ i \in Nat
    BY <1>1, <2>2
  <2>6. At(k) = i
    BY <2>2, <2>4, <2>5, <1>1 DEF Before
  <2> QED BY <2>1, <2>6
<1> QED BY <1>1, <1>2, <1>5, <1>6, <1>7

-----------------------------------------------------------------------------
(* The chunks                                                              *)

LEMMA MaxOfTwo ==
  ASSUME NEW a \in Int, NEW b \in Int
  PROVE  Max({a, b}) \in {a, b} /\ a <= Max({a, b}) /\ b <= Max({a, b})
<1>1. \E m \in {a, b} : \A y \in {a, b} : m >= y
  OBVIOUS
<1>2. Max({a, b}) \in {a, b} /\ \A y \in {a, b} : Max({a, b}) >= y
  BY <1>1 DEF Max
<1> QED BY <1>2

LEMMA MinOfTwo ==
  ASSUME NEW a \in Int, NEW b \in Int
  PROVE  Min({a, b}) \in {a, b} /\ Min({a, b}) <= a /\ Min({a, b}) <= b
<1>1. \E m \in {a, b} : \A y \in {a, b} : m <= y
  OBVIOUS
<1>2. Min({a, b}) \in {a, b} /\ \A y \in {a, b} : Min({a, b}) <= y
  BY <1>1 DEF Min
<1> QED BY <1>2

LEMMA DivBounds ==
  ASSUME NEW a \in Nat, NEW d \in Nat, d > 0
  PROVE  a \div d \in Nat /\ (a \div d) * d <= a /\ a < (a \div d) * d + d
OBVIOUS

LEMMA TimesMonotone ==
  ASSUME NEW a \in Nat, NEW b \in Nat, NEW c \in Nat, a <= b
  PROVE  a * c <= b * c /\ a * c \in Nat /\ b * c \in Nat
OBVIOUS

Size == ChunkSize(Len(packets))

\* The packet after which the chunk of worker w ends.
Cut(w) == Min({Len(packets), w * Size})

\* The chunks share out the packets, among no more workers than threads.
LEMMA Shares ==
  ASSUME packets \in Seq(Packet), threads \in Nat
  PROVE  /\ Size \in Nat \ {0} /\ Len(Chunks) \in Nat /\ Len(Chunks) <= Max({1, threads})
         /\ Chunks \in Seq(Seq(Packet))
         /\ \A w \in 1..Len(Chunks) :
              /\ Cut(w - 1) \in 0..Cut(w) /\ Cut(w) \in 0..Len(packets)
              /\ Chunks[w] = SubSeq(packets, Cut(w - 1) + 1, Cut(w))
         /\ Cut(0) = 0 /\ Cut(Len(Chunks)) = Len(packets)
<1> DEFINE n == Len(packets)
           t == Max({1, threads})
           c == (n + t - 1) \div t
           N == (n + Size - 1) \div Size
<1>1. n \in Nat /\ t \in Nat /\ t >= 1
  <2>1. 1 \in Int /\ threads \in Int
    OBVIOUS
  <2>2. t \in {1, threads} /\ 1 <= t
    BY <2>1, MaxOfTwo
  <2> HIDE DEF t
  <2> QED BY <2>2
<1>2. Size = Max({1, c})
  BY DEF Size, ChunkSize
<1> HIDE DEF t
<1>3. c \in Nat /\ n + t - 1 < c * t + t /\ c * t \in Nat
  <2>1. n + t - 1 \in Nat
    BY <1>1
  <2> QED BY <1>1, <2>1, DivBounds
<1> HIDE DEF c
<1>4. Size \in Nat /\ Size >= 1 /\ Size >= c
  BY <1>2, <1>3, MaxOfTwo
<1>5. N \in Nat /\ N * Size <= n + Size - 1 /\ n + Size - 1 < N * Size + Size /\ N * Size \in Nat
  <2>1. n + Size - 1 \in Nat
    BY <1>1, <1>4
  <2>2. N \in Nat /\ N * Size <= n + Size - 1 /\ n + Size - 1 < N * Size + Size
    BY <1>4, <2>1, DivBounds
  <2> HIDE DEF N
  <2> QED BY <1>4, <2>2, TimesMonotone
<1>6. Chunks = [w \in 1..N |-> SubSeq(packets, (w - 1) * Size + 1, Cut(w))]
  BY DEF Chunks, Cut, Size
<1> HIDE DEF N
<1>7. N <= t
  <2>1. SUFFICES ASSUME N >= t + 1 PROVE FALSE
    BY <1>1, <1>5
  <2>2. (t + 1) * Size <= N * Size /\ (t + 1) * Size = t * Size + Size /\ t * Size \in Nat
    BY <1>1, <1>4, <1>5, <2>1, TimesMonotone
  <2>3. c * t <= Size * t /\ Size * t = t * Size
    BY <1>1, <1>3, <1>4, TimesMonotone
  <2>4. n <= c * t
    BY <1>1, <1>3
  <2> QED BY <1>1, <1>3, <1>4, <1>5, <2>2, <2>3, <2>4
<1>8. \A w \in Nat : w * Size \in Nat /\ Cut(w) \in {n, w * Size} /\ Cut(w) <= n /\ Cut(w) <= w * Size
  <2> SUFFICES ASSUME NEW w \in Nat
               PROVE  w * Size \in Nat /\ Cut(w) \in {n, w * Size} /\ Cut(w) <= n /\ Cut(w) <= w * Size
    OBVIOUS
  <2>1. w * Size \in Nat
    BY <1>4
  <2>2. n \in Int /\ w * Size \in Int
    BY <1>1, <2>1
  <2>3. Cut(w) \in {n, w * Size} /\ Cut(w) <= n /\ Cut(w) <= w * Size
    BY ONLY <2>2, MinOfTwo DEF Cut
  <2> QED BY <2>1, <2>3
<1>9. ASSUME NEW w \in 1..N
      PROVE  /\ Cut(w - 1) = (w - 1) * Size /\ (w - 1) * Size \in Nat /\ (w - 1) * Size < n
             /\ Cut(w - 1) \in 0..Cut(w) /\ Cut(w) \in 0..n
  <2>1. w \in Nat /\ w - 1 \in Nat /\ w <= N
    BY <1>5
  <2>2. w * Size <= N * Size /\ (w - 1) * Size \in Nat /\ w * Size \in Nat
    BY <1>4, <1>5, <2>1, TimesMonotone
  <2>3. w * Size = (w - 1) * Size + Size
    BY <1>4, <2>1
  <2>4. (w - 1) * Size < n
    BY <1>1, <1>4, <1>5, <2>2, <2>3
  <2>5. Cut(w - 1) = (w - 1) * Size
    BY <1>1, <1>8, <2>1, <2>2, <2>4
  <2>6. Cut(w) \in {n, w * Size} /\ Cut(w) <= n
    BY <1>8, <2>1
  <2> QED BY <1>1, <1>4, <2>2, <2>3, <2>4, <2>5, <2>6
<1>10. Cut(0) = 0
  BY <1>1, <1>4, <1>8
<1>11. Cut(N) = n
  <2>1. Cut(N) \in {n, N * Size} /\ Cut(N) <= n
    BY <1>5, <1>8
  <2>2. n <= N * Size
    BY <1>1, <1>4, <1>5
  <2> QED BY <2>1, <2>2, <1>1, <1>5
<1>12. \A w \in 1..N : SubSeq(packets, (w - 1) * Size + 1, Cut(w)) \in Seq(Packet)
  <2> SUFFICES ASSUME NEW w \in 1..N
               PROVE  SubSeq(packets, (w - 1) * Size + 1, Cut(w)) \in Seq(Packet)
    OBVIOUS
  <2>1. (w - 1) * Size + 1 \in 1..(n + 1) /\ Cut(w) \in 0..n
    BY <1>1, <1>9
  <2>2. \A i \in 1..n : packets[i] \in Packet
    OBVIOUS
  <2> HIDE DEF n
  <2> QED BY <2>1, <2>2, <1>1 DEF n
<1>13. Len(Chunks) = N /\ Chunks \in Seq(Seq(Packet))
  BY <1>5, <1>6, <1>12
<1>14. \A w \in 1..N : Chunks[w] = SubSeq(packets, Cut(w - 1) + 1, Cut(w))
  BY <1>6, <1>9
<1>15. N \in Nat /\ N <= Max({1, threads})
  BY <1>5, <1>7 DEF t
<1>16. Size \in Nat \ {0}
  BY <1>4
<1> QED BY <1>9, <1>10, <1>11, <1>13, <1>14, <1>15, <1>16

-----------------------------------------------------------------------------
(* What the texts of the packets come to                                   *)

LEMMA SkimmedType ==
  ASSUME NEW p \in Packet
  PROVE  Skimmed(p) \in Seq(Announcement)
<1>1. p.tick \in Nat /\ p.texts \in Seq(Text)
  BY AnnouncementsAssumption
<1>2. \A i \in DOMAIN p.texts : [tick |-> p.tick, text |-> p.texts[i]] \in Announcement
  BY <1>1 DEF Announcement
<1>3. DOMAIN p.texts = 1..Len(p.texts) /\ Len(p.texts) \in Nat
  BY <1>1
<1> QED BY <1>2, <1>3 DEF Skimmed

\* What is said in the first k packets.
Upto(k) == FlattenSeq([i \in 1..k |-> Skimmed(packets[i])])

LEMMA OnePacketMore ==
  ASSUME packets \in Seq(Packet)
  PROVE  /\ Upto(0) = <<>> /\ Said = Upto(Len(packets))
         /\ \A k \in 0..Len(packets) : Upto(k) \in Seq(Announcement)
         /\ \A k \in 1..Len(packets) : Upto(k) = Upto(k - 1) \o Skimmed(packets[k])
<1> DEFINE n == Len(packets)
           part(k) == [i \in 1..k |-> Skimmed(packets[i])]
<1>1. n \in Nat /\ DOMAIN packets = 1..n /\ \A i \in 1..n : Skimmed(packets[i]) \in Seq(Announcement)
  BY SkimmedType
<1>2. Upto(0) = <<>> /\ Said = Upto(n)
  <2>1. part(0) = <<>>
    OBVIOUS
  <2> QED BY <2>1, <1>1, FlattenEmpty DEF Upto, Said
<1>3. ASSUME NEW k \in 0..n
      PROVE  part(k) \in Seq(Seq(Announcement)) /\ Upto(k) \in Seq(Announcement)
  <2>1. part(k) \in Seq(Seq(Announcement))
    BY <1>1
  <2>2. <<>> \in Seq(Announcement)
    OBVIOUS
  <2> HIDE DEF part
  <2>3. FlattenSeq(part(k)) \in Seq(Announcement)
    BY <2>1, <2>2, FlattenAppend
  <2> QED BY <2>1, <2>3 DEF Upto, part
<1>4. ASSUME NEW k \in 1..n
      PROVE  Upto(k) = Upto(k - 1) \o Skimmed(packets[k])
  <2>1. k - 1 \in 0..n /\ k - 1 \in Nat
    BY <1>1
  <2>2. part(k) = Append(part(k - 1), Skimmed(packets[k]))
    BY <2>1, <1>1
  <2>3. part(k - 1) \in Seq(Seq(Announcement)) /\ Skimmed(packets[k]) \in Seq(Announcement)
    BY <2>1, <1>1, <1>3
  <2> HIDE DEF part
  <2>4. FlattenSeq(part(k)) = FlattenSeq(part(k - 1)) \o Skimmed(packets[k])
    BY <2>2, <2>3, FlattenAppend
  <2> QED BY <2>4 DEF Upto, part
<1> QED BY <1>2, <1>3, <1>4

-----------------------------------------------------------------------------
(* The inductive invariant                                                 *)

\* Each worker has found what is said from where its chunk begins up to the
\* first packet it still has, and no worker has any other packet.
Workers ==
  /\ chunks \in Seq(Seq(Packet)) /\ out \in Seq(Seq(Announcement))
  /\ Len(chunks) = Len(Chunks) /\ Len(out) = Len(Chunks)
  /\ joined \in 0..Len(Chunks)
  /\ \A w \in 1..Len(Chunks) : \E p \in Cut(w - 1)..Cut(w) :
       /\ chunks[w] = SubSeq(packets, p + 1, Cut(w))
       /\ Upto(Cut(w - 1)) \o out[w] = Upto(p)

\* What the joined workers found is what is said up to the end of their last
\* chunk.
IInv ==
  /\ packets \in Seq(Packet) /\ threads \in Threads /\ pc \in {"walk", "skim", "done"}
  /\ pc = "walk" => chunks = <<>> /\ out = <<>> /\ joined = 0 /\ found = <<>>
  /\ pc # "walk" => Workers
  /\ pc = "skim" => found = Upto(Cut(joined))
  /\ pc = "done" => found = Dedup(ByTick(Said))

LEMMA InitInv == Init => IInv
<1> SUFFICES ASSUME Init PROVE IInv
  OBVIOUS
<1>1. packets \in Seq(Packet)
  BY DEF Init
<1> QED BY <1>1 DEF Init, IInv

\* The shares of the packets stay as they are while the workers run.
LEMMA SharesStay ==
  ASSUME UNCHANGED <<packets, threads>>
  PROVE  /\ Chunks' = Chunks /\ Said' = Said
         /\ \A w : Cut(w)' = Cut(w) /\ Upto(w)' = Upto(w)
<1>1. ChunkSize(Len(packets))' = ChunkSize(Len(packets))
  BY DEF ChunkSize
<1>2. Chunks' = Chunks
  BY DEF Chunks, ChunkSize
<1>3. ASSUME NEW w
      PROVE  Cut(w)' = Cut(w) /\ Upto(w)' = Upto(w)
  BY <1>1 DEF Cut, Size, Upto
<1> QED BY <1>2, <1>3 DEF Said

LEMMA OnFrameInv == ASSUME IInv, OnFrame PROVE IInv'
<1>1. PICK p \in Packet : packets' = Append(packets, p)
  BY DEF OnFrame
<1>2. packets' \in Seq(Packet)
  BY <1>1 DEF IInv
<1> QED BY <1>2 DEF IInv, OnFrame

LEMMA SpawnInv == ASSUME IInv, Spawn PROVE IInv'
<1>1. packets \in Seq(Packet) /\ threads \in Nat /\ threads \in Threads /\ joined = 0 /\ found = <<>>
  BY AnnouncementsAssumption DEF IInv, Spawn
<1>2. UNCHANGED <<packets, threads, joined, found>> /\ chunks' = Chunks
      /\ out' = [w \in DOMAIN Chunks |-> <<>>] /\ pc' = "skim"
  BY DEF Spawn
<1> DEFINE N == Len(Chunks)
<1>3. /\ N \in Nat /\ Chunks \in Seq(Seq(Packet)) /\ DOMAIN Chunks = 1..N /\ Cut(0) = 0
      /\ \A w \in 1..N :
           /\ Cut(w - 1) \in 0..Cut(w) /\ Cut(w) \in 0..Len(packets)
           /\ Chunks[w] = SubSeq(packets, Cut(w - 1) + 1, Cut(w))
  BY <1>1, Shares
<1>4. Chunks' = Chunks /\ \A w : Cut(w)' = Cut(w) /\ Upto(w)' = Upto(w)
  BY <1>2, SharesStay
<1>5. Upto(0) = <<>> /\ \A k \in 0..Len(packets) : Upto(k) \in Seq(Announcement)
  BY <1>1, OnePacketMore
<1>6. out' \in Seq(Seq(Announcement)) /\ Len(out') = N /\ \A w \in 1..N : out'[w] = <<>>
  <2>1. <<>> \in Seq(Announcement)
    OBVIOUS
  <2> HIDE DEF N
  <2> QED BY <1>2, <1>3, <2>1
<1>7. ASSUME NEW w \in 1..N
      PROVE  \E p \in Cut(w - 1)..Cut(w) :
               /\ chunks'[w] = SubSeq(packets, p + 1, Cut(w))
               /\ Upto(Cut(w - 1)) \o out'[w] = Upto(p)
  <2>1. Cut(w - 1) \in Cut(w - 1)..Cut(w) /\ Cut(w - 1) \in 0..Len(packets)
    BY <1>3
  <2>2. Upto(Cut(w - 1)) \o <<>> = Upto(Cut(w - 1))
    BY <2>1, <1>5
  <2> QED BY <2>1, <2>2, <1>2, <1>3, <1>6
<1>8. Workers'
  <2>1. \A w \in 1..N : \E p \in Cut(w - 1)'..Cut(w)' :
          /\ chunks'[w] = SubSeq(packets', p + 1, Cut(w)')
          /\ Upto(Cut(w - 1))' \o out'[w] = Upto(p)'
    BY <1>2, <1>4, <1>7
  <2>2. joined' \in 0..N /\ chunks' \in Seq(Seq(Packet)) /\ Len(chunks') = N
    BY <1>1, <1>2, <1>3
  <2> QED BY <2>1, <2>2, <1>4, <1>6 DEF Workers
<1>9. found' = Upto(Cut(joined))'
  <2>1. Upto(Cut(joined)) = <<>>
    BY <1>1, <1>3, <1>5
  <2>2. Upto(Cut(joined))' = Upto(Cut(joined))
    BY <1>2, <1>4 DEF Upto
  <2> QED BY <2>1, <2>2, <1>1, <1>2
<1> QED BY <1>1, <1>2, <1>8, <1>9 DEF IInv

\* The packets left of a chunk.
LEMMA Rest ==
  ASSUME NEW s \in Seq(Packet), NEW p \in Nat, NEW e \in Nat, p <= e, e <= Len(s)
  PROVE  /\ SubSeq(s, p + 1, e) = <<>> <=> p = e
         /\ p < e => /\ Head(SubSeq(s, p + 1, e)) = s[p + 1]
                     /\ Tail(SubSeq(s, p + 1, e)) = SubSeq(s, p + 2, e)
<1>1. Len(SubSeq(s, p + 1, e)) = e - p
  OBVIOUS
<1>2. SubSeq(s, p + 1, e) = <<>> <=> p = e
  BY <1>1
<1>3. ASSUME p < e
      PROVE  /\ Head(SubSeq(s, p + 1, e)) = s[p + 1]
             /\ Tail(SubSeq(s, p + 1, e)) = SubSeq(s, p + 2, e)
  <2>1. SubSeq(s, p + 1, e) \in Seq(Packet) /\ SubSeq(s, p + 1, e)[1] = s[p + 1]
    BY <1>3
  <2>2. Head(SubSeq(s, p + 1, e)) = s[p + 1]
    <3> DEFINE sub == SubSeq(s, p + 1, e)
    <3>1. sub \in Seq(Packet) /\ sub # <<>> /\ sub[1] = s[p + 1]
      BY <1>2, <1>3, <2>1
    <3> HIDE DEF sub
    <3>2. Head(sub) = sub[1]
      BY <3>1
    <3> QED BY <3>1, <3>2 DEF sub
  <2>3. Tail(SubSeq(s, p + 1, e)) = SubSeq(s, p + 2, e)
    BY <1>1, <1>3, <2>1
  <2> QED BY <2>2, <2>3
<1> QED BY <1>2, <1>3

LEMMA SkimPacketInv == ASSUME IInv, NEW v \in DOMAIN chunks, SkimPacket(v) PROVE IInv'
<1> DEFINE N == Len(Chunks)
<1>1. packets \in Seq(Packet) /\ threads \in Nat /\ threads \in Threads /\ Workers /\ found = Upto(Cut(joined))
  BY AnnouncementsAssumption DEF IInv, SkimPacket
<1>2. /\ UNCHANGED <<packets, threads, joined, found, pc>> /\ pc = "skim" /\ chunks[v] # <<>>
      /\ out' = [out EXCEPT ![v] = @ \o Skimmed(Head(chunks[v]))]
      /\ chunks' = [chunks EXCEPT ![v] = Tail(@)]
  BY DEF SkimPacket
<1>3. N \in Nat /\ v \in 1..N /\ chunks \in Seq(Seq(Packet)) /\ out \in Seq(Seq(Announcement))
      /\ Len(chunks) = N /\ Len(out) = N /\ DOMAIN chunks = 1..N /\ DOMAIN out = 1..N
  <2>1. N \in Nat
    BY <1>1, Shares
  <2>2. /\ chunks \in Seq(Seq(Packet)) /\ out \in Seq(Seq(Announcement))
        /\ Len(chunks) = N /\ Len(out) = N
    BY <1>1 DEF Workers
  <2> HIDE DEF N
  <2> QED BY <2>1, <2>2
<1>4. \A w \in 1..N : Cut(w - 1) \in 0..Cut(w) /\ Cut(w) \in 0..Len(packets)
  BY <1>1, Shares
<1>5. Chunks' = Chunks /\ \A w : Cut(w)' = Cut(w) /\ Upto(w)' = Upto(w)
  BY <1>2, SharesStay
<1>6. PICK p \in Cut(v - 1)..Cut(v) :
        /\ chunks[v] = SubSeq(packets, p + 1, Cut(v))
        /\ Upto(Cut(v - 1)) \o out[v] = Upto(p)
  BY <1>1, <1>3 DEF Workers
<1>7. Cut(v - 1) \in 0..Len(packets) /\ p \in Nat /\ Cut(v) \in Nat /\ p <= Cut(v) /\ Cut(v) <= Len(packets)
  BY <1>3, <1>4
<1>8. p < Cut(v) /\ Head(chunks[v]) = packets[p + 1] /\ Tail(chunks[v]) = SubSeq(packets, p + 2, Cut(v))
  <2>1. SubSeq(packets, p + 1, Cut(v)) = <<>> <=> p = Cut(v)
    BY ONLY <1>1, <1>7, Rest
  <2>2. p # Cut(v)
    BY <2>1, <1>2, <1>6
  <2>3. p < Cut(v)
    BY <2>2, <1>7
  <2>4. Head(SubSeq(packets, p + 1, Cut(v))) = packets[p + 1]
        /\ Tail(SubSeq(packets, p + 1, Cut(v))) = SubSeq(packets, p + 2, Cut(v))
    BY ONLY <1>1, <1>7, <2>3, Rest
  <2> QED BY <2>3, <2>4, <1>6
<1>9. p + 1 \in 1..Len(packets) /\ packets[p + 1] \in Packet /\ Skimmed(packets[p + 1]) \in Seq(Announcement)
  <2>1. p + 1 \in 1..Len(packets)
    BY <1>1, <1>7, <1>8
  <2>2. packets[p + 1] \in Packet
    BY <1>1, <2>1
  <2> QED BY <2>1, <2>2, SkimmedType
<1>10. out[v] \in Seq(Announcement) /\ Upto(Cut(v - 1)) \in Seq(Announcement)
  BY <1>1, <1>3, <1>7, OnePacketMore
<1>11. out'[v] = out[v] \o Skimmed(packets[p + 1]) /\ out'[v] \in Seq(Announcement)
  <2>1. out'[v] = out[v] \o Skimmed(Head(chunks[v]))
    BY <1>2, <1>3
  <2>2. out'[v] = out[v] \o Skimmed(packets[p + 1])
    BY <2>1, <1>8
  <2> QED BY <2>2, <1>9, <1>10
<1>12. Upto(Cut(v - 1)) \o out'[v] = Upto(p + 1)
  <2>1. Upto(p + 1) = Upto((p + 1) - 1) \o Skimmed(packets[p + 1])
    BY <1>1, <1>9, OnePacketMore
  <2>2. (p + 1) - 1 = p
    BY <1>7
  <2>3. \A x, y, z \in Seq(Announcement) : x \o (y \o z) = (x \o y) \o z
    OBVIOUS
  <2>4. Upto(Cut(v - 1)) \o (out[v] \o Skimmed(packets[p + 1]))
          = (Upto(Cut(v - 1)) \o out[v]) \o Skimmed(packets[p + 1])
    BY <2>3, <1>9, <1>10
  <2> QED BY <2>1, <2>2, <2>4, <1>6, <1>11
<1>13. chunks'[v] = SubSeq(packets, (p + 1) + 1, Cut(v)) /\ p + 1 \in Cut(v - 1)..Cut(v)
       /\ chunks'[v] \in Seq(Packet)
  <2>1. chunks'[v] = Tail(chunks[v]) /\ chunks[v] \in Seq(Packet)
    BY <1>2, <1>3
  <2>2. (p + 1) + 1 = p + 2 /\ p + 1 \in Cut(v - 1)..Cut(v)
    BY <1>7, <1>8
  <2>3. Tail(chunks[v]) \in Seq(Packet)
    BY <2>1, <1>2
  <2> QED BY <2>1, <2>2, <2>3, <1>8
<1>14. ASSUME NEW w \in 1..N
       PROVE  \E q \in Cut(w - 1)..Cut(w) :
                /\ chunks'[w] = SubSeq(packets, q + 1, Cut(w))
                /\ Upto(Cut(w - 1)) \o out'[w] = Upto(q)
  <2>1. CASE w = v
    BY <2>1, <1>12, <1>13
  <2>2. CASE w # v
    <3>1. chunks'[w] = chunks[w] /\ out'[w] = out[w]
      BY <1>2, <1>3, <2>2
    <3> QED BY <3>1, <1>1 DEF Workers
  <2> QED BY <2>1, <2>2
<1>15. chunks' \in Seq(Seq(Packet)) /\ Len(chunks') = N /\ out' \in Seq(Seq(Announcement)) /\ Len(out') = N
  <2> HIDE DEF N
  <2> QED BY <1>2, <1>3, <1>11, <1>13
<1>16. Workers'
  <2>1. \A w \in 1..N : \E q \in Cut(w - 1)'..Cut(w)' :
          /\ chunks'[w] = SubSeq(packets', q + 1, Cut(w)')
          /\ Upto(Cut(w - 1))' \o out'[w] = Upto(q)'
    BY <1>2, <1>5, <1>14
  <2>2. joined' \in 0..N
    BY <1>1, <1>2 DEF Workers
  <2> QED BY <2>1, <2>2, <1>5, <1>15 DEF Workers
<1>17. found' = Upto(Cut(joined))'
  <2>1. Upto(Cut(joined))' = Upto(Cut(joined))
    BY <1>2, <1>5 DEF Upto
  <2> QED BY <2>1, <1>1, <1>2
<1> QED BY <1>1, <1>2, <1>16, <1>17 DEF IInv

LEMMA JoinInv == ASSUME IInv, Join PROVE IInv'
<1> DEFINE N == Len(Chunks)
           j == joined + 1
<1>1. packets \in Seq(Packet) /\ threads \in Nat /\ threads \in Threads /\ Workers /\ found = Upto(Cut(joined))
  BY AnnouncementsAssumption DEF IInv, Join
<1>2. UNCHANGED <<packets, threads, chunks, out, pc>> /\ pc = "skim" /\ chunks[j] = <<>>
      /\ joined < Len(chunks) /\ found' = found \o out[j] /\ joined' = j
  BY DEF Join
<1>3. N \in Nat /\ joined \in 0..N /\ j \in 1..N /\ j - 1 = joined /\ Len(chunks) = N
  BY <1>1, <1>2, Shares DEF Workers
<1>4. Cut(j - 1) \in 0..Cut(j) /\ Cut(j) \in 0..Len(packets)
  BY <1>1, <1>3, Shares
<1>5. Chunks' = Chunks /\ \A w : Cut(w)' = Cut(w) /\ Upto(w)' = Upto(w)
  BY <1>2, SharesStay
<1> HIDE DEF j
<1>6. PICK p \in Cut(j - 1)..Cut(j) :
        /\ chunks[j] = SubSeq(packets, p + 1, Cut(j))
        /\ Upto(Cut(j - 1)) \o out[j] = Upto(p)
  BY <1>1, <1>3 DEF Workers
<1>7. p = Cut(j)
  <2>1. p \in Nat /\ Cut(j) \in Nat /\ p <= Cut(j) /\ Cut(j) <= Len(packets)
    BY <1>1, <1>4
  <2> QED BY <2>1, <1>1, <1>2, <1>6, Rest
<1>8. found' = Upto(Cut(j))
  BY <1>1, <1>2, <1>3, <1>6, <1>7
<1>9. Workers'
  <2>1. \A w \in 1..N : \E q \in Cut(w - 1)'..Cut(w)' :
          /\ chunks'[w] = SubSeq(packets', q + 1, Cut(w)')
          /\ Upto(Cut(w - 1))' \o out'[w] = Upto(q)'
    BY <1>1, <1>2, <1>5 DEF Workers
  <2>2. joined' \in 0..N
    BY <1>2, <1>3
  <2> QED BY <2>1, <2>2, <1>1, <1>2, <1>5 DEF Workers
<1>10. found' = Upto(Cut(joined))'
  <2>1. Upto(Cut(joined))' = Upto(Cut(j))
    BY <1>2, <1>5 DEF Upto
  <2> QED BY <2>1, <1>8
<1> QED BY <1>1, <1>2, <1>9, <1>10 DEF IInv

LEMMA SortAndDedupInv == ASSUME IInv, SortAndDedup PROVE IInv'
<1>1. packets \in Seq(Packet) /\ threads \in Nat /\ threads \in Threads /\ Workers /\ found = Upto(Cut(joined))
  BY AnnouncementsAssumption DEF IInv, SortAndDedup
<1>2. UNCHANGED <<packets, threads, chunks, out, joined>> /\ joined = Len(chunks)
      /\ found' = Dedup(ByTick(found)) /\ pc' = "done"
  BY DEF SortAndDedup
<1>3. Upto(Cut(joined)) = Said
  <2>1. joined = Len(Chunks)
    BY <1>1, <1>2 DEF Workers
  <2>2. Cut(joined) = Len(packets)
    BY <1>1, <2>1, Shares
  <2> QED BY <1>1, <2>2, OnePacketMore
<1>4. Chunks' = Chunks /\ Said' = Said /\ \A w : Cut(w)' = Cut(w) /\ Upto(w)' = Upto(w)
  BY <1>2, SharesStay
<1>5. Workers'
  <2>1. \A w \in 1..Len(Chunks) : \E q \in Cut(w - 1)'..Cut(w)' :
          /\ chunks'[w] = SubSeq(packets', q + 1, Cut(w)')
          /\ Upto(Cut(w - 1))' \o out'[w] = Upto(q)'
    BY <1>1, <1>2, <1>4 DEF Workers
  <2> QED BY <2>1, <1>1, <1>2, <1>4 DEF Workers
<1>6. found' = Dedup(ByTick(Said))'
  <2>1. Dedup(ByTick(Said))' = Dedup(ByTick(Said))
    BY <1>4 DEF Dedup, ByTick, Resend
  <2> QED BY <2>1, <1>1, <1>2, <1>3
<1> QED BY <1>1, <1>2, <1>5, <1>6 DEF IInv

LEMMA StutterInv == ASSUME IInv, UNCHANGED vars PROVE IInv'
<1>1. UNCHANGED <<packets, threads, chunks, out, joined, found, pc>>
  BY DEF vars
<1>2. Chunks' = Chunks /\ Said' = Said /\ \A w : Cut(w)' = Cut(w) /\ Upto(w)' = Upto(w)
  BY <1>1, SharesStay
<1>3. Workers => Workers'
  <2> SUFFICES ASSUME Workers PROVE Workers'
    OBVIOUS
  <2>1. \A w \in 1..Len(Chunks) : \E q \in Cut(w - 1)'..Cut(w)' :
          /\ chunks'[w] = SubSeq(packets', q + 1, Cut(w)')
          /\ Upto(Cut(w - 1))' \o out'[w] = Upto(q)'
    BY <1>1, <1>2 DEF Workers
  <2> QED BY <2>1, <1>1, <1>2 DEF Workers
<1>4. Upto(Cut(joined))' = Upto(Cut(joined))
  BY <1>1, <1>2 DEF Upto
<1>5. Dedup(ByTick(Said))' = Dedup(ByTick(Said))
  BY <1>2 DEF Dedup, ByTick, Resend
<1> QED BY <1>1, <1>3, <1>4, <1>5 DEF IInv

LEMMA Inductive == Spec => []IInv
<1>1. IInv /\ [Next]_vars => IInv'
  <2> SUFFICES ASSUME IInv, [Next]_vars PROVE IInv'
    OBVIOUS
  <2>1. CASE \E w \in DOMAIN chunks : SkimPacket(w)
    BY <2>1, SkimPacketInv
  <2>2. CASE Done
    BY <2>2, StutterInv DEF Done
  <2> QED BY <2>1, <2>2, OnFrameInv, SpawnInv, JoinInv, SortAndDedupInv, StutterInv DEF Next
<1> QED BY InitInv, <1>1, PTL DEF Spec

-----------------------------------------------------------------------------
(* The theorems                                                            *)

\* Every variable keeps its type, and no more workers are spawned than
\* --threads allows: rounding the quotient up and then cutting the packets
\* into runs of that size never makes a chunk too many.
THEOREM TypeCorrect == Spec => []TypeOK
<1>1. IInv => TypeOK
  <2> SUFFICES ASSUME IInv PROVE TypeOK
    OBVIOUS
  <2>1. packets \in Seq(Packet) /\ threads \in Nat /\ threads \in Threads /\ pc \in {"walk", "skim", "done"}
    BY AnnouncementsAssumption DEF IInv
  <2>2. Len(Chunks) \in Nat /\ Len(Chunks) <= Max({1, threads})
        /\ \A w \in 1..Len(Chunks) : Cut(w) \in 0..Len(packets)
    BY <2>1, Shares
  <2>3. Cut(0) = 0 /\ Len(packets) \in Nat
    BY <2>1, Shares
  <2>4. Said = Upto(Len(packets)) /\ \A k \in 0..Len(packets) : Upto(k) \in Seq(Announcement)
    BY <2>1, OnePacketMore
  <2>5. CASE pc = "walk"
    <3>1. chunks = <<>> /\ out = <<>> /\ joined = 0 /\ found = <<>>
      BY <2>5 DEF IInv
    <3>2. 0 <= Max({1, threads})
      <4>1. 1 \in Int /\ threads \in Int
        BY <2>1
      <4>2. Max({1, threads}) \in {1, threads} /\ 1 <= Max({1, threads})
        BY <4>1, MaxOfTwo
      <4> HIDE DEF Max
      <4> QED BY <4>2, <2>1
    <3> QED BY <3>1, <3>2, <2>1 DEF TypeOK
  <2>6. CASE pc = "skim"
    <3>1. Workers /\ found = Upto(Cut(joined))
      BY <2>6 DEF IInv
    <3>2. joined \in 0..Len(Chunks)
      BY <3>1 DEF Workers
    <3>3. Cut(joined) \in 0..Len(packets)
      BY <2>2, <2>3, <3>2
    <3>4. found \in Seq(Announcement)
      BY <2>4, <3>1, <3>3
    <3> QED BY <2>1, <2>2, <3>1, <3>4 DEF TypeOK, Workers
  <2>7. CASE pc = "done"
    <3>1. Workers /\ found = Dedup(ByTick(Said))
      BY <2>7 DEF IInv
    <3>2. Said \in Seq(Announcement)
      BY <2>3, <2>4
    <3>3. found \in Seq(Announcement)
      BY <3>1, <3>2, Sorted, DedupType
    <3> QED BY <2>1, <2>2, <3>1, <3>3 DEF TypeOK, Workers
  <2> QED BY <2>1, <2>5, <2>6, <2>7
<1> QED BY <1>1, Inductive, PTL

\* However many threads skim the packets, in whatever chunks and at whatever
\* speed, the announcements are those of one thread that skims them in order.
THEOREM SameAnnouncements == Spec => []SameForAnyThreads
<1>1. IInv => SameForAnyThreads
  BY DEF IInv, SameForAnyThreads
<1> QED BY <1>1, Inductive, PTL

\* Each text said has an announcement of the same text on its own tick or less
\* than the window before it, whatever the order of the ticks in the file.
THEOREM TextsKept == Spec => []EveryTextKept
<1>1. IInv => EveryTextKept
  <2> SUFFICES ASSUME IInv, pc = "done" PROVE EveryTextKept
    BY DEF EveryTextKept
  <2>1. packets \in Seq(Packet) /\ found = Dedup(ByTick(Said))
    BY DEF IInv
  <2>2. Said \in Seq(Announcement)
    <3>1. Len(packets) \in 0..Len(packets)
      BY <2>1
    <3> QED BY <2>1, <3>1, OnePacketMore
  <2> DEFINE s == ByTick(Said)
             n == Len(Said)
  <2>3. /\ s \in Seq(Announcement) /\ Len(s) = n
        /\ \A k, l \in 1..n : k <= l => s[k].tick <= s[l].tick
        /\ \A i \in 1..n : \E k \in 1..n : s[k] = Said[i]
    BY <2>2, Sorted
  <2> HIDE DEF s
  <2>4. Answered(Dedup(s), s, n)
    BY <2>3, DedupKeeps
  <2>5. ASSUME NEW i \in DOMAIN Said
        PROVE  \E k \in DOMAIN found :
                 /\ found[k].text = Said[i].text
                 /\ found[k].tick <= Said[i].tick
                 /\ found[k].tick = Said[i].tick \/ Said[i].tick - found[k].tick < Window
    <3>1. PICK j \in 1..n : s[j] = Said[i]
      BY <2>2, <2>3
    <3> QED BY <3>1, <2>1, <2>4 DEF Answered, s
  <2> QED BY <2>5 DEF EveryTextKept
<1> QED BY <1>1, Inductive, PTL
==============================================================================
