---------------------------- MODULE SequenceLemmas ----------------------------
(***************************************************************************)
(* What the operators on sequences that the models use return: Excluding   *)
(* and FlattenSeq, both recursive functions over positions; and where the  *)
(* elements of shortened and lengthened sequences are.                     *)
(*                                                                         *)
(* Induction comes from the order of the finite subsets of Nat, which the  *)
(* library proves well founded: a set of numbers that contains 0 and the   *)
(* successor of each of its members contains Nat.  What is said of n is    *)
(* stated as membership of n in such a set.                                *)
(***************************************************************************)
EXTENDS SequenceFilter, SequencesExt, FiniteSetTheorems, SequenceTheorems, TLAPS

(* A set of numbers that is not empty has a least one.                     *)
LEMMA LeastNatural ==
    ASSUME NEW S \in SUBSET Nat, S # {}
    PROVE  \E n \in S : \A m \in S : n <= m
<1> DEFINE Below == {0 .. n : n \in S}
<1>1. PICK x \in S : TRUE
  OBVIOUS
<1>2. Below \subseteq FiniteSubsetsOf(Nat)
  <2> SUFFICES ASSUME NEW n \in S PROVE 0 .. n \in FiniteSubsetsOf(Nat)
    OBVIOUS
  <2>1. IsFiniteSet(0 .. n)
    BY FS_Interval
  <2> QED BY <2>1 DEF FiniteSubsetsOf
<1>3. Below # {}
  BY <1>1
<1>4. PICK B \in Below : \A C \in Below : <<C, B>> \notin StrictSubsetOrdering(Nat)
  <2> HIDE DEF Below
  <2> QED BY <1>2, <1>3, FS_StrictSubsetOrderingWellFounded, WFMin
<1>5. PICK n \in S : B = 0 .. n
  OBVIOUS
<1>6. ASSUME NEW m \in S, m < n PROVE FALSE
  <2>1. 0 .. m \in Below
    OBVIOUS
  <2>2. 0 .. m \subseteq 0 .. n /\ 0 .. m # 0 .. n
    BY <1>6
  <2>3. 0 .. m \in SUBSET Nat /\ 0 .. n \in SUBSET Nat
    OBVIOUS
  <2> QED BY <2>1, <2>2, <2>3, <1>4, <1>5 DEF StrictSubsetOrdering
<1> QED  BY <1>6

(* A set that contains 0 and is closed under successor contains Nat.       *)
LEMMA InductiveSet ==
    ASSUME NEW S, 0 \in S, \A n \in Nat : n \in S => n + 1 \in S
    PROVE  Nat \subseteq S
<1> SUFFICES ASSUME Nat \ S # {} PROVE FALSE
  OBVIOUS
<1>1. PICK n \in Nat \ S : \A m \in Nat \ S : n <= m
  BY LeastNatural
<1>2. n # 0 /\ n - 1 \in Nat /\ n - 1 \in S
  BY <1>1
<1> QED  BY <1>1, <1>2

-----------------------------------------------------------------------------
(* kept is the function by which Excluding(s, S) is computed.              *)
Keeps(kept, s, S) ==
    /\ kept[0] = <<>>
    /\ \A i \in 1 .. Len(s) :
          kept[i] = IF s[i] \in S THEN kept[i - 1] ELSE Append(kept[i - 1], s[i])

(* Excluding is computed by a function from the positions of s to sequences*)
(* of elements of s.                                                       *)
LEMMA ExcludingSteps ==
    ASSUME NEW T, NEW s \in Seq(T), NEW S
    PROVE  \E kept \in [0 .. Len(s) -> Seq(T)] : Keeps(kept, s, S) /\ Excluding(s, S) = kept[Len(s)]
<1> DEFINE Step(f, i) == IF i = 0 THEN <<>>
                         ELSE IF s[i] \in S THEN f[i - 1] ELSE Append(f[i - 1], s[i])
           Upto(n) == {f \in [0 .. n -> Seq(T)] : \A i \in 0 .. n : f[i] = Step(f, i)}
           Good == {n \in Nat : n <= Len(s) => Upto(n) # {}}
<1>1. 0 \in Good
  <2>1. [i \in 0 .. 0 |-> <<>>] \in Upto(0)
    OBVIOUS
  <2> QED BY <2>1
<1>2. ASSUME NEW n \in Nat, n \in Good PROVE n + 1 \in Good
  <2>1. CASE n + 1 <= Len(s)
    <3>0. PICK f \in Upto(n) : TRUE
      <4> HIDE DEF Upto
      <4>1. n <= Len(s)
        BY <2>1
      <4> QED BY <1>2, <4>1
    <3>1. f \in [0 .. n -> Seq(T)] /\ \A i \in 0 .. n : f[i] = Step(f, i)
      <4> HIDE DEF Step
      <4> QED OBVIOUS
    <3> DEFINE last == Step(f, n + 1)
               g == [i \in 0 .. n + 1 |-> IF i <= n THEN f[i] ELSE last]
    <3>2. last \in Seq(T)
      BY <3>1, <2>1
    <3>3. g \in [0 .. n + 1 -> Seq(T)]
      <4> HIDE DEF last
      <4> QED BY <3>1, <3>2
    <3>4. g[n + 1] = Step(g, n + 1)
      BY <3>1
    <3>5. ASSUME NEW i \in 0 .. n PROVE g[i] = Step(g, i)
      <4>1. g[i] = f[i] /\ (i # 0 => g[i - 1] = f[i - 1])
        OBVIOUS
      <4>2. f[i] = Step(f, i)
        BY <3>1
      <4> HIDE DEF g
      <4> QED BY <4>1, <4>2
    <3>6. g \in Upto(n + 1)
      <4> HIDE DEF g, Step
      <4>1. \A i \in 0 .. n + 1 : i \in 0 .. n \/ i = n + 1
        OBVIOUS
      <4> QED BY <3>3, <3>4, <3>5, <4>1
    <3> HIDE DEF Upto
    <3> QED BY <3>6
  <2>2. CASE ~(n + 1 <= Len(s))
    BY <2>2
  <2> QED BY <2>1, <2>2
<1>3. Len(s) \in Nat /\ Len(s) \in Good
  <2> HIDE DEF Good
  <2> QED BY <1>1, <1>2, InductiveSet
<1>4. PICK kept \in [0 .. Len(s) -> Seq(T)] : \A i \in 0 .. Len(s) : kept[i] = Step(kept, i)
  BY <1>3
<1> DEFINE Is(f) == f = [i \in 0 .. Len(s) |-> Step(f, i)]
           chosen == CHOOSE f : Is(f)
<1>5. Is(kept)
  BY <1>4
<1>6. Is(chosen)
  <2> HIDE DEF Is
  <2> QED BY <1>5
<1>7. Excluding(s, S) = chosen[Len(s)]
  BY DEF Excluding
<1> HIDE DEF chosen
<1>8. \A i \in 0 .. Len(s) : chosen[i] = Step(chosen, i)
  BY <1>6
<1>9. chosen[0] = <<>> /\ \A i \in 1 .. Len(s) :
          chosen[i] = IF s[i] \in S THEN chosen[i - 1] ELSE Append(chosen[i - 1], s[i])
  BY <1>8
<1> DEFINE Typed == {m \in Nat : m <= Len(s) => chosen[m] \in Seq(T)}
<1>10. 0 \in Typed
  <2>1. <<>> \in Seq(T)
    OBVIOUS
  <2> QED BY <1>9, <2>1
<1>11. ASSUME NEW n \in Nat, n \in Typed PROVE n + 1 \in Typed
  <2>1. CASE n + 1 <= Len(s)
    <3>1. chosen[n] \in Seq(T) /\ s[n + 1] \in T
      BY <1>11, <2>1
    <3>2. chosen[n + 1] = IF s[n + 1] \in S THEN chosen[n] ELSE Append(chosen[n], s[n + 1])
      BY <1>9, <2>1
    <3> QED BY <3>1, <3>2, SMTT(30)
  <2>2. CASE ~(n + 1 <= Len(s))
    BY <2>2
  <2> QED BY <2>1, <2>2
<1>12. Nat \subseteq Typed
  <2> HIDE DEF Typed
  <2> QED BY <1>10, <1>11, InductiveSet
<1>13. chosen \in [0 .. Len(s) -> Seq(T)]
  <2>1. \A n \in 0 .. Len(s) : chosen[n] \in Seq(T)
    BY <1>12
  <2> HIDE DEF Step
  <2> QED BY <1>6, <2>1
<1> QED BY <1>7, <1>9, <1>13 DEF Keeps

(* at gives the positions in s of the elements of e: those of the first n  *)
(* of s that are not in S, each once and in order.                         *)
KeptAt(e, s, S, n, at) ==
    /\ at \in [1 .. Len(e) -> 1 .. n]
    /\ \A k \in 1 .. Len(e) : e[k] = s[at[k]] /\ s[at[k]] \notin S
    /\ \A k, l \in 1 .. Len(e) : k < l => at[k] < at[l]
    /\ \A i \in 1 .. n : s[i] \notin S => \E k \in 1 .. Len(e) : at[k] = i

(* Excluding(s, S) is a sequence of the elements of s that are not in S, in*)
(* their order: the keys of a dictionary stay in order and stay unique     *)
(* when some are removed.                                                  *)
LEMMA ExcludingPlaces ==
    ASSUME NEW T, NEW s \in Seq(T), NEW S
    PROVE  /\ Excluding(s, S) \in Seq(T)
           /\ \E at : KeptAt(Excluding(s, S), s, S, Len(s), at)
<1>0. PICK kept \in [0 .. Len(s) -> Seq(T)] :
             Keeps(kept, s, S) /\ Excluding(s, S) = kept[Len(s)]
  BY ExcludingSteps
<1>1. /\ kept[0] = <<>>
      /\ \A i \in 1 .. Len(s) :
            kept[i] = IF s[i] \in S THEN kept[i - 1] ELSE Append(kept[i - 1], s[i])
      /\ Excluding(s, S) = kept[Len(s)]
  BY <1>0 DEF Keeps
<1> DEFINE Placed == {n \in Nat : n <= Len(s) => \E at : KeptAt(kept[n], s, S, n, at)}
<1>2. 0 \in Placed
  <2>1. KeptAt(kept[0], s, S, 0, <<>>)
    BY <1>1 DEF KeptAt
  <2> QED BY <2>1
<1>3. ASSUME NEW n \in Nat, n \in Placed PROVE n + 1 \in Placed
  <2>1. CASE n + 1 <= Len(s)
    <3>1. PICK at : KeptAt(kept[n], s, S, n, at)
      <4>1. n <= Len(s)
        BY <2>1
      <4> QED BY <1>3, <4>1
    <3>2. kept[n] \in Seq(T) /\ s[n + 1] \in T /\ kept[n + 1] \in Seq(T)
      BY <2>1
    <3>3. kept[n + 1] = IF s[n + 1] \in S THEN kept[n] ELSE Append(kept[n], s[n + 1])
      BY <1>1, <2>1
    <3>4. CASE s[n + 1] \in S
      <4>1. kept[n + 1] = kept[n]
        BY <3>3, <3>4
      <4>2. KeptAt(kept[n], s, S, n + 1, at)
        BY <3>1, <3>4 DEF KeptAt
      <4> QED BY <4>1, <4>2
    <3>5. CASE s[n + 1] \notin S
      <4> DEFINE size == Len(kept[n])
                 more == [k \in 1 .. size + 1 |-> IF k = size + 1 THEN n + 1 ELSE at[k]]
      <4>1. size \in Nat /\ Len(kept[n + 1]) = size + 1
        BY <3>2, <3>3, <3>5
      <4>2. kept[n + 1][size + 1] = s[n + 1] /\ \A k \in 1 .. size : kept[n + 1][k] = kept[n][k]
        BY <3>2, <3>3, <3>5, AppendProperties
      <4>3. more \in [1 .. size + 1 -> 1 .. n + 1]
        BY <3>1, <4>1 DEF KeptAt
      <4>4. more[size + 1] = n + 1 /\ \A k \in 1 .. size : more[k] = at[k] /\ at[k] \in 1 .. n
        BY <3>1, <4>1 DEF KeptAt
      <4>5. /\ \A k \in 1 .. size : kept[n][k] = s[at[k]] /\ s[at[k]] \notin S
            /\ \A k, l \in 1 .. size : k < l => at[k] < at[l]
            /\ \A i \in 1 .. n : s[i] \notin S => \E k \in 1 .. size : at[k] = i
        BY <3>1 DEF KeptAt
      <4> HIDE DEF size, more
      <4>6. ASSUME NEW k \in 1 .. size + 1
            PROVE  kept[n + 1][k] = s[more[k]] /\ s[more[k]] \notin S
        <5>1. CASE k = size + 1
          BY <3>5, <4>2, <4>4, <5>1
        <5>2. CASE k \in 1 .. size
          BY <4>2, <4>4, <4>5, <5>2
        <5> QED BY <4>1, <5>1, <5>2
      <4>7. ASSUME NEW k \in 1 .. size + 1, NEW l \in 1 .. size + 1, k < l
            PROVE  more[k] < more[l]
        <5>1. k \in 1 .. size
          BY <4>1, <4>7
        <5>2. CASE l = size + 1
          BY <4>4, <5>1, <5>2
        <5>3. CASE l \in 1 .. size
          BY <4>4, <4>5, <4>7, <5>1, <5>3
        <5> QED BY <4>1, <5>2, <5>3
      <4>9. ASSUME NEW i \in 1 .. n + 1, s[i] \notin S
            PROVE  \E k \in 1 .. size + 1 : more[k] = i
        <5>1. CASE i = n + 1
          BY <4>1, <4>4, <5>1
        <5>2. CASE i \in 1 .. n
          <6>1. PICK k \in 1 .. size : at[k] = i
            BY <4>5, <4>9, <5>2
          <6>2. k \in 1 .. size + 1 /\ more[k] = i
            BY <4>1, <4>4, <6>1
          <6> QED BY <6>2
        <5> QED BY <5>1, <5>2
      <4>8. KeptAt(kept[n + 1], s, S, n + 1, more)
        BY <4>1, <4>3, <4>6, <4>7, <4>9 DEF KeptAt
      <4> QED BY <4>8
    <3> QED BY <3>4, <3>5
  <2>2. CASE ~(n + 1 <= Len(s))
    BY <2>2
  <2> QED BY <2>1, <2>2
<1>4. Nat \subseteq Placed
  <2> HIDE DEF Placed
  <2> QED BY <1>2, <1>3, InductiveSet
<1>5. Len(s) \in Nat
  OBVIOUS
<1> QED BY <1>1, <1>4, <1>5

-----------------------------------------------------------------------------
(* joined is the function by which FlattenSeq(seqs) is computed.           *)
Joins(joined, seqs) ==
    \A i \in 1 .. Len(seqs) :
       joined[i] = IF i = 1 THEN seqs[i] ELSE joined[i - 1] \o seqs[i]

(* FlattenSeq is computed by a function from the positions of seqs to      *)
(* sequences of the elements of its members.                               *)
LEMMA FlattenSteps ==
    ASSUME NEW T, NEW seqs \in Seq(Seq(T)), seqs # <<>>
    PROVE  \E joined \in [1 .. Len(seqs) -> Seq(T)] :
              Joins(joined, seqs) /\ FlattenSeq(seqs) = joined[Len(seqs)]
<1> DEFINE N == Len(seqs)
           Step(f, i) == IF i = 1 THEN seqs[i] ELSE f[i - 1] \o seqs[i]
           Upto(n) == {f \in [1 .. n -> Seq(T)] : \A i \in 1 .. n : f[i] = Step(f, i)}
           Good == {n \in Nat : n <= N => Upto(n) # {}}
<1>a. N \in Nat \ {0} /\ seqs \in [1 .. N -> Seq(T)]
  OBVIOUS
<1>1. 0 \in Good
  <2>1. <<>> \in Upto(0)
    OBVIOUS
  <2> QED BY <2>1
<1>2. ASSUME NEW n \in Nat, n \in Good PROVE n + 1 \in Good
  <2>1. CASE n + 1 <= N
    <3>1. PICK f \in Upto(n) : TRUE
      <4> HIDE DEF Upto, N
      <4>1. n <= N
        BY <2>1, <1>a
      <4> QED BY <1>2, <4>1
    <3>2. f \in [1 .. n -> Seq(T)] /\ \A i \in 1 .. n : f[i] = Step(f, i)
      <4> HIDE DEF Step
      <4> QED OBVIOUS
    <3> DEFINE last == Step(f, n + 1)
               g == [i \in 1 .. n + 1 |-> IF i <= n THEN f[i] ELSE last]
    <3>3. last \in Seq(T)
      <4> HIDE DEF N
      <4>1. seqs[n + 1] \in Seq(T)
        BY <1>a, <2>1
      <4> QED BY <3>2, <4>1
    <3>4. g \in [1 .. n + 1 -> Seq(T)]
      <4> HIDE DEF last
      <4> QED BY <3>2, <3>3
    <3>5. g[n + 1] = Step(g, n + 1)
      BY <3>2
    <3>6. ASSUME NEW i \in 1 .. n PROVE g[i] = Step(g, i)
      <4>1. g[i] = f[i] /\ (i # 1 => g[i - 1] = f[i - 1])
        OBVIOUS
      <4>2. f[i] = Step(f, i)
        BY <3>2
      <4> HIDE DEF g
      <4> QED BY <4>1, <4>2
    <3>7. g \in Upto(n + 1)
      <4> HIDE DEF g, Step
      <4>1. \A i \in 1 .. n + 1 : i \in 1 .. n \/ i = n + 1
        OBVIOUS
      <4> QED BY <3>4, <3>5, <3>6, <4>1
    <3> HIDE DEF Upto
    <3> QED BY <3>7
  <2>2. CASE ~(n + 1 <= N)
    BY <2>2
  <2> QED BY <2>1, <2>2
<1>3. N \in Good
  <2> HIDE DEF Good, N
  <2> QED BY <1>1, <1>2, <1>a, InductiveSet
<1>4. PICK joined \in Upto(N) : TRUE
  <2> HIDE DEF Upto, N
  <2> QED BY <1>3, <1>a
<1>5. joined \in [1 .. N -> Seq(T)] /\ \A i \in 1 .. N : joined[i] = Step(joined, i)
  <2> HIDE DEF Step, N
  <2> QED OBVIOUS
<1> DEFINE Is(f) == f = [i \in 1 .. N |-> Step(f, i)]
           chosen == CHOOSE f : Is(f)
<1>6. Is(joined)
  <2> HIDE DEF Step, N
  <2> QED BY <1>5
<1>7. Is(chosen)
  <2> HIDE DEF Is
  <2> QED BY <1>6
<1>8. FlattenSeq(seqs) = chosen[N]
  <2>1. N # 0
    BY <1>a
  <2> QED BY <2>1 DEF FlattenSeq
<1> HIDE DEF chosen
<1>9. \A i \in 1 .. N : chosen[i] = Step(chosen, i)
  <2> HIDE DEF Step, N
  <2> QED BY <1>7
<1> DEFINE Typed == {m \in Nat : m \in 1 .. N => chosen[m] \in Seq(T)}
<1>10. 0 \in Typed
  OBVIOUS
<1>11. ASSUME NEW n \in Nat, n \in Typed PROVE n + 1 \in Typed
  <2>1. CASE n + 1 <= N
    <3>1. seqs[n + 1] \in Seq(T)
      BY <1>a, <2>1
    <3>2. chosen[n + 1] = IF n = 0 THEN seqs[n + 1] ELSE chosen[n] \o seqs[n + 1]
      <4>1. n + 1 \in 1 .. N /\ (n + 1) - 1 = n /\ (n + 1 = 1 <=> n = 0)
        BY <2>1, <1>a
      <4> QED BY <1>9, <4>1
    <3>3. n # 0 => chosen[n] \in Seq(T)
      BY <1>11, <2>1
    <3>4. chosen[n + 1] \in Seq(T)
      <4>1. CASE n = 0
        BY <3>1, <3>2, <4>1
      <4>2. CASE n # 0
        BY <3>1, <3>2, <3>3, <4>2, ConcatProperties
      <4> QED BY <4>1, <4>2
    <3> QED BY <3>4
  <2>2. CASE ~(n + 1 <= N)
    BY <2>2
  <2> QED BY <2>1, <2>2
<1>12. Nat \subseteq Typed
  <2> HIDE DEF Typed
  <2> QED BY <1>10, <1>11, InductiveSet
<1>13. chosen \in [1 .. N -> Seq(T)]
  <2>1. \A n \in 1 .. N : chosen[n] \in Seq(T)
    BY <1>12
  <2> HIDE DEF Step, N
  <2> QED BY <1>7, <2>1
<1>14. Joins(chosen, seqs)
  BY <1>9 DEF Joins
<1> QED BY <1>8, <1>13, <1>14

(* at says of each element of e in which of the first n members of seqs,   *)
(* and at which place of it, it is: every place of them, and each once.    *)
Spread(e, seqs, n, at) ==
    /\ at \in [1 .. Len(e) -> (1 .. n) \X Nat]
    /\ \A k \in 1 .. Len(e) :
          at[k][2] \in 1 .. Len(seqs[at[k][1]]) /\ e[k] = seqs[at[k][1]][at[k][2]]
    /\ \A k, l \in 1 .. Len(e) : at[k] = at[l] => k = l
    /\ \A i \in 1 .. n : \A j \in 1 .. Len(seqs[i]) : \E k \in 1 .. Len(e) : at[k] = <<i, j>>

(* One member more: its places come after those of the others.             *)
LEMMA SpreadConcat ==
    ASSUME NEW T, NEW old \in Seq(T), NEW new \in Seq(T), NEW n \in Nat,
           NEW seqs, seqs[n + 1] = new,
           NEW at, Spread(old, seqs, n, at)
    PROVE  \E more : Spread(old \o new, seqs, n + 1, more)
<1> DEFINE p == Len(old)
           q == Len(new)
           e == old \o new
           more == [k \in 1 .. p + q |-> IF k <= p THEN at[k] ELSE <<n + 1, k - p>>]
<1>1. p \in Nat /\ q \in Nat /\ Len(e) = p + q
  OBVIOUS
<1>2. /\ \A k \in 1 .. p : e[k] = old[k]
      /\ \A k \in p + 1 .. p + q : e[k] = new[k - p]
  BY ConcatProperties
<1>3. /\ at \in [1 .. p -> (1 .. n) \X Nat]
      /\ \A k \in 1 .. p :
            at[k][2] \in 1 .. Len(seqs[at[k][1]]) /\ old[k] = seqs[at[k][1]][at[k][2]]
      /\ \A k, l \in 1 .. p : at[k] = at[l] => k = l
      /\ \A i \in 1 .. n : \A j \in 1 .. Len(seqs[i]) : \E k \in 1 .. p : at[k] = <<i, j>>
  BY DEF Spread
<1>q. q = Len(seqs[n + 1])
  OBVIOUS
<1> HIDE DEF p, q, e
<1>4. \A k \in 1 .. p : more[k] = at[k] /\ at[k] \in (1 .. n) \X Nat
  BY <1>1, <1>3
<1>5. \A k \in p + 1 .. p + q : more[k] = <<n + 1, k - p>>
  BY <1>1
<1>6. \A k \in 1 .. p + q : k \in 1 .. p \/ k \in p + 1 .. p + q
  BY <1>1
<1>7. more \in [1 .. p + q -> (1 .. n + 1) \X Nat]
  <2> SUFFICES ASSUME NEW k \in 1 .. p + q PROVE more[k] \in (1 .. n + 1) \X Nat
    OBVIOUS
  <2> HIDE DEF more
  <2>1. CASE k \in 1 .. p
    BY <1>4, <2>1
  <2>2. CASE k \in p + 1 .. p + q
    <3>1. k - p \in Nat /\ n + 1 \in 1 .. n + 1
      BY <1>1, <2>2
    <3>2. <<n + 1, k - p>> \in (1 .. n + 1) \X Nat
      BY <3>1
    <3>3. more[k] = <<n + 1, k - p>>
      BY <1>5, <2>2
    <3> QED BY <3>2, <3>3
  <2> QED BY <1>6, <2>1, <2>2
<1> HIDE DEF more
<1>8. ASSUME NEW k \in 1 .. p + q
      PROVE  /\ more[k][2] \in 1 .. Len(seqs[more[k][1]])
             /\ e[k] = seqs[more[k][1]][more[k][2]]
  <2>1. CASE k \in 1 .. p
    BY <1>2, <1>3, <1>4, <2>1
  <2>2. CASE k \in p + 1 .. p + q
    <3>1. more[k][1] = n + 1 /\ more[k][2] = k - p /\ e[k] = new[k - p]
      BY <1>2, <1>5, <2>2
    <3>2. k - p \in 1 .. q
      BY <1>1, <2>2
    <3> QED BY <1>q, <3>1, <3>2
  <2> QED BY <1>6, <2>1, <2>2
<1>9. ASSUME NEW k \in 1 .. p + q, NEW l \in 1 .. p + q, more[k] = more[l]
      PROVE  k = l
  <2>1. CASE k \in 1 .. p /\ l \in 1 .. p
    BY <1>3, <1>4, <1>9, <2>1
  <2>2. CASE k \in p + 1 .. p + q /\ l \in p + 1 .. p + q
    <3>1. k - p = l - p
      BY <1>5, <1>9, <2>2
    <3> QED BY <1>1, <3>1
  <2>3. CASE k \in 1 .. p /\ l \in p + 1 .. p + q
    <3>1. more[k][1] \in 1 .. n /\ more[l][1] = n + 1
      BY <1>4, <1>5, <2>3
    <3> QED BY <1>9, <3>1
  <2>4. CASE l \in 1 .. p /\ k \in p + 1 .. p + q
    <3>1. more[l][1] \in 1 .. n /\ more[k][1] = n + 1
      BY <1>4, <1>5, <2>4
    <3> QED BY <1>9, <3>1
  <2> QED BY <1>6, <2>1, <2>2, <2>3, <2>4
<1>10. ASSUME NEW i \in 1 .. n + 1, NEW j \in 1 .. Len(seqs[i])
       PROVE  \E k \in 1 .. p + q : more[k] = <<i, j>>
  <2>1. CASE i \in 1 .. n
    <3>1. PICK k \in 1 .. p : at[k] = <<i, j>>
      BY <1>3, <2>1
    <3>2. k \in 1 .. p + q /\ more[k] = <<i, j>>
      BY <1>1, <1>4, <3>1
    <3> QED BY <3>2
  <2>2. CASE i = n + 1
    <3>1. j \in 1 .. q
      BY <1>q, <2>2
    <3>2. p + j \in p + 1 .. p + q /\ (p + j) - p = j /\ p + j \in 1 .. p + q
      BY <1>1, <3>1
    <3>3. more[p + j] = <<i, j>>
      BY <1>5, <2>2, <3>2
    <3> QED BY <3>2, <3>3
  <2> QED BY <2>1, <2>2
<1>11. Spread(e, seqs, n + 1, more)
  <2>1. Len(e) = p + q
    BY <1>1
  <2>2. more \in [1 .. Len(e) -> (1 .. n + 1) \X Nat]
    BY <1>7, <2>1
  <2>3. \A k \in 1 .. Len(e) : /\ more[k][2] \in 1 .. Len(seqs[more[k][1]])
                               /\ e[k] = seqs[more[k][1]][more[k][2]]
    BY <1>8, <2>1
  <2>4. \A k, l \in 1 .. Len(e) : more[k] = more[l] => k = l
    BY <1>9, <2>1
  <2>5. \A i \in 1 .. n + 1 : \A j \in 1 .. Len(seqs[i]) :
           \E k \in 1 .. Len(e) : more[k] = <<i, j>>
    BY <1>10, <2>1
  <2> QED BY <2>2, <2>3, <2>4, <2>5, Zenon DEF Spread
<1> QED BY <1>11 DEF e

(* FlattenSeq(seqs) has the elements of all members, each as often as they *)
(* have it: no callback that a frame collects is lost or called twice.     *)
LEMMA FlattenPlaces ==
    ASSUME NEW T, NEW seqs \in Seq(Seq(T))
    PROVE  /\ FlattenSeq(seqs) \in Seq(T)
           /\ \E at : Spread(FlattenSeq(seqs), seqs, Len(seqs), at)
<1>0. Spread(<<>>, seqs, 0, <<>>)
  BY DEF Spread
<1>1. CASE seqs = <<>>
  <2>1. FlattenSeq(seqs) = <<>> /\ Len(seqs) = 0
    BY <1>1 DEF FlattenSeq
  <2> QED BY <1>0, <2>1
<1>2. CASE seqs # <<>>
  <2> DEFINE N == Len(seqs)
  <2>1. PICK joined \in [1 .. N -> Seq(T)] :
               Joins(joined, seqs) /\ FlattenSeq(seqs) = joined[N]
    BY <1>2, FlattenSteps
  <2>2. N \in Nat \ {0} /\ \A i \in 1 .. N : seqs[i] \in Seq(T)
    BY <1>2
  <2>3. \A i \in 1 .. N : joined[i] = IF i = 1 THEN seqs[i] ELSE joined[i - 1] \o seqs[i]
    BY <2>1 DEF Joins
  <2> HIDE DEF N
  <2> DEFINE Placed == {n \in Nat : n \in 1 .. N => \E at : Spread(joined[n], seqs, n, at)}
  <2>4. 0 \in Placed
    BY <2>2
  <2>5. ASSUME NEW n \in Nat, n \in Placed PROVE n + 1 \in Placed
    <3> SUFFICES ASSUME n + 1 \in 1 .. N
                 PROVE  \E at : Spread(joined[n + 1], seqs, n + 1, at)
      OBVIOUS
    <3>1. seqs[n + 1] \in Seq(T) /\ (n + 1) - 1 = n
      BY <2>2
    <3>2. CASE n = 0
      <4>1. joined[n + 1] = <<>> \o seqs[n + 1]
        <5>1. joined[n + 1] = seqs[n + 1]
          <6>1. n + 1 = 1
            BY <3>2
          <6> QED BY <2>3, <6>1
        <5> QED BY <3>1, <5>1, ConcatEmptySeq
      <4>2. \E at : Spread(<<>> \o seqs[n + 1], seqs, n + 1, at)
        <5>1. <<>> \in Seq(T) /\ Spread(<<>>, seqs, n, <<>>)
          BY <1>0, <3>2
        <5> QED BY <3>1, <5>1, SpreadConcat, Zenon
      <4> QED BY <4>1, <4>2
    <3>3. CASE n # 0
      <4>1. n \in 1 .. N
        BY <2>2, <3>3
      <4>2. joined[n + 1] = joined[n] \o seqs[n + 1]
        <5>1. n + 1 # 1
          BY <3>3
        <5> QED BY <2>3, <3>1, <5>1, Zenon
      <4>3. joined[n] \in Seq(T)
        BY <2>1, <4>1
      <4>4. PICK at : Spread(joined[n], seqs, n, at)
        BY <2>5, <4>1
      <4> QED BY <3>1, <4>2, <4>3, <4>4, SpreadConcat, ZenonT(30)
    <3> QED BY <3>2, <3>3
  <2>6. Nat \subseteq Placed
    <3> HIDE DEF Placed
    <3> QED BY <2>4, <2>5, InductiveSet
  <2>7. \E at : Spread(joined[N], seqs, N, at)
    BY <2>2, <2>6
  <2>8. joined[N] \in Seq(T)
    BY <2>1, <2>2
  <2> QED BY <2>1, <2>7, <2>8 DEF N
<1> QED BY <1>1, <1>2

-----------------------------------------------------------------------------
(* Sequences whose elements are different.                                 *)

(* Removing elements leaves the others, each once.                         *)
LEMMA DistinctWithout ==
    ASSUME NEW X, NEW o \in Seq(X), IsInjective(o), NEW S
    PROVE  /\ Excluding(o, S) \in Seq(X) /\ IsInjective(Excluding(o, S))
           /\ ToSet(Excluding(o, S)) = ToSet(o) \ S
<1> DEFINE e == Excluding(o, S)
<1>1. e \in Seq(X) /\ \E at : KeptAt(e, o, S, Len(o), at)
  BY ExcludingPlaces
<1> HIDE DEF e
<1>2. PICK at : KeptAt(e, o, S, Len(o), at)
  BY <1>1
<1>3. DOMAIN e = 1 .. Len(e) /\ DOMAIN o = 1 .. Len(o) /\ Len(e) \in Nat /\ Len(o) \in Nat
  BY <1>1
<1>4. /\ \A k \in 1 .. Len(e) : at[k] \in 1 .. Len(o) /\ e[k] = o[at[k]] /\ e[k] \notin S
      /\ \A k, l \in 1 .. Len(e) : k < l => at[k] < at[l]
      /\ \A i \in 1 .. Len(o) : o[i] \notin S => \E k \in 1 .. Len(e) : at[k] = i
  BY <1>2, Zenon DEF KeptAt
<1>5. ASSUME NEW k \in 1 .. Len(e), NEW l \in 1 .. Len(e), e[k] = e[l] PROVE k = l
  <2>1. at[k] = at[l] /\ at[k] \in Nat
    BY <1>3, <1>4, <1>5 DEF IsInjective
  <2>2. ~(k < l) /\ ~(l < k)
    BY <1>3, <1>4, <2>1
  <2> QED BY <1>3, <2>2
<1>6. IsInjective(e)
  BY <1>3, <1>5 DEF IsInjective
<1>7. ToSet(e) = ToSet(o) \ S
  BY <1>3, <1>4, SMTT(30) DEF ToSet
<1> QED BY <1>1, <1>6, <1>7 DEF e

(* A new element goes to the end.                                          *)
LEMMA DistinctWith ==
    ASSUME NEW X, NEW o \in Seq(X), IsInjective(o), NEW id \in X, id \notin ToSet(o)
    PROVE  /\ Append(o, id) \in Seq(X) /\ IsInjective(Append(o, id))
           /\ ToSet(Append(o, id)) = ToSet(o) \cup {id}
<1>1. /\ Append(o, id) \in Seq(X) /\ DOMAIN Append(o, id) = 1 .. Len(o) + 1
      /\ Len(o) \in Nat /\ DOMAIN o = 1 .. Len(o)
      /\ \A i \in 1 .. Len(o) : Append(o, id)[i] = o[i]
      /\ Append(o, id)[Len(o) + 1] = id
  BY AppendProperties
<1>2. \A i \in 1 .. Len(o) : o[i] # id
  BY <1>1 DEF ToSet
<1>3. \A i \in 1 .. Len(o) + 1 : i \in 1 .. Len(o) \/ i = Len(o) + 1
  BY <1>1
<1>4. IsInjective(Append(o, id))
  BY <1>1, <1>2, <1>3 DEF IsInjective
<1>5. ToSet(Append(o, id)) = ToSet(o) \cup {id}
  BY <1>1, <1>3 DEF ToSet
<1> QED BY <1>1, <1>4, <1>5

(* All but the last element.                                               *)
LEMMA FrontParts ==
    ASSUME NEW X, NEW s \in Seq(X), s # <<>>
    PROVE  /\ Len(s) \in Nat \ {0} /\ DOMAIN s = 1 .. Len(s)
           /\ Front(s) \in Seq(X) /\ Len(Front(s)) = Len(s) - 1
           /\ DOMAIN Front(s) = 1 .. Len(s) - 1
           /\ \A i \in 1 .. Len(s) - 1 : Front(s)[i] = s[i]
           /\ Last(s) = s[Len(s)] /\ Last(s) \in X
<1>1. Len(s) \in Nat \ {0} /\ DOMAIN s = 1 .. Len(s)
  OBVIOUS
<1>2. /\ Front(s) \in Seq(X) /\ Len(Front(s)) = Len(s) - 1
      /\ DOMAIN Front(s) = 1 .. Len(s) - 1
      /\ \A i \in 1 .. Len(s) - 1 : Front(s)[i] = s[i]
  BY <1>1, SubSeqProperties DEF Front
<1>3. Last(s) = s[Len(s)]
  BY DEF Last
<1> QED BY <1>1, <1>2, <1>3

(* Without the last element the others are there, each once.               *)
LEMMA DistinctFront ==
    ASSUME NEW X, NEW s \in Seq(X), IsInjective(s), s # <<>>
    PROVE  /\ Front(s) \in Seq(X) /\ IsInjective(Front(s)) /\ Len(Front(s)) = Len(s) - 1
           /\ Last(s) \in ToSet(s) /\ ToSet(Front(s)) = ToSet(s) \ {Last(s)}
<1>1. /\ Len(s) \in Nat \ {0} /\ DOMAIN s = 1 .. Len(s)
      /\ Front(s) \in Seq(X) /\ Len(Front(s)) = Len(s) - 1
      /\ DOMAIN Front(s) = 1 .. Len(s) - 1
      /\ \A i \in 1 .. Len(s) - 1 : Front(s)[i] = s[i]
      /\ Last(s) = s[Len(s)] /\ Last(s) \in X
  BY FrontParts
<1> DEFINE f == Front(s)
           z == Last(s)
<1> HIDE DEF f, z
<1>2. /\ DOMAIN f = 1 .. Len(s) - 1 /\ z = s[Len(s)]
      /\ \A i \in 1 .. Len(s) - 1 : f[i] = s[i]
  BY <1>1 DEF f, z
<1>3. \A i, j \in 1 .. Len(s) : s[i] = s[j] => i = j
  BY <1>1 DEF IsInjective
<1>4. IsInjective(f)
  BY <1>1, <1>2, <1>3 DEF IsInjective
<1>5. z \in ToSet(s)
  BY <1>1, <1>2 DEF ToSet
<1>6. ToSet(f) = ToSet(s) \ {z}
  BY <1>1, <1>2, <1>3 DEF ToSet
<1> QED BY <1>1, <1>4, <1>5, <1>6 DEF f, z

(* A sequence of distinct values is as long as the set of them; its tail   *)
(* is a sequence of distinct values again.                                 *)
LEMMA DistinctCount ==
    ASSUME NEW X, NEW s \in Seq(X), IsInjective(s)
    PROVE  IsFiniteSet(ToSet(s)) /\ Cardinality(ToSet(s)) = Len(s)
<1>1. Len(s) \in Nat /\ DOMAIN s = 1 .. Len(s)
  OBVIOUS
<1>2. s \in Bijection(1 .. Len(s), ToSet(s))
  <2>1. s \in [1 .. Len(s) -> ToSet(s)]
    BY <1>1 DEF ToSet
  <2>2. \A y \in ToSet(s) : \E i \in 1 .. Len(s) : s[i] = y
    BY <1>1 DEF ToSet
  <2>3. \A i, j \in 1 .. Len(s) : s[i] = s[j] => i = j
    BY <1>1 DEF IsInjective
  <2> QED BY <2>1, <2>2, <2>3 DEF Bijection, Injection, Surjection, IsInjective
<1>3. ExistsBijection(1 .. Len(s), ToSet(s))
  BY <1>2 DEF ExistsBijection
<1>4. IsFiniteSet(1 .. Len(s)) /\ Cardinality(1 .. Len(s)) = Len(s)
  BY <1>1, FS_Interval
<1> QED BY <1>3, <1>4, FS_Bijection

LEMMA DistinctTail ==
    ASSUME NEW X, NEW s \in Seq(X), IsInjective(s), s # <<>>
    PROVE  /\ Tail(s) \in Seq(X) /\ IsInjective(Tail(s)) /\ Len(Tail(s)) = Len(s) - 1
           /\ ToSet(Tail(s)) \subseteq ToSet(s)
<1>1. /\ Len(s) \in Nat \ {0} /\ DOMAIN s = 1 .. Len(s)
      /\ Tail(s) \in Seq(X) /\ Len(Tail(s)) = Len(s) - 1
      /\ DOMAIN Tail(s) = 1 .. Len(s) - 1
      /\ \A i \in 1 .. Len(s) - 1 : Tail(s)[i] = s[i + 1]
  OBVIOUS
<1>2. \A i \in 1 .. Len(s) - 1 : i + 1 \in 1 .. Len(s)
  BY <1>1
<1>3. IsInjective(Tail(s))
  <2> SUFFICES ASSUME NEW i \in 1 .. Len(s) - 1, NEW j \in 1 .. Len(s) - 1, Tail(s)[i] = Tail(s)[j]
               PROVE  i = j
    BY <1>1 DEF IsInjective
  <2>1. i + 1 = j + 1
    BY <1>1, <1>2 DEF IsInjective
  <2> QED BY <1>1, <2>1
<1>4. ToSet(Tail(s)) \subseteq ToSet(s)
  BY <1>1, <1>2 DEF ToSet
<1> QED BY <1>1, <1>3, <1>4

-----------------------------------------------------------------------------
(* Concatenation.                                                          *)

(* Its brackets do not matter (a name, so that provers need not look into  *)
(* it where the sequences do not matter).                                  *)
Assoc(X) == \A s, t, w \in Seq(X) : (s \o t) \o w = s \o (t \o w)

LEMMA Associative == ASSUME NEW X PROVE Assoc(X)
  BY ConcatAssociative, SMTT(60) DEF Assoc

LEMMA ConcatParts ==
    ASSUME NEW X, NEW s \in Seq(X), NEW t \in Seq(X)
    PROVE  /\ s \o t \in Seq(X) /\ ToSet(s \o t) = ToSet(s) \cup ToSet(t)
           /\ IsInjective(s \o t) <=> IsInjective(s) /\ IsInjective(t) /\ ToSet(s) \cap ToSet(t) = {}
<1> DEFINE c == s \o t
           m == Len(s)
           n == Len(t)
<1>1. /\ c \in Seq(X) /\ m \in Nat /\ n \in Nat /\ Len(c) = m + n
      /\ DOMAIN s = 1 .. m /\ DOMAIN t = 1 .. n /\ DOMAIN c = 1 .. m + n
      /\ \A i \in 1 .. m + n : c[i] = IF i <= m THEN s[i] ELSE t[i - m]
  BY ConcatProperties
<1> HIDE DEF c, m, n
<1>2. /\ \A i \in 1 .. m : i \in 1 .. m + n /\ c[i] = s[i]
      /\ \A j \in 1 .. n : m + j \in 1 .. m + n /\ c[m + j] = t[j]
      /\ \A k \in 1 .. m + n : k \in 1 .. m \/ (k - m \in 1 .. n /\ k = m + (k - m))
  <2>1. \A j \in 1 .. n : m + j \in 1 .. m + n /\ ~(m + j <= m) /\ (m + j) - m = j
    BY <1>1
  <2> QED BY <1>1, <2>1
<1>3. ToSet(c) = ToSet(s) \cup ToSet(t)
  <2>1. ToSet(s) \subseteq ToSet(c) /\ ToSet(t) \subseteq ToSet(c)
    <3>1. ASSUME NEW i \in 1 .. m PROVE s[i] \in ToSet(c)
      BY <1>1, <1>2 DEF ToSet
    <3>2. ASSUME NEW i \in 1 .. n PROVE t[i] \in ToSet(c)
      <4>1. m + i \in DOMAIN c /\ t[i] = c[m + i]
        BY <1>1, <1>2
      <4> QED BY <4>1 DEF ToSet
    <3> QED BY <1>1, <3>1, <3>2 DEF ToSet
  <2>2. ASSUME NEW k \in 1 .. m + n PROVE c[k] \in ToSet(s) \cup ToSet(t)
    BY <1>1, <1>2 DEF ToSet
  <2>3. ToSet(c) \subseteq ToSet(s) \cup ToSet(t)
    BY <1>1, <2>2 DEF ToSet
  <2> QED BY <2>1, <2>3
<1>4. ASSUME IsInjective(c)
      PROVE  IsInjective(s) /\ IsInjective(t) /\ ToSet(s) \cap ToSet(t) = {}
  <2>1. \A a, b \in 1 .. m + n : c[a] = c[b] => a = b
    BY <1>1, <1>4 DEF IsInjective
  <2>2. IsInjective(s)
    BY <1>1, <1>2, <2>1 DEF IsInjective
  <2>3. ASSUME NEW a \in 1 .. n, NEW b \in 1 .. n, t[a] = t[b] PROVE a = b
    <3>1. m + a = m + b
      BY <1>2, <2>1, <2>3
    <3> QED BY <1>1, <3>1
  <2>4. ASSUME NEW a \in 1 .. m, NEW b \in 1 .. n PROVE s[a] # t[b]
    <3>1. a # m + b
      BY <1>1
    <3> QED BY <1>2, <2>1, <3>1
  <2> QED BY <1>1, <2>2, <2>3, <2>4 DEF IsInjective, ToSet
<1>5. ASSUME IsInjective(s), IsInjective(t), ToSet(s) \cap ToSet(t) = {}
      PROVE  IsInjective(c)
  <2>1. \A a, b \in 1 .. m : s[a] = s[b] => a = b
    BY <1>1, <1>5 DEF IsInjective
  <2>2. \A a, b \in 1 .. n : t[a] = t[b] => a = b
    BY <1>1, <1>5 DEF IsInjective
  <2>3. \A a \in 1 .. m, b \in 1 .. n : s[a] # t[b]
    BY <1>1, <1>5 DEF ToSet
  <2>4. ASSUME NEW a \in 1 .. m + n, NEW b \in 1 .. m + n, c[a] = c[b] PROVE a = b
    <3>1. CASE a \in 1 .. m /\ b \in 1 .. m
      BY <1>2, <2>1, <2>4, <3>1
    <3>2. CASE a \in 1 .. m /\ b \notin 1 .. m
      <4>1. b - m \in 1 .. n /\ c[b] = t[b - m] /\ c[a] = s[a]
        BY <1>2, <3>2
      <4> QED BY <2>3, <2>4, <3>2, <4>1
    <3>3. CASE a \notin 1 .. m /\ b \in 1 .. m
      <4>1. a - m \in 1 .. n /\ c[a] = t[a - m] /\ c[b] = s[b]
        BY <1>2, <3>3
      <4> QED BY <2>3, <2>4, <3>3, <4>1
    <3>4. CASE a \notin 1 .. m /\ b \notin 1 .. m
      <4>1. a - m \in 1 .. n /\ b - m \in 1 .. n /\ c[a] = t[a - m] /\ c[b] = t[b - m]
        BY <1>2, <3>4
      <4>2. a - m = b - m
        BY <2>2, <2>4, <4>1
      <4> QED BY <1>1, <4>2
    <3> QED BY <3>1, <3>2, <3>3, <3>4
  <2> QED BY <1>1, <2>4 DEF IsInjective
<1> QED BY <1>1, <1>3, <1>4, <1>5 DEF c

(* Removing what was appended.                                             *)
LEMMA ExcludingEnd ==
    ASSUME NEW X, NEW s \in Seq(X), NEW e \in Seq(X), ToSet(s) \cap ToSet(e) = {}
    PROVE  Excluding(s \o e, ToSet(e)) = s
<1>0. /\ DOMAIN s = 1 .. Len(s) /\ DOMAIN e = 1 .. Len(e)
      /\ \A i \in 1 .. Len(s) : s[i] \in X /\ s[i] \in ToSet(s)
      /\ \A i \in 1 .. Len(e) : e[i] \in ToSet(e)
  <2>1. DOMAIN s = 1 .. Len(s) /\ DOMAIN e = 1 .. Len(e) /\ \A i \in 1 .. Len(s) : s[i] \in X
    OBVIOUS
  <2> QED BY <2>1 DEF ToSet
<1> DEFINE c == s \o e
           S == ToSet(e)
           m == Len(s)
           n == Len(e)
<1>1. /\ c \in Seq(X) /\ m \in Nat /\ n \in Nat /\ Len(c) = m + n
      /\ \A i \in 1 .. m + n : c[i] = IF i <= m THEN s[i] ELSE e[i - m]
  BY ConcatProperties
<1>2. PICK kept \in [0 .. Len(c) -> Seq(X)] : Keeps(kept, c, S) /\ Excluding(c, S) = kept[Len(c)]
  <2>1. c \in Seq(X)
    BY <1>1
  <2> HIDE DEF c, S
  <2> QED BY <2>1, ExcludingSteps
<1>3. /\ \A i \in 1 .. m : s[i] \notin S
      /\ \A i \in 1 .. n : e[i] \in S
  BY <1>0
<1>4. \A i \in 1 .. m : s[i] \in X
  BY <1>0
<1> HIDE DEF c, S, m, n
<1>5. /\ kept[0] = <<>>
      /\ \A i \in 1 .. m + n : kept[i] = IF c[i] \in S THEN kept[i - 1] ELSE Append(kept[i - 1], c[i])
      /\ \A i \in 0 .. m + n : kept[i] \in Seq(X)
  BY <1>1, <1>2 DEF Keeps
<1>6. /\ \A i \in 1 .. m : c[i] = s[i] /\ c[i] \notin S
      /\ \A i \in 1 .. m + n : ~(i <= m) => c[i] \in S
  <2>1. ASSUME NEW i \in 1 .. m + n, ~(i <= m) PROVE c[i] \in S
    <3>1. i - m \in 1 .. n /\ c[i] = e[i - m]
      BY <1>1, <2>1
    <3> QED BY <1>3, <3>1
  <2>2. \A i \in 1 .. m : i \in 1 .. m + n /\ i <= m
    BY <1>1
  <2> QED BY <1>1, <1>3, <2>1, <2>2
<1> DEFINE Same(k) == Len(kept[k]) = k /\ \A i \in 1 .. k : kept[k][i] = s[i]
           Good == {k \in Nat : k <= m => Same(k)}
<1>7. 0 \in Good
  BY <1>5
<1>8. ASSUME NEW k \in Nat, k \in Good PROVE k + 1 \in Good
  <2>1. CASE k + 1 <= m
    <3>1. k + 1 \in 1 .. m /\ k \in 0 .. m + n /\ k + 1 \in 1 .. m + n /\ (k + 1) - 1 = k /\ k <= m
      BY <1>1, <2>1
    <3>2. kept[k + 1] = Append(kept[k], s[k + 1]) /\ kept[k] \in Seq(X) /\ s[k + 1] \in X
      BY <1>4, <1>5, <1>6, <3>1
    <3>3. Len(kept[k]) = k /\ \A i \in 1 .. k : kept[k][i] = s[i]
      BY <1>8, <3>1
    <3>4. Len(kept[k + 1]) = k + 1 /\ kept[k + 1][k + 1] = s[k + 1]
          /\ \A i \in 1 .. k : kept[k + 1][i] = s[i]
      BY <3>2, <3>3, AppendProperties
    <3>5. \A i \in 1 .. k + 1 : i \in 1 .. k \/ i = k + 1
      OBVIOUS
    <3>6. Same(k + 1)
      BY <3>4, <3>5
    <3> HIDE DEF Same
    <3> QED BY <3>6
  <2>2. CASE ~(k + 1 <= m)
    BY <2>2
  <2> QED BY <2>1, <2>2
<1>9. Nat \subseteq Good
  <2> HIDE DEF Good
  <2> QED BY <1>7, <1>8, InductiveSet
<1>10. kept[m] = s
  <2>1. Same(m)
    BY <1>1, <1>9
  <2>2. kept[m] \in Seq(X) /\ Len(s) = m
    BY <1>1, <1>5 DEF m
  <2> QED BY <1>4, <2>1, <2>2, SeqEqual
<1> DEFINE Rest == {k \in Nat : k <= n => kept[m + k] = s}
<1>11. 0 \in Rest
  BY <1>1, <1>10
<1>12. ASSUME NEW k \in Nat, k \in Rest PROVE k + 1 \in Rest
  <2>1. CASE k + 1 <= n
    <3>0. m \in Nat /\ n \in Nat /\ k \in Nat
      BY <1>1
    <3>1. m + (k + 1) \in 1 .. m + n /\ ~(m + (k + 1) <= m) /\ (m + (k + 1)) - 1 = m + k /\ k <= n
      BY <2>1, <3>0
    <3>2. kept[m + (k + 1)] = kept[m + k]
      BY <1>5, <1>6, <3>1
    <3> QED BY <1>12, <3>1, <3>2
  <2>2. CASE ~(k + 1 <= n)
    BY <2>2
  <2> QED BY <2>1, <2>2
<1>13. Nat \subseteq Rest
  <2> HIDE DEF Rest
  <2> QED BY <1>11, <1>12, InductiveSet
<1>14. kept[m + n] = s
  BY <1>1, <1>13
<1> QED BY <1>1, <1>2, <1>14 DEF c, S

(* A member more at the end.                                               *)
LEMMA FlattenAppend ==
    ASSUME NEW X, NEW q \in Seq(Seq(X)), NEW e \in Seq(X)
    PROVE  FlattenSeq(Append(q, e)) = FlattenSeq(q) \o e
<1> DEFINE r == Append(q, e)
           n == Len(q)
<1>1. /\ r \in Seq(Seq(X)) /\ r # <<>> /\ n \in Nat /\ Len(r) = n + 1 /\ r[n + 1] = e
      /\ \A i \in 1 .. n : r[i] = q[i]
  BY AppendProperties
<1>2. PICK long \in [1 .. Len(r) -> Seq(X)] : Joins(long, r) /\ FlattenSeq(r) = long[Len(r)]
  BY <1>1, FlattenSteps
<1> HIDE DEF r, n
<1>3. \A i \in 1 .. n + 1 : long[i] = IF i = 1 THEN r[i] ELSE long[i - 1] \o r[i]
  BY <1>1, <1>2 DEF Joins
<1>4. CASE q = <<>>
  <2>1. n = 0 /\ FlattenSeq(q) = <<>>
    BY <1>4 DEF n, FlattenSeq
  <2>2. FlattenSeq(r) = e
    BY <1>1, <1>2, <1>3, <2>1
  <2>3. <<>> \o e = e
    BY ConcatEmptySeq
  <2> QED BY <2>1, <2>2, <2>3 DEF r
<1>5. CASE q # <<>>
  <2>1. n \in Nat \ {0} /\ Len(q) = n
    BY <1>1, <1>5 DEF n
  <2>2. PICK short \in [1 .. n -> Seq(X)] : Joins(short, q) /\ FlattenSeq(q) = short[n]
    BY <1>5, <2>1, FlattenSteps
  <2>3. \A i \in 1 .. n : short[i] = IF i = 1 THEN q[i] ELSE short[i - 1] \o q[i]
    BY <2>1, <2>2 DEF Joins
  <2> DEFINE Good == {k \in Nat : k \in 1 .. n => long[k] = short[k]}
  <2>4. 0 \in Good
    BY <2>1
  <2>5. ASSUME NEW k \in Nat, k \in Good PROVE k + 1 \in Good
    <3>1. CASE k + 1 \in 1 .. n
      <4>1. /\ k + 1 \in 1 .. n + 1 /\ (k + 1) - 1 = k /\ (k # 0 => k \in 1 .. n)
            /\ k + 1 = 1 <=> k = 0
        BY <2>1, <3>1
      <4>2. r[k + 1] = q[k + 1]
        BY <1>1, <3>1
      <4>3. long[k + 1] = IF k = 0 THEN q[k + 1] ELSE long[k] \o q[k + 1]
        <5>1. long[k + 1] = IF k + 1 = 1 THEN r[k + 1] ELSE long[(k + 1) - 1] \o r[k + 1]
          BY <1>3, <4>1
        <5> QED BY <4>1, <4>2, <5>1
      <4>4. short[k + 1] = IF k = 0 THEN q[k + 1] ELSE short[k] \o q[k + 1]
        <5>1. short[k + 1] = IF k + 1 = 1 THEN q[k + 1] ELSE short[(k + 1) - 1] \o q[k + 1]
          BY <2>3, <3>1
        <5> QED BY <4>1, <5>1
      <4> QED BY <2>5, <4>1, <4>3, <4>4
    <3>2. CASE k + 1 \notin 1 .. n
      BY <3>2
    <3> QED BY <3>1, <3>2
  <2>6. Nat \subseteq Good
    <3> HIDE DEF Good
    <3> QED BY <2>4, <2>5, InductiveSet
  <2>7. long[n] = short[n]
    BY <2>1, <2>6
  <2>8. n + 1 \in 1 .. n + 1 /\ n + 1 # 1 /\ (n + 1) - 1 = n
    BY <2>1
  <2>9. long[n + 1] = long[n] \o r[n + 1]
    BY <1>3, <2>8
  <2> QED BY <1>1, <1>2, <2>2, <2>7, <2>9 DEF r
<1> QED BY <1>4, <1>5

LEMMA FlattenEmpty == FlattenSeq(<<>>) = <<>>
  BY DEF FlattenSeq

LEMMA FlattenType ==
    ASSUME NEW X, NEW q \in Seq(Seq(X))
    PROVE  FlattenSeq(q) \in Seq(X)
  BY FlattenPlaces

(* A member more at the beginning.                                         *)
LEMMA FlattenPrepend ==
    ASSUME NEW X, NEW q \in Seq(Seq(X)), NEW e \in Seq(X)
    PROVE  FlattenSeq(<<e>> \o q) = e \o FlattenSeq(q)
<1> DEFINE Good == {n \in Nat : \A r \in Seq(Seq(X)) : Len(r) = n => FlattenSeq(<<e>> \o r) = e \o FlattenSeq(r)}
<1>1. 0 \in Good
  <2> SUFFICES ASSUME NEW r \in Seq(Seq(X)), Len(r) = 0
               PROVE  FlattenSeq(<<e>> \o r) = e \o FlattenSeq(r)
    OBVIOUS
  <2>1. r = <<>> /\ <<e>> \in Seq(Seq(X)) /\ <<>> \in Seq(Seq(X)) /\ <<e>> = Append(<<>>, e)
    OBVIOUS
  <2>2. <<e>> \o r = <<e>>
    BY <2>1, ConcatEmptySeq
  <2>3. FlattenSeq(Append(<<>>, e)) = FlattenSeq(<<>>) \o e
    BY <2>1, FlattenAppend
  <2>4. <<>> \o e = e /\ e \o <<>> = e
    BY ConcatEmptySeq
  <2> QED BY <2>1, <2>2, <2>3, <2>4, FlattenEmpty
<1>2. ASSUME NEW n \in Nat, n \in Good PROVE n + 1 \in Good
  <2>0. n + 1 \in Nat
    OBVIOUS
  <2> SUFFICES ASSUME NEW r \in Seq(Seq(X)), Len(r) = n + 1
               PROVE  FlattenSeq(<<e>> \o r) = e \o FlattenSeq(r)
    BY <2>0
  <2>1. r # <<>>
    OBVIOUS
  <2>2. PICK s \in Seq(Seq(X)), z \in Seq(X) : r = Append(s, z)
    BY <2>1, SequenceEmptyOrAppend
  <2>3. Len(s) = n
    BY <2>2, AppendProperties
  <2>4. FlattenSeq(<<e>> \o s) = e \o FlattenSeq(s)
    BY <1>2, <2>3
  <2>5. <<e>> \in Seq(Seq(X)) /\ <<z>> \in Seq(Seq(X)) /\ <<e>> \o s \in Seq(Seq(X))
    OBVIOUS
  <2>6. <<e>> \o r = Append(<<e>> \o s, z)
    <3>1. r = s \o <<z>> /\ Append(<<e>> \o s, z) = (<<e>> \o s) \o <<z>>
      BY <2>2, <2>5, AppendIsConcat
    <3> QED BY <2>5, <3>1, ConcatAssociative, SMTT(30)
  <2>7. FlattenSeq(<<e>> \o r) = FlattenSeq(<<e>> \o s) \o z
    BY <2>5, <2>6, FlattenAppend
  <2>8. FlattenSeq(r) = FlattenSeq(s) \o z
    BY <2>2, FlattenAppend
  <2>9. FlattenSeq(s) \in Seq(X)
    BY FlattenType
  <2>10. (e \o FlattenSeq(s)) \o z = e \o (FlattenSeq(s) \o z)
    <3> DEFINE g == FlattenSeq(s)
    <3>1. g \in Seq(X)
      BY <2>9
    <3> HIDE DEF g
    <3>2. (e \o g) \o z = e \o (g \o z)
      BY <3>1, ConcatAssociative, SMTT(30)
    <3> QED BY <3>2 DEF g
  <2> QED BY <2>4, <2>7, <2>8, <2>10
<1>3. Nat \subseteq Good
  <2> HIDE DEF Good
  <2> QED BY <1>1, <1>2, InductiveSet
<1>4. Len(q) \in Nat
  OBVIOUS
<1>5. Len(q) \in Good
  <2> HIDE DEF Good
  <2> QED BY <1>3, <1>4
<1> QED BY <1>5

(* The newest entry of a stack, which is a sequence of sequences.          *)
LEMMA StackFront ==
    ASSUME NEW X, NEW q \in Seq(Seq(X)), q # <<>>
    PROVE  /\ Front(q) \in Seq(Seq(X)) /\ Last(q) \in Seq(X)
           /\ FlattenSeq(q) = FlattenSeq(Front(q)) \o Last(q)
           /\ Reverse(q) = <<Last(q)>> \o Reverse(Front(q))
           /\ Reverse(q) \in Seq(Seq(X)) /\ Reverse(Front(q)) \in Seq(Seq(X))
           /\ FlattenSeq(Reverse(q)) = Last(q) \o FlattenSeq(Reverse(Front(q)))
<1> DEFINE n == Len(q)
           f == Front(q)
           z == Last(q)
<1>1. /\ n \in Nat \ {0} /\ DOMAIN q = 1 .. n
      /\ f \in Seq(Seq(X)) /\ Len(f) = n - 1
      /\ \A i \in 1 .. n - 1 : f[i] = q[i]
      /\ z = q[n] /\ z \in Seq(X)
  BY FrontParts
<1> HIDE DEF n, f, z
<1>2. q = Append(f, z)
  <2>1. /\ Append(f, z) \in Seq(Seq(X)) /\ Len(Append(f, z)) = n
        /\ \A i \in 1 .. n - 1 : Append(f, z)[i] = q[i]
        /\ Append(f, z)[n] = q[n]
    <3>1. (n - 1) + 1 = n
      BY <1>1
    <3> QED BY <1>1, <3>1, AppendProperties
  <2>2. \A i \in 1 .. n : i \in 1 .. n - 1 \/ i = n
    BY <1>1
  <2>3. Len(q) = n
    BY DEF n
  <2>4. \A i \in 1 .. n : Append(f, z)[i] = q[i]
    BY <2>1, <2>2
  <2> QED BY <2>1, <2>3, <2>4, SeqEqual
<1>3. FlattenSeq(q) = FlattenSeq(f) \o z
  BY <1>1, <1>2, FlattenAppend
<1>4. Reverse(q) \in Seq(Seq(X)) /\ Len(Reverse(q)) = n /\ \A i \in 1 .. n : Reverse(q)[i] = q[n - i + 1]
  <2>1. \A i \in 1 .. n : (n - i) + 1 \in 1 .. n /\ q[(n - i) + 1] \in Seq(X)
    BY <1>1 DEF n
  <2>2. Reverse(q) = [i \in 1 .. n |-> q[(n - i) + 1]]
    BY DEF Reverse, n
  <2>3. Reverse(q) \in Seq(Seq(X)) /\ Len(Reverse(q)) = n
    BY <1>1, <2>1, <2>2
  <2> QED BY <2>2, <2>3
<1>5. Reverse(f) \in Seq(Seq(X)) /\ Len(Reverse(f)) = n - 1 /\ \A i \in 1 .. n - 1 : Reverse(f)[i] = q[n - i]
  <2>1. \A i \in 1 .. n - 1 : ((n - 1) - i) + 1 \in 1 .. n - 1 /\ ((n - 1) - i) + 1 = n - i
                              /\ f[((n - 1) - i) + 1] = q[n - i] /\ q[n - i] \in Seq(X)
    BY <1>1
  <2>2. Reverse(f) = [i \in 1 .. n - 1 |-> f[((n - 1) - i) + 1]]
    BY <1>1 DEF Reverse
  <2>3. Reverse(f) \in Seq(Seq(X)) /\ Len(Reverse(f)) = n - 1
    BY <1>1, <2>1, <2>2
  <2> QED BY <2>1, <2>2, <2>3
<1>6. Reverse(q) = <<z>> \o Reverse(f)
  <2> DEFINE r == <<z>> \o Reverse(f)
  <2>1. <<z>> \in Seq(Seq(X)) /\ Len(<<z>>) = 1 /\ <<z>>[1] = z
    BY <1>1
  <2>2. /\ r \in Seq(Seq(X)) /\ Len(r) = 1 + (n - 1)
        /\ \A i \in 1 .. 1 + (n - 1) : r[i] = IF i <= 1 THEN <<z>>[i] ELSE Reverse(f)[i - 1]
    BY <1>5, <2>1, ConcatProperties
  <2> HIDE DEF r
  <2>3. 1 + (n - 1) = n
    BY <1>1
  <2>4. ASSUME NEW i \in 1 .. n PROVE Reverse(q)[i] = r[i]
    <3>1. CASE i = 1
      <4>1. n - i + 1 = n
        BY <1>1, <3>1
      <4> QED BY <1>1, <1>4, <2>1, <2>2, <2>3, <3>1, <4>1
    <3>2. CASE i # 1
      <4>1. i - 1 \in 1 .. n - 1 /\ n - (i - 1) = n - i + 1 /\ ~(i <= 1)
        BY <1>1, <3>2
      <4> QED BY <1>4, <1>5, <2>2, <2>3, <4>1
    <3> QED BY <3>1, <3>2
  <2> QED BY <1>4, <2>2, <2>3, <2>4, SeqEqual DEF r
<1>7. FlattenSeq(Reverse(q)) = z \o FlattenSeq(Reverse(f))
  BY <1>1, <1>5, <1>6, FlattenPrepend
<1> QED BY <1>1, <1>3, <1>4, <1>5, <1>6, <1>7 DEF f, z

LEMMA StackPush ==
    ASSUME NEW X, NEW q \in Seq(Seq(X)), NEW e \in Seq(X)
    PROVE  /\ Append(q, e) \in Seq(Seq(X)) /\ Append(q, e) # <<>>
           /\ Front(Append(q, e)) = q /\ Last(Append(q, e)) = e
           /\ FlattenSeq(Reverse(Append(q, e))) = e \o FlattenSeq(Reverse(q))
<1> DEFINE r == Append(q, e)
           n == Len(q)
<1>1. /\ r \in Seq(Seq(X)) /\ r # <<>> /\ n \in Nat /\ Len(r) = n + 1 /\ r[n + 1] = e
      /\ \A i \in 1 .. n : r[i] = q[i]
  BY AppendProperties
<1> HIDE DEF r
<1>2. /\ Len(r) \in Nat \ {0} /\ Front(r) \in Seq(Seq(X)) /\ Len(Front(r)) = Len(r) - 1
      /\ \A i \in 1 .. Len(r) - 1 : Front(r)[i] = r[i]
      /\ Last(r) = r[Len(r)]
  BY <1>1, FrontParts
<1>3. Front(r) = q
  <2>1. Len(r) - 1 = n
    BY <1>1
  <2>2. \A i \in 1 .. n : Front(r)[i] = q[i]
    BY <1>1, <1>2, <2>1
  <2>3. Len(Front(r)) = Len(q)
    BY <1>2, <2>1
  <2> HIDE DEF n
  <2> QED BY <1>2, <2>2, <2>3, SeqEqual DEF n
<1>4. Last(r) = e
  BY <1>1, <1>2
<1>5. FlattenSeq(Reverse(r)) = Last(r) \o FlattenSeq(Reverse(Front(r)))
  BY <1>1, StackFront
<1> QED BY <1>1, <1>3, <1>4, <1>5 DEF r

(* The oldest entry.                                                       *)
LEMMA StackTail ==
    ASSUME NEW X, NEW q \in Seq(Seq(X)), q # <<>>
    PROVE  /\ Head(q) \in Seq(X) /\ Tail(q) \in Seq(Seq(X)) /\ q = <<Head(q)>> \o Tail(q)
           /\ FlattenSeq(q) = Head(q) \o FlattenSeq(Tail(q))
<1>1. Head(q) \in Seq(X) /\ Tail(q) \in Seq(Seq(X)) /\ q = <<Head(q)>> \o Tail(q)
  OBVIOUS
<1> QED BY <1>1, FlattenPrepend

(* SetToSeq lists a set.                                                   *)
LEMMA SetToSeqParts ==
    ASSUME NEW S, IsFiniteSet(S)
    PROVE  SetToSeq(S) \in Seq(S) /\ IsInjective(SetToSeq(S)) /\ ToSet(SetToSeq(S)) = S
<1> DEFINE n == Cardinality(S)
           Is(f) == f \in [1 .. n -> S] /\ IsInjective(f)
           list == CHOOSE f \in [1 .. n -> S] : IsInjective(f)
<1>1. n \in Nat /\ ExistsBijection(1 .. n, S)
  BY FS_CardinalityType
<1>2. \E f \in [1 .. n -> S] : IsInjective(f)
  <2> HIDE DEF n
  <2>1. PICK f \in Bijection(1 .. n, S) : TRUE
    BY <1>1 DEF ExistsBijection
  <2>2. f \in [1 .. n -> S] /\ \A i, j \in 1 .. n : f[i] = f[j] => i = j
    BY <2>1 DEF Bijection, Injection, IsInjective
  <2> QED BY <2>2 DEF IsInjective
<1>3. list \in [1 .. n -> S] /\ IsInjective(list)
  <2> HIDE DEF n
  <2> QED BY <1>2
<1>4. list = SetToSeq(S)
  BY DEF SetToSeq
<1> HIDE DEF n, list
<1>5. list \in Injection(1 .. n, S)
  BY <1>3 DEF Injection, IsInjective
<1>6. Cardinality(1 .. n) = Cardinality(S) /\ IsFiniteSet(1 .. n)
  <2>1. IsFiniteSet(1 .. n) /\ Cardinality(1 .. n) = n
    BY <1>1, FS_Interval
  <2> QED BY <2>1 DEF n
<1>7. list \in Surjection(1 .. n, S)
  BY <1>5, <1>6, FS_Injection
<1>8. \A y \in S : \E i \in 1 .. n : list[i] = y
  BY <1>7 DEF Surjection
<1>9. list \in Seq(S)
  BY <1>1, <1>3
<1>10. ToSet(list) = S
  BY <1>3, <1>8 DEF ToSet
<1> QED BY <1>3, <1>4, <1>9, <1>10

-----------------------------------------------------------------------------
(* Induction over sequences: a set that has the empty one and with each    *)
(* sequence those with one element more has them all.                      *)
LEMMA InductiveSequences ==
    ASSUME NEW X, NEW G, <<>> \in G,
           \A s \in Seq(X), e \in X : s \in G => Append(s, e) \in G
    PROVE  Seq(X) \subseteq G
<1> DEFINE Good == {n \in Nat : \A s \in Seq(X) : Len(s) = n => s \in G}
<1>1. 0 \in Good
  <2>1. \A s \in Seq(X) : Len(s) = 0 => s = <<>>
    OBVIOUS
  <2> QED BY <2>1
<1>2. ASSUME NEW n \in Nat, n \in Good PROVE n + 1 \in Good
  <2> SUFFICES ASSUME NEW s \in Seq(X), Len(s) = n + 1 PROVE s \in G
    OBVIOUS
  <2> DEFINE f == SubSeq(s, 1, n)
             e == s[n + 1]
  <2>1. f \in Seq(X) /\ Len(f) = n /\ e \in X
    OBVIOUS
  <2>2. s = Append(f, e)
    OBVIOUS
  <2> HIDE DEF f, e
  <2>3. f \in G
    BY <1>2, <2>1
  <2> QED BY <2>1, <2>2, <2>3
<1>3. Nat \subseteq Good
  <2> HIDE DEF Good
  <2> QED BY <1>1, <1>2, InductiveSet
<1> QED
  <2> SUFFICES ASSUME NEW s \in Seq(X) PROVE s \in G
    OBVIOUS
  <2>1. Len(s) \in Nat
    OBVIOUS
  <2> QED BY <1>3, <2>1

LEMMA ExcludingEmpty == ASSUME NEW S PROVE Excluding(<<>>, S) = <<>>
<1>1. <<>> \in Seq({}) /\ Len(<<>>) = 0
  OBVIOUS
<1>2. PICK kept \in [0 .. Len(<<>>) -> Seq({})] :
          Keeps(kept, <<>>, S) /\ Excluding(<<>>, S) = kept[Len(<<>>)]
  BY <1>1, ExcludingSteps
<1> QED BY <1>1, <1>2 DEF Keeps

LEMMA ExcludingAppend ==
    ASSUME NEW X, NEW s \in Seq(X), NEW e \in X, NEW S
    PROVE  Excluding(Append(s, e), S) =
               IF e \in S THEN Excluding(s, S) ELSE Append(Excluding(s, S), e)
<1> DEFINE r == Append(s, e)
           n == Len(s)
<1>1. r \in Seq(X) /\ n \in Nat /\ Len(r) = n + 1 /\ r[n + 1] = e /\ \A i \in 1 .. n : r[i] = s[i]
  OBVIOUS
<1>2. PICK short \in [0 .. n -> Seq(X)] : Keeps(short, s, S) /\ Excluding(s, S) = short[n]
  BY ExcludingSteps
<1> HIDE DEF r
<1>3. PICK long \in [0 .. Len(r) -> Seq(X)] : Keeps(long, r, S) /\ Excluding(r, S) = long[Len(r)]
  BY <1>1, ExcludingSteps
<1> DEFINE Good == {i \in Nat : i <= n => long[i] = short[i]}
<1>4. 0 \in Good
  BY <1>2, <1>3 DEF Keeps
<1>5. ASSUME NEW i \in Nat, i \in Good PROVE i + 1 \in Good
  <2> SUFFICES ASSUME i + 1 <= n PROVE long[i + 1] = short[i + 1]
    OBVIOUS
  <2>1. i + 1 \in 1 .. n /\ i + 1 \in 1 .. Len(r) /\ (i + 1) - 1 = i /\ i <= n
    BY <1>1
  <2>2. short[i + 1] = IF s[i + 1] \in S THEN short[i] ELSE Append(short[i], s[i + 1])
    BY <1>2, <2>1 DEF Keeps
  <2>3. long[i + 1] = IF r[i + 1] \in S THEN long[i] ELSE Append(long[i], r[i + 1])
    BY <1>3, <2>1 DEF Keeps
  <2>4. r[i + 1] = s[i + 1] /\ long[i] = short[i]
    BY <1>1, <1>5, <2>1
  <2> QED BY <2>2, <2>3, <2>4
<1>6. Nat \subseteq Good
  <2> HIDE DEF Good
  <2> QED BY <1>4, <1>5, InductiveSet
<1>7. long[n] = short[n]
  <2>1. n \in Good
    BY <1>1, <1>6
  <2>2. n <= n
    BY <1>1
  <2> QED BY <2>1, <2>2
<1>8. n + 1 \in 1 .. Len(r) /\ (n + 1) - 1 = n
  BY <1>1
<1>9. long[n + 1] = IF r[n + 1] \in S THEN long[n] ELSE Append(long[n], r[n + 1])
  BY <1>3, <1>8 DEF Keeps
<1>10. Excluding(r, S) = IF e \in S THEN Excluding(s, S) ELSE Append(Excluding(s, S), e)
  BY <1>1, <1>2, <1>3, <1>7, <1>9
<1> QED BY <1>10 DEF r

LEMMA ExcludingType ==
    ASSUME NEW X, NEW s \in Seq(X), NEW S
    PROVE  Excluding(s, S) \in Seq(X)
  BY ExcludingSteps

(* What is left.                                                           *)
LEMMA ExcludingKeeps ==
    ASSUME NEW X, NEW s \in Seq(X), NEW S
    PROVE  ToSet(Excluding(s, S)) = ToSet(s) \ S
<1> DEFINE e == Excluding(s, S)
<1>1. e \in Seq(X) /\ \E at : KeptAt(e, s, S, Len(s), at)
  BY ExcludingPlaces
<1> HIDE DEF e
<1>2. PICK at : KeptAt(e, s, S, Len(s), at)
  BY <1>1
<1>3. DOMAIN e = 1 .. Len(e) /\ DOMAIN s = 1 .. Len(s)
  BY <1>1
<1>4. ToSet(e) \subseteq ToSet(s) \ S
  BY <1>2, <1>3 DEF KeptAt, ToSet
<1>5. ToSet(s) \ S \subseteq ToSet(e)
  <2> SUFFICES ASSUME NEW i \in 1 .. Len(s), s[i] \notin S PROVE s[i] \in ToSet(e)
    BY <1>3 DEF ToSet
  <2>1. PICK k \in 1 .. Len(e) : at[k] = i
    BY <1>2 DEF KeptAt
  <2>2. e[k] = s[i]
    BY <1>2, <2>1 DEF KeptAt
  <2> QED BY <1>3, <2>2 DEF ToSet
<1> QED BY <1>4, <1>5 DEF e

(* To leave out S, then T, is to leave out both.                           *)
LEMMA ExcludingTwice ==
    ASSUME NEW X, NEW S, NEW T, NEW s \in Seq(X)
    PROVE  Excluding(Excluding(s, S), T) = Excluding(s, S \cup T)
<1> DEFINE G == {q \in Seq(X) : Excluding(Excluding(q, S), T) = Excluding(q, S \cup T)}
<1>1. <<>> \in G
  BY ExcludingEmpty
<1>2. ASSUME NEW q \in Seq(X), NEW e \in X, q \in G PROVE Append(q, e) \in G
  <2>1. /\ Append(q, e) \in Seq(X)
        /\ Excluding(q, S) \in Seq(X)
    BY ExcludingType, AppendProperties
  <2>2. Excluding(Append(q, e), S) = IF e \in S THEN Excluding(q, S) ELSE Append(Excluding(q, S), e)
    BY ExcludingAppend
  <2>3. Excluding(Append(q, e), S \cup T) =
            IF e \in S \cup T THEN Excluding(q, S \cup T) ELSE Append(Excluding(q, S \cup T), e)
    BY ExcludingAppend
  <2>4. Excluding(Append(Excluding(q, S), e), T) =
            IF e \in T THEN Excluding(Excluding(q, S), T) ELSE Append(Excluding(Excluding(q, S), T), e)
    BY <2>1, ExcludingAppend
  <2> QED BY <1>2, <2>1, <2>2, <2>3, <2>4
<1>3. Seq(X) \subseteq G
  <2> HIDE DEF G
  <2> QED BY <1>1, <1>2, InductiveSequences
<1> QED BY <1>3

(* It matters only which of its elements are left out.                     *)
LEMMA ExcludingSame ==
    ASSUME NEW X, NEW S, NEW T, NEW s \in Seq(X), \A x \in ToSet(s) : x \in S <=> x \in T
    PROVE  Excluding(s, S) = Excluding(s, T)
<1> DEFINE G == {q \in Seq(X) : (\A x \in ToSet(q) : x \in S <=> x \in T)
                                    => Excluding(q, S) = Excluding(q, T)}
<1>1. <<>> \in G
  BY ExcludingEmpty
<1>2. ASSUME NEW q \in Seq(X), NEW e \in X, q \in G PROVE Append(q, e) \in G
  <2> SUFFICES ASSUME \A x \in ToSet(Append(q, e)) : x \in S <=> x \in T
               PROVE  Excluding(Append(q, e), S) = Excluding(Append(q, e), T)
    BY AppendProperties
  <2>1. ToSet(Append(q, e)) = ToSet(q) \cup {e}
    <3>1. Len(q) \in Nat /\ Len(Append(q, e)) = Len(q) + 1 /\ DOMAIN q = 1 .. Len(q)
          /\ DOMAIN Append(q, e) = 1 .. Len(q) + 1 /\ Append(q, e)[Len(q) + 1] = e
          /\ \A i \in 1 .. Len(q) : Append(q, e)[i] = q[i]
      OBVIOUS
    <3>2. \A i \in 1 .. Len(q) + 1 : i \in 1 .. Len(q) \/ i = Len(q) + 1
      BY <3>1
    <3>3. Len(q) + 1 \in 1 .. Len(q) + 1 /\ \A i \in 1 .. Len(q) : i \in 1 .. Len(q) + 1
      BY <3>1
    <3> QED BY <3>1, <3>2, <3>3 DEF ToSet
  <2>2. Excluding(q, S) = Excluding(q, T) /\ (e \in S <=> e \in T)
    BY <1>2, <2>1
  <2>3. Excluding(Append(q, e), S) = IF e \in S THEN Excluding(q, S) ELSE Append(Excluding(q, S), e)
    BY ExcludingAppend
  <2>4. Excluding(Append(q, e), T) = IF e \in T THEN Excluding(q, T) ELSE Append(Excluding(q, T), e)
    BY ExcludingAppend
  <2> QED BY <2>2, <2>3, <2>4
<1>3. Seq(X) \subseteq G
  <2> HIDE DEF G
  <2> QED BY <1>1, <1>2, InductiveSequences
<1> QED BY <1>3

LEMMA AppendSet ==
    ASSUME NEW X, NEW s \in Seq(X), NEW e \in X
    PROVE  Append(s, e) \in Seq(X) /\ ToSet(Append(s, e)) = ToSet(s) \cup {e}
<1>1. Len(s) \in Nat /\ Len(Append(s, e)) = Len(s) + 1 /\ DOMAIN s = 1 .. Len(s)
      /\ DOMAIN Append(s, e) = 1 .. Len(s) + 1 /\ Append(s, e)[Len(s) + 1] = e
      /\ \A i \in 1 .. Len(s) : Append(s, e)[i] = s[i]
  OBVIOUS
<1>2. \A i \in 1 .. Len(s) + 1 : i \in 1 .. Len(s) \/ i = Len(s) + 1
  BY <1>1
<1>3. Len(s) + 1 \in 1 .. Len(s) + 1 /\ \A i \in 1 .. Len(s) : i \in 1 .. Len(s) + 1
  BY <1>1
<1> QED BY <1>1, <1>2, <1>3 DEF ToSet

LEMMA ExcludingNothing ==
    ASSUME NEW X, NEW s \in Seq(X), NEW S, ToSet(s) \cap S = {}
    PROVE  Excluding(s, S) = s
<1> DEFINE G == {q \in Seq(X) : Excluding(q, {}) = q}
<1>1. <<>> \in G
  BY ExcludingEmpty
<1>2. ASSUME NEW q \in Seq(X), NEW e \in X, q \in G PROVE Append(q, e) \in G
  <2>1. Excluding(Append(q, e), {}) = Append(Excluding(q, {}), e)
    BY ExcludingAppend
  <2> QED BY <1>2, <2>1, AppendProperties
<1>3. Seq(X) \subseteq G
  <2> HIDE DEF G
  <2> QED BY <1>1, <1>2, InductiveSequences
<1>4. Excluding(s, S) = Excluding(s, {})
  BY ExcludingSame
<1> QED BY <1>3, <1>4

(* Including is Excluding of the others.                                   *)
LEMMA IncludingIs ==
    ASSUME NEW s, NEW S
    PROVE  Including(s, S) = Excluding(s, ToSet(s) \ S)
  BY DEF Including, ToSet

LEMMA IncludingParts ==
    ASSUME NEW X, NEW s \in Seq(X), NEW S
    PROVE  /\ Including(s, S) \in Seq(X)
           /\ ToSet(Including(s, S)) = ToSet(s) \cap S
           /\ Including(s, S) = <<>> <=> ToSet(s) \cap S = {}
<1>1. Including(s, S) \in Seq(X) /\ ToSet(Including(s, S)) = ToSet(s) \cap S
  <2> DEFINE A == ToSet(s) \ S
  <2>1. Including(s, S) = Excluding(s, A)
    BY IncludingIs
  <2>2. ToSet(s) \ A = ToSet(s) \cap S
    OBVIOUS
  <2> HIDE DEF A
  <2>3. Excluding(s, A) \in Seq(X) /\ ToSet(Excluding(s, A)) = ToSet(s) \ A
    BY ExcludingType, ExcludingKeeps
  <2> QED BY <2>1, <2>2, <2>3
<1>2. ASSUME NEW q \in Seq(X) PROVE q = <<>> <=> ToSet(q) = {}
  <2>1. DOMAIN q = 1 .. Len(q) /\ Len(q) \in Nat
    OBVIOUS
  <2>2. CASE q = <<>>
    BY <2>2 DEF ToSet
  <2>3. CASE q # <<>>
    <3>1. 1 \in DOMAIN q
      BY <2>3
    <3> QED BY <2>3, <3>1 DEF ToSet
  <2> QED BY <2>2, <2>3
<1> QED BY <1>1, <1>2

LEMMA IncludingSame ==
    ASSUME NEW X, NEW S, NEW T, NEW s \in Seq(X), \A x \in ToSet(s) : x \in S <=> x \in T
    PROVE  Including(s, S) = Including(s, T)
  BY IncludingIs, ExcludingSame

LEMMA IncludingAppend ==
    ASSUME NEW X, NEW s \in Seq(X), NEW e \in X, NEW S
    PROVE  Including(Append(s, e), S) =
               IF e \in S THEN Append(Including(s, S), e) ELSE Including(s, S)
<1> DEFINE A == ToSet(Append(s, e)) \ S
<1>1. ToSet(Append(s, e)) = ToSet(s) \cup {e}
  BY AppendSet
<1>2. Including(Append(s, e), S) = Excluding(Append(s, e), A)
  BY IncludingIs
<1>3. e \in A <=> e \notin S
  BY <1>1
<1>4. Excluding(s, A) = Including(s, S)
  <2> DEFINE B == ToSet(s) \ S
  <2>1. \A x \in ToSet(s) : x \in A <=> x \in B
    BY <1>1
  <2>2. Including(s, S) = Excluding(s, B)
    BY IncludingIs
  <2> HIDE DEF A, B
  <2> QED BY <2>1, <2>2, ExcludingSame
<1> HIDE DEF A
<1> QED BY <1>2, <1>3, <1>4, ExcludingAppend

LEMMA IncludingExcluding ==
    ASSUME NEW X, NEW s \in Seq(X), NEW S, NEW T
    PROVE  Including(Excluding(s, S), T) = Excluding(Including(s, T), S)
<1> DEFINE A == ToSet(s) \ T
           B == (ToSet(s) \ S) \ T
<1>1. Including(s, T) = Excluding(s, A) /\ S \cup B = A \cup S
  BY IncludingIs
<1>2. Including(Excluding(s, S), T) = Excluding(Excluding(s, S), B)
  BY ExcludingKeeps, IncludingIs
<1> HIDE DEF A, B
<1>3. Excluding(Excluding(s, S), B) = Excluding(s, S \cup B)
      /\ Excluding(Excluding(s, A), S) = Excluding(s, A \cup S)
  BY ExcludingTwice
<1> QED BY <1>1, <1>2, <1>3

LEMMA IncludingTwice ==
    ASSUME NEW X, NEW s \in Seq(X), NEW S, NEW T
    PROVE  Including(Including(s, S), T) = Including(s, S \cap T)
<1> DEFINE A == ToSet(s) \ S
           B == (ToSet(s) \cap S) \ T
           C == ToSet(s) \ (S \cap T)
<1>1. /\ Including(s, S) = Excluding(s, A) /\ A \cup B = C
      /\ Including(s, S \cap T) = Excluding(s, C)
  BY IncludingIs
<1>2. Including(Including(s, S), T) = Excluding(Including(s, S), B)
  BY IncludingParts, IncludingIs
<1> HIDE DEF A, B, C
<1>3. Excluding(Excluding(s, A), B) = Excluding(s, A \cup B)
  BY ExcludingTwice
<1> QED BY <1>1, <1>2, <1>3

-----------------------------------------------------------------------------
(* Elements and places.                                                    *)

(* The elements of a sequence, and their set.                              *)
LEMMA InSet ==
    ASSUME NEW X, NEW s \in Seq(X)
    PROVE  /\ ToSet(s) \subseteq X
           /\ \A i \in 1 .. Len(s) : s[i] \in ToSet(s) /\ s[i] \in X
           /\ \A x \in ToSet(s) : \E i \in 1 .. Len(s) : s[i] = x
           /\ Len(s) \in Nat /\ DOMAIN s = 1 .. Len(s)
<1>1. Len(s) \in Nat /\ DOMAIN s = 1 .. Len(s) /\ \A i \in 1 .. Len(s) : s[i] \in X
  OBVIOUS
<1> QED BY <1>1 DEF ToSet

(* The places of a sequence with one more in front, and without its first. *)
LEMMA PushPlaces ==
    ASSUME NEW X, NEW s \in Seq(X), NEW f \in X
    PROVE  LET p == <<f>> \o s IN
           /\ p \in Seq(X) /\ Len(p) = Len(s) + 1 /\ p # <<>> /\ p[1] = f /\ Head(p) = f
           /\ \A i \in 1 .. Len(s) : p[i + 1] = s[i]
           /\ \A i \in 1 .. Len(p) : i = 1 \/ (i - 1 \in 1 .. Len(s) /\ p[i] = s[i - 1])
           /\ Tail(p) = s
OBVIOUS

LEMMA RestPlaces ==
    ASSUME NEW X, NEW s \in Seq(X), s # <<>>
    PROVE  /\ Tail(s) \in Seq(X) /\ Len(s) \in Nat \ {0} /\ Len(Tail(s)) = Len(s) - 1
           /\ Head(s) = s[1] /\ s[1] \in X
           /\ \A i \in 1 .. Len(Tail(s)) : i + 1 \in 1 .. Len(s) /\ Tail(s)[i] = s[i + 1]
           /\ \A i \in 1 .. Len(s) : i = 1 \/ (i - 1 \in 1 .. Len(Tail(s)) /\ s[i] = Tail(s)[i - 1])
OBVIOUS

(* A sequence without the element at a place.                              *)
LEMMA RemovedParts ==
    ASSUME NEW X, NEW s \in Seq(X), NEW i \in 1 .. Len(s)
    PROVE  LET q == RemoveAt(s, i) IN
           /\ q \in Seq(X) /\ Len(q) = Len(s) - 1 /\ Len(s) \in Nat
           /\ \A k \in 1 .. Len(q) : k < i => q[k] = s[k]
           /\ \A k \in 1 .. Len(q) : i <= k => q[k] = s[k + 1]
<1> DEFINE a == SubSeq(s, 1, i - 1)
           b == SubSeq(s, i + 1, Len(s))
<1>1. Len(s) \in Nat /\ i \in Int /\ 1 <= i /\ i <= Len(s)
  OBVIOUS
<1>2. /\ a \in Seq(X) /\ Len(a) = i - 1 /\ \A k \in 1 .. Len(a) : a[k] = s[k]
  BY <1>1, SubSeqProperties
<1>3. /\ b \in Seq(X) /\ Len(b) = Len(s) - i /\ \A k \in 1 .. Len(b) : b[k] = s[k + i]
  BY <1>1, SubSeqProperties
<1> HIDE DEF a, b
<1>4. /\ a \o b \in Seq(X) /\ Len(a \o b) = Len(a) + Len(b)
      /\ \A k \in 1 .. Len(a) + Len(b) : (a \o b)[k] = IF k <= Len(a) THEN a[k] ELSE b[k - Len(a)]
  <2>1. a \in Seq(X) /\ b \in Seq(X)
    BY <1>2, <1>3
  <2> QED BY <2>1, ConcatProperties
<1>5. ASSUME NEW k \in 1 .. Len(s) - 1, i <= k PROVE (a \o b)[k] = s[k + 1]
  <2>1. k - Len(a) \in 1 .. Len(b) /\ (k - Len(a)) + i = k + 1 /\ ~(k <= Len(a)) /\ k \in 1 .. Len(a) + Len(b)
    BY <1>1, <1>2, <1>3, <1>5
  <2> QED BY <1>3, <1>4, <2>1
<1>6. ASSUME NEW k \in 1 .. Len(s) - 1, k < i PROVE (a \o b)[k] = s[k]
  <2>1. k \in 1 .. Len(a) /\ k \in 1 .. Len(a) + Len(b)
    BY <1>1, <1>2, <1>3, <1>6
  <2> QED BY <1>2, <1>4, <2>1
<1>7. RemoveAt(s, i) = a \o b
  BY DEF RemoveAt, a, b
<1>8. Len(a \o b) = Len(s) - 1
  BY <1>1, <1>2, <1>3, <1>4
<1> QED BY <1>1, <1>4, <1>5, <1>6, <1>7, <1>8

LEMMA RemovedSet ==
    ASSUME NEW X, NEW s \in Seq(X), NEW i \in 1 .. Len(s), IsInjective(s)
    PROVE  IsInjective(RemoveAt(s, i)) /\ ToSet(RemoveAt(s, i)) = ToSet(s) \ {s[i]}
<1> DEFINE q == RemoveAt(s, i)
           At(k) == IF k < i THEN k ELSE k + 1
<1>1. /\ q \in Seq(X) /\ Len(q) = Len(s) - 1 /\ Len(s) \in Nat
      /\ \A k \in 1 .. Len(q) : k < i => q[k] = s[k]
      /\ \A k \in 1 .. Len(q) : i <= k => q[k] = s[k + 1]
  BY RemovedParts
<1> HIDE DEF q
<1>2. /\ DOMAIN q = 1 .. Len(q) /\ DOMAIN s = 1 .. Len(s) /\ Len(q) \in Nat
  BY <1>1
<1>3. /\ \A k \in 1 .. Len(q) : At(k) \in 1 .. Len(s) /\ At(k) # i /\ q[k] = s[At(k)]
      /\ \A k, l \in 1 .. Len(q) : k # l => At(k) # At(l)
      /\ \A k \in 1 .. Len(s) : k # i => \E l \in 1 .. Len(q) : At(l) = k
  <2>1. \A k \in 1 .. Len(q) : At(k) \in 1 .. Len(s) /\ At(k) # i /\ q[k] = s[At(k)]
    BY <1>1, <1>2
  <2>2. \A k, l \in 1 .. Len(q) : k # l => At(k) # At(l)
    BY <1>1, <1>2
  <2>3. ASSUME NEW k \in 1 .. Len(s), k # i PROVE \E l \in 1 .. Len(q) : At(l) = k
    <3>1. CASE k < i
      <4>1. k \in 1 .. Len(q) /\ At(k) = k
        BY <1>1, <3>1
      <4> QED BY <4>1
    <3>2. CASE i < k
      <4>1. k - 1 \in 1 .. Len(q) /\ At(k - 1) = k
        BY <1>1, <3>2
      <4> QED BY <4>1
    <3> QED BY <2>3, <3>1, <3>2
  <2> QED BY <2>1, <2>2, <2>3
<1> HIDE DEF At
<1>4. IsInjective(q)
  BY <1>2, <1>3 DEF IsInjective
<1>5. ToSet(q) = ToSet(s) \ {s[i]}
  <2>1. ASSUME NEW x \in ToSet(q) PROVE x \in ToSet(s) \ {s[i]}
    BY <1>2, <1>3, <2>1 DEF ToSet, IsInjective
  <2>2. ASSUME NEW x \in ToSet(s) \ {s[i]} PROVE x \in ToSet(q)
    <3>1. PICK k \in 1 .. Len(s) : s[k] = x /\ k # i
      BY <1>2 DEF ToSet
    <3>2. PICK l \in 1 .. Len(q) : At(l) = k
      BY <1>3, <3>1
    <3> QED BY <1>2, <1>3, <3>1, <3>2 DEF ToSet
  <2> QED BY <2>1, <2>2
<1> QED BY <1>4, <1>5 DEF q
=============================================================================
