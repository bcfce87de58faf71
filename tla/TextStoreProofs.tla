-------------------------- MODULE TextStoreProofs --------------------------
(***************************************************************************)
(* Proofs about TextStore for every class, every number of items and every *)
(* length of a round of ids.  What reading a file puts into the map is a   *)
(* recursive function over its lines; what is claimed of it for all files  *)
(* is proved by looking at the first line behind which it fails.           *)
(***************************************************************************)
EXTENDS TextStore, FunctionTheorems, FiniteSetTheorems, WellFoundedInduction, TLAPS

-----------------------------------------------------------------------------
(* Sequences of whatever elements.                                         *)

IsSequence(s) == \E S : s \in Seq(S)

\* A nonempty set of naturals has a smallest element.
LEMMA Smallest ==
  ASSUME NEW S, S \subseteq Nat, S # {}
  PROVE  \E m \in S : \A k \in S : m <= k
<1>1. PICK x \in S : \A y \in S : ~(<<y, x>> \in OpToRel(<, Nat))
  BY NatLessThanWellFounded, WFMin
<1>2. \A y, z \in Nat : y < z => <<y, z>> \in OpToRel(<, Nat)
  BY Zenon DEF OpToRel
<1>3. \A y \in S : ~(y < x)
  BY <1>1, <1>2
<1> QED
  BY <1>3

\* What holds of 0, and of k + 1 where it holds of k, holds up to n.
LEMMA InductionTo ==
  ASSUME NEW n \in Nat, NEW B, 0 \in B, \A k \in 0 .. n - 1 : k \in B => k + 1 \in B
  PROVE  \A k \in 0 .. n : k \in B
<1> DEFINE C == {k \in 0 .. n : k \notin B}
<1> SUFFICES ASSUME C # {} PROVE FALSE
  OBVIOUS
<1>1. C \subseteq Nat
  OBVIOUS
<1>2. PICK m \in C : \A k \in C : m <= k
  BY <1>1, Smallest
<1>3. m - 1 \in 0 .. n - 1 /\ m - 1 \notin C
  BY <1>2
<1> QED
  BY <1>3

LEMMA SequenceShape ==
  ASSUME NEW s, IsSequence(s)
  PROVE  Len(s) \in Nat /\ DOMAIN s = 1 .. Len(s)
BY DEF IsSequence

LEMMA EmptyIsSequence == IsSequence(<<>>)
<1>1. <<>> \in Seq({})
  OBVIOUS
<1> QED
  BY <1>1 DEF IsSequence

LEMMA OneIsSequence ==
  ASSUME NEW e
  PROVE  IsSequence(<<e>>)
<1>1. <<e>> \in Seq({e})
  OBVIOUS
<1> QED
  BY <1>1 DEF IsSequence

LEMMA ConcatIsSequence ==
  ASSUME NEW s, NEW t, IsSequence(s), IsSequence(t)
  PROVE  IsSequence(s \o t)
<1>1. PICK S, T : s \in Seq(S) /\ t \in Seq(T)
  BY DEF IsSequence
<1>2. s \in Seq(S \cup T) /\ t \in Seq(S \cup T)
  BY <1>1
<1>3. s \o t \in Seq(S \cup T)
  BY <1>2
<1> QED
  BY <1>3 DEF IsSequence

LEMMA PrefixIsSequence ==
  ASSUME NEW s, IsSequence(s), NEW n \in 0 .. Len(s)
  PROVE  IsSequence(SubSeq(s, 1, n))
<1>1. PICK S : s \in Seq(S)
  BY DEF IsSequence
<1>2. SubSeq(s, 1, n) \in Seq(S)
  BY <1>1
<1> QED
  BY <1>2 DEF IsSequence

\* A function on 1 .. n is a sequence.
LEMMA FunctionIsSequence ==
  ASSUME NEW n \in Nat, NEW S, NEW f \in [1 .. n -> S]
  PROVE  IsSequence(f) /\ Len(f) = n
<1>1. f \in Seq(S) /\ Len(f) = n
  OBVIOUS
<1> QED
  BY <1>1 DEF IsSequence

LEMMA KeysByIsSequence ==
  ASSUME NEW time, IsFiniteSet(DOMAIN time)
  PROVE  IsSequence(KeysBy(time))
<1> DEFINE n == Cardinality(DOMAIN time)
           S == {KeysBy(time)[k] : k \in 1 .. n}
<1>1. n \in Nat
  BY FS_CardinalityType
<1>2. KeysBy(time) \in [1 .. n -> S]
  BY DEF KeysBy
<1> QED
  BY <1>1, <1>2, FunctionIsSequence

LEMMA AscendingIsSequence ==
  ASSUME NEW keys, IsFiniteSet(keys)
  PROVE  IsSequence(Ascending(keys))
<1> DEFINE time == [i \in keys |-> 0]
<1>1. DOMAIN time = keys
  OBVIOUS
<1>2. IsSequence(KeysBy(time))
  BY <1>1, KeysByIsSequence
<1> QED
  BY <1>2 DEF Ascending

\* Which keys are saved, and in which order.
LEMMA IdsAreSequence ==
  ASSUME NEW c, NEW map, NEW save, IsFiniteSet(DOMAIN map)
  PROVE  IsSequence(SelectIDToSave(c, map, save))
<1>1. \A keys \in SUBSET DOMAIN map : IsSequence(Ascending(keys))
  BY FS_Subset, AscendingIsSequence
<1>2. IsSequence(ByTime(map))
  <2> DEFINE time == [i \in DOMAIN map |-> When[map[i].name]]
  <2>1. DOMAIN time = DOMAIN map
    OBVIOUS
  <2>2. IsSequence(KeysBy(time))
    BY <2>1, KeysByIsSequence
  <2> QED
    BY <2>2 DEF ByTime
<1>3. IsSequence(OldRoundFirst(map))
  <2>1. CASE map # <<>> /\ \E i, j \in DOMAIN map : j >= i + HalfID
    <3> DEFINE old == {i \in DOMAIN map : i > HalfID}
               young == {i \in DOMAIN map : i <= HalfID}
    <3>1. OldRoundFirst(map) = Ascending(old) \o Ascending(young)
      BY <2>1 DEF OldRoundFirst
    <3>2. IsSequence(Ascending(old)) /\ IsSequence(Ascending(young))
      BY <1>1
    <3> HIDE DEF old, young
    <3> QED
      BY <3>1, <3>2, ConcatIsSequence
  <2>2. CASE ~(map # <<>> /\ \E i, j \in DOMAIN map : j >= i + HalfID)
    BY <1>1, <2>2 DEF OldRoundFirst
  <2> QED
    BY <2>1, <2>2
<1>4. IsSequence(Ascending(Latest(DOMAIN map, KeepCount)))
  BY <1>1 DEF Latest
<1> QED
  BY <1>2, <1>3, <1>4 DEF SelectIDToSave

-----------------------------------------------------------------------------
(* FlattenSeq yields a sequence.  It is a recursive function: the first m  *)
(* for which there is none would be one more than an m that has one.       *)

IsFlat(s, m, f) ==
  f = [i \in 1 .. m |-> IF i = 1 THEN s[i] ELSE f[i - 1] \o s[i]]

LEMMA FlatExists ==
  ASSUME NEW s, NEW n \in Nat
  PROVE  \E f : IsFlat(s, n, f)
<1> DEFINE B == {m \in Nat : ~\E f : IsFlat(s, m, f)}
<1> SUFFICES ASSUME B # {} PROVE FALSE
  OBVIOUS
<1>1. B \subseteq Nat
  OBVIOUS
<1>2. PICK m \in B : \A k \in B : m <= k
  BY <1>1, Smallest
<1>3. CASE m = 0
  <2> DEFINE f == [i \in 1 .. 0 |-> 0]
  <2>1. IsFlat(s, 0, f)
    BY DEF IsFlat
  <2> QED
    BY <1>1, <1>3, <2>1
<1>4. CASE m > 0
  <2>1. m - 1 \in Nat /\ m - 1 \notin B
    BY <1>2, <1>4
  <2>2. PICK f : IsFlat(s, m - 1, f)
    BY <2>1
  <2> DEFINE g == [i \in 1 .. m |-> IF i < m THEN f[i] ELSE IF m = 1 THEN s[m] ELSE f[m - 1] \o s[m]]
  <2>3. \A i \in 1 .. m - 1 : f[i] = IF i = 1 THEN s[i] ELSE f[i - 1] \o s[i]
    BY <2>2 DEF IsFlat
  <2>4. \A i \in 1 .. m : g[i] = IF i = 1 THEN s[i] ELSE g[i - 1] \o s[i]
    BY <1>1, <1>4, <2>3
  <2>5. IsFlat(s, m, g)
    BY <2>4 DEF IsFlat
  <2> QED
    BY <1>1, <2>5
<1> QED
  BY <1>1, <1>3, <1>4

LEMMA FlattenIsSequence ==
  ASSUME NEW s, IsSequence(s), \A i \in DOMAIN s : IsSequence(s[i])
  PROVE  IsSequence(FlattenSeq(s))
<1> DEFINE f == CHOOSE g : IsFlat(s, Len(s), g)
           B == {m \in 1 .. Len(s) : ~IsSequence(f[m])}
<1>1. Len(s) \in Nat /\ DOMAIN s = 1 .. Len(s)
  BY SequenceShape
<1>2. IsFlat(s, Len(s), f)
  BY <1>1, FlatExists, Zenon
<1>3. \A i \in 1 .. Len(s) : f[i] = IF i = 1 THEN s[i] ELSE f[i - 1] \o s[i]
  <2> HIDE DEF f
  <2> QED
    BY <1>2 DEF IsFlat
<1>4. B = {}
  <2> SUFFICES ASSUME B # {} PROVE FALSE
    OBVIOUS
  <2> HIDE DEF f
  <2>1. B \subseteq Nat
    BY <1>1
  <2>2. PICK m \in B : \A k \in B : m <= k
    BY <2>1, Smallest
  <2>3. m \in 1 .. Len(s) /\ IsSequence(s[m]) /\ ~IsSequence(f[m])
    BY <1>1
  <2>4. CASE m = 1
    BY <1>3, <2>3, <2>4
  <2>5. CASE m # 1
    <3>1. m - 1 \in 1 .. Len(s) /\ m - 1 \notin B
      BY <1>1, <2>2, <2>3, <2>5
    <3>2. IsSequence(f[m - 1]) /\ f[m] = f[m - 1] \o s[m]
      BY <1>3, <2>3, <2>5, <3>1
    <3> QED
      BY <2>3, <3>2, ConcatIsSequence
  <2> QED
    BY <2>4, <2>5
<1>5. CASE Len(s) = 0
  BY <1>5 DEF FlattenSeq
<1>6. CASE Len(s) # 0
  <2>1. FlattenSeq(s) = f[Len(s)]
    BY <1>6, Zenon DEF FlattenSeq, IsFlat
  <2>2. Len(s) \in 1 .. Len(s)
    BY <1>1, <1>6
  <2> HIDE DEF f
  <2> QED
    BY <1>4, <2>1, <2>2
<1> QED
  BY <1>5, <1>6

\* How two sequences lie in their concatenation.
LEMMA ConcatPlaces ==
  ASSUME NEW s, NEW t, IsSequence(s), IsSequence(t)
  PROVE  /\ Len(s \o t) = Len(s) + Len(t)
         /\ \A i \in 1 .. Len(s) : (s \o t)[i] = s[i]
         /\ \A i \in 1 .. Len(t) : (s \o t)[Len(s) + i] = t[i]
<1>1. PICK S, T : s \in Seq(S) /\ t \in Seq(T)
  BY DEF IsSequence
<1>2. s \in Seq(S \cup T) /\ t \in Seq(S \cup T)
  BY <1>1
<1> QED
  BY <1>2

LEMMA EmptyConcat ==
  ASSUME NEW t, IsSequence(t)
  PROVE  <<>> \o t = t /\ t \o <<>> = t
<1>1. PICK T : t \in Seq(T)
  BY DEF IsSequence
<1> QED
  BY <1>1

\* FlattenSeq, sequence by sequence.
LEMMA FlattenSteps ==
  ASSUME NEW s, IsSequence(s), \A i \in DOMAIN s : IsSequence(s[i])
  PROVE  \E g : /\ g[0] = <<>> /\ FlattenSeq(s) = g[Len(s)]
                /\ \A m \in 1 .. Len(s) : g[m] = g[m - 1] \o s[m]
                /\ \A m \in 0 .. Len(s) : IsSequence(g[m])
<1> DEFINE f == CHOOSE h : IsFlat(s, Len(s), h)
           g == [m \in 0 .. Len(s) |-> IF m = 0 THEN <<>> ELSE f[m]]
           B == {m \in 0 .. Len(s) : IsSequence(g[m])}
<1>1. Len(s) \in Nat /\ DOMAIN s = 1 .. Len(s)
  BY SequenceShape
<1>2. IsFlat(s, Len(s), f)
  BY <1>1, FlatExists, Zenon
<1>3. \A i \in 1 .. Len(s) : f[i] = IF i = 1 THEN s[i] ELSE f[i - 1] \o s[i]
  <2> HIDE DEF f
  <2> QED
    BY <1>2 DEF IsFlat
<1>4. Len(s) # 0 => FlattenSeq(s) = f[Len(s)]
  BY Zenon DEF FlattenSeq, IsFlat
<1>5. Len(s) = 0 => FlattenSeq(s) = <<>>
  <2>1. Len(s) = 0 => s = <<>>
    BY DEF IsSequence
  <2> QED
    BY <2>1 DEF FlattenSeq
<1> HIDE DEF f
<1>6. g[0] = <<>> /\ FlattenSeq(s) = g[Len(s)]
  BY <1>1, <1>4, <1>5
<1>10. \A m \in 1 .. Len(s) : g[m] = f[m]
  BY <1>1
<1> HIDE DEF g
<1>7. \A m \in 1 .. Len(s) : g[m] = g[m - 1] \o s[m]
  <2> TAKE m \in 1 .. Len(s)
  <2>3. m \in Nat
    BY <1>1
  <2>1. CASE m = 1
    <3>1. <<>> \o s[1] = s[1]
      BY <1>1, <2>1, EmptyConcat
    <3>2. g[1] = s[1] /\ m - 1 = 0
      BY <1>3, <2>1, <1>10
    <3> QED
      BY <1>6, <2>1, <3>1, <3>2
  <2>2. CASE m # 1
    <3>1. m - 1 \in 1 .. Len(s)
      BY <1>1, <2>2
    <3>2. g[m] = f[m] /\ g[m - 1] = f[m - 1] /\ f[m] = f[m - 1] \o s[m]
      BY <1>3, <1>10, <2>2, <3>1
    <3> QED
      BY <3>2
  <2> QED
    BY <2>1, <2>2
<1>8. \A m \in 0 .. Len(s) : m \in B
  <2>1. 0 \in B
    BY <1>1, <1>6, EmptyIsSequence
  <2>2. ASSUME NEW k \in 0 .. Len(s) - 1, k \in B
        PROVE  k + 1 \in B
    <3> DEFINE k1 == k + 1
    <3>1. k1 \in 1 .. Len(s) /\ k1 - 1 = k /\ k1 \in 0 .. Len(s)
      BY <1>1
    <3> HIDE DEF k1
    <3>2. g[k1] = g[k] \o s[k1]
      BY <1>7, <3>1
    <3>4. IsSequence(g[k]) /\ IsSequence(s[k1])
      BY <1>1, <2>2, <3>1
    <3>3. IsSequence(g[k] \o s[k1])
      BY <3>4, ConcatIsSequence
    <3>5. IsSequence(g[k1])
      BY <3>2, <3>3
    <3>6. k1 \in B
      BY <3>1, <3>5
    <3> QED
      BY <3>6 DEF k1
  <2> HIDE DEF B
  <2> QED
    BY <1>1, <2>1, <2>2, InductionTo
<1>9. /\ g[0] = <<>> /\ FlattenSeq(s) = g[Len(s)]
      /\ \A m \in 1 .. Len(s) : g[m] = g[m - 1] \o s[m]
      /\ \A m \in 0 .. Len(s) : IsSequence(g[m])
  BY <1>6, <1>7, <1>8
<1> QED
  BY <1>9

\* Where each sequence lies in the flat one.
LEMMA FlattenLayout ==
  ASSUME NEW s, IsSequence(s), \A i \in DOMAIN s : IsSequence(s[i])
  PROVE  \E at \in [0 .. Len(s) -> Nat] :
           /\ at[0] = 0 /\ Len(FlattenSeq(s)) = at[Len(s)]
           /\ \A m \in 1 .. Len(s) : at[m] = at[m - 1] + Len(s[m])
           /\ \A m \in 1 .. Len(s) : \A j \in 1 .. Len(s[m]) :
                FlattenSeq(s)[at[m - 1] + j] = s[m][j]
<1>1. Len(s) \in Nat /\ DOMAIN s = 1 .. Len(s)
  BY SequenceShape
<1>2. PICK g : /\ g[0] = <<>> /\ FlattenSeq(s) = g[Len(s)]
               /\ \A m \in 1 .. Len(s) : g[m] = g[m - 1] \o s[m]
               /\ \A m \in 0 .. Len(s) : IsSequence(g[m])
  BY FlattenSteps
<1> DEFINE at == [m \in 0 .. Len(s) |-> Len(g[m])]
           Laid(n) == \A m \in 1 .. n : \A j \in 1 .. Len(s[m]) :
                        /\ at[m - 1] + j <= at[n]
                        /\ g[n][at[m - 1] + j] = s[m][j]
           B == {n \in 0 .. Len(s) : Laid(n)}
<1>3. at \in [0 .. Len(s) -> Nat]
  <2>1. \A m \in 0 .. Len(s) : Len(g[m]) \in Nat
    BY <1>2, SequenceShape
  <2> QED
    BY <2>1
<1>4. at[0] = 0 /\ Len(FlattenSeq(s)) = at[Len(s)]
  BY <1>1, <1>2
<1>5. ASSUME NEW m \in 1 .. Len(s)
      PROVE  /\ at[m] = at[m - 1] + Len(s[m])
             /\ \A i \in 1 .. at[m - 1] : g[m][i] = g[m - 1][i]
             /\ \A j \in 1 .. Len(s[m]) : g[m][at[m - 1] + j] = s[m][j]
  <2>1. m - 1 \in 0 .. Len(s) /\ m \in 0 .. Len(s) /\ m \in DOMAIN s
    BY <1>1
  <2>2. IsSequence(g[m - 1]) /\ IsSequence(s[m]) /\ g[m] = g[m - 1] \o s[m]
    BY <1>2, <2>1
  <2>3. at[m] = Len(g[m]) /\ at[m - 1] = Len(g[m - 1])
    BY <2>1
  <2>4. /\ Len(g[m - 1] \o s[m]) = Len(g[m - 1]) + Len(s[m])
        /\ \A i \in 1 .. Len(g[m - 1]) : (g[m - 1] \o s[m])[i] = g[m - 1][i]
        /\ \A j \in 1 .. Len(s[m]) : (g[m - 1] \o s[m])[Len(g[m - 1]) + j] = s[m][j]
    <3> DEFINE a == g[m - 1]
               b == s[m]
    <3>1. IsSequence(a) /\ IsSequence(b)
      BY <2>2
    <3> HIDE DEF a, b
    <3>2. /\ Len(a \o b) = Len(a) + Len(b)
          /\ \A i \in 1 .. Len(a) : (a \o b)[i] = a[i]
          /\ \A j \in 1 .. Len(b) : (a \o b)[Len(a) + j] = b[j]
      BY <3>1, ConcatPlaces
    <3> QED
      BY <3>2 DEF a, b
  <2> HIDE DEF at
  <2> QED
    BY <2>2, <2>3, <2>4
<1>6. \A n \in 0 .. Len(s) : n \in B
  <2>1. 0 \in B
    BY <1>1
  <2>2. ASSUME NEW n \in 0 .. Len(s) - 1, n \in B
        PROVE  n + 1 \in B
    <3>1. n + 1 \in 1 .. Len(s) /\ n + 1 - 1 = n /\ Laid(n) /\ n \in 0 .. Len(s)
      BY <1>1, <2>2
    <3> SUFFICES ASSUME NEW m \in 1 .. n + 1, NEW j \in 1 .. Len(s[m])
                 PROVE  /\ at[m - 1] + j <= at[n + 1]
                        /\ g[n + 1][at[m - 1] + j] = s[m][j]
      BY <1>1, <3>1
    <3>2. m \in 1 .. Len(s) /\ Len(s[m]) \in Nat /\ Len(s[n + 1]) \in Nat
      BY <1>1, <3>1, SequenceShape
    <3>3. at[n] \in Nat /\ at[m - 1] \in Nat
      BY <1>1, <1>3, <3>1, <3>2
    <3> HIDE DEF at
    <3>4. /\ at[n + 1] = at[n] + Len(s[n + 1])
          /\ \A i \in 1 .. at[n] : g[n + 1][i] = g[n][i]
          /\ \A i \in 1 .. Len(s[n + 1]) : g[n + 1][at[n] + i] = s[n + 1][i]
      <4> DEFINE m1 == n + 1
      <4>1. m1 \in 1 .. Len(s) /\ m1 - 1 = n
        BY <3>1
      <4> HIDE DEF m1
      <4>2. /\ at[m1] = at[m1 - 1] + Len(s[m1])
            /\ \A i \in 1 .. at[m1 - 1] : g[m1][i] = g[m1 - 1][i]
            /\ \A i \in 1 .. Len(s[m1]) : g[m1][at[m1 - 1] + i] = s[m1][i]
        BY <1>5, <4>1
      <4> QED
        BY <4>1, <4>2 DEF m1
    <3>5. CASE m = n + 1
      BY <3>1, <3>2, <3>3, <3>4, <3>5
    <3>6. CASE m # n + 1
      <4>1. at[m - 1] + j <= at[n] /\ g[n][at[m - 1] + j] = s[m][j]
        BY <1>1, <3>1, <3>6
      <4>2. at[m - 1] + j \in 1 .. at[n]
        BY <3>2, <3>3, <4>1
      <4>3. g[n + 1][at[m - 1] + j] = g[n][at[m - 1] + j]
        BY <3>4, <4>2
      <4>4. at[m - 1] + j <= at[n + 1]
        <5>1. at[m - 1] + j \in Nat /\ at[n + 1] = at[n] + Len(s[n + 1])
          BY <3>3, <3>4, <4>2
        <5> QED
          BY <3>2, <3>3, <4>1, <5>1
      <4> QED
        BY <4>1, <4>3, <4>4
    <3> QED
      BY <3>5, <3>6
  <2> HIDE DEF B
  <2> QED
    BY <1>1, <2>1, <2>2, InductionTo
<1>7. \A m \in 1 .. Len(s) : \A j \in 1 .. Len(s[m]) : FlattenSeq(s)[at[m - 1] + j] = s[m][j]
  <2>2. Len(s) \in 0 .. Len(s)
    BY <1>1
  <2>1. Laid(Len(s))
    BY <1>6, <2>2, Zenon
  <2> HIDE DEF at
  <2> QED
    BY <1>2, <2>1
<1>8. \A m \in 1 .. Len(s) : at[m] = at[m - 1] + Len(s[m])
  BY <1>5
<1> HIDE DEF at
<1> QED
  BY <1>3, <1>4, <1>7, <1>8

\* When each sequence has at most one element, the flat one holds those that have one,
\* in their order.
LEMMA FlattenOptional ==
  ASSUME NEW s, IsSequence(s), \A i \in DOMAIN s : IsSequence(s[i]) /\ Len(s[i]) \in {0, 1}
  PROVE  \E k \in Nat : \E pos \in [1 .. k -> 1 .. Len(s)] :
           /\ Len(FlattenSeq(s)) = k
           /\ \A j \in 1 .. k : Len(s[pos[j]]) = 1 /\ FlattenSeq(s)[j] = s[pos[j]][1]
           /\ \A i \in 1 .. Len(s) : Len(s[i]) = 1 => \E j \in 1 .. k : pos[j] = i
           /\ \A i, j \in 1 .. k : i < j => pos[i] < pos[j]
<1>1. Len(s) \in Nat /\ DOMAIN s = 1 .. Len(s)
  BY SequenceShape
<1>2. PICK at \in [0 .. Len(s) -> Nat] :
        /\ at[0] = 0 /\ Len(FlattenSeq(s)) = at[Len(s)]
        /\ \A m \in 1 .. Len(s) : at[m] = at[m - 1] + Len(s[m])
        /\ \A m \in 1 .. Len(s) : \A j \in 1 .. Len(s[m]) :
             FlattenSeq(s)[at[m - 1] + j] = s[m][j]
  BY FlattenLayout
<1> DEFINE Rises(n) == \A m \in 0 .. n : at[m] <= at[n]
           Taken(n) == \A j \in 1 .. at[n] : \E m \in 1 .. n : at[m] = j /\ Len(s[m]) = 1
           B == {n \in 0 .. Len(s) : Rises(n) /\ Taken(n)}
<1>3. \A n \in 0 .. Len(s) : n \in B
  <2>1. 0 \in B
    BY <1>1, <1>2
  <2>2. ASSUME NEW n \in 0 .. Len(s) - 1, n \in B
        PROVE  n + 1 \in B
    <3> DEFINE n1 == n + 1
    <3>1. n1 \in 1 .. Len(s) /\ n1 - 1 = n /\ n1 \in 0 .. Len(s) /\ n \in 0 .. Len(s)
      BY <1>1
    <3>2. Rises(n) /\ Taken(n)
      BY <2>2
    <3>3. \A m : m \in 0 .. n1 => m \in 0 .. n \/ m = n1
      BY <3>1
    <3>7. \A m : m \in 1 .. n => m \in 1 .. n1
      BY <3>1
    <3> HIDE DEF n1
    <3>4. at[n1] = at[n] + Len(s[n1]) /\ Len(s[n1]) \in {0, 1} /\ at[n] \in Nat /\ at[n1] \in Nat
      BY <1>1, <1>2, <3>1
    <3>5. Rises(n1)
      <4> SUFFICES ASSUME NEW m \in 0 .. n1 PROVE at[m] <= at[n1]
        OBVIOUS
      <4>1. at[m] \in Nat
        BY <1>2, <3>1
      <4> QED
        BY <3>2, <3>3, <3>4, <4>1
    <3>6. Taken(n1)
      <4> SUFFICES ASSUME NEW j \in 1 .. at[n1]
                   PROVE  \E m \in 1 .. n1 : at[m] = j /\ Len(s[m]) = 1
        OBVIOUS
      <4>1. CASE j \in 1 .. at[n]
        BY <3>2, <3>7, <4>1
      <4>2. CASE j \notin 1 .. at[n]
        <5>1. Len(s[n1]) = 1 /\ at[n1] = j
          BY <3>4, <4>2
        <5>2. n1 \in 1 .. n1
          BY <3>1
        <5> QED
          BY <5>1, <5>2
      <4> QED
        BY <4>1, <4>2
    <3>8. n1 \in B
      BY <3>1, <3>5, <3>6
    <3> QED
      BY <3>8 DEF n1
  <2> HIDE DEF B
  <2> QED
    BY <1>1, <2>1, <2>2, InductionTo
<1>4. \A n \in 0 .. Len(s) : \A m \in 0 .. n : at[m] <= at[n]
  BY <1>3
<1> DEFINE k == at[Len(s)]
           pos == [j \in 1 .. k |-> CHOOSE m \in 1 .. Len(s) : at[m] = j /\ Len(s[m]) = 1]
<1>5. k \in Nat
  BY <1>1, <1>2
<1>6. ASSUME NEW j \in 1 .. k
      PROVE  pos[j] \in 1 .. Len(s) /\ at[pos[j]] = j /\ Len(s[pos[j]]) = 1
  <2>1. Len(s) \in B
    <3> HIDE DEF B
    <3> QED
      BY <1>1, <1>3
  <2>2. \E m \in 1 .. Len(s) : at[m] = j /\ Len(s[m]) = 1
    BY <2>1
  <2> QED
    BY <2>2
<1> HIDE DEF pos, B
<1>7. pos \in [1 .. k -> 1 .. Len(s)]
  BY <1>6 DEF pos
<1>8. ASSUME NEW j \in 1 .. k
      PROVE  FlattenSeq(s)[j] = s[pos[j]][1]
  <2>1. at[pos[j] - 1] + 1 = j
    BY <1>1, <1>2, <1>5, <1>6
  <2> QED
    BY <1>2, <1>6, <2>1
<1>9. ASSUME NEW i \in 1 .. Len(s), Len(s[i]) = 1
      PROVE  \E j \in 1 .. k : pos[j] = i
  <2> DEFINE j == at[i]
             m == pos[j]
  <2>1. i \in 0 .. Len(s) /\ i - 1 \in 0 .. Len(s) /\ Len(s) \in 0 .. Len(s) /\ i \in 0 .. Len(s)
    BY <1>1
  <2>2. at[i] = at[i - 1] + 1 /\ at[i] <= at[Len(s)] /\ at[i - 1] \in Nat
    BY <1>2, <1>4, <1>9, <2>1
  <2>3. j \in 1 .. k
    BY <1>5, <2>2
  <2>4. m \in 1 .. Len(s) /\ at[m] = j /\ Len(s[m]) = 1
    BY <1>6, <2>3
  <2> HIDE DEF m
  <2>9. m \in 0 .. Len(s) /\ m - 1 \in 0 .. Len(s)
    BY <1>1, <2>4
  <2>5. at[m] = at[m - 1] + 1 /\ m \in 0 .. Len(s) /\ m - 1 \in 0 .. Len(s) /\ at[m - 1] \in Nat
    BY <1>2, <2>4, <2>9
  <2>6. CASE m < i
    <3>1. m \in 0 .. i - 1
      BY <1>1, <2>4, <2>6
    <3>2. at[m] <= at[i - 1]
      BY <1>4, <2>1, <3>1
    <3> QED
      BY <2>2, <2>4, <3>2
  <2>7. CASE m > i
    <3>1. i \in 0 .. m - 1
      BY <1>1, <2>4, <2>7
    <3>2. at[i] <= at[m - 1]
      BY <1>4, <2>5, <3>1
    <3> QED
      BY <2>2, <2>4, <2>5, <3>2
  <2>8. CASE m = i
    BY <2>3, <2>8 DEF m
  <2> QED
    BY <2>4, <2>6, <2>7, <2>8
<1>10. ASSUME NEW i \in 1 .. k, NEW j \in 1 .. k, i < j
       PROVE  pos[i] < pos[j]
  <2>1. pos[i] \in 0 .. Len(s) /\ pos[j] \in Nat
    BY <1>1, <1>6
  <2>2. ~(pos[j] \in 0 .. pos[i])
    BY <1>4, <1>5, <1>6, <1>10, <2>1
  <2> QED
    BY <1>1, <2>1, <2>2
<1> QED
  BY <1>2, <1>5, <1>6, <1>7, <1>8, <1>9, <1>10

\* The text of a file is a sequence of lines.
LEMMA TextIsSequence ==
  ASSUME NEW c, NEW map, NEW save, NEW next, IsFiniteSet(DOMAIN map)
  PROVE  IsSequence(TextOf(c, map, save, next))
<1> DEFINE ids == SelectIDToSave(c, map, save)
           lines == [i \in DOMAIN ids |-> SaveLine(c, ids[i], map[ids[i]])]
           S == {lines[i] : i \in DOMAIN ids}
<1>1. Len(ids) \in Nat /\ DOMAIN ids = 1 .. Len(ids)
  BY IdsAreSequence, SequenceShape
<1>2. lines \in [1 .. Len(ids) -> S]
  <2> HIDE DEF ids
  <2> QED
    BY <1>1
<1>3. IsSequence(lines)
  <2> HIDE DEF ids, lines
  <2> QED
    BY <1>1, <1>2, FunctionIsSequence
<1>4. \A i \in DOMAIN lines : IsSequence(lines[i])
  <2> HIDE DEF ids
  <2> QED
    BY EmptyIsSequence, OneIsSequence DEF SaveLine
<1>5. IsSequence(FlattenSeq(lines))
  <2> HIDE DEF lines
  <2> QED
    BY <1>3, <1>4, FlattenIsSequence
<1>6. IsSequence(SaveFooterLine(c, save, next))
  BY EmptyIsSequence, OneIsSequence DEF SaveFooterLine
<1> QED
  BY <1>5, <1>6, ConcatIsSequence DEF TextOf

-----------------------------------------------------------------------------
(* The order in which the keys are saved.                                  *)

\* j comes before i when keys are sorted by a time.
Sooner(time, j, i) == time[j] < time[i] \/ (time[j] = time[i] /\ j < i)

\* KeysBy lists every key once, in this order: the number of keys before one rises along
\* the order, so it takes every value below the number of keys.
LEMMA KeysByOrder ==
  ASSUME NEW D, IsFiniteSet(D), D \subseteq Int, NEW time \in [D -> Int]
  PROVE  /\ Cardinality(D) \in Nat /\ KeysBy(time) \in [1 .. Cardinality(D) -> D]
         /\ \A i \in D : \E p \in 1 .. Cardinality(D) : KeysBy(time)[p] = i
         /\ \A p, q \in 1 .. Cardinality(D) :
              p < q => Sooner(time, KeysBy(time)[p], KeysBy(time)[q])
<1> DEFINE n == Cardinality(D)
           Before(i) == {j \in D : Sooner(time, j, i)}
           rank == [i \in D |-> Cardinality(Before(i)) + 1]
           keys == [p \in 1 .. n |-> CHOOSE i \in D : Cardinality(Before(i)) = p - 1]
<1>1. n \in Nat /\ DOMAIN time = D
  BY FS_CardinalityType
<1>2. KeysBy(time) = keys
  BY <1>1 DEF KeysBy, Sooner
<1>3. ASSUME NEW i \in D
      PROVE  /\ IsFiniteSet(Before(i)) /\ Cardinality(Before(i)) \in Nat
             /\ rank[i] \in 1 .. n
  <2>1. Before(i) \subseteq D \ {i}
    BY DEF Sooner
  <2>2. IsFiniteSet(D \ {i}) /\ Cardinality(D \ {i}) = n - 1
    BY FS_RemoveElement
  <2>3. IsFiniteSet(Before(i)) /\ Cardinality(Before(i)) <= n - 1
    BY <2>1, <2>2, FS_Subset
  <2>4. Cardinality(Before(i)) \in Nat
    BY <2>3, FS_CardinalityType
  <2> QED
    BY <1>1, <2>3, <2>4
<1>4. ASSUME NEW i \in D, NEW j \in D, Sooner(time, i, j)
      PROVE  rank[i] < rank[j]
  <2>4. \A k \in D : Sooner(time, k, i) => Sooner(time, k, j)
    <3> SUFFICES ASSUME NEW k \in D, Sooner(time, k, i) PROVE Sooner(time, k, j)
      OBVIOUS
    <3>1. /\ time[k] \in Int /\ time[i] \in Int /\ time[j] \in Int
          /\ k \in Int /\ i \in Int /\ j \in Int
      OBVIOUS
    <3> QED
      BY <1>4, <3>1 DEF Sooner
  <2>5. ~Sooner(time, i, i)
    <3>1. time[i] \in Int /\ i \in Int
      OBVIOUS
    <3> QED
      BY <3>1 DEF Sooner
  <2>1. Before(i) \subseteq Before(j) /\ i \in Before(j) /\ i \notin Before(i)
    BY <1>4, <2>4, <2>5
  <2>3. Cardinality(Before(i)) \in Nat /\ Cardinality(Before(j)) \in Nat
    BY <1>3
  <2>2. Cardinality(Before(i)) < Cardinality(Before(j))
    <3>1. IsFiniteSet(Before(j))
      BY <1>3
    <3> HIDE DEF Before
    <3>2. Before(i) # Before(j) /\ Before(i) \in SUBSET Before(j)
      BY <2>1
    <3>3. Cardinality(Before(i)) <= Cardinality(Before(j)) /\ Cardinality(Before(i)) # Cardinality(Before(j))
      BY <3>1, <3>2, FS_Subset
    <3> QED
      BY <2>3, <3>3
  <2> HIDE DEF Before
  <2> QED
    BY <2>2, <2>3
<1>5. \A i, j \in D : i = j \/ Sooner(time, i, j) \/ Sooner(time, j, i)
  BY DEF Sooner
<1>6. \A i \in D : rank[i] \in 1 .. n
  BY <1>3
<1>7. \A i, j \in D : rank[i] = rank[j] => i = j
  BY <1>1, <1>4, <1>5, <1>6
<1> HIDE DEF rank
<1>8. \A p \in 1 .. n : \E i \in D : rank[i] = p
  <2>1. rank \in [D -> 1 .. n]
    BY <1>6 DEF rank
  <2>2. rank \in Injection(D, 1 .. n)
    BY <2>1, <1>7, Fun_IsInj
  <2>3. IsFiniteSet(1 .. n) /\ Cardinality(1 .. n) = n
    BY <1>1, FS_Interval
  <2>4. rank \in Surjection(D, 1 .. n)
    BY <2>2, <2>3, FS_Injection
  <2> QED
    BY <2>4, Fun_SurjectionProperties
<1>9. \A p \in 1 .. n : keys[p] \in D /\ rank[keys[p]] = p
  <2> TAKE p \in 1 .. n
  <2>1. PICK i \in D : rank[i] = p
    BY <1>8
  <2>2. \A j \in D : Cardinality(Before(j)) \in Nat
    BY <1>3
  <2>3. \E j \in D : Cardinality(Before(j)) = p - 1
    <3> HIDE DEF Before
    <3> QED
      BY <2>1, <2>2 DEF rank
  <2> HIDE DEF Before
  <2> QED
    BY <1>1, <2>2, <2>3 DEF rank
<1> HIDE DEF keys
<1>10. \A i \in D : \E p \in 1 .. n : keys[p] = i
  BY <1>6, <1>7, <1>9
<1>11. \A p, q \in 1 .. n : p < q => Sooner(time, keys[p], keys[q])
  <2> SUFFICES ASSUME NEW p \in 1 .. n, NEW q \in 1 .. n, p < q
               PROVE  Sooner(time, keys[p], keys[q])
    OBVIOUS
  <2>1. keys[p] \in D /\ keys[q] \in D /\ rank[keys[p]] = p /\ rank[keys[q]] = q
    BY <1>9
  <2>2. keys[p] # keys[q] /\ ~(q < p)
    BY <1>1, <2>1
  <2>3. ~Sooner(time, keys[q], keys[p])
    BY <1>4, <2>1, <2>2
  <2> QED
    BY <1>5, <2>1, <2>2, <2>3
<1>12. keys \in [1 .. n -> D]
  BY <1>9 DEF keys
<1> QED
  BY <1>1, <1>2, <1>10, <1>11, <1>12

LEMMA Limits ==
  /\ HalfID \in Nat /\ HalfID >= 1 /\ LastID = 2 * HalfID /\ LastID \in Nat
  /\ KeepCount \in Nat /\ When \in [DOMAIN When -> Nat]
BY TextAssumption

\* s lists the elements of S, each once.
Lists(s, S) ==
  /\ IsSequence(s)
  /\ \A p \in 1 .. Len(s) : s[p] \in S
  /\ \A i \in S : \E p \in 1 .. Len(s) : s[p] = i
  /\ \A p, q \in 1 .. Len(s) : p # q => s[p] # s[q]

LEMMA KeysByLists ==
  ASSUME NEW D, IsFiniteSet(D), D \subseteq Int, NEW time \in [D -> Int]
  PROVE  /\ Lists(KeysBy(time), D)
         /\ \A p, q \in 1 .. Len(KeysBy(time)) :
              p < q => Sooner(time, KeysBy(time)[p], KeysBy(time)[q])
<1> DEFINE n == Cardinality(D)
           keys == KeysBy(time)
<1>1. /\ n \in Nat /\ keys \in [1 .. n -> D]
      /\ \A i \in D : \E p \in 1 .. n : keys[p] = i
      /\ \A p, q \in 1 .. n : p < q => Sooner(time, keys[p], keys[q])
  BY KeysByOrder
<1> HIDE DEF n, keys
<1>2. IsSequence(keys) /\ Len(keys) = n
  BY <1>1, FunctionIsSequence
<1>3. ASSUME NEW p \in 1 .. n, NEW q \in 1 .. n, p # q
      PROVE  keys[p] # keys[q]
  <2>1. keys[p] \in D /\ keys[q] \in D
    BY <1>1
  <2>2. p < q \/ q < p
    BY <1>1, <1>3
  <2>3. Sooner(time, keys[p], keys[q]) \/ Sooner(time, keys[q], keys[p])
    BY <1>1, <2>2
  <2>4. \A i \in D : ~Sooner(time, i, i)
    <3>1. \A i \in D : i \in Int /\ time[i] \in Int
      OBVIOUS
    <3> QED
      BY <3>1 DEF Sooner
  <2> QED
    BY <2>1, <2>3, <2>4
<1>4. Lists(keys, D)
  BY <1>1, <1>2, <1>3 DEF Lists
<1> QED
  BY <1>1, <1>2, <1>4 DEF keys

LEMMA AscendingLists ==
  ASSUME NEW D, IsFiniteSet(D), D \subseteq Int
  PROVE  /\ Lists(Ascending(D), D)
         /\ \A p, q \in 1 .. Len(Ascending(D)) : p < q => Ascending(D)[p] < Ascending(D)[q]
<1> DEFINE time == [i \in D |-> 0]
<1>1. time \in [D -> Int]
  OBVIOUS
<1>2. \A i, j \in D : Sooner(time, i, j) => i < j
  BY DEF Sooner
<1> HIDE DEF time
<1>3. /\ Lists(KeysBy(time), D)
      /\ \A p, q \in 1 .. Len(KeysBy(time)) :
           p < q => Sooner(time, KeysBy(time)[p], KeysBy(time)[q])
  BY <1>1, KeysByLists
<1>4. Ascending(D) = KeysBy(time)
  BY DEF Ascending, time
<1> QED
  BY <1>2, <1>3, <1>4 DEF Lists

\* A map of a list: finitely many items under numbers.
IsItemMap(map) ==
  map \in [DOMAIN map -> Item] /\ IsFiniteSet(DOMAIN map) /\ DOMAIN map \subseteq Nat

LEMMA ByTimeLists ==
  ASSUME NEW map, IsItemMap(map)
  PROVE  Lists(ByTime(map), DOMAIN map)
<1> DEFINE time == [i \in DOMAIN map |-> When[map[i].name]]
<1>1. time \in [DOMAIN map -> Int]
  <2>1. \A i \in DOMAIN map : map[i].name \in DOMAIN When
    BY DEF IsItemMap, Item
  <2>2. \A n \in DOMAIN When : When[n] \in Nat
    BY TextAssumption
  <2> QED
    BY <2>1, <2>2
<1> HIDE DEF time
<1>2. Lists(KeysBy(time), DOMAIN map)
  BY <1>1, KeysByLists DEF IsItemMap
<1> QED
  BY <1>2 DEF ByTime, time

\* The order of ids that go round.
Spread(keys) == \E i, j \in keys : j >= i + HalfID

Earlier(keys, a, b) ==
  IF Spread(keys) THEN (a > HalfID /\ b <= HalfID) \/ (a < b /\ (b <= HalfID \/ a > HalfID))
  ELSE a < b

LEMMA OldRoundFirstLists ==
  ASSUME NEW map, IsItemMap(map)
  PROVE  /\ Lists(OldRoundFirst(map), DOMAIN map)
         /\ \A p, q \in 1 .. Len(OldRoundFirst(map)) :
              p < q => Earlier(DOMAIN map, OldRoundFirst(map)[p], OldRoundFirst(map)[q])
<1>0. DOMAIN map \subseteq Int /\ IsFiniteSet(DOMAIN map)
  BY DEF IsItemMap
<1>1. CASE Spread(DOMAIN map)
  <2> DEFINE old == {i \in DOMAIN map : i > HalfID}
             young == {i \in DOMAIN map : i <= HalfID}
             s == Ascending(old)
             t == Ascending(young)
  <2>1. IsFiniteSet(old) /\ IsFiniteSet(young) /\ old \subseteq Int /\ young \subseteq Int
    BY <1>0, FS_Subset
  <2>6. DOMAIN map = old \cup young /\ old \cap young = {}
    BY <1>0, Limits
  <2>7. \A i \in old : i > HalfID
    OBVIOUS
  <2>8. \A i \in young : i <= HalfID
    OBVIOUS
  <2>9. map # <<>>
    BY <1>1 DEF Spread
  <2>2. OldRoundFirst(map) = s \o t
    BY <1>1, <2>9 DEF OldRoundFirst, Spread
  <2> HIDE DEF old, young
  <2>3. /\ Lists(s, old) /\ \A p, q \in 1 .. Len(s) : p < q => s[p] < s[q]
        /\ Lists(t, young) /\ \A p, q \in 1 .. Len(t) : p < q => t[p] < t[q]
    BY <2>1, AscendingLists
  <2> HIDE DEF s, t
  <2>4. /\ IsSequence(s \o t) /\ Len(s \o t) = Len(s) + Len(t)
        /\ Len(s) \in Nat /\ Len(t) \in Nat
        /\ \A i \in 1 .. Len(s) : (s \o t)[i] = s[i]
        /\ \A i \in 1 .. Len(t) : (s \o t)[Len(s) + i] = t[i]
    BY <2>3, ConcatPlaces, ConcatIsSequence, SequenceShape DEF Lists
  <2> DEFINE u == s \o t
  <2> HIDE DEF u
  <2>5. \A p \in 1 .. Len(u) : \/ p \in 1 .. Len(s) /\ u[p] = s[p]
                               \/ p - Len(s) \in 1 .. Len(t) /\ u[p] = t[p - Len(s)]
    <3> SUFFICES ASSUME NEW p \in 1 .. Len(u), p \notin 1 .. Len(s)
                 PROVE  p - Len(s) \in 1 .. Len(t) /\ u[p] = t[p - Len(s)]
      BY <2>4 DEF u
    <3> DEFINE i == p - Len(s)
    <3>1. i \in 1 .. Len(t) /\ Len(s) + i = p
      BY <2>4 DEF u
    <3> HIDE DEF i
    <3>2. u[p] = t[i]
      BY <2>4, <3>1 DEF u
    <3> QED
      BY <3>1, <3>2 DEF i
  <2>10. \A p \in 1 .. Len(s) : p \in 1 .. Len(u) /\ u[p] = s[p]
    BY <2>4 DEF u
  <2>11. \A p \in 1 .. Len(t) : Len(s) + p \in 1 .. Len(u) /\ u[Len(s) + p] = t[p]
    BY <2>4 DEF u
  <2>12. ASSUME NEW p \in 1 .. Len(u), NEW q \in 1 .. Len(u), p < q
         PROVE  Earlier(DOMAIN map, u[p], u[q]) /\ u[p] # u[q]
    <3>1. CASE q \in 1 .. Len(s) /\ u[q] = s[q]
      <4>1. p \in 1 .. Len(s) /\ u[p] = s[p]
        BY <2>4, <2>10, <2>12, <3>1
      <4>2. s[p] < s[q] /\ s[p] \in old /\ s[q] \in old
        BY <2>3, <2>12, <3>1, <4>1 DEF Lists
      <4>3. s[p] \in Int /\ s[q] \in Int
        BY <2>1, <4>2
      <4> QED
        BY <1>1, <2>7, <3>1, <4>1, <4>2, <4>3 DEF Earlier
    <3>2. CASE p \in 1 .. Len(s) /\ u[p] = s[p] /\ q - Len(s) \in 1 .. Len(t) /\ u[q] = t[q - Len(s)]
      <4>1. u[p] \in old /\ u[q] \in young
        BY <2>3, <3>2 DEF Lists
      <4> QED
        BY <1>1, <2>6, <2>7, <2>8, <4>1 DEF Earlier
    <3>3. CASE /\ p - Len(s) \in 1 .. Len(t) /\ u[p] = t[p - Len(s)]
               /\ q - Len(s) \in 1 .. Len(t) /\ u[q] = t[q - Len(s)]
      <4>1. p - Len(s) < q - Len(s)
        BY <2>4, <2>12
      <4>2. u[p] < u[q] /\ u[p] \in young /\ u[q] \in young
        BY <2>3, <3>3, <4>1 DEF Lists
      <4>3. u[p] \in Int /\ u[q] \in Int
        BY <2>1, <4>2
      <4> QED
        BY <1>1, <2>8, <4>2, <4>3 DEF Earlier
    <3> QED
      BY <2>5, <3>1, <3>2, <3>3
  <2>13. Lists(u, DOMAIN map)
    <3>1. \A p \in 1 .. Len(u) : u[p] \in DOMAIN map
      BY <2>3, <2>5, <2>6 DEF Lists
    <3>2. \A i \in DOMAIN map : \E p \in 1 .. Len(u) : u[p] = i
      <4> SUFFICES ASSUME NEW i \in old \cup young PROVE \E p \in 1 .. Len(u) : u[p] = i
        BY <2>6
      <4>1. CASE i \in old
        BY <2>3, <2>10, <4>1 DEF Lists
      <4>2. CASE i \in young
        BY <2>3, <2>11, <4>2 DEF Lists
      <4> QED
        BY <4>1, <4>2
    <3>3. \A p, q \in 1 .. Len(u) : p # q => u[p] # u[q]
      <4>1. \A p, q \in 1 .. Len(u) : p = q \/ p < q \/ q < p
        BY <2>4 DEF u
      <4> QED
        BY <2>12, <4>1
    <3>4. IsSequence(u)
      BY <2>4 DEF u
    <3> QED
      BY <3>1, <3>2, <3>3, <3>4 DEF Lists
  <2> QED
    BY <2>2, <2>12, <2>13 DEF u
<1>2. CASE ~Spread(DOMAIN map)
  <2>1. OldRoundFirst(map) = Ascending(DOMAIN map)
    BY <1>2 DEF OldRoundFirst, Spread
  <2> QED
    BY <1>0, <1>2, <2>1, AscendingLists DEF Earlier
<1> QED
  BY <1>1, <1>2

\* Which keys are saved, each once; in the files with ids those of the older round come
\* first, except in a list of reservations without a footer.
SavedKeys(c, map) == IF c = "RecInfo2Text" THEN Latest(DOMAIN map, KeepCount) ELSE DOMAIN map

ByRound(c, save) == c \in Persistent /\ (c # "ReserveText" \/ save # 0)

LEMMA SavedLists ==
  ASSUME NEW c, NEW map, IsItemMap(map), NEW save
  PROVE  LET ids == SelectIDToSave(c, map, save)
         IN  /\ Lists(ids, SavedKeys(c, map))
             /\ ByRound(c, save) => \A p, q \in 1 .. Len(ids) :
                                      p < q => Earlier(DOMAIN map, ids[p], ids[q])
<1>1. CASE ByRound(c, save)
  <2>1. SelectIDToSave(c, map, save) = OldRoundFirst(map) /\ SavedKeys(c, map) = DOMAIN map
    BY <1>1 DEF ByRound, SelectIDToSave, SavedKeys, Persistent
  <2> QED
    BY <2>1, OldRoundFirstLists
<1>2. CASE c = "RecInfo2Text"
  <2>1. SelectIDToSave(c, map, save) = Ascending(Latest(DOMAIN map, KeepCount))
    BY <1>2 DEF SelectIDToSave, Persistent
  <2>2. Latest(DOMAIN map, KeepCount) \subseteq DOMAIN map
    BY DEF Latest
  <2>3. IsFiniteSet(Latest(DOMAIN map, KeepCount)) /\ Latest(DOMAIN map, KeepCount) \subseteq Int
    BY <2>2, FS_Subset DEF IsItemMap
  <2>4. Lists(Ascending(Latest(DOMAIN map, KeepCount)), Latest(DOMAIN map, KeepCount))
    BY <2>3, AscendingLists
  <2> QED
    BY <1>2, <2>1, <2>4 DEF ByRound, Persistent, SavedKeys
<1>3. CASE ~ByRound(c, save) /\ c # "RecInfo2Text"
  <2>1. SelectIDToSave(c, map, save) = ByTime(map) /\ SavedKeys(c, map) = DOMAIN map
    BY <1>3 DEF ByRound, SelectIDToSave, SavedKeys, Persistent
  <2> QED
    BY <1>3, <2>1, ByTimeLists
<1> QED
  BY <1>1, <1>2, <1>3

-----------------------------------------------------------------------------
(* A line, and what is read back from it.                                  *)

LEMMA OneShape ==
  ASSUME NEW e
  PROVE  IsSequence(<<e>>) /\ Len(<<e>>) = 1 /\ <<e>>[1] = e
BY OneIsSequence

\* A list of folders as it is written: how many there are, and each of them.
LEMMA CountedShape ==
  ASSUME NEW l \in Seq(Folders)
  PROVE  /\ IsSequence(Counted(l)) /\ Len(Counted(l)) = Len(l) + 1
         /\ Counted(l)[1] = Token("number", Len(l))
         /\ \A i \in 1 .. Len(l) : Counted(l)[1 + i] = Token("folder", l[i])
<1> DEFINE t == [i \in DOMAIN l |-> Token("folder", l[i])]
           S == {t[i] : i \in DOMAIN l}
           h == <<Token("number", Len(l))>>
<1>1. Len(l) \in Nat /\ DOMAIN l = 1 .. Len(l)
  OBVIOUS
<1>2. t \in [1 .. Len(l) -> S]
  BY <1>1
<1>3. \A i \in 1 .. Len(l) : t[i] = Token("folder", l[i])
  BY <1>1
<1> HIDE DEF t
<1>4. IsSequence(t) /\ Len(t) = Len(l)
  BY <1>1, <1>2, FunctionIsSequence
<1>5. IsSequence(h) /\ Len(h) = 1 /\ h[1] = Token("number", Len(l))
  BY OneShape
<1>6. Counted(l) = h \o t
  BY DEF Counted, t
<1> HIDE DEF h
<1>8. IsSequence(h) /\ IsSequence(t)
  BY <1>4, <1>5
<1>7. /\ IsSequence(h \o t) /\ Len(h \o t) = Len(h) + Len(t)
      /\ \A i \in 1 .. Len(h) : (h \o t)[i] = h[i]
      /\ \A i \in 1 .. Len(t) : (h \o t)[Len(h) + i] = t[i]
  BY <1>8, ConcatPlaces, ConcatIsSequence
<1> QED
  BY <1>1, <1>3, <1>4, <1>5, <1>6, <1>7

LEMMA ItemShape ==
  ASSUME NEW x \in Item
  PROVE  /\ x.name \in DOMAIN When /\ x.folders \in Seq(Folders) /\ x.partial \in Seq(Folders)
         /\ x.flag \in BOOLEAN /\ Rest(x.folders) \in Seq(Folders)
         /\ Len(x.folders) \in Nat /\ Len(x.partial) \in Nat /\ Len(Rest(x.folders)) \in Nat
<1>1. x.folders \in Seq(Folders) /\ x.partial \in Seq(Folders)
  BY DEF Item
<1>2. Rest(x.folders) \in Seq(Folders)
  BY <1>1 DEF Rest
<1> QED
  BY <1>1, <1>2 DEF Item

\* The first folder, as a list.
Front1(folders) == IF folders = <<>> THEN <<>> ELSE <<Head(folders)>>

LEMMA FoldersJoin ==
  ASSUME NEW l \in Seq(Folders)
  PROVE  Front1(l) \o Rest(l) = l /\ <<>> \o l = l
<1>1. CASE l = <<>>
  BY <1>1 DEF Front1, Rest
<1>2. CASE l # <<>>
  <2>1. <<Head(l)>> \o Tail(l) = l
    BY <1>2
  <2>2. <<>> \o l = l
    OBVIOUS
  <2> QED
    BY <1>2, <2>1, <2>2 DEF Front1, Rest
<1> QED
  BY <1>1, <1>2

Flags == {"protectFlag", "epgCapFlag"}

Special == {"ID", "FIRST", "REST", "FOLDERS", "PARTIAL", "PAD", "END"} \cup Flags

\* How long a column is, and what stands in its first place.
LEMMA ColumnShape ==
  ASSUME NEW f, NEW id, NEW x \in Item
  PROVE  LET s == Column(f, id, x)
         IN  /\ IsSequence(s)
             /\ f = "REST" => s = Counted(Rest(x.folders))
             /\ f = "FOLDERS" => s = Counted(x.folders)
             /\ f = "PARTIAL" => s = Counted(x.partial)
             /\ f \notin {"REST", "FOLDERS", "PARTIAL"} => Len(s) = 1
             /\ f = "ID" => s[1] = Token(f, id)
             /\ f = "FIRST" => s[1] = Token("folder", IF x.folders = <<>> THEN NoText
                                                      ELSE Head(x.folders))
             /\ f \in Flags => s[1] = Token(f, x.flag)
             /\ f \notin Special => s[1] = Token(f, x.name)
             /\ f \notin {"REST", "FOLDERS", "PARTIAL", "FIRST"} => s[1].f = f
<1> DEFINE s == Column(f, id, x)
<1>1. CASE f \in {"REST", "FOLDERS", "PARTIAL"}
  <2>1. /\ f = "REST" => s = Counted(Rest(x.folders))
        /\ f = "FOLDERS" => s = Counted(x.folders)
        /\ f = "PARTIAL" => s = Counted(x.partial)
    BY DEF Column
  <2>2. IsSequence(s)
    <3> HIDE DEF s
    <3> QED
      BY <1>1, <2>1, ItemShape, CountedShape
  <2> QED
    BY <1>1, <2>1, <2>2 DEF Special, Flags
<1>2. CASE f = "ID"
  BY <1>2, OneShape DEF Column, Special, Flags, Token
<1>3. CASE f = "FIRST"
  BY <1>3, OneShape DEF Column, Special, Flags
<1>4. CASE f \in {"PAD", "END"}
  BY <1>4, OneShape DEF Column, Special, Flags, Token
<1>5. CASE f \in Flags
  BY <1>5, OneShape DEF Column, Special, Flags, Token
<1>6. CASE f \notin Special
  <2>1. s = <<Token(f, x.name)>>
    BY <1>6 DEF Column, Special, Flags
  <2> QED
    BY <1>6, <2>1, OneShape DEF Special, Flags, Token
<1> QED
  BY <1>1, <1>2, <1>3, <1>4, <1>5, <1>6 DEF Special, Flags

\* The list of folders that starts at a place of a line.
ListedAt(line, at) ==
  IF line[at].f # "number" THEN <<>> ELSE [i \in 1 .. line[at].v |-> line[at + i].v]

Reading(at, id, name, folders, partial, flag) ==
  [at |-> at, id |-> id, name |-> name, folders |-> folders, partial |-> partial, flag |-> flag]

\* What reading one column does, by its kind.
ReadsAs(line, at, id, name, folders, partial, flag, f) ==
  /\ f \in {"PAD", "END"} =>
       ParseColumn(line, Reading(at, id, name, folders, partial, flag), f) =
         Reading(at + 1, id, name, folders, partial, flag)
  /\ f = "ID" =>
       ParseColumn(line, Reading(at, id, name, folders, partial, flag), f) =
         Reading(at + 1, IF line[at].f = f THEN line[at].v ELSE 0, name, folders,
                 partial, flag)
  /\ f = "FIRST" =>
       ParseColumn(line, Reading(at, id, name, folders, partial, flag), f) =
         Reading(at + 1, id, name, IF line[at].v = NoText THEN <<>> ELSE <<line[at].v>>,
                 partial, flag)
  /\ f \in {"REST", "FOLDERS"} =>
       ParseColumn(line, Reading(at, id, name, folders, partial, flag), f) =
         Reading(at + 1 + Len(ListedAt(line, at)), id, name,
                 folders \o ListedAt(line, at), partial, flag)
  /\ f = "PARTIAL" =>
       ParseColumn(line, Reading(at, id, name, folders, partial, flag), f) =
         Reading(at + 1 + Len(ListedAt(line, at)), id, name, folders,
                 ListedAt(line, at), flag)
  /\ f \in Flags =>
       ParseColumn(line, Reading(at, id, name, folders, partial, flag), f) =
         Reading(at + 1, id, name, folders, partial, line[at].f = f /\ line[at].v)
  /\ f \notin Special /\ line[at].f = f /\ name \in {NoText, line[at].v} =>
       ParseColumn(line, Reading(at, id, name, folders, partial, flag), f) =
         Reading(at + 1, id, line[at].v, folders, partial, flag)

LEMMA ParseColumnCases ==
  ASSUME NEW line, NEW f, NEW at \in Nat, NEW id, NEW name, NEW folders, NEW partial,
         NEW flag, at <= Len(line), Len(line) \in Nat
  PROVE  ReadsAs(line, at, id, name, folders, partial, flag, f)
<1> SUFFICES /\ f \in {"PAD", "END"} =>
                  ParseColumn(line, Reading(at, id, name, folders, partial, flag), f) =
                    Reading(at + 1, id, name, folders, partial, flag)
             /\ f = "ID" =>
                  ParseColumn(line, Reading(at, id, name, folders, partial, flag), f) =
                    Reading(at + 1, IF line[at].f = f THEN line[at].v ELSE 0, name, folders,
                            partial, flag)
             /\ f = "FIRST" =>
                  ParseColumn(line, Reading(at, id, name, folders, partial, flag), f) =
                    Reading(at + 1, id, name, IF line[at].v = NoText THEN <<>> ELSE <<line[at].v>>,
                            partial, flag)
             /\ f \in {"REST", "FOLDERS"} =>
                  ParseColumn(line, Reading(at, id, name, folders, partial, flag), f) =
                    Reading(at + 1 + Len(ListedAt(line, at)), id, name,
                            folders \o ListedAt(line, at), partial, flag)
             /\ f = "PARTIAL" =>
                  ParseColumn(line, Reading(at, id, name, folders, partial, flag), f) =
                    Reading(at + 1 + Len(ListedAt(line, at)), id, name, folders,
                            ListedAt(line, at), flag)
             /\ f \in Flags =>
                  ParseColumn(line, Reading(at, id, name, folders, partial, flag), f) =
                    Reading(at + 1, id, name, folders, partial, line[at].f = f /\ line[at].v)
             /\ f \notin Special /\ line[at].f = f /\ name \in {NoText, line[at].v} =>
                  ParseColumn(line, Reading(at, id, name, folders, partial, flag), f) =
                    Reading(at + 1, id, line[at].v, folders, partial, flag)
  BY DEF ReadsAs
<1> DEFINE r == Reading(at, id, name, folders, partial, flag)
           t == line[at]
           listed == ListedAt(line, at)
           past == [at |-> at + 1, id |-> id, name |-> name, folders |-> folders,
                    partial |-> partial, flag |-> flag]
<1>0. r = [at |-> at, id |-> id, name |-> name, folders |-> folders, partial |-> partial,
           flag |-> flag]
  BY DEF Reading
<1> HIDE DEF r
<1>1. r.at = at /\ [r EXCEPT !.at = @ + 1] = past /\ r.name = name
  BY <1>0
<1> DEFINE readID == [past EXCEPT !.id = IF t.f = f THEN t.v ELSE 0]
           readFirst == [past EXCEPT !.folders = IF t.v = NoText THEN <<>> ELSE <<t.v>>]
           readFolders == [r EXCEPT !.at = @ + 1 + Len(listed), !.folders = @ \o listed]
           readPartial == [r EXCEPT !.at = @ + 1 + Len(listed), !.partial = listed]
           readFlag == [past EXCEPT !.flag = (t.f = f /\ t.v)]
           readName == [past EXCEPT !.name = IF t.f = f /\ @ \in {NoText, t.v} THEN t.v
                                             ELSE "mixed"]
<1>2. ParseColumn(line, r, f) =
        CASE f \in {"PAD", "END"} -> past
          [] f = "ID" -> readID
          [] f = "FIRST" -> readFirst
          [] f \in {"REST", "FOLDERS"} -> readFolders
          [] f = "PARTIAL" -> readPartial
          [] f \in {"protectFlag", "epgCapFlag"} -> readFlag
          [] OTHER -> readName
  BY <1>1, Zenon DEF ParseColumn, ListedAt
<1>3. /\ \A v : [past EXCEPT !.id = v] =
                  [at |-> at + 1, id |-> v, name |-> name, folders |-> folders,
                   partial |-> partial, flag |-> flag]
      /\ \A v : [past EXCEPT !.name = v] =
                  [at |-> at + 1, id |-> id, name |-> v, folders |-> folders,
                   partial |-> partial, flag |-> flag]
      /\ \A v : [past EXCEPT !.folders = v] =
                  [at |-> at + 1, id |-> id, name |-> name, folders |-> v,
                   partial |-> partial, flag |-> flag]
      /\ \A v : [past EXCEPT !.flag = v] =
                  [at |-> at + 1, id |-> id, name |-> name, folders |-> folders,
                   partial |-> partial, flag |-> v]
  BY <1>0
<1>4. ASSUME NEW a, NEW l
      PROVE  /\ [r EXCEPT !.at = a, !.folders = l] =
                  [at |-> a, id |-> id, name |-> name, folders |-> l, partial |-> partial,
                   flag |-> flag]
             /\ [r EXCEPT !.at = a, !.partial = l] =
                  [at |-> a, id |-> id, name |-> name, folders |-> folders, partial |-> l,
                   flag |-> flag]
  <2> DEFINE q == [r EXCEPT !.at = a]
  <2>1. q = [at |-> a, id |-> id, name |-> name, folders |-> folders, partial |-> partial,
             flag |-> flag]
    BY <1>0
  <2> HIDE DEF q
  <2>2. /\ [q EXCEPT !.folders = l] =
             [at |-> a, id |-> id, name |-> name, folders |-> l, partial |-> partial,
              flag |-> flag]
        /\ [q EXCEPT !.partial = l] =
             [at |-> a, id |-> id, name |-> name, folders |-> folders, partial |-> l,
              flag |-> flag]
    BY <2>1
  <2> QED
    BY <2>2 DEF q
<1>12. r.at = at /\ r.folders = folders
  BY <1>0
<1> HIDE DEF t, listed, past
<1>5. /\ f \in {"PAD", "END"} => ParseColumn(line, r, f) = past
      /\ f = "ID" => ParseColumn(line, r, f) = readID
      /\ f = "FIRST" => ParseColumn(line, r, f) = readFirst
      /\ f \in {"REST", "FOLDERS"} => ParseColumn(line, r, f) = readFolders
      /\ f = "PARTIAL" => ParseColumn(line, r, f) = readPartial
      /\ f \in Flags => ParseColumn(line, r, f) = readFlag
      /\ f \notin Special => ParseColumn(line, r, f) = readName
  <2> HIDE DEF readID, readFirst, readFolders, readPartial, readFlag, readName
  <2> DEFINE new == ParseColumn(line, r, f)
  <2>0. new = CASE f \in {"PAD", "END"} -> past
                [] f = "ID" -> readID
                [] f = "FIRST" -> readFirst
                [] f \in {"REST", "FOLDERS"} -> readFolders
                [] f = "PARTIAL" -> readPartial
                [] f \in {"protectFlag", "epgCapFlag"} -> readFlag
                [] OTHER -> readName
    BY <1>2
  <2> HIDE DEF new
  <2>1. f \in {"PAD", "END"} => new = past
    BY <2>0
  <2>2. f = "ID" => new = readID
    BY <2>0
  <2>3. f = "FIRST" => new = readFirst
    BY <2>0
  <2>4. f \in {"REST", "FOLDERS"} => new = readFolders
    BY <2>0
  <2>5. f = "PARTIAL" => new = readPartial
    BY <2>0
  <2>6. f \in Flags => new = readFlag
    BY <2>0 DEF Flags
  <2>7. f \notin Special => new = readName
    BY <2>0 DEF Special, Flags
  <2> QED
    BY <2>1, <2>2, <2>3, <2>4, <2>5, <2>6, <2>7, Zenon DEF new
<1>6. t.f = f /\ name \in {NoText, t.v} =>
        readName = [at |-> at + 1, id |-> id, name |-> t.v, folders |-> folders,
                    partial |-> partial, flag |-> flag]
  <2>1. past.name = name
    BY DEF past
  <2>2. t.f = f /\ name \in {NoText, t.v} => readName = [past EXCEPT !.name = t.v]
    BY <2>1
  <2> QED
    BY <1>3, <2>2
<1>7. /\ readID = [at |-> at + 1, id |-> IF t.f = f THEN t.v ELSE 0, name |-> name,
                   folders |-> folders, partial |-> partial, flag |-> flag]
      /\ readFirst = [at |-> at + 1, id |-> id, name |-> name,
                      folders |-> IF t.v = NoText THEN <<>> ELSE <<t.v>>,
                      partial |-> partial, flag |-> flag]
      /\ readFlag = [at |-> at + 1, id |-> id, name |-> name, folders |-> folders,
                     partial |-> partial, flag |-> (t.f = f /\ t.v)]
  BY <1>3, Zenon
<1>8. /\ readFolders = [at |-> at + 1 + Len(listed), id |-> id, name |-> name,
                        folders |-> folders \o listed, partial |-> partial, flag |-> flag]
      /\ readPartial = [at |-> at + 1 + Len(listed), id |-> id, name |-> name,
                        folders |-> folders, partial |-> listed, flag |-> flag]
  <2> DEFINE a == at + 1 + Len(listed)
             l == folders \o listed
  <2>1. r.at + 1 + Len(listed) = a /\ r.folders \o listed = l
    BY <1>12
  <2>2. /\ [r EXCEPT !.at = a, !.folders = l] =
             [at |-> a, id |-> id, name |-> name, folders |-> l, partial |-> partial,
              flag |-> flag]
        /\ [r EXCEPT !.at = a, !.partial = listed] =
             [at |-> a, id |-> id, name |-> name, folders |-> folders, partial |-> listed,
              flag |-> flag]
    <3> HIDE DEF a, l
    <3> QED
      BY <1>4, Zenon
  <2> HIDE DEF a, l
  <2>3. /\ readFolders = [r EXCEPT !.at = a, !.folders = l]
        /\ readPartial = [r EXCEPT !.at = a, !.partial = listed]
    BY <2>1, Zenon
  <2> QED
    BY <2>2, <2>3, Zenon DEF a, l
<1> HIDE DEF readID, readFirst, readFolders, readPartial, readFlag, readName
<1> DEFINE new == ParseColumn(line, r, f)
<1>9. /\ f \in {"PAD", "END"} => new = past
      /\ f = "ID" => new = readID
      /\ f = "FIRST" => new = readFirst
      /\ f \in {"REST", "FOLDERS"} => new = readFolders
      /\ f = "PARTIAL" => new = readPartial
      /\ f \in Flags => new = readFlag
      /\ f \notin Special => new = readName
  BY <1>5
<1> HIDE DEF new
<1>10. /\ f = "ID" => new = [at |-> at + 1, id |-> IF t.f = f THEN t.v ELSE 0, name |-> name,
                             folders |-> folders, partial |-> partial, flag |-> flag]
       /\ f = "FIRST" => new = [at |-> at + 1, id |-> id, name |-> name,
                                folders |-> IF t.v = NoText THEN <<>> ELSE <<t.v>>,
                                partial |-> partial, flag |-> flag]
       /\ f \in {"REST", "FOLDERS"} =>
            new = [at |-> at + 1 + Len(listed), id |-> id, name |-> name,
                   folders |-> folders \o listed, partial |-> partial, flag |-> flag]
       /\ f = "PARTIAL" =>
            new = [at |-> at + 1 + Len(listed), id |-> id, name |-> name,
                   folders |-> folders, partial |-> listed, flag |-> flag]
       /\ f \in Flags => new = [at |-> at + 1, id |-> id, name |-> name, folders |-> folders,
                                partial |-> partial, flag |-> (t.f = f /\ t.v)]
       /\ f \notin Special /\ t.f = f /\ name \in {NoText, t.v} =>
            new = [at |-> at + 1, id |-> id, name |-> t.v, folders |-> folders,
                   partial |-> partial, flag |-> flag]
  BY <1>6, <1>7, <1>8, <1>9, Zenon
<1> QED
  BY <1>9, <1>10, Zenon DEF r, t, listed, past, new, Reading

\* In which place of a line of these columns the special ones stand, 0 for nowhere.
PlaceNames == {"id", "first", "rest", "folders", "partial", "flag"}

IsLayout(fs, p) ==
  /\ IsSequence(fs) /\ p \in [PlaceNames -> Nat]
  /\ \A i \in 1 .. Len(fs) : /\ fs[i] = "ID" <=> i = p["id"]
                             /\ fs[i] = "FIRST" <=> i = p["first"]
                             /\ fs[i] = "REST" <=> i = p["rest"]
                             /\ fs[i] = "FOLDERS" <=> i = p["folders"]
                             /\ fs[i] = "PARTIAL" <=> i = p["partial"]
                             /\ fs[i] \in Flags <=> i = p["flag"]
  /\ p["rest"] = 0 => p["first"] = 0
  /\ p["rest"] # 0 => p["first"] \in 1 .. p["rest"] - 1 /\ p["folders"] = 0

\* The place behind the first k columns, and the item as read from them.
Within(n, i, k) == IF i \in 1 .. k THEN n ELSE 0

AtBehind(p, x, k) ==
  k + 1 + Within(Len(Rest(x.folders)), p["rest"], k) + Within(Len(x.folders), p["folders"], k)
    + Within(Len(x.partial), p["partial"], k)

NameBehind(fs, x, k) == IF \E i \in 1 .. k : fs[i] \notin Special THEN x.name ELSE NoText

FoldersBehind(p, x, k) ==
  IF p["rest"] \in 1 .. k \/ p["folders"] \in 1 .. k THEN x.folders
  ELSE IF p["first"] \in 1 .. k THEN Front1(x.folders) ELSE <<>>

PartialBehind(p, x, k) == IF p["partial"] \in 1 .. k THEN x.partial ELSE <<>>

Behind(fs, p, id, x, k) ==
  [at |-> AtBehind(p, x, k), id |-> IF p["id"] \in 1 .. k THEN id ELSE 0,
   name |-> NameBehind(fs, x, k), folders |-> FoldersBehind(p, x, k),
   partial |-> PartialBehind(p, x, k), flag |-> (p["flag"] \in 1 .. k /\ x.flag)]

\* One column moves the place by its length.
LEMMA AtSteps ==
  ASSUME NEW fs, NEW p, IsLayout(fs, p), NEW x \in Item, NEW id, NEW k \in 1 .. Len(fs)
  PROVE  /\ AtBehind(p, x, k - 1) \in Nat /\ AtBehind(p, x, k - 1) >= 1
         /\ Len(Column(fs[k], id, x)) \in Nat /\ Len(Column(fs[k], id, x)) >= 1
         /\ AtBehind(p, x, k) = AtBehind(p, x, k - 1) + Len(Column(fs[k], id, x))
<1> DEFINE a == Len(Rest(x.folders))
           b == Len(x.folders)
           d == Len(x.partial)
           n == Len(Column(fs[k], id, x))
<1>1. a \in Nat /\ b \in Nat /\ d \in Nat
  BY ItemShape
<1>2. k \in Nat /\ k >= 1 /\ \A f \in PlaceNames : p[f] \in Nat
  BY SequenceShape DEF IsLayout
<1>3. /\ fs[k] = "REST" => n = a + 1
      /\ fs[k] = "FOLDERS" => n = b + 1
      /\ fs[k] = "PARTIAL" => n = d + 1
      /\ fs[k] \notin {"REST", "FOLDERS", "PARTIAL"} => n = 1
  BY ColumnShape, CountedShape, ItemShape
<1>4. /\ fs[k] = "REST" <=> k = p["rest"]
      /\ fs[k] = "FOLDERS" <=> k = p["folders"]
      /\ fs[k] = "PARTIAL" <=> k = p["partial"]
  BY DEF IsLayout
<1>5. ASSUME NEW i \in Nat, NEW l \in Nat
      PROVE  /\ Within(l, i, k - 1) \in Nat
             /\ Within(l, i, k) = Within(l, i, k - 1) + (IF k = i THEN l ELSE 0)
  BY <1>2 DEF Within
<1>6. p["rest"] \in Nat /\ p["folders"] \in Nat /\ p["partial"] \in Nat
  BY <1>2 DEF PlaceNames
<1> DEFINE u == IF k = p["rest"] THEN a ELSE 0
           v == IF k = p["folders"] THEN b ELSE 0
           w == IF k = p["partial"] THEN d ELSE 0
<1> HIDE DEF n, a, b, d
<1>7. n = 1 + u + v + w /\ u \in Nat /\ v \in Nat /\ w \in Nat
  <2>1. CASE fs[k] = "REST"
    <3>1. u = a /\ v = 0 /\ w = 0 /\ n = a + 1
      BY <1>3, <1>4, <2>1
    <3> QED
      BY <1>1, <3>1
  <2>2. CASE fs[k] = "FOLDERS"
    <3>1. u = 0 /\ v = b /\ w = 0 /\ n = b + 1
      BY <1>3, <1>4, <2>2
    <3> QED
      BY <1>1, <3>1
  <2>3. CASE fs[k] = "PARTIAL"
    <3>1. u = 0 /\ v = 0 /\ w = d /\ n = d + 1
      BY <1>3, <1>4, <2>3
    <3> QED
      BY <1>1, <3>1
  <2>4. CASE fs[k] \notin {"REST", "FOLDERS", "PARTIAL"}
    <3>1. u = 0 /\ v = 0 /\ w = 0 /\ n = 1
      BY <1>3, <1>4, <2>4
    <3> QED
      BY <1>1, <3>1
  <2> QED
    BY <2>1, <2>2, <2>3, <2>4
<1>8. /\ AtBehind(p, x, k) = k + 1 + Within(a, p["rest"], k) + Within(b, p["folders"], k)
                               + Within(d, p["partial"], k)
      /\ AtBehind(p, x, k - 1) = k - 1 + 1 + Within(a, p["rest"], k - 1)
                                   + Within(b, p["folders"], k - 1) + Within(d, p["partial"], k - 1)
  BY DEF AtBehind, a, b, d
<1>9. n \in Nat /\ n >= 1
  BY <1>1, <1>7
<1> DEFINE r == Within(a, p["rest"], k - 1)
           s == Within(b, p["folders"], k - 1)
           t == Within(d, p["partial"], k - 1)
<1>12. /\ r \in Nat /\ Within(a, p["rest"], k) = r + (IF k = p["rest"] THEN a ELSE 0)
       /\ s \in Nat /\ Within(b, p["folders"], k) = s + (IF k = p["folders"] THEN b ELSE 0)
       /\ t \in Nat /\ Within(d, p["partial"], k) = t + (IF k = p["partial"] THEN d ELSE 0)
  BY <1>1, <1>5, <1>6
<1> HIDE DEF r, s, t
<1>13. AtBehind(p, x, k - 1) = k - 1 + 1 + r + s + t
  BY <1>8 DEF r, s, t
<1>10. AtBehind(p, x, k - 1) \in Nat /\ AtBehind(p, x, k - 1) >= 1
  BY <1>2, <1>12, <1>13
<1>15. AtBehind(p, x, k) = k + 1 + (r + u) + (s + v) + (t + w)
  BY <1>8, <1>12
<1> HIDE DEF u, v, w
<1>11. AtBehind(p, x, k) = AtBehind(p, x, k - 1) + n
  BY <1>2, <1>7, <1>12, <1>13, <1>15
<1> QED
  BY <1>9, <1>10, <1>11 DEF n

\* A line of these columns.
Cells(fs, id, x) == FlattenSeq([i \in DOMAIN fs |-> Column(fs[i], id, x)])

\* How the columns lie in a line.
LEMMA LineLayout ==
  ASSUME NEW fs, NEW p, IsLayout(fs, p), NEW x \in Item, NEW id, NEW line,
         line = Cells(fs, id, x)
  PROVE  /\ IsSequence(line) /\ Len(line) = AtBehind(p, x, Len(fs)) - 1
         /\ \A k \in 1 .. Len(fs) : \A j \in 1 .. Len(Column(fs[k], id, x)) :
              /\ AtBehind(p, x, k - 1) - 1 + j <= Len(line)
              /\ line[AtBehind(p, x, k - 1) - 1 + j] = Column(fs[k], id, x)[j]
<1> DEFINE n == Len(fs)
           s == [i \in DOMAIN fs |-> Column(fs[i], id, x)]
           S == {s[i] : i \in 1 .. n}
<1>1. n \in Nat /\ DOMAIN fs = 1 .. n
  BY SequenceShape DEF IsLayout
<1>2. s \in [1 .. n -> S] /\ \A i \in 1 .. n : s[i] = Column(fs[i], id, x)
  BY <1>1
<1> HIDE DEF s
<1>3. IsSequence(s) /\ Len(s) = n /\ DOMAIN s = 1 .. n
  BY <1>1, <1>2, FunctionIsSequence
<1>4. \A i \in DOMAIN s : IsSequence(s[i])
  BY <1>2, <1>3, ColumnShape
<1>5. line = FlattenSeq(s) /\ IsSequence(line)
  BY <1>3, <1>4, FlattenIsSequence DEF s, Cells
<1>14. PICK at \in [0 .. Len(s) -> Nat] :
         /\ at[0] = 0 /\ Len(FlattenSeq(s)) = at[Len(s)]
         /\ \A m \in 1 .. Len(s) : at[m] = at[m - 1] + Len(s[m])
         /\ \A m \in 1 .. Len(s) : \A j \in 1 .. Len(s[m]) :
              FlattenSeq(s)[at[m - 1] + j] = s[m][j]
  BY <1>3, <1>4, FlattenLayout
<1>6. /\ at \in [0 .. n -> Nat] /\ at[0] = 0 /\ Len(line) = at[n]
      /\ \A m \in 1 .. n : at[m] = at[m - 1] + Len(s[m])
      /\ \A m \in 1 .. n : \A j \in 1 .. Len(s[m]) : line[at[m - 1] + j] = s[m][j]
  <2>1. Len(s) = n /\ line = FlattenSeq(s)
    BY <1>3, <1>5
  <2>2. at \in [0 .. n -> Nat] /\ at[0] = 0 /\ Len(line) = at[n]
    BY <1>14, <2>1
  <2> HIDE DEF n
  <2> QED
    BY <1>14, <2>1, <2>2
<1>7. \A m \in 1 .. n : /\ AtBehind(p, x, m - 1) \in Nat
                        /\ Len(s[m]) \in Nat
                        /\ AtBehind(p, x, m) = AtBehind(p, x, m - 1) + Len(s[m])
  <2> SUFFICES ASSUME NEW m \in 1 .. n
               PROVE  /\ AtBehind(p, x, m - 1) \in Nat
                      /\ Len(s[m]) \in Nat
                      /\ AtBehind(p, x, m) = AtBehind(p, x, m - 1) + Len(s[m])
    OBVIOUS
  <2>1. /\ AtBehind(p, x, m - 1) \in Nat
        /\ Len(Column(fs[m], id, x)) \in Nat
        /\ AtBehind(p, x, m) = AtBehind(p, x, m - 1) + Len(Column(fs[m], id, x))
    BY AtSteps
  <2>2. s[m] = Column(fs[m], id, x)
    BY <1>2
  <2> QED
    BY <2>1, <2>2
<1> HIDE DEF n
<1>8. AtBehind(p, x, 0) = 1
  BY ItemShape DEF AtBehind, Within
<1> DEFINE B == {k \in 0 .. n : at[k] = AtBehind(p, x, k) - 1}
<1>9. \A k \in 0 .. n : k \in B
  <2>1. 0 \in B
    BY <1>1, <1>6, <1>8
  <2>2. ASSUME NEW k \in 0 .. n - 1, k \in B
        PROVE  k + 1 \in B
    <3> DEFINE m == k + 1
    <3>1. m \in 1 .. n /\ m \in 0 .. n /\ m - 1 = k
      BY <1>1
    <3> HIDE DEF m
    <3>2. at[m] = at[k] + Len(s[m]) /\ at[k] = AtBehind(p, x, k) - 1
      BY <1>6, <2>2, <3>1
    <3>3. AtBehind(p, x, m) = AtBehind(p, x, k) + Len(s[m]) /\ Len(s[m]) \in Nat
          /\ AtBehind(p, x, k) \in Nat
      BY <1>7, <3>1
    <3>4. m \in B
      BY <3>1, <3>2, <3>3
    <3> QED
      BY <3>4 DEF m
  <2> HIDE DEF B
  <2> QED
    BY <1>1, <2>1, <2>2, InductionTo
<1>10. \A k \in 0 .. n : at[k] = AtBehind(p, x, k) - 1
  BY <1>9
<1>11. Len(line) = AtBehind(p, x, n) - 1
  BY <1>1, <1>6, <1>10
<1>12. \A k \in 0 .. n : at[k] <= at[n]
  <2> DEFINE C == {m \in 0 .. n : \A k \in 0 .. m : at[k] <= at[m]}
  <2>1. 0 \in C
    BY <1>1, <1>6
  <2>2. ASSUME NEW k \in 0 .. n - 1, k \in C
        PROVE  k + 1 \in C
    <3> DEFINE m == k + 1
    <3>1. m \in 1 .. n /\ m \in 0 .. n /\ m - 1 = k /\ \A i \in 0 .. m : i \in 0 .. k \/ i = m
      BY <1>1
    <3> HIDE DEF m
    <3>2. at[m] = at[k] + Len(s[m]) /\ Len(s[m]) \in Nat /\ at[k] \in Nat
      <4>1. at[m] = at[m - 1] + Len(s[m]) /\ Len(s[m]) \in Nat
        BY <1>6, <1>7, <3>1
      <4>2. k \in 0 .. n
        BY <1>1
      <4> QED
        BY <1>6, <3>1, <4>1, <4>2
    <3>3. \A i \in 0 .. k : at[i] <= at[k] /\ at[i] \in Nat
      BY <1>1, <1>6, <2>2
    <3>4. \A i \in 0 .. m : at[i] <= at[m]
      BY <3>1, <3>2, <3>3
    <3>5. m \in C
      BY <3>1, <3>4
    <3> QED
      BY <3>5 DEF m
  <2> HIDE DEF C
  <2>3. \A k \in 0 .. n : k \in C
    BY <1>1, <2>1, <2>2, InductionTo
  <2>4. n \in 0 .. n
    BY <1>1
  <2> QED
    BY <2>3, <2>4 DEF C
<1>13. ASSUME NEW k \in 1 .. n, NEW j \in 1 .. Len(Column(fs[k], id, x))
       PROVE  /\ AtBehind(p, x, k - 1) - 1 + j <= Len(line)
              /\ line[AtBehind(p, x, k - 1) - 1 + j] = Column(fs[k], id, x)[j]
  <2>1. k - 1 \in 0 .. n /\ k \in 0 .. n
    BY <1>1
  <2>2. at[k - 1] = AtBehind(p, x, k - 1) - 1 /\ at[k] = at[k - 1] + Len(s[k]) /\ at[k] <= at[n]
    BY <1>6, <1>10, <1>12, <2>1
  <2>3. s[k] = Column(fs[k], id, x)
    BY <1>2
  <2>4. line[at[k - 1] + j] = s[k][j]
    BY <1>6, <2>3
  <2>5. at[k - 1] \in Nat /\ Len(s[k]) \in Nat /\ at[n] \in Nat
    BY <1>1, <1>6, <1>7, <2>1
  <2>6. at[k - 1] + j <= at[n]
    BY <2>2, <2>3, <2>5
  <2> QED
    BY <1>6, <2>2, <2>3, <2>4, <2>6
<1> QED
  BY <1>5, <1>11, <1>13 DEF n

\* What one column adds to the item.
LEMMA BehindSteps ==
  ASSUME NEW fs, NEW p, IsLayout(fs, p), NEW x \in Item, NEW id, NEW k \in 1 .. Len(fs)
  PROVE  /\ p["id"] \in 1 .. k <=> p["id"] \in 1 .. k - 1 \/ fs[k] = "ID"
         /\ p["flag"] \in 1 .. k <=> p["flag"] \in 1 .. k - 1 \/ fs[k] \in Flags
         /\ NameBehind(fs, x, k) =
              IF fs[k] \notin Special THEN x.name ELSE NameBehind(fs, x, k - 1)
         /\ PartialBehind(p, x, k) =
              IF fs[k] = "PARTIAL" THEN x.partial ELSE PartialBehind(p, x, k - 1)
         /\ fs[k] = "FIRST" => FoldersBehind(p, x, k) = Front1(x.folders)
         /\ fs[k] = "REST" => /\ FoldersBehind(p, x, k - 1) = Front1(x.folders)
                              /\ FoldersBehind(p, x, k) = x.folders
         /\ fs[k] = "FOLDERS" => /\ FoldersBehind(p, x, k - 1) = <<>>
                                 /\ FoldersBehind(p, x, k) = x.folders
         /\ fs[k] \notin {"FIRST", "REST", "FOLDERS"} =>
              FoldersBehind(p, x, k) = FoldersBehind(p, x, k - 1)
<1>1. /\ p["id"] \in Nat /\ p["first"] \in Nat /\ p["rest"] \in Nat /\ p["folders"] \in Nat
      /\ p["partial"] \in Nat /\ p["flag"] \in Nat
  BY DEF IsLayout, PlaceNames
<1>2. k \in Nat /\ k >= 1 /\ Len(fs) \in Nat
  BY SequenceShape DEF IsLayout
<1>3. \A i \in Nat : i \in 1 .. k <=> i \in 1 .. k - 1 \/ i = k
  BY <1>2
<1>4. /\ fs[k] = "ID" <=> k = p["id"]
      /\ fs[k] = "FIRST" <=> k = p["first"]
      /\ fs[k] = "REST" <=> k = p["rest"]
      /\ fs[k] = "FOLDERS" <=> k = p["folders"]
      /\ fs[k] = "PARTIAL" <=> k = p["partial"]
      /\ fs[k] \in Flags <=> k = p["flag"]
  BY DEF IsLayout
<1>5. p["id"] \in 1 .. k <=> p["id"] \in 1 .. k - 1 \/ fs[k] = "ID"
  BY <1>1, <1>3, <1>4
<1>6. p["flag"] \in 1 .. k <=> p["flag"] \in 1 .. k - 1 \/ fs[k] \in Flags
  BY <1>1, <1>3, <1>4
<1>7. NameBehind(fs, x, k) = IF fs[k] \notin Special THEN x.name ELSE NameBehind(fs, x, k - 1)
  <2>1. (\E i \in 1 .. k : fs[i] \notin Special) <=>
          (\E i \in 1 .. k - 1 : fs[i] \notin Special) \/ fs[k] \notin Special
    <3> HIDE DEF Special
    <3> QED
      BY <1>2, <1>3
  <2> QED
    BY <2>1, Zenon DEF NameBehind
<1>8. PartialBehind(p, x, k) =
        IF fs[k] = "PARTIAL" THEN x.partial ELSE PartialBehind(p, x, k - 1)
  BY <1>1, <1>3, <1>4 DEF PartialBehind
<1>9. /\ p["rest"] = 0 => p["first"] = 0
      /\ p["rest"] # 0 => p["first"] >= 1 /\ p["first"] < p["rest"] /\ p["folders"] = 0
  BY <1>1 DEF IsLayout
<1>10. fs[k] = "FIRST" => FoldersBehind(p, x, k) = Front1(x.folders)
  <2> SUFFICES ASSUME fs[k] = "FIRST" PROVE FoldersBehind(p, x, k) = Front1(x.folders)
    OBVIOUS
  <2>1. p["first"] = k /\ p["rest"] > k /\ p["folders"] = 0
    BY <1>1, <1>2, <1>4, <1>9
  <2> QED
    BY <1>1, <1>2, <2>1 DEF FoldersBehind
<1>11. fs[k] = "REST" => /\ FoldersBehind(p, x, k - 1) = Front1(x.folders)
                         /\ FoldersBehind(p, x, k) = x.folders
  <2> SUFFICES ASSUME fs[k] = "REST"
               PROVE  /\ FoldersBehind(p, x, k - 1) = Front1(x.folders)
                      /\ FoldersBehind(p, x, k) = x.folders
    OBVIOUS
  <2>1. p["rest"] = k /\ p["folders"] = 0 /\ p["first"] \in 1 .. k - 1
    BY <1>1, <1>2, <1>4, <1>9
  <2> QED
    BY <1>1, <1>2, <2>1 DEF FoldersBehind
<1>12. fs[k] = "FOLDERS" => /\ FoldersBehind(p, x, k - 1) = <<>>
                            /\ FoldersBehind(p, x, k) = x.folders
  <2> SUFFICES ASSUME fs[k] = "FOLDERS"
               PROVE  /\ FoldersBehind(p, x, k - 1) = <<>>
                      /\ FoldersBehind(p, x, k) = x.folders
    OBVIOUS
  <2>1. p["folders"] = k /\ p["rest"] = 0 /\ p["first"] = 0
    BY <1>1, <1>2, <1>4, <1>9
  <2> QED
    BY <1>1, <1>2, <2>1 DEF FoldersBehind
<1>13. fs[k] \notin {"FIRST", "REST", "FOLDERS"} =>
         FoldersBehind(p, x, k) = FoldersBehind(p, x, k - 1)
  BY <1>1, <1>3, <1>4 DEF FoldersBehind
<1> QED
  BY <1>5, <1>6, <1>7, <1>8, <1>10, <1>11, <1>12, <1>13

\* A list of folders is read as it was written.
LEMMA ListedRead ==
  ASSUME NEW l \in Seq(Folders), NEW line, NEW at \in Nat, at >= 1,
         \A j \in 1 .. Len(Counted(l)) : line[at - 1 + j] = Counted(l)[j]
  PROVE  ListedAt(line, at) = l
<1>1. /\ Len(Counted(l)) = Len(l) + 1 /\ Len(l) \in Nat /\ DOMAIN l = 1 .. Len(l)
      /\ Counted(l)[1] = Token("number", Len(l))
      /\ \A i \in 1 .. Len(l) : Counted(l)[1 + i] = Token("folder", l[i])
  BY CountedShape
<1>2. line[at] = Token("number", Len(l))
  <2>1. 1 \in 1 .. Len(Counted(l)) /\ at - 1 + 1 = at
    BY <1>1
  <2> QED
    BY <1>1, <2>1
<1>3. ASSUME NEW i \in 1 .. Len(l)
      PROVE  line[at + i].v = l[i]
  <2>1. 1 + i \in 1 .. Len(Counted(l)) /\ at - 1 + (1 + i) = at + i
    BY <1>1
  <2>2. line[at - 1 + (1 + i)] = Counted(l)[1 + i]
    BY <2>1
  <2>3. line[at + i] = Token("folder", l[i])
    BY <1>1, <2>1, <2>2
  <2> QED
    BY <2>3 DEF Token
<1>4. [i \in 1 .. Len(l) |-> line[at + i].v] = l
  <2>1. l = [i \in 1 .. Len(l) |-> l[i]]
    BY <1>1
  <2> QED
    BY <1>3, <2>1
<1>5. line[at].f = "number" /\ line[at].v = Len(l)
  BY <1>2 DEF Token
<1>6. ListedAt(line, at) = [i \in 1 .. line[at].v |-> line[at + i].v]
  BY <1>5, Zenon DEF ListedAt
<1> QED
  BY <1>4, <1>5, <1>6

\* ParseLine reads each column as SaveLine wrote it.
LEMMA ColumnRead ==
  ASSUME NEW fs, NEW p, IsLayout(fs, p), NEW x \in Item, NEW id, NEW line,
         line = Cells(fs, id, x), NEW k \in 1 .. Len(fs)
  PROVE  ParseColumn(line, Behind(fs, p, id, x, k - 1), fs[k]) = Behind(fs, p, id, x, k)
<1> DEFINE f == fs[k]
           at == AtBehind(p, x, k - 1)
           s == Column(f, id, x)
           i0 == IF p["id"] \in 1 .. k - 1 THEN id ELSE 0
           n0 == NameBehind(fs, x, k - 1)
           l0 == FoldersBehind(p, x, k - 1)
           p0 == PartialBehind(p, x, k - 1)
           b0 == p["flag"] \in 1 .. k - 1 /\ x.flag
           r == Behind(fs, p, id, x, k - 1)
           new == ParseColumn(line, r, f)
           t == line[at]
           listed == ListedAt(line, at)
<1>1. /\ at \in Nat /\ at >= 1 /\ Len(s) \in Nat /\ Len(s) >= 1
      /\ AtBehind(p, x, k) = at + Len(s)
  BY AtSteps
<1>2. /\ IsSequence(line)
      /\ \A j \in 1 .. Len(s) : at - 1 + j <= Len(line) /\ line[at - 1 + j] = s[j]
  <2>1. /\ IsSequence(line) /\ Len(line) = AtBehind(p, x, Len(fs)) - 1
        /\ \A m \in 1 .. Len(fs) : \A j \in 1 .. Len(Column(fs[m], id, x)) :
             /\ AtBehind(p, x, m - 1) - 1 + j <= Len(line)
             /\ line[AtBehind(p, x, m - 1) - 1 + j] = Column(fs[m], id, x)[j]
    BY LineLayout
  <2> QED
    BY <2>1
<1>3. Len(line) \in Nat /\ at <= Len(line) /\ t = s[1]
  <2>1. Len(line) \in Nat
    BY <1>2, SequenceShape
  <2>2. 1 \in 1 .. Len(s)
    BY <1>1
  <2> HIDE DEF at, s
  <2>3. at - 1 + 1 = at
    BY <1>1
  <2> QED
    BY <1>2, <2>1, <2>2, <2>3
<1>4. r = Reading(at, i0, n0, l0, p0, b0)
  BY DEF Behind, Reading
<1>5. Behind(fs, p, id, x, k) =
        [at |-> at + Len(s), id |-> IF p["id"] \in 1 .. k THEN id ELSE 0,
         name |-> NameBehind(fs, x, k), folders |-> FoldersBehind(p, x, k),
         partial |-> PartialBehind(p, x, k), flag |-> (p["flag"] \in 1 .. k /\ x.flag)]
  BY <1>1 DEF Behind
<1>6. /\ p["id"] \in 1 .. k <=> p["id"] \in 1 .. k - 1 \/ f = "ID"
      /\ p["flag"] \in 1 .. k <=> p["flag"] \in 1 .. k - 1 \/ f \in Flags
      /\ NameBehind(fs, x, k) = IF f \notin Special THEN x.name ELSE n0
      /\ PartialBehind(p, x, k) = IF f = "PARTIAL" THEN x.partial ELSE p0
      /\ f = "FIRST" => FoldersBehind(p, x, k) = Front1(x.folders)
      /\ f = "REST" => l0 = Front1(x.folders) /\ FoldersBehind(p, x, k) = x.folders
      /\ f = "FOLDERS" => l0 = <<>> /\ FoldersBehind(p, x, k) = x.folders
      /\ f \notin {"FIRST", "REST", "FOLDERS"} => FoldersBehind(p, x, k) = l0
  BY BehindSteps
<1>7. /\ IsSequence(s)
      /\ f = "REST" => s = Counted(Rest(x.folders))
      /\ f = "FOLDERS" => s = Counted(x.folders)
      /\ f = "PARTIAL" => s = Counted(x.partial)
      /\ f \notin {"REST", "FOLDERS", "PARTIAL"} => Len(s) = 1
      /\ f = "ID" => s[1] = Token(f, id)
      /\ f = "FIRST" => s[1] = Token("folder", IF x.folders = <<>> THEN NoText
                                               ELSE Head(x.folders))
      /\ f \in Flags => s[1] = Token(f, x.flag)
      /\ f \notin Special => s[1] = Token(f, x.name)
  BY ColumnShape
<1> DEFINE read == ParseColumn(line, Reading(at, i0, n0, l0, p0, b0), f)
<1>8a. /\ f \in {"PAD", "END"} => read = Reading(at + 1, i0, n0, l0, p0, b0)
       /\ f = "ID" => read = Reading(at + 1, IF t.f = f THEN t.v ELSE 0, n0, l0, p0, b0)
       /\ f = "FIRST" =>
            read = Reading(at + 1, i0, n0, IF t.v = NoText THEN <<>> ELSE <<t.v>>, p0, b0)
       /\ f \in {"REST", "FOLDERS"} =>
            read = Reading(at + 1 + Len(listed), i0, n0, l0 \o listed, p0, b0)
       /\ f = "PARTIAL" => read = Reading(at + 1 + Len(listed), i0, n0, l0, listed, b0)
       /\ f \in Flags => read = Reading(at + 1, i0, n0, l0, p0, t.f = f /\ t.v)
       /\ f \notin Special /\ t.f = f /\ n0 \in {NoText, t.v} =>
            read = Reading(at + 1, i0, t.v, l0, p0, b0)
  <2>1. at <= Len(line) /\ Len(line) \in Nat /\ at \in Nat
    BY <1>1, <1>3
  <2> HIDE DEF at, r, i0, n0, l0, p0, b0, f
  <2>2. ReadsAs(line, at, i0, n0, l0, p0, b0, f)
    BY <2>1, ParseColumnCases
  <2> QED
    BY <2>2 DEF ReadsAs
<1>8b. new = read
  <2> HIDE DEF at, i0, n0, l0, p0, b0, f, r
  <2> QED
    BY <1>4
<1>8. /\ f \in {"PAD", "END"} => new = Reading(at + 1, i0, n0, l0, p0, b0)
      /\ f = "ID" => new = Reading(at + 1, IF t.f = f THEN t.v ELSE 0, n0, l0, p0, b0)
      /\ f = "FIRST" =>
           new = Reading(at + 1, i0, n0, IF t.v = NoText THEN <<>> ELSE <<t.v>>, p0, b0)
      /\ f \in {"REST", "FOLDERS"} =>
           new = Reading(at + 1 + Len(listed), i0, n0, l0 \o listed, p0, b0)
      /\ f = "PARTIAL" => new = Reading(at + 1 + Len(listed), i0, n0, l0, listed, b0)
      /\ f \in Flags => new = Reading(at + 1, i0, n0, l0, p0, t.f = f /\ t.v)
      /\ f \notin Special /\ t.f = f /\ n0 \in {NoText, t.v} =>
           new = Reading(at + 1, i0, t.v, l0, p0, b0)
  <2> HIDE DEF new, read, at, i0, n0, l0, p0, b0, f, t, listed
  <2> QED
    BY <1>8a, <1>8b
<1> DEFINE idk == IF p["id"] \in 1 .. k THEN id ELSE 0
           flagk == p["flag"] \in 1 .. k /\ x.flag
<1>9. /\ f # "ID" => idk = i0
      /\ f = "ID" => idk = id
      /\ f \notin Flags => flagk = b0
      /\ f \in Flags => flagk = x.flag
  <2>1. x.flag \in BOOLEAN
    BY ItemShape
  <2> HIDE DEF f
  <2> QED
    BY <1>6, <2>1
<1> DEFINE want == Behind(fs, p, id, x, k)
           namek == NameBehind(fs, x, k)
           foldersk == FoldersBehind(p, x, k)
           partialk == PartialBehind(p, x, k)
<1>10. want = Reading(at + Len(s), idk, namek, foldersk, partialk, flagk)
  BY <1>5 DEF Reading
<1>11. n0 \in {NoText, x.name}
  BY DEF NameBehind
<1>12. /\ f \notin Special => namek = x.name
       /\ f \in Special => namek = n0
       /\ f = "PARTIAL" => partialk = x.partial
       /\ f # "PARTIAL" => partialk = p0
  BY <1>6
<1>13. /\ f = "FIRST" => foldersk = Front1(x.folders)
       /\ f = "REST" => l0 = Front1(x.folders) /\ foldersk = x.folders
       /\ f = "FOLDERS" => l0 = <<>> /\ foldersk = x.folders
       /\ f \notin {"FIRST", "REST", "FOLDERS"} => foldersk = l0
  BY <1>6
<1>14. ASSUME NEW l \in Seq(Folders), s = Counted(l)
       PROVE  listed = l /\ Len(s) = 1 + Len(l)
  <2>1. listed = l
    <3> HIDE DEF at, s
    <3>1. \A j \in 1 .. Len(Counted(l)) : line[at - 1 + j] = Counted(l)[j]
      BY <1>2, <1>14
    <3> QED
      BY <1>1, <3>1, ListedRead
  <2>2. Len(s) = 1 + Len(l)
    <3> HIDE DEF s
    <3> QED
      BY <1>14, CountedShape
  <2> HIDE DEF t, at
  <2> QED
    BY <2>1, <2>2
<1> SUFFICES new = want
  OBVIOUS
<1> HIDE DEF f, at, s, i0, n0, l0, p0, b0, r, new, t, listed, idk, flagk, want, namek, foldersk, partialk
<1>15. CASE f \in {"PAD", "END"}
  BY <1>7, <1>8, <1>9, <1>10, <1>12, <1>13, <1>15 DEF Special, Flags
<1>16. CASE f = "ID"
  <2>1. t.f = f /\ t.v = id
    BY <1>3, <1>7, <1>16 DEF Token
  <2> QED
    BY <1>7, <1>8, <1>9, <1>10, <1>12, <1>13, <1>16, <2>1 DEF Special, Flags
<1>17. CASE f = "FIRST"
  <2>1. (IF t.v = NoText THEN <<>> ELSE <<t.v>>) = Front1(x.folders)
    <3>1. t.v = IF x.folders = <<>> THEN NoText ELSE Head(x.folders)
      BY <1>3, <1>7, <1>17 DEF Token
    <3>2. x.folders # <<>> => Head(x.folders) \in Folders
      BY ItemShape
    <3>3. NoText \notin Folders
      BY TextAssumption
    <3> QED
      BY <3>1, <3>2, <3>3 DEF Front1
  <2> QED
    BY <1>7, <1>8, <1>9, <1>10, <1>12, <1>13, <1>17, <2>1 DEF Special, Flags
<1>18. CASE f = "REST"
  <2>1. listed = Rest(x.folders) /\ Len(s) = 1 + Len(Rest(x.folders))
    BY <1>7, <1>14, <1>18, ItemShape
  <2>2. l0 \o listed = x.folders
    BY <1>13, <1>18, <2>1, ItemShape, FoldersJoin
  <2>4. Len(listed) \in Nat
    BY <2>1, ItemShape
  <2>5. Len(s) = 1 + Len(listed)
    BY <2>1
  <2>3. at + 1 + Len(listed) = at + Len(s)
    BY <1>1, <2>4, <2>5
  <2> QED
    BY <1>8, <1>9, <1>10, <1>12, <1>13, <1>18, <2>2, <2>3 DEF Special, Flags
<1>19. CASE f = "FOLDERS"
  <2>1. listed = x.folders /\ Len(s) = 1 + Len(x.folders)
    BY <1>7, <1>14, <1>19, ItemShape
  <2>2. l0 \o listed = x.folders
    BY <1>13, <1>19, <2>1, ItemShape, FoldersJoin
  <2>4. Len(listed) \in Nat
    BY <2>1, ItemShape
  <2>5. Len(s) = 1 + Len(listed)
    BY <2>1
  <2>3. at + 1 + Len(listed) = at + Len(s)
    BY <1>1, <2>4, <2>5
  <2> QED
    BY <1>8, <1>9, <1>10, <1>12, <1>13, <1>19, <2>2, <2>3 DEF Special, Flags
<1>20. CASE f = "PARTIAL"
  <2>1. listed = x.partial /\ Len(s) = 1 + Len(x.partial)
    BY <1>7, <1>14, <1>20, ItemShape
  <2>4. Len(listed) \in Nat
    BY <2>1, ItemShape
  <2>5. Len(s) = 1 + Len(listed)
    BY <2>1
  <2>3. at + 1 + Len(listed) = at + Len(s)
    BY <1>1, <2>4, <2>5
  <2> QED
    BY <1>8, <1>9, <1>10, <1>12, <1>13, <1>20, <2>1, <2>3 DEF Special, Flags
<1>21. CASE f \in Flags
  <2>1. t.f = f /\ t.v = x.flag /\ x.flag \in BOOLEAN
    BY <1>3, <1>7, <1>21, ItemShape DEF Token
  <2>2. (t.f = f /\ t.v) = x.flag
    BY <2>1
  <2>3. f \in Special /\ f \notin {"ID", "FIRST", "REST", "FOLDERS", "PARTIAL"}
    BY <1>21 DEF Special, Flags
  <2> QED
    BY <1>7, <1>8, <1>9, <1>10, <1>12, <1>13, <1>21, <2>2, <2>3
<1>22. CASE f \notin Special
  <2>1. t.f = f /\ t.v = x.name
    BY <1>3, <1>7, <1>22 DEF Token
  <2>2. f \notin Flags /\ f \notin {"ID", "FIRST", "REST", "FOLDERS", "PARTIAL"}
    BY <1>22 DEF Special
  <2> QED
    BY <1>7, <1>8, <1>9, <1>10, <1>11, <1>12, <1>13, <1>22, <2>1, <2>2
<1> QED
  BY <1>15, <1>16, <1>17, <1>18, <1>19, <1>20, <1>21, <1>22 DEF Special

\* r[k] is the item behind the first k columns, up to k = m.
IsScan(line, fs, m, r) ==
  r = [k \in 0 .. m |-> IF k = 0 THEN NewItem ELSE ParseColumn(line, r[k - 1], fs[k])]

LEMMA ScanExists ==
  ASSUME NEW line, NEW fs, NEW n \in Nat
  PROVE  \E r : IsScan(line, fs, n, r)
<1> DEFINE B == {m \in Nat : ~\E r : IsScan(line, fs, m, r)}
<1> SUFFICES ASSUME B # {} PROVE FALSE
  OBVIOUS
<1>1. B \subseteq Nat
  OBVIOUS
<1>2. PICK m \in B : \A k \in B : m <= k
  BY <1>1, Smallest
<1>3. CASE m = 0
  <2> DEFINE r == [k \in 0 .. 0 |-> NewItem]
  <2>1. IsScan(line, fs, 0, r)
    BY DEF IsScan
  <2> QED
    BY <1>1, <1>3, <2>1
<1>4. CASE m > 0
  <2>1. m - 1 \in Nat /\ m - 1 \notin B
    BY <1>2, <1>4
  <2>2. PICK r : IsScan(line, fs, m - 1, r)
    BY <2>1
  <2> DEFINE t == [k \in 0 .. m |-> IF k = m THEN ParseColumn(line, r[m - 1], fs[m]) ELSE r[k]]
  <2>3. \A k \in 0 .. m - 1 :
          r[k] = IF k = 0 THEN NewItem ELSE ParseColumn(line, r[k - 1], fs[k])
    BY <2>2 DEF IsScan
  <2>4. \A k \in 0 .. m :
          t[k] = IF k = 0 THEN NewItem ELSE ParseColumn(line, t[k - 1], fs[k])
    BY <1>1, <1>4, <2>3
  <2>5. IsScan(line, fs, m, t)
    BY <2>4 DEF IsScan
  <2> QED
    BY <1>1, <2>5
<1> QED
  BY <1>1, <1>3, <1>4

\* ParseLine reads the line of an item as the item, as far as the line holds it.
LEMMA LineRead ==
  ASSUME NEW c, NEW p, IsLayout(LineOf[c].parse, p), NEW x \in Item, NEW id
  PROVE  ParsedLine(c, Cells(LineOf[c].parse, id, x)) =
           Behind(LineOf[c].parse, p, id, x, Len(LineOf[c].parse))
<1> DEFINE fs == LineOf[c].parse
           line == Cells(fs, id, x)
           r == CHOOSE t : IsScan(line, fs, Len(fs), t)
<1>0. IsLayout(fs, p)
  OBVIOUS
<1> HIDE DEF fs
<1>1. Len(fs) \in Nat
  BY <1>0, SequenceShape DEF IsLayout
<1> HIDE DEF line
<1>2. IsScan(line, fs, Len(fs), r)
  BY <1>1, ScanExists, Zenon
<1> HIDE DEF r
<1>3. \A k \in 0 .. Len(fs) :
        r[k] = IF k = 0 THEN NewItem ELSE ParseColumn(line, r[k - 1], fs[k])
  BY <1>2 DEF IsScan
<1> DEFINE B == {k \in 0 .. Len(fs) : r[k] = Behind(fs, p, id, x, k)}
<1>4. 0 \in B
  <2>1. r[0] = NewItem
    BY <1>1, <1>3
  <2>2. p["rest"] \in Nat /\ p["folders"] \in Nat /\ p["partial"] \in Nat
    BY <1>0 DEF IsLayout, PlaceNames
  <2>3. AtBehind(p, x, 0) = 1
    BY <2>2 DEF AtBehind, Within
  <2>4. /\ NameBehind(fs, x, 0) = NoText /\ FoldersBehind(p, x, 0) = <<>>
        /\ PartialBehind(p, x, 0) = <<>> /\ ~(p["id"] \in 1 .. 0) /\ ~(p["flag"] \in 1 .. 0)
    BY DEF NameBehind, FoldersBehind, PartialBehind
  <2>5. Behind(fs, p, id, x, 0) = NewItem
    BY <2>3, <2>4 DEF Behind, NewItem
  <2> QED
    BY <1>1, <2>1, <2>5
<1>5. ASSUME NEW k \in 0 .. Len(fs) - 1, k \in B PROVE k + 1 \in B
  <2> DEFINE k1 == k + 1
  <2>1. k1 \in 1 .. Len(fs) /\ k1 - 1 = k /\ k1 \in 0 .. Len(fs) /\ k1 # 0
    BY <1>1
  <2> HIDE DEF k1
  <2>2. r[k1] = ParseColumn(line, r[k1 - 1], fs[k1])
    BY <1>3, <2>1
  <2>3. r[k1 - 1] = Behind(fs, p, id, x, k1 - 1)
    BY <1>5, <2>1
  <2>4. ParseColumn(line, Behind(fs, p, id, x, k1 - 1), fs[k1]) = Behind(fs, p, id, x, k1)
    BY <1>0, <2>1, ColumnRead DEF line
  <2>5. k1 \in B
    BY <2>1, <2>2, <2>3, <2>4
  <2> QED
    BY <2>5 DEF k1
<1>6. \A k \in 0 .. Len(fs) : k \in B
  <2> HIDE DEF B
  <2> QED
    BY <1>1, <1>4, <1>5, InductionTo
<1>7. Len(fs) \in 0 .. Len(fs)
  BY <1>1
<1>8. ParsedLine(c, line) = r[Len(fs)]
  BY Zenon DEF ParsedLine, IsScan, r, fs
<1> QED
  BY <1>6, <1>7, <1>8 DEF line, fs

\* Where a class has the columns that are special, 0 for none.
Places(id, first, rest, folders, partial, flag) ==
  [n \in PlaceNames |->
     IF n = "id" THEN id ELSE IF n = "first" THEN first ELSE IF n = "rest" THEN rest
     ELSE IF n = "folders" THEN folders ELSE IF n = "partial" THEN partial ELSE flag]

\* A class whose lines have all that its items are read back with.
IsClass(fs, separators, p) ==
  /\ IsLayout(fs, p) /\ Len(fs) = separators + 1
  /\ fs[1] \notin {"FIRST", "REST", "FOLDERS", "PARTIAL", "NextID"}
  /\ \E i \in 1 .. Len(fs) : fs[i] \notin Special

LEMMA ReserveClass ==
  IsClass(ReserveText.save, ReserveText.separators, Places(12, 18, 28, 0, 33, 0))
<1> DEFINE f == ReserveText.save
           p == Places(12, 18, 28, 0, 33, 0)
           S == {f[i] : i \in 1 .. 34}
<1>1. Len(f) = 34 /\ ReserveText.separators = 33 /\ f = [i \in 1 .. 34 |-> f[i]]
  BY DEF ReserveText, Columns
<1>2. \A i \in 1 .. 34 :
        /\ f[i] = "ID" <=> i = 12
        /\ f[i] = "FIRST" <=> i = 18
        /\ f[i] = "REST" <=> i = 28
        /\ f[i] # "FOLDERS"
        /\ f[i] = "PARTIAL" <=> i = 33
        /\ f[i] \notin Flags
  BY DEF ReserveText, Columns, Flags
<1>3. f[1] = "startDate" /\ f[1] \notin Special
  BY DEF ReserveText, Columns, Special, Flags
<1>4. p \in [PlaceNames -> Nat]
  BY DEF Places
<1>5. /\ p["id"] = 12 /\ p["first"] = 18 /\ p["rest"] = 28
      /\ p["folders"] = 0 /\ p["partial"] = 33 /\ p["flag"] = 0
  BY DEF Places, PlaceNames
<1> HIDE DEF f, p
<1>6. IsSequence(f)
  <2>1. f \in [1 .. 34 -> S]
    BY <1>1
  <2> QED
    BY <2>1, FunctionIsSequence
<1>7. IsLayout(f, p)
  <2>1. ASSUME NEW i \in 1 .. Len(f)
        PROVE  /\ f[i] = "ID" <=> i = p["id"]
               /\ f[i] = "FIRST" <=> i = p["first"]
               /\ f[i] = "REST" <=> i = p["rest"]
               /\ f[i] = "FOLDERS" <=> i = p["folders"]
               /\ f[i] = "PARTIAL" <=> i = p["partial"]
               /\ f[i] \in Flags <=> i = p["flag"]
    BY <1>1, <1>2, <1>5
  <2> QED
    BY <1>4, <1>5, <1>6, <2>1 DEF IsLayout
<1>8. 1 \in 1 .. Len(f)
  BY <1>1
<1> QED
  BY <1>1, <1>3, <1>7, <1>8 DEF IsClass, f, p

LEMMA EpgAutoAddClass ==
  IsClass(EpgAutoAddText.save, EpgAutoAddText.separators, Places(1, 0, 0, 20, 28, 0))
<1> DEFINE f == EpgAutoAddText.save
           p == Places(1, 0, 0, 20, 28, 0)
           S == {f[i] : i \in 1 .. 31}
<1>1. Len(f) = 31 /\ EpgAutoAddText.separators = 30 /\ f = [i \in 1 .. 31 |-> f[i]]
  BY DEF EpgAutoAddText, Columns
<1>2. \A i \in 1 .. 31 :
        /\ f[i] = "ID" <=> i = 1
        /\ f[i] # "FIRST"
        /\ f[i] # "REST"
        /\ f[i] = "FOLDERS" <=> i = 20
        /\ f[i] = "PARTIAL" <=> i = 28
        /\ f[i] \notin Flags
  BY DEF EpgAutoAddText, Columns, Flags
<1>3. f[1] = "ID" /\ f[2] \notin Special
  BY DEF EpgAutoAddText, Columns, Special, Flags
<1>4. p \in [PlaceNames -> Nat]
  BY DEF Places
<1>5. /\ p["id"] = 1 /\ p["first"] = 0 /\ p["rest"] = 0
      /\ p["folders"] = 20 /\ p["partial"] = 28 /\ p["flag"] = 0
  BY DEF Places, PlaceNames
<1> HIDE DEF f, p
<1>6. IsSequence(f)
  <2>1. f \in [1 .. 31 -> S]
    BY <1>1
  <2> QED
    BY <2>1, FunctionIsSequence
<1>7. IsLayout(f, p)
  <2>1. ASSUME NEW i \in 1 .. Len(f)
        PROVE  /\ f[i] = "ID" <=> i = p["id"]
               /\ f[i] = "FIRST" <=> i = p["first"]
               /\ f[i] = "REST" <=> i = p["rest"]
               /\ f[i] = "FOLDERS" <=> i = p["folders"]
               /\ f[i] = "PARTIAL" <=> i = p["partial"]
               /\ f[i] \in Flags <=> i = p["flag"]
    BY <1>1, <1>2, <1>5
  <2> QED
    BY <1>4, <1>5, <1>6, <2>1 DEF IsLayout
<1>8. 2 \in 1 .. Len(f)
  BY <1>1
<1> QED
  BY <1>1, <1>3, <1>7, <1>8 DEF IsClass, f, p

LEMMA ManualAutoAddClass ==
  IsClass(ManualAutoAddText.save, ManualAutoAddText.separators, Places(1, 0, 0, 21, 25, 0))
<1> DEFINE f == ManualAutoAddText.save
           p == Places(1, 0, 0, 21, 25, 0)
           S == {f[i] : i \in 1 .. 26}
<1>1. Len(f) = 26 /\ ManualAutoAddText.separators = 25 /\ f = [i \in 1 .. 26 |-> f[i]]
  BY DEF ManualAutoAddText, Columns
<1>2. \A i \in 1 .. 26 :
        /\ f[i] = "ID" <=> i = 1
        /\ f[i] # "FIRST"
        /\ f[i] # "REST"
        /\ f[i] = "FOLDERS" <=> i = 21
        /\ f[i] = "PARTIAL" <=> i = 25
        /\ f[i] \notin Flags
  BY DEF ManualAutoAddText, Columns, Flags
<1>3. f[1] = "ID" /\ f[2] \notin Special
  BY DEF ManualAutoAddText, Columns, Special, Flags
<1>4. p \in [PlaceNames -> Nat]
  BY DEF Places
<1>5. /\ p["id"] = 1 /\ p["first"] = 0 /\ p["rest"] = 0
      /\ p["folders"] = 21 /\ p["partial"] = 25 /\ p["flag"] = 0
  BY DEF Places, PlaceNames
<1> HIDE DEF f, p
<1>6. IsSequence(f)
  <2>1. f \in [1 .. 26 -> S]
    BY <1>1
  <2> QED
    BY <2>1, FunctionIsSequence
<1>7. IsLayout(f, p)
  <2>1. ASSUME NEW i \in 1 .. Len(f)
        PROVE  /\ f[i] = "ID" <=> i = p["id"]
               /\ f[i] = "FIRST" <=> i = p["first"]
               /\ f[i] = "REST" <=> i = p["rest"]
               /\ f[i] = "FOLDERS" <=> i = p["folders"]
               /\ f[i] = "PARTIAL" <=> i = p["partial"]
               /\ f[i] \in Flags <=> i = p["flag"]
    BY <1>1, <1>2, <1>5
  <2> QED
    BY <1>4, <1>5, <1>6, <2>1 DEF IsLayout
<1>8. 2 \in 1 .. Len(f)
  BY <1>1
<1> QED
  BY <1>1, <1>3, <1>7, <1>8 DEF IsClass, f, p

LEMMA RecInfoClass ==
  IsClass(RecInfoText.save, RecInfoText.separators, Places(0, 0, 0, 0, 0, 17))
<1> DEFINE f == RecInfoText.save
           p == Places(0, 0, 0, 0, 0, 17)
           S == {f[i] : i \in 1 .. 18}
<1>1. Len(f) = 18 /\ RecInfoText.separators = 17 /\ f = [i \in 1 .. 18 |-> f[i]]
  BY DEF RecInfoText, Columns
<1>2. \A i \in 1 .. 18 :
        /\ f[i] # "ID"
        /\ f[i] # "FIRST"
        /\ f[i] # "REST"
        /\ f[i] # "FOLDERS"
        /\ f[i] # "PARTIAL"
        /\ f[i] \in Flags <=> i = 17
  BY DEF RecInfoText, Columns, Flags
<1>3. f[1] = "recFilePath" /\ f[1] \notin Special
  BY DEF RecInfoText, Columns, Special, Flags
<1>4. p \in [PlaceNames -> Nat]
  BY DEF Places
<1>5. /\ p["id"] = 0 /\ p["first"] = 0 /\ p["rest"] = 0
      /\ p["folders"] = 0 /\ p["partial"] = 0 /\ p["flag"] = 17
  BY DEF Places, PlaceNames
<1> HIDE DEF f, p
<1>6. IsSequence(f)
  <2>1. f \in [1 .. 18 -> S]
    BY <1>1
  <2> QED
    BY <2>1, FunctionIsSequence
<1>7. IsLayout(f, p)
  <2>1. ASSUME NEW i \in 1 .. Len(f)
        PROVE  /\ f[i] = "ID" <=> i = p["id"]
               /\ f[i] = "FIRST" <=> i = p["first"]
               /\ f[i] = "REST" <=> i = p["rest"]
               /\ f[i] = "FOLDERS" <=> i = p["folders"]
               /\ f[i] = "PARTIAL" <=> i = p["partial"]
               /\ f[i] \in Flags <=> i = p["flag"]
    BY <1>1, <1>2, <1>5
  <2> QED
    BY <1>4, <1>5, <1>6, <2>1 DEF IsLayout
<1>8. 1 \in 1 .. Len(f)
  BY <1>1
<1> QED
  BY <1>1, <1>3, <1>7, <1>8 DEF IsClass, f, p

LEMMA RecInfo2Class ==
  IsClass(RecInfo2Text.save, RecInfo2Text.separators, Places(0, 0, 0, 0, 0, 0))
<1> DEFINE f == RecInfo2Text.save
           p == Places(0, 0, 0, 0, 0, 0)
           S == {f[i] : i \in 1 .. 6}
<1>1. Len(f) = 6 /\ RecInfo2Text.separators = 5 /\ f = [i \in 1 .. 6 |-> f[i]]
  BY DEF RecInfo2Text, Columns
<1>2. \A i \in 1 .. 6 :
        /\ f[i] # "ID"
        /\ f[i] # "FIRST"
        /\ f[i] # "REST"
        /\ f[i] # "FOLDERS"
        /\ f[i] # "PARTIAL"
        /\ f[i] \notin Flags
  BY DEF RecInfo2Text, Columns, Flags
<1>3. f[1] = "originalNetworkID" /\ f[1] \notin Special
  BY DEF RecInfo2Text, Columns, Special, Flags
<1>4. p \in [PlaceNames -> Nat]
  BY DEF Places
<1>5. /\ p["id"] = 0 /\ p["first"] = 0 /\ p["rest"] = 0
      /\ p["folders"] = 0 /\ p["partial"] = 0 /\ p["flag"] = 0
  BY DEF Places, PlaceNames
<1> HIDE DEF f, p
<1>6. IsSequence(f)
  <2>1. f \in [1 .. 6 -> S]
    BY <1>1
  <2> QED
    BY <2>1, FunctionIsSequence
<1>7. IsLayout(f, p)
  <2>1. ASSUME NEW i \in 1 .. Len(f)
        PROVE  /\ f[i] = "ID" <=> i = p["id"]
               /\ f[i] = "FIRST" <=> i = p["first"]
               /\ f[i] = "REST" <=> i = p["rest"]
               /\ f[i] = "FOLDERS" <=> i = p["folders"]
               /\ f[i] = "PARTIAL" <=> i = p["partial"]
               /\ f[i] \in Flags <=> i = p["flag"]
    BY <1>1, <1>2, <1>5
  <2> QED
    BY <1>4, <1>5, <1>6, <2>1 DEF IsLayout
<1>8. 1 \in 1 .. Len(f)
  BY <1>1
<1> QED
  BY <1>1, <1>3, <1>7, <1>8 DEF IsClass, f, p

LEMMA ChText4Class ==
  IsClass(ChText4.save, ChText4.separators, Places(0, 0, 0, 0, 0, 0))
<1> DEFINE f == ChText4.save
           p == Places(0, 0, 0, 0, 0, 0)
           S == {f[i] : i \in 1 .. 12}
<1>1. Len(f) = 12 /\ ChText4.separators = 11 /\ f = [i \in 1 .. 12 |-> f[i]]
  BY DEF ChText4, Columns
<1>2. \A i \in 1 .. 12 :
        /\ f[i] # "ID"
        /\ f[i] # "FIRST"
        /\ f[i] # "REST"
        /\ f[i] # "FOLDERS"
        /\ f[i] # "PARTIAL"
        /\ f[i] \notin Flags
  BY DEF ChText4, Columns, Flags
<1>3. f[1] = "chName" /\ f[1] \notin Special
  BY DEF ChText4, Columns, Special, Flags
<1>4. p \in [PlaceNames -> Nat]
  BY DEF Places
<1>5. /\ p["id"] = 0 /\ p["first"] = 0 /\ p["rest"] = 0
      /\ p["folders"] = 0 /\ p["partial"] = 0 /\ p["flag"] = 0
  BY DEF Places, PlaceNames
<1> HIDE DEF f, p
<1>6. IsSequence(f)
  <2>1. f \in [1 .. 12 -> S]
    BY <1>1
  <2> QED
    BY <2>1, FunctionIsSequence
<1>7. IsLayout(f, p)
  <2>1. ASSUME NEW i \in 1 .. Len(f)
        PROVE  /\ f[i] = "ID" <=> i = p["id"]
               /\ f[i] = "FIRST" <=> i = p["first"]
               /\ f[i] = "REST" <=> i = p["rest"]
               /\ f[i] = "FOLDERS" <=> i = p["folders"]
               /\ f[i] = "PARTIAL" <=> i = p["partial"]
               /\ f[i] \in Flags <=> i = p["flag"]
    BY <1>1, <1>2, <1>5
  <2> QED
    BY <1>4, <1>5, <1>6, <2>1 DEF IsLayout
<1>8. 1 \in 1 .. Len(f)
  BY <1>1
<1> QED
  BY <1>1, <1>3, <1>7, <1>8 DEF IsClass, f, p

LEMMA ChText5Class ==
  IsClass(ChText5.save, ChText5.separators, Places(0, 0, 0, 0, 0, 8))
<1> DEFINE f == ChText5.save
           p == Places(0, 0, 0, 0, 0, 8)
           S == {f[i] : i \in 1 .. 9}
<1>1. Len(f) = 9 /\ ChText5.separators = 8 /\ f = [i \in 1 .. 9 |-> f[i]]
  BY DEF ChText5, Columns
<1>2. \A i \in 1 .. 9 :
        /\ f[i] # "ID"
        /\ f[i] # "FIRST"
        /\ f[i] # "REST"
        /\ f[i] # "FOLDERS"
        /\ f[i] # "PARTIAL"
        /\ f[i] \in Flags <=> i = 8
  BY DEF ChText5, Columns, Flags
<1>3. f[1] = "serviceName" /\ f[1] \notin Special
  BY DEF ChText5, Columns, Special, Flags
<1>4. p \in [PlaceNames -> Nat]
  BY DEF Places
<1>5. /\ p["id"] = 0 /\ p["first"] = 0 /\ p["rest"] = 0
      /\ p["folders"] = 0 /\ p["partial"] = 0 /\ p["flag"] = 8
  BY DEF Places, PlaceNames
<1> HIDE DEF f, p
<1>6. IsSequence(f)
  <2>1. f \in [1 .. 9 -> S]
    BY <1>1
  <2> QED
    BY <2>1, FunctionIsSequence
<1>7. IsLayout(f, p)
  <2>1. ASSUME NEW i \in 1 .. Len(f)
        PROVE  /\ f[i] = "ID" <=> i = p["id"]
               /\ f[i] = "FIRST" <=> i = p["first"]
               /\ f[i] = "REST" <=> i = p["rest"]
               /\ f[i] = "FOLDERS" <=> i = p["folders"]
               /\ f[i] = "PARTIAL" <=> i = p["partial"]
               /\ f[i] \in Flags <=> i = p["flag"]
    BY <1>1, <1>2, <1>5
  <2> QED
    BY <1>4, <1>5, <1>6, <2>1 DEF IsLayout
<1>8. 1 \in 1 .. Len(f)
  BY <1>1
<1> QED
  BY <1>1, <1>3, <1>7, <1>8 DEF IsClass, f, p

\* A line is written whole and gives back its item.
ReadsBack(c, id, x) ==
  /\ IsSequence(Line(c, id, x)) /\ Len(Line(c, id, x)) \in Nat /\ Len(Line(c, id, x)) >= 1
  /\ Len(Line(c, id, x)) - 1 = LineOf[c].separators + Listed(c, x)
  /\ ItemOf(ParsedLine(c, Line(c, id, x))) = AsReloaded(c, x)
  /\ c \in Persistent => ParsedLine(c, Line(c, id, x)).id = id
  /\ Line(c, id, x)[1].f # "NextID"

Fits(c, p, x) ==
  LET n == Len(LineOf[c].save)
  IN  /\ IsClass(LineOf[c].save, LineOf[c].separators, p) /\ LineOf[c].parse = LineOf[c].save
      /\ LineOf[c].separators + Listed(c, x) =
           n - 1 + Within(Len(Rest(x.folders)), p["rest"], n)
             + Within(Len(x.folders), p["folders"], n) + Within(Len(x.partial), p["partial"], n)
      /\ AsReloaded(c, x) =
           [name |-> x.name, folders |-> FoldersBehind(p, x, n),
            partial |-> PartialBehind(p, x, n),
            flag |-> (p["flag"] \in 1 .. n /\ x.flag), unsaved |-> 0]
      /\ c \in Persistent => p["id"] \in 1 .. n

LEMMA LineOfClass ==
  ASSUME NEW c, NEW p, NEW x \in Item, Fits(c, p, x), NEW id
  PROVE  ReadsBack(c, id, x)
<1> DEFINE n == Len(LineOf[c].save)
<1>a. /\ IsClass(LineOf[c].save, LineOf[c].separators, p) /\ LineOf[c].parse = LineOf[c].save
      /\ LineOf[c].separators + Listed(c, x) =
           n - 1 + Within(Len(Rest(x.folders)), p["rest"], n)
             + Within(Len(x.folders), p["folders"], n) + Within(Len(x.partial), p["partial"], n)
      /\ AsReloaded(c, x) =
           [name |-> x.name, folders |-> FoldersBehind(p, x, n),
            partial |-> PartialBehind(p, x, n),
            flag |-> (p["flag"] \in 1 .. n /\ x.flag), unsaved |-> 0]
      /\ c \in Persistent => p["id"] \in 1 .. n
  BY DEF Fits
<1> DEFINE fs == LineOf[c].save
           line == Cells(fs, id, x)
           r == ParsedLine(c, line)
<1>0. Line(c, id, x) = line
  BY DEF Line, Cells
<1>1. IsLayout(fs, p) /\ n \in Nat /\ n >= 1 /\ IsSequence(fs)
  <2>1. IsLayout(fs, p) /\ IsSequence(fs) /\ \E i \in 1 .. Len(fs) : fs[i] \notin Special
    BY <1>a DEF IsClass, IsLayout
  <2>2. Len(fs) \in Nat
    BY <2>1, SequenceShape
  <2> QED
    BY <2>1, <2>2
<1>2. r = Behind(fs, p, id, x, n)
  <2>1. IsLayout(LineOf[c].parse, p) /\ fs = LineOf[c].parse /\ n = Len(fs)
    BY <1>1, <1>a
  <2> HIDE DEF fs
  <2>2. ParsedLine(c, Cells(LineOf[c].parse, id, x)) =
          Behind(LineOf[c].parse, p, id, x, Len(LineOf[c].parse))
    BY <2>1, LineRead
  <2> QED
    BY <2>1, <2>2
<1> HIDE DEF fs, n
<1>3. /\ IsSequence(line) /\ Len(line) = AtBehind(p, x, n) - 1
      /\ \A k \in 1 .. n : \A j \in 1 .. Len(Column(fs[k], id, x)) :
           /\ AtBehind(p, x, k - 1) - 1 + j <= Len(line)
           /\ line[AtBehind(p, x, k - 1) - 1 + j] = Column(fs[k], id, x)[j]
  BY <1>1, LineLayout DEF fs, n
<1> HIDE DEF line, r
<1>4. Len(line) \in Nat /\ DOMAIN line = 1 .. Len(line)
  BY <1>3, SequenceShape
<1>5. Len(line) - 1 = LineOf[c].separators + Listed(c, x)
  <2>1. p["rest"] \in Nat /\ p["folders"] \in Nat /\ p["partial"] \in Nat
    BY <1>1 DEF IsLayout, PlaceNames
  <2>2. /\ Len(Rest(x.folders)) \in Nat /\ Len(x.folders) \in Nat /\ Len(x.partial) \in Nat
    BY ItemShape
  <2> DEFINE w1 == Within(Len(Rest(x.folders)), p["rest"], n)
             w2 == Within(Len(x.folders), p["folders"], n)
             w3 == Within(Len(x.partial), p["partial"], n)
  <2>3. w1 \in Nat /\ w2 \in Nat /\ w3 \in Nat
    BY <2>2 DEF Within
  <2>4. AtBehind(p, x, n) = n + 1 + w1 + w2 + w3
    BY DEF AtBehind
  <2> HIDE DEF w1, w2, w3
  <2>5. Len(line) - 1 = n - 1 + w1 + w2 + w3
    BY <1>1, <1>3, <1>4, <2>3, <2>4
  <2> QED
    BY <1>a, <2>5, Zenon DEF w1, w2, w3
<1>6. ItemOf(r) = AsReloaded(c, x)
  <2>1. \E i \in 1 .. n : fs[i] \notin Special
    BY <1>a DEF IsClass, fs, n
  <2>2. NameBehind(fs, x, n) = x.name
    BY <2>1 DEF NameBehind
  <2>3. /\ r.name = x.name /\ r.folders = FoldersBehind(p, x, n)
        /\ r.partial = PartialBehind(p, x, n)
        /\ r.flag = (p["flag"] \in 1 .. n /\ x.flag)
    BY <1>2, <2>2 DEF Behind
  <2> QED
    BY <1>a, <2>3, Zenon DEF ItemOf
<1>7. c \in Persistent => r.id = id
  BY <1>2, <1>a DEF Behind
<1>8. Len(line) >= 1 /\ line[1].f # "NextID"
  <2>1. fs[1] \notin {"FIRST", "REST", "FOLDERS", "PARTIAL", "NextID"}
    BY <1>a DEF IsClass, fs, n
  <2>2. Len(Column(fs[1], id, x)) = 1 /\ Column(fs[1], id, x)[1].f = fs[1]
    BY <2>1, ColumnShape
  <2>3. AtBehind(p, x, 0) = 1
    BY <1>1 DEF AtBehind, Within, IsLayout, PlaceNames
  <2>4. /\ AtBehind(p, x, 1 - 1) - 1 + 1 <= Len(line)
        /\ line[AtBehind(p, x, 1 - 1) - 1 + 1] = Column(fs[1], id, x)[1]
    BY <1>1, <1>3, <2>2
  <2>5. 1 <= Len(line) /\ line[1] = Column(fs[1], id, x)[1]
    BY <2>3, <2>4
  <2> QED
    BY <1>4, <2>1, <2>2, <2>5
<1> QED
  BY <1>0, <1>3, <1>4, <1>5, <1>6, <1>7, <1>8 DEF ReadsBack, line, r
\* Every item of every class can be written and read.
LEMMA LinesReadBack ==
  ASSUME NEW c \in DOMAIN LineOf, NEW x \in Item, NEW id
  PROVE  ReadsBack(c, id, x)
<1>1. c \in {"ReserveText", "EpgAutoAddText", "ManualAutoAddText", "RecInfoText",
             "RecInfo2Text", "ChText4", "ChText5"}
  BY DEF LineOf
<1>2. /\ Len(Rest(x.folders)) \in Nat /\ Len(x.folders) \in Nat /\ Len(x.partial) \in Nat
      /\ x.flag \in BOOLEAN
  BY ItemShape
<1>3. CASE c = "ReserveText"
  <2> DEFINE p == Places(12, 18, 28, 0, 33, 0)
  <2>1. LineOf[c] = ReserveText /\ ReserveText.separators = 33 /\ ReserveText.parse = ReserveText.save
    BY <1>3 DEF LineOf, ReserveText, Columns
  <2>2. Len(ReserveText.save) = 34
    BY DEF ReserveText, Columns
  <2>3. IsClass(ReserveText.save, ReserveText.separators, p)
    BY ReserveClass
  <2>4. /\ p["id"] = 12 /\ p["first"] = 18 /\ p["rest"] = 28
        /\ p["folders"] = 0 /\ p["partial"] = 33 /\ p["flag"] = 0
    BY DEF Places, PlaceNames
  <2>5. Listed(c, x) = Len(Rest(x.folders)) + Len(x.partial)
    BY <1>3 DEF Listed, Persistent
  <2>6. AsReloaded(c, x) =
          [name |-> x.name, folders |-> x.folders, partial |-> x.partial,
           flag |-> FALSE, unsaved |-> 0]
    BY <1>2, <1>3 DEF AsReloaded, Persistent
  <2> HIDE DEF p
  <2>7. /\ FoldersBehind(p, x, 34) = x.folders
        /\ PartialBehind(p, x, 34) = x.partial
        /\ (p["flag"] \in 1 .. 34 /\ x.flag) = FALSE
    BY <1>2, <2>4 DEF FoldersBehind, PartialBehind
  <2>8. 33 + Listed(c, x) =
          34 - 1 + Within(Len(Rest(x.folders)), p["rest"], 34)
            + Within(Len(x.folders), p["folders"], 34) + Within(Len(x.partial), p["partial"], 34)
    <3>1. /\ Within(Len(Rest(x.folders)), p["rest"], 34) = Len(Rest(x.folders))
          /\ Within(Len(x.folders), p["folders"], 34) = 0
          /\ Within(Len(x.partial), p["partial"], 34) = Len(x.partial)
      BY <2>4 DEF Within
    <3> DEFINE a == Len(Rest(x.folders))
               b == Len(x.partial)
               w1 == Within(Len(Rest(x.folders)), p["rest"], 34)
               w2 == Within(Len(x.folders), p["folders"], 34)
               w3 == Within(Len(x.partial), p["partial"], 34)
               l == Listed(c, x)
    <3>2. a \in Nat /\ b \in Nat /\ l = a + b /\ w1 = a /\ w2 = 0 /\ w3 = b
      BY <1>2, <2>5, <3>1
    <3> HIDE DEF a, b, w1, w2, w3, l
    <3>3. 33 + l = 34 - 1 + w1 + w2 + w3
      BY <3>2
    <3> QED
      BY <3>3 DEF w1, w2, w3, l
  <2>9. c \in Persistent => p["id"] \in 1 .. 34
    BY <1>3, <2>4 DEF Persistent
  <2>10. Fits(c, p, x)
    BY <2>1, <2>2, <2>3, <2>6, <2>7, <2>8, <2>9, Zenon DEF Fits
  <2> QED
    BY <2>10, LineOfClass
<1>4. CASE c = "EpgAutoAddText"
  <2> DEFINE p == Places(1, 0, 0, 20, 28, 0)
  <2>1. LineOf[c] = EpgAutoAddText /\ EpgAutoAddText.separators = 30 /\ EpgAutoAddText.parse = EpgAutoAddText.save
    BY <1>4 DEF LineOf, EpgAutoAddText, Columns
  <2>2. Len(EpgAutoAddText.save) = 31
    BY DEF EpgAutoAddText, Columns
  <2>3. IsClass(EpgAutoAddText.save, EpgAutoAddText.separators, p)
    BY EpgAutoAddClass
  <2>4. /\ p["id"] = 1 /\ p["first"] = 0 /\ p["rest"] = 0
        /\ p["folders"] = 20 /\ p["partial"] = 28 /\ p["flag"] = 0
    BY DEF Places, PlaceNames
  <2>5. Listed(c, x) = Len(x.folders) + Len(x.partial)
    BY <1>4 DEF Listed, Persistent
  <2>6. AsReloaded(c, x) =
          [name |-> x.name, folders |-> x.folders, partial |-> x.partial,
           flag |-> FALSE, unsaved |-> 0]
    BY <1>2, <1>4 DEF AsReloaded, Persistent
  <2> HIDE DEF p
  <2>7. /\ FoldersBehind(p, x, 31) = x.folders
        /\ PartialBehind(p, x, 31) = x.partial
        /\ (p["flag"] \in 1 .. 31 /\ x.flag) = FALSE
    BY <1>2, <2>4 DEF FoldersBehind, PartialBehind
  <2>8. 30 + Listed(c, x) =
          31 - 1 + Within(Len(Rest(x.folders)), p["rest"], 31)
            + Within(Len(x.folders), p["folders"], 31) + Within(Len(x.partial), p["partial"], 31)
    <3>1. /\ Within(Len(Rest(x.folders)), p["rest"], 31) = 0
          /\ Within(Len(x.folders), p["folders"], 31) = Len(x.folders)
          /\ Within(Len(x.partial), p["partial"], 31) = Len(x.partial)
      BY <2>4 DEF Within
    <3> DEFINE a == Len(x.folders)
               b == Len(x.partial)
               w1 == Within(Len(Rest(x.folders)), p["rest"], 31)
               w2 == Within(Len(x.folders), p["folders"], 31)
               w3 == Within(Len(x.partial), p["partial"], 31)
               l == Listed(c, x)
    <3>2. a \in Nat /\ b \in Nat /\ l = a + b /\ w1 = 0 /\ w2 = a /\ w3 = b
      BY <1>2, <2>5, <3>1
    <3> HIDE DEF a, b, w1, w2, w3, l
    <3>3. 30 + l = 31 - 1 + w1 + w2 + w3
      BY <3>2
    <3> QED
      BY <3>3 DEF w1, w2, w3, l
  <2>9. c \in Persistent => p["id"] \in 1 .. 31
    BY <1>4, <2>4 DEF Persistent
  <2>10. Fits(c, p, x)
    BY <2>1, <2>2, <2>3, <2>6, <2>7, <2>8, <2>9, Zenon DEF Fits
  <2> QED
    BY <2>10, LineOfClass
<1>5. CASE c = "ManualAutoAddText"
  <2> DEFINE p == Places(1, 0, 0, 21, 25, 0)
  <2>1. LineOf[c] = ManualAutoAddText /\ ManualAutoAddText.separators = 25 /\ ManualAutoAddText.parse = ManualAutoAddText.save
    BY <1>5 DEF LineOf, ManualAutoAddText, Columns
  <2>2. Len(ManualAutoAddText.save) = 26
    BY DEF ManualAutoAddText, Columns
  <2>3. IsClass(ManualAutoAddText.save, ManualAutoAddText.separators, p)
    BY ManualAutoAddClass
  <2>4. /\ p["id"] = 1 /\ p["first"] = 0 /\ p["rest"] = 0
        /\ p["folders"] = 21 /\ p["partial"] = 25 /\ p["flag"] = 0
    BY DEF Places, PlaceNames
  <2>5. Listed(c, x) = Len(x.folders) + Len(x.partial)
    BY <1>5 DEF Listed, Persistent
  <2>6. AsReloaded(c, x) =
          [name |-> x.name, folders |-> x.folders, partial |-> x.partial,
           flag |-> FALSE, unsaved |-> 0]
    BY <1>2, <1>5 DEF AsReloaded, Persistent
  <2> HIDE DEF p
  <2>7. /\ FoldersBehind(p, x, 26) = x.folders
        /\ PartialBehind(p, x, 26) = x.partial
        /\ (p["flag"] \in 1 .. 26 /\ x.flag) = FALSE
    BY <1>2, <2>4 DEF FoldersBehind, PartialBehind
  <2>8. 25 + Listed(c, x) =
          26 - 1 + Within(Len(Rest(x.folders)), p["rest"], 26)
            + Within(Len(x.folders), p["folders"], 26) + Within(Len(x.partial), p["partial"], 26)
    <3>1. /\ Within(Len(Rest(x.folders)), p["rest"], 26) = 0
          /\ Within(Len(x.folders), p["folders"], 26) = Len(x.folders)
          /\ Within(Len(x.partial), p["partial"], 26) = Len(x.partial)
      BY <2>4 DEF Within
    <3> DEFINE a == Len(x.folders)
               b == Len(x.partial)
               w1 == Within(Len(Rest(x.folders)), p["rest"], 26)
               w2 == Within(Len(x.folders), p["folders"], 26)
               w3 == Within(Len(x.partial), p["partial"], 26)
               l == Listed(c, x)
    <3>2. a \in Nat /\ b \in Nat /\ l = a + b /\ w1 = 0 /\ w2 = a /\ w3 = b
      BY <1>2, <2>5, <3>1
    <3> HIDE DEF a, b, w1, w2, w3, l
    <3>3. 25 + l = 26 - 1 + w1 + w2 + w3
      BY <3>2
    <3> QED
      BY <3>3 DEF w1, w2, w3, l
  <2>9. c \in Persistent => p["id"] \in 1 .. 26
    BY <1>5, <2>4 DEF Persistent
  <2>10. Fits(c, p, x)
    BY <2>1, <2>2, <2>3, <2>6, <2>7, <2>8, <2>9, Zenon DEF Fits
  <2> QED
    BY <2>10, LineOfClass
<1>6. CASE c = "RecInfoText"
  <2> DEFINE p == Places(0, 0, 0, 0, 0, 17)
  <2>1. LineOf[c] = RecInfoText /\ RecInfoText.separators = 17 /\ RecInfoText.parse = RecInfoText.save
    BY <1>6 DEF LineOf, RecInfoText, Columns
  <2>2. Len(RecInfoText.save) = 18
    BY DEF RecInfoText, Columns
  <2>3. IsClass(RecInfoText.save, RecInfoText.separators, p)
    BY RecInfoClass
  <2>4. /\ p["id"] = 0 /\ p["first"] = 0 /\ p["rest"] = 0
        /\ p["folders"] = 0 /\ p["partial"] = 0 /\ p["flag"] = 17
    BY DEF Places, PlaceNames
  <2>5. Listed(c, x) = 0
    BY <1>6 DEF Listed, Persistent
  <2>6. AsReloaded(c, x) =
          [name |-> x.name, folders |-> <<>>, partial |-> <<>>,
           flag |-> x.flag, unsaved |-> 0]
    BY <1>2, <1>6 DEF AsReloaded, Persistent
  <2> HIDE DEF p
  <2>7. /\ FoldersBehind(p, x, 18) = <<>>
        /\ PartialBehind(p, x, 18) = <<>>
        /\ (p["flag"] \in 1 .. 18 /\ x.flag) = x.flag
    BY <1>2, <2>4 DEF FoldersBehind, PartialBehind
  <2>8. 17 + Listed(c, x) =
          18 - 1 + Within(Len(Rest(x.folders)), p["rest"], 18)
            + Within(Len(x.folders), p["folders"], 18) + Within(Len(x.partial), p["partial"], 18)
    BY <1>2, <2>4, <2>5 DEF Within
  <2>9. c \in Persistent => p["id"] \in 1 .. 18
    BY <1>6, <2>4 DEF Persistent
  <2>10. Fits(c, p, x)
    BY <2>1, <2>2, <2>3, <2>6, <2>7, <2>8, <2>9, Zenon DEF Fits
  <2> QED
    BY <2>10, LineOfClass
<1>7. CASE c = "RecInfo2Text"
  <2> DEFINE p == Places(0, 0, 0, 0, 0, 0)
  <2>1. LineOf[c] = RecInfo2Text /\ RecInfo2Text.separators = 5 /\ RecInfo2Text.parse = RecInfo2Text.save
    BY <1>7 DEF LineOf, RecInfo2Text, Columns
  <2>2. Len(RecInfo2Text.save) = 6
    BY DEF RecInfo2Text, Columns
  <2>3. IsClass(RecInfo2Text.save, RecInfo2Text.separators, p)
    BY RecInfo2Class
  <2>4. /\ p["id"] = 0 /\ p["first"] = 0 /\ p["rest"] = 0
        /\ p["folders"] = 0 /\ p["partial"] = 0 /\ p["flag"] = 0
    BY DEF Places, PlaceNames
  <2>5. Listed(c, x) = 0
    BY <1>7 DEF Listed, Persistent
  <2>6. AsReloaded(c, x) =
          [name |-> x.name, folders |-> <<>>, partial |-> <<>>,
           flag |-> FALSE, unsaved |-> 0]
    BY <1>2, <1>7 DEF AsReloaded, Persistent
  <2> HIDE DEF p
  <2>7. /\ FoldersBehind(p, x, 6) = <<>>
        /\ PartialBehind(p, x, 6) = <<>>
        /\ (p["flag"] \in 1 .. 6 /\ x.flag) = FALSE
    BY <1>2, <2>4 DEF FoldersBehind, PartialBehind
  <2>8. 5 + Listed(c, x) =
          6 - 1 + Within(Len(Rest(x.folders)), p["rest"], 6)
            + Within(Len(x.folders), p["folders"], 6) + Within(Len(x.partial), p["partial"], 6)
    BY <1>2, <2>4, <2>5 DEF Within
  <2>9. c \in Persistent => p["id"] \in 1 .. 6
    BY <1>7, <2>4 DEF Persistent
  <2>10. Fits(c, p, x)
    BY <2>1, <2>2, <2>3, <2>6, <2>7, <2>8, <2>9, Zenon DEF Fits
  <2> QED
    BY <2>10, LineOfClass
<1>8. CASE c = "ChText4"
  <2> DEFINE p == Places(0, 0, 0, 0, 0, 0)
  <2>1. LineOf[c] = ChText4 /\ ChText4.separators = 11 /\ ChText4.parse = ChText4.save
    BY <1>8 DEF LineOf, ChText4, Columns
  <2>2. Len(ChText4.save) = 12
    BY DEF ChText4, Columns
  <2>3. IsClass(ChText4.save, ChText4.separators, p)
    BY ChText4Class
  <2>4. /\ p["id"] = 0 /\ p["first"] = 0 /\ p["rest"] = 0
        /\ p["folders"] = 0 /\ p["partial"] = 0 /\ p["flag"] = 0
    BY DEF Places, PlaceNames
  <2>5. Listed(c, x) = 0
    BY <1>8 DEF Listed, Persistent
  <2>6. AsReloaded(c, x) =
          [name |-> x.name, folders |-> <<>>, partial |-> <<>>,
           flag |-> FALSE, unsaved |-> 0]
    BY <1>2, <1>8 DEF AsReloaded, Persistent
  <2> HIDE DEF p
  <2>7. /\ FoldersBehind(p, x, 12) = <<>>
        /\ PartialBehind(p, x, 12) = <<>>
        /\ (p["flag"] \in 1 .. 12 /\ x.flag) = FALSE
    BY <1>2, <2>4 DEF FoldersBehind, PartialBehind
  <2>8. 11 + Listed(c, x) =
          12 - 1 + Within(Len(Rest(x.folders)), p["rest"], 12)
            + Within(Len(x.folders), p["folders"], 12) + Within(Len(x.partial), p["partial"], 12)
    BY <1>2, <2>4, <2>5 DEF Within
  <2>9. c \in Persistent => p["id"] \in 1 .. 12
    BY <1>8, <2>4 DEF Persistent
  <2>10. Fits(c, p, x)
    BY <2>1, <2>2, <2>3, <2>6, <2>7, <2>8, <2>9, Zenon DEF Fits
  <2> QED
    BY <2>10, LineOfClass
<1>9. CASE c = "ChText5"
  <2> DEFINE p == Places(0, 0, 0, 0, 0, 8)
  <2>1. LineOf[c] = ChText5 /\ ChText5.separators = 8 /\ ChText5.parse = ChText5.save
    BY <1>9 DEF LineOf, ChText5, Columns
  <2>2. Len(ChText5.save) = 9
    BY DEF ChText5, Columns
  <2>3. IsClass(ChText5.save, ChText5.separators, p)
    BY ChText5Class
  <2>4. /\ p["id"] = 0 /\ p["first"] = 0 /\ p["rest"] = 0
        /\ p["folders"] = 0 /\ p["partial"] = 0 /\ p["flag"] = 8
    BY DEF Places, PlaceNames
  <2>5. Listed(c, x) = 0
    BY <1>9 DEF Listed, Persistent
  <2>6. AsReloaded(c, x) =
          [name |-> x.name, folders |-> <<>>, partial |-> <<>>,
           flag |-> x.flag, unsaved |-> 0]
    BY <1>2, <1>9 DEF AsReloaded, Persistent
  <2> HIDE DEF p
  <2>7. /\ FoldersBehind(p, x, 9) = <<>>
        /\ PartialBehind(p, x, 9) = <<>>
        /\ (p["flag"] \in 1 .. 9 /\ x.flag) = x.flag
    BY <1>2, <2>4 DEF FoldersBehind, PartialBehind
  <2>8. 8 + Listed(c, x) =
          9 - 1 + Within(Len(Rest(x.folders)), p["rest"], 9)
            + Within(Len(x.folders), p["folders"], 9) + Within(Len(x.partial), p["partial"], 9)
    BY <1>2, <2>4, <2>5 DEF Within
  <2>9. c \in Persistent => p["id"] \in 1 .. 9
    BY <1>9, <2>4 DEF Persistent
  <2>10. Fits(c, p, x)
    BY <2>1, <2>2, <2>3, <2>6, <2>7, <2>8, <2>9, Zenon DEF Fits
  <2> QED
    BY <2>10, LineOfClass
<1> QED
  BY <1>1, <1>3, <1>4, <1>5, <1>6, <1>7, <1>8, <1>9

\* What is left out of a file is what has a line break in it.
LEMMA SavedLine ==
  ASSUME NEW c \in DOMAIN LineOf, NEW x \in Item, NEW id
  PROVE  SaveLine(c, id, x) = IF x.name \in BrokenNames THEN <<>> ELSE <<Line(c, id, x)>>
<1> DEFINE l == Len(Line(c, id, x)) - 1
           n == LineOf[c].separators + Listed(c, x)
           broken == x.name \in BrokenNames
<1>1. l = n /\ l \in Int
  BY LinesReadBack DEF ReadsBack
<1>2. SaveLine(c, id, x) =
        IF l + (IF broken THEN 1 ELSE 0) = n THEN <<Line(c, id, x)>> ELSE <<>>
  BY Zenon DEF SaveLine, FinalizeField
<1>3. l + (IF broken THEN 1 ELSE 0) = n <=> ~broken
  <2> HIDE DEF l, n, broken
  <2> QED
    BY <1>1
<1> HIDE DEF l, n
<1> QED
  BY <1>2, <1>3

Kept(c, map) == {i \in SavedKeys(c, map) : map[i].name \notin BrokenNames}

HasFooterLine(c, save) == c \in Persistent /\ save # 0

\* The lines of a text are those of the items with these keys, and a footer.
Writes(text, keys, c, map, save, next) ==
  /\ Lists(keys, Kept(c, map)) /\ Len(keys) \in Nat
  /\ ByRound(c, save) => \A p, q \in 1 .. Len(keys) :
                           p < q => Earlier(DOMAIN map, keys[p], keys[q])
  /\ IsSequence(text) /\ Len(text) = IF HasFooterLine(c, save) THEN Len(keys) + 1 ELSE Len(keys)
  /\ \A j \in 1 .. Len(keys) : text[j] = Line(c, keys[j], map[keys[j]])
  /\ HasFooterLine(c, save) => text[Len(keys) + 1] = <<Footer(next)>>

LEMMA TextWrites ==
  ASSUME NEW c \in DOMAIN LineOf, NEW map, IsItemMap(map), NEW save, NEW next
  PROVE  \E keys : Writes(TextOf(c, map, save, next), keys, c, map, save, next)
<1> DEFINE ids == SelectIDToSave(c, map, save)
           s == [i \in DOMAIN ids |-> SaveLine(c, ids[i], map[ids[i]])]
           flat == FlattenSeq(s)
           foot == SaveFooterLine(c, save, next)
           text == TextOf(c, map, save, next)
           S == SavedKeys(c, map)
<1>1. /\ Lists(ids, S)
      /\ ByRound(c, save) => \A p, q \in 1 .. Len(ids) :
                               p < q => Earlier(DOMAIN map, ids[p], ids[q])
  BY SavedLists
<1>2. text = flat \o foot
  BY DEF TextOf
<1> HIDE DEF ids, text
<1>3. Len(ids) \in Nat /\ DOMAIN ids = 1 .. Len(ids)
  BY <1>1, SequenceShape DEF Lists
<1>4. S \subseteq DOMAIN map /\ \A i \in S : map[i] \in Item
  BY DEF IsItemMap, SavedKeys, Latest
<1>5. ASSUME NEW i \in 1 .. Len(ids)
      PROVE  /\ ids[i] \in S
             /\ s[i] = IF map[ids[i]].name \in BrokenNames THEN <<>>
                       ELSE <<Line(c, ids[i], map[ids[i]])>>
  <2>1. ids[i] \in S
    BY <1>1 DEF Lists
  <2>2. map[ids[i]] \in Item
    BY <1>4, <2>1
  <2>3. s[i] = SaveLine(c, ids[i], map[ids[i]])
    BY <1>3
  <2> HIDE DEF s
  <2> QED
    BY <2>1, <2>2, <2>3, SavedLine
<1>6. IsSequence(s) /\ Len(s) = Len(ids) /\ DOMAIN s = 1 .. Len(ids)
  <2>1. s \in [1 .. Len(ids) -> {s[i] : i \in 1 .. Len(ids)}]
    BY <1>3
  <2>2. DOMAIN s = 1 .. Len(ids)
    BY <1>3
  <2> HIDE DEF s
  <2> QED
    BY <1>3, <2>1, <2>2, FunctionIsSequence
<1> HIDE DEF s, flat
<1>7. \A i \in DOMAIN s : IsSequence(s[i]) /\ Len(s[i]) \in {0, 1}
  <2> SUFFICES ASSUME NEW i \in 1 .. Len(ids) PROVE IsSequence(s[i]) /\ Len(s[i]) \in {0, 1}
    BY <1>6
  <2>1. s[i] = <<>> \/ s[i] = <<Line(c, ids[i], map[ids[i]])>>
    BY <1>5
  <2> QED
    BY <2>1, OneShape, EmptyIsSequence
<1>a. PICK k \in Nat : \E pos \in [1 .. k -> 1 .. Len(s)] :
        /\ Len(flat) = k
        /\ \A j \in 1 .. k : Len(s[pos[j]]) = 1 /\ flat[j] = s[pos[j]][1]
        /\ \A i \in 1 .. Len(s) : Len(s[i]) = 1 => \E j \in 1 .. k : pos[j] = i
        /\ \A i, j \in 1 .. k : i < j => pos[i] < pos[j]
  BY <1>6, <1>7, FlattenOptional DEF flat
<1>8. PICK pos \in [1 .. k -> 1 .. Len(s)] :
        /\ Len(flat) = k
        /\ \A j \in 1 .. k : Len(s[pos[j]]) = 1 /\ flat[j] = s[pos[j]][1]
        /\ \A i \in 1 .. Len(s) : Len(s[i]) = 1 => \E j \in 1 .. k : pos[j] = i
        /\ \A i, j \in 1 .. k : i < j => pos[i] < pos[j]
  BY <1>a
<1>9. \A j \in 1 .. k : pos[j] \in 1 .. Len(ids)
  BY <1>6, <1>8
<1> DEFINE keys == [j \in 1 .. k |-> ids[pos[j]]]
<1>10. IsSequence(keys) /\ Len(keys) = k /\ \A j \in 1 .. k : keys[j] = ids[pos[j]]
  <2>1. keys \in [1 .. k -> {keys[j] : j \in 1 .. k}] /\ \A j \in 1 .. k : keys[j] = ids[pos[j]]
    OBVIOUS
  <2> HIDE DEF keys
  <2> QED
    BY <2>1, FunctionIsSequence
<1> HIDE DEF keys
<1>11. ASSUME NEW j \in 1 .. k
       PROVE  /\ keys[j] \in Kept(c, map)
              /\ flat[j] = Line(c, keys[j], map[keys[j]])
  <2> DEFINE i == pos[j]
  <2>1. i \in 1 .. Len(ids) /\ keys[j] = ids[i] /\ Len(s[i]) = 1 /\ flat[j] = s[i][1]
    BY <1>8, <1>9, <1>10
  <2> HIDE DEF i
  <2>2. s[i] # <<>>
    BY <2>1
  <2>3. /\ ids[i] \in S /\ map[ids[i]].name \notin BrokenNames
        /\ s[i] = <<Line(c, ids[i], map[ids[i]])>>
    BY <1>5, <2>1, <2>2
  <2>4. flat[j] = Line(c, ids[i], map[ids[i]])
    BY <2>1, <2>3, OneShape
  <2> QED
    BY <2>1, <2>3, <2>4 DEF Kept
<1>12. Lists(keys, Kept(c, map))
  <2>1. ASSUME NEW i \in Kept(c, map) PROVE \E j \in 1 .. Len(keys) : keys[j] = i
    <3>1. i \in S /\ map[i].name \notin BrokenNames
      BY DEF Kept
    <3>2. PICK p \in 1 .. Len(ids) : ids[p] = i
      BY <1>1, <3>1 DEF Lists
    <3>3. Len(s[p]) = 1
      BY <1>5, <3>1, <3>2, OneShape
    <3>4. PICK j \in 1 .. k : pos[j] = p
      BY <1>6, <1>8, <3>2, <3>3
    <3> QED
      BY <1>10, <3>2, <3>4
  <2>2. ASSUME NEW p \in 1 .. Len(keys), NEW q \in 1 .. Len(keys), p # q
        PROVE  keys[p] # keys[q]
    <3>1. pos[p] # pos[q] /\ pos[p] \in 1 .. Len(ids) /\ pos[q] \in 1 .. Len(ids)
      <4>1. pos[p] \in 1 .. Len(ids) /\ pos[q] \in 1 .. Len(ids)
        BY <1>9, <1>10, <2>2
      <4>2. p < q \/ q < p
        BY <1>10, <2>2
      <4> QED
        BY <1>3, <1>8, <1>10, <2>2, <4>1, <4>2
    <3> QED
      BY <1>1, <1>10, <2>2, <3>1 DEF Lists
  <2> QED
    BY <1>10, <1>11, <2>1, <2>2 DEF Lists
<1>13. ByRound(c, save) => \A p, q \in 1 .. Len(keys) :
                             p < q => Earlier(DOMAIN map, keys[p], keys[q])
  <2> SUFFICES ASSUME ByRound(c, save), NEW p \in 1 .. Len(keys), NEW q \in 1 .. Len(keys), p < q
               PROVE  Earlier(DOMAIN map, keys[p], keys[q])
    OBVIOUS
  <2>1. pos[p] < pos[q] /\ pos[p] \in 1 .. Len(ids) /\ pos[q] \in 1 .. Len(ids)
    BY <1>8, <1>9, <1>10
  <2>2. keys[p] = ids[pos[p]] /\ keys[q] = ids[pos[q]]
    BY <1>10
  <2> QED
    BY <1>1, <2>1, <2>2
<1>14. IsSequence(flat)
  BY <1>6, <1>7, FlattenIsSequence DEF flat
<1>15. /\ IsSequence(foot)
       /\ HasFooterLine(c, save) => Len(foot) = 1 /\ foot[1] = <<Footer(next)>>
       /\ ~HasFooterLine(c, save) => Len(foot) = 0
  BY OneShape, EmptyIsSequence DEF SaveFooterLine, HasFooterLine
<1> HIDE DEF foot
<1>16. /\ Len(text) = Len(flat) + Len(foot)
       /\ \A i \in 1 .. Len(flat) : text[i] = flat[i]
       /\ \A i \in 1 .. Len(foot) : text[Len(flat) + i] = foot[i]
  BY <1>2, <1>14, <1>15, ConcatPlaces
<1>17. IsSequence(text)
  BY <1>2, <1>14, <1>15, ConcatIsSequence
<1>18. Len(text) = IF HasFooterLine(c, save) THEN Len(keys) + 1 ELSE Len(keys)
  <2>1. Len(flat) = k /\ Len(keys) = k /\ Len(text) = Len(flat) + Len(foot)
    BY <1>8, <1>10, <1>16
  <2>2. CASE HasFooterLine(c, save)
    BY <1>15, <2>1, <2>2
  <2>3. CASE ~HasFooterLine(c, save)
    <3>1. Len(foot) = 0
      BY <1>15, <2>3
    <3>2. Len(text) = k
      BY <2>1, <3>1
    <3> QED
      BY <2>1, <2>3, <3>2
  <2> QED
    BY <2>2, <2>3
<1>19. \A j \in 1 .. Len(keys) : text[j] = Line(c, keys[j], map[keys[j]])
  BY <1>8, <1>10, <1>11, <1>16
<1>20. HasFooterLine(c, save) => text[Len(keys) + 1] = <<Footer(next)>>
  BY <1>8, <1>10, <1>15, <1>16
<1> QED
  BY <1>10, <1>12, <1>13, <1>17, <1>18, <1>19, <1>20 DEF Writes, text

-----------------------------------------------------------------------------
(* The ids go round.                                                       *)

LEMMA OneRound ==
  ASSUME NEW d \in Nat \ {0}, NEW x \in Int
  PROVE  /\ x \in 0 .. d - 1 => x % d = x
         /\ x \in -d .. -1 => x % d = x + d
<1>1. x = d * (x \div d) + (x % d) /\ x \div d \in Int
  OBVIOUS
<1>2. PICK q \in Int : x = d * q + (x % d)
  BY <1>1
<1>3. x % d \in 0 .. d - 1
  OBVIOUS
<1>4. x \in 0 .. d - 1 => x % d = x
  OBVIOUS
<1>5. ASSUME x \in -d .. -1 PROVE x % d = x + d
  <2>1. CASE q >= 0
    <3>1. d * q >= 0
      BY <2>1
    <3> QED
      BY <1>2, <1>3, <1>5, <3>1
  <2>2. CASE q <= -2
    <3>1. d * q <= d * (-2)
      BY <2>2
    <3>2. d * (-2) = -d - d
      OBVIOUS
    <3> QED
      BY <1>2, <1>3, <1>5, <3>1, <3>2
  <2>3. CASE q = -1
    <3>1. d * (-1) = -d
      OBVIOUS
    <3> QED
      BY <1>2, <1>3, <2>3, <3>1
  <2> QED
    BY <2>1, <2>2, <2>3
<1> QED
  BY <1>4, <1>5

\* b is at most n places ahead of a.
Ahead(a, b, n) == b - a \in 1 .. n \/ b - a + LastID \in 1 .. n

LEMMA NearShape ==
  ASSUME NEW i \in 1 .. LastID, NEW next \in 1 .. LastID
  PROVE  Near(i, next) <=> Ahead(i, next, HalfID)
<1> DEFINE d == next - i
<1>1. LastID \in Nat \ {0} /\ HalfID \in Nat \ {0} /\ LastID = 2 * HalfID
  BY TextAssumption
<1>2. d \in Int /\ d \in -LastID .. LastID - 1
  BY <1>1
<1> HIDE DEF d
<1>3. CASE d >= 0
  <2>1. d % LastID = d
    BY <1>1, <1>2, <1>3, OneRound
  <2>2. d + LastID \notin 1 .. HalfID
    BY <1>1, <1>2, <1>3
  <2> QED
    BY <2>1, <2>2 DEF Near, Ahead, d
<1>4. CASE d < 0
  <2>1. d % LastID = d + LastID
    BY <1>1, <1>2, <1>4, OneRound
  <2>2. d \notin 1 .. HalfID
    BY <1>2, <1>4
  <2> QED
    BY <2>1, <2>2 DEF Near, Ahead, d
<1> QED
  BY <1>2, <1>3, <1>4

LEMMA FollowingShape ==
  ASSUME NEW id \in 1 .. LastID
  PROVE  /\ Following(id) = IF id = LastID THEN 1 ELSE id + 1
         /\ Following(id) \in 1 .. LastID /\ Near(id, Following(id))
<1>1. LastID \in Nat \ {0} /\ HalfID \in Nat \ {0} /\ LastID = 2 * HalfID
  BY TextAssumption
<1>2. Following(id) = IF id = LastID THEN 1 ELSE id + 1
  <2>1. CASE id = LastID
    <3>1. id % LastID = 0
      BY <1>1, <2>1
    <3> QED
      BY <2>1, <3>1 DEF Following
  <2>2. CASE id # LastID
    <3>1. id \in 0 .. LastID - 1 /\ id \in Int
      BY <1>1, <2>2
    <3>2. id % LastID = id
      BY <1>1, <3>1, OneRound
    <3> QED
      BY <2>2, <3>2 DEF Following
  <2> QED
    BY <2>1, <2>2
<1>3. Following(id) \in 1 .. LastID
  BY <1>1, <1>2
<1>4. Ahead(id, Following(id), HalfID)
  BY <1>1, <1>2 DEF Ahead
<1> QED
  BY <1>2, <1>3, <1>4, NearShape

\* nextID behind an item is the one that follows it, or stays when it is ahead anyway.
LEMMA AfterItemShape ==
  ASSUME NEW n \in 1 .. LastID, NEW b \in 1 .. LastID
  PROVE  /\ AfterItem(n, b) = IF n > b /\ n <= b + HalfID THEN n ELSE Following(b)
         /\ AfterItem(n, b) \in 1 .. LastID /\ Near(b, AfterItem(n, b))
<1>1. LastID \in Nat \ {0} /\ HalfID \in Nat \ {0} /\ LastID = 2 * HalfID
  BY TextAssumption
<1>2. /\ Following(b) = IF b = LastID THEN 1 ELSE b + 1
      /\ Following(b) \in 1 .. LastID /\ Near(b, Following(b))
  BY FollowingShape
<1>3. CASE n > b + HalfID
  <2>1. b # LastID
    BY <1>1, <1>3
  <2>2. AfterItem(n, b) = b + 1
    BY <1>3 DEF AfterItem
  <2> QED
    BY <1>1, <1>2, <1>3, <2>1, <2>2
<1>4. CASE n > b /\ n <= b + HalfID
  <2>1. MaxOf(b + 1, n) = n
    BY <1>4 DEF MaxOf
  <2>2. n - 1 \in 0 .. LastID - 1 /\ n - 1 \in Int
    BY <1>1
  <2>3. (n - 1) % LastID = n - 1
    BY <1>1, <2>2, OneRound
  <2>4. ~(n > b + HalfID)
    BY <1>1, <1>4
  <2>5. AfterItem(n, b) = n
    BY <2>1, <2>3, <2>4 DEF AfterItem
  <2>6. Near(b, n)
    <3>1. Ahead(b, n, HalfID)
      BY <1>1, <1>4 DEF Ahead
    <3> QED
      BY <3>1, NearShape
  <2> QED
    BY <1>4, <2>5, <2>6
<1>5. CASE n <= b
  <2>1. MaxOf(b + 1, n) = b + 1
    BY <1>5 DEF MaxOf
  <2>2. ~(n > b + HalfID)
    BY <1>1, <1>5
  <2>3. b + 1 - 1 = b
    OBVIOUS
  <2>4. AfterItem(n, b) = Following(b)
    BY <2>1, <2>2, <2>3 DEF AfterItem, Following
  <2> QED
    BY <1>2, <1>5, <2>4
<1> QED
  BY <1>1, <1>3, <1>4, <1>5

\* Two ids that are saved one behind the other are less than half a round apart.
LEMMA EarlierAhead ==
  ASSUME NEW D, D \subseteq 1 .. LastID, NEW next \in 1 .. LastID,
         \A i \in D : Near(i, next), NEW a \in D, NEW b \in D, Earlier(D, a, b)
  PROVE  Ahead(a, b, HalfID - 1)
<1>1. LastID \in Nat \ {0} /\ HalfID \in Nat \ {0} /\ LastID = 2 * HalfID
  BY TextAssumption
<1>2. \A i \in D : i \in 1 .. LastID /\ Ahead(i, next, HalfID)
  BY NearShape
<1>3. CASE ~Spread(D)
  <2>1. a < b
    BY <1>3 DEF Earlier
  <2>2. ~(b >= a + HalfID)
    BY <1>3 DEF Spread
  <2>3. b - a \in 1 .. HalfID - 1
    BY <1>1, <1>2, <2>1, <2>2
  <2> QED
    BY <2>3 DEF Ahead
<1>4. CASE Spread(D)
  <2>1. PICK i \in D, j \in D : j >= i + HalfID
    BY <1>4 DEF Spread
  <2>2. next <= HalfID
    <3>1. /\ i \in 1 .. LastID /\ j \in 1 .. LastID
          /\ Ahead(i, next, HalfID) /\ Ahead(j, next, HalfID)
      BY <1>2
    <3> QED
      BY <1>1, <2>1, <3>1 DEF Ahead
  <2>3. \A k \in D : IF k <= HalfID THEN k < next ELSE k >= next + HalfID
    BY <1>1, <1>2, <2>2 DEF Ahead
  <2>4. /\ a \in 1 .. LastID /\ b \in 1 .. LastID
        /\ IF a <= HalfID THEN a < next ELSE a >= next + HalfID
        /\ IF b <= HalfID THEN b < next ELSE b >= next + HalfID
    BY <1>2, <2>3
  <2>5. (a > HalfID /\ b <= HalfID) \/ (a < b /\ (b <= HalfID \/ a > HalfID))
    BY <1>4 DEF Earlier
  <2> QED
    BY <1>1, <2>2, <2>4, <2>5 DEF Ahead
<1> QED
  BY <1>3, <1>4

LEMMA AfterEarlier ==
  ASSUME NEW a \in 1 .. LastID, NEW b \in 1 .. LastID, Ahead(a, b, HalfID - 1)
  PROVE  /\ Near(a, Following(b))
         /\ AfterItem(Following(a), b) = Following(b)
<1>1. LastID \in Nat \ {0} /\ HalfID \in Nat \ {0} /\ LastID = 2 * HalfID
  BY TextAssumption
<1>2. /\ Following(a) = IF a = LastID THEN 1 ELSE a + 1
      /\ Following(b) = IF b = LastID THEN 1 ELSE b + 1
      /\ Following(a) \in 1 .. LastID /\ Following(b) \in 1 .. LastID
  BY FollowingShape
<1>3. Near(a, Following(b))
  <2>1. Ahead(a, Following(b), HalfID)
    BY <1>1, <1>2 DEF Ahead
  <2> QED
    BY <1>2, <2>1, NearShape
<1>4. ~(Following(a) > b /\ Following(a) <= b + HalfID)
  BY <1>1, <1>2 DEF Ahead
<1> QED
  BY <1>2, <1>3, <1>4, AfterItemShape

LEMMA AfterFirst ==
  ASSUME NEW b \in 1 .. LastID
  PROVE  AfterItem(1, b) = Following(b)
<1>1. 1 \in 1 .. LastID
  BY TextAssumption
<1> QED
  BY <1>1, AfterItemShape

LEMMA AfterFooterShape ==
  ASSUME NEW n \in 1 .. LastID, NEW f \in 1 .. LastID
  PROVE  /\ AfterFooter(n, f) \in {n, f}
         /\ n = 1 => AfterFooter(n, f) = f
         /\ \A l \in 1 .. LastID : Near(l, f) => AfterFooter(Following(l), f) = f
<1>1. LastID \in Nat \ {0} /\ HalfID \in Nat \ {0} /\ LastID = 2 * HalfID
  BY TextAssumption
<1>2. \A m \in 1 .. LastID :
        AfterFooter(m, f) = IF m > f + HalfID THEN f ELSE IF f > m THEN f ELSE m
  BY <1>1 DEF AfterFooter, MaxOf
<1>3. ASSUME NEW l \in 1 .. LastID, Near(l, f) PROVE AfterFooter(Following(l), f) = f
  <2>1. Ahead(l, f, HalfID)
    BY <1>3, NearShape
  <2>2. /\ Following(l) = IF l = LastID THEN 1 ELSE l + 1
        /\ Following(l) \in 1 .. LastID
    BY FollowingShape
  <2> QED
    BY <1>1, <1>2, <2>1, <2>2 DEF Ahead
<1> QED
  BY <1>1, <1>2, <1>3

\* The id that is given next is not in use.
LEMMA NextIsFree ==
  ASSUME NEW i \in 1 .. LastID
  PROVE  ~Near(i, i)
<1>1. LastID \in Nat \ {0} /\ HalfID \in Nat \ {0} /\ LastID = 2 * HalfID
  BY TextAssumption
<1>2. ~Ahead(i, i, HalfID)
  BY <1>1 DEF Ahead
<1> QED
  BY <1>2, NearShape

-----------------------------------------------------------------------------
(* The lines of a list, read one by one.                                   *)

Obj(map, next, save) == [map |-> map, next |-> next, save |-> save]

Again(save) == IF save = 1 THEN 0 ELSE save

\* What an object is behind a line with an item.
Reads(c, map, next, save, id, x, new) ==
  LET y == AsReloaded(c, x)
  IN  /\ c \in Persistent /\ id \in 1 .. LastID =>
           new = Obj(Inserted(map, id, y), AfterItem(next, id), Again(save))
      /\ c = "RecInfoText" => new = Obj(Inserted(map, next, y), next + 1, save)
      /\ c = "ChText5" => new = Obj(Inserted(map, When[x.name], y), next, save)
      /\ c \in {"ChText4", "RecInfo2Text"} =>
           new = Obj(Inserted(map, KeyBehind(map), y), next, save)

LEMMA ItemLineRead ==
  ASSUME NEW c \in DOMAIN LineOf, NEW x \in Item, NEW id, NEW map, NEW next, NEW save
  PROVE  Reads(c, map, next, save, id, x,
               ParseLine(c, Obj(map, next, save), Line(c, id, x)))
<1> DEFINE o == Obj(map, next, save)
           line == Line(c, id, x)
           r == ParsedLine(c, line)
           y == AsReloaded(c, x)
           new == ParseLine(c, o, line)
           footer == line[1].f = "NextID"
           a1 == [o EXCEPT !.next = AfterFooter(@, line[1].v), !.save = 2]
           a2 == [o EXCEPT !.save = Seen(o)]
           a3 == [map |-> Inserted(o.map, r.id, ItemOf(r)), next |-> AfterItem(o.next, r.id),
                  save |-> Seen(o)]
           a4 == [o EXCEPT !.map = Inserted(@, o.next, ItemOf(r)), !.next = @ + 1]
           a5 == [o EXCEPT !.map = Inserted(@, When[ItemOf(r).name], ItemOf(r))]
           a6 == [o EXCEPT !.map = Inserted(@, KeyBehind(@), ItemOf(r))]
<1>1. /\ ItemOf(r) = y /\ (c \in Persistent => r.id = id) /\ ~footer
  BY LinesReadBack DEF ReadsBack
<1>2. new = CASE c \in Persistent /\ footer -> a1
              [] c \in Persistent /\ ~footer /\ r.id \notin 1 .. LastID -> a2
              [] c \in Persistent /\ ~footer /\ r.id \in 1 .. LastID -> a3
              [] c = "RecInfoText" -> a4
              [] c = "ChText5" -> a5
              [] OTHER -> a6
  BY Zenon DEF ParseLine
<1>3. o.map = map /\ o.next = next /\ o.save = save /\ Seen(o) = Again(save)
  BY DEF Obj, Seen, Again
<1>4. a3 = Obj(Inserted(map, r.id, y), AfterItem(next, r.id), Again(save))
  BY <1>1, <1>3, Zenon DEF Obj
<1>5. a4 = Obj(Inserted(map, next, y), next + 1, save)
  <2> DEFINE m == Inserted(map, next, y)
             n == next + 1
             b == [o EXCEPT !.map = m]
  <2>1. b = [map |-> m, next |-> next, save |-> save]
    BY <1>3 DEF Obj
  <2>2. a4 = [b EXCEPT !.next = n]
    BY <1>1, <1>3 DEF Obj
  <2> HIDE DEF b, m, n, a4
  <2>3. [b EXCEPT !.next = n] = [map |-> m, next |-> n, save |-> save]
    BY <2>1
  <2> QED
    BY <2>2, <2>3 DEF Obj, m, n
<1>6. /\ y.name = x.name
      /\ a5 = Obj(Inserted(map, When[y.name], y), next, save)
      /\ a6 = Obj(Inserted(map, KeyBehind(map), y), next, save)
  BY <1>1, <1>3 DEF Obj, AsReloaded
<1> HIDE DEF a1, a2, a3, a4, a5, a6, footer, o, line, r, new
<1>7. c \in Persistent /\ id \in 1 .. LastID => new = a3
  <2>1. c \in Persistent => c # "RecInfoText" /\ c # "ChText5"
    BY DEF Persistent
  <2> QED
    BY <1>1, <1>2, <2>1
<1>8. c = "RecInfoText" => new = a4
  BY <1>1, <1>2 DEF Persistent
<1>9. c = "ChText5" => new = a5
  BY <1>1, <1>2 DEF Persistent
<1>10. c \in {"ChText4", "RecInfo2Text"} => new = a6
  BY <1>1, <1>2 DEF Persistent
<1> HIDE DEF y
<1>11. c \in Persistent /\ id \in 1 .. LastID =>
         new = Obj(Inserted(map, id, y), AfterItem(next, id), Again(save))
  BY <1>1, <1>4, <1>7
<1> QED
  BY <1>5, <1>6, <1>8, <1>9, <1>10, <1>11, Zenon DEF Reads, new, o, line, y

LEMMA FooterRead ==
  ASSUME NEW c \in Persistent, NEW f, NEW map, NEW next, NEW save
  PROVE  ParseLine(c, Obj(map, next, save), <<Footer(f)>>) = Obj(map, AfterFooter(next, f), 2)
<1> DEFINE o == Obj(map, next, save)
           line == <<Footer(f)>>
           r == ParsedLine(c, line)
           new == ParseLine(c, o, line)
           footer == line[1].f = "NextID"
           a1 == [o EXCEPT !.next = AfterFooter(@, line[1].v), !.save = 2]
           a2 == [o EXCEPT !.save = Seen(o)]
           a3 == [map |-> Inserted(o.map, r.id, ItemOf(r)), next |-> AfterItem(o.next, r.id),
                  save |-> Seen(o)]
           a4 == [o EXCEPT !.map = Inserted(@, o.next, ItemOf(r)), !.next = @ + 1]
           a5 == [o EXCEPT !.map = Inserted(@, When[ItemOf(r).name], ItemOf(r))]
           a6 == [o EXCEPT !.map = Inserted(@, KeyBehind(@), ItemOf(r))]
<1>1. footer /\ line[1].v = f
  BY DEF Footer, Token
<1>2. new = CASE c \in Persistent /\ footer -> a1
              [] c \in Persistent /\ ~footer /\ r.id \notin 1 .. LastID -> a2
              [] c \in Persistent /\ ~footer /\ r.id \in 1 .. LastID -> a3
              [] c = "RecInfoText" -> a4
              [] c = "ChText5" -> a5
              [] OTHER -> a6
  BY Zenon DEF ParseLine
<1>3. o.next = next
  BY DEF Obj
<1>4. a1 = Obj(map, AfterFooter(next, f), 2)
  <2> DEFINE n == AfterFooter(next, f)
             b == [o EXCEPT !.next = n]
  <2>1. b = [map |-> map, next |-> n, save |-> save]
    BY DEF Obj
  <2>2. a1 = [b EXCEPT !.save = 2]
    BY <1>1, <1>3 DEF Obj
  <2> HIDE DEF b, n, a1
  <2>3. [b EXCEPT !.save = 2] = [map |-> map, next |-> n, save |-> 2]
    BY <2>1
  <2> QED
    BY <2>2, <2>3 DEF Obj, n
<1> HIDE DEF a1, a2, a3, a4, a5, a6, footer, o, line, r, new
<1>5. c \in Persistent /\ c # "RecInfoText" /\ c # "ChText5"
  BY DEF Persistent
<1>6. new = a1
  BY <1>1, <1>2, <1>5
<1> QED
  BY <1>4, <1>6 DEF new, o, line

\* The maps that reading the items with these keys makes: under the keys, and numbered.
Held(c, map, keys, m) == [i \in {keys[j] : j \in 1 .. m} |-> AsReloaded(c, map[i])]

Numbered(c, map, keys, base, m) ==
  [i \in base + 1 .. base + m |-> AsReloaded(c, map[keys[i - base]])]

\* The first m lines are those of the items with the first m keys.
ItemLines(lines, m, keys, c, map) ==
  m \in Nat /\ m <= Len(keys) /\ \A j \in 1 .. m : lines[j] = Line(c, keys[j], map[keys[j]])

LEMMA HeldStep ==
  ASSUME NEW c, NEW map, NEW keys, NEW S, Lists(keys, S), NEW m \in Nat,
         m + 1 <= Len(keys)
  PROVE  Inserted(Held(c, map, keys, m), keys[m + 1], AsReloaded(c, map[keys[m + 1]]))
           = Held(c, map, keys, m + 1)
<1> DEFINE k == m + 1
           b == keys[k]
           y == AsReloaded(c, map[b])
           D == {keys[j] : j \in 1 .. m}
           E == {keys[j] : j \in 1 .. m + 1}
           old == Held(c, map, keys, m)
<1>1. Len(keys) \in Nat
  BY SequenceShape DEF Lists
<1>2. k \in 1 .. Len(keys) /\ k \notin 1 .. m
  BY <1>1
<1>3. b \notin D
  <2>1. \A j \in 1 .. m : j \in 1 .. Len(keys) /\ j # k
    BY <1>1
  <2> HIDE DEF k
  <2>2. \A j \in 1 .. m : keys[j] # keys[k]
    BY <1>2, <2>1 DEF Lists
  <2> QED
    BY <2>2
<1>4. E = D \cup {b}
  <2>1. 1 .. m + 1 = 1 .. m \cup {k}
    OBVIOUS
  <2> HIDE DEF k
  <2> QED
    BY <2>1
<1>5. old = [i \in D |-> AsReloaded(c, map[i])]
  BY DEF Held
<1>6. DOMAIN old = D /\ \A i \in D : old[i] = AsReloaded(c, map[i])
  BY <1>5
<1>7. Inserted(old, b, y) = [i \in D \cup {b} |-> IF i = b THEN y ELSE old[i]]
  <2> HIDE DEF D, b, y, old
  <2> QED
    BY <1>3, <1>6 DEF Inserted, With
<1>8. [i \in D \cup {b} |-> IF i = b THEN y ELSE old[i]]
        = [i \in E |-> AsReloaded(c, map[i])]
  <2> HIDE DEF D, E, b, old
  <2>1. \A i \in E : (IF i = b THEN y ELSE old[i]) = AsReloaded(c, map[i])
    BY <1>4, <1>6
  <2> QED
    BY <1>4, <2>1
<1> QED
  BY <1>7, <1>8 DEF Held

LEMMA NumberedStep ==
  ASSUME NEW c, NEW map, NEW keys, NEW base \in Int, NEW m \in Nat
  PROVE  Inserted(Numbered(c, map, keys, base, m), base + m + 1, AsReloaded(c, map[keys[m + 1]]))
           = Numbered(c, map, keys, base, m + 1)
<1> DEFINE b == base + m + 1
           y == AsReloaded(c, map[keys[m + 1]])
           D == base + 1 .. base + m
           E == base + 1 .. base + (m + 1)
           old == Numbered(c, map, keys, base, m)
           G(i) == AsReloaded(c, map[keys[i - base]])
<1>1. b \notin D /\ E = D \cup {b} /\ b - base = m + 1
  OBVIOUS
<1>2. old = [i \in D |-> G(i)]
  BY DEF Numbered
<1>3. y = G(b)
  BY <1>1
<1> HIDE DEF G, y, b, D, E
<1>4. DOMAIN old = D /\ \A i \in D : old[i] = G(i)
  BY <1>2
<1> HIDE DEF old
<1>5. Inserted(old, b, y) = [i \in D \cup {b} |-> IF i = b THEN y ELSE old[i]]
  BY <1>1, <1>4 DEF Inserted, With
<1>6. \A i \in E : (IF i = b THEN y ELSE old[i]) = G(i)
  BY <1>1, <1>3, <1>4
<1>7. [i \in D \cup {b} |-> IF i = b THEN y ELSE old[i]] = [i \in E |-> G(i)]
  BY <1>1, <1>6
<1> QED
  BY <1>5, <1>7 DEF Numbered, G, old, b, y, E

LEMMA NumberedBehind ==
  ASSUME NEW c, NEW map, NEW keys, NEW m \in Nat
  PROVE  KeyBehind(Numbered(c, map, keys, 0, m)) = m + 1
<1> DEFINE n == Numbered(c, map, keys, 0, m)
<1>1. DOMAIN n = 1 .. m
  BY DEF Numbered
<1> HIDE DEF n
<1>2. CASE m = 0
  <2>1. n = <<>>
    <3>1. n = [i \in 1 .. 0 |-> n[i]]
      BY <1>1, <1>2 DEF n, Numbered
    <3> QED
      BY <3>1
  <2> QED
    BY <1>2, <2>1 DEF KeyBehind, n
<1>3. CASE m # 0
  <2>1. n # <<>>
    <3>1. 1 \in DOMAIN n
      BY <1>1, <1>3
    <3> QED
      BY <3>1
  <2>2. m \in DOMAIN n /\ \A j \in DOMAIN n : j <= m
    BY <1>1, <1>3
  <2>3. \A k \in DOMAIN n : (\A j \in DOMAIN n : j <= k) => k = m
    BY <1>1, <2>2
  <2>4. LastKey(n) = m
    BY <2>2, <2>3 DEF LastKey
  <2> QED
    BY <2>1, <2>4 DEF KeyBehind, n
<1> QED
  BY <1>2, <1>3

\* The keys are saved in the order in which they were given out, and next is ahead of all.
Ordered(keys, map, next) ==
  /\ next \in 1 .. LastID /\ \A i \in DOMAIN map : Near(i, next)
  /\ \A p, q \in 1 .. Len(keys) : p < q => Earlier(DOMAIN map, keys[p], keys[q])

\* Where an object that reads ids is behind the first m of them.
IsBehind(o, c, map, keys, m, first, save, next) ==
  \E n \in 1 .. LastID :
    /\ o = Obj(Held(c, map, keys, m), n, Again(save))
    /\ Ordered(keys, map, next) =>
         /\ \A i \in 1 .. m : Near(keys[i], n)
         /\ first = 1 => n = IF m = 0 THEN 1 ELSE Following(keys[m])

LEMMA HeldNothing ==
  ASSUME NEW c, NEW map, NEW keys
  PROVE  Held(c, map, keys, 0) = <<>>
<1> DEFINE h == Held(c, map, keys, 0)
           D == {keys[j] : j \in 1 .. 0}
<1>1. D = {}
  OBVIOUS
<1>2. h = [i \in D |-> AsReloaded(c, map[i])]
  BY DEF Held
<1> HIDE DEF h, D
<1>3. h = [i \in {} |-> AsReloaded(c, map[i])]
  BY <1>1, <1>2
<1>4. h = <<>>
  BY <1>3
<1> QED
  BY <1>4 DEF h

LEMMA NumberedNothing ==
  ASSUME NEW c, NEW map, NEW keys, NEW base \in Int
  PROVE  Numbered(c, map, keys, base, 0) = <<>>
<1> DEFINE h == Numbered(c, map, keys, base, 0)
           D == base + 1 .. base + 0
           G(i) == AsReloaded(c, map[keys[i - base]])
<1>1. D = {}
  OBVIOUS
<1>2. h = [i \in D |-> G(i)]
  BY DEF Numbered
<1> HIDE DEF h, D, G
<1>3. h = <<>>
  BY <1>1, <1>2
<1> QED
  BY <1>3 DEF h

\* One more item of a list with ids.
LEMMA BehindOneMore ==
  ASSUME NEW c \in Persistent, NEW map, IsItemMap(map), DOMAIN map \subseteq 1 .. LastID,
         NEW keys, NEW S, Lists(keys, S), S \subseteq DOMAIN map,
         NEW first, NEW save, NEW next, NEW o, NEW m \in Nat, m + 1 <= Len(keys),
         IsBehind(o, c, map, keys, m, first, save, next)
  PROVE  IsBehind(ParseLine(c, o, Line(c, keys[m + 1], map[keys[m + 1]])),
                  c, map, keys, m + 1, first, save, next)
<1> DEFINE k == m + 1
           b == keys[k]
           x == map[b]
           s == Again(save)
           old == Held(c, map, keys, m)
           new == Held(c, map, keys, k)
<1>1. PICK n \in 1 .. LastID :
        /\ o = Obj(old, n, s)
        /\ Ordered(keys, map, next) =>
             /\ \A i \in 1 .. m : Near(keys[i], n)
             /\ first = 1 => n = IF m = 0 THEN 1 ELSE Following(keys[m])
  BY DEF IsBehind
<1>2. Len(keys) \in Nat /\ k \in 1 .. Len(keys) /\ k # 0
  BY SequenceShape DEF Lists
<1>3. \A i \in 1 .. Len(keys) : keys[i] \in DOMAIN map /\ keys[i] \in 1 .. LastID
  BY DEF Lists
<1>4. Inserted(old, b, AsReloaded(c, x)) = new
  BY <1>2, HeldStep
<1> HIDE DEF k, old, new
<1>5. b \in 1 .. LastID /\ x \in Item
  BY <1>2, <1>3 DEF IsItemMap
<1>6. c \in DOMAIN LineOf
  BY DEF Persistent, LineOf
<1> HIDE DEF b, x, s
<1>7. ParseLine(c, Obj(old, n, s), Line(c, b, x)) =
        Obj(Inserted(old, b, AsReloaded(c, x)), AfterItem(n, b), Again(s))
  <2>1. Reads(c, old, n, s, b, x, ParseLine(c, Obj(old, n, s), Line(c, b, x)))
    BY <1>5, <1>6, ItemLineRead
  <2> QED
    BY <1>5, <2>1 DEF Reads
<1>8. Again(s) = s
  BY DEF Again, s
<1> DEFINE n2 == AfterItem(n, b)
<1>9. /\ n2 = IF n > b /\ n <= b + HalfID THEN n ELSE Following(b)
      /\ n2 \in 1 .. LastID /\ Near(b, n2)
  BY <1>5, AfterItemShape
<1>10. ASSUME Ordered(keys, map, next), NEW i \in 1 .. m
       PROVE  keys[i] \in 1 .. LastID /\ Ahead(keys[i], b, HalfID - 1)
  <2>1. i \in 1 .. Len(keys) /\ i < k
    BY <1>2 DEF k
  <2>2. Earlier(DOMAIN map, keys[i], keys[k])
    BY <1>2, <1>10, <2>1 DEF Ordered
  <2>3. keys[i] \in DOMAIN map /\ b \in DOMAIN map /\ keys[i] \in 1 .. LastID
    BY <1>2, <1>3, <2>1 DEF b
  <2>4. next \in 1 .. LastID /\ \A j \in DOMAIN map : Near(j, next)
    BY <1>10 DEF Ordered
  <2>5. Earlier(DOMAIN map, keys[i], b)
    BY <2>2 DEF b
  <2> QED
    BY <2>3, <2>4, <2>5, EarlierAhead
<1>11. ASSUME Ordered(keys, map, next), NEW i \in 1 .. k
       PROVE  Near(keys[i], n2)
  <2>1. CASE i = k
    BY <1>9, <2>1 DEF b
  <2>2. CASE i # k
    <3>1. i \in 1 .. m
      BY <2>2 DEF k
    <3>2. Near(keys[i], n)
      BY <1>1, <1>11, <3>1
    <3>3. Near(keys[i], Following(b))
      BY <1>5, <1>10, <1>11, <3>1, AfterEarlier
    <3> QED
      BY <1>9, <3>2, <3>3
  <2> QED
    BY <2>1, <2>2
<1>12. ASSUME Ordered(keys, map, next), first = 1
       PROVE  n2 = Following(keys[k])
  <2>1. CASE m = 0
    <3>1. n = 1
      BY <1>1, <1>12, <2>1
    <3> QED
      BY <1>5, <3>1, AfterFirst DEF b
  <2>2. CASE m # 0
    <3>1. n = Following(keys[m])
      BY <1>1, <1>12, <2>2
    <3>2. m \in 1 .. m
      BY <2>2
    <3> QED
      BY <1>5, <1>10, <1>12, <3>1, <3>2, AfterEarlier DEF b
  <2> QED
    BY <2>1, <2>2
<1>13. ParseLine(c, o, Line(c, b, x)) = Obj(new, n2, s)
  BY <1>1, <1>4, <1>7, <1>8
<1> HIDE DEF n2
<1>14. IsBehind(Obj(new, n2, s), c, map, keys, k, first, save, next)
  BY <1>2, <1>9, <1>11, <1>12 DEF IsBehind, new, s
<1> QED
  BY <1>13, <1>14 DEF k, b, x

\* What the items of a list without ids become, behind the first m of them.
Counting(c, map, keys, m, first, save) ==
  CASE c = "RecInfoText" -> Obj(Numbered(c, map, keys, first - 1, m), first + m, save)
    [] c = "ChText5" -> Obj(Held(c, map, keys, m), first, save)
    [] OTHER -> Obj(Numbered(c, map, keys, 0, m), first, save)

\* CParseChText5 has its entries under their network.
ByNetwork(c, map) == c = "ChText5" => \A i \in DOMAIN map : i = When[map[i].name]

\* One more item of a list without ids.
LEMMA CountingOneMore ==
  ASSUME NEW c \in DOMAIN LineOf \ Persistent, NEW map, IsItemMap(map), ByNetwork(c, map),
         NEW keys, NEW S, Lists(keys, S), S \subseteq DOMAIN map,
         NEW first \in Nat, NEW save, NEW m \in Nat, m + 1 <= Len(keys)
  PROVE  ParseLine(c, Counting(c, map, keys, m, first, save),
                   Line(c, keys[m + 1], map[keys[m + 1]]))
           = Counting(c, map, keys, m + 1, first, save)
<1> DEFINE k == m + 1
           b == keys[k]
           x == map[b]
           y == AsReloaded(c, x)
           old == Counting(c, map, keys, m, first, save)
           new == Counting(c, map, keys, k, first, save)
<1>1. c \in {"RecInfoText", "RecInfo2Text", "ChText4", "ChText5"}
  BY DEF LineOf, Persistent
<1>2. Len(keys) \in Nat /\ k \in 1 .. Len(keys)
  BY SequenceShape DEF Lists
<1> HIDE DEF k
<1>3. b \in DOMAIN map /\ x \in Item
  BY <1>2 DEF Lists, IsItemMap
<1> HIDE DEF b, x, y, old, new
<1>4. CASE c = "RecInfoText"
  <2> DEFINE n == Numbered(c, map, keys, first - 1, m)
             f == first + m
  <2>1. old = Obj(n, f, save)
    BY <1>4 DEF old, Counting
  <2>2. new = Obj(Numbered(c, map, keys, first - 1, k), first + k, save)
    BY <1>4 DEF new, Counting
  <2>3. first - 1 \in Int /\ first - 1 + m + 1 = f /\ f + 1 = first + k
    BY DEF k
  <2>4. Inserted(n, first - 1 + m + 1, AsReloaded(c, map[keys[m + 1]])) =
          Numbered(c, map, keys, first - 1, m + 1)
    BY <2>3, NumberedStep
  <2>5. Inserted(n, f, y) = Numbered(c, map, keys, first - 1, k)
    <3> HIDE DEF n, f
    <3> QED
      BY <2>3, <2>4 DEF y, x, b, k
  <2> HIDE DEF n, f
  <2>6. Reads(c, n, f, save, b, x, ParseLine(c, Obj(n, f, save), Line(c, b, x)))
    BY <1>3, ItemLineRead
  <2>7. ParseLine(c, old, Line(c, b, x)) = Obj(Inserted(n, f, y), f + 1, save)
    BY <1>4, <2>1, <2>6 DEF Reads, y
  <2>8. ParseLine(c, old, Line(c, b, x)) = new
    BY <2>2, <2>3, <2>5, <2>7
  <2> QED
    BY <2>8 DEF old, new, b, x, k
<1>5. CASE c \in {"ChText4", "RecInfo2Text"}
  <2> DEFINE n == Numbered(c, map, keys, 0, m)
  <2>1. old = Obj(n, first, save)
    BY <1>5 DEF old, Counting
  <2>2. new = Obj(Numbered(c, map, keys, 0, k), first, save)
    BY <1>5 DEF new, Counting
  <2>3. 0 \in Int /\ 0 + m + 1 = k
    BY DEF k
  <2>4. Inserted(n, 0 + m + 1, AsReloaded(c, map[keys[m + 1]])) =
          Numbered(c, map, keys, 0, m + 1)
    BY <2>3, NumberedStep
  <2>5. KeyBehind(n) = k
    BY NumberedBehind DEF k
  <2>9. Inserted(n, k, y) = Numbered(c, map, keys, 0, k)
    <3> HIDE DEF n
    <3> QED
      BY <2>3, <2>4 DEF y, x, b, k
  <2> HIDE DEF n
  <2>6. Reads(c, n, first, save, b, x, ParseLine(c, Obj(n, first, save), Line(c, b, x)))
    BY <1>3, ItemLineRead
  <2>7. ParseLine(c, old, Line(c, b, x)) = Obj(Inserted(n, KeyBehind(n), y), first, save)
    BY <1>5, <2>1, <2>6 DEF Reads, y
  <2>8. ParseLine(c, old, Line(c, b, x)) = new
    BY <2>2, <2>5, <2>7, <2>9
  <2> QED
    BY <2>8 DEF old, new, b, x, k
<1>6. CASE c = "ChText5"
  <2> DEFINE n == Held(c, map, keys, m)
  <2>1. old = Obj(n, first, save)
    BY <1>6 DEF old, Counting
  <2>2. new = Obj(Held(c, map, keys, k), first, save)
    BY <1>6 DEF new, Counting
  <2>4. Inserted(n, keys[m + 1], AsReloaded(c, map[keys[m + 1]])) = Held(c, map, keys, m + 1)
    BY HeldStep
  <2>5. Inserted(n, b, y) = Held(c, map, keys, k)
    <3> HIDE DEF n
    <3> QED
      BY <2>4 DEF y, x, b, k
  <2>3. When[x.name] = b
    BY <1>3, <1>6 DEF ByNetwork, x
  <2> HIDE DEF n
  <2>6. Reads(c, n, first, save, b, x, ParseLine(c, Obj(n, first, save), Line(c, b, x)))
    BY <1>3, ItemLineRead
  <2>7. ParseLine(c, old, Line(c, b, x)) = Obj(Inserted(n, b, y), first, save)
    BY <1>6, <2>1, <2>3, <2>6 DEF Reads, y
  <2>8. ParseLine(c, old, Line(c, b, x)) = new
    BY <2>2, <2>5, <2>7
  <2> QED
    BY <2>8 DEF old, new, b, x, k
<1> QED
  BY <1>1, <1>4, <1>5, <1>6

-----------------------------------------------------------------------------
(* What reading a file puts into the map.                                  *)

ItemFields == {"name", "folders", "partial", "flag", "unsaved"}

\* A map of items.
IsMap(map) == IsFiniteSet(DOMAIN map) /\ \A k \in DOMAIN map : DOMAIN map[k] = ItemFields

\* What ParseLine and ParseText make and take.
IsObject(o) == o = [map |-> o.map, next |-> o.next, save |-> o.save] /\ IsMap(o.map)

LEMMA EmptyIsMap == IsMap(<<>>)
<1>1. DOMAIN <<>> = {}
  OBVIOUS
<1> QED
  BY <1>1, FS_EmptySet DEF IsMap

LEMMA WithIsMap ==
  ASSUME NEW map, IsMap(map), NEW key, NEW x, DOMAIN x = ItemFields
  PROVE  IsMap(With(map, key, x)) /\ IsMap(Inserted(map, key, x))
<1>1. DOMAIN With(map, key, x) = DOMAIN map \cup {key}
  BY DEF With
<1>2. IsFiniteSet(DOMAIN map \cup {key})
  BY FS_AddElement DEF IsMap
<1>3. \A k \in DOMAIN map \cup {key} : With(map, key, x)[k] = IF k = key THEN x ELSE map[k]
  BY DEF With
<1>4. IsMap(With(map, key, x))
  BY <1>1, <1>2, <1>3 DEF IsMap
<1> QED
  BY <1>4 DEF Inserted

LEMMA WithoutIsMap ==
  ASSUME NEW map, IsMap(map), NEW keys
  PROVE  IsMap(Without(map, keys))
<1>1. DOMAIN Without(map, keys) = DOMAIN map \ keys
  BY DEF Without
<1>2. IsFiniteSet(DOMAIN map \ keys)
  BY FS_Subset DEF IsMap
<1>3. \A k \in DOMAIN map \ keys : Without(map, keys)[k] = map[k]
  BY DEF Without
<1> QED
  BY <1>1, <1>2, <1>3 DEF IsMap

\* One line adds an item or none; the footer of a list of reservations adds none.
LEMMA ParseLineObject ==
  ASSUME NEW c, NEW o, IsObject(o), NEW line
  PROVE  /\ IsObject(ParseLine(c, o, line))
         /\ c = "ReserveText" /\ line[1].f = "NextID" => ParseLine(c, o, line).map = o.map
<1> DEFINE r == ParsedLine(c, line)
           x == ItemOf(r)
<1>0. IsMap(o.map) /\ o = [map |-> o.map, next |-> o.next, save |-> o.save]
  BY DEF IsObject
<1>1. \A key : IsMap(Inserted(o.map, key, x))
  <2>1. DOMAIN x = ItemFields
    BY DEF ItemOf, ItemFields
  <2> HIDE DEF x
  <2> QED
    BY <1>0, <2>1, WithIsMap
<1>2. ASSUME NEW map, NEW next, NEW save, IsMap(map)
      PROVE  IsObject([map |-> map, next |-> next, save |-> save])
  BY <1>2 DEF IsObject
<1>3. CASE c \in Persistent /\ line[1].f = "NextID"
  <2>1. ParseLine(c, o, line) = [o EXCEPT !.next = AfterFooter(@, line[1].v), !.save = 2]
    BY <1>3 DEF ParseLine, Persistent
  <2>2. ParseLine(c, o, line) =
          [map |-> o.map, next |-> AfterFooter(o.next, line[1].v), save |-> 2]
    BY <1>0, <2>1
  <2> QED
    BY <1>0, <1>2, <2>2
<1>4. CASE c \in Persistent /\ line[1].f # "NextID" /\ r.id \notin 1 .. LastID
  <2>1. ParseLine(c, o, line) = [o EXCEPT !.save = Seen(o)]
    BY <1>4 DEF ParseLine, Persistent
  <2>2. ParseLine(c, o, line) = [map |-> o.map, next |-> o.next, save |-> Seen(o)]
    BY <1>0, <2>1
  <2> QED
    BY <1>0, <1>2, <1>4, <2>2
<1>5. CASE c \in Persistent /\ line[1].f # "NextID" /\ r.id \in 1 .. LastID
  <2>1. ParseLine(c, o, line) =
          [map |-> Inserted(o.map, r.id, x), next |-> AfterItem(o.next, r.id),
           save |-> Seen(o)]
    BY <1>5 DEF ParseLine, Persistent
  <2> QED
    BY <1>1, <1>2, <1>5, <2>1
<1>6. CASE c = "RecInfoText"
  <2>1. ParseLine(c, o, line) = [o EXCEPT !.map = Inserted(@, o.next, x), !.next = @ + 1]
    BY <1>6 DEF ParseLine, Persistent
  <2>2. ParseLine(c, o, line) =
          [map |-> Inserted(o.map, o.next, x), next |-> o.next + 1, save |-> o.save]
    BY <1>0, <2>1
  <2> QED
    BY <1>1, <1>2, <1>6, <2>2
<1>7. CASE c = "ChText5"
  <2>1. ParseLine(c, o, line) = [o EXCEPT !.map = Inserted(@, When[x.name], x)]
    BY <1>7 DEF ParseLine, Persistent
  <2>2. ParseLine(c, o, line) =
          [map |-> Inserted(o.map, When[x.name], x), next |-> o.next, save |-> o.save]
    BY <1>0, <2>1
  <2> QED
    BY <1>1, <1>2, <1>7, <2>2
<1>8. CASE c \notin Persistent /\ c # "RecInfoText" /\ c # "ChText5"
  <2>1. ParseLine(c, o, line) = [o EXCEPT !.map = Inserted(@, KeyBehind(@), x)]
    BY <1>8 DEF ParseLine, Persistent
  <2>2. ParseLine(c, o, line) =
          [map |-> Inserted(o.map, KeyBehind(o.map), x), next |-> o.next, save |-> o.save]
    BY <1>0, <2>1
  <2> QED
    BY <1>1, <1>2, <1>8, <2>2 DEF Persistent
<1> QED
  BY <1>3, <1>4, <1>5, <1>6, <1>7, <1>8

\* r[n] is the object behind the first n lines, up to n = m.
IsReading(c, start, lines, m, r) ==
  r = [n \in 0 .. m |-> IF n = 0 THEN start ELSE ParseLine(c, r[n - 1], lines[n])]

LEMMA ReadingExists ==
  ASSUME NEW c, NEW start, NEW lines, NEW n \in Nat
  PROVE  \E r : IsReading(c, start, lines, n, r)
<1> DEFINE B == {m \in Nat : ~\E r : IsReading(c, start, lines, m, r)}
<1> SUFFICES ASSUME B # {} PROVE FALSE
  OBVIOUS
<1>1. B \subseteq Nat
  OBVIOUS
<1>2. PICK m \in B : \A k \in B : m <= k
  BY <1>1, Smallest
<1>3. CASE m = 0
  <2> DEFINE r == [k \in 0 .. 0 |-> start]
  <2>1. IsReading(c, start, lines, 0, r)
    BY DEF IsReading
  <2> QED
    BY <1>1, <1>3, <2>1
<1>4. CASE m > 0
  <2>1. m - 1 \in Nat /\ m - 1 \notin B
    BY <1>2, <1>4
  <2>2. PICK r : IsReading(c, start, lines, m - 1, r)
    BY <2>1
  <2> DEFINE t == [k \in 0 .. m |-> IF k = m THEN ParseLine(c, r[m - 1], lines[m]) ELSE r[k]]
  <2>3. \A k \in 0 .. m - 1 :
          r[k] = IF k = 0 THEN start ELSE ParseLine(c, r[k - 1], lines[k])
    BY <2>2 DEF IsReading
  <2>4. \A k \in 0 .. m : t[k] = IF k = 0 THEN start ELSE ParseLine(c, t[k - 1], lines[k])
    BY <1>1, <1>4, <2>3
  <2>5. IsReading(c, start, lines, m, t)
    BY <2>4 DEF IsReading
  <2> QED
    BY <1>1, <2>5
<1> QED
  BY <1>1, <1>3, <1>4

\* Reading makes a map of items, and an empty one of a list of reservations that is
\* nothing but footers.
LEMMA ParsedObject ==
  ASSUME NEW c, NEW o, IsObject(o), NEW lines, IsSequence(lines)
  PROVE  /\ IsObject(Parsed(c, o, lines))
         /\ c = "ReserveText" /\ (\A i \in DOMAIN lines : lines[i][1].f = "NextID")
              => Parsed(c, o, lines).map = <<>>
<1> DEFINE start == [map |-> <<>>, next |-> o.next,
                     save |-> IF c \in Persistent THEN Seen(o) ELSE o.save]
           r == CHOOSE t : IsReading(c, start, lines, Len(lines), t)
           Footers == c = "ReserveText" /\ \A i \in DOMAIN lines : lines[i][1].f = "NextID"
           Right(p) == IsObject(p) /\ (Footers => p.map = <<>>)
           B == {n \in 0 .. Len(lines) : ~Right(r[n])}
<1>1. Len(lines) \in Nat /\ DOMAIN lines = 1 .. Len(lines)
  BY SequenceShape
<1>2. IsReading(c, start, lines, Len(lines), r)
  <2> HIDE DEF start
  <2> QED
    BY <1>1, ReadingExists, Zenon
<1>3. \A n \in 0 .. Len(lines) :
        r[n] = IF n = 0 THEN start ELSE ParseLine(c, r[n - 1], lines[n])
  <2> HIDE DEF r, start
  <2> QED
    BY <1>2 DEF IsReading
<1>4. Right(start)
  BY EmptyIsMap DEF IsObject
<1>5. B = {}
  <2> SUFFICES ASSUME B # {} PROVE FALSE
    OBVIOUS
  <2> HIDE DEF r, start
  <2>1. B \subseteq Nat
    BY <1>1
  <2>2. PICK n \in B : \A k \in B : n <= k
    BY <2>1, Smallest
  <2>3. n \in 0 .. Len(lines) /\ ~Right(r[n])
    OBVIOUS
  <2>4. n # 0
    BY <1>3, <1>4, <2>3
  <2>5. n - 1 \in 0 .. Len(lines) /\ n - 1 \notin B
    BY <1>1, <2>2, <2>3, <2>4
  <2>6. Right(r[n - 1]) /\ r[n] = ParseLine(c, r[n - 1], lines[n]) /\ n \in DOMAIN lines
    BY <1>1, <1>3, <2>3, <2>4, <2>5
  <2>7. Right(r[n])
    BY <2>6, ParseLineObject
  <2> QED
    BY <2>3, <2>7
<1>6. Right(r[Len(lines)])
  <2> HIDE DEF r
  <2>1. Len(lines) \in 0 .. Len(lines)
    BY <1>1
  <2> QED
    BY <1>5, <2>1
<1>7. Parsed(c, o, lines) = r[Len(lines)]
  BY Zenon DEF Parsed, IsReading
<1> HIDE DEF r
<1> QED
  BY <1>6, <1>7

\* r[n] is the object behind the first n lines.
Runs(r, c, start, lines) ==
  r[0] = start /\ \A n \in 1 .. Len(lines) : r[n] = ParseLine(c, r[n - 1], lines[n])

Started(c, next, save) == Obj(<<>>, next, IF c \in Persistent THEN Again(save) ELSE save)

LEMMA ParsedRuns ==
  ASSUME NEW c, NEW map, NEW next, NEW save, NEW lines, IsSequence(lines)
  PROVE  \E r : /\ Runs(r, c, Started(c, next, save), lines)
                /\ Parsed(c, Obj(map, next, save), lines) = r[Len(lines)]
<1> DEFINE o == Obj(map, next, save)
           start == [map |-> <<>>, next |-> o.next,
                     save |-> IF c \in Persistent THEN Seen(o) ELSE o.save]
           r == CHOOSE t : IsReading(c, start, lines, Len(lines), t)
<1>1. Len(lines) \in Nat
  BY SequenceShape
<1>2. IsReading(c, start, lines, Len(lines), r)
  <2> HIDE DEF start
  <2> QED
    BY <1>1, ReadingExists, Zenon
<1>3. start = Started(c, next, save)
  BY DEF Started, Obj, Seen, Again
<1>4. Parsed(c, o, lines) = r[Len(lines)]
  BY Zenon DEF Parsed, IsReading
<1> HIDE DEF r, start, o
<1>5. \A n \in 0 .. Len(lines) :
        r[n] = IF n = 0 THEN start ELSE ParseLine(c, r[n - 1], lines[n])
  BY <1>2 DEF IsReading
<1>6. Runs(r, c, start, lines)
  BY <1>1, <1>5 DEF Runs
<1> QED
  BY <1>3, <1>4, <1>6 DEF o

\* The lines of items with ids, whatever follows them.
LEMMA ItemsRead ==
  ASSUME NEW c \in Persistent, NEW map, IsItemMap(map), DOMAIN map \subseteq 1 .. LastID,
         NEW keys, NEW S, Lists(keys, S), S \subseteq DOMAIN map,
         NEW first \in 1 .. LastID, NEW save, NEW next,
         NEW lines, IsSequence(lines), NEW m, ItemLines(lines, m, keys, c, map),
         m <= Len(lines), NEW r, Runs(r, c, Started(c, first, save), lines)
  PROVE  IsBehind(r[m], c, map, keys, m, first, save, next)
<1> DEFINE P(k) == IsBehind(r[k], c, map, keys, k, first, save, next)
           B == {k \in 0 .. m : P(k)}
<1>1. Len(lines) \in Nat /\ m \in Nat /\ m <= Len(keys) /\ Len(keys) \in Nat
  BY SequenceShape DEF ItemLines, Lists
<1>2. P(0)
  <2>1. r[0] = Obj(Held(c, map, keys, 0), first, Again(save))
    BY HeldNothing DEF Runs, Started
  <2>2. \A i \in 1 .. 0 : Near(keys[i], first)
    OBVIOUS
  <2> QED
    BY <2>1, <2>2 DEF IsBehind
<1>3. ASSUME NEW k \in 0 .. m - 1, P(k) PROVE P(k + 1)
  <2> DEFINE k1 == k + 1
  <2>1. k \in Nat /\ k + 1 <= Len(keys) /\ k1 \in 1 .. m /\ k1 \in 1 .. Len(lines) /\ k1 - 1 = k
    BY <1>1
  <2>2. IsBehind(ParseLine(c, r[k], Line(c, keys[k + 1], map[keys[k + 1]])),
                 c, map, keys, k + 1, first, save, next)
    BY <1>3, <2>1, BehindOneMore
  <2> HIDE DEF k1
  <2>3. r[k1] = ParseLine(c, r[k1 - 1], lines[k1]) /\ lines[k1] = Line(c, keys[k1], map[keys[k1]])
    BY <2>1 DEF Runs, ItemLines
  <2>4. r[k1] = ParseLine(c, r[k], Line(c, keys[k1], map[keys[k1]]))
    BY <2>1, <2>3
  <2> QED
    BY <2>2, <2>4 DEF k1
<1> HIDE DEF P
<1>4. 0 \in B /\ \A k \in 0 .. m - 1 : k \in B => k + 1 \in B
  BY <1>1, <1>2, <1>3
<1>5. \A k \in 0 .. m : k \in B
  <2> HIDE DEF B
  <2> QED
    BY <1>1, <1>4, InductionTo
<1>6. P(m)
  BY <1>1, <1>5
<1> QED
  BY <1>6 DEF P

\* The lines of items without ids.
LEMMA CountedRead ==
  ASSUME NEW c \in DOMAIN LineOf \ Persistent, NEW map, IsItemMap(map), ByNetwork(c, map),
         NEW keys, NEW S, Lists(keys, S), S \subseteq DOMAIN map,
         NEW first \in Nat, NEW save,
         NEW lines, IsSequence(lines), NEW m, ItemLines(lines, m, keys, c, map),
         m <= Len(lines), NEW r, Runs(r, c, Started(c, first, save), lines)
  PROVE  r[m] = Counting(c, map, keys, m, first, save)
<1> DEFINE P(k) == r[k] = Counting(c, map, keys, k, first, save)
           B == {k \in 0 .. m : P(k)}
<1>1. Len(lines) \in Nat /\ m \in Nat /\ m <= Len(keys) /\ Len(keys) \in Nat
  BY SequenceShape DEF ItemLines, Lists
<1>2. P(0)
  <2>1. r[0] = Obj(<<>>, first, save)
    BY DEF Runs, Started
  <2>2. /\ Held(c, map, keys, 0) = <<>> /\ Numbered(c, map, keys, first - 1, 0) = <<>>
        /\ Numbered(c, map, keys, 0, 0) = <<>> /\ first + 0 = first
    <3>1. first - 1 \in Int /\ 0 \in Int /\ first + 0 = first
      OBVIOUS
    <3> QED
      BY <3>1, HeldNothing, NumberedNothing
  <2> QED
    BY <2>1, <2>2 DEF Counting
<1>3. ASSUME NEW k \in 0 .. m - 1, P(k) PROVE P(k + 1)
  <2> DEFINE k1 == k + 1
  <2>1. k \in Nat /\ k + 1 <= Len(keys) /\ k1 \in 1 .. m /\ k1 \in 1 .. Len(lines) /\ k1 - 1 = k
    BY <1>1
  <2>2. ParseLine(c, Counting(c, map, keys, k, first, save),
                  Line(c, keys[k + 1], map[keys[k + 1]]))
          = Counting(c, map, keys, k + 1, first, save)
    BY <2>1, CountingOneMore
  <2> HIDE DEF k1
  <2>3. r[k1] = ParseLine(c, r[k1 - 1], lines[k1]) /\ lines[k1] = Line(c, keys[k1], map[keys[k1]])
    BY <2>1 DEF Runs, ItemLines
  <2>4. r[k1] = ParseLine(c, r[k], Line(c, keys[k1], map[keys[k1]]))
    BY <2>1, <2>3
  <2> QED
    BY <1>3, <2>2, <2>4 DEF k1
<1> HIDE DEF P
<1>4. 0 \in B /\ \A k \in 0 .. m - 1 : k \in B => k + 1 \in B
  BY <1>1, <1>2, <1>3
<1>5. \A k \in 0 .. m : k \in B
  <2> HIDE DEF B
  <2> QED
    BY <1>1, <1>4, InductionTo
<1>6. P(m)
  BY <1>1, <1>5
<1> QED
  BY <1>6 DEF P

-----------------------------------------------------------------------------
(* What a map that was read holds.                                         *)

Tally(held) ==
  [x \in {held[i] : i \in DOMAIN held} |-> Cardinality({i \in DOMAIN held : held[i] = x})]

Holds(c, map) == [i \in Kept(c, map) |-> AsReloaded(c, map[i])]

LEMMA ContentsShape ==
  ASSUME NEW c, NEW map
  PROVE  Contents(c, map) = IF c \in Persistent \cup {"ChText5"} THEN Holds(c, map)
                            ELSE Tally(Holds(c, map))
<1> DEFINE keys == {i \in DOMAIN map : map[i].name \notin BrokenNames}
           kept == IF c # "RecInfo2Text" THEN keys ELSE Latest(DOMAIN map, KeepCount) \cap keys
           held == [i \in kept |-> AsReloaded(c, map[i])]
           bag == [x \in {held[i] : i \in kept} |-> Cardinality({i \in kept : held[i] = x})]
<1>1. kept = Kept(c, map)
  BY DEF Kept, SavedKeys, Latest
<1>2. held = Holds(c, map)
  <2> HIDE DEF kept
  <2> QED
    BY <1>1 DEF Holds
<1>3. bag = Tally(held)
  <2> HIDE DEF kept
  <2>1. DOMAIN held = kept
    OBVIOUS
  <2> HIDE DEF held
  <2> QED
    BY <2>1 DEF Tally
<1>4. Contents(c, map) = IF c \in Persistent \cup {"ChText5"} THEN held ELSE bag
  BY Zenon DEF Contents
<1> HIDE DEF held, bag
<1> QED
  BY <1>2, <1>3, <1>4

\* Counting does not ask for the keys.
LEMMA SameTally ==
  ASSUME NEW f, NEW g, IsFiniteSet(DOMAIN f), NEW b \in Bijection(DOMAIN f, DOMAIN g),
         \A i \in DOMAIN f : f[i] = g[b[i]]
  PROVE  Tally(f) = Tally(g)
<1>1. /\ b \in [DOMAIN f -> DOMAIN g]
      /\ \A i, j \in DOMAIN f : b[i] = b[j] => i = j
      /\ \A j \in DOMAIN g : \E i \in DOMAIN f : b[i] = j
  BY DEF Bijection, Injection, Surjection, IsInjective
<1>2. {f[i] : i \in DOMAIN f} = {g[j] : j \in DOMAIN g}
  BY <1>1
<1>3. ASSUME NEW x
      PROVE  Cardinality({i \in DOMAIN f : f[i] = x}) = Cardinality({j \in DOMAIN g : g[j] = x})
  <2> DEFINE S == {i \in DOMAIN f : f[i] = x}
             T == {j \in DOMAIN g : g[j] = x}
             h == [i \in S |-> b[i]]
  <2>1. IsFiniteSet(S)
    BY FS_Subset
  <2>2. h \in [S -> T]
    BY <1>1
  <2>3. \A i \in S : h[i] = b[i]
    OBVIOUS
  <2>4. \A j \in T : \E i \in S : b[i] = j
    BY <1>1
  <2>5. \A i \in S : i \in DOMAIN f
    OBVIOUS
  <2> HIDE DEF S, T, h
  <2>6. h \in Bijection(S, T)
    BY <1>1, <2>2, <2>3, <2>4, <2>5, Zenon DEF Bijection, Injection, Surjection, IsInjective
  <2>7. ExistsBijection(S, T)
    BY <2>6 DEF ExistsBijection
  <2>8. Cardinality(T) = Cardinality(S)
    BY <2>1, <2>7, FS_Bijection
  <2> QED
    BY <2>8 DEF S, T
<1> QED
  BY <1>2, <1>3, Zenon DEF Tally

LEMMA AsReloadedTwice ==
  ASSUME NEW c, NEW x \in Item
  PROVE  /\ AsReloaded(c, AsReloaded(c, x)) = AsReloaded(c, x)
         /\ AsReloaded(c, x) \in Item /\ AsReloaded(c, x).name = x.name
<1> DEFINE y == AsReloaded(c, x)
           b == c \in {"RecInfoText", "ChText5"}
<1>1. /\ x.name \in DOMAIN When /\ x.folders \in Seq(Folders) /\ x.partial \in Seq(Folders)
      /\ x.flag \in BOOLEAN
  BY DEF Item
<1>2. /\ y.name = x.name
      /\ y.folders = IF c \in Persistent THEN x.folders ELSE <<>>
      /\ y.partial = IF c \in Persistent THEN x.partial ELSE <<>>
      /\ y.flag = (b /\ x.flag)
  BY DEF AsReloaded
<1>3. (b /\ (b /\ x.flag)) = (b /\ x.flag) /\ (b /\ x.flag) \in BOOLEAN
  BY <1>1
<1>4. y \in Item
  <2>1. <<>> \in Seq(Folders)
    OBVIOUS
  <2> DEFINE fl == b /\ x.flag
  <2>2. y = [name |-> x.name, folders |-> IF c \in Persistent THEN x.folders ELSE <<>>,
             partial |-> IF c \in Persistent THEN x.partial ELSE <<>>, flag |-> fl,
             unsaved |-> 0]
    BY Zenon DEF AsReloaded
  <2>3. fl \in BOOLEAN
    OBVIOUS
  <2> HIDE DEF fl, y
  <2> QED
    BY <1>1, <2>1, <2>2, <2>3 DEF Item
<1>5. AsReloaded(c, y) = y
  <2> HIDE DEF y
  <2>1. AsReloaded(c, y) =
          [name |-> y.name, folders |-> IF c \in Persistent THEN y.folders ELSE <<>>,
           partial |-> IF c \in Persistent THEN y.partial ELSE <<>>, flag |-> (b /\ y.flag),
           unsaved |-> 0]
    BY Zenon DEF AsReloaded
  <2>2. y = [name |-> x.name, folders |-> IF c \in Persistent THEN x.folders ELSE <<>>,
             partial |-> IF c \in Persistent THEN x.partial ELSE <<>>, flag |-> (b /\ x.flag),
             unsaved |-> 0]
    BY Zenon DEF AsReloaded, y
  <2>3. /\ (IF c \in Persistent THEN y.folders ELSE <<>>)
             = IF c \in Persistent THEN x.folders ELSE <<>>
        /\ (IF c \in Persistent THEN y.partial ELSE <<>>)
             = IF c \in Persistent THEN x.partial ELSE <<>>
    BY <1>2
  <2>4. (b /\ y.flag) = (b /\ x.flag)
    BY <1>2, <1>3
  <2> QED
    BY <1>2, <2>1, <2>2, <2>3, <2>4, Zenon
<1> QED
  BY <1>2, <1>4, <1>5

LEMMA LatestBound ==
  ASSUME NEW D, IsFiniteSet(D), D \subseteq Nat, NEW n \in Nat
  PROVE  /\ Latest(D, n) \subseteq D /\ Cardinality(Latest(D, n)) <= n
<1> DEFINE L == Latest(D, n)
<1>1. L \subseteq D
  BY DEF Latest
<1>2. Cardinality(L) <= n
  <2>1. CASE L = {}
    BY <2>1, FS_EmptySet
  <2>2. CASE L # {}
    <3>1. PICK m \in L : \A k \in L : m <= k
      BY <1>1, <2>2, Smallest
    <3> DEFINE E == {j \in D : j >= m}
    <3>2. Cardinality(E) <= n
      BY <3>1 DEF Latest
    <3>3. IsFiniteSet(E)
      BY FS_Subset
    <3>4. L \in SUBSET E
      BY <1>1, <3>1
    <3>5. Cardinality(L) <= Cardinality(E) /\ IsFiniteSet(L)
      BY <3>3, <3>4, FS_Subset
    <3>6. Cardinality(E) \in Nat /\ Cardinality(L) \in Nat
      BY <3>3, <3>5, FS_CardinalityType
    <3> QED
      BY <3>2, <3>5, <3>6
  <2> QED
    BY <2>1, <2>2
<1> QED
  BY <1>1, <1>2

LEMMA LatestAll ==
  ASSUME NEW D, IsFiniteSet(D), NEW n \in Nat, Cardinality(D) <= n
  PROVE  Latest(D, n) = D
<1>1. ASSUME NEW i \in D PROVE Cardinality({j \in D : j >= i}) <= n
  <2> DEFINE E == {j \in D : j >= i}
  <2>1. E \in SUBSET D
    OBVIOUS
  <2> HIDE DEF E
  <2>2. Cardinality(E) <= Cardinality(D) /\ IsFiniteSet(E)
    BY <2>1, FS_Subset
  <2>3. Cardinality(E) \in Nat /\ Cardinality(D) \in Nat
    BY <2>2, FS_CardinalityType
  <2> QED
    BY <2>2, <2>3 DEF E
<1> QED
  BY <1>1 DEF Latest

LEMMA KeptFacts ==
  ASSUME NEW c, NEW map, IsItemMap(map)
  PROVE  /\ Kept(c, map) \subseteq DOMAIN map /\ IsFiniteSet(Kept(c, map))
         /\ \A i \in Kept(c, map) : map[i] \in Item /\ map[i].name \notin BrokenNames
         /\ c = "RecInfo2Text" => Cardinality(Kept(c, map)) <= KeepCount
<1> DEFINE L == Latest(DOMAIN map, KeepCount)
           K == Kept(c, map)
<1>1. IsFiniteSet(DOMAIN map) /\ DOMAIN map \subseteq Nat /\ KeepCount \in Nat
  BY TextAssumption DEF IsItemMap
<1>2. L \subseteq DOMAIN map /\ Cardinality(L) <= KeepCount
  BY <1>1, LatestBound
<1>3. K \subseteq DOMAIN map /\ (c = "RecInfo2Text" => K \subseteq L)
  BY <1>2 DEF Kept, SavedKeys
<1>4. IsFiniteSet(K) /\ IsFiniteSet(L)
  BY <1>1, <1>2, <1>3, FS_Subset
<1>5. ASSUME c = "RecInfo2Text" PROVE Cardinality(K) <= KeepCount
  <2>1. Cardinality(K) <= Cardinality(L)
    BY <1>3, <1>4, <1>5, FS_Subset
  <2>2. Cardinality(K) \in Nat /\ Cardinality(L) \in Nat
    BY <1>4, FS_CardinalityType
  <2> QED
    BY <1>1, <1>2, <2>1, <2>2
<1>6. \A i \in K : map[i] \in Item /\ map[i].name \notin BrokenNames
  BY <1>3 DEF Kept, IsItemMap
<1> QED
  BY <1>3, <1>4, <1>5, <1>6

\* What is read of a part of the items that are saved, under their keys and numbered.
HoldsPart(h, c, map, keys, m) ==
  /\ IsItemMap(h) /\ DOMAIN h \subseteq DOMAIN map
  /\ DOMAIN h = {keys[j] : j \in 1 .. m}
  /\ \A i \in DOMAIN h : h[i] = AsReloaded(c, map[i]) /\ h[i].name = map[i].name
  /\ m = Len(keys) => DOMAIN h = Kept(c, map)

CountsPart(h, c, map, keys, base, m) ==
  /\ DOMAIN h = base + 1 .. base + m /\ IsFiniteSet(DOMAIN h)
  /\ Cardinality(DOMAIN h) = m
  /\ h \in [DOMAIN h -> Item]
  /\ \A i \in DOMAIN h : /\ i - base \in 1 .. m
                         /\ h[i] = AsReloaded(c, map[keys[i - base]])
                         /\ h[i].name \notin BrokenNames

LEMMA SomeHeld ==
  ASSUME NEW c, NEW map, IsItemMap(map), NEW keys, Lists(keys, Kept(c, map)),
         NEW m \in Nat, m <= Len(keys)
  PROVE  HoldsPart(Held(c, map, keys, m), c, map, keys, m)
<1> DEFINE h == Held(c, map, keys, m)
           D == {keys[j] : j \in 1 .. m}
           K == Kept(c, map)
<1>1. h = [i \in D |-> AsReloaded(c, map[i])]
  BY DEF Held
<1>2. D \subseteq K /\ (m = Len(keys) => D = K)
  <2>1. Len(keys) \in Nat
    BY SequenceShape DEF Lists
  <2>2. 1 .. m \subseteq 1 .. Len(keys)
    BY <2>1
  <2> QED
    BY <2>2 DEF Lists
<1>3. /\ K \subseteq DOMAIN map /\ IsFiniteSet(K) /\ \A i \in K : map[i] \in Item
  BY KeptFacts
<1> HIDE DEF D, K, h
<1>4. IsFiniteSet(D)
  BY <1>2, <1>3, FS_Subset
<1>5. DOMAIN h = D /\ \A i \in D : h[i] = AsReloaded(c, map[i])
  BY <1>1
<1>6. \A i \in D : AsReloaded(c, map[i]) \in Item /\ AsReloaded(c, map[i]).name = map[i].name
  BY <1>2, <1>3, AsReloadedTwice
<1>7. h \in [DOMAIN h -> Item]
  BY <1>1, <1>5, <1>6
<1>8. DOMAIN map \subseteq Nat
  BY DEF IsItemMap
<1>9. IsItemMap(h)
  BY <1>2, <1>3, <1>4, <1>5, <1>7, <1>8 DEF IsItemMap
<1> QED
  BY <1>2, <1>3, <1>5, <1>6, <1>9 DEF HoldsPart, h, D, K

LEMMA SomeNumbered ==
  ASSUME NEW c, NEW map, IsItemMap(map), NEW keys, Lists(keys, Kept(c, map)),
         NEW m \in Nat, m <= Len(keys), NEW base \in Int
  PROVE  CountsPart(Numbered(c, map, keys, base, m), c, map, keys, base, m)
<1> DEFINE h == Numbered(c, map, keys, base, m)
           D == base + 1 .. base + m
           G(i) == AsReloaded(c, map[keys[i - base]])
<1>1. h = [i \in D |-> G(i)]
  BY DEF Numbered
<1>2. IsFiniteSet(D) /\ Cardinality(D) = m
  <2>1. base + 1 \in Int /\ base + m \in Int
    OBVIOUS
  <2>2. IsFiniteSet(D) /\ Cardinality(D) = IF base + 1 > base + m THEN 0
                                           ELSE base + m - (base + 1) + 1
    BY <2>1, FS_Interval
  <2> QED
    BY <2>2
<1>3. \A i \in D : i - base \in 1 .. m
  OBVIOUS
<1>4. \A j \in 1 .. m : keys[j] \in Kept(c, map)
  <2>1. Len(keys) \in Nat
    BY SequenceShape DEF Lists
  <2>2. 1 .. m \subseteq 1 .. Len(keys)
    BY <2>1
  <2> QED
    BY <2>2 DEF Lists
<1>5. \A i \in Kept(c, map) : map[i] \in Item /\ map[i].name \notin BrokenNames
  BY KeptFacts
<1>6. \A i \in D : G(i) \in Item /\ G(i).name \notin BrokenNames
  BY <1>3, <1>4, <1>5, AsReloadedTwice
<1> HIDE DEF h, D, G
<1>7. DOMAIN h = D /\ \A i \in D : h[i] = G(i)
  BY <1>1
<1>8. h \in [DOMAIN h -> Item]
  BY <1>1, <1>6, <1>7
<1> QED
  BY <1>2, <1>3, <1>6, <1>7, <1>8 DEF CountsPart, h, D, G

\* What was written of a list with lasting keys is what it holds behind the next start.
LEMMA HeldContents ==
  ASSUME NEW c \in Persistent \cup {"ChText5"}, NEW map, IsItemMap(map), NEW keys,
         Lists(keys, Kept(c, map))
  PROVE  Contents(c, Held(c, map, keys, Len(keys))) = Contents(c, map)
<1> DEFINE h == Held(c, map, keys, Len(keys))
           K == Kept(c, map)
<1>0. Len(keys) \in Nat
  BY SequenceShape DEF Lists
<1>1. Len(keys) \in Nat /\ Len(keys) <= Len(keys)
  BY <1>0
<1>2. /\ DOMAIN h = K
      /\ \A i \in DOMAIN h : h[i] = AsReloaded(c, map[i]) /\ h[i].name = map[i].name
  <2>1. HoldsPart(h, c, map, keys, Len(keys))
    BY <1>1, SomeHeld
  <2> HIDE DEF h, K
  <2> QED
    BY <2>1 DEF HoldsPart, K
<1>3. \A i \in K : map[i] \in Item /\ map[i].name \notin BrokenNames
  BY KeptFacts
<1>4. Kept(c, h) = K
  <2>1. c # "RecInfo2Text"
    BY DEF Persistent
  <2> HIDE DEF h, K
  <2> QED
    BY <1>2, <1>3, <2>1 DEF Kept, SavedKeys
<1> HIDE DEF h
<1>5. \A i \in K : AsReloaded(c, h[i]) = AsReloaded(c, map[i])
  BY <1>2, <1>3, AsReloadedTwice
<1> HIDE DEF K
<1>6. Holds(c, h) = Holds(c, map)
  <2>1. Holds(c, h) = [i \in K |-> AsReloaded(c, h[i])]
    BY <1>4 DEF Holds
  <2>2. Holds(c, map) = [i \in K |-> AsReloaded(c, map[i])]
    BY DEF Holds, K
  <2> QED
    BY <1>5, <2>1, <2>2
<1>7. Contents(c, h) = Holds(c, h) /\ Contents(c, map) = Holds(c, map)
  BY ContentsShape
<1> QED
  BY <1>6, <1>7 DEF h

\* The same for a list that is numbered anew.
LEMMA NumberedContents ==
  ASSUME NEW c, c \notin Persistent \cup {"ChText5"}, NEW map, IsItemMap(map), NEW keys,
         Lists(keys, Kept(c, map)), NEW base \in Int
  PROVE  Contents(c, Numbered(c, map, keys, base, Len(keys))) = Contents(c, map)
<1> DEFINE h == Numbered(c, map, keys, base, Len(keys))
           m == Len(keys)
           K == Kept(c, map)
           D == DOMAIN h
           f == Holds(c, h)
           g == Holds(c, map)
           b == [i \in D |-> keys[i - base]]
<1>0. m \in Nat
  BY SequenceShape DEF Lists
<1>1. m \in Nat /\ m <= Len(keys)
  BY <1>0
<1>2. /\ DOMAIN h = base + 1 .. base + m /\ IsFiniteSet(DOMAIN h)
      /\ Cardinality(DOMAIN h) = m
      /\ \A i \in DOMAIN h : /\ i - base \in 1 .. m
                             /\ h[i] = AsReloaded(c, map[keys[i - base]])
                             /\ h[i].name \notin BrokenNames
  <2>1. CountsPart(h, c, map, keys, base, Len(keys))
    BY <1>1, SomeNumbered
  <2> HIDE DEF h
  <2> QED
    BY <2>1 DEF CountsPart
<1>3. /\ K \subseteq DOMAIN map /\ IsFiniteSet(K)
      /\ \A i \in K : map[i] \in Item
      /\ c = "RecInfo2Text" => Cardinality(K) <= KeepCount
  BY KeptFacts
<1> HIDE DEF h, m, K
<1>4. /\ \A j \in 1 .. m : keys[j] \in K
      /\ \A i \in K : \E j \in 1 .. m : keys[j] = i
      /\ \A p, q \in 1 .. m : p # q => keys[p] # keys[q]
  BY DEF Lists, m, K
<1>5. b \in Bijection(D, K)
  <2>1. b \in [D -> K] /\ \A i \in D : b[i] = keys[i - base]
    BY <1>2, <1>4
  <2> HIDE DEF b
  <2>2. ASSUME NEW i \in D, NEW j \in D, b[i] = b[j] PROVE i = j
    <3>1. i - base \in 1 .. m /\ j - base \in 1 .. m /\ keys[i - base] = keys[j - base]
      BY <1>2, <2>1, <2>2
    <3>2. i - base = j - base
      BY <1>4, <3>1
    <3>3. i \in Int /\ j \in Int
      BY <1>1, <1>2
    <3> QED
      BY <3>2, <3>3
  <2>3. ASSUME NEW k \in K PROVE \E i \in D : b[i] = k
    <3>1. PICK j \in 1 .. m : keys[j] = k
      BY <1>4
    <3> DEFINE i == base + j
    <3>2. i \in D /\ i - base = j
      BY <1>1, <1>2
    <3> HIDE DEF i
    <3> QED
      BY <2>1, <3>1, <3>2
  <2> QED
    BY <2>1, <2>2, <2>3 DEF Bijection, Injection, Surjection, IsInjective
<1>6. ExistsBijection(D, K)
  BY <1>5 DEF ExistsBijection
<1>7. Kept(c, h) = D
  <2>1. ASSUME c = "RecInfo2Text" PROVE Latest(D, KeepCount) = D
    <3>1. Cardinality(K) = Cardinality(D)
      BY <1>2, <1>6, FS_Bijection
    <3>2. Cardinality(D) <= KeepCount
      BY <1>3, <2>1, <3>1
    <3>3. KeepCount \in Nat
      BY TextAssumption
    <3> QED
      BY <1>2, <3>2, <3>3, LatestAll
  <2>2. SavedKeys(c, h) = D
    BY <2>1 DEF SavedKeys
  <2> HIDE DEF D
  <2>3. \A i \in D : h[i].name \notin BrokenNames
    BY <1>2 DEF D
  <2> QED
    BY <2>2, <2>3 DEF Kept
<1>8. /\ DOMAIN f = D /\ \A i \in D : f[i] = AsReloaded(c, h[i])
      /\ DOMAIN g = K /\ \A i \in K : g[i] = AsReloaded(c, map[i])
  <2>1. f = [i \in D |-> AsReloaded(c, h[i])]
    BY <1>7 DEF Holds
  <2>2. g = [i \in K |-> AsReloaded(c, map[i])]
    BY DEF Holds, K
  <2> HIDE DEF f, g, D
  <2> QED
    BY <2>1, <2>2
<1>9. \A i \in D : b[i] = keys[i - base] /\ b[i] \in K
  BY <1>2, <1>4
<1> HIDE DEF b, D, f, g
<1>10. ASSUME NEW i \in D PROVE f[i] = g[b[i]]
  <2>1. h[i] = AsReloaded(c, map[b[i]]) /\ map[b[i]] \in Item /\ b[i] \in K
    BY <1>2, <1>3, <1>9 DEF D
  <2>2. AsReloaded(c, h[i]) = AsReloaded(c, map[b[i]])
    BY <2>1, AsReloadedTwice
  <2> QED
    BY <1>8, <2>1, <2>2
<1>11. Tally(f) = Tally(g)
  <2>1. IsFiniteSet(DOMAIN f) /\ b \in Bijection(DOMAIN f, DOMAIN g)
    BY <1>2, <1>5, <1>8 DEF D
  <2>2. \A i \in DOMAIN f : f[i] = g[b[i]]
    BY <1>8, <1>10
  <2> QED
    BY <2>1, <2>2, SameTally
<1>12. Contents(c, h) = Tally(f) /\ Contents(c, map) = Tally(g)
  BY ContentsShape DEF f, g
<1> QED
  BY <1>11, <1>12 DEF h, m

\* An object: ids that are in range and, where they are saved in the order in which
\* they were given out, all less than half a round behind the next one.
Good(c, o) ==
  /\ o = Obj(o.map, o.next, o.save) /\ IsItemMap(o.map) /\ ByNetwork(c, o.map)
  /\ c \in Persistent =>
       /\ DOMAIN o.map \subseteq 1 .. LastID /\ o.next \in 1 .. LastID /\ o.save \in 0 .. 2
       /\ ByRound(c, o.save) => \A i \in DOMAIN o.map : Near(i, o.next)
  /\ c \notin Persistent => o.next \in Nat

\* A file without a footer is not read by an object that has seen one.
Expects(c, q, o) == c \in Persistent /\ q.save = 0 => o.save # 2

WritesObject(text, keys, c, q) == Writes(text, keys, c, q.map, q.save, q.next)

Copies(lines, text, m) == \A j \in 1 .. m : lines[j] = text[j]

\* Behind the lines of the first m items of a file.
IsPart(p, c, q, o, keys, m) ==
  /\ Good(c, p) /\ p.map = Held(c, q.map, keys, m) /\ p.save = Again(o.save)
  /\ ByRound(c, q.save) =>
       /\ \A i \in DOMAIN p.map : Near(i, p.next)
       /\ o.next = 1 => p.next = IF m = 0 THEN 1 ELSE Following(keys[m])

LEMMA PartOfIds ==
  ASSUME NEW c \in Persistent, NEW q, Good(c, q), NEW o, Good(c, o), Expects(c, q, o),
         NEW text, NEW keys, WritesObject(text, keys, c, q),
         NEW lines, IsSequence(lines), NEW r, Runs(r, c, Started(c, o.next, o.save), lines),
         NEW m \in Nat, m <= Len(keys), m <= Len(lines), Copies(lines, text, m)
  PROVE  IsPart(r[m], c, q, o, keys, m)
<1> DEFINE map == q.map
           h == Held(c, map, keys, m)
           p == r[m]
<1>1. /\ IsItemMap(map) /\ DOMAIN map \subseteq 1 .. LastID
      /\ q.next \in 1 .. LastID /\ q.save \in 0 .. 2
      /\ ByRound(c, q.save) => \A i \in DOMAIN map : Near(i, q.next)
  BY DEF Good
<1>2. o.next \in 1 .. LastID /\ o.save \in 0 .. 2
  BY DEF Good
<1>3. /\ Lists(keys, Kept(c, map)) /\ Len(keys) \in Nat
      /\ ByRound(c, q.save) => \A i, j \in 1 .. Len(keys) :
                                 i < j => Earlier(DOMAIN map, keys[i], keys[j])
      /\ \A j \in 1 .. Len(keys) : text[j] = Line(c, keys[j], map[keys[j]])
  BY DEF WritesObject, Writes
<1> HIDE DEF map
<1>4. ItemLines(lines, m, keys, c, map)
  <2>1. ASSUME NEW j \in 1 .. m PROVE lines[j] = Line(c, keys[j], map[keys[j]])
    <3>1. j \in 1 .. Len(keys)
      BY <1>3
    <3> QED
      BY <1>3, <3>1 DEF Copies
  <2> QED
    BY <2>1 DEF ItemLines
<1>5. Kept(c, map) \subseteq DOMAIN map
  BY <1>1, KeptFacts
<1>6. IsBehind(p, c, map, keys, m, o.next, o.save, q.next)
  BY <1>1, <1>2, <1>3, <1>4, <1>5, ItemsRead
<1>7. PICK n \in 1 .. LastID :
        /\ p = Obj(h, n, Again(o.save))
        /\ Ordered(keys, map, q.next) =>
             /\ \A i \in 1 .. m : Near(keys[i], n)
             /\ o.next = 1 => n = IF m = 0 THEN 1 ELSE Following(keys[m])
  BY <1>6 DEF IsBehind
<1>8. ByRound(c, q.save) => Ordered(keys, map, q.next)
  BY <1>1, <1>3 DEF Ordered
<1>9. HoldsPart(h, c, map, keys, m)
  BY <1>1, <1>3, SomeHeld
<1> HIDE DEF h, p
<1>10. /\ IsItemMap(h) /\ DOMAIN h \subseteq DOMAIN map
       /\ DOMAIN h = {keys[j] : j \in 1 .. m}
  BY <1>9 DEF HoldsPart
<1>11. p.map = h /\ p.next = n /\ p.save = Again(o.save) /\ p = Obj(p.map, p.next, p.save)
  BY <1>7 DEF Obj
<1>12. ByRound(c, q.save) => \A i \in DOMAIN h : Near(i, n)
  BY <1>7, <1>8, <1>10
<1>13. Again(o.save) \in 0 .. 2 /\ (q.save = 0 => Again(o.save) = 0)
  BY <1>2 DEF Again, Expects
<1>14. ByRound(c, Again(o.save)) => ByRound(c, q.save)
  BY <1>13 DEF ByRound
<1>15. ByNetwork(c, h)
  BY DEF ByNetwork, Persistent
<1>16. Good(c, p)
  BY <1>1, <1>10, <1>11, <1>12, <1>13, <1>14, <1>15 DEF Good
<1> QED
  BY <1>7, <1>8, <1>11, <1>12, <1>16 DEF IsPart, h, p, map

\* What is read holds what was written; and the next id, where it was written too.
Restored(p, c, q, o) ==
  /\ Good(c, p) /\ Contents(c, p.map) = Contents(c, q.map)
  /\ HasFooterLine(c, q.save) =>
       p.save = 2 /\ (o.next = 1 => p.next = q.next) /\ p.next \notin DOMAIN p.map
  /\ c \in Persistent /\ q.save = 0 => p.save # 2

LEMMA WholeOfIds ==
  ASSUME NEW c \in Persistent, NEW q, Good(c, q), NEW o, Good(c, o), Expects(c, q, o),
         NEW text, NEW keys, WritesObject(text, keys, c, q),
         NEW r, Runs(r, c, Started(c, o.next, o.save), text)
  PROVE  Restored(r[Len(text)], c, q, o)
<1> DEFINE map == q.map
           m == Len(keys)
           h == Held(c, map, keys, m)
           f == q.next
           b == r[m]
           p == r[Len(text)]
           n == AfterFooter(b.next, f)
<1>1. /\ IsItemMap(map) /\ DOMAIN map \subseteq 1 .. LastID /\ f \in 1 .. LastID
      /\ q.save \in 0 .. 2 /\ o.save \in 0 .. 2
      /\ ByRound(c, q.save) => \A i \in DOMAIN map : Near(i, f)
  BY DEF Good
<1>2. /\ Lists(keys, Kept(c, map)) /\ m \in Nat /\ IsSequence(text)
      /\ Len(text) = IF HasFooterLine(c, q.save) THEN m + 1 ELSE m
      /\ HasFooterLine(c, q.save) => text[m + 1] = <<Footer(f)>>
  BY DEF WritesObject, Writes
<1>3. m <= Len(keys) /\ m <= Len(text) /\ Copies(text, text, m)
  BY <1>2 DEF Copies
<1> HIDE DEF map, f
<1>4. IsPart(b, c, q, o, keys, m)
  <2> HIDE DEF m
  <2> QED
    BY <1>2, <1>3, PartOfIds DEF b
<1>5. Contents(c, h) = Contents(c, map)
  BY <1>1, <1>2, HeldContents
<1>6. HoldsPart(h, c, map, keys, m)
  <2> HIDE DEF m
  <2> QED
    BY <1>1, <1>2, <1>3, SomeHeld DEF h
<1>7. \A i \in Kept(c, map) : i \in DOMAIN map
  BY <1>1, KeptFacts
<1> HIDE DEF m, h, b, p, n
<1>8. /\ Good(c, b) /\ b.map = h /\ b.save = Again(o.save)
      /\ b = Obj(h, b.next, b.save)
      /\ ByRound(c, q.save) =>
           /\ \A i \in DOMAIN h : Near(i, b.next)
           /\ o.next = 1 => b.next = IF m = 0 THEN 1 ELSE Following(keys[m])
      /\ b.next \in 1 .. LastID
  BY <1>4 DEF IsPart, Good, h, map
<1>9. CASE ~HasFooterLine(c, q.save)
  <2>1. p = b
    BY <1>2, <1>9 DEF p, b
  <2>2. q.save = 0 => b.save # 2
    BY <1>8 DEF Expects, Again
  <2> QED
    BY <1>5, <1>8, <1>9, <2>1, <2>2 DEF Restored, p, map
<1>10. CASE HasFooterLine(c, q.save)
  <2>1. q.save # 0 /\ ByRound(c, q.save) /\ ByRound(c, 2)
    BY <1>10 DEF HasFooterLine, ByRound
  <2>2. p = Obj(h, n, 2)
    <3> DEFINE k == m + 1
    <3>1. k \in 1 .. Len(text) /\ k = Len(text) /\ k - 1 = m
      BY <1>2, <1>10
    <3>2. text[k] = <<Footer(f)>>
      BY <1>2, <1>10
    <3> HIDE DEF k
    <3>3. p = ParseLine(c, r[k - 1], text[k])
      BY <3>1 DEF Runs, p
    <3>4. p = ParseLine(c, b, <<Footer(f)>>)
      BY <3>1, <3>2, <3>3 DEF b
    <3>5. ParseLine(c, Obj(h, b.next, b.save), <<Footer(f)>>) = Obj(h, n, 2)
      BY FooterRead DEF n
    <3> QED
      BY <1>8, <3>4, <3>5
  <2>3. /\ n \in {b.next, f}
        /\ b.next = 1 => n = f
        /\ \A l \in 1 .. LastID : Near(l, f) /\ b.next = Following(l) => n = f
    BY <1>1, <1>8, AfterFooterShape DEF n
  <2>4. IsItemMap(h) /\ DOMAIN h \subseteq DOMAIN map
    BY <1>6 DEF HoldsPart
  <2>5. n \in 1 .. LastID /\ \A i \in DOMAIN h : Near(i, n)
    BY <1>1, <1>8, <2>1, <2>3, <2>4
  <2>6. o.next = 1 => n = f
    <3> SUFFICES ASSUME o.next = 1 PROVE n = f
      OBVIOUS
    <3>1. b.next = IF m = 0 THEN 1 ELSE Following(keys[m])
      BY <1>8, <2>1
    <3>2. CASE m = 0
      BY <2>3, <3>1, <3>2
    <3>3. CASE m # 0
      <4>1. m \in 1 .. Len(keys)
        BY <1>2, <3>3 DEF m
      <4>2. keys[m] \in DOMAIN map
        BY <1>2, <1>7, <4>1 DEF Lists
      <4> QED
        BY <1>1, <2>1, <2>3, <3>1, <3>3, <4>2
    <3> QED
      BY <3>2, <3>3
  <2>7. n \notin DOMAIN h
    BY <2>5, NextIsFree
  <2>8. p.map = h /\ p.next = n /\ p.save = 2 /\ p = Obj(p.map, p.next, p.save)
    BY <2>2 DEF Obj
  <2>9. ByNetwork(c, h)
    BY DEF ByNetwork, Persistent
  <2>10. Good(c, p)
    BY <1>1, <2>4, <2>5, <2>8, <2>9 DEF Good
  <2> QED
    BY <1>5, <2>1, <2>6, <2>7, <2>8, <2>10 DEF Restored, p, map, f
<1> QED
  BY <1>9, <1>10

LEMMA PartOfCounted ==
  ASSUME NEW c \in DOMAIN LineOf \ Persistent, NEW q, Good(c, q), NEW o, Good(c, o),
         NEW text, NEW keys, WritesObject(text, keys, c, q),
         NEW lines, IsSequence(lines), NEW r, Runs(r, c, Started(c, o.next, o.save), lines),
         NEW m \in Nat, m <= Len(keys), m <= Len(lines), Copies(lines, text, m)
  PROVE  r[m] = Counting(c, q.map, keys, m, o.next, o.save) /\ Good(c, r[m])
<1> DEFINE map == q.map
           p == r[m]
           first == o.next
<1>1. IsItemMap(map) /\ ByNetwork(c, map) /\ first \in Nat
  BY DEF Good
<1>2. /\ Lists(keys, Kept(c, map)) /\ Len(keys) \in Nat
      /\ \A j \in 1 .. Len(keys) : text[j] = Line(c, keys[j], map[keys[j]])
  BY DEF WritesObject, Writes
<1> HIDE DEF map
<1>3. ItemLines(lines, m, keys, c, map)
  <2>1. ASSUME NEW j \in 1 .. m PROVE lines[j] = Line(c, keys[j], map[keys[j]])
    <3>1. j \in 1 .. Len(keys)
      BY <1>2
    <3> QED
      BY <1>2, <3>1 DEF Copies
  <2> QED
    BY <2>1 DEF ItemLines
<1>4. Kept(c, map) \subseteq DOMAIN map
  BY <1>1, KeptFacts
<1>5. p = Counting(c, map, keys, m, first, o.save)
  BY <1>1, <1>2, <1>3, <1>4, CountedRead
<1>6. c \in {"RecInfoText", "RecInfo2Text", "ChText4", "ChText5"} /\ c \notin Persistent
  BY DEF LineOf, Persistent
<1> HIDE DEF p, first
<1> SUFFICES Good(c, p)
  BY <1>5 DEF p, map, first
<1>7. CASE c = "RecInfoText"
  <2> DEFINE h == Numbered(c, map, keys, first - 1, m)
  <2>1. p = Obj(h, first + m, o.save)
    BY <1>5, <1>7 DEF Counting
  <2>2. CountsPart(h, c, map, keys, first - 1, m)
    <3>1. first - 1 \in Int
      BY <1>1
    <3> QED
      BY <1>1, <1>2, <3>1, SomeNumbered
  <2> HIDE DEF h
  <2>3. IsItemMap(h)
    BY <1>1, <2>2 DEF CountsPart, IsItemMap
  <2>4. p.map = h /\ p.next = first + m /\ p = Obj(p.map, p.next, p.save)
    BY <2>1 DEF Obj
  <2>5. ByNetwork(c, h)
    BY <1>7 DEF ByNetwork
  <2> QED
    BY <1>1, <1>6, <2>3, <2>4, <2>5 DEF Good
<1>8. CASE c \in {"ChText4", "RecInfo2Text"}
  <2> DEFINE h == Numbered(c, map, keys, 0, m)
  <2>1. p = Obj(h, first, o.save)
    BY <1>5, <1>8 DEF Counting
  <2>2. CountsPart(h, c, map, keys, 0, m)
    <3>1. 0 \in Int
      OBVIOUS
    <3> QED
      BY <1>1, <1>2, <3>1, SomeNumbered
  <2> HIDE DEF h
  <2>3. IsItemMap(h)
    BY <2>2 DEF CountsPart, IsItemMap
  <2>4. p.map = h /\ p.next = first /\ p = Obj(p.map, p.next, p.save)
    BY <2>1 DEF Obj
  <2>5. ByNetwork(c, h)
    BY <1>8 DEF ByNetwork
  <2> QED
    BY <1>1, <1>6, <2>3, <2>4, <2>5 DEF Good
<1>9. CASE c = "ChText5"
  <2> DEFINE h == Held(c, map, keys, m)
  <2>1. p = Obj(h, first, o.save)
    BY <1>5, <1>9 DEF Counting
  <2>2. HoldsPart(h, c, map, keys, m)
    BY <1>1, <1>2, SomeHeld
  <2> HIDE DEF h
  <2>3. /\ IsItemMap(h) /\ DOMAIN h \subseteq DOMAIN map
        /\ \A i \in DOMAIN h : h[i].name = map[i].name
    BY <2>2 DEF HoldsPart
  <2>4. p.map = h /\ p.next = first /\ p = Obj(p.map, p.next, p.save)
    BY <2>1 DEF Obj
  <2>5. ByNetwork(c, h)
    BY <1>1, <2>3 DEF ByNetwork
  <2> QED
    BY <1>1, <1>6, <2>3, <2>4, <2>5 DEF Good
<1> QED
  BY <1>6, <1>7, <1>8, <1>9

LEMMA WholeOfCounted ==
  ASSUME NEW c \in DOMAIN LineOf \ Persistent, NEW q, Good(c, q), NEW o, Good(c, o),
         NEW text, NEW keys, WritesObject(text, keys, c, q),
         NEW r, Runs(r, c, Started(c, o.next, o.save), text)
  PROVE  Restored(r[Len(text)], c, q, o)
<1> DEFINE map == q.map
           m == Len(keys)
           p == r[Len(text)]
           first == o.next
<1>1. IsItemMap(map) /\ first \in Nat
  BY DEF Good
<1>2. c \notin Persistent /\ ~HasFooterLine(c, q.save)
  BY DEF HasFooterLine
<1>3. /\ Lists(keys, Kept(c, map)) /\ m \in Nat /\ IsSequence(text) /\ Len(text) = m
  BY <1>2 DEF WritesObject, Writes
<1>4. m <= Len(keys) /\ m <= Len(text) /\ Copies(text, text, m)
  BY <1>3 DEF Copies
<1>5. r[m] = Counting(c, q.map, keys, m, o.next, o.save) /\ Good(c, r[m])
  <2> HIDE DEF m
  <2> QED
    BY <1>3, <1>4, PartOfCounted
<1>6. p = Counting(c, map, keys, m, first, o.save) /\ Good(c, p)
  BY <1>3, <1>5
<1>7. c \in {"RecInfoText", "RecInfo2Text", "ChText4", "ChText5"}
  BY DEF LineOf, Persistent
<1> HIDE DEF p, first, map
<1>8. CASE c = "RecInfoText"
  <2>1. p.map = Numbered(c, map, keys, first - 1, m)
    BY <1>6, <1>8 DEF Counting, Obj
  <2>2. first - 1 \in Int /\ c \notin Persistent \cup {"ChText5"}
    BY <1>1, <1>2, <1>8
  <2>3. Contents(c, p.map) = Contents(c, map)
    BY <1>1, <1>3, <2>1, <2>2, NumberedContents DEF m
  <2> QED
    BY <1>2, <1>6, <2>3 DEF Restored, p, map
<1>9. CASE c \in {"ChText4", "RecInfo2Text"}
  <2>1. p.map = Numbered(c, map, keys, 0, m)
    BY <1>6, <1>9 DEF Counting, Obj
  <2>2. 0 \in Int /\ c \notin Persistent \cup {"ChText5"}
    BY <1>2, <1>9
  <2>3. Contents(c, p.map) = Contents(c, map)
    BY <1>1, <1>3, <2>1, <2>2, NumberedContents DEF m
  <2> QED
    BY <1>2, <1>6, <2>3 DEF Restored, p, map
<1>10. CASE c = "ChText5"
  <2>1. p.map = Held(c, map, keys, m)
    BY <1>6, <1>10 DEF Counting, Obj
  <2>2. Contents(c, p.map) = Contents(c, map)
    BY <1>1, <1>3, <1>10, <2>1, HeldContents DEF m
  <2> QED
    BY <1>2, <1>6, <2>2 DEF Restored, p, map
<1> QED
  BY <1>7, <1>8, <1>9, <1>10

LEMMA PrefixShape ==
  ASSUME NEW s, IsSequence(s), NEW n \in Nat, n <= Len(s)
  PROVE  /\ IsSequence(SubSeq(s, 1, n)) /\ Len(SubSeq(s, 1, n)) = n
         /\ \A j \in 1 .. n : SubSeq(s, 1, n)[j] = s[j]
<1>1. PICK S : s \in Seq(S)
  BY DEF IsSequence
<1>2. /\ Len(SubSeq(s, 1, n)) = n /\ \A j \in 1 .. n : SubSeq(s, 1, n)[j] = s[j]
  BY <1>1
<1>3. SubSeq(s, 1, n) \in Seq(S)
  BY <1>1
<1> QED
  BY <1>2, <1>3 DEF IsSequence

ObjectText(c, q) == TextOf(c, q.map, q.save, q.next)

\* A whole file gives back what was written.
LEMMA ReadsWhole ==
  ASSUME NEW c \in DOMAIN LineOf, NEW q, Good(c, q), NEW o, Good(c, o), Expects(c, q, o)
  PROVE  Restored(Parsed(c, o, ObjectText(c, q)), c, q, o)
<1> DEFINE text == ObjectText(c, q)
<1>1. PICK keys : WritesObject(text, keys, c, q)
  <2>1. IsItemMap(q.map)
    BY DEF Good
  <2>2. \E keys : Writes(TextOf(c, q.map, q.save, q.next), keys, c, q.map, q.save, q.next)
    BY <2>1, TextWrites
  <2> QED
    BY <2>2 DEF WritesObject, ObjectText
<1> HIDE DEF text
<1>2. IsSequence(text)
  BY <1>1 DEF WritesObject, Writes
<1>3. o = Obj(o.map, o.next, o.save)
  BY DEF Good
<1>4. PICK r : /\ Runs(r, c, Started(c, o.next, o.save), text)
               /\ Parsed(c, Obj(o.map, o.next, o.save), text) = r[Len(text)]
  BY <1>2, ParsedRuns
<1>5. Restored(r[Len(text)], c, q, o)
  <2>1. CASE c \in Persistent
    BY <1>1, <1>4, <2>1, WholeOfIds
  <2>2. CASE c \in DOMAIN LineOf \ Persistent
    BY <1>1, <1>4, <2>2, WholeOfCounted
  <2> QED
    BY <2>1, <2>2
<1> QED
  BY <1>3, <1>4, <1>5 DEF text

\* What is read of a file up to an error is a list like any other.
LEMMA ReadsPart ==
  ASSUME NEW c \in DOMAIN LineOf, NEW q, Good(c, q), NEW o, Good(c, o), Expects(c, q, o),
         NEW n \in 0 .. Len(ObjectText(c, q)) - 1
  PROVE  LET p == Parsed(c, o, SubSeq(ObjectText(c, q), 1, n))
         IN  Good(c, p) /\ Expects(c, q, p)
<1> DEFINE text == ObjectText(c, q)
           lines == SubSeq(text, 1, n)
<1>1. PICK keys : WritesObject(text, keys, c, q)
  <2>1. IsItemMap(q.map)
    BY DEF Good
  <2>2. \E keys : Writes(TextOf(c, q.map, q.save, q.next), keys, c, q.map, q.save, q.next)
    BY <2>1, TextWrites
  <2> QED
    BY <2>2 DEF WritesObject, ObjectText
<1> HIDE DEF text
<1>2. /\ IsSequence(text) /\ Len(keys) \in Nat
      /\ Len(text) = IF HasFooterLine(c, q.save) THEN Len(keys) + 1 ELSE Len(keys)
  BY <1>1 DEF WritesObject, Writes
<1>3. n \in Nat /\ n <= Len(keys) /\ n <= Len(text) /\ Len(text) \in Nat
  <2>1. Len(text) \in Nat
    BY <1>2, SequenceShape
  <2>2. n \in 0 .. Len(text) - 1
    BY DEF text
  <2> QED
    BY <1>2, <2>1, <2>2
<1>4. IsSequence(lines) /\ Len(lines) = n /\ \A j \in 1 .. n : lines[j] = text[j]
  BY <1>2, <1>3, PrefixShape
<1>5. Copies(lines, text, n) /\ n <= Len(lines)
  BY <1>3, <1>4 DEF Copies
<1> HIDE DEF lines
<1>6. o = Obj(o.map, o.next, o.save)
  BY DEF Good
<1>7. PICK r : /\ Runs(r, c, Started(c, o.next, o.save), lines)
               /\ Parsed(c, Obj(o.map, o.next, o.save), lines) = r[Len(lines)]
  BY <1>4, ParsedRuns
<1>8. Good(c, r[n]) /\ Expects(c, q, r[n])
  <2>1. CASE c \in Persistent
    <3>1. IsPart(r[n], c, q, o, keys, n)
      BY <1>1, <1>3, <1>4, <1>5, <1>7, <2>1, PartOfIds
    <3> QED
      BY <3>1 DEF IsPart, Expects, Again
  <2>2. CASE c \in DOMAIN LineOf \ Persistent
    <3>1. Good(c, r[n])
      BY <1>1, <1>3, <1>4, <1>5, <1>7, <2>2, PartOfCounted
    <3> QED
      BY <2>2, <3>1 DEF Expects
  <2> QED
    BY <2>1, <2>2
<1> QED
  BY <1>4, <1>6, <1>7, <1>8 DEF text, lines

LEMMA NothingIsGood ==
  ASSUME NEW c, NEW next, IF c \in Persistent THEN next \in 1 .. LastID ELSE next \in Nat,
         NEW save, c \in Persistent => save \in 0 .. 2
  PROVE  Good(c, Obj(<<>>, next, save))
<1> DEFINE o == Obj(<<>>, next, save)
<1>1. o.map = <<>> /\ o.next = next /\ o.save = save /\ o = Obj(o.map, o.next, o.save)
  BY DEF Obj
<1> HIDE DEF o
<1>2. DOMAIN <<>> = {} /\ <<>> \in [{} -> Item] /\ IsFiniteSet({})
  BY FS_EmptySet
<1>3. IsItemMap(<<>>)
  BY <1>2 DEF IsItemMap
<1>4. ByNetwork(c, <<>>)
  BY <1>2 DEF ByNetwork
<1> QED
  BY <1>1, <1>2, <1>3, <1>4 DEF Good, o

-----------------------------------------------------------------------------
(* What is written is a file, and not the sign that there is none.         *)

FieldNames ==
  {"number", "folder", "NextID"} \cup UNION {Range(LineOf[c].save) : c \in DOMAIN LineOf}

LEMMA TokenShape ==
  ASSUME NEW f \in FieldNames
  PROVE  /\ \A v \in Nat : Token(f, v) \in Tokens
         /\ \A v \in BOOLEAN : Token(f, v) \in Tokens
         /\ \A v \in DOMAIN When \cup Folders \cup {NoText} : Token(f, v) \in Tokens
<1> DEFINE A == [f : FieldNames, v : Nat]
           B == [f : FieldNames, v : BOOLEAN]
           C == [f : FieldNames, v : DOMAIN When \cup Folders \cup {NoText}]
<1>1. Tokens = A \cup B \cup C
  BY DEF Tokens, FieldNames
<1>2. /\ \A v \in Nat : Token(f, v) \in A
      /\ \A v \in BOOLEAN : Token(f, v) \in B
      /\ \A v \in DOMAIN When \cup Folders \cup {NoText} : Token(f, v) \in C
  BY DEF Token
<1> HIDE DEF A, B, C
<1> QED
  BY <1>1, <1>2

LEMMA CountedTokens ==
  ASSUME NEW l \in Seq(Folders)
  PROVE  Counted(l) \in Seq(Tokens)
<1>1. "number" \in FieldNames /\ "folder" \in FieldNames
  BY DEF FieldNames
<1>2. Len(l) \in Nat /\ DOMAIN l = 1 .. Len(l) /\ \A i \in 1 .. Len(l) : l[i] \in Folders
  OBVIOUS
<1> DEFINE h == <<Token("number", Len(l))>>
           t == [i \in DOMAIN l |-> Token("folder", l[i])]
<1>3. Token("number", Len(l)) \in Tokens
  BY <1>1, <1>2, TokenShape
<1>4. h \in Seq(Tokens)
  BY <1>3
<1>5. \A i \in 1 .. Len(l) : Token("folder", l[i]) \in Tokens
  BY <1>1, <1>2, TokenShape
<1>6. t \in [1 .. Len(l) -> Tokens]
  BY <1>2, <1>5
<1>7. t \in Seq(Tokens)
  <2> HIDE DEF t
  <2> QED
    BY <1>2, <1>6
<1>8. Counted(l) = h \o t
  BY DEF Counted
<1> HIDE DEF h, t
<1> QED
  BY <1>4, <1>7, <1>8

LEMMA ColumnTokens ==
  ASSUME NEW f \in FieldNames, NEW id \in Nat, NEW x \in Item
  PROVE  Column(f, id, x) \in Seq(Tokens)
<1>1. /\ \A e \in Tokens : <<e>> \in Seq(Tokens)
      /\ Token(f, id) \in Tokens /\ Token(f, NoText) \in Tokens
      /\ Token(f, x.flag) \in Tokens /\ Token(f, x.name) \in Tokens
  BY ItemShape, TokenShape
<1>2. CASE f \in {"REST", "FOLDERS", "PARTIAL"}
  <2>1. Column(f, id, x) \in {Counted(Rest(x.folders)), Counted(x.folders), Counted(x.partial)}
    BY <1>2 DEF Column
  <2> QED
    BY <2>1, ItemShape, CountedTokens
<1>3. CASE f = "ID"
  BY <1>1, <1>3 DEF Column
<1>4. CASE f = "FIRST"
  <2> DEFINE v == IF x.folders = <<>> THEN NoText ELSE Head(x.folders)
  <2>1. v \in Folders \cup {NoText}
    BY ItemShape
  <2>2. "folder" \in FieldNames
    BY DEF FieldNames
  <2>3. Token("folder", v) \in Tokens
    <3> HIDE DEF v
    <3> QED
      BY <2>1, <2>2, TokenShape
  <2>4. Column(f, id, x) = <<Token("folder", v)>>
    BY <1>4 DEF Column
  <2> HIDE DEF v
  <2> QED
    BY <1>1, <2>3, <2>4
<1>5. CASE f \in {"PAD", "END"}
  BY <1>1, <1>5 DEF Column
<1>6. CASE f \in Flags
  BY <1>1, <1>6 DEF Column, Flags
<1>7. CASE f \notin Special
  <2>1. Column(f, id, x) = <<Token(f, x.name)>>
    BY <1>7 DEF Column, Special, Flags
  <2> QED
    BY <1>1, <2>1
<1> QED
  BY <1>2, <1>3, <1>4, <1>5, <1>6, <1>7 DEF Special, Flags

\* Sequences of tokens, one behind another.
LEMMA FlattenIn ==
  ASSUME NEW T, NEW n \in Nat, NEW s, IsSequence(s), Len(s) = n, \A i \in 1 .. n : s[i] \in Seq(T)
  PROVE  FlattenSeq(s) \in Seq(T)
<1>1. DOMAIN s = 1 .. n /\ \A i \in DOMAIN s : IsSequence(s[i])
  BY SequenceShape DEF IsSequence
<1>2. PICK g : /\ g[0] = <<>> /\ FlattenSeq(s) = g[Len(s)]
               /\ \A m \in 1 .. Len(s) : g[m] = g[m - 1] \o s[m]
  BY <1>1, FlattenSteps
<1> DEFINE B == {m \in 0 .. n : g[m] \in Seq(T)}
<1>3. 0 \in B
  <2>1. <<>> \in Seq(T) /\ 0 \in 0 .. n
    OBVIOUS
  <2> QED
    BY <1>2, <2>1
<1>4. \A k \in 0 .. n - 1 : k \in B => k + 1 \in B
  <2> SUFFICES ASSUME NEW k \in 0 .. n - 1, k \in B PROVE k + 1 \in B
    OBVIOUS
  <2>4. k + 1 \in 1 .. n /\ k + 1 \in 0 .. n /\ (k + 1) - 1 = k
    OBVIOUS
  <2>1. k + 1 \in 1 .. n /\ g[k + 1] = g[k] \o s[k + 1]
    <3> DEFINE m == k + 1
    <3>1. m \in 1 .. Len(s) /\ m - 1 = k
      BY <2>4
    <3> HIDE DEF m
    <3>2. g[m] = g[k] \o s[m]
      BY <1>2, <3>1
    <3> QED
      BY <2>4, <3>2 DEF m
  <2>2. g[k] \in Seq(T) /\ s[k + 1] \in Seq(T)
    BY <2>1
  <2>3. g[k] \o s[k + 1] \in Seq(T)
    BY <2>2
  <2>5. g[k + 1] \in Seq(T)
    BY <2>1, <2>3
  <2> QED
    BY <2>4, <2>5
<1>5. \A k \in 0 .. n : k \in B
  <2> HIDE DEF B
  <2> QED
    BY <1>3, <1>4, InductionTo
<1>6. g[n] \in Seq(T)
  BY <1>5
<1> QED
  BY <1>2, <1>6

LEMMA ColumnsAreSequence ==
  ASSUME NEW c \in DOMAIN LineOf
  PROVE  IsSequence(LineOf[c].save)
<1>1. c \in {"ReserveText", "EpgAutoAddText", "ManualAutoAddText", "RecInfoText",
             "RecInfo2Text", "ChText4", "ChText5"}
  BY DEF LineOf
<1>2. c = "ReserveText" => LineOf[c] = ReserveText
  BY DEF LineOf
<1>3. c = "EpgAutoAddText" => LineOf[c] = EpgAutoAddText
  BY DEF LineOf
<1>4. c = "ManualAutoAddText" => LineOf[c] = ManualAutoAddText
  BY DEF LineOf
<1>5. c = "RecInfoText" => LineOf[c] = RecInfoText
  BY DEF LineOf
<1>6. c = "RecInfo2Text" => LineOf[c] = RecInfo2Text
  BY DEF LineOf
<1>7. c = "ChText4" => LineOf[c] = ChText4
  BY DEF LineOf
<1>8. c = "ChText5" => LineOf[c] = ChText5
  BY DEF LineOf
<1>9. /\ IsSequence(ReserveText.save) /\ IsSequence(EpgAutoAddText.save)
      /\ IsSequence(ManualAutoAddText.save) /\ IsSequence(RecInfoText.save)
      /\ IsSequence(RecInfo2Text.save) /\ IsSequence(ChText4.save) /\ IsSequence(ChText5.save)
  BY ReserveClass, EpgAutoAddClass, ManualAutoAddClass, RecInfoClass, RecInfo2Class,
     ChText4Class, ChText5Class, Zenon DEF IsClass, IsLayout
<1> QED
  BY <1>1, <1>2, <1>3, <1>4, <1>5, <1>6, <1>7, <1>8, <1>9

LEMMA LineTokens ==
  ASSUME NEW c \in DOMAIN LineOf, NEW x \in Item, NEW id \in Nat
  PROVE  Line(c, id, x) \in Seq(Tokens)
<1> DEFINE fs == LineOf[c].save
           s == [i \in DOMAIN fs |-> Column(fs[i], id, x)]
<1>1. IsSequence(fs)
  BY ColumnsAreSequence
<1> HIDE DEF fs
<1>2. Len(fs) \in Nat /\ DOMAIN fs = 1 .. Len(fs)
  BY <1>1, SequenceShape
<1>3. \A i \in 1 .. Len(fs) : fs[i] \in FieldNames
  <2>1. \A i \in 1 .. Len(fs) : fs[i] \in Range(fs)
    BY <1>2 DEF Range
  <2>2. Range(fs) \in {Range(LineOf[d].save) : d \in DOMAIN LineOf}
    BY DEF fs
  <2> QED
    BY <2>1, <2>2 DEF FieldNames
<1>4. \A i \in 1 .. Len(fs) : Column(fs[i], id, x) \in Seq(Tokens)
  BY <1>3, ColumnTokens
<1>5. s \in [1 .. Len(fs) -> Seq(Tokens)] /\ \A i \in 1 .. Len(fs) : s[i] \in Seq(Tokens)
  BY <1>2, <1>4
<1>6. Line(c, id, x) = FlattenSeq(s)
  BY DEF Line, fs
<1> HIDE DEF s
<1>7. IsSequence(s) /\ Len(s) = Len(fs)
  BY <1>2, <1>5, FunctionIsSequence
<1>8. FlattenSeq(s) \in Seq(Tokens)
  BY <1>2, <1>5, <1>7, FlattenIn
<1> QED
  BY <1>6, <1>8

LEMMA TextIsFile ==
  ASSUME NEW c \in DOMAIN LineOf, NEW q, Good(c, q)
  PROVE  ObjectText(c, q) # Absent
<1> DEFINE text == ObjectText(c, q)
<1>1. IsItemMap(q.map) /\ q.next \in Nat
  <2>1. LastID \in Nat
    BY TextAssumption
  <2> QED
    BY <2>1 DEF Good
<1>2. PICK keys : Writes(text, keys, c, q.map, q.save, q.next)
  BY <1>1, TextWrites DEF ObjectText
<1> HIDE DEF text
<1>3. /\ Lists(keys, Kept(c, q.map)) /\ Len(keys) \in Nat /\ IsSequence(text)
      /\ Len(text) = IF HasFooterLine(c, q.save) THEN Len(keys) + 1 ELSE Len(keys)
      /\ \A j \in 1 .. Len(keys) : text[j] = Line(c, keys[j], q.map[keys[j]])
      /\ HasFooterLine(c, q.save) => text[Len(keys) + 1] = <<Footer(q.next)>>
  BY <1>2 DEF Writes
<1>4. ASSUME NEW j \in 1 .. Len(keys) PROVE text[j] \in Seq(Tokens)
  <2>1. keys[j] \in Kept(c, q.map)
    BY <1>3 DEF Lists
  <2>2. keys[j] \in DOMAIN q.map /\ q.map[keys[j]] \in Item
    BY <1>1, <2>1, KeptFacts
  <2>3. keys[j] \in Nat
    BY <1>1, <2>2 DEF IsItemMap
  <2> QED
    BY <1>3, <2>2, <2>3, LineTokens
<1>5. <<Footer(q.next)>> \in Seq(Tokens)
  <2>1. "NextID" \in FieldNames
    BY DEF FieldNames
  <2>2. Footer(q.next) \in Tokens
    BY <1>1, <2>1, TokenShape DEF Footer
  <2> QED
    BY <2>2
<1>6. Len(text) \in Nat /\ \A j \in 1 .. Len(text) : text[j] \in Seq(Tokens)
  <2>1. CASE HasFooterLine(c, q.save)
    <3>1. Len(text) = Len(keys) + 1 /\ text[Len(keys) + 1] \in Seq(Tokens)
      BY <1>3, <1>5, <2>1
    <3>2. ASSUME NEW j \in 1 .. Len(text) PROVE text[j] \in Seq(Tokens)
      <4>1. j \in 1 .. Len(keys) \/ j = Len(keys) + 1
        BY <1>3, <3>1
      <4> QED
        BY <1>4, <3>1, <4>1
    <3> QED
      BY <1>3, <3>1, <3>2
  <2>2. CASE ~HasFooterLine(c, q.save)
    BY <1>3, <1>4, <2>2
  <2> QED
    BY <2>1, <2>2
<1>7. PICK S : text \in Seq(S)
  BY <1>3 DEF IsSequence
<1>8. text \in Seq(Seq(Tokens))
  BY <1>6, <1>7
<1> QED
  BY <1>8, FileAssumption DEF text

-----------------------------------------------------------------------------
(* What the operations make of a map of items.                             *)

LEMMA WithItem ==
  ASSUME NEW map, IsItemMap(map), NEW key \in Nat, NEW x \in Item
  PROVE  /\ IsItemMap(With(map, key, x)) /\ IsItemMap(Inserted(map, key, x))
         /\ DOMAIN With(map, key, x) = DOMAIN map \cup {key}
         /\ DOMAIN Inserted(map, key, x) = DOMAIN map \cup {key}
<1> DEFINE D == DOMAIN map \cup {key}
           new == With(map, key, x)
<1>1. DOMAIN new = D /\ \A k \in D : new[k] = IF k = key THEN x ELSE map[k]
  BY DEF With
<1>2. \A k \in DOMAIN map : map[k] \in Item
  BY DEF IsItemMap
<1>3. new \in [D -> Item]
  BY <1>2 DEF With
<1>4. IsFiniteSet(D) /\ D \subseteq Nat
  BY FS_AddElement DEF IsItemMap
<1> HIDE DEF new
<1>5. IsItemMap(new)
  BY <1>1, <1>3, <1>4 DEF IsItemMap
<1>6. Inserted(map, key, x) = IF key \in DOMAIN map THEN map ELSE new
  BY DEF Inserted, new
<1>7. IsItemMap(Inserted(map, key, x)) /\ DOMAIN Inserted(map, key, x) = D
  BY <1>1, <1>5, <1>6
<1> QED
  BY <1>1, <1>5, <1>7 DEF new

LEMMA WithoutItem ==
  ASSUME NEW map, IsItemMap(map), NEW keys
  PROVE  /\ IsItemMap(Without(map, keys)) /\ DOMAIN Without(map, keys) = DOMAIN map \ keys
         /\ \A i \in DOMAIN map \ keys : Without(map, keys)[i] = map[i]
<1> DEFINE D == DOMAIN map \ keys
           new == Without(map, keys)
<1>1. DOMAIN new = D /\ \A k \in D : new[k] = map[k]
  BY DEF Without
<1>2. \A k \in DOMAIN map : map[k] \in Item
  BY DEF IsItemMap
<1>3. new \in [D -> Item]
  BY <1>2 DEF Without
<1>4. IsFiniteSet(D) /\ D \subseteq Nat
  BY FS_Subset DEF IsItemMap
<1> HIDE DEF new
<1>5. IsItemMap(new)
  BY <1>1, <1>3, <1>4 DEF IsItemMap
<1> QED
  BY <1>1, <1>5 DEF new

LEMMA ChangedItem ==
  ASSUME NEW map, IsItemMap(map), NEW id \in DOMAIN map, NEW x \in Item
  PROVE  IsItemMap([map EXCEPT ![id] = x])
<1> DEFINE new == [map EXCEPT ![id] = x]
<1>1. DOMAIN new = DOMAIN map
  OBVIOUS
<1>2. new \in [DOMAIN map -> Item]
  BY DEF IsItemMap
<1> HIDE DEF new
<1>3. IsItemMap(new)
  BY <1>1, <1>2 DEF IsItemMap
<1> QED
  BY <1>3 DEF new

\* The key behind the last one.
LEMMA KeyBehindShape ==
  ASSUME NEW map, IsItemMap(map)
  PROVE  KeyBehind(map) \in Nat
<1>1. CASE map = <<>>
  BY <1>1 DEF KeyBehind
<1>2. CASE map # <<>>
  <2> DEFINE D == DOMAIN map
             s == Ascending(D)
             k == s[Len(s)]
  <2>1. IsFiniteSet(D) /\ D \subseteq Int /\ D \subseteq Nat
    BY DEF IsItemMap
  <2>2. Lists(s, D) /\ \A p, q \in 1 .. Len(s) : p < q => s[p] < s[q]
    BY <2>1, AscendingLists
  <2>3. D # {}
    <3>1. SUFFICES ASSUME D = {} PROVE FALSE
      OBVIOUS
    <3>2. map \in [{} -> Item]
      BY <3>1 DEF IsItemMap
    <3>3. map = <<>>
      BY <3>2
    <3> QED
      BY <1>2, <3>3
  <2> HIDE DEF D, s
  <2>4. Len(s) \in Nat
    BY <2>2, SequenceShape DEF Lists
  <2>5. Len(s) \in 1 .. Len(s)
    <3>1. PICK i \in D : TRUE
      BY <2>3
    <3>2. \E p \in 1 .. Len(s) : s[p] = i
      BY <2>2, <3>1 DEF Lists
    <3> QED
      BY <2>4, <3>2
  <2>6. k \in D /\ \A j \in D : j <= k
    <3>1. k \in D
      BY <2>2, <2>5 DEF Lists
    <3>2. ASSUME NEW j \in D PROVE j <= k
      <4>1. PICK p \in 1 .. Len(s) : s[p] = j
        BY <2>2 DEF Lists
      <4>2. CASE p = Len(s)
        BY <2>1, <3>1, <4>1, <4>2
      <4>3. CASE p # Len(s)
        <5>1. p < Len(s)
          BY <2>4, <4>3
        <5>2. s[p] < s[Len(s)]
          BY <2>2, <2>5, <5>1
        <5>3. j \in Int /\ s[Len(s)] \in Int
          BY <2>1, <3>1
        <5>4. j < s[Len(s)]
          BY <4>1, <5>2
        <5> QED
          BY <5>3, <5>4
      <4> QED
        BY <4>2, <4>3
    <3> QED
      BY <3>1, <3>2
  <2> HIDE DEF k
  <2>7. \A i \in D : (\A j \in D : j <= i) => i = k
    BY <2>1, <2>6
  <2>8. LastKey(map) = k
    BY <2>6, <2>7 DEF LastKey, D
  <2> QED
    BY <1>2, <2>1, <2>6, <2>8 DEF KeyBehind
<1> QED
  BY <1>1, <1>2

\* The fields of an object that is good, one by one.
IsGood(c, map, next, save) ==
  /\ IsItemMap(map) /\ ByNetwork(c, map)
  /\ c \in Persistent =>
       /\ DOMAIN map \subseteq 1 .. LastID /\ next \in 1 .. LastID /\ save \in 0 .. 2
       /\ ByRound(c, save) => \A i \in DOMAIN map : Near(i, next)
  /\ c \notin Persistent => next \in Nat

LEMMA GoodShape ==
  ASSUME NEW c, NEW map, NEW next, NEW save
  PROVE  Good(c, Obj(map, next, save)) <=> IsGood(c, map, next, save)
<1> DEFINE o == Obj(map, next, save)
<1>1. o.map = map /\ o.next = next /\ o.save = save /\ o = Obj(o.map, o.next, o.save)
  BY DEF Obj
<1> HIDE DEF o
<1>2. Good(c, o) <=> IsGood(c, map, next, save)
  BY <1>1 DEF Good, IsGood
<1> QED
  BY <1>2 DEF o

\* A map with the same keys, or some of them.
LEMMA FewerKeys ==
  ASSUME NEW c, NEW map, NEW next, NEW save, IsGood(c, map, next, save),
         NEW new, IsItemMap(new), ByNetwork(c, new), DOMAIN new \subseteq DOMAIN map
  PROVE  IsGood(c, new, next, save)
BY DEF IsGood

\* An item under the next id, in place of none.
LEMMA OneMoreID ==
  ASSUME NEW c \in Persistent, NEW map, NEW next, NEW save, IsGood(c, map, next, save),
         NEW x \in Item, \A i \in DOMAIN map : Near(i, Following(next))
  PROVE  IsGood(c, Inserted(map, next, x), Following(next), save)
<1> DEFINE new == Inserted(map, next, x)
<1>1. /\ IsItemMap(map) /\ DOMAIN map \subseteq 1 .. LastID /\ next \in 1 .. LastID
      /\ save \in 0 .. 2
  BY DEF IsGood
<1>2. next \in Nat
  BY <1>1, Limits
<1>3. IsItemMap(new) /\ DOMAIN new = DOMAIN map \cup {next}
  BY <1>1, <1>2, WithItem
<1>4. Following(next) \in 1 .. LastID /\ Near(next, Following(next))
  BY <1>1, FollowingShape
<1>5. ByNetwork(c, new)
  BY DEF ByNetwork, Persistent
<1> HIDE DEF new
<1>6. DOMAIN new \subseteq 1 .. LastID /\ \A i \in DOMAIN new : Near(i, Following(next))
  BY <1>1, <1>3, <1>4
<1>7. IsGood(c, new, Following(next), save)
  BY <1>1, <1>3, <1>4, <1>5, <1>6 DEF IsGood
<1> QED
  BY <1>7 DEF new

\* An item in a list without ids.
LEMMA OneMoreItem ==
  ASSUME NEW c, c \notin Persistent, NEW map, NEW next, NEW save,
         IsGood(c, map, next, save), NEW x \in Item, NEW key \in Nat,
         c = "ChText5" => key = When[x.name]
  PROVE  /\ IsGood(c, With(map, key, x), next, save)
         /\ IsGood(c, Inserted(map, key, x), next, save)
<1>1. IsItemMap(map) /\ next \in Nat /\ ByNetwork(c, map)
  BY DEF IsGood
<1>2. /\ IsItemMap(With(map, key, x)) /\ IsItemMap(Inserted(map, key, x))
      /\ DOMAIN With(map, key, x) = DOMAIN map \cup {key}
  BY <1>1, WithItem
<1>3. \A k \in DOMAIN map \cup {key} : With(map, key, x)[k] = IF k = key THEN x ELSE map[k]
  BY DEF With
<1>4. ByNetwork(c, With(map, key, x))
  BY <1>1, <1>2, <1>3 DEF ByNetwork
<1>5. ByNetwork(c, Inserted(map, key, x))
  BY <1>1, <1>4 DEF Inserted
<1> QED
  BY <1>1, <1>2, <1>4, <1>5 DEF IsGood

-----------------------------------------------------------------------------
(* The invariant.                                                          *)

\* The list sorted by event is kept by CParseReserveText alone and not by an object
\* that has not read its file; what waits to replace the file is the text of what is
\* in memory, which nothing changes between the write and the move.
TXInv ==
  /\ class \in Classes
  /\ IsMap(itemMap)
  /\ file # Absent => IsSequence(file)
  /\ sortByEventCache # <<>> => class = "ReserveText" /\ step # "new"
  /\ EventListIsCurrent
  /\ step = "move" => tmpFile = TextOf(class, itemMap, saveNextID, nextID)

LEMMA InitInv == TXInit => TXInv
<1> SUFFICES ASSUME TXInit PROVE TXInv
  OBVIOUS
<1>1. file # Absent => IsSequence(file)
  <2>1. \A c : IsSequence(OldFile(c))
    BY EmptyIsSequence, OneIsSequence DEF OldFile
  <2> QED
    BY <2>1 DEF TXInit
<1>2. IsMap(itemMap)
  BY EmptyIsMap DEF TXInit
<1> QED
  BY <1>1, <1>2 DEF TXInit, TXInv, EventListIsCurrent

\* What the object in memory becomes when it reads these lines.
LEMMA ReadingStep ==
  ASSUME TXInv, NEW lines, IsSequence(lines), Become(Parsed(class, Object, lines))
  PROVE  /\ IsMap(itemMap')
         /\ class = "ReserveText" /\ (\A i \in DOMAIN lines : lines[i][1].f = "NextID")
              => itemMap' = <<>>
<1>1. IsObject(Object)
  BY DEF TXInv, Object, IsObject
<1>2. /\ IsObject(Parsed(class, Object, lines))
      /\ class = "ReserveText" /\ (\A i \in DOMAIN lines : lines[i][1].f = "NextID")
           => Parsed(class, Object, lines).map = <<>>
  BY <1>1, ParsedObject
<1> QED
  BY <1>2 DEF Become, IsObject

LEMMA ParseTextStep ==
  ASSUME TXInv, ParseText
  PROVE  TXInv' /\ file' = file
<1>1. CASE file = Absent
  <2>1. itemMap' = <<>>
    BY <1>1 DEF ParseText, Become, Object
  <2>2. UNCHANGED <<class, file, sortByEventCache>> /\ step' = "idle"
    BY <1>1 DEF ParseText
  <2> QED
    BY <1>1, <2>1, <2>2, EmptyIsMap DEF TXInv, EventListIsCurrent
<1>2. CASE file # Absent
  <2>1. IsSequence(file) /\ Become(Parsed(class, Object, file))
    BY <1>2 DEF TXInv, ParseText
  <2>2. /\ IsMap(itemMap')
        /\ class = "ReserveText" /\ (\A i \in DOMAIN file : file[i][1].f = "NextID")
             => itemMap' = <<>>
    BY <2>1, ReadingStep
  <2>3. /\ UNCHANGED <<class, file>> /\ step' = "idle"
        /\ sortByEventCache' =
             IF \E i \in DOMAIN file : file[i][1].f # "NextID" THEN <<>> ELSE sortByEventCache
    BY <1>2 DEF ParseText
  <2>4. EventListIsCurrent'
    BY <2>2, <2>3 DEF TXInv, EventListIsCurrent
  <2> QED
    BY <1>2, <2>1, <2>2, <2>3, <2>4 DEF TXInv
<1> QED
  BY <1>1, <1>2

LEMMA ReadErrorStep ==
  ASSUME TXInv, ReadError
  PROVE  TXInv' /\ file' = file
<1>1. /\ step' = "idle" /\ file # Absent
      /\ UNCHANGED <<class, file>>
  BY DEF ReadError
<1>2. IsSequence(file)
  BY <1>1 DEF TXInv
<1>3. PICK n \in 0 .. Len(file) - 1 :
        /\ Become(Parsed(class, Object, SubSeq(file, 1, n)))
        /\ sortByEventCache' =
             IF \E i \in 1 .. n : file[i][1].f # "NextID" THEN <<>> ELSE sortByEventCache
  BY DEF ReadError
<1> DEFINE lines == SubSeq(file, 1, n)
<1>4. IsSequence(lines) /\ DOMAIN lines = 1 .. n /\ \A i \in 1 .. n : lines[i] = file[i]
  BY <1>2, SequenceShape, PrefixIsSequence
<1>5. /\ IsMap(itemMap')
      /\ class = "ReserveText" /\ (\A i \in DOMAIN lines : lines[i][1].f = "NextID")
           => itemMap' = <<>>
  <2>1. IsSequence(lines) /\ Become(Parsed(class, Object, lines))
    BY <1>3, <1>4
  <2> HIDE DEF lines
  <2> QED
    BY <2>1, ReadingStep
<1>6. EventListIsCurrent'
  BY <1>1, <1>3, <1>4, <1>5 DEF TXInv, EventListIsCurrent
<1> QED
  BY <1>1, <1>2, <1>3, <1>5, <1>6 DEF TXInv

\* An operation on the map that empties the cache, or has none to empty.
LEMMA MapStep ==
  ASSUME TXInv, UNCHANGED <<class, file, step>>, step = "idle", IsMap(itemMap'),
         sortByEventCache' = <<>>
  PROVE  TXInv' /\ file' = file
BY DEF TXInv, EventListIsCurrent

\* The items that the program adds.
LEMMA SampleFields ==
  ASSUME NEW c \in Classes, NEW x \in Samples[c]
  PROVE  DOMAIN x = ItemFields
BY SamplesAssumption DEF ItemFields, Item

LEMMA AddStep ==
  ASSUME TXInv, NEW x \in Samples[class], Add(x)
  PROVE  TXInv' /\ file' = file
<1>1. /\ UNCHANGED <<class, file, step>> /\ step = "idle" /\ sortByEventCache' = <<>>
  BY DEF Add, Idle
<1>2. DOMAIN x = ItemFields
  BY SampleFields DEF TXInv
<1>3. \A key : IsMap(With(itemMap, key, x)) /\ IsMap(Inserted(itemMap, key, x))
  BY <1>2, WithIsMap DEF TXInv
<1>4. PICK added : IsMap(added) /\ (itemMap' = added \/ \E keys : itemMap' = Without(added, keys))
  BY <1>3 DEF Add
<1>5. IsMap(itemMap')
  BY <1>4, WithoutIsMap
<1> QED
  BY <1>1, <1>5, MapStep

LEMMA ChgStep ==
  ASSUME TXInv, NEW id \in DOMAIN itemMap, NEW x \in Samples[class], Chg(id, x)
  PROVE  TXInv' /\ file' = file
<1>1. DOMAIN x = ItemFields
  BY SampleFields DEF TXInv
<1>2. IsMap(itemMap')
  BY <1>1, WithIsMap DEF TXInv, Chg
<1> QED
  BY <1>2, MapStep DEF Chg, Idle

LEMMA DelStep ==
  ASSUME TXInv, NEW id \in DOMAIN itemMap, Del(id)
  PROVE  TXInv' /\ file' = file
<1>1. IsMap(itemMap')
  BY WithoutIsMap DEF TXInv, Del
<1> QED
  BY <1>1, MapStep DEF Del, Idle

\* A field that is not in the file: the names, and so the order by time, stay.
LEMMA SetUnsavedStep ==
  ASSUME TXInv, NEW id \in DOMAIN itemMap, SetUnsaved(id)
  PROVE  TXInv' /\ file' = file
<1>1. /\ step = "idle"
      /\ UNCHANGED <<class, file, step, sortByEventCache>>
      /\ itemMap' = [itemMap EXCEPT ![id].unsaved = 1]
  BY DEF SetUnsaved, Idle
<1>2. DOMAIN itemMap' = DOMAIN itemMap
  BY <1>1
<1>3. \A k \in DOMAIN itemMap :
        DOMAIN itemMap'[k] = ItemFields /\ itemMap'[k].name = itemMap[k].name
  BY <1>1 DEF TXInv, IsMap, ItemFields
<1>4. IsMap(itemMap')
  BY <1>2, <1>3 DEF TXInv, IsMap
<1>5. [i \in DOMAIN itemMap' |-> When[itemMap'[i].name]] =
      [i \in DOMAIN itemMap |-> When[itemMap[i].name]]
  BY <1>2, <1>3
<1>6. ByTime(itemMap') = ByTime(itemMap)
  BY <1>5 DEF ByTime
<1>7. EventListIsCurrent'
  <2>1. itemMap # <<>>
    OBVIOUS
  <2> QED
    BY <1>1, <1>6, <2>1 DEF TXInv, EventListIsCurrent
<1> QED
  BY <1>1, <1>4, <1>7 DEF TXInv

LEMMA ChangeFlagStep ==
  ASSUME TXInv, class # "ReserveText", NEW id \in DOMAIN itemMap, NEW flag,
         ChangeFlag(id, flag)
  PROVE  TXInv' /\ file' = file
<1>1. /\ itemMap' = [itemMap EXCEPT ![id].flag = flag]
      /\ step = "idle" /\ UNCHANGED <<class, file, step, sortByEventCache>>
  BY DEF ChangeFlag, Idle
<1>2. IsMap(itemMap')
  BY <1>1 DEF TXInv, IsMap
<1>3. sortByEventCache' = <<>>
  BY <1>1 DEF TXInv
<1> QED
  BY <1>1, <1>2, <1>3, MapStep

LEMMA GetSortByEventListStep ==
  ASSUME TXInv, GetSortByEventList
  PROVE  TXInv' /\ file' = file
BY DEF TXInv, GetSortByEventList, Idle, EventListIsCurrent

LEMMA SetNextIDStep ==
  ASSUME TXInv, NEW id, SetNextID(id)
  PROVE  TXInv' /\ file' = file
BY DEF TXInv, SetNextID, Idle, EventListIsCurrent

LEMMA SaveTextStep ==
  ASSUME TXInv, SaveText
  PROVE  TXInv' /\ file' = file
<1> DEFINE text == TextOf(class, itemMap, saveNextID, nextID)
<1>1. /\ step = "idle"
      /\ UNCHANGED <<class, itemMap, nextID, saveNextID, sortByEventCache, file>>
  BY DEF SaveText
<1>2. PICK w \in Written(text) : /\ step' = AfterWrite(w.ret)
                                 /\ tmpFile' = IF step' = "move" THEN w.text ELSE <<>>
  BY DEF SaveText
<1>3. step' \in {"move", "idle"} /\ (step' = "move" => tmpFile' = text)
  <2> HIDE DEF text
  <2> QED
    BY <1>2 DEF Written, AfterWrite
<1> QED
  BY <1>1, <1>3 DEF TXInv, EventListIsCurrent

LEMMA MoveFileStep ==
  ASSUME TXInv, MoveFile
  PROVE  /\ TXInv'
         /\ file' # file => file' = TextOf(class, itemMap, saveNextID, nextID)
<1>1. IsSequence(TextOf(class, itemMap, saveNextID, nextID))
  BY TextIsSequence DEF TXInv, IsMap
<1> QED
  BY <1>1 DEF TXInv, MoveFile, EventListIsCurrent

LEMMA CrashStep ==
  ASSUME TXInv, Crash
  PROVE  TXInv' /\ file' = file
<1>1. itemMap' = <<>>
  BY DEF Crash, Become, NewObject
<1> QED
  BY <1>1, EmptyIsMap DEF TXInv, Crash, EventListIsCurrent

LEMMA StepInv ==
  ASSUME TXInv, [TXNext]_txVars
  PROVE  /\ TXInv'
         /\ file' # file => file' = TextOf(class, itemMap, saveNextID, nextID)
<1>1. CASE ParseText
  BY <1>1, ParseTextStep
<1>2. CASE ReadError
  BY <1>2, ReadErrorStep
<1>3. CASE SaveText
  BY <1>3, SaveTextStep
<1>4. CASE MoveFile
  BY <1>4, MoveFileStep
<1>5. CASE Crash
  BY <1>5, CrashStep
<1>6. CASE GetSortByEventList
  BY <1>6, GetSortByEventListStep
<1>7. ASSUME NEW x \in Samples[class], Add(x)
      PROVE  TXInv' /\ file' = file
  BY <1>7, AddStep
<1>8. ASSUME NEW id \in DOMAIN itemMap,
             \/ \E x \in Samples[class] : Chg(id, x)
             \/ SetUnsaved(id) \/ Del(id)
             \/ \E flag \in BOOLEAN : ChgProtectRecInfo(id, flag) \/ SetEpgCapMode(id, flag)
      PROVE  TXInv' /\ file' = file
  <2>1. ASSUME NEW x \in Samples[class], Chg(id, x)
        PROVE  TXInv' /\ file' = file
    BY <2>1, ChgStep
  <2>2. CASE SetUnsaved(id)
    BY <2>2, SetUnsavedStep
  <2>3. CASE Del(id)
    BY <2>3, DelStep
  <2>4. ASSUME NEW flag \in BOOLEAN, ChgProtectRecInfo(id, flag) \/ SetEpgCapMode(id, flag)
        PROVE  TXInv' /\ file' = file
    BY <2>4, ChangeFlagStep DEF ChgProtectRecInfo, SetEpgCapMode
  <2> QED
    BY <1>8, <2>1, <2>2, <2>3, <2>4
<1>9. ASSUME NEW id \in 1 .. LastID, SetNextID(id)
      PROVE  TXInv' /\ file' = file
  BY <1>9, SetNextIDStep
<1>10. CASE UNCHANGED txVars
  BY <1>10 DEF txVars, TXInv, EventListIsCurrent
<1> QED
  BY <1>1, <1>2, <1>3, <1>4, <1>5, <1>6, <1>7, <1>8, <1>9, <1>10 DEF TXNext

-----------------------------------------------------------------------------

LEMMA TXInvariance == TXSpec => []TXInv
<1>1. TXInv /\ [TXNext]_txVars => TXInv'
  BY StepInv
<1> QED
  BY InitInv, <1>1, PTL DEF TXSpec

\* The list of reservations sorted by event that is kept for the next caller is never
\* older than the map, whatever was added, changed, deleted and loaded since it was
\* made (ParseTextInstances.cpp:778).
THEOREM EventListCurrent == TXSpec => []EventListIsCurrent
<1>1. TXInv => EventListIsCurrent
  BY DEF TXInv
<1> QED
  BY <1>1, TXInvariance, PTL

\* A file is only ever replaced by the whole text of what is in memory at that moment,
\* for every class and whatever fails on the way (ParseText.h:104-154).
THEOREM FileWhole == TXSpec => FileReplacedWhole
<1>1. TXInv /\ [TXNext]_txVars
        => [file' # file => file' = TextOf(class, itemMap, saveNextID, nextID)]_txVars
  BY StepInv
<1> QED
  BY <1>1, TXInvariance, PTL DEF TXSpec, FileReplacedWhole

-----------------------------------------------------------------------------
(* The file and the object in memory.                                      *)

\* Every file was written by an object that was good, whose contents are those of the
\* last save; one without a footer is not met by an object that has seen a footer.
FromFile(c, lines, last, q, o) ==
  /\ Good(c, q) /\ lines = ObjectText(c, q) /\ last.items = Contents(c, q.map)
  /\ HasFooterLine(c, q.save) => last.next = q.next
  /\ Expects(c, q, o)

OnDisk(c, lines, last, o) ==
  IF lines = Absent THEN last = NothingSaved ELSE \E q : FromFile(c, lines, last, q, o)

StoreInv == Good(class, Object) /\ OnDisk(class, file, saved, Object)

\* What an operation leaves behind that does not touch the file.
LEMMA SameFile ==
  ASSUME NEW c, NEW lines, NEW last, NEW o, OnDisk(c, lines, last, o),
         NEW p, p.save = o.save \/ p.save = 1
  PROVE  OnDisk(c, lines, last, p)
<1>1. CASE lines = Absent
  BY <1>1 DEF OnDisk
<1>2. CASE lines # Absent
  <2>1. PICK q : FromFile(c, lines, last, q, o)
    BY <1>2 DEF OnDisk
  <2>2. Expects(c, q, p)
    BY <2>1 DEF FromFile, Expects
  <2>3. FromFile(c, lines, last, q, p)
    BY <2>1, <2>2 DEF FromFile
  <2> QED
    BY <1>2, <2>3 DEF OnDisk
<1> QED
  BY <1>1, <1>2

LEMMA ObjectIs == Object = Obj(itemMap, nextID, saveNextID)
BY DEF Object, Obj

LEMMA GoodObject ==
  Good(class, Object) <=> IsGood(class, itemMap, nextID, saveNextID)
BY ObjectIs, GoodShape

LEMMA StoreAfter ==
  ASSUME StoreInv, UNCHANGED <<class, file, saved, saveNextID>>,
         IsGood(class, itemMap', nextID', saveNextID)
  PROVE  StoreInv'
<1>1. Object' = Obj(itemMap', nextID', saveNextID)
  BY DEF Object, Obj
<1>2. Good(class, Object')
  BY <1>1, GoodShape
<1>3. Object'.save = Object.save
  BY DEF Object
<1>4. OnDisk(class, file, saved, Object')
  BY <1>3, SameFile DEF StoreInv
<1> QED
  BY <1>2, <1>4 DEF StoreInv

-----------------------------------------------------------------------------
(* The files that were there before.                                       *)

LEMMA OldFileWritten ==
  ASSUME NEW c \in Classes
  PROVE  \E q : Good(c, q) /\ OldFile(c) = ObjectText(c, q) /\ ~HasFooterLine(c, q.save)
<1>0. c \in DOMAIN LineOf
  BY SamplesAssumption
<1>1. CASE c \in Persistent
  <2> DEFINE x == CHOOSE y \in Samples[c] : y.name \notin BrokenNames
             map == [i \in {1} |-> x]
             q == Obj(map, 2, 0)
             text == ObjectText(c, q)
  <2>1. x \in Item /\ x.name \notin BrokenNames
    <3>1. \E y \in Samples[c] : y.name \notin BrokenNames
      BY <1>1, SamplesAssumption
    <3>2. x \in Samples[c] /\ x.name \notin BrokenNames
      BY <3>1
    <3>3. Samples[c] \subseteq Item
      BY SamplesAssumption
    <3> QED
      BY <3>2, <3>3
  <2>2. OldFile(c) = <<Line(c, 1, x)>>
    BY <1>1 DEF OldFile
  <2> HIDE DEF x
  <2>3. DOMAIN map = {1} /\ map[1] = x /\ IsItemMap(map)
    <3>1. DOMAIN map = {1} /\ map[1] = x /\ map \in [{1} -> Item]
      BY <2>1
    <3> HIDE DEF map
    <3>2. IsFiniteSet({1})
      BY FS_Singleton, Zenon
    <3>3. {1} \subseteq Nat
      OBVIOUS
    <3> QED
      BY <3>1, <3>2, <3>3 DEF IsItemMap
  <2> HIDE DEF map
  <2>4. 1 \in 1 .. LastID /\ 2 \in 1 .. LastID /\ Near(1, 2)
    <3>1. HalfID \in Nat /\ HalfID >= 1 /\ LastID = 2 * HalfID /\ LastID \in Nat
      BY Limits
    <3>2. LastID >= 2
      BY <3>1
    <3>3. 1 \in 1 .. LastID /\ 2 \in 1 .. LastID /\ 1 # LastID
      BY <3>1, <3>2
    <3>4. Following(1) = 2 /\ Near(1, Following(1))
      BY <3>3, FollowingShape
    <3> QED
      BY <3>3, <3>4
  <2>5. Good(c, q)
    <3>1. ByNetwork(c, map)
      BY <1>1 DEF ByNetwork, Persistent
    <3>2. IsGood(c, map, 2, 0)
      BY <1>1, <2>3, <2>4, <3>1 DEF IsGood
    <3> QED
      BY <3>2, GoodShape
  <2>6. q.map = map /\ q.save = 0 /\ q.next = 2
    BY DEF Obj
  <2> HIDE DEF q
  <2>7. ~HasFooterLine(c, q.save)
    BY <2>6 DEF HasFooterLine
  <2>8. PICK keys : Writes(text, keys, c, map, q.save, q.next)
    BY <1>0, <2>3, <2>6, TextWrites DEF ObjectText
  <2> HIDE DEF text
  <2>9. /\ Lists(keys, Kept(c, map)) /\ Len(keys) \in Nat /\ IsSequence(text)
        /\ Len(text) = Len(keys)
        /\ \A j \in 1 .. Len(keys) : text[j] = Line(c, keys[j], map[keys[j]])
    BY <2>7, <2>8 DEF Writes
  <2>10. Kept(c, map) = {1}
    BY <1>1, <2>1, <2>3 DEF Kept, SavedKeys, Persistent
  <2>11. Len(keys) = 1 /\ keys[1] = 1
    <3>1. PICK p \in 1 .. Len(keys) : keys[p] = 1
      BY <2>9, <2>10 DEF Lists
    <3>2. \A i \in 1 .. Len(keys) : keys[i] = 1
      BY <2>9, <2>10 DEF Lists
    <3>3. \A i, j \in 1 .. Len(keys) : i = j
      BY <2>9, <3>2 DEF Lists
    <3>4. 1 \in 1 .. Len(keys) /\ Len(keys) \in 1 .. Len(keys)
      BY <2>9, <3>1
    <3> QED
      BY <3>2, <3>3, <3>4
  <2>12. Len(text) = 1 /\ text[1] = Line(c, 1, x)
    BY <2>3, <2>9, <2>11
  <2>13. text = <<Line(c, 1, x)>>
    <3>1. PICK S : text \in Seq(S)
      BY <2>9 DEF IsSequence
    <3> QED
      BY <2>12, <3>1
  <2> QED
    BY <2>2, <2>5, <2>7, <2>13 DEF text
<1>2. CASE c \notin Persistent
  <2> DEFINE q == Obj(<<>>, 1, 1)
             text == ObjectText(c, q)
  <2>1. Good(c, q)
    BY <1>2, NothingIsGood
  <2>2. q.map = <<>> /\ q.save = 1 /\ q.next = 1
    BY DEF Obj
  <2> HIDE DEF q
  <2>3. ~HasFooterLine(c, q.save)
    BY <1>2 DEF HasFooterLine
  <2>4. IsItemMap(q.map)
    BY <2>1 DEF Good
  <2>5. PICK keys : Writes(text, keys, c, q.map, q.save, q.next)
    BY <1>0, <2>4, TextWrites DEF ObjectText
  <2> HIDE DEF text
  <2>6. /\ Lists(keys, Kept(c, q.map)) /\ Len(keys) \in Nat /\ IsSequence(text)
        /\ Len(text) = Len(keys)
    BY <2>3, <2>5 DEF Writes
  <2>7. Kept(c, q.map) = {}
    <3>1. Kept(c, q.map) \subseteq DOMAIN q.map
      BY <2>4, KeptFacts
    <3>2. DOMAIN q.map = {}
      BY <2>2
    <3> QED
      BY <3>1, <3>2
  <2>8. Len(keys) = 0
    <3>1. \A p \in 1 .. Len(keys) : FALSE
      BY <2>6, <2>7 DEF Lists
    <3> QED
      BY <2>6, <3>1
  <2>9. text = <<>>
    <3>1. PICK S : text \in Seq(S)
      BY <2>6 DEF IsSequence
    <3> QED
      BY <2>6, <2>8, <3>1
  <2>10. OldFile(c) = <<>>
    BY <1>2 DEF OldFile
  <2> QED
    BY <2>1, <2>3, <2>9, <2>10 DEF text
<1> QED
  BY <1>1, <1>2

LEMMA NewObjectIsGood ==
  ASSUME NEW c
  PROVE  Good(c, NewObject) /\ \A q : Expects(c, q, NewObject)
<1>1. NewObject = Obj(<<>>, 1, 1)
  BY DEF NewObject, Obj
<1>2. 1 \in 1 .. LastID /\ 1 \in Nat /\ 1 \in 0 .. 2
  BY Limits
<1>3. Good(c, Obj(<<>>, 1, 1))
  BY <1>2, NothingIsGood
<1> QED
  BY <1>1, <1>3 DEF Expects, NewObject

LEMMA InitStore == TXInit => StoreInv
<1> SUFFICES ASSUME TXInit PROVE StoreInv
  OBVIOUS
<1>0. class \in Classes /\ class \in DOMAIN LineOf
  BY SamplesAssumption DEF TXInit
<1>1. Object = NewObject
  BY DEF TXInit, Object, NewObject
<1>2. Good(class, Object)
  BY <1>1, NewObjectIsGood
<1>3. OnDisk(class, file, saved, Object)
  <2>1. CASE file = Absent
    BY <2>1 DEF TXInit, OnDisk
  <2>2. CASE file # Absent
    <3> DEFINE o == Parsed(class, NewObject, file)
    <3>1. file = OldFile(class) /\ saved = [items |-> Contents(class, o.map), next |-> o.next]
      BY <2>2 DEF TXInit
    <3>2. PICK q : /\ Good(class, q) /\ OldFile(class) = ObjectText(class, q)
                   /\ ~HasFooterLine(class, q.save)
      BY <1>0, OldFileWritten
    <3>3. Expects(class, q, NewObject)
      BY NewObjectIsGood
    <3>4. Restored(o, class, q, NewObject)
      BY <1>0, <3>1, <3>2, <3>3, NewObjectIsGood, ReadsWhole
    <3> HIDE DEF o
    <3>5. saved.items = Contents(class, q.map)
      BY <3>1, <3>4 DEF Restored
    <3>6. FromFile(class, file, saved, q, Object)
      BY <1>1, <3>1, <3>2, <3>3, <3>5 DEF FromFile
    <3> QED
      BY <2>2, <3>6 DEF OnDisk
  <2> QED
    BY <2>1, <2>2
<1> QED
  BY <1>2, <1>3 DEF StoreInv

-----------------------------------------------------------------------------
(* Loading, and dying.                                                     *)

LEMMA ReadStore ==
  ASSUME NEW p, Good(class, p), OnDisk(class, file, saved, p), Become(p),
         UNCHANGED <<class, file, saved>>
  PROVE  StoreInv'
<1>1. p = Obj(p.map, p.next, p.save)
  BY DEF Good
<1>2. Object' = p
  BY <1>1 DEF Become, Object, Obj
<1> QED
  BY <1>2 DEF StoreInv

LEMMA ParseTextStore ==
  ASSUME TXInv, StoreInv, ParseText
  PROVE  StoreInv'
<1>0. class \in DOMAIN LineOf
  BY SamplesAssumption DEF TXInv
<1>1. UNCHANGED <<class, file, saved>>
  BY DEF ParseText
<1>2. CASE file = Absent
  <2>1. itemMap' = <<>> /\ UNCHANGED <<nextID, saveNextID>>
    BY <1>2 DEF ParseText, Become, Object
  <2>2. /\ IF class \in Persistent THEN nextID \in 1 .. LastID ELSE nextID \in Nat
        /\ class \in Persistent => saveNextID \in 0 .. 2
    BY GoodObject DEF StoreInv, IsGood
  <2>3. Good(class, Obj(<<>>, nextID, saveNextID))
    BY <2>2, NothingIsGood
  <2>4. IsGood(class, <<>>, nextID, saveNextID)
    BY <2>3, GoodShape
  <2> QED
    BY <1>1, <2>1, <2>4, StoreAfter
<1>3. CASE file # Absent
  <2> DEFINE p == Parsed(class, Object, file)
  <2>1. Become(p)
    BY <1>3 DEF ParseText
  <2>2. PICK q : FromFile(class, file, saved, q, Object)
    BY <1>3 DEF StoreInv, OnDisk
  <2>3. /\ Good(class, q) /\ file = ObjectText(class, q) /\ Expects(class, q, Object)
        /\ Good(class, Object)
    BY <2>2 DEF FromFile, StoreInv
  <2>4. Restored(p, class, q, Object)
    BY <1>0, <2>3, ReadsWhole
  <2> HIDE DEF p
  <2>5. Good(class, p) /\ Expects(class, q, p)
    BY <2>4 DEF Restored, Expects
  <2>6. FromFile(class, file, saved, q, p)
    BY <2>2, <2>5 DEF FromFile
  <2>7. OnDisk(class, file, saved, p)
    BY <1>3, <2>6 DEF OnDisk
  <2> QED
    BY <1>1, <2>1, <2>5, <2>7, ReadStore
<1> QED
  BY <1>2, <1>3

LEMMA ReadErrorStore ==
  ASSUME TXInv, StoreInv, ReadError
  PROVE  StoreInv'
<1>0. class \in DOMAIN LineOf
  BY SamplesAssumption DEF TXInv
<1>1. UNCHANGED <<class, file, saved>> /\ file # Absent
  BY DEF ReadError
<1>2. PICK n \in 0 .. Len(file) - 1 : Become(Parsed(class, Object, SubSeq(file, 1, n)))
  BY DEF ReadError
<1> DEFINE p == Parsed(class, Object, SubSeq(file, 1, n))
<1>3. PICK q : FromFile(class, file, saved, q, Object)
  BY <1>1 DEF StoreInv, OnDisk
<1>4. /\ Good(class, q) /\ file = ObjectText(class, q) /\ Expects(class, q, Object)
      /\ Good(class, Object)
  BY <1>3 DEF FromFile, StoreInv
<1>5. n \in 0 .. Len(ObjectText(class, q)) - 1
  BY <1>4
<1>6. LET r == Parsed(class, Object, SubSeq(ObjectText(class, q), 1, n))
      IN  Good(class, r) /\ Expects(class, q, r)
  BY <1>0, <1>4, <1>5, ReadsPart
<1>7. Good(class, p) /\ Expects(class, q, p)
  BY <1>4, <1>6
<1> HIDE DEF p
<1>8. FromFile(class, file, saved, q, p)
  BY <1>3, <1>7 DEF FromFile
<1>9. OnDisk(class, file, saved, p)
  BY <1>1, <1>8 DEF OnDisk
<1>10. Become(p)
  BY <1>2 DEF p
<1> QED
  BY <1>1, <1>7, <1>9, <1>10, ReadStore

LEMMA CrashStore ==
  ASSUME StoreInv, Crash
  PROVE  StoreInv'
<1>1. UNCHANGED <<class, file, saved>> /\ Become(NewObject)
  BY DEF Crash
<1>2. NewObject.save = 1
  BY DEF NewObject
<1>3. OnDisk(class, file, saved, NewObject)
  BY <1>2, SameFile DEF StoreInv
<1> QED
  BY <1>1, <1>3, NewObjectIsGood, ReadStore

LEMMA MoveFileStore ==
  ASSUME TXInv, StoreInv, MoveFile
  PROVE  StoreInv'
<1>0. class \in DOMAIN LineOf
  BY SamplesAssumption DEF TXInv
<1>1. UNCHANGED <<class, itemMap, nextID, saveNextID>> /\ step = "move"
  BY DEF MoveFile
<1>2. Object' = Object
  BY <1>1 DEF Object
<1>3. CASE UNCHANGED <<file, saved>>
  BY <1>1, <1>2, <1>3 DEF StoreInv
<1>4. CASE file' = tmpFile /\ saved' = SavedNow
  <2>1. file' = TextOf(class, itemMap, saveNextID, nextID)
    BY <1>1, <1>4 DEF TXInv
  <2>2. file' = ObjectText(class, Object)
    BY <2>1 DEF ObjectText, Object
  <2>3. file' # Absent
    BY <1>0, <2>2, TextIsFile DEF StoreInv
  <2>4. saved'.items = Contents(class, Object.map) /\ saved'.next = Object.next
    BY <1>4 DEF SavedNow, Object
  <2>5. Good(class, Object) /\ Expects(class, Object, Object)
    BY DEF StoreInv, Expects
  <2>6. FromFile(class, file', saved', Object, Object)
    BY <2>2, <2>4, <2>5 DEF FromFile
  <2>7. OnDisk(class, file', saved', Object)
    BY <2>3, <2>6 DEF OnDisk
  <2> QED
    BY <1>1, <1>2, <2>5, <2>7 DEF StoreInv
<1> QED
  BY <1>3, <1>4 DEF MoveFile

-----------------------------------------------------------------------------
(* The operations on the map.                                              *)

LEMMA AddStore ==
  ASSUME TXInv, StoreInv, NEW x \in Samples[class], Add(x)
  PROVE  StoreInv'
<1>1. UNCHANGED <<class, file, saved, saveNextID>>
  BY DEF Add, Idle
<1>2. x \in Item
  BY SamplesAssumption DEF TXInv
<1>3. IsGood(class, itemMap, nextID, saveNextID)
  BY GoodObject DEF StoreInv
<1> SUFFICES IsGood(class, itemMap', nextID', saveNextID)
  BY <1>1, StoreAfter
<1>4. CASE class \in Persistent
  <2>1. class # "RecInfoText" /\ class # "ChText5"
    BY <1>4 DEF Persistent
  <2>2. /\ itemMap' = Inserted(itemMap, nextID, x) /\ nextID' = Following(nextID)
        /\ \A i \in DOMAIN itemMap : Near(i, Following(nextID))
    BY <1>4, <2>1 DEF Add
  <2> QED
    BY <1>2, <1>3, <1>4, <2>2, OneMoreID
<1>5. CASE class = "RecInfoText"
  <2>1. class \notin Persistent
    BY <1>5 DEF Persistent
  <2>2. PICK keys : itemMap' = Without(With(itemMap, nextID, x), keys)
    BY <1>5, <2>1 DEF Add
  <2>3. nextID' = nextID + 1
    BY <1>5, <2>1 DEF Add
  <2>4. nextID \in Nat
    BY <1>3, <2>1 DEF IsGood
  <2>5. IsGood(class, With(itemMap, nextID, x), nextID, saveNextID)
    BY <1>2, <1>3, <1>5, <2>1, <2>4, OneMoreItem
  <2>6. IsItemMap(itemMap')
    BY <2>2, <2>5, WithoutItem DEF IsGood
  <2>7. ByNetwork(class, itemMap')
    BY <1>5 DEF ByNetwork
  <2> QED
    BY <2>1, <2>3, <2>4, <2>6, <2>7 DEF IsGood
<1>6. CASE class = "ChText5"
  <2>1. class \notin Persistent
    BY <1>6 DEF Persistent
  <2>2. itemMap' = With(itemMap, When[x.name], x) /\ nextID' = nextID
    BY <1>6, <2>1 DEF Add
  <2>3. When[x.name] \in Nat
    BY <1>2, ItemShape, Limits
  <2> QED
    BY <1>2, <1>3, <2>1, <2>2, <2>3, OneMoreItem
<1>7. CASE class \notin Persistent \cup {"RecInfoText", "ChText5"}
  <2>1. itemMap' = Inserted(itemMap, KeyBehind(itemMap), x) /\ nextID' = nextID
    BY <1>7 DEF Add
  <2>2. KeyBehind(itemMap) \in Nat
    BY <1>3, KeyBehindShape DEF IsGood
  <2> QED
    BY <1>2, <1>3, <1>7, <2>1, <2>2, OneMoreItem
<1> QED
  BY <1>4, <1>5, <1>6, <1>7

LEMMA ChgStore ==
  ASSUME TXInv, StoreInv, NEW id \in DOMAIN itemMap, NEW x \in Samples[class], Chg(id, x)
  PROVE  StoreInv'
<1>1. /\ UNCHANGED <<class, file, saved, nextID, saveNextID>> /\ class \in Persistent
      /\ itemMap' = With(itemMap, id, x)
  BY DEF Chg, Idle
<1>2. x \in Item
  BY SamplesAssumption DEF TXInv
<1>3. IsGood(class, itemMap, nextID, saveNextID)
  BY GoodObject DEF StoreInv
<1>4. id \in Nat
  BY <1>3 DEF IsGood, IsItemMap
<1>5. IsItemMap(itemMap') /\ DOMAIN itemMap' \subseteq DOMAIN itemMap
  <2>1. IsItemMap(itemMap)
    BY <1>3 DEF IsGood
  <2>2. /\ IsItemMap(With(itemMap, id, x))
        /\ DOMAIN With(itemMap, id, x) = DOMAIN itemMap \cup {id}
    BY <1>2, <1>4, <2>1, WithItem
  <2> QED
    BY <1>1, <2>2
<1>6. ByNetwork(class, itemMap')
  BY <1>1 DEF ByNetwork, Persistent
<1> QED
  BY <1>1, <1>3, <1>5, <1>6, FewerKeys, StoreAfter

LEMMA DelStore ==
  ASSUME TXInv, StoreInv, NEW id \in DOMAIN itemMap, Del(id)
  PROVE  StoreInv'
<1>1. /\ UNCHANGED <<class, file, saved, nextID, saveNextID>> /\ class # "ChText5"
      /\ \E keys : itemMap' = Without(itemMap, keys)
  BY DEF Del, Idle
<1>2. PICK keys : itemMap' = Without(itemMap, keys)
  BY <1>1
<1>3. IsGood(class, itemMap, nextID, saveNextID)
  BY GoodObject DEF StoreInv
<1>4. IsItemMap(itemMap') /\ DOMAIN itemMap' \subseteq DOMAIN itemMap
  BY <1>2, <1>3, WithoutItem DEF IsGood
<1>5. ByNetwork(class, itemMap')
  BY <1>1 DEF ByNetwork
<1> QED
  BY <1>1, <1>3, <1>4, <1>5, FewerKeys, StoreAfter

\* One field of one item, and not its name.
LEMMA FieldStore ==
  ASSUME StoreInv, UNCHANGED <<class, file, saved, nextID, saveNextID>>,
         NEW id \in DOMAIN itemMap, NEW x \in Item, x.name = itemMap[id].name,
         itemMap' = [itemMap EXCEPT ![id] = x]
  PROVE  StoreInv'
<1>1. IsGood(class, itemMap, nextID, saveNextID)
  BY GoodObject DEF StoreInv
<1>2. IsItemMap(itemMap')
  BY <1>1, ChangedItem DEF IsGood
<1>3. /\ DOMAIN itemMap' = DOMAIN itemMap
      /\ \A i \in DOMAIN itemMap : itemMap'[i].name = itemMap[i].name
  OBVIOUS
<1>4. ByNetwork(class, itemMap')
  BY <1>1, <1>3 DEF ByNetwork, IsGood
<1> QED
  BY <1>1, <1>2, <1>3, <1>4, FewerKeys, StoreAfter

LEMMA SetUnsavedStore ==
  ASSUME StoreInv, NEW id \in DOMAIN itemMap, SetUnsaved(id)
  PROVE  StoreInv'
<1> DEFINE x == [itemMap[id] EXCEPT !.unsaved = 1]
<1>1. itemMap[id] \in Item
  BY GoodObject DEF StoreInv, IsGood, IsItemMap
<1>2. x \in Item /\ x.name = itemMap[id].name
  BY <1>1 DEF Item
<1>3. /\ UNCHANGED <<class, file, saved, nextID, saveNextID>>
      /\ itemMap' = [itemMap EXCEPT ![id] = x]
  BY DEF SetUnsaved, Idle
<1> HIDE DEF x
<1> QED
  BY <1>2, <1>3, FieldStore

LEMMA ChangeFlagStore ==
  ASSUME StoreInv, NEW id \in DOMAIN itemMap, NEW flag \in BOOLEAN, ChangeFlag(id, flag)
  PROVE  StoreInv'
<1> DEFINE x == [itemMap[id] EXCEPT !.flag = flag]
<1>1. itemMap[id] \in Item
  BY GoodObject DEF StoreInv, IsGood, IsItemMap
<1>2. x \in Item /\ x.name = itemMap[id].name
  BY <1>1 DEF Item
<1>3. /\ UNCHANGED <<class, file, saved, nextID, saveNextID>>
      /\ itemMap' = [itemMap EXCEPT ![id] = x]
  BY DEF ChangeFlag, Idle
<1> HIDE DEF x
<1> QED
  BY <1>2, <1>3, FieldStore

LEMMA SetNextIDStore ==
  ASSUME StoreInv, NEW id \in 1 .. LastID, SetNextID(id)
  PROVE  StoreInv'
<1>1. /\ UNCHANGED <<class, file, saved, itemMap, saveNextID>> /\ class = "RecInfoText"
      /\ nextID' = MaxOf(id, nextID)
  BY DEF SetNextID, Idle
<1>2. class \notin Persistent
  BY <1>1 DEF Persistent
<1>3. IsGood(class, itemMap, nextID, saveNextID)
  BY GoodObject DEF StoreInv
<1>4. nextID' \in Nat
  BY <1>1, <1>2, <1>3 DEF IsGood, MaxOf
<1>5. IsGood(class, itemMap', nextID', saveNextID)
  BY <1>1, <1>2, <1>3, <1>4 DEF IsGood
<1> QED
  BY <1>1, <1>5, StoreAfter

\* Nothing of the file nor of what goes into it.
LEMMA SameStore ==
  ASSUME StoreInv, UNCHANGED <<class, itemMap, nextID, saveNextID, file, saved>>
  PROVE  StoreInv'
<1>1. Object' = Object
  BY DEF Object
<1> QED
  BY <1>1 DEF StoreInv

LEMMA StoreStep ==
  ASSUME TXInv, StoreInv, [TXNext]_txVars
  PROVE  StoreInv'
<1>1. CASE ParseText
  BY <1>1, ParseTextStore
<1>2. CASE ReadError
  BY <1>2, ReadErrorStore
<1>3. CASE SaveText
  BY <1>3, SameStore DEF SaveText
<1>4. CASE MoveFile
  BY <1>4, MoveFileStore
<1>5. CASE Crash
  BY <1>5, CrashStore
<1>6. CASE GetSortByEventList
  BY <1>6, SameStore DEF GetSortByEventList, Idle
<1>7. ASSUME NEW x \in Samples[class], Add(x)
      PROVE  StoreInv'
  BY <1>7, AddStore
<1>8. ASSUME NEW id \in DOMAIN itemMap,
             \/ \E x \in Samples[class] : Chg(id, x)
             \/ SetUnsaved(id) \/ Del(id)
             \/ \E flag \in BOOLEAN : ChgProtectRecInfo(id, flag) \/ SetEpgCapMode(id, flag)
      PROVE  StoreInv'
  <2>1. ASSUME NEW x \in Samples[class], Chg(id, x)
        PROVE  StoreInv'
    BY <2>1, ChgStore
  <2>2. CASE SetUnsaved(id)
    BY <2>2, SetUnsavedStore
  <2>3. CASE Del(id)
    BY <2>3, DelStore
  <2>4. ASSUME NEW flag \in BOOLEAN, ChgProtectRecInfo(id, flag) \/ SetEpgCapMode(id, flag)
        PROVE  StoreInv'
    BY <2>4, ChangeFlagStore DEF ChgProtectRecInfo, SetEpgCapMode
  <2> QED
    BY <1>8, <2>1, <2>2, <2>3, <2>4
<1>9. ASSUME NEW id \in 1 .. LastID, SetNextID(id)
      PROVE  StoreInv'
  BY <1>9, SetNextIDStore
<1>10. CASE UNCHANGED txVars
  BY <1>10, SameStore DEF txVars
<1> QED
  BY <1>1, <1>2, <1>3, <1>4, <1>5, <1>6, <1>7, <1>8, <1>9, <1>10 DEF TXNext

-----------------------------------------------------------------------------
(* What the next process finds.                                            *)

\* The last line of a file is a footer only where one was written.
LEMMA FooterIsLast ==
  ASSUME NEW c \in DOMAIN LineOf, NEW q, Good(c, q), ObjectText(c, q) # <<>>,
         Last(ObjectText(c, q))[1].f = "NextID"
  PROVE  HasFooterLine(c, q.save)
<1> DEFINE text == ObjectText(c, q)
<1> SUFFICES ASSUME ~HasFooterLine(c, q.save) PROVE FALSE
  OBVIOUS
<1>1. IsItemMap(q.map)
  BY DEF Good
<1>2. PICK keys : Writes(text, keys, c, q.map, q.save, q.next)
  BY <1>1, TextWrites DEF ObjectText
<1>3. text # <<>> /\ text[Len(text)][1].f = "NextID"
  BY DEF Last
<1> HIDE DEF text
<1>4. /\ Lists(keys, Kept(c, q.map)) /\ Len(keys) \in Nat /\ IsSequence(text)
      /\ Len(text) = Len(keys)
      /\ \A j \in 1 .. Len(keys) : text[j] = Line(c, keys[j], q.map[keys[j]])
  BY <1>2 DEF Writes
<1>5. Len(text) # 0
  <2>1. PICK S : text \in Seq(S)
    BY <1>4 DEF IsSequence
  <2> QED
    BY <1>3, <2>1
<1> DEFINE j == Len(keys)
<1>6. j \in 1 .. Len(keys) /\ j = Len(text)
  BY <1>4, <1>5
<1>7. keys[j] \in DOMAIN q.map /\ q.map[keys[j]] \in Item
  <2>1. keys[j] \in Kept(c, q.map)
    BY <1>4, <1>6 DEF Lists
  <2> QED
    BY <1>1, <2>1, KeptFacts
<1>8. Line(c, keys[j], q.map[keys[j]])[1].f # "NextID"
  BY <1>7, LinesReadBack DEF ReadsBack
<1>9. text[j] = Line(c, keys[j], q.map[keys[j]])
  BY <1>4, <1>6
<1> QED
  BY <1>3, <1>6, <1>8, <1>9

LEMMA NothingContained ==
  ASSUME NEW c
  PROVE  Contents(c, <<>>) = <<>>
<1> DEFINE h == Holds(c, <<>>)
<1>1. DOMAIN <<>> = {}
  OBVIOUS
<1>2. h = <<>>
  BY <1>1 DEF Holds, Kept, SavedKeys, Latest
<1>3. Tally(<<>>) = <<>>
  BY DEF Tally
<1>4. Contents(c, <<>>) = IF c \in Persistent \cup {"ChText5"} THEN h ELSE Tally(h)
  BY ContentsShape
<1> QED
  BY <1>2, <1>3, <1>4

LEMMA StoreRestores ==
  ASSUME TXInv, StoreInv
  PROVE  ReloadRestores
<1>0. class \in DOMAIN LineOf
  BY SamplesAssumption DEF TXInv
<1>1. CASE file = Absent
  <2>1. Restart = NewObject /\ saved = NothingSaved
    BY <1>1 DEF Restart, StoreInv, OnDisk
  <2>2. Contents(class, Restart.map) = saved.items
    BY <2>1, NothingContained DEF NewObject, NothingSaved
  <2> QED
    BY <1>1, <2>2 DEF ReloadRestores, HasFooter
<1>2. CASE file # Absent
  <2>1. Restart = Parsed(class, NewObject, file)
    BY <1>2 DEF Restart
  <2>2. PICK q : FromFile(class, file, saved, q, Object)
    BY <1>2 DEF StoreInv, OnDisk
  <2>3. /\ Good(class, q) /\ file = ObjectText(class, q)
        /\ saved.items = Contents(class, q.map)
        /\ HasFooterLine(class, q.save) => saved.next = q.next
    BY <2>2 DEF FromFile
  <2>4. Restored(Restart, class, q, NewObject)
    BY <1>0, <2>1, <2>3, NewObjectIsGood, ReadsWhole
  <2>5. NewObject.next = 1
    BY DEF NewObject
  <2>6. HasFooter => HasFooterLine(class, q.save)
    BY <1>0, <2>3, FooterIsLast DEF HasFooter
  <2> QED
    BY <2>3, <2>4, <2>5, <2>6 DEF Restored, ReloadRestores
<1> QED
  BY <1>1, <1>2

LEMMA StoreInvariance == TXSpec => []StoreInv
<1>1. TXInv /\ StoreInv /\ [TXNext]_txVars => StoreInv'
  BY StoreStep
<1> QED
  BY InitStore, <1>1, TXInvariance, PTL DEF TXSpec

\* Whenever the process dies, in every class and however often ids have gone round, the
\* next one finds what the last successful save put into the file: the same items, under
\* the same ids where ids are to last, and where the file has a footer the same next id,
\* which no item has (ParseText.h:124-155, ParseTextInstances.cpp:549-555, 656, 729-752).
THEOREM ReloadAlways == TXSpec => []ReloadRestores
<1>1. TXInv /\ StoreInv => ReloadRestores
  BY StoreRestores
<1> QED
  BY <1>1, TXInvariance, StoreInvariance, PTL

\* No item has the next id, so that AddReserve and its like, whose insert does not
\* replace, put in what they are given and return an id of its own.  A list of
\* reservations without a footer is left out: it is written in the order of time, from
\* which AfterItem cannot tell on which round an id is.
NextIDIsFree == ByRound(class, saveNextID) => nextID \notin DOMAIN itemMap

\* An id that is in use is not given out again, over saves, crashes, loads, read errors
\* and rounds of ids (ParseTextInstances.cpp:495-501, 549-555, 656).
THEOREM NewIDIsFree == TXSpec => []NextIDIsFree
<1>1. StoreInv => NextIDIsFree
  <2> SUFFICES ASSUME StoreInv, ByRound(class, saveNextID), nextID \in DOMAIN itemMap
               PROVE  FALSE
    BY DEF NextIDIsFree
  <2>1. class \in Persistent
    BY DEF ByRound
  <2>2. nextID \in 1 .. LastID /\ Near(nextID, nextID)
    BY <2>1, GoodObject DEF StoreInv, IsGood
  <2> QED
    BY <2>2, NextIsFree
<1> QED
  BY <1>1, StoreInvariance, PTL
=============================================================================
