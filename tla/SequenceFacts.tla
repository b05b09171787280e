--------------------------- MODULE SequenceFacts ---------------------------
(***************************************************************************)
(* What the operators of SequenceFolds return, for sequences of any length.*)
(* The library's induction theorems take operators, which the provers do   *)
(* not instantiate; here a statement about n is the set of the numbers it  *)
(* holds for, and induction is that this set has no least outsider.        *)
(***************************************************************************)
EXTENDS SequenceFolds, SequenceTheorems, WellFoundedInduction, TLAPS

\* A set of natural numbers has a least one.
LEMMA NatSetMin ==
    ASSUME NEW T, T \subseteq Nat, T # {}
    PROVE  \E x \in T : \A y \in T : x <= y
  <1>1. PICK x \in T : \A y \in T : ~(<<y, x>> \in OpToRel(<, Nat))
    BY WFMin, NatLessThanWellFounded, Zenon
  <1>2. ASSUME NEW y \in T PROVE x <= y
    <2>1. x \in Nat /\ y \in Nat
      OBVIOUS
    <2>2. y < x => <<y, x>> \in OpToRel(<, Nat)
      BY <2>1 DEF OpToRel
    <2>3. ~(y < x)
      BY <1>1, <2>2, Zenon
    <2> QED BY <2>1, <2>3
  <1> QED BY <1>2

\* A set with 0 and with n + 1 for each of its n has every natural number.
LEMMA NatSetInduction ==
    ASSUME NEW S, 0 \in S, \A n \in Nat : n \in S => n + 1 \in S
    PROVE  \A n \in Nat : n \in S
  <1> DEFINE T == {n \in Nat : n \notin S}
  <1> SUFFICES ASSUME T # {} PROVE FALSE
    OBVIOUS
  <1>1. PICK x \in T : \A y \in T : x <= y
    <2>1. T \subseteq Nat
      OBVIOUS
    <2> HIDE DEF T
    <2> QED BY <2>1, NatSetMin
  <1>2. x \in Nat /\ x # 0 /\ x - 1 \in Nat /\ x - 1 + 1 = x
    OBVIOUS
  <1>3. x - 1 \notin T
    BY <1>1, <1>2
  <1> QED BY <1>2, <1>3

\* The same up to a bound.
LEMMA IntervalInduction ==
    ASSUME NEW N \in Nat, NEW S, 0 \in S, \A n \in 0 .. N - 1 : n \in S => n + 1 \in S
    PROVE  \A n \in 0 .. N : n \in S
  <1> DEFINE T == {n \in Nat : n \in 0 .. N => n \in S}
  <1>1. 0 \in T
    OBVIOUS
  <1>2. \A n \in Nat : n \in T => n + 1 \in T
    OBVIOUS
  <1> HIDE DEF T
  <1>3. \A n \in Nat : n \in T
    BY <1>1, <1>2, NatSetInduction
  <1> QED BY <1>3 DEF T

-----------------------------------------------------------------------------
(* The recursive functions exist, so that they are what their equations say. *)

LEMMA FilteredToDef ==
    ASSUME NEW s, NEW S, Len(s) \in Nat
    PROVE  FilteredTo(s, S) =
               [n \in 0 .. Len(s) |->
                   IF n = 0 THEN <<>>
                   ELSE IF s[n] \in S THEN Append(FilteredTo(s, S)[n - 1], s[n])
                   ELSE FilteredTo(s, S)[n - 1]]
  <1> DEFINE Val(g, n) == IF n = 0 THEN <<>>
                          ELSE IF s[n] \in S THEN Append(g[n - 1], s[n]) ELSE g[n - 1]
             Def(g, n) == g = [i \in 0 .. n |-> Val(g, i)]
             D == {n \in Nat : \E g : Def(g, n)}
  <1>1. 0 \in D
    <2>1. Def([i \in 0 .. 0 |-> <<>>], 0)
      OBVIOUS
    <2> QED BY <2>1
  <1>2. ASSUME NEW n \in Nat, n \in D PROVE n + 1 \in D
    <2>1. PICK g : Def(g, n)
      BY <1>2
    <2> DEFINE v == Val(g, n + 1)
               h == [i \in 0 .. n + 1 |-> IF i = n + 1 THEN v ELSE g[i]]
    <2>2. ASSUME NEW i \in 0 .. n + 1 PROVE h[i] = Val(h, i)
      <3>1. CASE i = n + 1
        <4>1. h[i] = v /\ h[i - 1] = g[n]
          BY <3>1
        <4> QED BY <3>1, <4>1
      <3>2. CASE i \in 0 .. n
        <4>1. h[i] = g[i] /\ (i # 0 => h[i - 1] = g[i - 1])
          BY <3>2
        <4>2. g[i] = Val(g, i)
          BY <2>1, <3>2
        <4> QED BY <3>2, <4>1, <4>2
      <3> QED BY <3>1, <3>2
    <2>3. h = [i \in 0 .. n + 1 |-> h[i]]
      OBVIOUS
    <2> HIDE DEF h, Val
    <2>4. Def(h, n + 1)
      BY <2>2, <2>3
    <2> HIDE DEF Def
    <2> QED BY <2>4
  <1> HIDE DEF D
  <1>3. Len(s) \in D
    BY <1>1, <1>2, NatSetInduction
  <1>4. \E g : Def(g, Len(s))
    BY <1>3 DEF D
  <1> DEFINE F == CHOOSE g : Def(g, Len(s))
  <1>5. Def(F, Len(s))
    <2> HIDE DEF Def
    <2> QED BY <1>4, Zenon
  <1>6. FilteredTo(s, S) = F
    BY Zenon DEF FilteredTo
  <1> HIDE DEF F
  <1> QED BY <1>5, <1>6, Zenon

LEMMA JoinedToDef ==
    ASSUME NEW s, Len(s) \in Nat
    PROVE  JoinedTo(s) =
               [n \in 0 .. Len(s) |->
                   IF n = 0 THEN <<>> ELSE JoinedTo(s)[n - 1] \o s[n]]
  <1> DEFINE Val(g, n) == IF n = 0 THEN <<>> ELSE g[n - 1] \o s[n]
             Def(g, n) == g = [i \in 0 .. n |-> Val(g, i)]
             D == {n \in Nat : \E g : Def(g, n)}
  <1>1. 0 \in D
    <2>1. Def([i \in 0 .. 0 |-> <<>>], 0)
      OBVIOUS
    <2> QED BY <2>1
  <1>2. ASSUME NEW n \in Nat, n \in D PROVE n + 1 \in D
    <2>1. PICK g : Def(g, n)
      BY <1>2
    <2> DEFINE v == Val(g, n + 1)
               h == [i \in 0 .. n + 1 |-> IF i = n + 1 THEN v ELSE g[i]]
    <2>2. ASSUME NEW i \in 0 .. n + 1 PROVE h[i] = Val(h, i)
      <3>1. CASE i = n + 1
        <4>1. h[i] = v /\ h[i - 1] = g[n]
          BY <3>1
        <4> QED BY <3>1, <4>1
      <3>2. CASE i \in 0 .. n
        <4>1. h[i] = g[i] /\ (i # 0 => h[i - 1] = g[i - 1])
          BY <3>2
        <4>2. g[i] = Val(g, i)
          BY <2>1, <3>2
        <4> QED BY <3>2, <4>1, <4>2
      <3> QED BY <3>1, <3>2
    <2>3. h = [i \in 0 .. n + 1 |-> h[i]]
      OBVIOUS
    <2> HIDE DEF h, Val
    <2>4. Def(h, n + 1)
      BY <2>2, <2>3
    <2> HIDE DEF Def
    <2> QED BY <2>4
  <1> HIDE DEF D
  <1>3. Len(s) \in D
    BY <1>1, <1>2, NatSetInduction
  <1>4. \E g : Def(g, Len(s))
    BY <1>3 DEF D
  <1> DEFINE F == CHOOSE g : Def(g, Len(s))
  <1>5. Def(F, Len(s))
    <2> HIDE DEF Def
    <2> QED BY <1>4, Zenon
  <1>6. JoinedTo(s) = F
    BY Zenon DEF JoinedTo
  <1> HIDE DEF F
  <1> QED BY <1>5, <1>6, Zenon

-----------------------------------------------------------------------------
(* Filtering. *)

\* What the filter keeps of one element more.
LEMMA FilteredStep ==
    ASSUME NEW X, NEW s \in Seq(X), NEW S
    PROVE  /\ FilteredTo(s, S)[0] = <<>>
           /\ \A n \in 0 .. Len(s) - 1 :
                  FilteredTo(s, S)[n + 1] =
                      IF s[n + 1] \in S THEN Append(FilteredTo(s, S)[n], s[n + 1])
                      ELSE FilteredTo(s, S)[n]
  <1> DEFINE F == FilteredTo(s, S)
  <1>0. Len(s) \in Nat
    OBVIOUS
  <1>1. F = [n \in 0 .. Len(s) |->
                IF n = 0 THEN <<>>
                ELSE IF s[n] \in S THEN Append(F[n - 1], s[n]) ELSE F[n - 1]]
    BY <1>0, FilteredToDef
  <1> HIDE DEF F
  <1>2. \A n \in 0 .. Len(s) : F[n] = IF n = 0 THEN <<>>
                ELSE IF s[n] \in S THEN Append(F[n - 1], s[n]) ELSE F[n - 1]
    BY <1>1
  <1>3. F[0] = <<>>
    BY <1>0, <1>2
  <1>4. ASSUME NEW n \in 0 .. Len(s) - 1
        PROVE  F[n + 1] = IF s[n + 1] \in S THEN Append(F[n], s[n + 1]) ELSE F[n]
    <2>1. n + 1 \in 0 .. Len(s) /\ n + 1 # 0 /\ n + 1 - 1 = n
      BY <1>0
    <2> QED BY <1>2, <2>1
  <1> QED BY <1>3, <1>4 DEF F

\* A filter has a sequence of elements of s that are in S.
LEMMA FilteredType ==
    ASSUME NEW X, NEW s \in Seq(X), NEW S
    PROVE  \A n \in 0 .. Len(s) : FilteredTo(s, S)[n] \in Seq(X \cap S)
  <1> DEFINE F == FilteredTo(s, S)
             D == {n \in 0 .. Len(s) : F[n] \in Seq(X \cap S)}
  <1>0. Len(s) \in Nat
    OBVIOUS
  <1>1. F[0] = <<>> /\ \A n \in 0 .. Len(s) - 1 :
            F[n + 1] = IF s[n + 1] \in S THEN Append(F[n], s[n + 1]) ELSE F[n]
    BY FilteredStep
  <1> HIDE DEF F
  <1>2. 0 \in D
    <2>1. 0 \in 0 .. Len(s) /\ <<>> \in Seq(X \cap S)
      BY <1>0
    <2> QED BY <1>1, <2>1
  <1>3. ASSUME NEW n \in 0 .. Len(s) - 1, n \in D PROVE n + 1 \in D
    <2>1. n + 1 \in 0 .. Len(s) /\ s[n + 1] \in X
      BY <1>0
    <2>2. F[n] \in Seq(X \cap S)
      BY <1>3
    <2>3. CASE s[n + 1] \in S
      <3>1. F[n + 1] = Append(F[n], s[n + 1])
        BY <1>1, <2>3
      <3>2. Append(F[n], s[n + 1]) \in Seq(X \cap S)
        BY <2>1, <2>2, <2>3
      <3> QED BY <2>1, <3>1, <3>2
    <2>4. CASE s[n + 1] \notin S
      BY <1>1, <2>1, <2>2, <2>4
    <2> QED BY <2>3, <2>4
  <1> HIDE DEF D
  <1>4. \A n \in 0 .. Len(s) : n \in D
    BY <1>0, <1>2, <1>3, IntervalInduction
  <1> QED BY <1>4 DEF D, F

LEMMA FilterType ==
    ASSUME NEW X, NEW s \in Seq(X), NEW S
    PROVE  Filter(s, S) \in Seq(X \cap S)
  <1>1. Len(s) \in 0 .. Len(s)
    OBVIOUS
  <1> QED BY <1>1, FilteredType DEF Filter

\* p is the beginning of q.
Starts(p, q) == Len(p) <= Len(q) /\ \A k \in 1 .. Len(p) : q[k] = p[k]

\* What is kept of the first m elements begins what is kept of the first n.
LEMMA FilteredGrows ==
    ASSUME NEW X, NEW s \in Seq(X), NEW S
    PROVE  \A m, n \in 0 .. Len(s) :
               m <= n => Starts(FilteredTo(s, S)[m], FilteredTo(s, S)[n])
  <1> TAKE m \in 0 .. Len(s)
  <1> DEFINE F == FilteredTo(s, S)
             Begins(n) == Starts(F[m], F[n])
             D == {d \in 0 .. Len(s) - m : Begins(m + d)}
  <1>0. Len(s) \in Nat /\ m \in Nat /\ Len(s) - m \in Nat
    OBVIOUS
  <1>1. \A n \in 0 .. Len(s) - 1 :
            F[n + 1] = IF s[n + 1] \in S THEN Append(F[n], s[n + 1]) ELSE F[n]
    BY FilteredStep
  <1>2. \A n \in 0 .. Len(s) : F[n] \in Seq(X \cap S)
    BY FilteredType
  <1> HIDE DEF F
  <1>3. 0 \in D
    BY <1>0, <1>2 DEF Starts
  <1>4. ASSUME NEW d \in 0 .. (Len(s) - m) - 1, d \in D PROVE d + 1 \in D
    <2>1. m + d \in 0 .. Len(s) - 1 /\ m + (d + 1) = (m + d) + 1
          /\ d + 1 \in 0 .. Len(s) - m /\ m + d + 1 \in 0 .. Len(s)
      BY <1>0
    <2>2. F[m + d] \in Seq(X \cap S) /\ F[m] \in Seq(X \cap S)
      BY <1>2, <2>1
    <2>3. Begins(m + d)
      BY <1>4
    <2>4. F[(m + d) + 1] = IF s[(m + d) + 1] \in S THEN Append(F[m + d], s[(m + d) + 1])
                           ELSE F[m + d]
      BY <1>1, <2>1
    <2>5. Begins((m + d) + 1)
      BY <2>2, <2>3, <2>4 DEF Starts
    <2> QED BY <2>1, <2>5
  <1> HIDE DEF D
  <1>5. \A d \in 0 .. Len(s) - m : d \in D
    BY <1>0, <1>3, <1>4, IntervalInduction
  <1>6. ASSUME NEW n \in 0 .. Len(s), m <= n PROVE Begins(n)
    <2>1. n - m \in 0 .. Len(s) - m /\ m + (n - m) = n
      BY <1>0, <1>6
    <2> QED BY <1>5, <2>1 DEF D
  <1> QED BY <1>6 DEF F

\* The filter keeps exactly the elements of S.
LEMMA FilterElements ==
    ASSUME NEW X, NEW s \in Seq(X), NEW S
    PROVE  /\ \A i \in DOMAIN Filter(s, S) :
                  /\ Filter(s, S)[i] \in S
                  /\ \E j \in DOMAIN s : s[j] = Filter(s, S)[i]
           /\ \A j \in DOMAIN s :
                  s[j] \in S => \E i \in DOMAIN Filter(s, S) : Filter(s, S)[i] = s[j]
  <1> DEFINE Y == {s[j] : j \in DOMAIN s}
             F == FilteredTo(s, S)
  <1>0. Len(s) \in Nat /\ DOMAIN s = 1 .. Len(s)
    OBVIOUS
  <1>1. s \in Seq(Y)
    BY <1>0
  <1>2. Filter(s, S) \in Seq(Y \cap S)
    BY <1>1, FilterType
  <1>3. ASSUME NEW j \in DOMAIN s, s[j] \in S
        PROVE  \E i \in DOMAIN Filter(s, S) : Filter(s, S)[i] = s[j]
    <2>1. j - 1 \in 0 .. Len(s) - 1 /\ (j - 1) + 1 = j /\ j \in 0 .. Len(s)
      BY <1>0
    <2>2. F[j] = Append(F[j - 1], s[j])
      <3> DEFINE i == j - 1
      <3>1. F[i + 1] = IF s[i + 1] \in S THEN Append(F[i], s[i + 1]) ELSE F[i]
        <4>1. i \in 0 .. Len(s) - 1
          BY <2>1
        <4> HIDE DEF i
        <4> QED BY <4>1, FilteredStep
      <3> HIDE DEF F
      <3> QED BY <1>3, <2>1, <3>1
    <2>3. F[j - 1] \in Seq(X \cap S) /\ F[j] \in Seq(X \cap S)
      BY <2>1, <1>0, FilteredType
    <2>4. Len(s) \in 0 .. Len(s) /\ j <= Len(s)
      BY <1>0, <2>1
    <2>5. Starts(F[j], F[Len(s)])
      BY <2>1, <2>4, FilteredGrows
    <2>6. F[Len(s)] \in Seq(X \cap S)
      BY <1>0, FilteredType
    <2> HIDE DEF F
    <2>7. Len(F[j]) \in 1 .. Len(F[j]) /\ F[j][Len(F[j])] = s[j]
      BY <2>2, <2>3
    <2>8. Len(F[j]) \in DOMAIN F[Len(s)]
      BY <2>3, <2>5, <2>6, <2>7 DEF Starts
    <2>9. Filter(s, S) = F[Len(s)]
      BY DEF Filter, F
    <2> QED BY <2>5, <2>7, <2>8, <2>9 DEF Starts
  <1>4. ASSUME NEW i \in DOMAIN Filter(s, S)
        PROVE  Filter(s, S)[i] \in S /\ \E j \in DOMAIN s : s[j] = Filter(s, S)[i]
    <2>1. Filter(s, S)[i] \in Y \cap S
      BY <1>2
    <2> QED BY <2>1
  <1> QED BY <1>3, <1>4

\* A filter that lets everything pass changes nothing.
LEMMA FilterAll ==
    ASSUME NEW X, NEW s \in Seq(X), NEW S, \A i \in DOMAIN s : s[i] \in S
    PROVE  Filter(s, S) = s
  <1> DEFINE F == FilteredTo(s, S)
             D == {n \in 0 .. Len(s) : F[n] = SubSeq(s, 1, n)}
  <1>0. Len(s) \in Nat
    OBVIOUS
  <1>1. F[0] = <<>> /\ \A n \in 0 .. Len(s) - 1 :
            F[n + 1] = IF s[n + 1] \in S THEN Append(F[n], s[n + 1]) ELSE F[n]
    BY FilteredStep
  <1> HIDE DEF F
  <1>2. 0 \in D
    <2>1. 0 \in 0 .. Len(s) /\ SubSeq(s, 1, 0) = <<>>
      BY <1>0
    <2> QED BY <1>1, <2>1
  <1>3. ASSUME NEW n \in 0 .. Len(s) - 1, n \in D PROVE n + 1 \in D
    <2>1. n + 1 \in 0 .. Len(s) /\ n + 1 \in DOMAIN s /\ s[n + 1] \in S
      BY <1>0
    <2>2. F[n + 1] = Append(SubSeq(s, 1, n), s[n + 1])
      BY <1>1, <1>3, <2>1
    <2>3. Append(SubSeq(s, 1, n), s[n + 1]) = SubSeq(s, 1, n + 1)
      BY <1>0, <2>1
    <2> QED BY <2>1, <2>2, <2>3
  <1> HIDE DEF D
  <1>4. Len(s) \in D
    BY <1>0, <1>2, <1>3, IntervalInduction
  <1>5. SubSeq(s, 1, Len(s)) = s
    OBVIOUS
  <1> QED BY <1>4, <1>5 DEF D, F, Filter

\* It is no longer than the sequence, and as long only when it is all of it.
LEMMA FilterLength ==
    ASSUME NEW X, NEW s \in Seq(X), NEW S
    PROVE  /\ Len(Filter(s, S)) \in Nat /\ Len(Filter(s, S)) <= Len(s)
           /\ Len(Filter(s, S)) = Len(s) => Filter(s, S) = s
  <1> DEFINE F == FilteredTo(s, S)
             D == {n \in 0 .. Len(s) :
                      /\ Len(F[n]) \in Nat /\ Len(F[n]) <= n
                      /\ Len(F[n]) = n => \A i \in 1 .. n : s[i] \in S}
  <1>0. Len(s) \in Nat
    OBVIOUS
  <1>1. F[0] = <<>> /\ \A n \in 0 .. Len(s) - 1 :
            F[n + 1] = IF s[n + 1] \in S THEN Append(F[n], s[n + 1]) ELSE F[n]
    BY FilteredStep
  <1>2. \A n \in 0 .. Len(s) : F[n] \in Seq(X \cap S)
    BY FilteredType
  <1> HIDE DEF F
  <1>3. 0 \in D
    <2>1. 0 \in 0 .. Len(s) /\ Len(<<>>) = 0
      BY <1>0
    <2> QED BY <1>1, <2>1
  <1>4. ASSUME NEW n \in 0 .. Len(s) - 1, n \in D PROVE n + 1 \in D
    <2>1. n \in 0 .. Len(s) /\ n + 1 \in 0 .. Len(s) /\ n \in Nat /\ s[n + 1] \in X
      BY <1>0
    <2>2. /\ F[n] \in Seq(X \cap S) /\ Len(F[n]) \in Nat /\ Len(F[n]) <= n
          /\ Len(F[n]) = n => \A i \in 1 .. n : s[i] \in S
      BY <1>2, <1>4, <2>1
    <2>3. CASE s[n + 1] \in S
      <3>1. F[n + 1] = Append(F[n], s[n + 1])
        BY <1>1, <2>3
      <3>2. Len(F[n + 1]) = Len(F[n]) + 1
        BY <2>1, <2>2, <2>3, <3>1
      <3>3. Len(F[n + 1]) = n + 1 => \A i \in 1 .. n + 1 : s[i] \in S
        BY <2>1, <2>2, <2>3, <3>2
      <3> QED BY <2>1, <2>2, <3>2, <3>3
    <2>4. CASE s[n + 1] \notin S
      <3>1. F[n + 1] = F[n]
        BY <1>1, <2>4
      <3> QED BY <2>1, <2>2, <3>1
    <2> QED BY <2>3, <2>4
  <1> HIDE DEF D
  <1>5. Len(s) \in D
    <2>1. \A n \in 0 .. Len(s) - 1 : n \in D => n + 1 \in D
      BY <1>4
    <2>2. \A n \in 0 .. Len(s) : n \in D
      BY <1>0, <1>3, <2>1, IntervalInduction
    <2> QED BY <1>0, <2>2
  <1>6. /\ Len(F[Len(s)]) \in Nat /\ Len(F[Len(s)]) <= Len(s)
        /\ Len(F[Len(s)]) = Len(s) => \A i \in 1 .. Len(s) : s[i] \in S
    BY <1>5 DEF D
  <1>7. Filter(s, S) = F[Len(s)]
    BY DEF Filter, F
  <1>8. (\A i \in DOMAIN s : s[i] \in S) => Filter(s, S) = s
    BY FilterAll
  <1>9. DOMAIN s = 1 .. Len(s)
    OBVIOUS
  <1> QED BY <1>6, <1>7, <1>8, <1>9

-----------------------------------------------------------------------------
(* Concatenation. *)

\* Flattening keeps to a set every sequence of which keeps to it.
LEMMA FlattenType ==
    ASSUME NEW X, NEW ss \in Seq(Seq(X))
    PROVE  Flatten(ss) \in Seq(X)
  <1> DEFINE F == JoinedTo(ss)
             D == {n \in 0 .. Len(ss) : F[n] \in Seq(X)}
  <1>0. Len(ss) \in Nat
    OBVIOUS
  <1>1. F = [n \in 0 .. Len(ss) |-> IF n = 0 THEN <<>> ELSE F[n - 1] \o ss[n]]
    BY <1>0, JoinedToDef
  <1> HIDE DEF F
  <1>6. \A n \in 0 .. Len(ss) : n # 0 => F[n] = F[n - 1] \o ss[n]
    BY <1>1, Zenon
  <1>7. 0 \in 0 .. Len(ss) => F[0] = <<>>
    BY <1>1, Zenon
  <1>2. 0 \in D
    <2>1. 0 \in 0 .. Len(ss) /\ F[0] = <<>> /\ <<>> \in Seq(X)
      BY <1>0, <1>7
    <2> QED BY <2>1
  <1>3. ASSUME NEW n \in 0 .. Len(ss) - 1, n \in D PROVE n + 1 \in D
    <2>1. /\ n + 1 \in 0 .. Len(ss) /\ n + 1 # 0 /\ n + 1 - 1 = n
          /\ n + 1 \in DOMAIN ss
      BY <1>0
    <2>2. F[n + 1] = F[n] \o ss[n + 1]
      <3> DEFINE m == n + 1
      <3>1. m \in 0 .. Len(ss) /\ m # 0 /\ m = n + 1 /\ m - 1 = n
        BY <2>1
      <3> HIDE DEF m
      <3>2. F[m] = F[m - 1] \o ss[m]
        BY <1>6, <3>1, Zenon
      <3> QED BY <3>1, <3>2, Zenon
    <2>3. ss[n + 1] \in Seq(X) /\ F[n] \in Seq(X)
      BY <1>3, <2>1
    <2>4. F[n] \o ss[n + 1] \in Seq(X)
      BY <2>3
    <2> QED BY <2>1, <2>2, <2>4
  <1> HIDE DEF D
  <1>4. Len(ss) \in D
    <2>1. Len(ss) \in 0 .. Len(ss)
      BY <1>0
    <2>2. \A n \in 0 .. Len(ss) : n \in D
      BY <1>0, <1>2, <1>3, IntervalInduction
    <2> QED BY <2>1, <2>2
  <1>5. Flatten(ss) = F[Len(ss)]
    BY DEF Flatten, F
  <1> QED BY <1>4, <1>5 DEF D

-----------------------------------------------------------------------------
(* Sequences by their elements: enough for what is said of every call, key *)
(* or operation of a list, whatever its order.                             *)

IsSeq(s) == s \in Seq(Elements(s))

LEMMA SeqElements ==
    ASSUME NEW X, NEW s \in Seq(X)
    PROVE  IsSeq(s) /\ Elements(s) \subseteq X
  BY DEF IsSeq, Elements

LEMMA ElementsSeq ==
    ASSUME NEW X, NEW s, IsSeq(s), Elements(s) \subseteq X
    PROVE  s \in Seq(X)
  BY DEF IsSeq

LEMMA IsSeqFacts ==
    ASSUME NEW s, IsSeq(s)
    PROVE  /\ Len(s) \in Nat /\ DOMAIN s = 1 .. Len(s)
           /\ s = <<>> <=> Elements(s) = {}
           /\ s = <<>> <=> Len(s) = 0
           /\ \A i \in 1 .. Len(s) : s[i] \in Elements(s)
           /\ \A x \in Elements(s) : \E i \in 1 .. Len(s) : s[i] = x
  BY DEF IsSeq, Elements

LEMMA EmptyElements == IsSeq(<<>>) /\ Elements(<<>>) = {}
  BY DEF IsSeq, Elements

LEMMA OneElement ==
    ASSUME NEW x
    PROVE  IsSeq(<<x>>) /\ Elements(<<x>>) = {x}
  BY DEF IsSeq, Elements

\* A function on the places of a sequence is one.
LEMMA MapElements ==
    ASSUME NEW s, IsSeq(s), NEW f, f = [i \in DOMAIN s |-> f[i]]
    PROVE  IsSeq(f) /\ Len(f) = Len(s) /\ Elements(f) = {f[i] : i \in DOMAIN s}
  <1>1. Len(s) \in Nat /\ DOMAIN s = 1 .. Len(s)
    BY IsSeqFacts
  <1>2. f \in Seq({f[i] : i \in DOMAIN s})
    BY <1>1
  <1>3. Elements(f) = {f[i] : i \in DOMAIN s}
    BY <1>1 DEF Elements
  <1>4. Len(f) = Len(s)
    BY <1>1, <1>2
  <1>5. IsSeq(f)
    BY <1>2, SeqElements
  <1> QED BY <1>3, <1>4, <1>5

LEMMA ConcatElements ==
    ASSUME NEW s, NEW t, IsSeq(s), IsSeq(t)
    PROVE  IsSeq(s \o t) /\ Elements(s \o t) = Elements(s) \cup Elements(t)
  <1> DEFINE X == Elements(s) \cup Elements(t)
  <1>1. s \in Seq(X) /\ t \in Seq(X)
    BY ElementsSeq
  <1>2. s \o t \in Seq(X)
    BY <1>1
  <1>3. Elements(s \o t) \subseteq X
    BY <1>2, SeqElements
  <1>4. ASSUME NEW x \in Elements(s) PROVE x \in Elements(s \o t)
    <2>1. PICK i \in 1 .. Len(s) : s[i] = x
      BY IsSeqFacts
    <2>2. i \in DOMAIN (s \o t) /\ (s \o t)[i] = x
      BY <1>1, <2>1
    <2> QED BY <2>2 DEF Elements
  <1>5. ASSUME NEW x \in Elements(t) PROVE x \in Elements(s \o t)
    <2>1. PICK i \in 1 .. Len(t) : t[i] = x
      BY IsSeqFacts
    <2>2. Len(s) + i \in DOMAIN (s \o t) /\ (s \o t)[Len(s) + i] = x
      BY <1>1, <2>1
    <2> QED BY <2>2 DEF Elements
  <1> QED BY <1>2, <1>3, <1>4, <1>5, SeqElements

LEMMA TailElements ==
    ASSUME NEW s, IsSeq(s), s # <<>>
    PROVE  /\ IsSeq(Tail(s)) /\ Elements(Tail(s)) \subseteq Elements(s)
           /\ Head(s) \in Elements(s)
           /\ Elements(s) = {Head(s)} \cup Elements(Tail(s))
  <1> DEFINE X == Elements(s)
  <1>1. s \in Seq(X)
    BY DEF IsSeq
  <1>2. Tail(s) \in Seq(X) /\ Head(s) \in X
    BY <1>1 DEF Elements
  <1>3. s = <<Head(s)>> \o Tail(s)
    BY <1>1
  <1>4. IsSeq(<<Head(s)>>) /\ Elements(<<Head(s)>>) = {Head(s)}
    BY OneElement
  <1>5. IsSeq(Tail(s)) /\ Elements(Tail(s)) \subseteq X
    BY <1>2, SeqElements
  <1> HIDE DEF X
  <1>6. Elements(<<Head(s)>> \o Tail(s)) = {Head(s)} \cup Elements(Tail(s))
    BY <1>4, <1>5, ConcatElements
  <1> QED BY <1>2, <1>3, <1>5, <1>6 DEF X

LEMMA SubSeqElements ==
    ASSUME NEW s, IsSeq(s), NEW m \in Nat \ {0}, NEW n \in Nat, n <= Len(s)
    PROVE  IsSeq(SubSeq(s, m, n)) /\ Elements(SubSeq(s, m, n)) \subseteq Elements(s)
  <1> DEFINE X == Elements(s)
  <1>1. s \in Seq(X)
    BY DEF IsSeq
  <1>2. SubSeq(s, m, n) \in Seq(X)
    BY <1>1
  <1> QED BY <1>2, SeqElements

LEMMA FilterIsSeq ==
    ASSUME NEW s, IsSeq(s), NEW S
    PROVE  IsSeq(Filter(s, S)) /\ Elements(Filter(s, S)) = Elements(s) \cap S
  <1> DEFINE X == Elements(s)
             f == Filter(s, S)
  <1>1. s \in Seq(X)
    BY DEF IsSeq
  <1> HIDE DEF X
  <1>2. f \in Seq(X \cap S)
    BY <1>1, FilterType
  <1>3. IsSeq(f) /\ Elements(f) \subseteq X \cap S
    BY <1>2, SeqElements
  <1>4. \A j \in DOMAIN s : s[j] \in S => \E i \in DOMAIN f : f[i] = s[j]
    BY <1>1, FilterElements
  <1> HIDE DEF f
  <1>5. X \cap S \subseteq Elements(f)
    BY <1>4 DEF X, Elements
  <1> QED BY <1>3, <1>5 DEF X, f

LEMMA FlattenElements ==
    ASSUME NEW ss, IsSeq(ss), \A t \in Elements(ss) : IsSeq(t)
    PROVE  /\ IsSeq(Flatten(ss))
           /\ Elements(Flatten(ss)) \subseteq UNION {Elements(t) : t \in Elements(ss)}
  <1> DEFINE X == UNION {Elements(t) : t \in Elements(ss)}
  <1>1. ASSUME NEW t \in Elements(ss) PROVE t \in Seq(X)
    <2>1. Elements(t) \subseteq X
      OBVIOUS
    <2> QED BY <2>1, ElementsSeq
  <1> HIDE DEF X
  <1>2. Elements(ss) \subseteq Seq(X)
    BY <1>1
  <1>3. ss \in Seq(Seq(X))
    BY <1>2, ElementsSeq
  <1>4. Flatten(ss) \in Seq(X)
    BY <1>3, FlattenType
  <1> QED BY <1>4, SeqElements DEF X

\* What stands at place n of a filter is the element that made it n long.
LEMMA FilteredPlaces ==
    ASSUME NEW X, NEW s \in Seq(X), NEW S
    PROVE  \A m \in 0 .. Len(s) : \A n \in 1 .. Len(FilteredTo(s, S)[m]) :
               \E j \in 1 .. m : /\ s[j] \in S /\ Len(FilteredTo(s, S)[j]) = n
                                 /\ FilteredTo(s, S)[m][n] = s[j]
  <1> DEFINE F == FilteredTo(s, S)
             P(m) == \A n \in 1 .. Len(F[m]) :
                         \E j \in 1 .. m : s[j] \in S /\ Len(F[j]) = n /\ F[m][n] = s[j]
             D == {m \in 0 .. Len(s) : P(m)}
  <1>0. Len(s) \in Nat
    OBVIOUS
  <1>1. F[0] = <<>> /\ \A n \in 0 .. Len(s) - 1 :
            F[n + 1] = IF s[n + 1] \in S THEN Append(F[n], s[n + 1]) ELSE F[n]
    BY FilteredStep
  <1>2. \A n \in 0 .. Len(s) : F[n] \in Seq(X \cap S)
    BY FilteredType
  <1> HIDE DEF F
  <1>3. 0 \in D
    <2>1. Len(F[0]) = 0
      BY <1>1
    <2> QED BY <1>0, <2>1
  <1>4. ASSUME NEW m \in 0 .. Len(s) - 1, m \in D PROVE m + 1 \in D
    <2>1. m \in Nat /\ m + 1 \in 0 .. Len(s) /\ m \in 0 .. Len(s) /\ s[m + 1] \in X
      BY <1>0
    <2>2. F[m] \in Seq(X \cap S) /\ Len(F[m]) \in Nat
      BY <1>2, <2>1
    <2>3. P(m)
      BY <1>4
    <2>4. CASE s[m + 1] \in S
      <3>1. F[m + 1] = Append(F[m], s[m + 1])
        BY <1>1, <2>4
      <3>2. /\ Len(F[m + 1]) = Len(F[m]) + 1 /\ F[m + 1][Len(F[m]) + 1] = s[m + 1]
            /\ \A n \in 1 .. Len(F[m]) : F[m + 1][n] = F[m][n]
        <4> DEFINE t == F[m]
                   z == s[m + 1]
        <4>1. t \in Seq(X \cap S) /\ z \in X \cap S
          BY <2>1, <2>2, <2>4
        <4> HIDE DEF t, z
        <4>2. /\ Len(Append(t, z)) = Len(t) + 1 /\ Append(t, z)[Len(t) + 1] = z
              /\ \A n \in 1 .. Len(t) : Append(t, z)[n] = t[n]
          BY <4>1, AppendProperties
        <4> QED BY <3>1, <4>2 DEF t, z
      <3>3. ASSUME NEW n \in 1 .. Len(F[m + 1])
            PROVE  \E j \in 1 .. m + 1 : s[j] \in S /\ Len(F[j]) = n /\ F[m + 1][n] = s[j]
        <4>1. CASE n = Len(F[m]) + 1
          <5>1. m + 1 \in 1 .. m + 1
            BY <2>1
          <5> QED BY <2>4, <3>2, <4>1, <5>1
        <4>2. CASE n # Len(F[m]) + 1
          <5>1. n \in 1 .. Len(F[m])
            BY <2>2, <3>2, <4>2
          <5>2. PICK j \in 1 .. m : s[j] \in S /\ Len(F[j]) = n /\ F[m][n] = s[j]
            BY <2>3, <5>1
          <5>3. j \in 1 .. m + 1
            BY <2>1
          <5> QED BY <3>2, <5>1, <5>2, <5>3
        <4> QED BY <4>1, <4>2
      <3> QED BY <2>1, <3>3
    <2>5. CASE s[m + 1] \notin S
      <3>1. F[m + 1] = F[m]
        BY <1>1, <2>5
      <3>2. ASSUME NEW n \in 1 .. Len(F[m + 1])
            PROVE  \E j \in 1 .. m + 1 : s[j] \in S /\ Len(F[j]) = n /\ F[m + 1][n] = s[j]
        <4>1. PICK j \in 1 .. m : s[j] \in S /\ Len(F[j]) = n /\ F[m][n] = s[j]
          BY <2>3, <3>1
        <4>2. j \in 1 .. m + 1
          BY <2>1
        <4> QED BY <3>1, <4>1, <4>2
      <3> QED BY <2>1, <3>2
    <2> QED BY <2>4, <2>5
  <1> HIDE DEF D
  <1>5. \A m \in 0 .. Len(s) : m \in D
    BY <1>0, <1>3, <1>4, IntervalInduction
  <1> QED BY <1>5 DEF D, F

\* No element stands twice.
Distinct(s) == \A a, b \in 1 .. Len(s) : s[a] = s[b] => a = b

\* What a filter keeps of a sequence without repetitions is in its order: an
\* element before the one at place n is at a place up to n.
LEMMA FilterOrder ==
    ASSUME NEW s, IsSeq(s), Distinct(s), NEW S,
           NEW i \in 1 .. Len(s), NEW j \in 1 .. Len(s), s[i] \in S, i <= j
    PROVE  \A n \in 1 .. Len(Filter(s, S)) :
               Filter(s, S)[n] = s[j] => \E a \in 1 .. n : Filter(s, S)[a] = s[i]
  <1> SUFFICES ASSUME NEW n \in 1 .. Len(Filter(s, S)), Filter(s, S)[n] = s[j]
               PROVE  \E a \in 1 .. n : Filter(s, S)[a] = s[i]
    OBVIOUS
  <1> DEFINE X == Elements(s)
  <1>d. s \in Seq(X)
    BY DEF IsSeq
  <1> HIDE DEF X
  <1> DEFINE F == FilteredTo(s, S)
             N == Len(s)
  <1>0. N \in Nat /\ i \in 0 .. N /\ j \in 0 .. N /\ N \in 0 .. N /\ i <= N
        /\ i - 1 \in 0 .. N - 1 /\ i - 1 \in 0 .. N /\ (i - 1) + 1 = i
    OBVIOUS
  <1>1. Filter(s, S) = F[N]
    BY DEF Filter
  <1>2. \A m \in 0 .. N : \A x \in 1 .. Len(F[m]) :
            \E y \in 1 .. m : s[y] \in S /\ Len(F[y]) = x /\ F[m][x] = s[y]
    BY <1>d, FilteredPlaces
  <1>3. \A x \in 0 .. N - 1 : F[x + 1] = IF s[x + 1] \in S THEN Append(F[x], s[x + 1]) ELSE F[x]
    BY <1>d, FilteredStep
  <1>4. \A x \in 0 .. N : F[x] \in Seq(X \cap S)
    BY <1>d, FilteredType
  <1>5. \A x, y \in 0 .. N : x <= y => Starts(F[x], F[y])
    BY <1>d, FilteredGrows
  <1> HIDE DEF F
  <1>a. n \in 1 .. Len(F[N]) /\ N \in 0 .. N
    BY <1>0, <1>1
  <1>6. PICK y \in 1 .. N : Len(F[y]) = n /\ F[N][n] = s[y]
    BY <1>2, <1>a, Zenon
  <1>7. y = j
    BY <1>1, <1>6 DEF Distinct
  <1> DEFINE t == F[i - 1]
             z == s[i]
             a == Len(F[i])
  <1>8. F[i] = Append(t, z)
    BY <1>0, <1>3
  <1>b. s[i] \in X /\ s[i] \in S
    BY <1>d
  <1>c. F[i - 1] \in Seq(X \cap S)
    BY <1>0, <1>4
  <1>9. t \in Seq(X \cap S) /\ z \in X \cap S /\ Len(t) \in Nat
    BY <1>b, <1>c
  <1> HIDE DEF t, z
  <1>10. Len(Append(t, z)) = Len(t) + 1 /\ Append(t, z)[Len(t) + 1] = z
    BY <1>9, AppendProperties
  <1>11. a \in Nat /\ a >= 1 /\ F[i][a] = z
    BY <1>8, <1>9, <1>10
  <1>12. Starts(F[i], F[j]) /\ Starts(F[i], F[N])
    BY <1>0, <1>5
  <1>13. a <= n
    BY <1>6, <1>7, <1>12 DEF Starts
  <1>14. F[N][a] = z
    <2>1. a \in 1 .. Len(F[i])
      BY <1>11
    <2>2. \A x \in 1 .. Len(F[i]) : F[N][x] = F[i][x]
      BY <1>12 DEF Starts
    <2> QED BY <1>11, <2>1, <2>2
  <1>15. a \in 1 .. n
    BY <1>11, <1>13
  <1> QED BY <1>1, <1>14, <1>15 DEF z
=============================================================================
