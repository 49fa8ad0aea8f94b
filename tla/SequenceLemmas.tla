--------------------------- MODULE SequenceLemmas ---------------------------
(***************************************************************************)
(* What the operators on sequences that the models of streams, callbacks   *)
(* and frames use do to the set of elements of a sequence, and to its      *)
(* prefixes.                                                               *)
(***************************************************************************)
EXTENDS Integers, SequencesExt, SequenceTheorems, FiniteSetTheorems, TLAPS

(* The elements of a sequence are those at its places. *)
LEMMA ElementsOf ==
    ASSUME NEW S, NEW s \in Seq(S)
    PROVE  /\ \A e : e \in ToSet(s) <=> \E i \in 1..Len(s) : s[i] = e
           /\ \A i \in 1..Len(s) : s[i] \in ToSet(s)
           /\ ToSet(s) \subseteq S
BY DEF ToSet

(* The empty sequence has none, and only it. *)
LEMMA NoElements ==
    ASSUME NEW S
    PROVE  /\ ToSet(<<>>) = {}
           /\ \A s \in Seq(S) : ToSet(s) = {} => s = <<>>
<1>1. ToSet(<<>>) = {}
  BY DEF ToSet
<1>2. ASSUME NEW s \in Seq(S), s # <<>> PROVE ToSet(s) # {}
  <2>1. 1 \in 1..Len(s)
    BY <1>2
  <2> QED BY <2>1, ElementsOf
<1> QED BY <1>1, <1>2

(* Append adds one element. *)
LEMMA ElementsOfAppend ==
    ASSUME NEW S, NEW s \in Seq(S), NEW e \in S
    PROVE  Append(s, e) \in Seq(S) /\ ToSet(Append(s, e)) = ToSet(s) \union {e}
<1> DEFINE a == Append(s, e)
<1>1. a \in Seq(S) /\ Len(a) = Len(s) + 1
  BY AppendProperties
<1>2. \A i \in 1..Len(s) : a[i] = s[i]
  BY AppendProperties
<1>3. a[Len(s) + 1] = e
  BY AppendProperties
<1> HIDE DEF a
<1>4. ASSUME NEW i \in 1..Len(a) PROVE a[i] \in ToSet(s) \union {e}
  <2>1. i \in 1..Len(s) \/ i = Len(s) + 1
    BY <1>1
  <2> QED BY <1>2, <1>3, <2>1, ElementsOf
<1>5. ASSUME NEW i \in 1..Len(s) PROVE s[i] \in ToSet(a)
  <2>1. i \in 1..Len(a)
    BY <1>1
  <2>2. a[i] \in ToSet(a)
    BY <1>1, <2>1, ElementsOf
  <2> QED BY <1>2, <2>2
<1>6. e \in ToSet(a)
  <2>1. Len(s) + 1 \in 1..Len(a)
    BY <1>1
  <2> QED BY <1>1, <1>3, <2>1, ElementsOf
<1>7. \A x : x \in ToSet(a) => x \in ToSet(s) \union {e}
  BY <1>1, <1>4, ElementsOf
<1>8. \A x : x \in ToSet(s) => x \in ToSet(a)
  BY <1>5, ElementsOf
<1>9. ToSet(a) = ToSet(s) \union {e}
  BY <1>6, <1>7, <1>8
<1> QED BY <1>1, <1>9 DEF a

(* The first element is one, and the others are those of the tail. *)
LEMMA ElementsOfTail ==
    ASSUME NEW S, NEW s \in Seq(S), s # <<>>
    PROVE  /\ Head(s) \in ToSet(s)
           /\ Tail(s) \in Seq(S)
           /\ ToSet(s) = {Head(s)} \union ToSet(Tail(s))
<1> DEFINE t == Tail(s)
<1>1. /\ t \in Seq(S) /\ Len(t) = Len(s) - 1
      /\ \A i \in 1..Len(t) : t[i] = s[i + 1]
  BY HeadTailProperties
<1>2. Head(s) = s[1] /\ 1 \in 1..Len(s)
  OBVIOUS
<1> HIDE DEF t
<1>3. Head(s) \in ToSet(s)
  BY <1>2, ElementsOf
<1>4. ASSUME NEW i \in 1..Len(s) PROVE s[i] \in {Head(s)} \union ToSet(t)
  <2>1. CASE i = 1
    BY <1>2, <2>1
  <2>2. CASE i # 1
    <3>1. i - 1 \in 1..Len(t) /\ t[i - 1] = s[i]
      BY <1>1, <2>2
    <3>2. t[i - 1] \in ToSet(t)
      BY <1>1, <3>1, ElementsOf
    <3> QED BY <3>1, <3>2
  <2> QED BY <2>1, <2>2
<1>5. ASSUME NEW i \in 1..Len(t) PROVE t[i] \in ToSet(s)
  <2>1. i + 1 \in 1..Len(s) /\ t[i] = s[i + 1]
    BY <1>1
  <2>2. s[i + 1] \in ToSet(s)
    BY <2>1, ElementsOf
  <2> QED BY <2>1, <2>2
<1>6. \A x : x \in ToSet(s) => x \in {Head(s)} \union ToSet(t)
  BY <1>4, ElementsOf
<1>7. \A x : x \in ToSet(t) => x \in ToSet(s)
  BY <1>1, <1>5, ElementsOf
<1>8. ToSet(s) = {Head(s)} \union ToSet(t)
  BY <1>3, <1>6, <1>7
<1> QED BY <1>1, <1>3, <1>8 DEF t

(* A concatenation has the elements of both parts. *)
LEMMA ElementsOfConcat ==
    ASSUME NEW S, NEW s \in Seq(S), NEW t \in Seq(S)
    PROVE  s \o t \in Seq(S) /\ ToSet(s \o t) = ToSet(s) \union ToSet(t)
<1> DEFINE c == s \o t
<1>1. /\ c \in Seq(S) /\ Len(c) = Len(s) + Len(t)
      /\ \A i \in 1..Len(s) + Len(t) :
           c[i] = IF i <= Len(s) THEN s[i] ELSE t[i - Len(s)]
  BY ConcatProperties
<1> HIDE DEF c
<1>2. Len(s) \in Nat /\ Len(t) \in Nat
  OBVIOUS
<1>3. ASSUME NEW i \in 1..Len(c) PROVE c[i] \in ToSet(s) \union ToSet(t)
  <2>1. CASE i <= Len(s)
    <3>1. i \in 1..Len(s) /\ c[i] = s[i]
      BY <1>1, <1>2, <2>1
    <3> QED BY <3>1, ElementsOf
  <2>2. CASE ~(i <= Len(s))
    <3>1. i - Len(s) \in 1..Len(t) /\ c[i] = t[i - Len(s)]
      BY <1>1, <1>2, <2>2
    <3> QED BY <3>1, ElementsOf
  <2> QED BY <2>1, <2>2
<1>4. ASSUME NEW i \in 1..Len(s) PROVE s[i] \in ToSet(c)
  <2>1. i \in 1..Len(c) /\ c[i] = s[i]
    BY <1>1, <1>2
  <2>2. c[i] \in ToSet(c)
    BY <1>1, <2>1, ElementsOf
  <2> QED BY <2>1, <2>2
<1>5. ASSUME NEW i \in 1..Len(t) PROVE t[i] \in ToSet(c)
  <2>1. Len(s) + i \in 1..Len(c) /\ c[Len(s) + i] = t[i]
    BY <1>1, <1>2
  <2>2. c[Len(s) + i] \in ToSet(c)
    BY <1>1, <2>1, ElementsOf
  <2> QED BY <2>1, <2>2
<1>6. \A x : x \in ToSet(c) => x \in ToSet(s) \union ToSet(t)
  BY <1>1, <1>3, ElementsOf
<1>7. \A x : x \in ToSet(s) \union ToSet(t) => x \in ToSet(c)
  BY <1>4, <1>5, ElementsOf
<1>8. ToSet(c) = ToSet(s) \union ToSet(t)
  BY <1>6, <1>7
<1> QED BY <1>1, <1>8 DEF c

(* An element is put before the others. *)
LEMMA PlacesOfPrepend ==
    ASSUME NEW S, NEW e \in S, NEW t \in Seq(S)
    PROVE  /\ <<e>> \o t \in Seq(S) /\ Len(<<e>> \o t) = Len(t) + 1
           /\ (<<e>> \o t)[1] = e
           /\ \A i \in 1..Len(t) : (<<e>> \o t)[i + 1] = t[i]
<1> DEFINE b == <<e>>
<1>1. b \in Seq(S) /\ Len(b) = 1 /\ b[1] = e
  OBVIOUS
<1> HIDE DEF b
<1> DEFINE c == b \o t
<1>2. /\ c \in Seq(S) /\ Len(c) = Len(b) + Len(t)
      /\ \A i \in 1..Len(b) + Len(t) :
           c[i] = IF i <= Len(b) THEN b[i] ELSE t[i - Len(b)]
  BY <1>1, ConcatProperties
<1>3. Len(t) \in Nat
  OBVIOUS
<1> HIDE DEF c
<1>4. ASSUME NEW i \in 1..Len(t) PROVE c[i + 1] = t[i]
  <2>1. i + 1 \in 1..Len(b) + Len(t) /\ ~(i + 1 <= Len(b)) /\ (i + 1) - Len(b) = i
    BY <1>1, <1>3
  <2> QED BY <1>2, <2>1
<1>5. c[1] = e /\ Len(c) = Len(t) + 1
  BY <1>1, <1>2, <1>3
<1> QED BY <1>2, <1>4, <1>5 DEF b, c

(* A finite set is the set of elements of the sequence that is made of it. *)
LEMMA ElementsOfSetToSeq ==
    ASSUME NEW S, IsFiniteSet(S)
    PROVE  SetToSeq(S) \in Seq(S) /\ ToSet(SetToSeq(S)) = S
<1> DEFINE n == Cardinality(S)
<1>1. n \in Nat /\ ExistsBijection(1..n, S)
  BY FS_CardinalityType
<1>2. PICK f \in Bijection(1..n, S) : TRUE
  BY <1>1 DEF ExistsBijection
<1>3. f \in [1..n -> S] /\ IsInjective(f)
  BY <1>2 DEF Bijection, Injection
<1>4. SetToSeq(S) \in [1..n -> S] /\ IsInjective(SetToSeq(S))
  BY <1>3 DEF SetToSeq
<1>5. SetToSeq(S) \in Injection(1..n, S)
  BY <1>4 DEF Injection
<1>6. Cardinality(1..n) = n
  BY <1>1, FS_Interval
<1>7. SetToSeq(S) \in Surjection(1..n, S)
  BY <1>5, <1>6, FS_Injection
<1>8. \A x \in S : \E i \in 1..n : SetToSeq(S)[i] = x
  BY <1>7 DEF Surjection
<1> DEFINE q == SetToSeq(S)
<1>9. q \in Seq(S) /\ Len(q) = n
  <2>1. q \in [1..n -> S]
    BY <1>4
  <2> HIDE DEF q, n
  <2> QED BY <1>1, <2>1
<1>10. \A x \in S : \E i \in 1..Len(q) : q[i] = x
  BY <1>8, <1>9
<1> HIDE DEF q, n
<1>11. \A x \in S : x \in ToSet(q)
  BY <1>9, <1>10, ElementsOf
<1>12. ToSet(q) \subseteq S
  BY <1>9, ElementsOf
<1> QED BY <1>9, <1>11, <1>12 DEF q

(* The values of a function on a finite set are finitely many. *)
LEMMA FiniteValues ==
    ASSUME NEW S, IsFiniteSet(S), NEW f
    PROVE  IsFiniteSet({f[x] : x \in S})
<1> DEFINE T == {f[x] : x \in S}
           g == [x \in S |-> f[x]]
<1>1. g \in [S -> T] /\ \A y \in T : \E x \in S : g[x] = y
  OBVIOUS
<1>2. g \in Surjection(S, T)
  BY <1>1 DEF Surjection
<1> HIDE DEF T, g
<1>3. IsFiniteSet(T)
  BY <1>2, FS_Surjection
<1> QED BY <1>3 DEF T

(* A beginning of a sequence has no other elements. *)
LEMMA ElementsOfSubSeq ==
    ASSUME NEW S, NEW s \in Seq(S), NEW n \in Nat, n <= Len(s)
    PROVE  SubSeq(s, 1, n) \in Seq(S) /\ ToSet(SubSeq(s, 1, n)) \subseteq ToSet(s)
<1> DEFINE b == SubSeq(s, 1, n)
<1>1. b \in Seq(S) /\ Len(b) = n /\ \A i \in 1..n : b[i] = s[i]
  OBVIOUS
<1> HIDE DEF b
<1>2. ASSUME NEW i \in 1..Len(b) PROVE b[i] \in ToSet(s)
  <2>1. i \in 1..Len(s) /\ b[i] = s[i]
    BY <1>1
  <2> QED BY <2>1, ElementsOf
<1>3. \A x : x \in ToSet(b) => x \in ToSet(s)
  BY <1>1, <1>2, ElementsOf
<1> QED BY <1>1, <1>3 DEF b

=============================================================================
