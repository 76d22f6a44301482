---------------------------- MODULE CountingLemmas ----------------------------
(***************************************************************************)
(* The facts about the sizes of finite sets and about lists without        *)
(* repetitions on which the proofs that follow threads and tasks rest.     *)
(***************************************************************************)
EXTENDS Integers, FiniteSets, FiniteSetTheorems, SequencesExt, SequenceTheorems, TLAPS

LEMMA OneMore ==
    ASSUME NEW S, NEW T, NEW x, IsFiniteSet(T), x \notin S, S \cup {x} \subseteq T
    PROVE  Cardinality(S) + 1 <= Cardinality(T)
<1>1. IsFiniteSet(S) /\ IsFiniteSet(S \cup {x})
  BY FS_Subset
<1>2. Cardinality(S \cup {x}) = Cardinality(S) + 1
  BY <1>1, FS_AddElement
<1>3. Cardinality(S \cup {x}) <= Cardinality(T)
  BY FS_Subset
<1> QED BY <1>2, <1>3

LEMMA NotFewer ==
    ASSUME NEW S, NEW T, IsFiniteSet(T), S \subseteq T
    PROVE  /\ Cardinality(S) <= Cardinality(T)
           /\ Cardinality(S) \in Nat /\ Cardinality(T) \in Nat
BY FS_Subset, FS_CardinalityType

LEMMA OneLess ==
    ASSUME NEW S, NEW x, IsFiniteSet(S), x \in S
    PROVE  Cardinality(S \ {x}) = Cardinality(S) - 1
BY FS_RemoveElement

LEMMA SetLoses ==
    ASSUME NEW S, NEW T, IsFiniteSet(S), T \subseteq S
    PROVE  Cardinality(S \ T) = Cardinality(S) - Cardinality(T)
<1>1. S \cap T = T
  OBVIOUS
<1> QED BY <1>1, FS_Difference

LEMMA SetGains ==
    ASSUME NEW S, NEW T, IsFiniteSet(S), IsFiniteSet(T), T \cap S = {}
    PROVE  Cardinality(S \cup T) = Cardinality(S) + Cardinality(T)
<1>1. Cardinality(S \cup T) = Cardinality(S) + Cardinality(T) - Cardinality(S \cap T)
  BY FS_Union
<1>2. Cardinality(S \cap T) = 0
  <2>1. S \cap T = {}
    OBVIOUS
  <2> QED BY <2>1, FS_EmptySet
<1>3. Cardinality(S) \in Nat /\ Cardinality(T) \in Nat
  BY FS_CardinalityType
<1> QED BY <1>1, <1>2, <1>3

(* A set without two different members has at most one.                    *)
LEMMA AtMostOne ==
    ASSUME NEW S, \A x, y \in S : x = y
    PROVE  /\ IsFiniteSet(S)
           /\ Cardinality(S) = IF S = {} THEN 0 ELSE 1
<1>1. CASE S = {}
  BY <1>1, FS_EmptySet
<1>2. ASSUME NEW x \in S
      PROVE  IsFiniteSet(S) /\ Cardinality(S) = 1
  <2>1. S = {x}
    OBVIOUS
  <2> QED BY <2>1, FS_Singleton
<1> QED BY <1>1, <1>2

-----------------------------------------------------------------------------
(* Lists without repetitions.                                              *)
LEMMA EmptyList == ToSet(<<>>) = {} /\ IsInjective(<<>>)
BY DEF ToSet, IsInjective

LEMMA ListFacts ==
    ASSUME NEW S, NEW s \in Seq(S)
    PROVE  /\ Len(s) \in Nat /\ DOMAIN s = 1 .. Len(s) /\ \A i \in 1 .. Len(s) : s[i] \in S
           /\ ToSet(s) = {s[i] : i \in 1 .. Len(s)} /\ ToSet(s) \subseteq S
           /\ s = <<>> <=> Len(s) = 0
<1>1. ToSet(s) = {s[i] : i \in 1 .. Len(s)}
  BY DEF ToSet
<1>2. Len(s) \in Nat /\ DOMAIN s = 1 .. Len(s) /\ \A i \in 1 .. Len(s) : s[i] \in S
  OBVIOUS
<1>3. s = <<>> <=> Len(s) = 0
  OBVIOUS
<1> QED BY <1>1, <1>2, <1>3

LEMMA TailLeaves ==
    ASSUME NEW S, NEW s \in Seq(S), s # <<>>, IsInjective(s)
    PROVE  /\ Head(s) \in S /\ Tail(s) \in Seq(S)
           /\ ToSet(Tail(s)) = ToSet(s) \ {Head(s)} /\ Head(s) \in ToSet(s)
           /\ IsInjective(Tail(s))
<1>1. PICK r \in Seq(S) : r = Tail(s) /\ Len(r) = Len(s) - 1 /\ \A i \in 1 .. Len(r) : r[i] = s[i + 1]
  BY HeadTailProperties
<1>2. PICK x \in S : x = Head(s) /\ x = s[1]
  BY HeadTailProperties
<1>3. /\ Len(s) \in Nat \ {0} /\ Len(r) \in Nat
      /\ \A i, k \in 1 .. Len(s) : s[i] = s[k] => i = k
  BY ListFacts DEF IsInjective
<1>4. ToSet(s) = {s[i] : i \in 1 .. Len(s)} /\ ToSet(r) = {r[i] : i \in 1 .. Len(r)}
  BY ListFacts
<1>5. \A i, k \in 1 .. Len(r) : r[i] = r[k] => i = k
  <2> SUFFICES ASSUME NEW i \in 1 .. Len(r), NEW k \in 1 .. Len(r), r[i] = r[k] PROVE i = k
    OBVIOUS
  <2>1. i + 1 \in 1 .. Len(s) /\ k + 1 \in 1 .. Len(s) /\ s[i + 1] = s[k + 1]
    BY <1>1, <1>3
  <2> QED BY <1>3, <2>1
<1>6. ASSUME NEW y \in ToSet(r) PROVE y \in ToSet(s) \ {x}
  <2>1. PICK i \in 1 .. Len(r) : y = s[i + 1]
    BY <1>1, <1>4, <1>6
  <2>2. i + 1 \in 1 .. Len(s) /\ i + 1 # 1 /\ 1 \in 1 .. Len(s)
    BY <1>1, <1>3
  <2>3. s[i + 1] # s[1]
    BY <1>3, <2>2
  <2> QED BY <1>2, <1>4, <2>1, <2>2, <2>3
<1>7. ASSUME NEW y \in ToSet(s) \ {x} PROVE y \in ToSet(r)
  <2>1. PICK i \in 1 .. Len(s) : y = s[i]
    BY <1>4
  <2>2. i # 1
    BY <1>2, <1>7, <2>1
  <2>3. i - 1 \in 1 .. Len(r) /\ r[i - 1] = s[i]
    BY <1>1, <1>3, <2>2
  <2> QED BY <1>4, <2>1, <2>3
<1>8. x \in ToSet(s)
  BY <1>2, <1>3, <1>4
<1>9. IsInjective(r)
  BY <1>1, <1>5, ListFacts DEF IsInjective
<1> QED BY <1>1, <1>2, <1>6, <1>7, <1>8, <1>9

LEMMA SubSeqIs ==
    ASSUME NEW S, NEW s \in Seq(S), NEW m \in 1 .. Len(s) + 1, NEW n \in m - 1 .. Len(s)
    PROVE  /\ SubSeq(s, m, n) \in Seq(S) /\ Len(SubSeq(s, m, n)) = n - m + 1
           /\ \A i \in 1 .. n - m + 1 : SubSeq(s, m, n)[i] = s[m + i - 1]
<1>1. \A i \in m .. n : s[i] \in S
  OBVIOUS
<1>2. m \in Nat /\ n \in Int /\ m - 1 <= n
  OBVIOUS
<1>3. SubSeq(s, m, n) \in Seq(S)
  BY <1>1, <1>2, SubSeqProperties
<1>4. Len(SubSeq(s, m, n)) = n - m + 1
  BY <1>1, <1>2
<1>5. \A i \in 1 .. n - m + 1 : SubSeq(s, m, n)[i] = s[m + i - 1]
  BY <1>1, <1>2
<1> QED BY <1>3, <1>4, <1>5

LEMMA ConcatIs ==
    ASSUME NEW S, NEW a \in Seq(S), NEW b \in Seq(S)
    PROVE  /\ a \o b \in Seq(S) /\ Len(a \o b) = Len(a) + Len(b)
           /\ \A i \in 1 .. Len(a) + Len(b) : (a \o b)[i] = IF i <= Len(a) THEN a[i] ELSE b[i - Len(a)]
OBVIOUS

LEMMA FrontIs ==
    ASSUME NEW S, NEW s \in Seq(S), s # <<>>
    PROVE  /\ Front(s) \in Seq(S) /\ Len(Front(s)) = Len(s) - 1 
           /\ \A i \in 1 .. Len(s) - 1 : Front(s)[i] = s[i]
<1>1. PICK r : r = SubSeq(s, 1, Len(s) - 1)
  OBVIOUS
<1>2. Len(s) \in Nat \ {0} /\ 1 \in 1 .. Len(s) + 1 /\ Len(s) - 1 \in 1 - 1 .. Len(s)
  OBVIOUS
<1>3. /\ r \in Seq(S) /\ Len(r) = Len(s) - 1 - 1 + 1
      /\ \A i \in 1 .. Len(s) - 1 - 1 + 1 : r[i] = s[1 + i - 1]
  BY <1>1, <1>2, SubSeqIs
<1>4. Len(r) = Len(s) - 1 /\ \A i \in 1 .. Len(s) - 1 : r[i] = s[i]
  BY <1>2, <1>3
<1> QED BY <1>1, <1>3, <1>4 DEF Front

(* The list with its n-th element moved to the front.                      *)
ToFront(s, n) == <<s[n]>> \o RemoveAt(s, n)

LEMMA ToFrontIs ==
    ASSUME NEW S, NEW s \in Seq(S), NEW n \in 1 .. Len(s)
    PROVE  \E r \in Seq(S) :
               /\ r = ToFront(s, n)
               /\ Len(r) = Len(s)
               /\ \A i \in 1 .. Len(s) : r[i] = IF i = 1 THEN s[n] ELSE IF i <= n THEN s[i - 1] ELSE s[i]
<1>n. Len(s) \in Nat /\ n \in Nat /\ 1 <= n /\ n <= Len(s)
  OBVIOUS
<1>1. PICK a : a = SubSeq(s, 1, n - 1)
  OBVIOUS
<1>2. PICK b : b = SubSeq(s, n + 1, Len(s))
  OBVIOUS
<1>3. a \in Seq(S) /\ Len(a) = n - 1 /\ \A i \in 1 .. n - 1 : a[i] = s[i]
  BY <1>1, <1>n
<1>4. b \in Seq(S) /\ Len(b) = Len(s) - n /\ \A i \in 1 .. Len(s) - n : b[i] = s[n + i]
  BY <1>2, <1>n
<1>5. PICK c : c = a \o b
  OBVIOUS
<1>6. /\ c \in Seq(S) /\ Len(c) = Len(a) + Len(b)
      /\ \A i \in 1 .. Len(a) + Len(b) : c[i] = IF i <= Len(a) THEN a[i] ELSE b[i - Len(a)]
  <2>1. a \in Seq(S) /\ b \in Seq(S)
    BY <1>3, <1>4
  <2> QED BY <2>1, <1>5, ConcatIs
<1>7. Len(c) = Len(s) - 1 /\ \A i \in 1 .. Len(s) - 1 : c[i] = IF i < n THEN s[i] ELSE s[i + 1]
  <2>1. Len(a) + Len(b) = Len(s) - 1
    BY <1>n, <1>3, <1>4
  <2>2. ASSUME NEW i \in 1 .. Len(s) - 1 PROVE c[i] = IF i < n THEN s[i] ELSE s[i + 1]
    <3>1. c[i] = IF i <= n - 1 THEN a[i] ELSE b[i - (n - 1)]
      BY <1>3, <1>6, <2>1
    <3>2. CASE i < n
      BY <1>n, <1>3, <3>1, <3>2
    <3>3. CASE ~(i < n)
      <4>1. i - (n - 1) \in 1 .. Len(s) - n /\ n + (i - (n - 1)) = i + 1 /\ ~(i <= n - 1)
        BY <1>n, <3>3
      <4>2. b[i - (n - 1)] = s[n + (i - (n - 1))]
        BY <1>4, <4>1
      <4> QED BY <3>1, <3>3, <4>1, <4>2
    <3> QED BY <3>2, <3>3
  <2> QED BY <1>6, <2>1, <2>2
<1>8. PICK h : h = <<s[n]>>
  OBVIOUS
<1>9. h \in Seq(S) /\ Len(h) = 1 /\ h[1] = s[n]
  BY <1>8
<1>10. PICK r : r = h \o c
  OBVIOUS
<1>11. /\ r \in Seq(S) /\ Len(r) = 1 + Len(c)
       /\ \A i \in 1 .. 1 + Len(c) : r[i] = IF i <= 1 THEN h[i] ELSE c[i - 1]
  <2>1. /\ r \in Seq(S) /\ Len(r) = Len(h) + Len(c)
        /\ \A i \in 1 .. Len(h) + Len(c) : r[i] = IF i <= Len(h) THEN h[i] ELSE c[i - Len(h)]
    <3>1. h \in Seq(S) /\ c \in Seq(S)
      BY <1>6, <1>9
    <3> QED BY <3>1, <1>10, ConcatIs
  <2> QED BY <1>9, <2>1
<1>12. Len(r) = Len(s) /\ \A i \in 1 .. Len(s) : r[i] = IF i = 1 THEN s[n] ELSE IF i <= n THEN s[i - 1] ELSE s[i]
  BY <1>n, <1>7, <1>9, <1>11
<1> QED BY <1>1, <1>2, <1>5, <1>8, <1>10, <1>11, <1>12 DEF ToFront, RemoveAt

LEMMA FrontLeaves ==
    ASSUME NEW S, NEW s \in Seq(S), s # <<>>, IsInjective(s)
    PROVE  /\ Last(s) \in S /\ Front(s) \in Seq(S)
           /\ ToSet(Front(s)) = ToSet(s) \ {Last(s)} /\ Last(s) \in ToSet(s)
           /\ IsInjective(Front(s))
<1>1. PICK r \in Seq(S) : r = Front(s) /\ Len(r) = Len(s) - 1 /\ \A i \in 1 .. Len(s) - 1 : r[i] = s[i]
  BY FrontIs
<1>2. /\ Len(s) \in Nat \ {0} /\ \A i \in 1 .. Len(s) : s[i] \in S
      /\ \A i, k \in 1 .. Len(s) : s[i] = s[k] => i = k
  BY ListFacts DEF IsInjective
<1>3. ToSet(s) = {s[i] : i \in 1 .. Len(s)} /\ ToSet(r) = {r[i] : i \in 1 .. Len(r)}
  BY ListFacts
<1>4. Len(s) \in 1 .. Len(s) /\ 1 .. Len(r) = (1 .. Len(s)) \ {Len(s)}
  BY <1>1, <1>2
<1>5. ToSet(r) = ToSet(s) \ {s[Len(s)]} /\ s[Len(s)] \in ToSet(s)
  BY <1>1, <1>2, <1>3, <1>4
<1>6. IsInjective(r)
  BY <1>1, <1>2, <1>4, ListFacts DEF IsInjective
<1> QED BY <1>1, <1>2, <1>4, <1>5, <1>6 DEF Last

LEMMA AppendAdds ==
    ASSUME NEW S, NEW s \in Seq(S), NEW e \in S, e \notin ToSet(s), IsInjective(s)
    PROVE  /\ Append(s, e) \in Seq(S) /\ Len(Append(s, e)) = Len(s) + 1
           /\ ToSet(Append(s, e)) = ToSet(s) \cup {e} /\ IsInjective(Append(s, e))
<1>1. PICK r \in Seq(S) : /\ r = Append(s, e) /\ Len(r) = Len(s) + 1 /\ r[Len(s) + 1] = e
                           /\ \A i \in 1 .. Len(s) : r[i] = s[i]
  <2>1. Append(s, e) \in Seq(S) /\ Len(Append(s, e)) = Len(s) + 1
    OBVIOUS
  <2>2. Append(s, e)[Len(s) + 1] = e /\ \A i \in 1 .. Len(s) : Append(s, e)[i] = s[i]
    OBVIOUS
  <2> QED BY <2>1, <2>2
<1>2. /\ Len(s) \in Nat /\ \A i, k \in 1 .. Len(s) : s[i] = s[k] => i = k
  BY ListFacts DEF IsInjective
<1>3. ToSet(s) = {s[i] : i \in 1 .. Len(s)} /\ ToSet(r) = {r[i] : i \in 1 .. Len(r)}
  BY ListFacts
<1>4. \A i \in 1 .. Len(s) : s[i] # e
  BY <1>3
<1>5. 1 .. Len(r) = (1 .. Len(s)) \cup {Len(s) + 1}
  BY <1>1, <1>2
<1>6. ToSet(r) = ToSet(s) \cup {e}
  BY <1>1, <1>3, <1>5
<1>7. IsInjective(r)
  BY <1>1, <1>2, <1>4, <1>5, ListFacts DEF IsInjective
<1> QED BY <1>1, <1>6, <1>7

(* The two rotations of a list without repetitions.                        *)
LEMMA HeadToBack ==
    ASSUME NEW S, NEW s \in Seq(S), s # <<>>, IsInjective(s)
    PROVE  /\ Head(s) \in S
           /\ Append(Tail(s), Head(s)) \in Seq(S) /\ Len(Append(Tail(s), Head(s))) = Len(s)
           /\ ToSet(Append(Tail(s), Head(s))) = ToSet(s) /\ IsInjective(Append(Tail(s), Head(s)))
<1>1. /\ Tail(s) \in Seq(S) /\ Head(s) \in S /\ Len(Tail(s)) = Len(s) - 1 /\ Len(s) \in Nat
      /\ Head(s) \notin ToSet(Tail(s)) /\ ToSet(Tail(s)) \cup {Head(s)} = ToSet(s)
      /\ IsInjective(Tail(s))
  BY TailLeaves, HeadTailProperties
<1>2. PICK r \in Seq(S) : r = Tail(s)
  BY <1>1
<1>3. PICK x \in S : x = Head(s)
  BY <1>1
<1>4. x \notin ToSet(r) /\ IsInjective(r)
  BY <1>1, <1>2, <1>3
<1>5. /\ Append(r, x) \in Seq(S) /\ Len(Append(r, x)) = Len(r) + 1
      /\ ToSet(Append(r, x)) = ToSet(r) \cup {x} /\ IsInjective(Append(r, x))
  BY <1>4, AppendAdds
<1>6. Len(r) + 1 = Len(s) /\ ToSet(r) \cup {x} = ToSet(s) /\ Append(Tail(s), Head(s)) = Append(r, x)
  BY <1>1, <1>2, <1>3
<1> QED BY <1>1, <1>5, <1>6

LEMMA MovedToFront ==
    ASSUME NEW S, NEW s \in Seq(S), NEW n \in 1 .. Len(s), IsInjective(s),
           NEW r \in Seq(S), Len(r) = Len(s),
           \A i \in 1 .. Len(s) : r[i] = IF i = 1 THEN s[n] ELSE IF i <= n THEN s[i - 1] ELSE s[i]
    PROVE  IsInjective(r) /\ ToSet(r) = ToSet(s)
<1>1. Len(s) \in Nat /\ \A i, k \in 1 .. Len(s) : s[i] = s[k] => i = k
  BY ListFacts DEF IsInjective
<1>2. ToSet(s) = {s[i] : i \in 1 .. Len(s)} /\ ToSet(r) = {r[i] : i \in 1 .. Len(s)}
  BY ListFacts
(* The place in s of the i-th element of r.                                *)
<1> DEFINE Was(i) == IF i = 1 THEN n ELSE IF i <= n THEN i - 1 ELSE i
<1>3. \A i \in 1 .. Len(s) : Was(i) \in 1 .. Len(s) /\ r[i] = s[Was(i)]
  BY <1>1
<1>4. \A i, k \in 1 .. Len(s) : Was(i) = Was(k) => i = k
  BY <1>1
<1>5. ASSUME NEW k \in 1 .. Len(s) PROVE \E i \in 1 .. Len(s) : Was(i) = k
  <2>1. CASE k = n
    <3>1. 1 \in 1 .. Len(s) /\ Was(1) = k
      BY <1>1, <2>1
    <3> QED BY <3>1
  <2>2. CASE k < n
    <3>1. k + 1 \in 1 .. Len(s) /\ Was(k + 1) = k
      BY <1>1, <2>2
    <3> QED BY <3>1
  <2>3. CASE k > n
    <3>1. Was(k) = k
      BY <1>1, <2>3
    <3> QED BY <3>1
  <2> QED BY <1>1, <2>1, <2>2, <2>3
<1> HIDE DEF Was
<1>6. \A i, k \in 1 .. Len(s) : r[i] = r[k] => i = k
  BY <1>1, <1>3, <1>4
<1>7. DOMAIN r = 1 .. Len(s)
  BY ListFacts
<1>8. ASSUME NEW y \in ToSet(r) PROVE y \in ToSet(s)
  <2>1. PICK i \in 1 .. Len(s) : y = r[i]
    BY <1>2
  <2>2. Was(i) \in 1 .. Len(s) /\ r[i] = s[Was(i)]
    BY <1>3
  <2> QED BY <1>2, <2>1, <2>2
<1>9. ASSUME NEW y \in ToSet(s) PROVE y \in ToSet(r)
  <2>1. PICK k \in 1 .. Len(s) : y = s[k]
    BY <1>2
  <2>2. PICK i \in 1 .. Len(s) : Was(i) = k
    BY <1>5
  <2>3. r[i] = s[k]
    BY <1>3, <2>2
  <2> QED BY <1>2, <2>1, <2>3
<1>10. ToSet(r) = ToSet(s)
  BY <1>8, <1>9
<1> QED BY <1>6, <1>7, <1>10 DEF IsInjective

LEMMA FoundToFront ==
    ASSUME NEW S, NEW s \in Seq(S), NEW x \in ToSet(s), IsInjective(s)
    PROVE  /\ <<x>> \o RemoveFirst(s, x) \in Seq(S)
           /\ Len(<<x>> \o RemoveFirst(s, x)) = Len(s)
           /\ ToSet(<<x>> \o RemoveFirst(s, x)) = ToSet(s)
           /\ IsInjective(<<x>> \o RemoveFirst(s, x))
<1>1. /\ ToSet(s) = {s[i] : i \in 1 .. Len(s)} /\ ToSet(s) \subseteq S /\ Len(s) \in Nat
      /\ \A i, k \in 1 .. Len(s) : s[i] = s[k] => i = k
  BY ListFacts DEF IsInjective
<1>2. PICK n \in 1 .. Len(s) : s[n] = x
  BY <1>1
<1>3. {i \in 1 .. Len(s) : s[i] = x} = {n}
  BY <1>1, <1>2
<1>4. Min({n}) = n
  <2>1. \A m : m \in {n} /\ (\A y \in {n} : m <= y) <=> m = n
    BY <1>1
  <2> QED BY <2>1 DEF Min
<1>5. <<x>> \o RemoveFirst(s, x) = ToFront(s, n)
  BY <1>2, <1>3, <1>4 DEF RemoveFirst, SelectInSeq, ToFront
<1>6. PICK r \in Seq(S) :
          /\ r = ToFront(s, n) /\ Len(r) = Len(s)
          /\ \A i \in 1 .. Len(s) : r[i] = IF i = 1 THEN s[n] ELSE IF i <= n THEN s[i - 1] ELSE s[i]
  BY ToFrontIs
<1>7. IsInjective(r) /\ ToSet(r) = ToSet(s)
  BY <1>6, MovedToFront
<1> QED BY <1>5, <1>6, <1>7
=============================================================================
