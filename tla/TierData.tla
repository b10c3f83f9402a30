------------------------------ MODULE TierData ------------------------------
(* The data both storage tiers are built from, with the facts their proofs    *)
(* keep needing.                                                              *)
EXTENDS Integers, Sequences, FiniteSets, TLAPS

LOCAL INSTANCE FiniteSetTheorems

-----------------------------------------------------------------------------
(* container/list as both tiers use it: a list of distinct keys, position 1  *)
(* the front (most recently placed), the last position the back (the next    *)
(* eviction candidate).                                                      *)

Entries(l) == {l[i] : i \in 1..Len(l)}

Distinct(l) == \A i, j \in 1..Len(l) : l[i] = l[j] => i = j

Back(l) == l[Len(l)]

PushFront(l, k) == <<k>> \o l

\* list.Remove of the element that carries k; k is in the list.
RemoveKey(l, k) ==
    LET p == CHOOSE p \in 1..Len(l) : l[p] = k
    IN  [i \in 1..(Len(l) - 1) |-> IF i < p THEN l[i] ELSE l[i + 1]]

MoveToFront(l, k) == PushFront(RemoveKey(l, k), k)
-----------------------------------------------------------------------------
\* PushFront adds exactly its key, at the front, and keeps the keys distinct.
LEMMA PushFrontFacts ==
  ASSUME NEW K, NEW l \in Seq(K), NEW k \in K
  PROVE  /\ PushFront(l, k) \in Seq(K)
         /\ Entries(PushFront(l, k)) = Entries(l) \cup {k}
         /\ Distinct(l) /\ k \notin Entries(l) => Distinct(PushFront(l, k))
<1> DEFINE m == PushFront(l, k)
<1>1. /\ m \in Seq(K)
      /\ Len(m) = Len(l) + 1
      /\ m[1] = k
      /\ \A i \in 1..Len(l) : m[i + 1] = l[i]
  BY DEF PushFront
<1>2. \A i \in 1..Len(m) : i = 1 \/ (i - 1 \in 1..Len(l) /\ m[i] = l[i - 1])
  <2> SUFFICES ASSUME NEW i \in 1..Len(m), i # 1
               PROVE  i - 1 \in 1..Len(l) /\ m[i] = l[i - 1]
    OBVIOUS
  <2>1. i - 1 \in 1..Len(l) /\ (i - 1) + 1 = i
    BY <1>1
  <2> QED BY <2>1, <1>1
<1>3. Entries(m) = Entries(l) \cup {k}
  <2>1. ASSUME NEW x \in Entries(m) PROVE x \in Entries(l) \cup {k}
    <3>1. PICK i \in 1..Len(m) : x = m[i]
      BY DEF Entries
    <3>2. CASE i = 1
      BY <3>1, <3>2, <1>1
    <3>3. CASE i # 1
      BY <3>1, <3>3, <1>2 DEF Entries
    <3> QED BY <3>2, <3>3
  <2>2. ASSUME NEW x \in Entries(l) PROVE x \in Entries(m)
    <3>1. PICK i \in 1..Len(l) : x = l[i]
      BY DEF Entries
    <3>2. i + 1 \in 1..Len(m) /\ m[i + 1] = x
      BY <1>1, <3>1
    <3> QED BY <3>2 DEF Entries
  <2>3. k \in Entries(m)
    <3>1. 1 \in 1..Len(m)
      BY <1>1
    <3> QED BY <1>1, <3>1 DEF Entries
  <2> QED BY <2>1, <2>2, <2>3
<1>4. ASSUME Distinct(l), k \notin Entries(l) PROVE Distinct(m)
  <2> SUFFICES ASSUME NEW i \in 1..Len(m), NEW j \in 1..Len(m), m[i] = m[j]
               PROVE  i = j
    BY DEF Distinct
  <2>1. CASE i = 1 /\ j # 1
    BY <2>1, <1>1, <1>2, <1>4 DEF Entries
  <2>2. CASE j = 1 /\ i # 1
    BY <2>2, <1>1, <1>2, <1>4 DEF Entries
  <2>3. CASE i # 1 /\ j # 1
    <3>1. i - 1 = j - 1
      BY <2>3, <1>2, <1>4 DEF Distinct
    <3> QED BY <3>1, <1>1
  <2> QED BY <2>1, <2>2, <2>3
<1> QED BY <1>1, <1>3, <1>4

\* RemoveKey takes out exactly its key and keeps the others distinct.
LEMMA RemoveKeyFacts ==
  ASSUME NEW K, NEW l \in Seq(K), Distinct(l), NEW k \in Entries(l)
  PROVE  /\ RemoveKey(l, k) \in Seq(K)
         /\ Entries(RemoveKey(l, k)) = Entries(l) \ {k}
         /\ Distinct(RemoveKey(l, k))
<1> DEFINE p == CHOOSE p \in 1..Len(l) : l[p] = k
           m == [i \in 1..(Len(l) - 1) |-> IF i < p THEN l[i] ELSE l[i + 1]]
<1>1. p \in 1..Len(l) /\ l[p] = k
  BY DEF Entries
<1>2. RemoveKey(l, k) = m
  BY DEF RemoveKey
<1> HIDE DEF p
<1>3. Len(l) \in Nat /\ Len(l) - 1 \in Nat
  BY <1>1
<1>4. \A i \in 1..(Len(l) - 1) : i \in 1..Len(l) /\ i + 1 \in 1..Len(l)
  BY <1>3
<1>5. m \in Seq(K) /\ Len(m) = Len(l) - 1
  <2>1. \A i \in 1..(Len(l) - 1) : m[i] \in K
    BY <1>4
  <2>2. m \in [1..(Len(l) - 1) -> K]
    BY <2>1
  <2> QED BY <1>3, <2>2
<1>6. Entries(m) = Entries(l) \ {k}
  <2>1. ASSUME NEW x \in Entries(m) PROVE x \in Entries(l) \ {k}
    <3>1. PICK i \in 1..(Len(l) - 1) : x = m[i]
      BY <1>5 DEF Entries
    <3>2. CASE i < p
      BY <3>1, <3>2, <1>1, <1>4 DEF Entries, Distinct
    <3>3. CASE ~(i < p)
      <4>1. x = l[i + 1] /\ i + 1 \in 1..Len(l) /\ i + 1 # p
        BY <3>1, <3>3, <1>1, <1>4
      <4> QED BY <4>1, <1>1 DEF Entries, Distinct
    <3> QED BY <3>2, <3>3
  <2>2. ASSUME NEW x \in Entries(l) \ {k} PROVE x \in Entries(m)
    <3>1. PICK i \in 1..Len(l) : x = l[i]
      BY DEF Entries
    <3>2. i # p
      BY <3>1, <1>1, <2>2
    <3>3. CASE i < p
      <4>1. i \in 1..(Len(l) - 1) /\ m[i] = x
        BY <3>1, <3>3, <1>1, <1>3
      <4> QED BY <4>1, <1>5 DEF Entries
    <3>4. CASE i > p
      <4>1. i - 1 \in 1..(Len(l) - 1) /\ ~(i - 1 < p) /\ (i - 1) + 1 = i
        BY <3>4, <1>1, <1>3
      <4>2. m[i - 1] = x
        BY <4>1, <3>1
      <4> QED BY <4>1, <4>2, <1>5 DEF Entries
    <3> QED BY <3>2, <3>3, <3>4, <1>1
  <2> QED BY <2>1, <2>2
<1>7. Distinct(m)
  <2> SUFFICES ASSUME NEW i \in 1..(Len(l) - 1), NEW j \in 1..(Len(l) - 1), m[i] = m[j]
               PROVE  i = j
    BY <1>5 DEF Distinct
  <2>1. CASE i < p /\ j < p
    BY <2>1, <1>4 DEF Distinct
  <2>2. CASE i < p /\ ~(j < p)
    <3>1. l[i] = l[j + 1] /\ i # j + 1
      BY <2>2, <1>1
    <3> QED BY <3>1, <1>4 DEF Distinct
  <2>3. CASE ~(i < p) /\ j < p
    <3>1. l[i + 1] = l[j] /\ j # i + 1
      BY <2>3, <1>1
    <3> QED BY <3>1, <1>4 DEF Distinct
  <2>4. CASE ~(i < p) /\ ~(j < p)
    <3>1. l[i + 1] = l[j + 1]
      BY <2>4
    <3>2. i + 1 = j + 1
      BY <3>1, <1>4 DEF Distinct
    <3> QED BY <3>2
  <2> QED BY <2>1, <2>2, <2>3, <2>4
<1> QED BY <1>2, <1>5, <1>6, <1>7

\* MoveToFront reorders the list and changes nothing else.
LEMMA MoveToFrontFacts ==
  ASSUME NEW K, NEW l \in Seq(K), Distinct(l), NEW k \in Entries(l)
  PROVE  /\ MoveToFront(l, k) \in Seq(K)
         /\ Entries(MoveToFront(l, k)) = Entries(l)
         /\ Distinct(MoveToFront(l, k))
<1>1. k \in K
  BY DEF Entries
<1>2. /\ RemoveKey(l, k) \in Seq(K)
      /\ Entries(RemoveKey(l, k)) = Entries(l) \ {k}
      /\ Distinct(RemoveKey(l, k))
  BY RemoveKeyFacts
<1> DEFINE m == RemoveKey(l, k)
<1>3. m \in Seq(K) /\ Distinct(m) /\ k \notin Entries(m) /\ Entries(m) \cup {k} = Entries(l)
  BY <1>2
<1> HIDE DEF m
<1>4. /\ PushFront(m, k) \in Seq(K)
      /\ Entries(PushFront(m, k)) = Entries(m) \cup {k}
      /\ Distinct(PushFront(m, k))
  BY <1>1, <1>3, PushFrontFacts
<1> QED BY <1>3, <1>4 DEF MoveToFront, m

\* The back of a non-empty list is one of its keys.
LEMMA BackFacts ==
  ASSUME NEW K, NEW l \in Seq(K), l # <<>>
  PROVE  Back(l) \in Entries(l) /\ Back(l) \in K
<1>1. Len(l) \in 1..Len(l)
  OBVIOUS
<1> QED BY <1>1 DEF Back, Entries

-----------------------------------------------------------------------------
(* Sums of lengths.  The bytes of the objects in S, where f gives each its    *)
(* length, are the pairs <<x, i>> with i a position in x, and their number is *)
(* the cardinality of that set.                                               *)

ByteSet(S, f) == UNION {{x} \X (1..f[x]) : x \in S}

Bytes(S, f) == Cardinality(ByteSet(S, f))
-----------------------------------------------------------------------------
\* A finite set of objects has finitely many bytes.
LEMMA ByteSetFinite ==
  ASSUME NEW S, IsFiniteSet(S), NEW f, \A x \in S : f[x] \in Nat
  PROVE  IsFiniteSet(ByteSet(S, f)) /\ Bytes(S, f) \in Nat
<1> DEFINE F == [x \in S |-> {x} \X (1..f[x])]
           T == {{x} \X (1..f[x]) : x \in S}
<1>1. IsFiniteSet(T)
  <2>1. F \in Surjection(S, T)
    BY DEF Surjection
  <2> HIDE DEF F, T
  <2> QED BY <2>1, FS_Surjection
<1>2. ASSUME NEW t \in T PROVE IsFiniteSet(t)
  <2>1. PICK x \in S : t = {x} \X (1..f[x])
    OBVIOUS
  <2>2. IsFiniteSet({x})
    BY FS_Singleton
  <2>3. 1 \in Int /\ f[x] \in Int
    OBVIOUS
  <2>4. IsFiniteSet(1..f[x])
    BY <2>3, FS_Interval
  <2> QED BY <2>1, <2>2, <2>4, FS_Product
<1>3. IsFiniteSet(UNION T)
  BY <1>1, <1>2, FS_UNION
<1> QED BY <1>3, FS_CardinalityType DEF ByteSet, Bytes

\* An object that joins the set adds its length to the sum.
LEMMA BytesInsert ==
  ASSUME NEW S, IsFiniteSet(S), NEW x, x \notin S, NEW f, NEW g,
         \A y \in S : f[y] \in Nat /\ g[y] = f[y],
         NEW n \in Nat, g[x] = n
  PROVE  Bytes(S \cup {x}, g) = Bytes(S, f) + n
<1> DEFINE A == ByteSet(S, f)
           B == {x} \X (1..n)
<1>1. ByteSet(S \cup {x}, g) = A \cup B
  BY DEF ByteSet
<1>2. A \cap B = {}
  BY DEF ByteSet
<1>3. IsFiniteSet(A) /\ Cardinality(A) \in Nat
  BY ByteSetFinite DEF Bytes
<1>4. IsFiniteSet(B) /\ Cardinality(B) = n
  <2>1. IsFiniteSet({x}) /\ Cardinality({x}) = 1
    BY FS_Singleton
  <2>2. IsFiniteSet(1..n) /\ Cardinality(1..n) = n
    BY FS_Interval
  <2>3. IsFiniteSet(B) /\ Cardinality(B) = Cardinality({x}) * Cardinality(1..n)
    BY <2>1, <2>2, FS_Product
  <2> QED BY <2>1, <2>2, <2>3
<1>5. Cardinality({}) = 0
  BY FS_EmptySet
<1>6. Bytes(S \cup {x}, g) = Cardinality(A \cup B) /\ Bytes(S, f) = Cardinality(A)
  BY <1>1 DEF Bytes
<1> HIDE DEF A, B
<1>7. Cardinality(A \cup B) = Cardinality(A) + Cardinality(B) - Cardinality(A \cap B)
  BY <1>3, <1>4, FS_Union
<1>8. Cardinality(A \cap B) = 0
  BY <1>2, <1>5
<1>9. Cardinality(A \cup B) = Cardinality(A) + n
  BY <1>3, <1>4, <1>7, <1>8
<1> QED BY <1>6, <1>9

\* An object that leaves the set takes its length off the sum.
LEMMA BytesRemove ==
  ASSUME NEW S, IsFiniteSet(S), NEW x \in S, NEW f, NEW g,
         \A y \in S : f[y] \in Nat,
         \A y \in S \ {x} : g[y] = f[y]
  PROVE  Bytes(S \ {x}, g) = Bytes(S, f) - f[x]
<1> DEFINE T == S \ {x}
<1>1. IsFiniteSet(T) /\ x \notin T
  BY FS_RemoveElement
<1>2. T \cup {x} = S
  OBVIOUS
<1>3. f[x] \in Nat /\ \A y \in T : g[y] \in Nat /\ f[y] = g[y]
  OBVIOUS
<1> HIDE DEF T
<1>4. Bytes(T \cup {x}, f) = Bytes(T, g) + f[x]
  BY <1>1, <1>3, BytesInsert
<1>5. Bytes(T, g) \in Nat
  BY <1>1, <1>3, ByteSetFinite
<1>6. Bytes(S, f) = Bytes(T, g) + f[x]
  BY <1>2, <1>4
<1>7. f[x] \in Nat
  BY <1>3
<1>8. Bytes(T, g) = Bytes(S, f) - f[x]
  BY <1>5, <1>6, <1>7
<1> QED BY <1>8 DEF T

\* When one object changes length, the sum changes by the difference.
LEMMA BytesChange ==
  ASSUME NEW S, IsFiniteSet(S), NEW x \in S, NEW f, NEW g,
         \A y \in S : f[y] \in Nat,
         \A y \in S \ {x} : g[y] = f[y],
         NEW n \in Nat, g[x] = n
  PROVE  Bytes(S, g) = Bytes(S, f) - f[x] + n
<1> DEFINE T == S \ {x}
<1>1. IsFiniteSet(T) /\ x \notin T
  BY FS_RemoveElement
<1>2. T \cup {x} = S
  OBVIOUS
<1>3. Bytes(T, f) = Bytes(S, f) - f[x]
  BY BytesRemove
<1>4. \A y \in T : f[y] \in Nat /\ g[y] = f[y]
  OBVIOUS
<1>5. Bytes(T \cup {x}, g) = Bytes(T, f) + n
  <2> HIDE DEF T
  <2> QED BY <1>1, <1>4, BytesInsert
<1> QED BY <1>2, <1>3, <1>5

\* The sum depends only on the lengths of the objects in the set.
LEMMA BytesSame ==
  ASSUME NEW S, NEW f, NEW g, \A y \in S : g[y] = f[y]
  PROVE  Bytes(S, g) = Bytes(S, f)
BY DEF Bytes, ByteSet

\* Nothing resident, no bytes.
LEMMA BytesEmpty ==
  ASSUME NEW f
  PROVE  Bytes({}, f) = 0
<1>1. ByteSet({}, f) = {}
  BY DEF ByteSet
<1> QED BY <1>1, FS_EmptySet DEF Bytes

\* Objects without bytes add nothing.
LEMMA BytesZero ==
  ASSUME NEW S, NEW f, \A x \in S : f[x] = 0
  PROVE  Bytes(S, f) = 0
<1>1. ByteSet(S, f) = {}
  BY DEF ByteSet
<1> QED BY <1>1, FS_EmptySet DEF Bytes

\* A part of a finite set is finite.
LEMMA FinitePart ==
  ASSUME NEW S, IsFiniteSet(S), NEW T, T \subseteq S
  PROVE  IsFiniteSet(T)
BY FS_Subset

\* A part has at most the bytes of the whole.
LEMMA BytesSubset ==
  ASSUME NEW S, IsFiniteSet(S), NEW T \in SUBSET S, NEW f, \A x \in S : f[x] \in Nat
  PROVE  Bytes(T, f) <= Bytes(S, f)
<1>1. ByteSet(T, f) \subseteq ByteSet(S, f)
  BY DEF ByteSet
<1>2. IsFiniteSet(ByteSet(S, f))
  BY ByteSetFinite
<1> QED BY <1>1, <1>2, FS_Subset DEF Bytes
=============================================================================
